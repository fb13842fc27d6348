------------------------------ MODULE MCChunks ------------------------------
(***************************************************************************)
(* Instances of Chunks: all graphs in which one of three chunks requires   *)
(* nothing, itself or another one, an unknown name, or two chunks.         *)
(***************************************************************************)
EXTENDS Chunks

GraphLists == {<<>>, <<1>>, <<2>>, <<0, 3>>, <<2, 3>>}
=============================================================================
