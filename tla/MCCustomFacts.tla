--------------------------- MODULE MCCustomFacts ----------------------------
(***************************************************************************)
(* Instances of CustomFacts.                                               *)
(***************************************************************************)
EXTENDS CustomFacts

(***************************************************************************)
(* A file named after each of three facts, and one that adds to one of     *)
(* them, up to as many resolutions as are allowed and also while it is     *)
(* evaluated: one of its resolutions has the name of one that is there, so *)
(* that each may redefine the other, with a confine more. Another file     *)
(* gives one name to two of its resolutions, a third to two kinds of       *)
(* resolutions. Blocks ask for a name nobody knows, which loads all; a     *)
(* file asks for a fact between what it adds; fact zone comes from the     *)
(* environment and has a resolution as well, which asks back.              *)
(***************************************************************************)
os == 1
role == 2
zone == 3
missing == 4

Adds(r) == [add |-> r]
Gets(n) == [value |-> n]

FilesFactOf == <<role, role, os, zone, zone, role, role, os, os>>
FilesNameOf == <<0, 1, 1, 1, 1, 1, 0, 1, 0>>
FilesAggregates == {5}
FilesHasWeight == <<-1, -1, 1, 5, -1, -1, 3, -1, -1>>
FilesConfines == <<
    <<>>, <<os>>, <<>>, <<0>>, <<>>, <<zone>>, <<>>, <<>>, <<>> >>
FilesAsks == <<
    <<missing>>, <<missing>>, <<missing>>, <<role>>, <<>>, <<>>, <<>>, <<missing>>, <<>> >>
FilesFileFact == <<os, role, zone, 0>>
FilesStatements == <<
    << Adds(3), Adds(8), Adds(9) >>,
    << Adds(1), Adds(2) >>,
    << Adds(4), Adds(5) >>,
    << Adds(6), Gets(role), Adds(7) >> >>
FilesEnvironment == {zone}
FilesBuiltIn == {os}
=============================================================================
