----------------------------- MODULE MCExecute ------------------------------
(***************************************************************************)
(* Instances of Execute for TLC: one pipe slot, so that a writer meets a   *)
(* full pipe, and exit codes on both sides of the sign bit of a char.      *)
(***************************************************************************)
EXTENDS Execute

MCExitCodes == {0, 1, 200}
=============================================================================
