--------------------------- MODULE MCWindowsExecute ---------------------------
(* Checks of WindowsExecute.tla.                                              *)
EXTENDS WindowsExecute
=============================================================================
