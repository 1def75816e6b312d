--------------------------- MODULE MCUpdateDialog ---------------------------
(***************************************************************************)
(* The instance of UpdateDialog for TLC.                                   *)
(***************************************************************************)
EXTENDS UpdateDialog

OneDeath == [k \in FaultKinds |-> IF k = "die" THEN 1 ELSE 0]
=============================================================================
