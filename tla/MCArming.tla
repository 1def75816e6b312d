------------------------------ MODULE MCArming ------------------------------
(***************************************************************************)
(* Instances of Arming for TLC: the fault budgets of the runs.             *)
(***************************************************************************)
EXTENDS Arming, TLC

NoFaults == [k \in FaultKinds |-> 0]

\* One helper exits non-zero, one save fails, one disarm call is lost.
OneOfEach == [NoFaults EXCEPT !["exit"] = 1, !["save"] = 1, !["lost"] = 1]

\* Helpers time out and the process dies, but no helper exits non-zero.
CutShort == [NoFaults EXCEPT !["timeout"] = 1, !["save"] = 1, !["crash"] = 1]

\* One helper call runs into its timeout.
OneTimeout == [NoFaults EXCEPT !["timeout"] = 1]

\* Nothing that touches an arm treats one mode differently from the other.
ModeSymmetry == Permutations(Modes)

=============================================================================
