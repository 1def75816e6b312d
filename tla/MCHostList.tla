----------------------------- MODULE MCHostList -----------------------------
(***************************************************************************)
(* Instances of HostList for TLC: the lists to start from, and the faults. *)
(***************************************************************************)
EXTENDS HostList

CONSTANTS m1, m2, i1, i2, l1, l2

OneOfEach == [k \in FaultKinds |-> 1]

\* The sniffer has heard the name of one of the two machines.
OneHeard == {{m2}}

Row(ip, m, n) == [host |-> ip, mac |-> m, name |-> n]

\* Two named devices; a row whose MAC is not known yet, and one known by its
\* MAC alone; two rows for one machine.
Lists == { <<Row(i1, m1, Label(l1)), Row(i2, m2, Label(l2))>>,
           <<Row(i1, None, Label(l1)), Row(None, m2, AutoName(m2))>>,
           <<Row(i1, m1, Label(l1)), Row(i2, m1, AutoName(m1))>> }
=============================================================================
