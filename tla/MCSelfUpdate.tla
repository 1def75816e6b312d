---------------------------- MODULE MCSelfUpdate ----------------------------
(***************************************************************************)
(* Instances of SelfUpdate for TLC.                                        *)
(***************************************************************************)
EXTENDS SelfUpdate

\* A device whose VPN works without Debian's strongswan metapackage.
NoMetapackage == Packages \ {"strongswan"}

NoFaults  == [k \in FaultKinds |-> 0]
AllFaults == [k \in FaultKinds |-> 1]
=============================================================================
