----------------------------- MODULE MCSniffer -----------------------------
(***************************************************************************)
(* Two machines of one workgroup, one of which has a reservation under a   *)
(* name in the DHCP server.                                                *)
(***************************************************************************)
EXTENDS Sniffer

CONSTANTS m1, m2

MCWorkgroup == <<66, 66, 66>>
MCGiven == [m \in Macs |-> IF m = m2 THEN {<<66, 65>>} ELSE {}]
=============================================================================
