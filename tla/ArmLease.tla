------------------------------ MODULE ArmLease ------------------------------
(***************************************************************************)
(* What arming promises, without handlers, helpers or files: a machine     *)
(* boots into a job only on a recorded lease of that job, except while the *)
(* one MAC in hand is being armed or its arm is being consumed.            *)
(***************************************************************************)
CONSTANTS Macs, Modes, None

VARIABLES
    record,  \* the job each machine is recorded as armed for, or None
    boots,   \* the job it boots into, or None
    hand     \* the MAC that is being armed or consumed, at most one

lease == <<record, boots, hand>>

Settled(m) == boots[m] \in {None, record[m]}

Init ==
    /\ record = [m \in Macs |-> None]
    /\ boots = [m \in Macs |-> None]
    /\ hand = {}

\* A record may change while its MAC is in hand; any other may only be
\* dropped, and only when the machine no longer boots.
Recorded ==
    \A m \in Macs \ hand : record'[m] # record[m] => record'[m] = None /\ boots[m] = None

\* A machine may stop booting at any time; it starts booting only into what
\* is recorded, or in hand.
Switched ==
    \A m \in Macs \ hand : boots'[m] # boots[m] => boots'[m] \in {None, record[m]}

Take ==
    /\ hand = {}
    /\ \E m \in Macs : hand' = {m}
    /\ UNCHANGED <<record, boots>>

Write  == Recorded /\ UNCHANGED <<boots, hand>>
Switch == Switched /\ UNCHANGED <<record, hand>>

\* The MAC in hand is let go, with the last change made for it, when what its
\* machine boots into is what is recorded.
Release ==
    /\ hand' = {}
    /\ \/ Recorded /\ UNCHANGED boots
       \/ Switched /\ UNCHANGED record
    /\ \A m \in Macs : Settled(m)'

Next == Take \/ Write \/ Switch \/ Release

Spec == Init /\ [][Next]_lease
=============================================================================
