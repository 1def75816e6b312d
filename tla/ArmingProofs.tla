---------------------------- MODULE ArmingProofs ----------------------------
(***************************************************************************)
(* Proofs about Arming, for every set of MACs and clients, every TTL and   *)
(* every fault budget: its types, what a boot and an expiry need, that     *)
(* other records are kept, and that it implements ArmLease.                *)
(***************************************************************************)
EXTENDS Arming, TLAPS

USE DEF mishaps

\* A helper or save that raises leaves faults a function of the same type.
LEMMA FaultTyped ==
    ASSUME TypeOK, NEW kind \in FaultKinds, Fault(kind)
    PROVE  faults' \in [FaultKinds -> Nat]
  BY DEF TypeOK, Fault

MishapsTyped ==
    /\ late \subseteq LateCall /\ faults \in [FaultKinds -> Nat]
    /\ faults["timeout"] = 0 => late = {}

\* No call runs late before a first timeout.
LEMMA TimeoutCounted ==
    ASSUME TypeOK, NEW kind \in FaultKinds, Fault(kind)
    PROVE  /\ faults'["timeout"] = 0 => faults["timeout"] = 0
           /\ kind = "timeout" => faults'["timeout"] # 0
  BY DEF TypeOK, FaultKinds, Fault

LEMMA AllowlistTyped ==
    ASSUME Typed, NEW entries \in SUBSET Macs,
           AllowlistOk(entries) \/ AllowlistExit(entries) \/ AllowlistTimeout(entries)
    PROVE  allow' \subseteq Macs /\ served' \subseteq Macs /\ MishapsTyped'
  BY FaultTyped, TimeoutCounted
     DEF AllowlistOk, AllowlistExit, AllowlistTimeout, TypeOK, FaultKinds, MishapsTyped,
         mishaps, Typed, LateCall

LEMMA GrubTyped ==
    ASSUME Typed, NEW m \in Macs, NEW mode \in Modes \cup {None},
           GrubOk(m, mode) \/ GrubExit \/ GrubTimeout(m, mode)
    PROVE  grub' \in [Macs -> Modes \cup {None}] /\ MishapsTyped'
  BY FaultTyped, TimeoutCounted
     DEF GrubOk, GrubExit, GrubTimeout, TypeOK, FaultKinds, MishapsTyped, mishaps, Typed,
         LateCall

LEMMA SaveTyped ==
    ASSUME Typed, NEW records \in [Macs -> Record \cup {None}],
           SaveOk(records) \/ SaveFails
    PROVE  armed' \in [Macs -> Record \cup {None}] /\ MishapsTyped'
  BY FaultTyped, TimeoutCounted
     DEF SaveOk, SaveFails, TypeOK, FaultKinds, MishapsTyped, mishaps, Typed

Requests == [op : Ops, macs : SUBSET Macs, mode : Modes \cup {None}, due : Nat]

LEMMA EndTyped ==
    ASSUME EndRequest
    PROVE  /\ pc' = "idle" /\ req' \in Requests
           /\ mem' \in [Macs -> Record \cup {None}]
           /\ left' \subseteq Macs /\ cur' = None
           /\ HandlerShape'
  BY DEF EndRequest, NoRequest, NoRecords, Requests, Ops, Steps, HandlerShape, ArmSteps

LEMMA BeginTyped ==
    ASSUME Typed, NEW op \in Ops, NEW macs \in SUBSET Macs,
           NEW mode \in Modes \cup {None}, op = "arm" => mode \in Modes,
           op \in {"arm", "ipxe"} => \E m \in Macs : macs = {m},
           op = "ipxe" => IpxeInUse,
           Begin(op, macs, mode),
           pending' \in [Clients -> Nat], released' \subseteq Macs
    PROVE  Typed'
  BY DEF Typed, TypeOK, HandlerShape, Begin, files, Steps, ArmSteps

(***************************************************************************)
(* Every variable keeps its type: in particular a handler always has a MAC *)
(* in cur when it is about to remove a GRUB file, and an arm request has a *)
(* mode.                                                                   *)
(***************************************************************************)
LEMMA TypeInit == Init => Typed
  BY ArmingAssumption DEF Init, Typed, TypeOK, HandlerShape, ArmSteps, NoRecords, NoRequest, Ops, Steps, FaultKinds

LEMMA RequestTyped ==
    ASSUME Typed, Request
    PROVE  Typed'
  <1> USE DEF Typed
  <1>1. CASE ApiStatus
    BY <1>1, BeginTyped DEF ApiStatus, Ops, TypeOK
  <1>2. ASSUME NEW m \in Macs, NEW mode \in Modes, ArmHost(m, mode)
        PROVE  Typed'
    <2>1. pending' \in [Clients -> Nat] /\ released' \subseteq Macs
      BY <1>2 DEF ArmHost, TypeOK
    <2>2. QED
      BY <1>2, <2>1, BeginTyped DEF ArmHost, Ops
  <1>3. ASSUME NEW ms \in SUBSET Macs, DisarmHost(ms) \/ ScanReplace(ms)
        PROVE  Typed'
    BY <1>3, BeginTyped DEF DisarmHost, ScanReplace, Ops, TypeOK
  <1>4. ASSUME NEW m \in Macs, RemoveHost(m) \/ IpxeBoot(m)
        PROVE  Typed'
    BY <1>4, BeginTyped DEF RemoveHost, IpxeBoot, Ops, TypeOK
  <1>5. ASSUME NEW m \in Clients, DisarmMac(m)
        PROVE  Typed'
    <2>1. pending' \in [Clients -> Nat] /\ released' \subseteq Macs
      BY <1>5 DEF DisarmMac, TypeOK
    <2>2. m \in Macs
      BY ArmingAssumption
    <2>3. QED
      BY <1>5, <2>1, <2>2, BeginTyped DEF DisarmMac, Ops
  <1>6. QED
    BY <1>1, <1>2, <1>3, <1>4, <1>5 DEF Request

\* The types and the handler's shape after a step of the handler.
LEMMA HandlerTyped ==
    ASSUME Typed, HandlerStep
    PROVE  Typed'
  <1> USE DEF clients, files, Typed, mishaps, MishapsTyped
  <1>1. CASE PruneAllow
    <2>1. PICK m \in left : /\ mem' = [mem EXCEPT ![m] = None]
                            /\ cur' = m
                            /\ \/ AllowlistOk(allow \ {m})
                               \/ AllowlistExit(allow \ {m})
                               \/ AllowlistTimeout(allow \ {m})
      BY <1>1 DEF PruneAllow
    <2>2. allow \ {m} \in SUBSET Macs /\ m \in Macs
      BY DEF TypeOK
    <2>3. allow' \subseteq Macs /\ served' \subseteq Macs /\ MishapsTyped'
      BY <2>1, <2>2, AllowlistTyped
    <2>4. QED
      BY <1>1, <2>1, <2>2, <2>3 DEF PruneAllow, TypeOK, HandlerShape, Steps, ArmSteps
  <1>2. CASE PruneGrub
    <2>1. cur \in Macs
      BY <1>2 DEF PruneGrub, HandlerShape
    <2>2. grub' \in [Macs -> Modes \cup {None}] /\ MishapsTyped'
      BY <1>2, <2>1, GrubTyped DEF PruneGrub
    <2>3. QED
      BY <1>2, <2>1, <2>2, EndTyped DEF PruneGrub, TypeOK, HandlerShape, Steps, Requests, ArmSteps
  <1>3. CASE StatusSave \/ IpxeMiss
    <2>1. armed' \in [Macs -> Record \cup {None}] /\ MishapsTyped'
      BY <1>3, SaveTyped DEF StatusSave, IpxeMiss, TypeOK
    <2>2. QED
      BY <1>3, <2>1, EndTyped DEF StatusSave, IpxeMiss, TypeOK, Requests, Steps
  <1>4. CASE ArmSavePruned
    <2>1. armed' \in [Macs -> Record \cup {None}] /\ MishapsTyped'
      BY <1>4, SaveTyped DEF ArmSavePruned, TypeOK
    <2>2. now + ArmTTL \in Nat
      BY ArmingAssumption DEF TypeOK
    <2>3. QED
      BY <1>4, <2>1, <2>2, EndTyped
         DEF ArmSavePruned, Pruned, TypeOK, HandlerShape, Requests, Steps, ArmSteps
  <1>5. CASE GrubWrite
    <2>1. PICK m \in req.macs :
            \/ /\ GrubOk(m, req.mode)
               /\ pc' = "allow_add"
               /\ UNCHANGED <<req, mem, left, cur>>
            \/ /\ GrubExit \/ GrubTimeout(m, req.mode)
               /\ EndRequest
      BY <1>5 DEF GrubWrite
    <2>2. m \in Macs /\ req.mode \in Modes \cup {None}
      BY DEF TypeOK
    <2>3. grub' \in [Macs -> Modes \cup {None}] /\ MishapsTyped'
      BY <2>1, <2>2, GrubTyped
    <2>4. QED
      BY <1>5, <2>1, <2>3, EndTyped DEF GrubWrite, TypeOK, HandlerShape, Requests, Steps, ArmSteps
  <1>6. CASE AllowAdd
    <2>1. PICK m \in req.macs :
            \/ /\ AllowlistOk(allow \cup {m})
               /\ pc' = "save_arm"
               /\ UNCHANGED <<req, mem, left, cur>>
            \/ /\ AllowlistExit(allow \cup {m})
               /\ pc' = "undo_grub"
               /\ UNCHANGED <<req, mem, left, cur>>
            \/ AllowlistTimeout(allow \cup {m}) /\ EndRequest
      BY <1>6 DEF AllowAdd
    <2>2. allow \cup {m} \in SUBSET Macs
      BY DEF TypeOK
    <2>3. allow' \subseteq Macs /\ served' \subseteq Macs /\ MishapsTyped'
      BY <2>1, <2>2, AllowlistTyped
    <2>4. QED
      BY <1>6, <2>1, <2>3, EndTyped DEF AllowAdd, TypeOK, HandlerShape, Requests, Steps, ArmSteps
  <1>7. CASE SaveArm
    <2>1. ArmedRecord \in Record
      BY <1>7 DEF SaveArm, ArmedRecord, Record, TypeOK, HandlerShape, ArmSteps
    <2>2. PICK m \in req.macs :
            \/ SaveOk([mem EXCEPT ![m] = ArmedRecord]) /\ EndRequest
            \/ /\ SaveFails
               /\ pc' = "undo_allow"
               /\ UNCHANGED <<req, mem, left, cur>>
      BY <1>7 DEF SaveArm
    <2>3. [mem EXCEPT ![m] = ArmedRecord] \in [Macs -> Record \cup {None}]
      BY <2>1 DEF TypeOK
    <2>4. armed' \in [Macs -> Record \cup {None}] /\ MishapsTyped'
      BY <2>2, <2>3, SaveTyped
    <2>5. QED
      BY <1>7, <2>2, <2>4, EndTyped DEF SaveArm, TypeOK, HandlerShape, Requests, Steps, ArmSteps
  <1>8. CASE UndoAllow
    <2>1. PICK m \in req.macs : \/ AllowlistOk(allow \ {m})
                                \/ AllowlistExit(allow \ {m})
                                \/ AllowlistTimeout(allow \ {m})
      BY <1>8 DEF UndoAllow
    <2>2. allow' \subseteq Macs /\ served' \subseteq Macs /\ MishapsTyped'
      BY <2>1, AllowlistTyped DEF TypeOK
    <2>3. QED
      BY <1>8, <2>2 DEF UndoAllow, TypeOK, HandlerShape, Steps, ArmSteps
  <1>9. CASE UndoGrub
    <2>1. PICK m \in req.macs : GrubOk(m, None) \/ GrubExit \/ GrubTimeout(m, None)
      BY <1>9 DEF UndoGrub
    <2>2. grub' \in [Macs -> Modes \cup {None}] /\ MishapsTyped'
      BY <2>1, GrubTyped DEF TypeOK
    <2>3. QED
      BY <1>9, <2>2, EndTyped DEF UndoGrub, TypeOK, Requests, Steps
  <1>10. CASE StartClear
    BY <1>10 DEF StartClear, Hit, TypeOK, HandlerShape, Steps, ArmSteps
  <1>11. CASE DisarmUnrecorded
    BY <1>11 DEF DisarmUnrecorded, Pruned, TypeOK, HandlerShape, Steps, ArmSteps
  <1>12. CASE RemoveUnrecorded
    BY <1>12, EndTyped DEF RemoveUnrecorded, TypeOK, Requests, Steps
  <1>13. CASE ClearAllow
    <2>1. PICK m \in left :
            \/ /\ AllowlistOk(allow \ {m}) \/ AllowlistExit(allow \ {m})
               /\ mem' = [mem EXCEPT ![m] = None]
               /\ cur' = m
               /\ pc' = "clear_grub"
               /\ UNCHANGED <<req, left>>
            \/ AllowlistTimeout(allow \ {m}) /\ EndRequest
      BY <1>13 DEF ClearAllow
    <2>2. allow \ {m} \in SUBSET Macs /\ m \in Macs
      BY DEF TypeOK
    <2>3. allow' \subseteq Macs /\ served' \subseteq Macs /\ MishapsTyped'
      BY <2>1, <2>2, AllowlistTyped
    <2>4. QED
      BY <1>13, <2>1, <2>2, <2>3, EndTyped
         DEF ClearAllow, TypeOK, HandlerShape, Requests, Steps, ArmSteps
  <1>14. CASE ClearGrub
    <2>1. cur \in Macs
      BY <1>14 DEF ClearGrub, HandlerShape
    <2>2. grub' \in [Macs -> Modes \cup {None}] /\ MishapsTyped'
      BY <1>14, <2>1, GrubTyped DEF ClearGrub
    <2>3. QED
      BY <1>14, <2>1, <2>2, EndTyped DEF ClearGrub, TypeOK, HandlerShape, Steps, Requests, ArmSteps
  <1>15. CASE ClearSave
    <2>1. armed' \in [Macs -> Record \cup {None}] /\ MishapsTyped'
      BY <1>15, SaveTyped DEF ClearSave, TypeOK
    <2>2. released' \subseteq Macs
      BY <1>15 DEF ClearSave, TypeOK
    <2>3. QED
      BY <1>15, <2>1, <2>2, EndTyped DEF ClearSave, TypeOK, Requests, Steps
  <1>16. CASE IpxeConsume
    <2>1. PICK m \in Hit : mem' = [mem EXCEPT ![m] = None] /\ (SaveOk(mem') \/ SaveFails)
      BY <1>16 DEF IpxeConsume
    <2>2. mem' \in [Macs -> Record \cup {None}]
      BY <2>1 DEF TypeOK
    <2>3. armed' \in [Macs -> Record \cup {None}] /\ MishapsTyped'
      BY <2>1, <2>2, SaveTyped
    <2>4. QED
      BY <1>16, <2>2, <2>3 DEF IpxeConsume, Pruned, TypeOK, HandlerShape, Steps, ArmSteps
  <1>17. CASE IpxeAllow
    <2>1. PICK m \in req.macs : \/ AllowlistOk(allow \ {m})
                                \/ AllowlistExit(allow \ {m})
                                \/ AllowlistTimeout(allow \ {m})
      BY <1>17 DEF IpxeAllow
    <2>2. allow' \subseteq Macs /\ served' \subseteq Macs /\ MishapsTyped'
      BY <2>1, AllowlistTyped DEF TypeOK
    <2>3. QED
      BY <1>17, <2>2, EndTyped DEF IpxeAllow, TypeOK, Requests, Steps
  <1>18. QED
    BY <1>1, <1>2, <1>3, <1>4, <1>5, <1>6, <1>7, <1>8, <1>9, <1>10, <1>11, <1>12, <1>13,
       <1>14, <1>15, <1>16, <1>17 DEF HandlerStep

\* The steps of everything but the handlers leave the handler's registers alone.
LEMMA EnvironmentTyped ==
    ASSUME Typed, LateHelper \/ Crash \/ DnsmasqRestart \/ ClientStep \/ Tick
    PROVE  Typed'
  <1> USE DEF Typed
  <1>1. CASE Crash
    <2>1. faults' \in [FaultKinds -> Nat]
      BY <1>1, FaultTyped DEF Crash, FaultKinds
    <2>2. late' = {}
      BY <1>1 DEF Crash
    <2>3. QED
      BY <1>1, <2>1, <2>2, EndTyped DEF Crash, files, TypeOK, Requests, Steps
  <1>2. CASE DnsmasqRestart
    BY <1>2 DEF DnsmasqRestart, TypeOK, HandlerShape, handler, clients
  <1>3. ASSUME NEW m \in Clients,
               PxeBoot(m) \/ GrubLoad(m) \/ StartJob(m) \/ FinishJob(m) \/ Reboot(m)
        PROVE  Typed'
    <2>1. machine' \in [Clients -> {"local", "grub", "live", "job"}]
      BY <1>3 DEF PxeBoot, GrubLoad, StartJob, FinishJob, Reboot, TypeOK
    <2>2. pending' \in [Clients -> Nat] /\ MishapsTyped'
      BY <1>3, FaultTyped, TimeoutCounted
         DEF PxeBoot, GrubLoad, StartJob, FinishJob, Reboot, SendDisarm, TypeOK, FaultKinds,
             MishapsTyped
    <2>3. UNCHANGED <<armed, files, now, handler, released>>
      BY <1>3 DEF PxeBoot, GrubLoad, StartJob, FinishJob, Reboot
    <2>4. QED
      BY <2>1, <2>2, <2>3 DEF TypeOK, HandlerShape, files, handler, MishapsTyped
  <1>4. CASE Tick
    BY <1>4 DEF Tick, TypeOK, HandlerShape, files, handler, clients
  <1>5. CASE LateHelper
    <2>1. PICK call \in late :
            /\ late' = late \ {call}
            /\ \/ /\ call.file = "allow"
                  /\ allow' = call.entries
                  /\ served' \in {served, call.entries}
                  /\ UNCHANGED grub
               \/ /\ call.file = "grub"
                  /\ grub' = [grub EXCEPT ![call.mac] = call.mode]
                  /\ UNCHANGED <<allow, served>>
      BY <1>5 DEF LateHelper
    <2>2. \/ call.file = "allow" /\ call.entries \subseteq Macs
          \/ call.file = "grub" /\ call.mode \in Modes \cup {None}
      BY DEF TypeOK, LateCall
    <2>3. /\ allow' \subseteq Macs /\ served' \subseteq Macs /\ late' \subseteq LateCall
          /\ grub' \in [Macs -> Modes \cup {None}]
      BY <2>1, <2>2 DEF TypeOK
    <2>4. QED
      BY <1>5, <2>3 DEF LateHelper, TypeOK, HandlerShape, handler, clients
  <1>6. QED
    BY <1>1, <1>2, <1>3, <1>4, <1>5 DEF ClientStep

LEMMA TypedStep ==
    ASSUME Typed, [Next]_vars
    PROVE  Typed'
  <1>1. CASE UNCHANGED vars
    BY <1>1 DEF vars, files, handler, clients, Typed, TypeOK, HandlerShape
  <1>2. QED
    BY <1>1, RequestTyped, HandlerTyped, EnvironmentTyped DEF Next

LEMMA TypedAlways == Spec => []Typed
  <1>1. Typed /\ [Next]_vars => Typed'
    BY TypedStep
  <1>2. QED
    BY TypeInit, <1>1, PTL DEF Spec

\* The variables keep their types, whatever the faults and their number.
THEOREM TypeCorrect == Spec => []TypeOK
  BY TypedAlways, PTL DEF Typed

-----------------------------------------------------------------------------
(***************************************************************************)
(* BootNeedsRecord.  The inductive invariant is FilesAgree: a revocation   *)
(* makes two helper calls for a MAC, of which a tolerated run fails at     *)
(* most one, so one of the two boot files is gone when the record goes.    *)
(***************************************************************************)

\* What a fault of each kind does to the budget that Tolerated allows.
LEMMA FaultBudget ==
    ASSUME Typed, NEW kind \in FaultKinds, Fault(kind)
    PROVE  /\ Tolerated' => Tolerated
           /\ kind \in {"timeout", "crash"} => ~Tolerated'
           /\ kind \in {"save", "lost"} => faults'["exit"] = faults["exit"]
           /\ kind = "exit" /\ Tolerated' =>
                  faults["exit"] = 0 /\ faults'["exit"] = 1 /\ ~IpxeInUse
  BY DEF Typed, TypeOK, FaultKinds, Fault, Tolerated

\* Taking m out of the allowlist: nothing is added, and if m is still in one
\* of the two sets a helper has exited non-zero.
LEMMA RevokeAllow ==
    ASSUME Typed, NEW m \in Macs, Tolerated',
           \/ AllowlistOk(allow \ {m})
           \/ AllowlistExit(allow \ {m})
           \/ AllowlistTimeout(allow \ {m})
    PROVE  /\ Tolerated
           /\ BootFiles' \subseteq BootFiles
           /\ m \in BootFiles' => faults'["exit"] # 0
           /\ faults'["exit"] = 0 => faults["exit"] = 0
  <1>1. CASE AllowlistOk(allow \ {m})
    BY <1>1 DEF AllowlistOk, BootFiles, Tolerated
  <1>2. CASE AllowlistExit(allow \ {m})
    BY <1>2, FaultBudget DEF AllowlistExit, BootFiles, FaultKinds
  <1>3. CASE AllowlistTimeout(allow \ {m})
    BY <1>3, FaultBudget DEF AllowlistTimeout, FaultKinds
  <1>4. QED
    BY <1>1, <1>2, <1>3

\* Removing the GRUB file of m: it is gone, or the one failure is this one.
LEMMA RevokeGrub ==
    ASSUME Typed, NEW m \in Macs, Tolerated',
           GrubOk(m, None) \/ GrubExit \/ GrubTimeout(m, None)
    PROVE  /\ Tolerated
           /\ \A x \in Macs : x # m => grub'[x] = grub[x]
           /\ \/ grub'[m] = None /\ UNCHANGED faults
              \/ UNCHANGED grub /\ faults["exit"] = 0 /\ faults'["exit"] = 1 /\ ~IpxeInUse
  <1>1. CASE GrubOk(m, None)
    BY <1>1 DEF GrubOk, Tolerated, Typed, TypeOK
  <1>2. CASE GrubExit
    BY <1>2, FaultBudget DEF GrubExit, FaultKinds
  <1>3. CASE GrubTimeout(m, None)
    BY <1>3, FaultBudget DEF GrubTimeout, FaultKinds
  <1>4. QED
    BY <1>1, <1>2, <1>3

LEMMA SaveAgrees ==
    ASSUME Typed, NEW records, Tolerated', SaveOk(records) \/ SaveFails
    PROVE  /\ Tolerated
           /\ armed' = records \/ armed' = armed
           /\ faults'["exit"] = faults["exit"]
  <1>1. CASE SaveOk(records)
    BY <1>1 DEF SaveOk, Tolerated
  <1>2. CASE SaveFails
    BY <1>2, FaultBudget DEF SaveFails, FaultKinds
  <1>3. QED
    BY <1>1, <1>2

\* A handler that is over has nothing in hand: what is left to show is that
\* the boot files agree with state.json.
LEMMA EndAgrees ==
    ASSUME EndRequest, \A m \in Macs : Agrees(armed, m)'
    PROVE  FilesAgree'
  BY DEF EndRequest, FilesAgree, NoRequest, BeingArmed

LEMMA BeginAgrees ==
    ASSUME Typed, Tolerated => FilesAgree, Tolerated', Request
    PROVE  FilesAgree'
  <1>1. PICK op, macs, mode : Begin(op, macs, mode)
    BY DEF Request, ApiStatus, ArmHost, DisarmHost, ScanReplace, RemoveHost, DisarmMac, IpxeBoot
  <1>2. Tolerated /\ pc = "idle" /\ pc' = "prune"
    BY <1>1 DEF Begin, Tolerated
  <1>3. \A m \in Macs : Agrees(armed, m)' /\ Agrees(mem, m)'
    BY <1>1, <1>2 DEF Begin, FilesAgree, Agrees, BeingArmed, files, BootFiles
  <1>4. QED
    BY <1>2, <1>3 DEF FilesAgree

\* The loops of prune_expired and of the disarming handlers.
LEMMA RevokeAgrees ==
    ASSUME Typed, Tolerated => FilesAgree, Tolerated',
           PruneAllow \/ PruneGrub \/ ClearAllow \/ ClearGrub
    PROVE  FilesAgree'
  <1>1. CASE PruneAllow \/ ClearAllow
    <2>1. ASSUME NEW m \in left,
                 \/ AllowlistOk(allow \ {m})
                 \/ AllowlistExit(allow \ {m})
                 \/ AllowlistTimeout(allow \ {m}),
                 mem' = [mem EXCEPT ![m] = None], cur' = m,
                 pc' \in {"prune_grub", "clear_grub"}, UNCHANGED <<armed, grub, req>>,
                 pc \in {"prune", "clear"}
          PROVE  FilesAgree'
      <3>1. m \in Macs
        BY DEF Typed, TypeOK
      <3>2. /\ Tolerated /\ BootFiles' \subseteq BootFiles
            /\ m \in BootFiles' => faults'["exit"] # 0
            /\ faults'["exit"] = 0 => faults["exit"] = 0
        BY <2>1, <3>1, RevokeAllow
      <3>3. \A x \in Macs : Agrees(armed, x)'
        BY <2>1, <3>2 DEF FilesAgree, BeingArmed, Agrees
      <3>4. \A x \in Macs : x # m => Agrees(mem, x)'
        BY <2>1, <3>2, ArmingAssumption
           DEF FilesAgree, BeingArmed, Agrees, Typed, TypeOK, HandlerShape
      <3>5. mem'[m] = None
        BY <2>1, <3>1 DEF Typed, TypeOK
      <3>6. QED
        BY <2>1, <3>2, <3>3, <3>4, <3>5 DEF FilesAgree
    <2>2. ASSUME NEW m \in left, AllowlistTimeout(allow \ {m})
          PROVE  FALSE
      BY <2>2, FaultBudget DEF AllowlistTimeout, FaultKinds
    <2>3. QED
      BY <1>1, <2>1, <2>2 DEF PruneAllow, ClearAllow
  <1>2. CASE PruneGrub \/ ClearGrub
    <2>1. cur \in Macs /\ pc \in {"prune_grub", "clear_grub"}
      BY <1>2 DEF PruneGrub, ClearGrub, Typed, HandlerShape
    <2>2. GrubOk(cur, None) \/ GrubExit \/ GrubTimeout(cur, None)
      BY <1>2 DEF PruneGrub, ClearGrub
    <2>3. /\ Tolerated
          /\ \A x \in Macs : x # cur => grub'[x] = grub[x]
          /\ \/ grub'[cur] = None /\ UNCHANGED faults
             \/ UNCHANGED grub /\ faults["exit"] = 0 /\ faults'["exit"] = 1 /\ ~IpxeInUse
      BY <2>1, <2>2, RevokeGrub
    <2>4. UNCHANGED <<armed, allow, served>> /\ UNCHANGED BootFiles
      BY <1>2 DEF PruneGrub, ClearGrub, BootFiles
    <2>5. \A x \in Macs : Agrees(armed, x)'
      BY <2>1, <2>3, <2>4 DEF FilesAgree, BeingArmed, Agrees
    <2>6. CASE EndRequest
      BY <2>5, <2>6, EndAgrees
    <2>7. CASE ~EndRequest
      <3>1. UNCHANGED <<req, mem>> /\ cur' = None /\ pc' \in {"prune", "clear"}
        BY <1>2, <2>7 DEF PruneGrub, ClearGrub
      <3>2. \A x \in Macs : Agrees(mem, x)'
        BY <2>1, <2>3, <2>4, <3>1 DEF FilesAgree, BeingArmed, Agrees
      <3>3. QED
        BY <2>5, <3>1, <3>2 DEF FilesAgree
    <2>8. QED
      BY <2>6, <2>7
  <1>3. QED
    BY <1>1, <1>2

\* The steps of arm_host.
LEMMA ArmAgrees ==
    ASSUME Typed, Tolerated => FilesAgree, Tolerated',
           \/ ArmSavePruned \/ GrubWrite \/ AllowAdd
           \/ SaveArm \/ UndoAllow \/ UndoGrub
    PROVE  FilesAgree'
  <1>0. PICK m \in Macs : req.op = "arm" => req.macs = {m} /\ req.mode \in Modes
    BY DEF Typed, HandlerShape, ArmSavePruned, GrubWrite, AllowAdd, SaveArm, UndoAllow,
           UndoGrub, ArmSteps, Pruned
  <1>1. /\ req.op = "arm" /\ req.macs = {m} /\ req.mode \in Modes
        /\ cur = None /\ None \notin Modes /\ None \notin Macs
    BY <1>0, ArmingAssumption
       DEF Typed, HandlerShape, ArmSavePruned, GrubWrite, AllowAdd, SaveArm, UndoAllow,
           UndoGrub, ArmSteps, Pruned
  <1>2. CASE ArmSavePruned
    <2>1. /\ Tolerated /\ (armed' = mem \/ armed' = armed)
          /\ faults'["exit"] = faults["exit"]
      BY <1>2, SaveAgrees DEF ArmSavePruned
    <2>2. pc = "prune" /\ UNCHANGED <<grub, BootFiles>>
      BY <1>2 DEF ArmSavePruned, Pruned, files, BootFiles
    <2>3. \A x \in Macs : Agrees(armed, x)'
      BY <1>1, <2>1, <2>2 DEF FilesAgree, BeingArmed, Agrees
    <2>4. CASE EndRequest
      BY <2>3, <2>4, EndAgrees
    <2>5. CASE ~EndRequest
      <3>1. pc' = "grub_write" /\ UNCHANGED <<mem, cur>>
        BY <1>2, <2>5 DEF ArmSavePruned
      <3>2. \A x \in Macs : Agrees(mem, x)'
        BY <1>1, <2>1, <2>2, <3>1 DEF FilesAgree, BeingArmed, Agrees
      <3>3. QED
        BY <2>3, <3>1, <3>2 DEF FilesAgree
    <2>6. QED
      BY <2>4, <2>5
  <1>3. CASE GrubWrite
    <2>1. pc = "grub_write" /\ UNCHANGED <<armed, BootFiles>>
      BY <1>3 DEF GrubWrite, BootFiles
    <2>2. CASE GrubOk(m, req.mode) /\ pc' = "allow_add" /\ UNCHANGED <<req, mem, left, cur>>
      <3>1. Tolerated /\ UNCHANGED faults
        BY <2>2 DEF GrubOk, Tolerated
      <3>2. grub'[m] = req.mode /\ \A x \in Macs : x # m => grub'[x] = grub[x]
        BY <2>2 DEF GrubOk, Typed, TypeOK
      <3>3. \A x \in Macs : x # m => Agrees(armed, x)' /\ Agrees(mem, x)'
        BY <1>1, <2>1, <2>2, <3>1, <3>2 DEF FilesAgree, BeingArmed, Agrees
      <3>4. faults["exit"] = 0 /\ m \in BootFiles => armed[m] # None
        BY <1>1, <2>1, <3>1 DEF FilesAgree, BeingArmed, Agrees
      <3>5. QED
        BY <1>1, <2>1, <2>2, <3>1, <3>2, <3>3, <3>4 DEF FilesAgree, BeingArmed
    <2>3. CASE (GrubExit \/ GrubTimeout(m, req.mode)) /\ EndRequest
      <3>1. GrubExit /\ Tolerated /\ faults["exit"] = 0 /\ faults'["exit"] = 1
        BY <2>3, FaultBudget DEF GrubTimeout, GrubExit, FaultKinds
      <3>2. \A x \in Macs : Agrees(armed, x)'
        BY <1>1, <2>1, <3>1 DEF FilesAgree, BeingArmed, Agrees, GrubExit
      <3>3. QED
        BY <2>3, <3>2, EndAgrees
    <2>4. QED
      BY <1>1, <1>3, <2>2, <2>3 DEF GrubWrite
  <1>4. CASE AllowAdd
    <2>1. pc = "allow_add" /\ UNCHANGED <<armed, grub>>
      BY <1>4 DEF AllowAdd
    <2>2. CASE AllowlistOk(allow \cup {m}) /\ pc' = "save_arm" /\ UNCHANGED <<req, mem, left, cur>>
      <3>1. Tolerated /\ UNCHANGED faults /\ BootFiles' \subseteq BootFiles \cup {m}
        BY <2>2 DEF AllowlistOk, Tolerated, BootFiles
      <3>2. \A x \in Macs : x # m => Agrees(armed, x)' /\ Agrees(mem, x)'
        BY <1>1, <2>1, <2>2, <3>1 DEF FilesAgree, BeingArmed, Agrees
      <3>3. QED
        BY <1>1, <2>1, <2>2, <3>1, <3>2 DEF FilesAgree, BeingArmed
    <2>3. CASE AllowlistExit(allow \cup {m}) /\ pc' = "undo_grub" /\ UNCHANGED <<req, mem, left, cur>>
      <3>1. /\ Tolerated /\ faults["exit"] = 0 /\ faults'["exit"] = 1
            /\ BootFiles' \subseteq BootFiles \cup {m}
        BY <2>3, FaultBudget DEF AllowlistExit, BootFiles, FaultKinds
      <3>2. \A x \in Macs : x # m => Agrees(armed, x)' /\ Agrees(mem, x)'
        BY <1>1, <2>1, <2>3, <3>1 DEF FilesAgree, BeingArmed, Agrees
      <3>3. QED
        BY <1>1, <2>1, <2>3, <3>1, <3>2 DEF FilesAgree, BeingArmed
    <2>4. CASE AllowlistTimeout(allow \cup {m})
      BY <2>4, FaultBudget DEF AllowlistTimeout, FaultKinds
    <2>5. QED
      BY <1>1, <1>4, <2>2, <2>3, <2>4 DEF AllowAdd
  <1>5. CASE SaveArm
    <2>1. pc = "save_arm" /\ UNCHANGED <<grub, BootFiles>>
      BY <1>5 DEF SaveArm, files, BootFiles
    <2>2. CASE SaveOk([mem EXCEPT ![m] = ArmedRecord]) /\ EndRequest
      <3>1. Tolerated /\ UNCHANGED faults /\ armed' = [mem EXCEPT ![m] = ArmedRecord]
        BY <2>2 DEF SaveOk, Tolerated
      <3>2. ArmedRecord # None /\ ArmedRecord.mode = grub[m] /\ armed'[m] = ArmedRecord
        <4>1. ArmedRecord \in Record
          BY <1>1 DEF ArmedRecord, Record, Typed, TypeOK
        <4>2. QED
          BY <1>1, <2>1, <3>1, <4>1, ArmingAssumption DEF ArmedRecord, FilesAgree, Typed, TypeOK
      <3>3. Agrees(armed, m)'
        BY <2>1, <3>1, <3>2 DEF Agrees
      <3>4. \A x \in Macs : x # m => Agrees(armed, x)'
        BY <1>1, <2>1, <3>1 DEF FilesAgree, BeingArmed, Agrees, Typed, TypeOK
      <3>5. QED
        BY <2>2, <3>3, <3>4, EndAgrees
    <2>3. CASE SaveFails /\ pc' = "undo_allow" /\ UNCHANGED <<req, mem, left, cur>>
      <3>1. Tolerated /\ faults'["exit"] = faults["exit"] /\ UNCHANGED armed
        BY <2>3, FaultBudget DEF SaveFails, FaultKinds
      <3>2. \A x \in Macs : x # m => Agrees(armed, x)' /\ Agrees(mem, x)'
        BY <1>1, <2>1, <2>3, <3>1 DEF FilesAgree, BeingArmed, Agrees
      <3>3. QED
        BY <1>1, <2>1, <2>3, <3>1, <3>2 DEF FilesAgree, BeingArmed
    <2>4. QED
      BY <1>1, <1>5, <2>2, <2>3 DEF SaveArm
  <1>6. CASE UndoAllow
    <2>1. pc = "undo_allow" /\ pc' = "undo_grub" /\ UNCHANGED <<armed, grub, req, mem, cur>>
      BY <1>6 DEF UndoAllow
    <2>2. /\ Tolerated /\ BootFiles' \subseteq BootFiles
          /\ m \in BootFiles' => faults'["exit"] # 0
          /\ faults'["exit"] = 0 => faults["exit"] = 0
      BY <1>1, <1>6, RevokeAllow DEF UndoAllow
    <2>3. \A x \in Macs : x # m => Agrees(armed, x)' /\ Agrees(mem, x)'
      BY <1>1, <2>1, <2>2 DEF FilesAgree, BeingArmed, Agrees
    <2>4. QED
      BY <1>1, <2>1, <2>2, <2>3 DEF FilesAgree, BeingArmed
  <1>7. CASE UndoGrub
    <2>1. pc = "undo_grub" /\ EndRequest /\ UNCHANGED <<armed, BootFiles>>
      BY <1>7 DEF UndoGrub, BootFiles
    <2>2. /\ Tolerated
          /\ \A x \in Macs : x # m => grub'[x] = grub[x]
          /\ \/ grub'[m] = None /\ UNCHANGED faults
             \/ UNCHANGED grub /\ faults["exit"] = 0 /\ faults'["exit"] = 1 /\ ~IpxeInUse
      BY <1>1, <1>7, RevokeGrub DEF UndoGrub
    <2>3. \A x \in Macs : x # m => Agrees(armed, x)'
      BY <1>1, <2>1, <2>2 DEF FilesAgree, BeingArmed, Agrees
    <2>4. Agrees(armed, m)'
      BY <1>1, <2>1, <2>2 DEF FilesAgree, Agrees
    <2>5. QED
      BY <2>1, <2>3, <2>4, EndAgrees
  <1>8. QED
    BY <1>2, <1>3, <1>4, <1>5, <1>6, <1>7

\* The other handlers, once the pruning is done.
LEMMA FinishAgrees ==
    ASSUME Typed, Tolerated => FilesAgree, Tolerated',
           \/ StatusSave \/ IpxeMiss \/ ClearSave
           \/ StartClear \/ DisarmUnrecorded \/ RemoveUnrecorded
           \/ IpxeConsume \/ IpxeAllow
    PROVE  FilesAgree'
  <1>1. CASE StatusSave \/ IpxeMiss \/ ClearSave
    <2>1. SaveOk(mem) \/ SaveFails
      BY <1>1 DEF StatusSave, IpxeMiss, ClearSave
    <2>2. /\ Tolerated /\ (armed' = mem \/ armed' = armed)
          /\ faults'["exit"] = faults["exit"]
      BY <2>1, SaveAgrees
    <2>3. EndRequest /\ pc \in {"prune", "clear"} /\ UNCHANGED <<grub, BootFiles>>
      BY <1>1 DEF StatusSave, IpxeMiss, ClearSave, Pruned, files, BootFiles
    <2>4. cur = None
      BY <2>3 DEF Typed, HandlerShape
    <2>5. \A x \in Macs : Agrees(armed, x)'
      BY <2>2, <2>3, <2>4, ArmingAssumption DEF FilesAgree, BeingArmed, Agrees
    <2>6. QED
      BY <2>3, <2>5, EndAgrees
  <1>2. CASE StartClear
    <2>1. /\ Tolerated /\ pc = "prune" /\ pc' = "clear"
          /\ UNCHANGED <<armed, grub, BootFiles, req, mem, cur, faults>>
      BY <1>2 DEF StartClear, Tolerated, files, BootFiles
    <2>2. QED
      BY <2>1 DEF FilesAgree, BeingArmed, Agrees
  <1>3. CASE DisarmUnrecorded
    <2>1. /\ Tolerated /\ pc = "prune" /\ pc' = "clear_grub" /\ cur = None
          /\ UNCHANGED <<armed, grub, BootFiles, req, mem, faults>>
      BY <1>3 DEF DisarmUnrecorded, Pruned, Tolerated, files, BootFiles, Typed, HandlerShape
    <2>2. cur' \in Macs /\ mem[cur'] = None
      BY <1>3 DEF DisarmUnrecorded, Hit, Typed, TypeOK
    <2>3. QED
      BY <2>1, <2>2, ArmingAssumption DEF FilesAgree, BeingArmed, Agrees
  <1>4. CASE RemoveUnrecorded
    <2>1. /\ Tolerated /\ pc = "prune" /\ EndRequest
          /\ UNCHANGED <<armed, grub, BootFiles, faults>>
      BY <1>4 DEF RemoveUnrecorded, Pruned, Tolerated, files, BootFiles
    <2>2. \A x \in Macs : Agrees(armed, x)'
      BY <2>1 DEF FilesAgree, BeingArmed, Agrees
    <2>3. QED
      BY <2>1, <2>2, EndAgrees
  <1>5. CASE IpxeConsume
    <2>1. PICK m \in Hit : mem' = [mem EXCEPT ![m] = None] /\ (SaveOk(mem') \/ SaveFails)
      BY <1>5 DEF IpxeConsume
    <2>2. /\ Tolerated /\ (armed' = mem' \/ armed' = armed)
          /\ faults'["exit"] = faults["exit"]
      BY <2>1, SaveAgrees
    <2>3. /\ pc = "prune" /\ pc' = "ipxe_allow" /\ req.op = "ipxe" /\ IpxeInUse
          /\ cur = None /\ req.macs = {m} /\ m \in Macs
          /\ UNCHANGED <<grub, BootFiles, req, cur>>
      BY <1>5, <2>1 DEF IpxeConsume, Pruned, Hit, Typed, TypeOK, HandlerShape, files, BootFiles
    <2>4. faults["exit"] = 0
      BY <2>2, <2>3 DEF Tolerated, Typed, TypeOK, FaultKinds
    <2>5. \A x \in Macs : x # m => Agrees(armed, x)' /\ Agrees(mem, x)'
      BY <2>1, <2>2, <2>3, ArmingAssumption
         DEF FilesAgree, BeingArmed, Agrees, Typed, TypeOK
    <2>6. mem'[m] = None
      BY <2>1, <2>3 DEF Typed, TypeOK
    <2>7. grub'[m] # None /\ armed'[m] # None => armed'[m].mode = grub'[m]
      BY <2>2, <2>3, <2>4, <2>6 DEF FilesAgree, BeingArmed, Agrees
    <2>8. QED
      BY <2>3, <2>5, <2>7 DEF FilesAgree, BeingArmed
  <1>6. CASE IpxeAllow
    <2>1. PICK m \in Macs : req.macs = {m}
      BY <1>6 DEF IpxeAllow, Typed, HandlerShape
    <2>2. pc = "ipxe_allow" /\ IpxeInUse /\ EndRequest /\ UNCHANGED <<armed, grub>>
      BY <1>6 DEF IpxeAllow, Typed, HandlerShape
    <2>3. /\ Tolerated /\ BootFiles' \subseteq BootFiles
          /\ m \in BootFiles' => faults'["exit"] # 0
          /\ faults'["exit"] = 0 => faults["exit"] = 0
      BY <1>6, <2>1, RevokeAllow DEF IpxeAllow
    <2>4. faults'["exit"] = 0
      BY <2>2, TypedStep DEF Tolerated, Typed, TypeOK, FaultKinds, Next, HandlerStep
    <2>5. \A x \in Macs : x # m => Agrees(armed, x)'
      BY <2>1, <2>2, <2>3 DEF FilesAgree, BeingArmed, Agrees
    <2>6. Agrees(armed, m)'
      BY <2>1, <2>2, <2>3, <2>4 DEF FilesAgree, Agrees
    <2>7. QED
      BY <2>2, <2>5, <2>6, EndAgrees
  <1>7. QED
    BY <1>1, <1>2, <1>3, <1>4, <1>5, <1>6

LEMMA EnvironmentAgrees ==
    ASSUME Typed, Tolerated => FilesAgree, Tolerated',
           LateHelper \/ Crash \/ DnsmasqRestart \/ ClientStep \/ Tick \/ UNCHANGED vars
    PROVE  FilesAgree'
  <1>1. CASE Crash
    BY <1>1, FaultBudget DEF Crash, FaultKinds
  <1>2. CASE DnsmasqRestart
    <2>1. Tolerated /\ BootFiles' \subseteq BootFiles /\ UNCHANGED <<armed, grub, handler, faults>>
      BY <1>2 DEF DnsmasqRestart, BootFiles, Tolerated
    <2>2. QED
      BY <2>1 DEF FilesAgree, BeingArmed, Agrees, handler
  <1>3. CASE ClientStep \/ Tick \/ UNCHANGED vars
    <2>1. UNCHANGED <<armed, files, handler>>
      BY <1>3 DEF ClientStep, PxeBoot, GrubLoad, StartJob, FinishJob, Reboot, Tick, vars
    <2>2. Tolerated /\ faults'["exit"] = faults["exit"]
      <3>1. UNCHANGED faults \/ Fault("lost")
        BY <1>3
           DEF ClientStep, PxeBoot, GrubLoad, StartJob, FinishJob, Reboot, SendDisarm, Tick, vars
      <3>2. QED
        BY <3>1, FaultBudget DEF Tolerated, FaultKinds
    <2>3. QED
      BY <2>1, <2>2 DEF FilesAgree, BeingArmed, Agrees, BootFiles, files, handler
  <1>4. CASE LateHelper
    BY <1>4 DEF LateHelper, Tolerated, Typed
  <1>5. QED
    BY <1>1, <1>2, <1>3, <1>4

LEMMA AgreeInit == Init => (Tolerated => FilesAgree)
  BY DEF Init, FilesAgree, Agrees, BootFiles, NoRecords

LEMMA AgreeStep ==
    ASSUME Typed, Tolerated => FilesAgree, [Next]_vars
    PROVE  (Tolerated => FilesAgree)'
  <1> SUFFICES ASSUME Tolerated'
               PROVE  FilesAgree'
    OBVIOUS
  <1>1. CASE HandlerStep
    BY <1>1, RevokeAgrees, ArmAgrees, FinishAgrees DEF HandlerStep
  <1>2. QED
    BY <1>1, BeginAgrees, EnvironmentAgrees DEF Next

(***************************************************************************)
(* The inductive invariant of the model, and with it: under any schedule   *)
(* of requests, boots, failing saves and lost calls, and one failing       *)
(* helper, a machine can network-boot into a job only if state.json        *)
(* records it in that mode, or it is the MAC of the request in hand.       *)
(***************************************************************************)
THEOREM ArmingInvariant == Spec => []ArmingInv
  <1>1. Init => ArmingInv
    BY TypeInit, AgreeInit DEF ArmingInv, Typed
  <1>2. Typed /\ ArmingInv /\ [Next]_vars => ArmingInv'
    BY TypedStep, AgreeStep DEF ArmingInv, Typed
  <1>3. QED
    BY <1>1, <1>2, TypedAlways, PTL DEF Spec

THEOREM BootNeedsRecordTheorem == Spec => []BootNeedsRecord
  <1>1. Typed /\ ArmingInv => BootNeedsRecord
    <2> SUFFICES ASSUME Typed, FilesAgree, NEW m \in Macs, Bootable(m)
                 PROVE  \/ armed[m] # None /\ armed[m].mode = grub[m]
                        \/ InHand(m)
      BY DEF ArmingInv, BootNeedsRecord
    <2>1. CASE BeingArmed(m)
      BY <2>1 DEF BeingArmed, InHand, FilesAgree
    <2>2. CASE ~BeingArmed(m)
      BY <2>2 DEF FilesAgree, Agrees, Bootable, BootFiles
    <2>3. QED
      BY <2>1, <2>2
  <1>2. QED
    BY <1>1, ArmingInvariant, TypedAlways, PTL

-----------------------------------------------------------------------------
(***************************************************************************)
(* NoRebootLoop.  While no helper exits non-zero, a disarm that answers    *)
(* has unlinked the GRUB file, and only an arm request writes one again,   *)
(* which takes the MAC out of released when it begins.                     *)
(***************************************************************************)
NoneFailed == faults["exit"] = 0 /\ faults["timeout"] = 0

ReleasedInv ==
    /\ req.op = "arm" => req.macs \cap released = {}
    /\ req.op = "disarm_mac" => \E m \in Macs : req.macs = {m}
    /\ NoneFailed =>
         /\ \A m \in released : grub[m] = None
         /\ pc \in {"clear", "clear_grub"} /\ req.op = "disarm_mac" =>
              \A m \in req.macs : m \in left \/ m = cur \/ grub[m] = None

LEMMA FailuresStay ==
    ASSUME Typed, NEW kind \in FaultKinds, Fault(kind)
    PROVE  NoneFailed' => NoneFailed /\ kind \notin {"exit", "timeout"}
  BY DEF Typed, TypeOK, FaultKinds, Fault, NoneFailed

\* While no helper has failed, a GRUB helper call has had its effect.
LEMMA GrubGone ==
    ASSUME Typed, NEW m \in Macs, NoneFailed',
           GrubOk(m, None) \/ GrubExit \/ GrubTimeout(m, None)
    PROVE  /\ NoneFailed
           /\ \A x \in Macs : grub'[x] = grub[x] \/ grub'[x] = None
           /\ grub'[m] = None
  BY FailuresStay DEF GrubOk, GrubExit, GrubTimeout, FaultKinds, Typed, TypeOK, NoneFailed

LEMMA ReleasedStep ==
    ASSUME Typed, ReleasedInv, [Next]_vars
    PROVE  ReleasedInv'
  <1> USE DEF Typed
  <1>1. CASE Request
    BY <1>1, ArmingAssumption
       DEF Request, ApiStatus, ArmHost, DisarmHost, ScanReplace, RemoveHost, DisarmMac, IpxeBoot,
           Begin, ReleasedInv, NoneFailed, files
  <1>2. CASE PruneAllow \/ AllowAdd \/ UndoAllow \/ SaveArm \/ StatusSave \/ ArmSavePruned
             \/ IpxeMiss \/ IpxeConsume \/ IpxeAllow \/ RemoveUnrecorded
    <2>1. UNCHANGED <<grub, released>>
      BY <1>2 DEF PruneAllow, AllowAdd, UndoAllow, SaveArm, StatusSave, ArmSavePruned,
                  IpxeMiss, IpxeConsume, IpxeAllow, RemoveUnrecorded, clients, files
    <2>2. NoneFailed' => NoneFailed
      BY <1>2, FailuresStay
         DEF PruneAllow, AllowAdd, UndoAllow, SaveArm, StatusSave, ArmSavePruned,
             IpxeMiss, IpxeConsume, IpxeAllow, RemoveUnrecorded, AllowlistOk,
             AllowlistExit, AllowlistTimeout, SaveOk, SaveFails, FaultKinds, NoneFailed
    <2>3. /\ pc' \notin {"clear", "clear_grub"}
          /\ req' = NoRequest \/ (req'.op = req.op /\ req'.macs = req.macs)
      BY <1>2 DEF PruneAllow, AllowAdd, UndoAllow, SaveArm, StatusSave, ArmSavePruned,
                  IpxeMiss, IpxeConsume, IpxeAllow, RemoveUnrecorded, EndRequest, TypeOK
    <2>4. QED
      BY <2>1, <2>2, <2>3 DEF ReleasedInv, NoRequest
  <1>3. CASE PruneGrub \/ UndoGrub
    <2>1. PICK m \in Macs : GrubOk(m, None) \/ GrubExit \/ GrubTimeout(m, None)
      BY <1>3 DEF PruneGrub, UndoGrub, HandlerShape, TypeOK
    <2>2. /\ pc' \notin {"clear", "clear_grub"} /\ UNCHANGED released
          /\ req' = NoRequest \/ req' = req
      BY <1>3 DEF PruneGrub, UndoGrub, EndRequest, clients
    <2>3. QED
      BY <2>1, <2>2, GrubGone DEF ReleasedInv, NoRequest, TypeOK
  <1>4. CASE GrubWrite
    <2>1. PICK m \in req.macs : GrubOk(m, req.mode) \/ GrubExit \/ GrubTimeout(m, req.mode)
      BY <1>4 DEF GrubWrite
    <2>2. req.op = "arm" /\ UNCHANGED released /\ (req' = NoRequest \/ req' = req)
          /\ pc' \notin {"clear", "clear_grub"}
      BY <1>4 DEF GrubWrite, HandlerShape, ArmSteps, EndRequest, clients
    <2>3. /\ NoneFailed' => NoneFailed
          /\ \A x \in released : grub'[x] = grub[x]
      BY <2>1, <2>2, FailuresStay
         DEF GrubOk, GrubExit, GrubTimeout, FaultKinds, NoneFailed, ReleasedInv, TypeOK
    <2>4. QED
      BY <2>2, <2>3 DEF ReleasedInv, NoRequest
  <1>5. CASE StartClear
    BY <1>5 DEF StartClear, Hit, ReleasedInv, NoneFailed, files, clients
  <1>6. CASE DisarmUnrecorded
    BY <1>6 DEF DisarmUnrecorded, Pruned, ReleasedInv, NoneFailed, files, clients
  <1>7. CASE ClearAllow
    <2>1. UNCHANGED <<grub, released>> /\ cur = None
      BY <1>7 DEF ClearAllow, clients, HandlerShape
    <2>2. NoneFailed' => NoneFailed
      BY <1>7, FailuresStay DEF ClearAllow, AllowlistOk, AllowlistExit, AllowlistTimeout, FaultKinds, NoneFailed
    <2>3. EndRequest \/ (pc = "clear" /\ UNCHANGED <<req, left>>)
      BY <1>7 DEF ClearAllow
    <2>4. QED
      BY <2>1, <2>2, <2>3, ArmingAssumption DEF ReleasedInv, EndRequest, NoRequest, TypeOK
  <1>8. CASE ClearGrub
    <2>1. cur \in Macs /\ UNCHANGED released /\ pc = "clear_grub"
      BY <1>8 DEF ClearGrub, HandlerShape, clients
    <2>2. \/ GrubOk(cur, None) \/ GrubExit
          \/ GrubTimeout(cur, None) /\ EndRequest
      BY <1>8 DEF ClearGrub
    <2>3. EndRequest \/ ((GrubOk(cur, None) \/ GrubExit) /\ left' = left \ {cur} /\ UNCHANGED req)
      BY <1>8 DEF ClearGrub
    <2>4. QED
      BY <2>1, <2>2, <2>3, GrubGone DEF ReleasedInv, EndRequest, NoRequest, TypeOK
  <1>9. CASE ClearSave
    <2>1. NoneFailed' => NoneFailed
      BY <1>9, FailuresStay DEF ClearSave, SaveOk, SaveFails, FaultKinds, NoneFailed
    <2>2. UNCHANGED grub /\ req' = NoRequest /\ pc' = "idle" /\ cur = None /\ left = {}
      BY <1>9 DEF ClearSave, EndRequest, files, HandlerShape
    <2>3. \A m \in released' : m \in released \/ (req.op = "disarm_mac" /\ m \in req.macs)
      BY <1>9 DEF ClearSave
    <2>4. NoneFailed => \A m \in released' : grub[m] = None
      BY <1>9, <2>2, <2>3, ArmingAssumption DEF ReleasedInv, ClearSave, TypeOK
    <2>5. QED
      BY <2>1, <2>2, <2>4 DEF ReleasedInv, NoRequest
  <1>10. CASE LateHelper
    BY <1>10 DEF LateHelper, Typed, NoneFailed, ReleasedInv, handler, clients
  <1>11. CASE Crash \/ DnsmasqRestart \/ ClientStep \/ Tick \/ UNCHANGED vars
    <2>1. UNCHANGED <<grub, released>> /\ (EndRequest \/ UNCHANGED handler)
      BY <1>11 DEF Crash, DnsmasqRestart, ClientStep, PxeBoot, GrubLoad, StartJob, FinishJob,
                   Reboot, Tick, vars, files, clients
    <2>2. NoneFailed' => NoneFailed
      BY <1>11, FailuresStay
         DEF Crash, DnsmasqRestart, ClientStep, PxeBoot, GrubLoad, StartJob, FinishJob,
             Reboot, SendDisarm, Tick, vars, FaultKinds, NoneFailed
    <2>3. QED
      BY <2>1, <2>2 DEF ReleasedInv, EndRequest, NoRequest, handler
  <1>12. QED
    BY <1>1, <1>2, <1>3, <1>4, <1>5, <1>6, <1>7, <1>8, <1>9, <1>10, <1>11 DEF Next, HandlerStep

THEOREM NoRebootLoopTheorem == Spec => []NoRebootLoop
  <1>1. Init => ReleasedInv
    BY DEF Init, ReleasedInv, NoRequest
  <1>2. Typed /\ ReleasedInv /\ [Next]_vars => ReleasedInv'
    BY ReleasedStep
  <1>3. ReleasedInv => NoRebootLoop
    BY DEF ReleasedInv, NoRebootLoop, NoneFailed, Bootable
  <1>4. QED
    BY <1>1, <1>2, <1>3, TypedAlways, PTL DEF Spec

-----------------------------------------------------------------------------
(***************************************************************************)
(* OtherRecordsKept.  The handler's copy differs from the file only for    *)
(* the MACs of its request and for expired records, and nothing else can   *)
(* write the file while it runs.                                           *)
(***************************************************************************)
CopyInv ==
    /\ pc # "idle" => \A m \in Macs : mem[m] \in {armed[m], None}
    /\ pc # "idle" => \A m \in Macs \ req.macs : mem[m] # armed[m] => Expired(m)
    /\ pc \in {"prune", "prune_grub"} => \A m \in left : Expired(m)
    /\ pc \in {"clear", "clear_grub"} => left \subseteq req.macs

LEMMA CopyStep ==
    ASSUME Typed, CopyInv, [Next]_vars
    PROVE  CopyInv'
  <1> USE DEF Typed
  <1>1. CASE Request
    <2>1. PICK op, macs, mode : Begin(op, macs, mode)
      BY <1>1 DEF Request, ApiStatus, ArmHost, DisarmHost, ScanReplace, RemoveHost, DisarmMac,
                  IpxeBoot
    <2>2. QED
      BY <2>1 DEF Begin, CopyInv, Expired
  <1>2. CASE HandlerStep
    <2>1. CASE EndRequest
      BY <2>1 DEF EndRequest, CopyInv
    <2>2. CASE PruneAllow
      BY <2>2 DEF PruneAllow, CopyInv, Expired, TypeOK
    <2>3. CASE PruneGrub /\ ~EndRequest
      BY <2>3 DEF PruneGrub, CopyInv, Expired
    <2>4. CASE ArmSavePruned /\ ~EndRequest
      BY <2>4 DEF ArmSavePruned, SaveOk, CopyInv, Expired, TypeOK
    <2>5. CASE (GrubWrite \/ AllowAdd \/ SaveArm \/ UndoAllow) /\ ~EndRequest
      <3>1. UNCHANGED <<armed, mem, req, now>> /\ pc # "idle"
        BY <2>5 DEF GrubWrite, AllowAdd, SaveArm, SaveFails, UndoAllow
      <3>2. pc' \in {"allow_add", "save_arm", "undo_allow", "undo_grub"}
        BY <2>5 DEF GrubWrite, AllowAdd, SaveArm, UndoAllow
      <3>3. QED
        BY <3>1, <3>2 DEF CopyInv, Expired
    <2>6. CASE StartClear \/ DisarmUnrecorded
      BY <2>6 DEF StartClear, DisarmUnrecorded, Pruned, Hit, CopyInv, Expired
    <2>7. CASE ClearAllow /\ ~EndRequest
      BY <2>7 DEF ClearAllow, CopyInv, Expired, TypeOK
    <2>8. CASE ClearGrub /\ ~EndRequest
      BY <2>8 DEF ClearGrub, CopyInv, Expired
    <2>9. CASE IpxeConsume
      <3>1. PICK m \in Hit : mem' = [mem EXCEPT ![m] = None] /\ (SaveOk(mem') \/ SaveFails)
        BY <2>9 DEF IpxeConsume
      <3>2. pc = "prune" /\ pc' = "ipxe_allow" /\ UNCHANGED <<req, now>> /\ m \in req.macs
        BY <2>9, <3>1 DEF IpxeConsume, Pruned, Hit, files
      <3>3. /\ \A x \in Macs \ req.macs : mem'[x] = mem[x]
            /\ \A x \in Macs : mem'[x] \in {mem[x], None}
        BY <3>1, <3>2 DEF TypeOK
      <3>4. armed' = mem' \/ armed' = armed
        BY <3>1 DEF SaveOk, SaveFails
      <3>5. QED
        BY <3>2, <3>3, <3>4 DEF CopyInv, Expired
    <2>10. QED
      BY <1>2, <2>1, <2>2, <2>3, <2>4, <2>5, <2>6, <2>7, <2>8, <2>9
         DEF HandlerStep, StatusSave, RemoveUnrecorded, ClearSave, IpxeMiss, IpxeAllow, UndoGrub
  <1>3. CASE LateHelper \/ Crash \/ DnsmasqRestart \/ ClientStep \/ UNCHANGED vars
    <2>1. UNCHANGED <<armed, now>> /\ (EndRequest \/ UNCHANGED handler)
      BY <1>3 DEF LateHelper, Crash, DnsmasqRestart, ClientStep, PxeBoot, GrubLoad, StartJob, FinishJob,
                  Reboot, vars
    <2>2. QED
      BY <2>1 DEF CopyInv, EndRequest, handler, Expired
  <1>4. CASE Tick
    BY <1>4 DEF Tick, CopyInv, handler, Expired, TypeOK, Record
  <1>5. QED
    BY <1>1, <1>2, <1>3, <1>4 DEF Next

THEOREM OtherRecordsKeptTheorem == Spec => OtherRecordsKept
  <1> DEFINE Kept == \A m \in Macs : armed[m] # None /\ armed'[m] # armed[m] =>
                                         m \in req.macs \/ armed[m].expiresAt <= now
  <1>1. Init => CopyInv
    BY DEF Init, CopyInv
  <1>2. Typed /\ CopyInv /\ [Next]_vars => CopyInv'
    BY CopyStep
  <1>3. Typed /\ CopyInv /\ [Next]_vars => [Kept]_vars
    <2> SUFFICES ASSUME Typed, CopyInv, Next, NEW m \in Macs \ req.macs, armed'[m] # armed[m]
                 PROVE  armed[m] # None => armed[m].expiresAt <= now
      OBVIOUS
    <2>1. CASE SaveArm
      BY <2>1 DEF SaveArm, SaveOk, SaveFails, CopyInv, Expired, Typed, TypeOK
    <2>2. CASE IpxeConsume
      BY <2>2 DEF IpxeConsume, Hit, Pruned, SaveOk, SaveFails, CopyInv, Expired, Typed, TypeOK
    <2>3. CASE StatusSave \/ ArmSavePruned \/ ClearSave \/ IpxeMiss
      BY <2>3 DEF StatusSave, ArmSavePruned, ClearSave, IpxeMiss, Pruned, SaveOk, SaveFails,
                  CopyInv, Expired
    <2>4. CASE UNCHANGED armed
      BY <2>4
    <2>5. QED
      BY <2>1, <2>2, <2>3, <2>4
         DEF Next, Request, ApiStatus, ArmHost, DisarmHost, ScanReplace, RemoveHost, DisarmMac,
             IpxeBoot, Begin, HandlerStep, PruneAllow, PruneGrub, GrubWrite, AllowAdd,
             UndoAllow, UndoGrub, StartClear, DisarmUnrecorded, RemoveUnrecorded, ClearAllow,
             ClearGrub, IpxeAllow, LateHelper, Crash, DnsmasqRestart, ClientStep, PxeBoot, GrubLoad,
             StartJob, FinishJob, Reboot, Tick
  <1>4. QED
    BY <1>1, <1>2, <1>3, TypedAlways, PTL DEF Spec, OtherRecordsKept

-----------------------------------------------------------------------------
(***************************************************************************)
(* RecordBoots.  Without a fault the handler's copy says at every step     *)
(* which machines its files make bootable: a record that is about to be    *)
(* revoked leaves the copy before the files change, a new one enters it    *)
(* after them, and what a request drops without saving had expired.        *)
(***************************************************************************)
FaultFree == ~IpxeInUse /\ \A k \in FaultKinds \ {"lost"} : faults[k] = 0

Holds(records, m) ==
    records[m] # None =>
        \/ records[m].expiresAt <= now
        \/ m \in allow \cap served /\ grub[m] = records[m].mode

BootedInv ==
    FaultFree =>
      /\ pc = "idle" => \A m \in Macs : Holds(armed, m)
      /\ pc # "idle" => \A m \in Macs : ~BeingArmed(m) => Holds(mem, m)
      /\ pc \in {"prune", "prune_grub"} =>
             \A m \in Macs : mem[m] # armed[m] => mem[m] = None /\ Expired(m)
      /\ pc \in {"prune_grub", "clear_grub"} => mem[cur] = None
      /\ pc \notin {"undo_allow", "undo_grub"}
      /\ pc \in {"allow_add", "save_arm"} => \A m \in req.macs : grub[m] = req.mode
      /\ pc = "save_arm" => req.macs \subseteq allow \cap served

\* In a run without a fault no helper call and no save raises.
LEMMA NothingFails ==
    ASSUME Typed, FaultFree', NEW kind \in FaultKinds \ {"lost"}
    PROVE  ~Fault(kind)
  BY DEF Typed, TypeOK, FaultKinds, Fault, FaultFree

LEMMA HelpersSucceed ==
    ASSUME Typed, FaultFree'
    PROVE  /\ \A entries :
                AllowlistOk(entries) \/ AllowlistExit(entries) \/ AllowlistTimeout(entries)
                  => /\ FaultFree /\ allow' = entries /\ served' = entries
                     /\ ~AllowlistExit(entries) /\ ~AllowlistTimeout(entries)
           /\ \A m, mode :
                GrubOk(m, mode) \/ GrubExit \/ GrubTimeout(m, mode)
                  => /\ FaultFree /\ grub' = [grub EXCEPT ![m] = mode]
                     /\ ~GrubExit /\ ~GrubTimeout(m, mode)
           /\ \A records : SaveOk(records) \/ SaveFails
                  => FaultFree /\ armed' = records /\ ~SaveFails
  <1>1. ~Fault("exit") /\ ~Fault("timeout") /\ ~Fault("save")
    BY NothingFails DEF FaultKinds
  <1>2. UNCHANGED mishaps => FaultFree
    BY DEF FaultFree
  <1>3. QED
    BY <1>1, <1>2 DEF AllowlistOk, AllowlistExit, AllowlistTimeout, GrubOk, GrubExit, GrubTimeout,
                      SaveOk, SaveFails

\* A request that is over leaves the records agreeing with the files.
LEMMA EndHolds ==
    ASSUME EndRequest, \A m \in Macs : Holds(armed, m)'
    PROVE  BootedInv'
  BY DEF EndRequest, BootedInv

LEMMA PruneHolds ==
    ASSUME Typed, CopyInv, BootedInv, FaultFree',
           PruneAllow \/ PruneGrub \/ StatusSave \/ ArmSavePruned \/ IpxeMiss \/ RemoveUnrecorded
    PROVE  BootedInv'
  <1> USE DEF Typed
  <1>1. CASE PruneAllow
    <2>1. PICK m \in left : /\ mem' = [mem EXCEPT ![m] = None] /\ cur' = m
                            /\ \/ AllowlistOk(allow \ {m})
                               \/ AllowlistExit(allow \ {m})
                               \/ AllowlistTimeout(allow \ {m})
      BY <1>1 DEF PruneAllow
    <2>2. FaultFree /\ allow' = allow \ {m} /\ served' = allow \ {m}
      BY <2>1, HelpersSucceed
    <2>3. pc = "prune" /\ pc' = "prune_grub" /\ UNCHANGED <<armed, grub, now, req>>
      BY <1>1 DEF PruneAllow
    <2>4. \A x \in Macs : mem'[x] = IF x = m THEN None ELSE mem[x]
      BY <2>1 DEF TypeOK
    <2>5. \A x \in Macs : Holds(mem, x)'
      BY <2>2, <2>3, <2>4 DEF BootedInv, BeingArmed, Holds
    <2>6. \A x \in Macs : mem'[x] # armed'[x] => mem'[x] = None /\ Expired(x)'
      BY <2>2, <2>3, <2>4 DEF BootedInv, CopyInv, Expired
    <2>7. QED
      BY <2>1, <2>3, <2>4, <2>5, <2>6 DEF BootedInv, TypeOK
  <1>2. CASE PruneGrub
    <2>1. pc = "prune_grub" /\ UNCHANGED <<armed, allow, served, now>> /\ cur \in Macs
      BY <1>2 DEF PruneGrub, HandlerShape
    <2>2. /\ FaultFree /\ grub' = [grub EXCEPT ![cur] = None]
          /\ pc' = "prune" /\ UNCHANGED <<req, mem>>
      BY <1>2, HelpersSucceed DEF PruneGrub
    <2>3. \A x \in Macs : Holds(mem, x)'
      BY <2>1, <2>2 DEF BootedInv, BeingArmed, Holds, TypeOK
    <2>4. QED
      BY <2>1, <2>2, <2>3 DEF BootedInv, Expired
  <1>3. CASE StatusSave \/ ArmSavePruned \/ IpxeMiss
    <2>1. /\ FaultFree /\ armed' = mem /\ pc = "prune"
          /\ UNCHANGED <<allow, served, grub, now>>
      BY <1>3, HelpersSucceed DEF StatusSave, ArmSavePruned, IpxeMiss, Pruned, files
    <2>2. \A x \in Macs : Holds(armed, x)'
      BY <2>1 DEF BootedInv, BeingArmed, Holds
    <2>3. EndRequest \/ (pc' = "grub_write" /\ UNCHANGED mem)
      BY <1>3 DEF StatusSave, ArmSavePruned, IpxeMiss
    <2>4. QED
      BY <2>1, <2>2, <2>3, EndHolds DEF BootedInv, Holds
  <1>4. CASE RemoveUnrecorded
    <2>1. /\ FaultFree /\ pc = "prune" /\ EndRequest
          /\ UNCHANGED <<armed, allow, served, grub, now>>
      BY <1>4 DEF RemoveUnrecorded, Pruned, files, FaultFree
    <2>2. \A x \in Macs : Holds(armed, x)'
      BY <2>1 DEF BootedInv, BeingArmed, Holds, Expired
    <2>3. QED
      BY <2>1, <2>2, EndHolds
  <1>5. QED
    BY <1>1, <1>2, <1>3, <1>4

LEMMA ArmHolds ==
    ASSUME Typed, BootedInv, FaultFree',
           GrubWrite \/ AllowAdd \/ SaveArm \/ UndoAllow \/ UndoGrub
    PROVE  BootedInv'
  <1> USE DEF Typed
  <1>1. CASE GrubWrite
    <2>1. PICK m \in Macs : req.macs = {m}
      BY <1>1 DEF GrubWrite, HandlerShape, ArmSteps
    <2>2. /\ FaultFree /\ grub' = [grub EXCEPT ![m] = req.mode]
          /\ pc = "grub_write" /\ pc' = "allow_add"
          /\ UNCHANGED <<armed, allow, served, now, req, mem>>
      BY <1>1, <2>1, HelpersSucceed DEF GrubWrite
    <2>3. QED
      BY <2>1, <2>2 DEF BootedInv, BeingArmed, Holds, TypeOK
  <1>2. CASE AllowAdd
    <2>1. PICK m \in Macs : req.macs = {m}
      BY <1>2 DEF AllowAdd, HandlerShape, ArmSteps
    <2>2. /\ FaultFree /\ allow' = allow \cup {m} /\ served' = allow \cup {m}
          /\ pc = "allow_add" /\ pc' = "save_arm"
          /\ UNCHANGED <<armed, grub, now, req, mem>>
      BY <1>2, <2>1, HelpersSucceed DEF AllowAdd
    <2>3. QED
      BY <2>1, <2>2 DEF BootedInv, BeingArmed, Holds
  <1>3. CASE SaveArm
    <2>1. PICK m \in Macs : req.macs = {m}
      BY <1>3 DEF SaveArm, HandlerShape, ArmSteps
    <2>2. /\ FaultFree /\ armed' = [mem EXCEPT ![m] = ArmedRecord]
          /\ pc = "save_arm" /\ EndRequest
          /\ UNCHANGED <<allow, served, grub, now>>
      BY <1>3, <2>1, HelpersSucceed DEF SaveArm, files
    <2>3. Holds(armed, m)'
      BY <2>1, <2>2 DEF BootedInv, Holds, ArmedRecord, TypeOK
    <2>4. \A x \in Macs \ {m} : Holds(armed, x)'
      BY <2>1, <2>2 DEF BootedInv, BeingArmed, Holds, TypeOK
    <2>5. QED
      BY <2>2, <2>3, <2>4, EndHolds
  <1>4. CASE UndoAllow \/ UndoGrub
    <2>1. FaultFree
      BY <1>4, HelpersSucceed DEF UndoAllow, UndoGrub
    <2>2. QED
      BY <1>4, <2>1 DEF UndoAllow, UndoGrub, BootedInv
  <1>5. QED
    BY <1>1, <1>2, <1>3, <1>4

LEMMA ClearHolds ==
    ASSUME Typed, BootedInv, FaultFree',
           StartClear \/ DisarmUnrecorded \/ ClearAllow \/ ClearGrub \/ ClearSave
    PROVE  BootedInv'
  <1> USE DEF Typed
  <1>1. CASE StartClear \/ DisarmUnrecorded
    <2>1. /\ FaultFree /\ pc = "prune" /\ pc' \in {"clear", "clear_grub"}
          /\ UNCHANGED <<armed, allow, served, grub, now, mem, req>>
      BY <1>1 DEF StartClear, DisarmUnrecorded, Pruned, files, FaultFree
    <2>2. pc' = "clear_grub" => mem'[cur'] = None
      BY <1>1 DEF StartClear, DisarmUnrecorded, Hit, TypeOK
    <2>3. QED
      BY <2>1, <2>2 DEF BootedInv, BeingArmed, Holds
  <1>2. CASE ClearAllow
    <2>1. PICK m \in left :
             \/ /\ AllowlistOk(allow \ {m}) \/ AllowlistExit(allow \ {m})
                /\ mem' = [mem EXCEPT ![m] = None] /\ cur' = m /\ pc' = "clear_grub"
                /\ UNCHANGED <<req, left>>
             \/ AllowlistTimeout(allow \ {m}) /\ EndRequest
      BY <1>2 DEF ClearAllow
    <2>2. /\ FaultFree /\ allow' = allow \ {m} /\ served' = allow \ {m}
          /\ mem' = [mem EXCEPT ![m] = None] /\ cur' = m /\ pc' = "clear_grub"
      BY <2>1, HelpersSucceed
    <2>3. pc = "clear" /\ UNCHANGED <<armed, grub, now>>
      BY <1>2 DEF ClearAllow
    <2>4. QED
      BY <2>2, <2>3 DEF BootedInv, BeingArmed, Holds, TypeOK
  <1>3. CASE ClearGrub
    <2>1. pc = "clear_grub" /\ UNCHANGED <<armed, allow, served, now>> /\ cur \in Macs
      BY <1>3 DEF ClearGrub, HandlerShape
    <2>2. /\ FaultFree /\ grub' = [grub EXCEPT ![cur] = None]
          /\ pc' = "clear" /\ UNCHANGED <<req, mem>>
      BY <1>3, HelpersSucceed DEF ClearGrub
    <2>3. QED
      BY <2>1, <2>2 DEF BootedInv, BeingArmed, Holds, TypeOK
  <1>4. CASE ClearSave
    <2>1. /\ FaultFree /\ armed' = mem /\ pc = "clear" /\ EndRequest
          /\ UNCHANGED <<allow, served, grub, now>>
      BY <1>4, HelpersSucceed DEF ClearSave, files
    <2>2. \A x \in Macs : Holds(armed, x)'
      BY <2>1 DEF BootedInv, BeingArmed, Holds
    <2>3. QED
      BY <2>1, <2>2, EndHolds
  <1>5. QED
    BY <1>1, <1>2, <1>3, <1>4

LEMMA BootedStep ==
    ASSUME Typed, CopyInv, BootedInv, [Next]_vars
    PROVE  BootedInv'
  <1> SUFFICES ASSUME FaultFree'
               PROVE  BootedInv'
    BY DEF BootedInv
  <1> USE DEF Typed
  <1>1. CASE Request
    <2>1. PICK op, macs, mode : Begin(op, macs, mode)
      BY <1>1 DEF Request, ApiStatus, ArmHost, DisarmHost, ScanReplace, RemoveHost, DisarmMac,
                  IpxeBoot
    <2>2. /\ FaultFree /\ pc = "idle" /\ pc' = "prune" /\ mem' = armed
          /\ UNCHANGED <<armed, allow, served, grub, now>>
      BY <2>1 DEF Begin, files, FaultFree
    <2>3. QED
      BY <2>2 DEF BootedInv, Holds
  <1>2. CASE IpxeConsume \/ IpxeAllow
    BY <1>2 DEF IpxeConsume, IpxeAllow, Pruned, HandlerShape, FaultFree
  <1>3. CASE HandlerStep
    BY <1>2, <1>3, PruneHolds, ArmHolds, ClearHolds DEF HandlerStep
  <1>4. CASE Crash
    BY <1>4, NothingFails DEF Crash, FaultKinds
  <1>5. CASE LateHelper
    BY <1>5 DEF LateHelper, FaultFree, FaultKinds
  <1>6. CASE DnsmasqRestart
    <2>1. FaultFree /\ UNCHANGED <<armed, allow, grub, now, handler>> /\ served' = allow
      BY <1>6 DEF DnsmasqRestart, FaultFree
    <2>2. QED
      BY <2>1 DEF BootedInv, BeingArmed, Holds, Expired, handler
  <1>7. CASE ClientStep \/ Tick \/ UNCHANGED vars
    <2>1. UNCHANGED <<armed, files, handler>> /\ now' \in {now, now + 1}
      BY <1>7 DEF ClientStep, PxeBoot, GrubLoad, StartJob, FinishJob, Reboot, Tick, vars
    <2>2. FaultFree
      BY <1>7, TypeOK
         DEF ClientStep, PxeBoot, GrubLoad, StartJob, FinishJob, Reboot, SendDisarm, Fault, Tick, vars,
             FaultFree, FaultKinds, TypeOK
    <2>3. \A m \in Macs : (Holds(armed, m) => Holds(armed, m)') /\ (Holds(mem, m) => Holds(mem, m)')
      BY <2>1 DEF Holds, files, handler, TypeOK, Record
    <2>4. \A m \in Macs : Expired(m) => Expired(m)'
      BY <2>1 DEF Expired, TypeOK, Record
    <2>5. QED
      BY <2>1, <2>2, <2>3, <2>4 DEF BootedInv, BeingArmed, handler, files
  <1>8. QED
    BY <1>1, <1>3, <1>4, <1>5, <1>6, <1>7 DEF Next

(***************************************************************************)
(* As long as nothing fails and /ipxe/boot is not used, a record that has  *)
(* not expired means that the machine boots into that job when the handler *)
(* is done, for any number of machines and requests.                       *)
(***************************************************************************)
THEOREM RecordBootsTheorem == Spec => []RecordBoots
  <1>1. Init => CopyInv /\ BootedInv
    BY DEF Init, CopyInv, BootedInv, Holds, NoRecords, NoRequest
  <1>2. Typed /\ CopyInv /\ BootedInv /\ [Next]_vars => CopyInv' /\ BootedInv'
    BY CopyStep, BootedStep
  <1>3. Typed /\ BootedInv => RecordBoots
    <2> SUFFICES ASSUME Typed, \A x \in Macs : Holds(armed, x),
                        NEW m \in Macs, armed[m] # None, ~Expired(m)
                 PROVE  Bootable(m) /\ armed[m].mode = grub[m]
      BY DEF BootedInv, FaultFree, RecordBoots
    <2>1. armed[m] \in Record
      BY DEF Typed, TypeOK
    <2>2. QED
      BY <2>1, ArmingAssumption DEF Holds, Bootable, Expired, Record
  <1>4. QED
    BY <1>1, <1>2, <1>3, TypedAlways, PTL DEF Spec

(***************************************************************************)
(* LiveNeedsRecord: GRUB reads its file long after the proxy-DHCP looked   *)
(* at the allowlist, and yet a machine enters the live system only with a  *)
(* record of that mode, or in the hand of a handler.                       *)
(***************************************************************************)
THEOREM LiveNeedsRecordTheorem == Spec => LiveNeedsRecord
  <1> DEFINE Recorded == faults["exit"] = 0 /\ Tolerated =>
               \A m \in Clients :
                   machine[m] = "grub" /\ machine'[m] = "live" =>
                       \/ armed[m] # None /\ armed[m].mode = grub[m]
                       \/ InHand(m)
                       \/ IpxeInUse
  <1>1. Typed /\ ArmingInv /\ [Next]_vars => [Recorded]_vars
    <2> SUFFICES ASSUME Typed, FilesAgree, faults["exit"] = 0, Next, ~IpxeInUse,
                        NEW m \in Clients, machine[m] = "grub", machine'[m] = "live"
                 PROVE  \/ armed[m] # None /\ armed[m].mode = grub[m]
                        \/ InHand(m)
      BY DEF ArmingInv
    <2>1. m \in Macs
      BY ArmingAssumption
    <2>2. PICK c \in Clients : GrubLoad(c) \/ StartJob(c) \/ FinishJob(c) \/ PxeBoot(c) \/ Reboot(c)
      <3>1. machine' # machine
        OBVIOUS
      <3>2. QED
        BY <3>1
           DEF Next, Request, ApiStatus, ArmHost, DisarmHost, ScanReplace, RemoveHost, DisarmMac, IpxeBoot,
               Begin, HandlerStep, PruneAllow, PruneGrub, StatusSave, ArmSavePruned, GrubWrite, AllowAdd,
               SaveArm, UndoAllow, UndoGrub, StartClear, DisarmUnrecorded, RemoveUnrecorded, ClearAllow,
               ClearGrub, ClearSave, IpxeMiss, IpxeConsume, IpxeAllow, LateHelper, Crash, DnsmasqRestart,
               ClientStep, Tick, clients
    <2>3. grub[m] # None
      BY <2>2 DEF GrubLoad, StartJob, FinishJob, PxeBoot, Reboot, Typed, TypeOK
    <2>4. CASE BeingArmed(m)
      BY <2>1, <2>4 DEF BeingArmed, InHand, FilesAgree
    <2>5. CASE ~BeingArmed(m)
      BY <2>1, <2>3, <2>5 DEF FilesAgree, Agrees
    <2>6. QED
      BY <2>4, <2>5
  <1>2. QED
    BY <1>1, ArmingInvariant, TypedAlways, PTL DEF Spec, LiveNeedsRecord

-----------------------------------------------------------------------------
(* The abstract lease.                                                     *)

\* The fault budgets under which the handlers' rollbacks suffice.
WithinBudget ==
    /\ MaxFaults["timeout"] = 0 /\ MaxFaults["crash"] = 0
    /\ MaxFaults["exit"] <= (IF IpxeInUse THEN 0 ELSE 1)

BudgetInv == \A k \in FaultKinds : faults[k] <= MaxFaults[k]

\* Every step has at most one fault.
LEMMA OneFault ==
    ASSUME [Next]_vars
    PROVE  UNCHANGED faults \/ \E kind \in FaultKinds : Fault(kind)
  <1> USE DEF AllowlistOk, AllowlistExit, AllowlistTimeout, GrubOk, GrubExit, GrubTimeout,
              SaveOk, SaveFails, FaultKinds, mishaps
  <1>1. CASE PruneAllow \/ PruneGrub \/ StatusSave \/ ArmSavePruned \/ GrubWrite
    BY <1>1 DEF PruneAllow, PruneGrub, StatusSave, ArmSavePruned, GrubWrite
  <1>2. CASE AllowAdd \/ SaveArm \/ UndoAllow \/ UndoGrub
    BY <1>2 DEF AllowAdd, SaveArm, UndoAllow, UndoGrub
  <1>3. CASE StartClear \/ DisarmUnrecorded \/ RemoveUnrecorded \/ ClearAllow \/ ClearGrub \/ ClearSave
    BY <1>3 DEF StartClear, DisarmUnrecorded, RemoveUnrecorded, ClearAllow, ClearGrub, ClearSave
  <1>4. CASE IpxeMiss \/ IpxeConsume \/ IpxeAllow
    BY <1>4 DEF IpxeMiss, IpxeConsume, IpxeAllow
  <1>5. CASE Request
    BY <1>5 DEF Request, ApiStatus, ArmHost, DisarmHost, ScanReplace, RemoveHost, DisarmMac, IpxeBoot,
                Begin
  <1>6. CASE LateHelper \/ Crash \/ DnsmasqRestart \/ ClientStep \/ Tick \/ UNCHANGED vars
    BY <1>6 DEF LateHelper, Crash, DnsmasqRestart, ClientStep, PxeBoot, GrubLoad, StartJob, FinishJob,
                Reboot, SendDisarm, Tick, vars
  <1>7. QED
    BY <1>1, <1>2, <1>3, <1>4, <1>5, <1>6 DEF Next, HandlerStep

LEMMA BudgetStep ==
    ASSUME Typed, BudgetInv, [Next]_vars
    PROVE  BudgetInv'
  <1>1. CASE UNCHANGED faults
    BY <1>1 DEF BudgetInv
  <1>2. CASE \E kind \in FaultKinds : Fault(kind)
    <2>1. PICK kind \in FaultKinds : Fault(kind)
      BY <1>2
    <2>2. faults \in [FaultKinds -> Nat] /\ MaxFaults \in [FaultKinds -> Nat]
      BY ArmingAssumption DEF Typed, TypeOK
    <2>3. QED
      BY <2>1, <2>2 DEF BudgetInv, Fault
  <1>3. QED
    BY <1>1, <1>2, OneFault

LEMMA BudgetTolerated ==
    ASSUME WithinBudget, Typed, BudgetInv
    PROVE  Tolerated
  BY ArmingAssumption DEF WithinBudget, BudgetInv, Tolerated, Typed, TypeOK, FaultKinds

-----------------------------------------------------------------------------
(* What a step does to the hand, the records and the files.                *)

LEMMA HandStep ==
    ASSUME Typed, [Next]_vars, ~Crash
    PROVE  \/ MacsInHand' = MacsInHand
           \/ MacsInHand = {} /\ UNCHANGED <<armed, files>> /\ \E m \in Macs : MacsInHand' = {m}
           \/ MacsInHand' = {}
  <1>1. CASE Request
    <2>1. PICK op \in Ops, macs \in SUBSET Macs, mode \in Modes \cup {None} :
              Begin(op, macs, mode) /\ (op \in {"arm", "ipxe"} => \E m \in Macs : macs = {m})
      BY <1>1, ArmingAssumption
         DEF Request, ApiStatus, ArmHost, DisarmHost, ScanReplace, RemoveHost, DisarmMac, IpxeBoot, Ops
    <2>2. MacsInHand = {} /\ UNCHANGED <<armed, files>>
      BY <2>1 DEF Begin, MacsInHand, NoRequest, Typed, HandlerShape, files
    <2>3. req' = [op |-> op, macs |-> macs, mode |-> mode, due |-> 0]
      BY <2>1 DEF Begin
    <2>4. QED
      BY <2>1, <2>2, <2>3 DEF MacsInHand
  <1>2. CASE EndRequest
    BY <1>2 DEF EndRequest, NoRequest, MacsInHand
  <1>3. CASE ArmSavePruned /\ ~EndRequest
    <2>1. req'.op = req.op /\ req'.macs = req.macs
      BY <1>3 DEF ArmSavePruned, Typed, TypeOK
    <2>2. QED
      BY <2>1 DEF MacsInHand
  <1>4. CASE UNCHANGED req
    BY <1>4 DEF MacsInHand
  <1>5. QED
    BY <1>1, <1>2, <1>3, <1>4
       DEF Next, HandlerStep, PruneAllow, PruneGrub, StatusSave, GrubWrite, AllowAdd, SaveArm,
           UndoAllow, UndoGrub, StartClear, DisarmUnrecorded, RemoveUnrecorded, ClearAllow,
           ClearGrub, ClearSave, IpxeMiss, IpxeConsume, IpxeAllow, LateHelper, DnsmasqRestart,
           ClientStep, PxeBoot, GrubLoad, StartJob, FinishJob, Reboot, Tick, handler, vars

\* A record changes in a step of its own, by saving the handler's copy.
LEMMA RecordStep ==
    ASSUME Typed, CopyInv, [Next]_vars
    PROVE  \/ UNCHANGED armed
           \/ /\ UNCHANGED files
              /\ pc # "idle" /\ cur = None
              /\ \A m \in Macs \ MacsInHand : armed'[m] = mem[m]
  <1> USE DEF Typed
  <1>1. CASE StatusSave \/ ArmSavePruned \/ ClearSave \/ IpxeMiss
    BY <1>1 DEF StatusSave, ArmSavePruned, ClearSave, IpxeMiss, Pruned, SaveOk, SaveFails, HandlerShape
  <1>2. CASE SaveArm
    <2>1. req.op = "arm" /\ pc # "idle" /\ cur = None /\ UNCHANGED files
      BY <1>2 DEF SaveArm, HandlerShape, ArmSteps
    <2>2. UNCHANGED armed \/ \A m \in Macs \ req.macs : armed'[m] = mem[m]
      BY <1>2 DEF SaveArm, SaveOk, SaveFails, TypeOK
    <2>3. QED
      BY <2>1, <2>2 DEF MacsInHand
  <1>3. CASE IpxeConsume
    <2>1. req.op = "ipxe" /\ pc # "idle" /\ cur = None /\ UNCHANGED files
      BY <1>3 DEF IpxeConsume, Pruned, HandlerShape
    <2>2. UNCHANGED armed \/ \A m \in Macs \ req.macs : armed'[m] = mem[m]
      BY <1>3 DEF IpxeConsume, Hit, SaveOk, SaveFails, TypeOK
    <2>3. QED
      BY <2>1, <2>2 DEF MacsInHand
  <1>4. QED
    BY <1>1, <1>2, <1>3
       DEF Next, Request, ApiStatus, ArmHost, DisarmHost, ScanReplace, RemoveHost, DisarmMac,
           IpxeBoot, Begin, HandlerStep, PruneAllow, PruneGrub, GrubWrite, AllowAdd, UndoAllow,
           UndoGrub, StartClear, DisarmUnrecorded, RemoveUnrecorded, ClearAllow, ClearGrub,
           IpxeAllow, LateHelper, Crash, DnsmasqRestart, ClientStep, PxeBoot, GrubLoad, StartJob,
           FinishJob, Reboot, Tick, vars

\* A machine whose MAC is not in hand boots into nothing but what is recorded.
LEMMA FilesSettle ==
    Typed /\ FilesAgree => \A m \in Macs \ MacsInHand : BootedJob[m] \in {None, RecordedJob[m]}
  <1> SUFFICES ASSUME Typed, FilesAgree, NEW m \in Macs \ MacsInHand
               PROVE  BootedJob[m] \in {None, RecordedJob[m]}
    OBVIOUS
  <1>1. ~BeingArmed(m)
    BY DEF BeingArmed, MacsInHand, Typed, HandlerShape, ArmSteps
  <1>2. QED
    BY <1>1 DEF FilesAgree, Agrees, BootFiles, BootedJob, RecordedJob, Bootable

\* A record that the handler in hand is about to drop is that of a machine
\* that does not boot.
LEMMA DroppedSettle ==
    ASSUME Typed, FilesAgree, pc # "idle", cur = None,
           NEW m \in Macs \ MacsInHand, mem[m] = None
    PROVE  BootedJob[m] = None
  <1>1. ~BeingArmed(m)
    BY DEF BeingArmed, MacsInHand, Typed, HandlerShape, ArmSteps
  <1>2. Agrees(mem, m)
    BY <1>1, ArmingAssumption DEF FilesAgree
  <1>3. QED
    BY <1>2 DEF Agrees, BootFiles, BootedJob, Bootable

LEMMA LeaseStep ==
    ASSUME Typed, FilesAgree, CopyInv, [Next]_vars, ~Crash,
           Typed', FilesAgree'
    PROVE  [Lease!Next]_(Lease!lease)
  <1> USE DEF Lease!lease, Lease!Next, Lease!Settled
  <1>1. Lease!Recorded
    <2> SUFFICES ASSUME NEW m \in Macs \ MacsInHand, RecordedJob'[m] # RecordedJob[m]
                 PROVE  RecordedJob'[m] = None /\ BootedJob[m] = None
      BY DEF Lease!Recorded
    <2>1. armed'[m] # armed[m]
      BY DEF RecordedJob
    <2>2. armed'[m] = mem[m] /\ pc # "idle" /\ cur = None
      BY <2>1, RecordStep
    <2>3. armed'[m] = None /\ mem[m] = None
      BY <2>1, <2>2 DEF CopyInv
    <2>4. QED
      BY <2>2, <2>3, DroppedSettle DEF RecordedJob
  <1>2. \A m \in Macs \ MacsInHand' : BootedJob'[m] \in {None, RecordedJob'[m]}
    <2>1. (Typed /\ FilesAgree =>
               \A m \in Macs \ MacsInHand : BootedJob[m] \in {None, RecordedJob[m]})'
      BY FilesSettle, PTL
    <2>2. QED
      BY <2>1
  <1>3. UNCHANGED <<armed, files>> => UNCHANGED <<RecordedJob, BootedJob>>
    BY DEF RecordedJob, BootedJob, Bootable, files
  <1>4. UNCHANGED armed \/ UNCHANGED files
    BY RecordStep
  <1>5. ASSUME UNCHANGED armed
        PROVE  Lease!Switched /\ UNCHANGED RecordedJob
    <2>1. UNCHANGED RecordedJob
      BY <1>5 DEF RecordedJob
    <2>2. QED
      BY <2>1, <1>2, <1>3, HandStep DEF Lease!Switched
  <1>6. ASSUME UNCHANGED files
        PROVE  UNCHANGED BootedJob
    BY <1>6 DEF BootedJob, Bootable, files
  <1>7. CASE MacsInHand' = MacsInHand
    BY <1>1, <1>4, <1>5, <1>6, <1>7 DEF Lease!Write, Lease!Switch
  <1>8. CASE MacsInHand = {} /\ UNCHANGED <<armed, files>> /\ \E m \in Macs : MacsInHand' = {m}
    BY <1>3, <1>8 DEF Lease!Take
  <1>9. CASE MacsInHand' = {}
    BY <1>1, <1>2, <1>4, <1>5, <1>6, <1>9 DEF Lease!Release
  <1>10. QED
    BY <1>7, <1>8, <1>9, HandStep

(***************************************************************************)
(* Arming implements the lease: with helpers that do not time out, a       *)
(* process that is not killed inside a handler and at most one helper that *)
(* fails, what the three places and the handlers do is, for every number   *)
(* of machines and requests, a behaviour of ArmLease.                      *)
(***************************************************************************)
THEOREM LeaseImplemented ==
    ASSUME WithinBudget
    PROVE  Spec => ImplementsLease
  <1> DEFINE I == Typed /\ BudgetInv /\ FilesAgree /\ CopyInv
  <1>1. Init => I
    <2>1. Init => BudgetInv
      BY ArmingAssumption DEF Init, BudgetInv
    <2>2. Init => CopyInv
      BY DEF Init, CopyInv
    <2>3. QED
      BY <2>1, <2>2, TypeInit, AgreeInit, BudgetTolerated
  <1>2. I /\ [Next]_vars => I'
    <2> SUFFICES ASSUME I, [Next]_vars PROVE I'
      OBVIOUS
    <2>1. Typed' /\ BudgetInv' /\ CopyInv'
      BY TypedStep, BudgetStep, CopyStep
    <2>2. (WithinBudget /\ Typed /\ BudgetInv => Tolerated)'
      BY BudgetTolerated, PTL
    <2>3. QED
      BY <2>1, <2>2, AgreeStep, BudgetTolerated
  <1>3. I /\ I' /\ [Next]_vars => [Lease!Next]_(Lease!lease)
    <2>1. I => Tolerated
      BY BudgetTolerated
    <2>2. I /\ I' /\ [Next]_vars => ~Crash
      BY ArmingAssumption
         DEF WithinBudget, BudgetInv, Crash, Fault, FaultKinds, Typed, TypeOK
    <2>3. QED
      BY <2>2, LeaseStep
  <1>4. Init => Lease!Init
    BY DEF Init, Lease!Init, RecordedJob, BootedJob, Bootable, MacsInHand, NoRecords, NoRequest
  <1>5. QED
    BY <1>1, <1>2, <1>3, <1>4, PTL DEF Spec, ImplementsLease, Lease!Spec
=============================================================================
