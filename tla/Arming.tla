------------------------------- MODULE Arming -------------------------------
(***************************************************************************)
(* Arming a machine for one PXE boot into Clonezilla, and disarming it.    *)
(*                                                                         *)
(* An arm lives in three places: a record in state.json (armed), a line in *)
(* dnsmasq's dhcp-hostsfile (allow, with served the set dnsmasq has        *)
(* loaded) and a per-MAC GRUB configuration (grub).  Every handler of      *)
(* app.py that touches them runs without an await from its load_state() to *)
(* its end, so handlers exclude each other; but a handler changes the      *)
(* three places one after the other, each helper may fail, and PXE clients *)
(* read the two files between any two steps.                               *)
(*                                                                         *)
(* One handler is one sequence of actions: pc is where it stands, req the  *)
(* request it serves, mem its copy of the records, left the MACs that its  *)
(* current loop has still to revoke, cur the one whose allowlist entry is  *)
(* gone and whose GRUB file is next.                                       *)
(***************************************************************************)
EXTENDS Naturals, FiniteSets

CONSTANTS
    Macs,        \* MAC addresses
    Clients,     \* those whose machines network-boot in this instance
    Modes,       \* "backup" and "recovery"
    None,        \* no record, no GRUB file, no mode
    ArmTTL,      \* ARM_TTL, in ticks of the clock
    MaxTime,     \* bound on the clock
    MaxPending,  \* bound on the disarm calls of one machine under way
    MaxFaults,   \* bound on the faults of each kind
    IpxeInUse    \* TRUE if some client asks for /ipxe/boot

FaultKinds == {"exit", "timeout", "save", "crash", "lost"}

Record == [mode : Modes, expiresAt : Nat]

ASSUME ArmingAssumption ==
    /\ Clients \subseteq Macs
    /\ None \notin Macs /\ None \notin Modes /\ None \notin Record
    /\ ArmTTL \in Nat \ {0}
    /\ MaxTime \in Nat /\ MaxPending \in Nat
    /\ MaxFaults \in [FaultKinds -> Nat]
    /\ IpxeInUse \in BOOLEAN

VARIABLES
    armed,     \* state.json: the record of each MAC, or None
    allow,     \* dhcp-hosts.conf: the MACs tagged "allowed"
    served,    \* the MACs dnsmasq tags, as of its last reload
    grub,      \* the mode of grub.cfg-<mac>, None if there is no such file
    now,       \* time.time()
    pc, req, mem, left, cur,  \* the handler on the event loop
    machine,   \* what each client runs
    pending,   \* DELETE /api/arm/<mac> calls under way
    released,  \* MACs whose DELETE was answered, and not armed since
    late,      \* helper calls still running after their timeout
    faults     \* the faults so far, by kind

files   == <<allow, served, grub>>
handler == <<pc, req, mem, left, cur>>
clients == <<machine, pending, released>>
mishaps == <<late, faults>>
vars    == <<armed, files, now, handler, clients, mishaps>>

Ops == {"status", "arm", "disarm", "disarm_mac", "remove", "ipxe"}

Steps == {"idle", "prune", "prune_grub", "grub_write", "allow_add", "save_arm",
          "undo_allow", "undo_grub", "clear", "clear_grub", "ipxe_allow"}

\* A helper call: the allowlist it is about to install, or the GRUB file.
LateCall == [file : {"allow"}, entries : SUBSET Macs]
              \cup [file : {"grub"}, mac : Macs, mode : Modes \cup {None}]

NoRecords == [m \in Macs |-> None]
NoRequest == [op |-> "status", macs |-> {}, mode |-> None, due |-> 0]

\* The machine of m gets "Clonezilla" from the proxy-DHCP and GRUB then finds
\* a per-MAC configuration: it boots into the live environment.
Bootable(m) == m \in served /\ grub[m] # None

\* Mutation: the comparison with the clock is off by one.
ExpiredEarly(m) == armed[m] # None /\ armed[m].expiresAt <= now + 1

\* A record that prune_expired would drop.
Expired(m) == armed[m] # None /\ armed[m].expiresAt <= now

\* The values of the variables, as the handlers and the helpers write them.
TypeOK ==
    /\ armed \in [Macs -> Record \cup {None}]
    /\ allow \subseteq Macs /\ served \subseteq Macs
    /\ grub \in [Macs -> Modes \cup {None}]
    /\ now \in Nat
    /\ pc \in Steps
    /\ req \in [op : Ops, macs : SUBSET Macs, mode : Modes \cup {None}, due : Nat]
    /\ mem \in [Macs -> Record \cup {None}]
    /\ left \subseteq Macs
    /\ cur \in Macs \cup {None}
    /\ machine \in [Clients -> {"local", "grub", "live", "job"}]
    /\ pending \in [Clients -> Nat]
    /\ released \subseteq Macs
    /\ late \subseteq LateCall
    /\ faults \in [FaultKinds -> Nat]

Init ==
    /\ armed = NoRecords
    /\ allow = {} /\ served = {}
    /\ grub = [m \in Macs |-> None]
    /\ now = 0
    /\ pc = "idle" /\ req = NoRequest /\ mem = NoRecords /\ left = {} /\ cur = None
    /\ machine = [m \in Clients |-> "local"]
    /\ pending = [m \in Clients |-> 0]
    /\ released = {}
    /\ late = {}
    /\ faults = [k \in FaultKinds |-> 0]

-----------------------------------------------------------------------------
(* Faults and the privileged helpers.                                      *)

Fault(kind) ==
    /\ faults[kind] < MaxFaults[kind]
    /\ faults' = [faults EXCEPT ![kind] = @ + 1]

\* recovery-allowlist replaces the file, then reloads dnsmasq.  It may exit
\* non-zero before the replacement or, when the reload fails, after it.
AllowlistOk(entries) ==
    /\ allow' = entries /\ served' = entries
    /\ UNCHANGED mishaps

AllowlistExit(entries) ==
    /\ Fault("exit")
    /\ allow' \in {allow, entries}
    /\ UNCHANGED <<served, late>>

\* The 10 s timeout of subprocess.run ends the wait, not the root process
\* behind sudo: what that still does comes later, or never.
AllowlistTimeout(entries) ==
    /\ Fault("timeout")
    /\ late' = late \cup {[file |-> "allow", entries |-> entries]}
    /\ UNCHANGED <<allow, served>>

\* recovery-grubcfg renames a finished file into place, or unlinks it: it
\* fails before its effect.
GrubOk(m, mode) ==
    /\ grub' = [grub EXCEPT ![m] = mode]
    /\ UNCHANGED mishaps

GrubExit == Fault("exit") /\ UNCHANGED <<grub, late>>

GrubTimeout(m, mode) ==
    /\ Fault("timeout")
    /\ late' = late \cup {[file |-> "grub", mac |-> m, mode |-> mode]}
    /\ UNCHANGED grub

LateHelper ==
    /\ \E call \in late :
         /\ late' = late \ {call}
         /\ \/ /\ call.file = "allow"
               /\ allow' = call.entries
               /\ served' \in {served, call.entries}
               /\ UNCHANGED grub
            \/ /\ call.file = "grub"
               /\ grub' = [grub EXCEPT ![call.mac] = call.mode]
               /\ UNCHANGED <<allow, served>>
    /\ UNCHANGED <<armed, now, handler, clients, faults>>

\* save_state replaces the whole file or raises and leaves it alone.
SaveOk(records) == armed' = records /\ UNCHANGED mishaps
SaveFails       == Fault("save") /\ UNCHANGED <<armed, late>>

\* The handler returns, or an exception ends it with a 500.
EndRequest ==
    /\ pc' = "idle" /\ req' = NoRequest /\ mem' = NoRecords
    /\ left' = {} /\ cur' = None

-----------------------------------------------------------------------------
(* Requests.  Each loads the records and computes what prune_expired drops. *)

\* Mutation: the status page no longer prunes.
BeginUnpruned(op, macs, mode) ==
    /\ pc = "idle"
    /\ pc' = "prune"
    /\ req' = [op |-> op, macs |-> macs, mode |-> mode, due |-> 0]
    /\ mem' = armed
    /\ left' = {m \in Macs : op # "status" /\ Expired(m)}
    /\ UNCHANGED <<armed, files, now, cur, machine, mishaps>>

Begin(op, macs, mode) ==
    /\ pc = "idle"
    /\ pc' = "prune"
    /\ req' = [op |-> op, macs |-> macs, mode |-> mode, due |-> 0]
    /\ mem' = armed
    /\ left' = {m \in Macs : Expired(m)}
    /\ UNCHANGED <<armed, files, now, cur, machine, mishaps>>

ApiStatus      == Begin("status", {}, None) /\ UNCHANGED <<pending, released>>

ArmHost(m, mode) ==
    /\ Begin("arm", {m}, mode)
    /\ released' = released \ {m}
    /\ UNCHANGED pending

\* The MACs are those armed under the given host key and the one of its entry.
DisarmHost(ms) == Begin("disarm", ms, None) /\ UNCHANGED <<pending, released>>

\* A scan that finds other MACs at known addresses disarms the old ones.
ScanReplace(ms) ==
    /\ ms # {}
    /\ Begin("disarm", ms, None)
    /\ UNCHANGED <<pending, released>>

RemoveHost(m) == Begin("remove", {m}, None) /\ UNCHANGED <<pending, released>>

\* A client's DELETE reaches the server, maybe long after it was sent.
DisarmMac(m) ==
    /\ pending[m] > 0
    /\ Begin("disarm_mac", {m}, None)
    /\ pending' = [pending EXCEPT ![m] = @ - 1]
    /\ UNCHANGED released

IpxeBoot(m) ==
    /\ IpxeInUse
    /\ Begin("ipxe", {m}, None)
    /\ UNCHANGED <<pending, released>>

-----------------------------------------------------------------------------
(* prune_expired: whatever the allowlist helper raises is swallowed, of    *)
(* the GRUB helper only a non-zero exit is.                                *)

PruneAllow ==
    /\ pc = "prune"
    /\ \E m \in left :
         /\ mem' = [mem EXCEPT ![m] = None]
         /\ cur' = m
         /\ \/ AllowlistOk(allow \ {m})
            \/ AllowlistExit(allow \ {m})
            \/ AllowlistTimeout(allow \ {m})
    /\ pc' = "prune_grub"
    /\ UNCHANGED <<armed, grub, now, req, left, clients>>

\* Mutation: pruning forgets the GRUB file.
PruneNoGrub ==
    /\ pc = "prune_grub"
    /\ pc' = "prune" /\ left' = left \ {cur} /\ cur' = None
    /\ UNCHANGED <<armed, files, now, req, mem, clients, mishaps>>

PruneGrub ==
    /\ pc = "prune_grub"
    /\ \/ /\ GrubOk(cur, None) \/ GrubExit
          /\ pc' = "prune" /\ left' = left \ {cur} /\ cur' = None
          /\ UNCHANGED <<req, mem>>
       \/ GrubTimeout(cur, None) /\ EndRequest
    /\ UNCHANGED <<armed, allow, served, now, clients>>

Pruned(op) == pc = "prune" /\ left = {} /\ req.op = op

\* The status page saves what it pruned, and lives on if it cannot.
StatusSave ==
    /\ Pruned("status")
    /\ SaveOk(mem) \/ SaveFails
    /\ EndRequest
    /\ UNCHANGED <<files, now, clients>>

-----------------------------------------------------------------------------
(* arm_host: GRUB file, allowlist, record, each rolled back if the next fails. *)

ArmSavePruned ==
    /\ Pruned("arm")
    /\ \/ /\ SaveOk(mem)
          /\ pc' = "grub_write"
          /\ req' = [req EXCEPT !.due = now + ArmTTL]
          /\ UNCHANGED <<mem, left, cur>>
       \/ SaveFails /\ EndRequest
    /\ UNCHANGED <<files, now, clients>>

GrubWrite ==
    /\ pc = "grub_write"
    /\ \E m \in req.macs :
         \/ /\ GrubOk(m, req.mode)
            /\ pc' = "allow_add"
            /\ UNCHANGED <<req, mem, left, cur>>
         \/ /\ GrubExit \/ GrubTimeout(m, req.mode)
            /\ EndRequest
    /\ UNCHANGED <<armed, allow, served, now, clients>>

\* Mutation: a failed allowlist add is not rolled back.
AllowAddNoRollback ==
    /\ pc = "allow_add"
    /\ \E m \in req.macs :
         \/ /\ AllowlistOk(allow \cup {m})
            /\ pc' = "save_arm"
            /\ UNCHANGED <<req, mem, left, cur>>
         \/ /\ AllowlistExit(allow \cup {m}) \/ AllowlistTimeout(allow \cup {m})
            /\ EndRequest
    /\ UNCHANGED <<armed, grub, now, clients>>

\* Only a non-zero exit is rolled back: a timeout escapes the handler.
AllowAdd ==
    /\ pc = "allow_add"
    /\ \E m \in req.macs :
         \/ /\ AllowlistOk(allow \cup {m})
            /\ pc' = "save_arm"
            /\ UNCHANGED <<req, mem, left, cur>>
         \/ /\ AllowlistExit(allow \cup {m})
            /\ pc' = "undo_grub"
            /\ UNCHANGED <<req, mem, left, cur>>
         \/ AllowlistTimeout(allow \cup {m}) /\ EndRequest
    /\ UNCHANGED <<armed, grub, now, clients>>

\* Mutation: the record lacks the mode.
ArmedNoMode == [mode |-> None, expiresAt |-> req.due]

ArmedRecord == [mode |-> req.mode, expiresAt |-> req.due]

\* Mutation: a record that cannot be saved is not rolled back.
SaveArmNoRollback ==
    /\ pc = "save_arm"
    /\ \E m \in req.macs : SaveOk([mem EXCEPT ![m] = ArmedRecord]) \/ SaveFails
    /\ EndRequest
    /\ UNCHANGED <<files, now, clients>>

SaveArm ==
    /\ pc = "save_arm"
    /\ \E m \in req.macs :
         \/ SaveOk([mem EXCEPT ![m] = ArmedRecord]) /\ EndRequest
         \/ /\ SaveFails
            /\ pc' = "undo_allow"
            /\ UNCHANGED <<req, mem, left, cur>>
    /\ UNCHANGED <<files, now, clients>>

UndoAllow ==
    /\ pc = "undo_allow"
    /\ \E m \in req.macs :
         \/ AllowlistOk(allow \ {m})
         \/ AllowlistExit(allow \ {m})
         \/ AllowlistTimeout(allow \ {m})
    /\ pc' = "undo_grub"
    /\ UNCHANGED <<armed, grub, now, req, mem, left, cur, clients>>

UndoGrub ==
    /\ pc = "undo_grub"
    /\ \E m \in req.macs : GrubOk(m, None) \/ GrubExit \/ GrubTimeout(m, None)
    /\ EndRequest
    /\ UNCHANGED <<armed, allow, served, now, clients>>

-----------------------------------------------------------------------------
(* disarm_host, disarm_mac, remove_host and a scan's replacements revoke   *)
(* the records they hit one by one and save at the end.                    *)

Hit == {m \in req.macs : mem[m] # None}

StartClear ==
    /\ pc = "prune" /\ left = {} /\ (Hit # {} \/ req.op = "disarm")
    /\ req.op \in {"disarm", "disarm_mac", "remove"}
    /\ pc' = "clear" /\ left' = Hit
    /\ UNCHANGED <<armed, files, now, req, mem, cur, clients, mishaps>>

\* Mutation: disarm_mac returns early when there is no record.
DisarmShortcut ==
    /\ Pruned("disarm_mac") /\ Hit = {}
    /\ pc' = "clear"
    /\ UNCHANGED <<armed, files, now, req, mem, left, cur, clients, mishaps>>

\* disarm_mac removes the GRUB file even of a MAC without a record.
DisarmUnrecorded ==
    /\ Pruned("disarm_mac") /\ Hit = {}
    /\ cur' \in req.macs
    /\ pc' = "clear_grub"
    /\ UNCHANGED <<armed, files, now, req, mem, left, clients, mishaps>>

\* remove_host does not even save the pruning then.
RemoveUnrecorded ==
    /\ Pruned("remove") /\ Hit = {}
    /\ EndRequest
    /\ UNCHANGED <<armed, files, now, clients, mishaps>>

ClearAllow ==
    /\ pc = "clear"
    /\ \E m \in left :
         \/ /\ AllowlistOk(allow \ {m}) \/ AllowlistExit(allow \ {m})
            /\ mem' = [mem EXCEPT ![m] = None]
            /\ cur' = m
            /\ pc' = "clear_grub"
            /\ UNCHANGED <<req, left>>
         \/ AllowlistTimeout(allow \ {m}) /\ EndRequest
    /\ UNCHANGED <<armed, grub, now, clients>>

\* Mutation: disarming forgets the GRUB file.
ClearNoGrub ==
    /\ pc = "clear_grub"
    /\ pc' = "clear" /\ left' = left \ {cur} /\ cur' = None
    /\ UNCHANGED <<armed, files, now, req, mem, clients, mishaps>>

ClearGrub ==
    /\ pc = "clear_grub"
    /\ \/ /\ GrubOk(cur, None) \/ GrubExit
          /\ pc' = "clear" /\ left' = left \ {cur} /\ cur' = None
          /\ UNCHANGED <<req, mem>>
       \/ GrubTimeout(cur, None) /\ EndRequest
    /\ UNCHANGED <<armed, allow, served, now, clients>>

\* Mutation: disarming does not save.
ClearNoSave ==
    /\ pc = "clear" /\ left = {}
    /\ EndRequest
    /\ UNCHANGED <<armed, files, now, clients, mishaps>>

ClearSave ==
    /\ pc = "clear" /\ left = {}
    /\ \/ /\ SaveOk(mem)
          /\ released' = IF req.op = "disarm_mac" THEN released \cup req.macs ELSE released
       \/ SaveFails /\ UNCHANGED released
    /\ EndRequest
    /\ UNCHANGED <<files, now, machine, pending>>

-----------------------------------------------------------------------------
(* ipxe_boot: the record goes first, whether it can be saved or not, then  *)
(* the allowlist entry; the GRUB file stays.                               *)

IpxeMiss ==
    /\ Pruned("ipxe") /\ Hit = {}
    /\ SaveOk(mem) \/ SaveFails
    /\ EndRequest
    /\ UNCHANGED <<files, now, clients>>

IpxeConsume ==
    /\ Pruned("ipxe")
    /\ \E m \in Hit :
         /\ mem' = [mem EXCEPT ![m] = None]
         /\ SaveOk(mem') \/ SaveFails
    /\ pc' = "ipxe_allow"
    /\ UNCHANGED <<files, now, req, left, cur, clients>>

IpxeAllow ==
    /\ pc = "ipxe_allow"
    /\ \E m \in req.macs :
         \/ AllowlistOk(allow \ {m})
         \/ AllowlistExit(allow \ {m})
         \/ AllowlistTimeout(allow \ {m})
    /\ EndRequest
    /\ UNCHANGED <<armed, grub, now, clients>>

-----------------------------------------------------------------------------
(* The server process and dnsmasq.                                         *)

\* The process is killed, or the power fails, between two steps: the requests
\* under way are lost and nothing is reconciled at the restart.
Crash ==
    /\ pc # "idle"
    /\ Fault("crash")
    /\ EndRequest
    /\ late' = {}
    /\ pending' = [m \in Clients |-> 0]
    /\ UNCHANGED <<armed, files, now, machine, released>>

\* dnsmasq restarts, and reads the file as it is.
DnsmasqRestart ==
    /\ served # allow
    /\ served' = allow
    /\ UNCHANGED <<armed, allow, grub, now, handler, clients, mishaps>>

-----------------------------------------------------------------------------
(* The client machines: proxy-DHCP, GRUB, the live system, ocs-*.sh.       *)

PxeBoot(m) ==
    /\ machine[m] = "local" /\ m \in served
    /\ machine' = [machine EXCEPT ![m] = "grub"]
    /\ UNCHANGED <<armed, files, now, handler, pending, released, mishaps>>

\* grub.cfg sources grub.cfg-<mac> if there is one, else boots the local disk.
GrubLoad(m) ==
    /\ machine[m] = "grub"
    /\ machine' = [machine EXCEPT ![m] = IF grub[m] # None THEN "live" ELSE "local"]
    /\ UNCHANGED <<armed, files, now, handler, pending, released, mishaps>>

\* A best-effort DELETE: it may be lost, the script goes on after 5 s anyway.
SendDisarm(m) ==
    \/ /\ pending[m] < MaxPending
       /\ pending' = [pending EXCEPT ![m] = @ + 1]
       /\ UNCHANGED mishaps
    \/ Fault("lost") /\ UNCHANGED <<pending, late>>

StartJob(m) ==
    /\ machine[m] = "live"
    /\ machine' = [machine EXCEPT ![m] = "job"]
    /\ SendDisarm(m)
    /\ UNCHANGED <<armed, files, now, handler, released>>

\* The job is over, or has failed: a second DELETE, then a reboot.
FinishJob(m) ==
    /\ machine[m] = "job"
    /\ machine' = [machine EXCEPT ![m] = "local"]
    /\ SendDisarm(m)
    /\ UNCHANGED <<armed, files, now, handler, released>>

\* A forced reboot, or the NFS check of ocs-backup.sh, which reboots without
\* the second DELETE.
Reboot(m) ==
    /\ machine[m] \in {"grub", "live", "job"}
    /\ machine' = [machine EXCEPT ![m] = "local"]
    /\ UNCHANGED <<armed, files, now, handler, pending, released, mishaps>>

Tick ==
    /\ now < MaxTime
    /\ now' = now + 1
    /\ UNCHANGED <<armed, files, handler, clients, mishaps>>

-----------------------------------------------------------------------------

Request ==
    \/ ApiStatus
    \/ \E m \in Macs, mode \in Modes : ArmHost(m, mode)
    \/ \E ms \in SUBSET Macs : DisarmHost(ms) \/ ScanReplace(ms)
    \/ \E m \in Macs : RemoveHost(m) \/ IpxeBoot(m)
    \/ \E m \in Clients : DisarmMac(m)

HandlerStep ==
    \/ PruneAllow \/ PruneGrub \/ StatusSave
    \/ ArmSavePruned \/ GrubWrite \/ AllowAdd \/ SaveArm \/ UndoAllow \/ UndoGrub
    \/ StartClear \/ DisarmUnrecorded \/ RemoveUnrecorded
    \/ ClearAllow \/ ClearGrub \/ ClearSave
    \/ IpxeMiss \/ IpxeConsume \/ IpxeAllow

ClientStep ==
    \E m \in Clients :
        PxeBoot(m) \/ GrubLoad(m) \/ StartJob(m) \/ FinishJob(m) \/ Reboot(m)

Next ==
    \/ Request \/ HandlerStep \/ LateHelper
    \/ Crash \/ DnsmasqRestart \/ ClientStep \/ Tick

Spec == Init /\ [][Next]_vars

\* The event loop runs a handler to its end, and serves the status request
\* that an open page sends every 5 s among the others.
FairSpec == Spec /\ WF_vars(HandlerStep) /\ SF_vars(ApiStatus)

-----------------------------------------------------------------------------
(* The lease that the three places implement together.                     *)

RecordedJob == [m \in Macs |-> IF armed[m] = None THEN None ELSE armed[m].mode]
BootedJob   == [m \in Macs |-> IF Bootable(m) THEN grub[m] ELSE None]
MacsInHand  == IF req.op \in {"arm", "ipxe"} THEN req.macs ELSE {}

Lease == INSTANCE ArmLease WITH record <- RecordedJob, boots <- BootedJob, hand <- MacsInHand

-----------------------------------------------------------------------------
(* Properties.                                                             *)

\* Every step of the handlers, helpers and clients is a step of the abstract
\* lease or leaves it alone, as long as no helper times out, no process dies
\* inside a handler and at most one helper fails: whatever the order in which
\* record, allowlist, dnsmasq and GRUB file change, no machine starts to boot
\* without its record, no record goes while its machine boots, and a handler
\* that ends, also through its rollbacks, leaves the three in agreement.
ImplementsLease == Lease!Spec

\* The faults the handlers are written to survive: save_state may fail any
\* number of times, disarm calls may be lost, but no helper times out, the
\* process does not die inside a handler and at most one helper call exits
\* non-zero (none if /ipxe/boot, which keeps the GRUB file, is in use).
Tolerated ==
    /\ faults["timeout"] = 0 /\ faults["crash"] = 0
    /\ faults["exit"] <= (IF IpxeInUse THEN 0 ELSE 1)

\* The request in hand is putting m's boot files in place or taking them away
\* in an order that leaves them ahead of, or behind, the record.
InHand(m) ==
    /\ m \in req.macs
    /\ \/ pc \in {"allow_add", "save_arm", "undo_allow", "undo_grub"} /\ grub[m] \in {req.mode, None}
       \/ pc = "ipxe_allow"

\* A machine can network-boot into a job only while state.json has a record
\* for it with the mode of its GRUB file, whatever the requests and their
\* order, except for the MAC the handler in hand is about to record or roll
\* back.  (arm_host's order of steps and rollbacks; every revocation.)
BootNeedsRecord ==
    Tolerated => \A m \in Macs :
        Bootable(m) => \/ armed[m] # None /\ armed[m].mode = grub[m]
                       \/ InHand(m)

\* What the registers of the handler hold at each of its steps.
ArmSteps == {"grub_write", "allow_add", "save_arm", "undo_allow", "undo_grub"}

HandlerShape ==
    /\ pc = "idle" => req = NoRequest
    /\ req.op = "arm" => req.mode \in Modes
    /\ req.op \in {"arm", "ipxe"} => \E m \in Macs : req.macs = {m}
    /\ req.op = "ipxe" => IpxeInUse
    /\ pc \in ArmSteps => req.op = "arm"
    /\ pc = "ipxe_allow" => req.op = "ipxe"
    /\ IF pc \in {"prune_grub", "clear_grub"} THEN cur \in Macs ELSE cur = None

Typed == TypeOK /\ HandlerShape /\ (faults["timeout"] = 0 => late = {})

\* The two boot files of m agree with the records.  A failed revocation may
\* leave one of them behind, never both; while no helper has failed neither
\* is left behind.
BootFiles == allow \cup served

Agrees(records, m) ==
    /\ m \in BootFiles /\ grub[m] # None =>
           records[m] # None /\ records[m].mode = grub[m]
    /\ faults["exit"] = 0 =>
           /\ m \in BootFiles => records[m] # None
           /\ grub[m] # None /\ records[m] # None => records[m].mode = grub[m]
           /\ grub[m] # None /\ ~IpxeInUse => records[m] # None

BeingArmed(m) ==
    m \in req.macs /\ pc \in {"allow_add", "save_arm", "undo_allow", "undo_grub", "ipxe_allow"}

\* The strengthening of BootNeedsRecord that every step preserves: the files
\* agree with state.json and with the handler's copy of it, except for the MAC
\* of the step in hand, of which each step says what is half done.
FilesAgree ==
    /\ \A m \in Macs : ~BeingArmed(m) => Agrees(armed, m)
    /\ pc # "idle" => \A m \in Macs : ~BeingArmed(m) /\ m # cur => Agrees(mem, m)
    /\ pc \in {"prune_grub", "clear_grub"} =>
           mem[cur] = None /\ (faults["exit"] = 0 => cur \notin BootFiles)
    /\ pc \in {"allow_add", "save_arm", "undo_allow", "undo_grub"} =>
           \A m \in req.macs : grub[m] = req.mode
    /\ pc = "allow_add" =>
           \A m \in req.macs : faults["exit"] = 0 /\ m \in BootFiles => armed[m] # None
    /\ pc = "undo_grub" =>
           \A m \in req.macs : faults["exit"] = 0 => m \notin BootFiles
    /\ pc = "ipxe_allow" =>
           \A m \in req.macs : grub[m] # None /\ armed[m] # None => armed[m].mode = grub[m]

ArmingInv == HandlerShape /\ (Tolerated => FilesAgree)

\* Without any fault a live record means that the machine will boot into that
\* job: what the page shows as armed is armed, whichever of the requests, also
\* those that drop the expired records without saving, came before.
RecordBoots ==
    (pc = "idle" /\ ~IpxeInUse /\ \A k \in FaultKinds \ {"lost"} : faults[k] = 0) =>
        \A m \in Macs :
            armed[m] # None /\ ~Expired(m) => Bootable(m) /\ armed[m].mode = grub[m]

\* Once a client's DELETE has been answered, no reboot takes the machine back
\* into a job until it is armed again, even if saves failed or the process died
\* inside other requests for it.  (disarm_mac's unconditional removal of the
\* GRUB file, the "reboot loop" of ocs-*.sh.)
NoRebootLoop ==
    faults["exit"] = 0 /\ faults["timeout"] = 0 => \A m \in released : ~Bootable(m)

\* A machine enters the live system only when it is recorded as armed for that
\* mode, or is the one in hand, at the moment GRUB reads its file, even though
\* the proxy-DHCP looked at another file earlier.
LiveNeedsRecord ==
    [][ faults["exit"] = 0 /\ Tolerated =>
          \A m \in Clients :
            machine[m] = "grub" /\ machine'[m] = "live" =>
                \/ armed[m] # None /\ armed[m].mode = grub[m]
                \/ InHand(m)
                \/ IpxeInUse ]_vars

\* A handler that fails or a process that dies never loses the record of a MAC
\* that it was not asked about and that had not expired.
OtherRecordsKept ==
    [][ \A m \in Macs :
          armed[m] # None /\ armed'[m] # armed[m] =>
              m \in req.macs \/ armed[m].expiresAt <= now ]_vars

\* As long as a page polls /api/status, an arm past its expiry stops being
\* bootable, or is renewed, whichever of the tolerated faults its revocation
\* meets.  (A process that dies inside arm_host, or a helper that times out,
\* may leave a machine armed without a record, which nothing revokes.)
ExpiryRevokes ==
    \A m \in Macs :
        Expired(m) ~> (~Bootable(m) \/ (armed[m] # None /\ ~Expired(m)) \/ ~Tolerated)

\* Claimed by app.py:1402 for the end of arm_host: no host is left
\* armed-without-record once the handler is done.
NeverArmedWithoutRecord ==
    pc = "idle" => \A m \in Macs : Bootable(m) => armed[m] # None
=============================================================================
