------------------------------ MODULE Storage ------------------------------
(***************************************************************************)
(* Changing the backup drive while clients, the page and the power go on.  *)
(*                                                                         *)
(* recovery-change-storage moves the bind mount at /srv/clonezilla-images  *)
(* from one drive to another, first through a temporary mount point and    *)
(* then through the standard one, editing /etc/fstab on the way.  It can   *)
(* end between any two of its steps and be run again.  From its middle on  *)
(* the interface runs next to it, and check_storage, which every poll of   *)
(* the page calls, starts recovery-remount when the bind is not a mount.   *)
(*                                                                         *)
(* A mount point is a stack: mounting where something is mounted already   *)
(* hides it, and unmounting shows it again.                                *)
(***************************************************************************)
EXTENDS Naturals, Sequences, Lists

CONSTANTS
    Drives,     \* file systems a drive can be adopted with
    FirstDrive, \* the drive in use at the beginning
    None,
    Helpers,    \* the runs of recovery-remount that can overlap
    MaxRuns,    \* bound on the runs of recovery-change-storage
    MaxReboots, \* bound on the reboots
    MaxPulls    \* bound on the drives pulled out

Std    == 0              \* /mnt/ftd-backup
Points == 0 .. MaxRuns   \* and /mnt/ftd-new-XXXXXX, a new one in each run

ASSUME StorageAssumption ==
    /\ FirstDrive \in Drives
    /\ None \notin Drives /\ None \notin Points
    /\ MaxRuns \in Nat /\ MaxReboots \in Nat /\ MaxPulls \in Nat

VARIABLES
    mounts,     \* what is mounted at each point, the visible one last
    bind,       \* what is mounted at /srv/clonezilla-images
    fstab,      \* [drive: entry of the standard mount point, bind: source of the bind entry]
    present,    \* the drives plugged in
    nfs, web,   \* are nfs-server and recovery-interface running
    script,     \* recovery-change-storage: its step and variables
    remount,    \* recovery-remount: its step and the source it read
    runs, reboots, pulls,
    announced,  \* the drive last announced to the operator as active
    unannounced \* the drive NFS was started for, as long as its announcement is outstanding

kernel   == <<mounts, bind, present>>
services == <<nfs, web>>
counters == <<runs, reboots, pulls>>
told     == <<announced, unannounced>>
vars     == <<kernel, fstab, services, script, remount, counters, told>>

Top(stack)    == IF stack = <<>> THEN None ELSE stack[Len(stack)]
Popped(stack) == IF stack = <<>> THEN <<>> ELSE SubSeq(stack, 1, Len(stack) - 1)

Steps == {"idle", "stop", "stop_nfs", "release", "drop_bind", "mount_new", "enter_new", "bind_new",
          "start", "web", "tell", "copy", "drop_old", "stop_again", "drop_entries", "unmount",
          "enter_drive", "enter_bind", "evict", "check_std", "mount_std", "bind_std", "finish",
          "web_again"}

Idle == [pc |-> "idle", chosen |-> None, old |-> None]
Ended     == [pc |-> "idle", src |-> None]
NoRemount == [h \in Helpers |-> Ended]

TypeOK ==
    /\ mounts \in [Points -> Seq(Drives)]
    /\ bind \in Seq(Drives)
    /\ fstab \in [drive : Drives \cup {None}, bind : Points \cup {None}]
    /\ present \subseteq Drives
    /\ nfs \in BOOLEAN /\ web \in BOOLEAN
    /\ script \in [pc : Steps, chosen : Drives \cup {None}, old : Points \cup {None}]
    /\ remount \in [Helpers -> [pc : {"idle", "read", "check", "mount", "check_bind", "bind"},
                                src : Points \cup {None}]]
    /\ runs \in Nat /\ reboots \in Nat /\ pulls \in Nat
    /\ announced \in Drives /\ unannounced \in Drives \cup {None}

Init ==
    /\ mounts = [p \in Points |-> IF p = Std THEN <<FirstDrive>> ELSE <<>>]
    /\ bind = <<FirstDrive>>
    /\ fstab = [drive |-> FirstDrive, bind |-> Std]
    /\ present = Drives
    /\ nfs = TRUE /\ web = TRUE
    /\ script = Idle
    /\ remount = NoRemount
    /\ runs = 0 /\ reboots = 0 /\ pulls = 0
    /\ announced = FirstDrive /\ unannounced = None

-----------------------------------------------------------------------------
(* mount and umount.                                                       *)

\* The kernel refuses a file system that is what the point already shows.
CanMount(d, p) == d \in present /\ Top(mounts[p]) # d

MountDrive(d, p) ==
    /\ CanMount(d, p)
    /\ mounts' = [mounts EXCEPT ![p] = Append(@, d)]

\* mount <point> looks the drive up in fstab; only the standard one ever has an entry.
HasEntry(p) == p = Std

\* The source is a directory of the drive, absent from the SD card below; a
\* bind mount is never refused for what the target shows.
CanBind(entry) == entry # None /\ mounts[entry] # <<>>

MountBind(entry) ==
    /\ CanBind(entry)
    /\ bind' = Append(bind, Top(mounts[entry]))

Unmount(p) == mounts' = [mounts EXCEPT ![p] = Popped(@)]

-----------------------------------------------------------------------------
(* recovery-change-storage, step by step.                                  *)

Tmp == runs     \* the temporary mount point of the current run

Goto(from, to) == script.pc = from /\ script' = [script EXCEPT !.pc = to]

\* The operator has picked a drive and confirmed; the point of the old one is
\* what the bind entry of fstab says.
Start(d) ==
    /\ script.pc = "idle" /\ runs < MaxRuns
    /\ d \in present
    /\ runs' = runs + 1
    /\ script' = [pc |-> "stop", chosen |-> d, old |-> fstab.bind]
    /\ UNCHANGED <<kernel, fstab, services, remount, reboots, pulls, told>>

\* Stopping the interface kills the helpers it started.
StopWeb ==
    /\ Goto("stop", "stop_nfs")
    /\ web' = FALSE /\ remount' = NoRemount
    /\ UNCHANGED <<kernel, fstab, nfs, counters, told>>

StopServing ==
    /\ Goto("stop_nfs", "release")
    /\ nfs' = FALSE
    /\ UNCHANGED <<kernel, fstab, web, remount, counters, told>>

ReleaseBind ==
    /\ Goto("release", "drop_bind")
    /\ bind' = Popped(bind)
    /\ UNCHANGED <<mounts, present, fstab, services, remount, counters, told>>

DropBindEntry ==
    /\ Goto("drop_bind", "mount_new")
    /\ fstab' = [fstab EXCEPT !.bind = None]
    /\ UNCHANGED <<kernel, services, remount, counters, told>>

MountNew ==
    /\ Goto("mount_new", "enter_new")
    /\ MountDrive(script.chosen, Tmp)
    /\ UNCHANGED <<bind, present, fstab, services, remount, counters, told>>

\* Mutation: the entry names the device, not the directory.
EnterDevice ==
    /\ Goto("enter_new", "bind_new")
    /\ fstab' = [fstab EXCEPT !.bind = script.chosen]
    /\ UNCHANGED <<kernel, services, remount, counters, told>>

EnterNew ==
    /\ Goto("enter_new", "bind_new")
    /\ fstab' = [fstab EXCEPT !.bind = Tmp]
    /\ UNCHANGED <<kernel, services, remount, counters, told>>

BindNew ==
    /\ Goto("bind_new", "start")
    /\ MountBind(fstab.bind)
    /\ UNCHANGED <<mounts, present, fstab, services, remount, counters, told>>

\* From here on clients are served the new drive, announced or not.
StartNfs ==
    /\ Goto("start", "web")
    /\ nfs' = TRUE
    /\ unannounced' = script.chosen
    /\ UNCHANGED <<kernel, fstab, web, remount, counters, announced>>

\* A restart also kills the helpers; when it fails the script ends with it.
RestartWeb ==
    /\ \/ Goto("web", "tell")
       \/ script.pc = "web_again" /\ script' = Idle
    /\ web' = TRUE /\ remount' = NoRemount
    /\ UNCHANGED <<kernel, fstab, nfs, counters, told>>

RestartFails ==
    /\ script.pc \in {"web", "web_again"} /\ script' = Idle
    /\ web' = FALSE /\ remount' = NoRemount
    /\ UNCHANGED <<kernel, fstab, nfs, counters, told>>

\* "New storage active."
Announce ==
    /\ Goto("tell", "copy")
    /\ announced' = script.chosen /\ unannounced' = None
    /\ UNCHANGED <<kernel, fstab, services, remount, counters>>

\* Whatever the operator has copied from the old drive, which is still mounted.
Copy ==
    /\ Goto("copy", "drop_old")
    /\ UNCHANGED <<kernel, fstab, services, remount, counters, told>>

DropOld ==
    /\ Goto("drop_old", "stop_again")
    /\ IF script.old = None
       THEN UNCHANGED <<mounts, fstab>>
       ELSE /\ Unmount(script.old)
            /\ fstab' = [fstab EXCEPT !.drive = IF script.old = Std THEN None ELSE @]
    /\ UNCHANGED <<bind, present, services, remount, counters, told>>

\* Mutation: NFS keeps running while the bind is pointed elsewhere.
KeepNfs ==
    /\ Goto("stop_again", "drop_entries")
    /\ UNCHANGED <<kernel, fstab, services, remount, counters, told>>

StopNfs ==
    /\ Goto("stop_again", "drop_entries")
    /\ nfs' = FALSE
    /\ UNCHANGED <<kernel, fstab, web, remount, counters, told>>

DropEntries ==
    /\ Goto("drop_entries", "unmount")
    /\ fstab' = [fstab EXCEPT !.bind = None]
    /\ UNCHANGED <<kernel, services, remount, counters, told>>

\* Both must be gone; the temporary one may be busy.
UnmountTemp ==
    /\ Goto("unmount", "enter_drive")
    /\ Len(bind) <= 1 /\ Len(mounts[Tmp]) <= 1
    /\ bind' = <<>> /\ Unmount(Tmp)
    /\ UNCHANGED <<present, fstab, services, remount, counters, told>>

UnmountFails ==
    /\ script.pc = "unmount"
    /\ bind' = Popped(bind)
    /\ mounts' \in {mounts, [mounts EXCEPT ![Tmp] = Popped(@)]}
    /\ bind' # <<>> \/ mounts'[Tmp] # <<>>
    /\ script' = Idle
    /\ UNCHANGED <<present, fstab, services, remount, counters, told>>

\* Mutation: an entry that is there already is not removed, and comes first.
EnterSecond ==
    /\ Goto("enter_drive", "enter_bind")
    /\ fstab' = [fstab EXCEPT !.drive = IF @ = None THEN script.chosen ELSE @]
    /\ UNCHANGED <<kernel, services, remount, counters, told>>

EnterDrive ==
    /\ Goto("enter_drive", "enter_bind")
    /\ fstab' = [fstab EXCEPT !.drive = script.chosen]
    /\ UNCHANGED <<kernel, services, remount, counters, told>>

EnterBind ==
    /\ Goto("enter_bind", "evict")
    /\ fstab' = [fstab EXCEPT !.bind = Std]
    /\ UNCHANGED <<kernel, services, remount, counters, told>>

\* Mutation: whatever is mounted at the standard point is taken for the drive.
NoEviction ==
    /\ Goto("evict", "check_std")
    /\ UNCHANGED <<kernel, fstab, services, remount, counters, told>>

\* A leftover at the standard point that is not the chosen drive must go.
Evict ==
    /\ Goto("evict", "check_std")
    /\ IF Top(mounts[Std]) \in {None, script.chosen}
       THEN UNCHANGED mounts
       ELSE Unmount(Std) /\ mounts'[Std] = <<>>
    /\ UNCHANGED <<bind, present, fstab, services, remount, counters, told>>

EvictFails ==
    /\ script.pc = "evict" /\ Top(mounts[Std]) \notin {None, script.chosen}
    /\ Unmount(Std) \/ UNCHANGED mounts
    /\ mounts'[Std] # <<>>
    /\ script' = Idle
    /\ UNCHANGED <<bind, present, fstab, services, remount, counters, told>>

CheckStd ==
    /\ Goto("check_std", IF mounts[Std] = <<>> THEN "mount_std" ELSE "bind_std")
    /\ UNCHANGED <<kernel, fstab, services, remount, counters, told>>

MountStd ==
    /\ Goto("mount_std", "bind_std")
    /\ MountDrive(fstab.drive, Std)
    /\ UNCHANGED <<bind, present, fstab, services, remount, counters, told>>

BindStd ==
    /\ Goto("bind_std", "finish")
    /\ MountBind(fstab.bind)
    /\ UNCHANGED <<mounts, present, fstab, services, remount, counters, told>>

Finish ==
    /\ Goto("finish", "web_again")
    /\ nfs' = TRUE
    /\ UNCHANGED <<kernel, fstab, web, remount, counters, told>>

\* A command fails, or the operator interrupts the script.
Die ==
    /\ script.pc # "idle"
    /\ script' = Idle
    /\ UNCHANGED <<kernel, fstab, services, remount, counters, told>>

-----------------------------------------------------------------------------
(* check_storage and recovery-remount.                                     *)

CheckStorage(h) ==
    /\ web /\ remount[h].pc = "idle" /\ bind = <<>>
    /\ remount' = [remount EXCEPT ![h] = [pc |-> "read", src |-> None]]
    /\ UNCHANGED <<kernel, fstab, services, script, counters, told>>

ReadEntry(h) ==
    /\ remount[h].pc = "read"
    /\ remount' = [remount EXCEPT
                     ![h] = IF fstab.bind = None THEN Ended ELSE [pc |-> "check", src |-> fstab.bind]]
    /\ UNCHANGED <<kernel, fstab, services, script, counters, told>>

CheckUnderlying(h) ==
    /\ remount[h].pc = "check"
    /\ remount' = [remount EXCEPT
                     ![h].pc = IF mounts[remount[h].src] = <<>> THEN "mount" ELSE "check_bind"]
    /\ UNCHANGED <<kernel, fstab, services, script, counters, told>>

\* Mutation: the drive is not mounted again, only the bind.
RemountNothing(h) ==
    /\ remount[h].pc = "mount"
    /\ remount' = [remount EXCEPT ![h].pc = "check_bind"]
    /\ UNCHANGED <<kernel, fstab, services, script, counters, told>>

RemountUnderlying(h) ==
    /\ remount[h].pc = "mount"
    /\ \/ /\ HasEntry(remount[h].src) /\ MountDrive(fstab.drive, remount[h].src)
          /\ remount' = [remount EXCEPT ![h].pc = "check_bind"]
       \/ /\ ~(HasEntry(remount[h].src) /\ CanMount(fstab.drive, remount[h].src))
          /\ remount' = [remount EXCEPT ![h] = Ended]
          /\ UNCHANGED mounts
    /\ UNCHANGED <<bind, present, fstab, services, script, counters, told>>

CheckBind(h) ==
    /\ remount[h].pc = "check_bind"
    /\ remount' = [remount EXCEPT ![h] = IF bind = <<>> THEN [@ EXCEPT !.pc = "bind"] ELSE Ended]
    /\ UNCHANGED <<kernel, fstab, services, script, counters, told>>

RemountBind(h) ==
    /\ remount[h].pc = "bind"
    /\ remount' = [remount EXCEPT ![h] = Ended]
    /\ MountBind(fstab.bind) \/ (~CanBind(fstab.bind) /\ UNCHANGED bind)
    /\ UNCHANGED <<mounts, present, fstab, services, script, counters, told>>

-----------------------------------------------------------------------------
(* The drives and the power.                                               *)

\* systemd unmounts what was mounted from a drive that is gone.
Unplug(d) ==
    /\ pulls < MaxPulls /\ pulls' = pulls + 1
    /\ d \in present
    /\ present' = present \ {d}
    /\ mounts' = [p \in Points |-> Without(mounts[p], d)]
    /\ bind' = Without(bind, d)
    /\ UNCHANGED <<fstab, services, script, remount, runs, reboots, told>>

Plug(d) ==
    /\ d \notin present
    /\ present' = present \cup {d}
    /\ UNCHANGED <<mounts, bind, fstab, services, script, remount, counters, told>>

\* The entries of fstab are mounted, those that cannot be are skipped (nofail);
\* nfs-server wants the bind and starts without it.
Reboot ==
    /\ reboots < MaxReboots /\ reboots' = reboots + 1
    /\ LET std == IF fstab.drive \in present THEN <<fstab.drive>> ELSE <<>>
       IN  /\ mounts' = [p \in Points |-> IF p = Std THEN std ELSE <<>>]
           /\ bind' = IF fstab.bind = Std THEN std ELSE <<>>
    /\ nfs' = TRUE /\ web' = TRUE
    /\ script' = Idle /\ remount' = NoRemount
    /\ UNCHANGED <<present, fstab, runs, pulls, told>>

-----------------------------------------------------------------------------

ScriptStep ==
    \/ StopWeb \/ StopServing \/ ReleaseBind \/ DropBindEntry \/ MountNew \/ EnterNew \/ BindNew
    \/ StartNfs \/ RestartWeb \/ RestartFails \/ Announce \/ Copy \/ DropOld
    \/ StopNfs \/ DropEntries \/ UnmountTemp \/ UnmountFails
    \/ EnterDrive \/ EnterBind \/ Evict \/ EvictFails \/ CheckStd \/ MountStd \/ BindStd
    \/ Finish

RemountStep(h) ==
    \/ ReadEntry(h) \/ CheckUnderlying(h) \/ RemountUnderlying(h)
    \/ CheckBind(h) \/ RemountBind(h)

Next ==
    \/ \E d \in Drives : Start(d) \/ Unplug(d) \/ Plug(d)
    \/ ScriptStep \/ Die
    \/ \E h \in Helpers : CheckStorage(h) \/ RemountStep(h)
    \/ Reboot

Spec == Init /\ [][Next]_vars

\* The helper runs to its end, and a page that is open polls every 5 s.
FairSpec == Spec /\ \A h \in Helpers : WF_vars(RemountStep(h)) /\ WF_vars(CheckStorage(h))

-----------------------------------------------------------------------------
(* Properties.                                                             *)

\* Clients never read from or write to a drive other than the one the operator
\* was last told is active, wherever a change stops, whatever the page remounts
\* next to it and whatever a reboot mounts, with two exceptions.  NFS runs some
\* commands before the announcement (127-133), one of which may end the change:
\* clients are then on the chosen drive, which nobody was told of.  And once a
\* drive was pulled out (pulls) a leftover below its mount may show.
Current == IF unannounced # None THEN unannounced ELSE announced

ClientsOnAnnounced == nfs /\ bind # <<>> /\ pulls = 0 => Top(bind) = Current

\* A change never uncovers the directory of the SD card below the bind mount
\* while NFS exports it, nor starts NFS over it: images that clients write
\* would fill the card.  (The order of stopping NFS, unmounting, mounting and
\* starting it, twice; a boot does start NFS without the mount.)
NfsNotUncovered ==
    [][ nfs' /\ pulls' = 0 /\ reboots' = reboots => bind' # <<>> \/ (nfs /\ bind = <<>>) ]_vars

\* What a finished change has registered is what is served, and a reboot
\* serves it again.
FinishedIsServed ==
    script.pc \in {"finish", "web_again"} /\ pulls = 0 =>
        /\ Top(bind) = script.chosen /\ Top(mounts[Std]) = script.chosen
        /\ fstab = [drive |-> script.chosen, bind |-> Std]

\* A drive that is registered and plugged in comes back by itself, and no other
\* in its place, as long as a page is open and nobody starts another change,
\* unless a change that ended half-way has left another drive at the standard
\* mount point: recovery-remount asks whether something is mounted there, not
\* what, and serves the leftover.
Registered == script.pc = "idle" /\ web /\ fstab.bind = Std /\ fstab.drive \in present

NoLeftover == Top(mounts[Std]) \in {None, fstab.drive}

ReconnectRemounts ==
    Registered /\ NoLeftover /\ bind = <<>> ~> (Top(bind) = fstab.drive \/ ~Registered)
=============================================================================
