---------------------------- MODULE StorageProofs ----------------------------
(***************************************************************************)
(* Proofs about changing the drive, for any number of drives, changes,     *)
(* remounts and reboots: no change uncovers the SD card under NFS, clients *)
(* stay on the drive that was announced, and what a change has registered  *)
(* in the end is what is served.                                           *)
(***************************************************************************)
EXTENDS Storage, ListsProofs

\* The steps of a change at which the bind mount may be missing.
Uncovering == {"release", "drop_bind", "mount_new", "enter_new", "bind_new", "start", "drop_entries",
               "unmount", "enter_drive", "enter_bind", "evict", "check_std", "mount_std", "bind_std",
               "finish"}

Registry ==
    /\ fstab \in [drive : Drives \cup {None}, bind : Points \cup {None}]
    /\ present \subseteq Drives
    /\ runs \in 0 .. MaxRuns /\ pulls \in Nat /\ reboots \in Nat
    /\ script \in [pc : Steps, chosen : Drives \cup {None}, old : Points \cup {None}]

Stacks == mounts \in [Points -> Seq(Drives)] /\ bind \in Seq(Drives)

\* NFS is stopped at those steps, and the bind is there again when it starts.
Covered ==
    /\ script.pc \in Uncovering => ~nfs
    /\ script.pc \in {"start", "finish"} => bind # <<>>

CoverInv == Registry /\ (pulls = 0 => Stacks /\ Covered)

-----------------------------------------------------------------------------
(* Stacks.                                                                 *)

LEMMA PoppedTyped ==
    ASSUME NEW stack \in Seq(Drives)
    PROVE  Popped(stack) \in Seq(Drives)
  BY DEF Popped

LEMMA TopTyped ==
    ASSUME NEW stack \in Seq(Drives), stack # <<>>
    PROVE  Top(stack) \in Drives
  BY DEF Top

LEMMA MountDriveTyped ==
    ASSUME Stacks, present \subseteq Drives, NEW d, NEW p \in Points, MountDrive(d, p)
    PROVE  mounts' \in [Points -> Seq(Drives)]
  BY DEF Stacks, MountDrive, CanMount

LEMMA UnmountTyped ==
    ASSUME Stacks, NEW p, Unmount(p)
    PROVE  mounts' \in [Points -> Seq(Drives)]
  BY PoppedTyped DEF Stacks, Unmount

LEMMA MountBindTyped ==
    ASSUME Stacks, NEW entry \in Points \cup {None}, MountBind(entry)
    PROVE  bind' \in Seq(Drives) /\ bind' # <<>>
  <1>1. mounts[entry] \in Seq(Drives) /\ mounts[entry] # <<>>
    BY DEF Stacks, MountBind, CanBind
  <1>2. Top(mounts[entry]) \in Drives
    BY <1>1, TopTyped
  <1>3. QED
    BY <1>2 DEF Stacks, MountBind

-----------------------------------------------------------------------------
(* The steps.                                                              *)

LEMMA RegistryStep ==
    ASSUME Registry, [Next]_vars
    PROVE  Registry'
  <1> USE StorageAssumption DEF Registry, Goto, Steps, Points, Std
  <1>1. ASSUME NEW d \in Drives, Start(d) \/ Unplug(d) \/ Plug(d) PROVE Registry'
    BY <1>1 DEF Start, Unplug, Plug, kernel, services, counters
  <1>2. CASE StopWeb \/ StopServing \/ ReleaseBind \/ MountNew \/ BindNew \/ StartNfs \/ Announce \/ Copy
    BY <1>2 DEF StopWeb, StopServing, ReleaseBind, MountNew, BindNew, StartNfs, Announce, Copy, kernel, services,
                counters
  <1>3. CASE DropBindEntry \/ EnterNew \/ DropOld \/ DropEntries \/ EnterBind
    BY <1>3 DEF DropBindEntry, EnterNew, DropOld, DropEntries, EnterBind, Tmp, kernel, services, counters
  <1>4. CASE StopNfs \/ UnmountTemp \/ UnmountFails \/ Evict \/ EvictFails \/ CheckStd
    BY <1>4 DEF StopNfs, UnmountTemp, UnmountFails, Evict, EvictFails, CheckStd, Idle, kernel, services,
                counters
  <1>5. CASE MountStd \/ BindStd \/ Finish \/ RestartWeb \/ RestartFails \/ Die
    BY <1>5 DEF MountStd, BindStd, Finish, RestartWeb, RestartFails, Die, Idle, kernel, services, counters
  <1>6. ASSUME NEW h \in Helpers, CheckStorage(h) \/ RemountStep(h) PROVE Registry'
    BY <1>6 DEF CheckStorage, RemountStep, ReadEntry, CheckUnderlying, RemountUnderlying, CheckBind,
                RemountBind, kernel, services, counters
  <1>7. CASE Reboot \/ UNCHANGED vars
    BY <1>7 DEF Reboot, Idle, vars, kernel, services, counters
  <1>8. CASE EnterDrive
    BY <1>8 DEF EnterDrive, kernel, services, counters
  <1>9. QED
    BY <1>1, <1>2, <1>3, <1>4, <1>5, <1>6, <1>7, <1>8 DEF Next, ScriptStep

\* pulls never returns to zero.
LEMMA PullsGrow ==
    ASSUME Registry, [Next]_vars, pulls' = 0
    PROVE  pulls = 0
  <1> USE DEF Registry, counters
  <1>1. ASSUME NEW d \in Drives, Start(d) \/ Unplug(d) \/ Plug(d) PROVE pulls = 0
    BY <1>1 DEF Start, Unplug, Plug
  <1>2. ASSUME NEW h \in Helpers, CheckStorage(h) \/ RemountStep(h) PROVE pulls = 0
    BY <1>2 DEF CheckStorage, RemountStep, ReadEntry, CheckUnderlying, RemountUnderlying, CheckBind,
                RemountBind
  <1>3. CASE ScriptStep \/ Die \/ Reboot \/ UNCHANGED vars
    BY <1>3 DEF ScriptStep, StopWeb, StopServing, ReleaseBind, DropBindEntry, MountNew, EnterNew, BindNew,
                StartNfs, RestartWeb, RestartFails, Announce, Copy, DropOld, StopNfs, DropEntries, UnmountTemp, UnmountFails, EnterDrive,
                EnterBind, Evict, EvictFails, CheckStd, MountStd, BindStd, Finish, Die, Reboot, vars
  <1>4. QED
    BY <1>1, <1>2, <1>3 DEF Next

LEMMA StacksStep ==
    ASSUME Registry, Stacks, [Next]_vars
    PROVE  Stacks'
  <1>1. CASE UNCHANGED <<mounts, bind>>
    BY <1>1 DEF Stacks
  <1>2. CASE ReleaseBind
    BY <1>2, PoppedTyped DEF ReleaseBind, Stacks
  <1>3. CASE MountNew
    <2>1. Tmp \in Points
      BY StorageAssumption DEF Tmp, Registry, Points
    <2>2. QED
      BY <1>3, <2>1, MountDriveTyped DEF MountNew, Stacks, Registry
  <1>4. CASE BindNew \/ BindStd
    BY <1>4, MountBindTyped DEF BindNew, BindStd, Stacks, Registry
  <1>5. CASE DropOld
    BY <1>5, UnmountTyped DEF DropOld, Stacks
  <1>6. CASE UnmountTemp
    BY <1>6, UnmountTyped DEF UnmountTemp, Stacks
  <1>7. CASE UnmountFails
    <2>1. bind' \in Seq(Drives)
      BY <1>7, PoppedTyped DEF UnmountFails, Stacks
    <2>2. mounts' \in {mounts, [mounts EXCEPT ![Tmp] = Popped(@)]}
      BY <1>7 DEF UnmountFails
    <2>3. mounts' \in [Points -> Seq(Drives)]
      BY <2>2, PoppedTyped DEF Stacks
    <2>4. QED
      BY <2>1, <2>3 DEF Stacks
  <1>8. CASE Evict \/ EvictFails
    BY <1>8, UnmountTyped DEF Evict, EvictFails, Stacks
  <1>9. CASE MountStd
    <2>1. Std \in Points
      BY StorageAssumption DEF Std, Points
    <2>2. QED
      BY <1>9, <2>1, MountDriveTyped DEF MountStd, Stacks, Registry
  <1>10. ASSUME NEW h \in Helpers, RemountUnderlying(h) PROVE Stacks'
    <2>1. Std \in Points
      BY StorageAssumption DEF Std, Points
    <2>2. CASE HasEntry(remount[h].src) /\ MountDrive(fstab.drive, remount[h].src)
      BY <1>10, <2>1, <2>2, MountDriveTyped DEF HasEntry, RemountUnderlying, Stacks, Registry
    <2>3. CASE UNCHANGED mounts
      BY <1>10, <2>3 DEF RemountUnderlying, Stacks
    <2>4. QED
      BY <1>10, <2>2, <2>3 DEF RemountUnderlying
  <1>11. ASSUME NEW h \in Helpers, RemountBind(h) PROVE Stacks'
    BY <1>11, MountBindTyped DEF RemountBind, Stacks, Registry
  <1>12. CASE Reboot
    <2> DEFINE std == IF fstab.drive \in present THEN <<fstab.drive>> ELSE <<>>
    <2>1. std \in Seq(Drives)
      BY DEF Registry
    <2>2. mounts' = [p \in Points |-> IF p = Std THEN std ELSE <<>>]
      BY <1>12 DEF Reboot
    <2>3. bind' \in {std, <<>>}
      BY <1>12 DEF Reboot
    <2> HIDE DEF std
    <2>4. <<>> \in Seq(Drives)
      OBVIOUS
    <2>5. mounts' \in [Points -> Seq(Drives)]
      BY <2>1, <2>2, <2>4
    <2>6. QED
      BY <2>1, <2>3, <2>4, <2>5 DEF Stacks
  <1>13. ASSUME NEW d \in Drives, Unplug(d) PROVE Stacks'
    BY <1>13, WithoutKeeps DEF Unplug, Stacks
  <1>14. QED
    BY <1>1, <1>2, <1>3, <1>4, <1>5, <1>6, <1>7, <1>8, <1>9, <1>10, <1>11, <1>12, <1>13
       DEF Next, ScriptStep, RemountStep, Start, Plug, StopWeb, StopServing, DropBindEntry, EnterNew, StartNfs,
           RestartWeb, RestartFails, Announce, Copy, StopNfs, DropEntries, EnterDrive, EnterBind, CheckStd, Finish, Die, CheckStorage,
           ReadEntry, CheckUnderlying, CheckBind, kernel, vars

Remounts == [Helpers -> [pc : {"idle", "read", "check", "mount", "check_bind", "bind"},
                         src : Points \cup {None}]]

\* The services, the helpers, and the drive of a change that is under way.
Services ==
    /\ nfs \in BOOLEAN /\ web \in BOOLEAN
    /\ remount \in Remounts
    /\ announced \in Drives /\ unannounced \in Drives \cup {None}
    /\ script.pc # "idle" => script.chosen \in Drives

LEMMA NoRemountTyped ==
    NoRemount \in Remounts
  BY DEF NoRemount, Ended, Remounts

LEMMA ServicesStep ==
    ASSUME Registry, Services, [Next]_vars
    PROVE  Services'
  <1> USE DEF Services, Goto, kernel, services, counters, told
  <1>1. ASSUME NEW d \in Drives, Start(d) \/ Unplug(d) \/ Plug(d) PROVE Services'
    BY <1>1 DEF Start, Unplug, Plug
  <1>2. CASE StopWeb \/ StopServing \/ ReleaseBind \/ DropBindEntry \/ MountNew \/ EnterNew \/ BindNew
    BY <1>2, NoRemountTyped
       DEF StopWeb, StopServing, ReleaseBind, DropBindEntry, MountNew, EnterNew, BindNew, Registry
  <1>3. CASE StartNfs \/ Announce \/ Copy \/ DropOld \/ StopNfs \/ DropEntries
    BY <1>3 DEF StartNfs, Announce, Copy, DropOld, StopNfs, DropEntries, Registry
  <1>4. CASE UnmountTemp \/ UnmountFails \/ EnterDrive \/ EnterBind \/ Evict \/ EvictFails
    BY <1>4 DEF UnmountTemp, UnmountFails, EnterDrive, EnterBind, Evict, EvictFails, Idle, Registry
  <1>5. CASE CheckStd \/ MountStd \/ BindStd
    BY <1>5 DEF CheckStd, MountStd, BindStd, Registry
  <1>6. ASSUME NEW h \in Helpers, CheckStorage(h) \/ RemountStep(h) PROVE Services'
    <2>1. UNCHANGED <<nfs, web, script, announced, unannounced>>
      BY <1>6 DEF CheckStorage, RemountStep, ReadEntry, CheckUnderlying, RemountUnderlying, CheckBind,
                  RemountBind
    <2>2. \/ remount' = [remount EXCEPT ![h] = [pc |-> "read", src |-> None]]
          \/ remount' = [remount EXCEPT ![h] = Ended]
          \/ fstab.bind # None /\ remount' = [remount EXCEPT ![h] = [pc |-> "check", src |-> fstab.bind]]
          \/ \E pc \in {"mount", "check_bind", "bind"} : remount' = [remount EXCEPT ![h].pc = pc]
      BY <1>6 DEF CheckStorage, RemountStep, ReadEntry, CheckUnderlying, RemountUnderlying, CheckBind,
                  RemountBind
    <2>3. fstab.bind \in Points \cup {None}
      BY DEF Registry
    <2>4. remount' \in Remounts
      BY <2>2, <2>3 DEF Ended, Remounts
    <2>5. QED
      BY <2>1, <2>4
  <1>7. CASE Reboot
    BY <1>7, NoRemountTyped DEF Reboot, Idle
  <1>8. CASE UNCHANGED vars
    BY <1>8 DEF vars
  <1>9. CASE RestartWeb \/ RestartFails
    <2>1. UNCHANGED <<nfs, announced, unannounced>> /\ remount' = NoRemount /\ web' \in BOOLEAN
      BY <1>9 DEF RestartWeb, RestartFails
    <2>2. script'.pc # "idle" => script.pc # "idle" /\ script'.chosen = script.chosen
      BY <1>9 DEF RestartWeb, RestartFails, Idle, Registry
    <2>3. QED
      BY <2>1, <2>2, NoRemountTyped
  <1>10. CASE Die
    BY <1>10 DEF Die, Idle
  <1>11. CASE Finish
    <2>1. nfs' = TRUE /\ UNCHANGED <<web, remount, announced, unannounced>>
      BY <1>11 DEF Finish
    <2>2. script'.chosen = script.chosen /\ script.pc # "idle"
      BY <1>11 DEF Finish, Registry
    <2>3. QED
      BY <2>1, <2>2
  <1>12. QED
    BY <1>1, <1>2, <1>3, <1>4, <1>5, <1>6, <1>7, <1>8, <1>9, <1>10, <1>11 DEF Next, ScriptStep

\* The stacks hold drives, the entries of fstab and the variables of the
\* processes name drives and mount points, whatever is pulled out.
THEOREM TypeCorrect == Spec => []TypeOK
  <1> DEFINE Inv == Registry /\ Stacks /\ Services
  <1>1. Init => Inv
    <2> SUFFICES ASSUME Init PROVE Inv
      OBVIOUS
    <2>1. Registry /\ Stacks
      BY StorageAssumption DEF Init, Registry, Stacks, Idle, Steps, Points, Std
    <2>2. QED
      BY <2>1, StorageAssumption, NoRemountTyped DEF Init, Services, Idle
  <1>2. Inv /\ [Next]_vars => Inv'
    BY RegistryStep, StacksStep, ServicesStep
  <1>3. Inv => TypeOK
    BY StorageAssumption DEF Registry, Stacks, Services, Remounts, TypeOK
  <1>4. QED
    BY <1>1, <1>2, <1>3, PTL DEF Spec

LEMMA CoveredStep ==
    ASSUME Registry, Stacks, Covered, [Next]_vars, pulls' = 0
    PROVE  Covered'
  <1> USE DEF Covered, Uncovering, Goto, kernel, services
  <1>1. ASSUME NEW d \in Drives, Start(d) \/ Unplug(d) \/ Plug(d) PROVE Covered'
    BY <1>1 DEF Start, Unplug, Plug, Registry
  <1>2. CASE StopWeb \/ StopServing \/ ReleaseBind \/ DropBindEntry \/ MountNew \/ EnterNew
    BY <1>2 DEF StopWeb, StopServing, ReleaseBind, DropBindEntry, MountNew, EnterNew, Registry
  <1>3. CASE BindNew
    BY <1>3, MountBindTyped DEF BindNew, Registry
  <1>4. CASE StartNfs \/ Announce \/ Copy \/ DropOld \/ StopNfs \/ DropEntries
    BY <1>4 DEF StartNfs, Announce, Copy, DropOld, StopNfs, DropEntries, Registry
  <1>5. CASE UnmountTemp \/ UnmountFails \/ EnterDrive \/ EnterBind \/ Evict \/ EvictFails
    BY <1>5 DEF UnmountTemp, UnmountFails, EnterDrive, EnterBind, Evict, EvictFails, Idle, Registry
  <1>6. CASE CheckStd \/ MountStd \/ Finish \/ RestartWeb \/ RestartFails \/ Die
    BY <1>6 DEF CheckStd, MountStd, Finish, RestartWeb, RestartFails, Die, Idle, Registry
  <1>7. CASE BindStd
    BY <1>7, MountBindTyped DEF BindStd, Registry
  <1>8. ASSUME NEW h \in Helpers, CheckStorage(h) \/ RemountStep(h) PROVE Covered'
    <2>1. UNCHANGED <<script, nfs>>
      BY <1>8 DEF CheckStorage, RemountStep, ReadEntry, CheckUnderlying, RemountUnderlying, CheckBind,
                  RemountBind
    <2>2. bind' = bind \/ bind' # <<>>
      BY <1>8, MountBindTyped DEF CheckStorage, RemountStep, ReadEntry, CheckUnderlying, RemountUnderlying,
                  CheckBind, RemountBind, Registry
    <2>3. QED
      BY <2>1, <2>2
  <1>9. CASE Reboot \/ UNCHANGED vars
    BY <1>9 DEF Reboot, Idle, vars
  <1>10. QED
    BY <1>1, <1>2, <1>3, <1>4, <1>5, <1>6, <1>7, <1>8, <1>9 DEF Next, ScriptStep

\* A step that takes the bind mount away, or starts NFS, finds the other half in
\* place.
LEMMA UncoversNothing ==
    ASSUME Registry, Stacks, Covered, [Next]_vars, nfs', pulls' = 0, reboots' = reboots
    PROVE  bind' # <<>> \/ (nfs /\ bind = <<>>)
  <1> USE DEF Covered, Uncovering, Goto, kernel, services
  <1>1. CASE StopServing \/ ReleaseBind \/ StopNfs \/ UnmountTemp \/ UnmountFails
    BY <1>1 DEF StopServing, ReleaseBind, StopNfs, UnmountTemp, UnmountFails
  <1>2. CASE StartNfs \/ Finish
    BY <1>2 DEF StartNfs, Finish
  <1>3. CASE BindNew \/ BindStd
    BY <1>3, MountBindTyped DEF BindNew, BindStd, Registry
  <1>4. ASSUME NEW h \in Helpers, RemountBind(h) PROVE bind' # <<>> \/ (nfs /\ bind = <<>>)
    BY <1>4, MountBindTyped DEF RemountBind, Registry
  <1>5. CASE Reboot
    <2>1. reboots' = reboots + 1
      BY <1>5 DEF Reboot
    <2>2. PICK n \in Nat : reboots = n
      BY DEF Registry
    <2>3. QED
      BY <2>1, <2>2
  <1>6. ASSUME NEW d \in Drives, Unplug(d) PROVE bind' # <<>> \/ (nfs /\ bind = <<>>)
    BY <1>6 DEF Unplug, Registry
  <1>7. CASE UNCHANGED <<bind, nfs>>
    BY <1>7
  <1>8. QED
    BY <1>1, <1>2, <1>3, <1>4, <1>5, <1>6, <1>7
       DEF Next, ScriptStep, RemountStep, Start, Plug, StopWeb, DropBindEntry, MountNew, EnterNew, RestartWeb,
           RestartFails, Announce, Copy, DropOld,
           DropEntries, EnterDrive, EnterBind, Evict, EvictFails, CheckStd, MountStd, Die, CheckStorage,
           ReadEntry, CheckUnderlying, RemountUnderlying, CheckBind, vars

\* No change of the drive uncovers the SD card below the bind mount while NFS
\* exports it, nor starts NFS over it, wherever a change ends and whatever the
\* page remounts next to it.
THEOREM NfsTheorem == Spec => NfsNotUncovered
  <1>1. Init => CoverInv
    BY StorageAssumption
       DEF Init, CoverInv, Registry, Stacks, Covered, Uncovering, Idle, Steps, Points, Std
  <1>2. CoverInv /\ [Next]_vars => CoverInv'
    BY RegistryStep, PullsGrow, StacksStep, CoveredStep DEF CoverInv
  <1>3. CoverInv /\ [Next]_vars
          => [nfs' /\ pulls' = 0 /\ reboots' = reboots => bind' # <<>> \/ (nfs /\ bind = <<>>)]_vars
    BY PullsGrow, UncoversNothing DEF CoverInv
  <1>4. QED
    BY <1>1, <1>2, <1>3, PTL DEF Spec, NfsNotUncovered
------------------------------------------------------------------------------
(* What clients are served.                                                *)

\* The steps between stopping and starting NFS the first time, those at which
\* the interface is stopped, those before the announcement, and those after it.
Stopped   == {"release", "drop_bind", "mount_new", "enter_new", "bind_new", "start"}
NoWeb     == Stopped \cup {"stop_nfs", "web"}
Untold    == {"web", "tell"}
Announced == {"copy", "drop_old", "stop_again", "drop_entries", "unmount", "enter_drive", "enter_bind",
              "evict", "check_std", "mount_std", "bind_std", "finish", "web_again"}

\* The point that the bind entry names; the temporary one is new in its run.
EntryInv ==
    /\ fstab.bind \in 0 .. runs \cup {None}
    /\ fstab.bind = Std => fstab.drive = Current
    /\ script.pc # "idle" =>
         script.chosen \in Drives /\ runs > 0 /\ script.old # runs
    /\ script.pc \in Announced \cup Untold => Current = script.chosen
    /\ script.pc \in {"bind_new", "start", "web", "tell", "copy", "drop_old", "stop_again", "drop_entries"} =>
         fstab.bind = runs
    /\ script.pc \in {"unmount", "enter_drive", "enter_bind"} => fstab.bind = None
    /\ script.pc = "enter_bind" => fstab.drive = script.chosen
    /\ script.pc \in {"evict", "check_std", "mount_std", "bind_std", "finish", "web_again"} =>
         fstab = [drive |-> script.chosen, bind |-> Std]

\* No helper runs while the interface is stopped.
HelperInv ==
    /\ remount \in [Helpers -> [pc : {"idle", "read", "check", "mount", "check_bind", "bind"},
                                src : Points \cup {None}]]
    /\ script.pc \in NoWeb => ~web /\ \A h \in Helpers : remount[h].pc = "idle"
    /\ script.pc \in Stopped => ~nfs
    /\ script.pc \in Announced \ {"copy", "drop_old", "stop_again", "web_again"} => ~nfs

\* What a stack shows, once the script has come so far.
ShownInv ==
    /\ script.pc \in {"enter_new", "bind_new", "start"} => Top(mounts[runs]) = script.chosen
    /\ script.pc \in {"start", "finish", "web_again"} => Top(bind) = script.chosen
    /\ script.pc \in {"check_std", "mount_std"} => Top(mounts[Std]) \in {None, script.chosen}
    /\ script.pc \in {"bind_std", "finish", "web_again"} => Top(mounts[Std]) = script.chosen

\* While NFS runs, what clients see and what a helper would bind is announced,
\* or about to be.
SourceInv ==
    nfs => /\ Top(bind) \in {None, Current}
           /\ fstab.bind # None => Top(mounts[fstab.bind]) \in {None, Current}

ServedInv ==
    /\ present = Drives /\ Current \in Drives
    /\ EntryInv /\ HelperInv /\ ShownInv /\ SourceInv

LEMMA TopEmpty == Top(<<>>) = None
  BY DEF Top

LEMMA TopAppended ==
    ASSUME NEW stack \in Seq(Drives), NEW d \in Drives
    PROVE  Top(Append(stack, d)) = d
  BY DEF Top

LEMMA MountDriveShows ==
    ASSUME Stacks, present \subseteq Drives, NEW d, NEW p \in Points, MountDrive(d, p)
    PROVE  Top(mounts'[p]) = d /\ \A q \in Points \ {p} : mounts'[q] = mounts[q]
  <1>1. d \in Drives /\ mounts' = [mounts EXCEPT ![p] = Append(@, d)]
    BY DEF MountDrive, CanMount
  <1>2. mounts'[p] = Append(mounts[p], d) /\ mounts[p] \in Seq(Drives)
    BY <1>1 DEF Stacks
  <1>3. QED
    BY <1>1, <1>2, TopAppended DEF Stacks

LEMMA MountBindShows ==
    ASSUME Stacks, NEW entry \in Points \cup {None}, MountBind(entry)
    PROVE  /\ entry # None /\ mounts[entry] # <<>>
           /\ Top(bind') = Top(mounts[entry])
           /\ Top(bind') \in Drives
  <1>1. entry \in Points /\ mounts[entry] \in Seq(Drives) /\ mounts[entry] # <<>>
    BY DEF Stacks, MountBind, CanBind
  <1>2. Top(mounts[entry]) \in Drives
    BY <1>1, TopTyped
  <1>3. Top(bind') = Top(mounts[entry])
    BY <1>2, TopAppended DEF Stacks, MountBind
  <1>4. QED
    BY <1>1, <1>2, <1>3, StorageAssumption

LEMMA UnmountElsewhere ==
    ASSUME Stacks, NEW p, Unmount(p), NEW q \in Points \ {p}
    PROVE  mounts'[q] = mounts[q]
  BY DEF Stacks, Unmount

LEMMA EntryStep ==
    ASSUME Registry, EntryInv, present = Drives, Current \in Drives, [Next]_vars, pulls' = 0
    PROVE  EntryInv' /\ present' = Drives /\ Current' \in Drives
  <1> USE StorageAssumption DEF Registry, EntryInv, Goto, Announced, Untold, Current, told, Points, Std
  <1>1. ASSUME NEW d \in Drives, Start(d) \/ Unplug(d) \/ Plug(d)
        PROVE  EntryInv' /\ present' = Drives /\ Current' \in Drives
    BY <1>1 DEF Start, Unplug, Plug, kernel
  <1>2. CASE StopWeb \/ StopServing \/ ReleaseBind \/ DropBindEntry \/ MountNew
    BY <1>2 DEF StopWeb, StopServing, ReleaseBind, DropBindEntry, MountNew, kernel, counters
  <1>3. CASE EnterNew \/ BindNew \/ StartNfs \/ Announce \/ Copy
    BY <1>3 DEF EnterNew, BindNew, StartNfs, Announce, Copy, Tmp, kernel, counters
  <1>4. CASE DropOld
    BY <1>4 DEF DropOld, kernel, counters
  <1>5. CASE StopNfs \/ DropEntries \/ UnmountTemp
    BY <1>5 DEF StopNfs, DropEntries, UnmountTemp, kernel, counters
  <1>6. CASE EnterDrive \/ EnterBind
    BY <1>6 DEF EnterDrive, EnterBind, kernel, counters
  <1>7. CASE Evict \/ CheckStd \/ MountStd \/ BindStd
    BY <1>7 DEF Evict, CheckStd, MountStd, BindStd, kernel, counters
  <1>8. CASE UnmountFails \/ EvictFails \/ Finish \/ RestartWeb \/ RestartFails \/ Die
    BY <1>8 DEF UnmountFails, EvictFails, Finish, RestartWeb, RestartFails, Die, Idle, kernel, counters
  <1>9. ASSUME NEW h \in Helpers, CheckStorage(h) \/ RemountStep(h)
        PROVE  EntryInv' /\ present' = Drives /\ Current' \in Drives
    BY <1>9 DEF CheckStorage, RemountStep, ReadEntry, CheckUnderlying, RemountUnderlying, CheckBind,
                RemountBind, kernel, counters
  <1>10. CASE Reboot \/ UNCHANGED vars
    BY <1>10 DEF Reboot, Idle, vars, kernel, counters
  <1>11. QED
    BY <1>1, <1>2, <1>3, <1>4, <1>5, <1>6, <1>7, <1>8, <1>9, <1>10 DEF Next, ScriptStep

LEMMA HelperStep ==
    ASSUME Registry, HelperInv, [Next]_vars, pulls' = 0
    PROVE  HelperInv'
  <1> USE DEF HelperInv, Stopped, NoWeb, Announced, Goto, services, Registry
  <1>1. ASSUME NEW d \in Drives, Start(d) \/ Unplug(d) \/ Plug(d) PROVE HelperInv'
    BY <1>1 DEF Start, Unplug, Plug
  <1>2. CASE StopWeb \/ StopServing \/ StartNfs \/ RestartWeb \/ RestartFails \/ Announce \/ Finish
    BY <1>2 DEF StopWeb, StopServing, StartNfs, RestartWeb, RestartFails, Announce, Finish, NoRemount, Ended, Idle
  <1>3. CASE ReleaseBind \/ DropBindEntry \/ MountNew \/ EnterNew \/ BindNew
    BY <1>3 DEF ReleaseBind, DropBindEntry, MountNew, EnterNew, BindNew
  <1>4. CASE Copy \/ DropOld \/ StopNfs \/ DropEntries \/ UnmountTemp
    BY <1>4 DEF Copy, DropOld, StopNfs, DropEntries, UnmountTemp
  <1>5. CASE EnterDrive \/ EnterBind \/ Evict \/ CheckStd \/ MountStd \/ BindStd
    BY <1>5 DEF EnterDrive, EnterBind, Evict, CheckStd, MountStd, BindStd
  <1>6. CASE UnmountFails \/ EvictFails \/ Die
    BY <1>6 DEF UnmountFails, EvictFails, Die, Idle
  <1>7. ASSUME NEW h \in Helpers, CheckStorage(h) \/ ReadEntry(h) PROVE HelperInv'
    BY <1>7 DEF CheckStorage, ReadEntry, Ended
  <1>8. ASSUME NEW h \in Helpers, CheckUnderlying(h) \/ RemountUnderlying(h) \/ CheckBind(h) \/ RemountBind(h)
        PROVE  HelperInv'
    BY <1>8 DEF CheckUnderlying, RemountUnderlying, CheckBind, RemountBind, Ended
  <1>9. CASE Reboot \/ UNCHANGED vars
    BY <1>9 DEF Reboot, Idle, NoRemount, Ended, vars
  <1>10. QED
    BY <1>1, <1>2, <1>3, <1>4, <1>5, <1>6, <1>7, <1>8, <1>9 DEF Next, ScriptStep, RemountStep

\* A helper touches no stack but the standard one and the bind; the drive it
\* mounts is registered and the bind shows what the registered point shows.
LEMMA RemountEffect ==
    ASSUME Registry, Stacks, NEW h \in Helpers, CheckStorage(h) \/ RemountStep(h)
    PROVE  /\ UNCHANGED <<present, fstab, services, script, counters, told>>
           /\ \A q \in Points \ {Std} : mounts'[q] = mounts[q]
           /\ mounts'[Std] = mounts[Std] \/ Top(mounts'[Std]) = fstab.drive
           /\ \/ bind' = bind
              \/ fstab.bind # None /\ Top(bind') = Top(mounts[fstab.bind]) /\ Top(bind') \in Drives
                 /\ mounts' = mounts
  <1>1. UNCHANGED <<present, fstab, services, script, counters, told>>
    BY DEF CheckStorage, RemountStep, ReadEntry, CheckUnderlying, RemountUnderlying, CheckBind, RemountBind,
           kernel
  <1>2. CASE mounts' = mounts /\ bind' = bind
    BY <1>1, <1>2
  <1>3. CASE RemountUnderlying(h) /\ mounts' # mounts
    <2>1. MountDrive(fstab.drive, Std) /\ bind' = bind
      BY <1>3 DEF RemountUnderlying, HasEntry
    <2>2. Std \in Points
      BY StorageAssumption DEF Std, Points
    <2>3. QED
      BY <1>1, <2>1, <2>2, MountDriveShows DEF Registry
  <1>4. CASE RemountBind(h) /\ bind' # bind
    <2>1. MountBind(fstab.bind) /\ mounts' = mounts
      BY <1>4 DEF RemountBind
    <2>2. QED
      BY <1>1, <2>1, MountBindShows DEF Registry
  <1>5. QED
    BY <1>2, <1>3, <1>4 DEF CheckStorage, RemountStep, ReadEntry, CheckUnderlying, RemountUnderlying, CheckBind,
                            RemountBind, kernel

LEMMA ShownStep ==
    ASSUME Registry, Stacks, EntryInv, HelperInv, ShownInv, [Next]_vars, pulls' = 0
    PROVE  ShownInv'
  <1> USE DEF ShownInv, Goto
  <1>a. runs \in Points /\ Std \in Points
    BY StorageAssumption DEF Registry, Points, Std
  <1>b. script.pc # "idle" => runs # Std /\ script.chosen \in Drives
    BY DEF EntryInv, Std, Registry
  <1>1. ASSUME NEW d \in Drives, Start(d) \/ Unplug(d) \/ Plug(d) PROVE ShownInv'
    BY <1>1 DEF Start, Unplug, Plug, Registry, kernel, counters
  <1>2. CASE StopWeb \/ StopServing \/ ReleaseBind \/ DropBindEntry \/ StartNfs \/ Announce \/ Copy \/ DropOld \/ StopNfs
    BY <1>2 DEF StopWeb, StopServing, ReleaseBind, DropBindEntry, StartNfs, Announce, Copy, DropOld, StopNfs, Registry
  <1>3. CASE MountNew
    <2>1. Top(mounts'[runs]) = script.chosen
      BY <1>3, <1>a, MountDriveShows DEF MountNew, Tmp, Registry
    <2>2. QED
      BY <1>3, <2>1 DEF MountNew, Registry, counters
  <1>4. CASE EnterNew
    BY <1>4 DEF EnterNew, Registry, kernel, counters
  <1>5. CASE BindNew
    <2>1. Top(bind') = Top(mounts[runs])
      BY <1>5, MountBindShows DEF BindNew, Registry, EntryInv
    <2>2. QED
      BY <1>5, <2>1 DEF BindNew, Registry, counters
  <1>6. CASE DropEntries \/ UnmountTemp \/ EnterDrive \/ EnterBind \/ UnmountFails \/ EvictFails
    BY <1>6 DEF DropEntries, UnmountTemp, EnterDrive, EnterBind, UnmountFails, EvictFails, Idle, Registry
  <1>15. CASE Finish \/ RestartWeb \/ RestartFails \/ Die
    BY <1>15 DEF Finish, RestartWeb, RestartFails, Die, Idle, Registry, kernel, counters
  <1>7. CASE Evict
    <2>1. Top(mounts'[Std]) \in {None, script.chosen}
      BY <1>7, TopEmpty DEF Evict
    <2>2. QED
      BY <1>7, <2>1 DEF Evict, Registry
  <1>8. CASE CheckStd
    <2>1. mounts[Std] = <<>> \/ Top(mounts[Std]) # None
      BY <1>a, TopTyped, StorageAssumption DEF Stacks
    <2>2. QED
      BY <1>8, <2>1 DEF CheckStd, kernel, Registry
  <1>9. CASE MountStd
    <2>1. Top(mounts'[Std]) = fstab.drive
      BY <1>9, <1>a, MountDriveShows DEF MountStd, Registry
    <2>2. fstab.drive = script.chosen
      BY <1>9 DEF MountStd, EntryInv
    <2>3. QED
      BY <1>9, <2>1, <2>2 DEF MountStd, Registry
  <1>10. CASE BindStd
    <2>1. Top(bind') = Top(mounts[fstab.bind])
      BY <1>10, MountBindShows DEF BindStd, Registry
    <2>2. fstab.bind = Std
      BY <1>10 DEF BindStd, EntryInv
    <2>3. QED
      BY <1>10, <2>1, <2>2 DEF BindStd, Registry
  <1>11. ASSUME NEW h \in Helpers, CheckStorage(h) \/ RemountStep(h) PROVE ShownInv'
    <2>1. /\ UNCHANGED <<fstab, script, runs>>
          /\ \A q \in Points \ {Std} : mounts'[q] = mounts[q]
          /\ mounts'[Std] = mounts[Std] \/ Top(mounts'[Std]) = fstab.drive
          /\ bind' = bind \/ (fstab.bind # None /\ Top(bind') = Top(mounts[fstab.bind]) /\ mounts' = mounts)
      BY <1>11, RemountEffect DEF counters
    <2>2. script.pc \notin Stopped
      BY <1>11 DEF HelperInv, NoWeb, CheckStorage, RemountStep, ReadEntry, CheckUnderlying, RemountUnderlying,
                   CheckBind, RemountBind
    <2>3. script.pc \in {"check_std", "mount_std", "bind_std", "finish", "web_again"} =>
            fstab.drive = script.chosen /\ fstab.bind = Std
      BY DEF EntryInv
    <2>4. QED
      BY <2>1, <2>2, <2>3 DEF Stopped
  <1>12. CASE Reboot
    BY <1>12 DEF Reboot, Idle
  <1>13. CASE UNCHANGED vars
    BY <1>13 DEF vars, kernel, counters
  <1>14. QED
    BY <1>1, <1>2, <1>3, <1>4, <1>5, <1>6, <1>7, <1>8, <1>9, <1>10, <1>11, <1>12, <1>13, <1>15 DEF Next, ScriptStep

LEMMA SourceStep ==
    ASSUME Registry, Stacks, ServedInv, [Next]_vars, pulls' = 0
    PROVE  SourceInv'
  <1> USE DEF SourceInv, Current, told
  <1>a. runs \in Points /\ Std \in Points
    BY StorageAssumption DEF Registry, Points, Std
  <1>b. fstab.bind \in Points \cup {None}
    BY DEF Registry
  <1>1. ASSUME NEW d \in Drives, Start(d) \/ Unplug(d) \/ Plug(d) PROVE SourceInv'
    <2>1. CASE Unplug(d)
      BY <2>1 DEF Unplug, Registry
    <2>2. CASE Start(d) \/ Plug(d)
      BY <2>2 DEF Start, Plug, kernel, services, ServedInv
    <2>3. QED
      BY <1>1, <2>1, <2>2
  <1>2. CASE StopServing \/ StopNfs
    BY <1>2 DEF StopServing, StopNfs
  <1>3. CASE ReleaseBind \/ DropBindEntry \/ MountNew \/ EnterNew \/ BindNew
    BY <1>3 DEF ReleaseBind, DropBindEntry, MountNew, EnterNew, BindNew, Goto, ServedInv, HelperInv, Stopped,
                services
  <1>4. CASE StartNfs
    <2>1. /\ unannounced' = script.chosen /\ fstab' = fstab /\ bind' = bind /\ mounts' = mounts
          /\ script.pc = "start"
      BY <1>4 DEF StartNfs, Goto, kernel
    <2>2. fstab.bind = runs /\ Top(mounts[runs]) = script.chosen /\ Top(bind) = script.chosen
      BY <2>1 DEF ServedInv, EntryInv, ShownInv
    <2>3. script.chosen \in Drives /\ script.chosen # None
      BY <2>1, StorageAssumption DEF ServedInv, EntryInv
    <2>4. QED
      BY <2>1, <2>2, <2>3
  <1>14. CASE Announce
    <2>1. /\ announced' = script.chosen /\ unannounced' = None
          /\ UNCHANGED <<fstab, bind, mounts, nfs>> /\ script.pc = "tell"
      BY <1>14 DEF Announce, Goto, kernel, services
    <2>2. Current = script.chosen
      BY <2>1 DEF ServedInv, EntryInv, Untold
    <2>3. QED
      BY <2>1, <2>2 DEF ServedInv
  <1>15. CASE StopWeb \/ RestartWeb \/ RestartFails
    BY <1>15 DEF StopWeb, RestartWeb, RestartFails, kernel, ServedInv
  <1>5. CASE Copy \/ Die
    BY <1>5 DEF Copy, Die, kernel, services, ServedInv
  <1>6. CASE DropOld
    <2>1. fstab.bind = runs /\ script.old # runs /\ fstab'.bind = fstab.bind
          /\ UNCHANGED <<bind, nfs, announced, unannounced>>
      BY <1>6 DEF DropOld, Goto, ServedInv, EntryInv, services, Registry
    <2>2. mounts'[runs] = mounts[runs]
      BY <1>6, <1>a, <2>1, UnmountElsewhere DEF DropOld
    <2>3. QED
      BY <2>1, <2>2 DEF ServedInv
  <1>7. CASE DropEntries \/ UnmountTemp \/ EnterDrive \/ EnterBind \/ UnmountFails
    BY <1>7 DEF DropEntries, UnmountTemp, EnterDrive, EnterBind, UnmountFails, Goto, ServedInv, HelperInv,
                Announced, services
  <1>8. CASE Evict \/ EvictFails \/ CheckStd \/ MountStd \/ BindStd
    BY <1>8 DEF Evict, EvictFails, CheckStd, MountStd, BindStd, Goto, ServedInv, HelperInv, Announced, services
  <1>9. CASE Finish
    <2>1. Current = script.chosen /\ fstab.bind = Std
      BY <1>9 DEF Finish, Goto, ServedInv, EntryInv, Announced
    <2>2. Top(bind) = script.chosen /\ Top(mounts[Std]) = script.chosen
      BY <1>9 DEF Finish, Goto, ServedInv, ShownInv
    <2>3. QED
      BY <1>9, <2>1, <2>2 DEF Finish, kernel
  <1>10. ASSUME NEW h \in Helpers, CheckStorage(h) \/ RemountStep(h) PROVE SourceInv'
    <2>1. /\ UNCHANGED <<fstab, nfs, announced, unannounced>>
          /\ \A q \in Points \ {Std} : mounts'[q] = mounts[q]
          /\ mounts'[Std] = mounts[Std] \/ Top(mounts'[Std]) = fstab.drive
          /\ bind' = bind \/ (fstab.bind # None /\ Top(bind') = Top(mounts[fstab.bind]) /\ mounts' = mounts)
      BY <1>10, RemountEffect DEF services
    <2>2. fstab.bind = Std => fstab.drive = Current
      BY DEF ServedInv, EntryInv
    <2>3. QED
      BY <1>b, <2>1, <2>2 DEF ServedInv
  <1>11. CASE Reboot
    <2> DEFINE std == IF fstab.drive \in present THEN <<fstab.drive>> ELSE <<>>
    <2>1. fstab.bind = Std => std = <<Current>>
      BY DEF ServedInv, EntryInv
    <2>2. /\ mounts' = [p \in Points |-> IF p = Std THEN std ELSE <<>>]
          /\ bind' = IF fstab.bind = Std THEN std ELSE <<>>
          /\ UNCHANGED <<fstab, announced, unannounced>>
      BY <1>11 DEF Reboot
    <2> HIDE DEF std
    <2>3. Top(<<Current>>) = Current
      BY DEF Top
    <2>4. QED
      BY <1>a, <1>b, <2>1, <2>2, <2>3, TopEmpty
  <1>12. CASE UNCHANGED vars
    BY <1>12 DEF vars, kernel, services, ServedInv
  <1>13. QED
    BY <1>1, <1>2, <1>3, <1>4, <1>5, <1>6, <1>7, <1>8, <1>9, <1>10, <1>11, <1>12, <1>14, <1>15 DEF Next, ScriptStep

\* The invariant, as long as no drive was pulled out.
LEMMA ServedInvariant == Spec => [](Registry /\ (pulls = 0 => Stacks /\ ServedInv))
  <1> DEFINE Inv == Registry /\ (pulls = 0 => Stacks /\ ServedInv)
  <1>1. Init => Inv
    <2> SUFFICES ASSUME Init PROVE Inv
      OBVIOUS
    <2>1. Registry /\ Stacks
      BY StorageAssumption DEF Init, Registry, Stacks, Idle, Steps, Points, Std
    <2>2. Top(<<FirstDrive>>) = FirstDrive
      BY DEF Top
    <2>3. EntryInv /\ HelperInv /\ ShownInv /\ SourceInv
      BY <2>2, StorageAssumption
         DEF Init, EntryInv, HelperInv, ShownInv, SourceInv, Stopped, NoWeb, Untold, Announced, Current, Idle,
             NoRemount, Ended, Points, Std
    <2>4. QED
      BY <2>1, <2>3, StorageAssumption DEF Init, ServedInv, Current
  <1>2. Inv /\ [Next]_vars => Inv'
    <2> SUFFICES ASSUME Inv, [Next]_vars PROVE Inv'
      OBVIOUS
    <2>1. Registry'
      BY RegistryStep
    <2>2. ASSUME pulls' = 0 PROVE Stacks' /\ ServedInv'
      <3>1. pulls = 0 /\ Stacks /\ ServedInv
        BY <2>2, PullsGrow
      <3>2. Stacks'
        BY <2>2, <3>1, StacksStep
      <3>3. EntryInv' /\ present' = Drives /\ Current' \in Drives
        BY <2>2, <3>1, EntryStep DEF ServedInv
      <3>4. HelperInv' /\ ShownInv' /\ SourceInv'
        BY <2>2, <3>1, HelperStep, ShownStep, SourceStep DEF ServedInv
      <3>5. QED
        BY <3>2, <3>3, <3>4 DEF ServedInv
    <2>3. QED
      BY <2>1, <2>2
  <1>3. QED
    BY <1>1, <1>2, PTL DEF Spec

\* Clients never read from or write to a drive other than the one last
\* announced, or the one that NFS was started for and that is still to be
\* announced, wherever a change ends, whatever helpers mount next to it and
\* whatever a reboot mounts, until a drive is pulled out.
THEOREM AnnouncedTheorem == Spec => []ClientsOnAnnounced
  <1>1. Registry /\ (pulls = 0 => Stacks /\ ServedInv) => ClientsOnAnnounced
    <2> SUFFICES ASSUME pulls = 0, Stacks, ServedInv, nfs, bind # <<>>
                 PROVE  Top(bind) = Current
      BY DEF ClientsOnAnnounced
    <2>1. Top(bind) \in Drives
      BY TopTyped DEF Stacks
    <2>2. QED
      BY <2>1, StorageAssumption DEF ServedInv, SourceInv
  <1>2. QED
    BY <1>1, ServedInvariant, PTL

\* What a change has registered when it starts the services again is what they
\* serve and what a reboot mounts.
THEOREM FinishedTheorem == Spec => []FinishedIsServed
  <1>1. Registry /\ (pulls = 0 => Stacks /\ ServedInv) => FinishedIsServed
    BY DEF FinishedIsServed, ServedInv, ShownInv, EntryInv
  <1>2. QED
    BY <1>1, ServedInvariant, PTL
=============================================================================
