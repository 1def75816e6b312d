# FTD Recovery: TLA+ verification project

This directory models the FTD Recovery server, a Raspberry Pi that arms
machines for one network boot into Clonezilla, keeps the list of the machines
and the backups they made on a changeable drive, and updates itself over a VPN,
together with the page its operators use. Paths are
relative to the repository (`src/` stands for its root); line numbers are those
of the commit the models were translated from.

## 1. Inventory

### How the parts fit together

A FastAPI application (`app/app.py`) runs on one event loop as an unprivileged
user. It changes the system through root helpers called with `sudo`
(`helpers/recovery-*`), which edit dnsmasq's allowlist, write GRUB files, delete
images or drive the self-update. Client machines see only dnsmasq (proxy-DHCP
and TFTP), the HTTP server of the boot payload, NFS, and two endpoints of the
application: `DELETE /api/arm/<mac>` and `POST /api/progress/<mac>`. A second
daemon (`app/dhcp_namesniffer.py`) listens for host names and leaves them in a
cache file. The page polls `/api/status` every five seconds.

| Component | State it keeps | Operations | Interacts with | What is hard | What makes it correct |
|---|---|---|---|---|---|
| Arming | `state.json`, `dhcp-hosts.conf` (and dnsmasq's copy), `grub.cfg-<mac>` | arm, disarm by host, disarm by MAC, remove, `/ipxe/boot`, pruning in every request | helpers, dnsmasq, GRUB, scan | three places changed one after the other; helpers that fail or time out; crashes; expiry without a timer | a bootable machine has a record; revocation is complete; others' records are kept |
| Network boot and job scripts | what each machine runs | proxy-DHCP, GRUB, `ocs-backup.sh`, `ocs-restore.sh` | boot files, disarm calls | the two files are read at different times; calls are lost or late | no reboot loop; no job without a record |
| Device list and group names | `hosts.yml`, `machine_names.json` | add, remove, two renames, arm (MAC, name), images (backfill), scan | sniffer cache, ARP, arming | lists read before an `await` and written after it; non-atomic save; two files for one name | an address names one row; manual names survive; a label belongs to its machine |
| Network scan | none of its own | sweep, replace, move, rename, deduplicate | device list, arming | works on data it is changing; PXE transients | the same, plus: rows follow their machines |
| Self-update | `status.json`, credentials, tunnel, installed files, the systemd unit | start, run, abort, `update.sh` | interface restart, systemd, VPN daemons | job and calls overlap; signals, traps, `set -e`; killing the caller | tunnel and secrets gone at the end; outcome is true; page never stuck |
| Name sniffer | in-memory names, `dhcp_names.json` | parse DHCP, NetBIOS, save | scan | priorities between protocols, cache written while read | a better source is not overwritten by a worse one |
| Job progress | `_progress` in memory | post, delete, read with a TTL | job scripts, page | late and lost posts | a finished job is not shown as running |
| Backup images | directories on the drive | list, delete, choose for restore | device list, scripts | derived versions, images being written | versions are stable; the newest complete image is chosen |
| Storage drive | fstab, mounts, exports | change drive, remount, check | NFS, interface | failure between steps, concurrent remount | the storage is never silently the wrong drive |
| Drive health | one-minute cache | read SMART | — | — | — |
| Web page | the tables, dialogs and flags in the browser | poll, click, edit, open, confirm | all endpoints | answers overtake each other; the page acts on what it showed | what is shown catches up; a click means what it was clicked on |
| Reachability, wake-up, vendor tables, install | none relevant | — | — | — | — |

### Where this code can go wrong

The hazards are listed with their lines in `PROJECT.json`. The main groups:
half-done arms and revocations; helpers that go on after their timeout; arms
whose time is over; lists read before an `await` and written after it; PXE
transients taken for swapped devices; starts, aborts and the update job in any
overlap; an update that stops what it runs over and restarts what watches it;
a change of drive that stops anywhere while the page remounts next to it; names
of several protocols in one cache; answers and reports that arrive late or out
of order; clicks on rows that mean something else by now.

## 2. Plan

The order is that of the damage a fault does: an unwanted restore overwrites a
machine's disk, so arming comes first, then the drive and the update, then what
the operator sees. These are written:

1. `Arming`, and `ArmLease`, the abstract specification of what arming promises,
   with `ArmingProofs`, that also proves that `Arming` implements it.
2. `HostList`, the device list, the group names and the scan, with
   `HostListProofs`; `Lists` with `ListsProofs`, which these and others stand on.
3. `SelfUpdate`, and `UpdateDialog`, which composes it with the page, both with
   `SelfUpdateProofs`.
4. `Storage` with `StorageProofs`.
5. `Sniffer` with `SnifferProofs`.
6. `Progress` and `Devices`, which extends it, with `DevicesProofs`.
7. `Backups` with `BackupsProofs`.

What is left:

1. Composition of `Arming` and `HostList`: a scan that replaces a MAC disarms
   it, a removal disarms its machine; does every armed machine stay reachable
   from a row of the list?
2. A change of drive to one that has images already, in `Backups`, and the
   choice of its images by number.

Every parameter is a CONSTANT with a named assumption, every operation an
action, invariants are conjunctions of named parts and there are no RECURSIVE
operators, so that each module can be proved about as well as checked.

## 3. The modules

### Lists

`Picked(s, keep)` is what a loop or a comprehension that keeps the rows at some
positions makes of a list, and `Without(s, x)` the list without an element. They
are recursive functions, not the operators of the community modules, so that
the proofs can reason about them. `HostList`, `Backups` and `Storage` use them.

### Arming

State: `armed` is `state.json`; `allow` the MACs in `dhcp-hosts.conf`; `served`
those dnsmasq has loaded; `grub` the mode of each `grub.cfg-<mac>`; `now` the
clock. The handlers of `app.py` that touch these run without an `await` from
`load_state()` to their end, so one handler at a time is in progress: `pc`,
`req`, `mem`, `left` and `cur` are its program counter, request, copy of the
records and loop variables. `machine` is what each client runs, `pending` its
disarm calls on the way, `late` the helper calls that outlived their timeout.

| Actions | Code |
|---|---|
| `Begin` (with `ApiStatus`, `ArmHost`, `DisarmHost`, `ScanReplace`, `RemoveHost`, `DisarmMac`, `IpxeBoot`) | `load_state`, the list `prune_expired` computes |
| `PruneAllow`, `PruneGrub`, `StatusSave` | `prune_expired`, `save_state_quiet` |
| `ArmSavePruned`, `GrubWrite`, `AllowAdd`, `SaveArm`, `UndoAllow`, `UndoGrub` | `arm_host` and its rollbacks |
| `StartClear`, `ClearAllow`, `ClearGrub`, `ClearSave`, `DisarmUnrecorded`, `RemoveUnrecorded` | `disarm_host`, `disarm_mac`, `remove_host`, the replacements of `api_scan` |
| `IpxeMiss`, `IpxeConsume`, `IpxeAllow` | `ipxe_boot` |
| `AllowlistOk/Exit/Timeout`, `GrubOk/Exit/Timeout`, `LateHelper` | the helpers, their exit codes and timeouts |
| `Crash`, `DnsmasqRestart` | death of the process, restart of dnsmasq |
| `PxeBoot`, `GrubLoad`, `StartJob`, `FinishJob`, `Reboot` | the client |

Faults have budgets (`MaxFaults`), one per kind: a helper exits non-zero (before
or, for the allowlist, after its effect), a helper times out and may finish
later, `state.json` cannot be written, the process dies inside a handler, a
disarm call is lost. Not in the model: the chosen image, the wording of errors,
IP addresses (a request is about the MACs its host key stands for).

### ArmLease

What arming promises, without handlers and files: each machine has a `record`
(the job it is armed for), `boots` (the job it boots into) and at most one MAC
is in `hand`, being armed or consumed. Outside the hand a machine starts to boot
only into what is recorded, and a record is dropped only when the machine does
not boot. `Arming` instantiates it with a refinement mapping: `record` from
`armed`, `boots` from what dnsmasq serves and the GRUB file says, `hand` from the
handler in progress. `ImplementsLease` is its specification under that mapping;
it holds as long as the faults allowed are those the handlers are written for
(no timeout, no death of the process, one failing helper at most; none where
`/ipxe/boot` is in use).

### HostList

`hosts` is the list in `hosts.yml`, `groups` the map in `machine_names.json`.
Names are `AutoName(m)`, `HostName(m)` or `Label(l)`; a label may be one that
the expression of `is_auto_name` matches (`AutoLabels`). `scan` and `arm` are
the two handlers that read the list, await and write it: what they read, and
what the sweep found. `ScanFinish` is everything `api_scan` does after its last
`await`, as a chain of operators in the order of the code: `Filled`, `Replaced`,
`Moved`, `Upgraded`, `Deduplicated`, then `WorthSaving`. What depends on the
order of the sweep or on the answers to probes is left open: `Spots` are the
choices of a new address for each machine that moved, `Told` what names the
probe may bring, and `Reconciled` the lists that result. All other handlers are
one action each. `TornSave` is `save_hosts` interrupted between truncation and
writing. Two variables are history: `chosen`, the last name an operator gave a
machine, and `doubled`, the addresses at which a sweep saw several machines
while no row had them.

A sweep (`Sweep`) has for each address the MACs that answered there, one or
several, and which of them came last, since that one a row at the address is
left with.

Abstracted: gateway and own addresses are left out of a sweep; MACs are
normalised, so the code's `ValueError` branches do not occur; a machine
announces one name; arming itself is module `Arming`.

### SelfUpdate

`unit` is the transient systemd unit, `status` the state in `status.json`,
`present` what exists of credentials, tunnel pieces and work directory,
`installed` what is on the device of the release fetched last (a fetch may bring
a newer one, of which nothing is there yet), `job` the
step and shell variables of `recovery-update run` (and of `update.sh`, which it
calls), `call` the step at which each caller's `start` or `abort` stands.
`Fail` is `fail()`, `Exits` the EXIT trap, `TermTrap` the TERM trap, `JobDies`
a command that fails under `set -e` (a full disk, the echo into the control pipe
of xl2tpd, `ip route`, `mktemp`), with what it may have left (`Begun`); then the
EXIT trap runs and the status stays. `HardKill` is a SIGKILL. `UnitGone`,
`JobExits` and `HardKill` stand for systemd and are external. The caller `web`
is the interface, whose pending call dies when `update.sh` restarts it;
`shell` and `console` are operators.

### UpdateDialog

Extends `SelfUpdate` with the update dialog of the page in `app/app.py`: whether
it is open, its view and state line, `updWasRunning`, the timer, and the answers
on their way (`opened`, `polls`, `post`), which may overtake each other. `reloads`
is the timer after which the page loads itself again. Nothing in an answer tells
which update its outcome is of; for the properties, an answer to a poll is marked
`fresh` unless it is an outcome read before the last start, and `current` says
whether the outcome shown and the coming reload rest on a fresh one. A click
calls `start` or `abort` as the caller `web` of `SelfUpdate`; every other step
of `SelfUpdate` is `SystemStep`; other callers, should `Callers` have any, do
nothing. The interface answers one request after the other, and none while it
restarts: a poll then fails, and the dialog says "restarting". The 2.5 s between a
success and the reload are taken to be too short for another start.

### Storage

`mounts` is the stack of what is mounted at each point (mounting over a mount
hides it), `bind` the stack at `/srv/clonezilla-images`, `fstab` the entry of
the drive and of the bind, `present` the drives plugged in, `nfs` and `web` the
services. `script` is `recovery-change-storage` with one action per command that
changes any of this, from `StopWeb` to `Finish`; `Die` ends it between any
two, and `RestartFails` is the restart of the interface, which nothing guards
against `set -e`. `announced` is the drive the operator was last told is active,
`unannounced` the one NFS was started for while that message is outstanding. `CheckStorage` is what a poll of the page does when the bind is no mount,
`ReadEntry` to `RemountBind` the steps of `recovery-remount`, several of which may
overlap with each other and with the script. `Unplug`, `Plug` and `Reboot` are
the operator's. `mount`, `umount` and the `-a` and `nofail` behaviour of a boot are
external, modelled from how the scripts use them.

### Sniffer

A byte is a number, a name two letters, which NetBIOS cuts to one (15 characters
in the code). `Turn` is one turn of the loop over the options of a DHCP packet
and `ParsedName` the loop, a recursive function over its turns, on layouts with
pads, other options, ends and cut-off data; `ParsedNbns` reads a registration.
Which names are on the wire: `Called` are those in the DHCP packets that carry the
address of a machine, its own and the one by which a server knows it (`Given`),
since `parse_dhcp` does not tell an offer from a request; `NbnsPackets` are the
registrations of a machine, of its own name and of its group's (`Workgroup`).
`Merged` is the rule of priorities, `cache`, `dirty` and `age` decide when
`file` is written; `Terminate` and `Exit` are SIGTERM, `Killed` a death with
unsaved names, `Restart` systemd.

### Progress and Devices

`Progress` has the posts of the scripts and of their reporters under way, to be
handled in any order or never (curl gives up after two seconds, which takes
nothing back), and the entries with their age; `GetProgress` is the read with the
TTL. `Devices` extends it with the devices table: the `refreshing` flag, answers
that are computed and rendered in two steps and may fail, the operator's clicks,
which send the address the row showed (or the MAC, for a dismissal), scans that
move machines to other addresses, and a name field with the focus, which holds
back the table.

### Backups

`store` has the images in the order of their modification times, from which the
versions are derived. Jobs write, deletions take an image apart and touch it, the
page fetches overlapping answers (`fetches`), each of which replaces the table
unless a name is being edited. An editor and an opening of the restore dialog are
closures over their group: `renaming` and the elements of `dialog` are shared by
all of them, `openings` has what each closed over.

A change of drive, in the part that the store sees, is `NewDrive`, by which the
interface serves an empty drive, and `CopyStarts`, `CopyEnds` and `CopyStops`, the
copying of what the operator chose with `rsync -a` while the interface runs: an
image is modified now as long as it is being written, and gets the time of its
original at the end. `deleting` and `damaged` are the images a deletion has begun
with, `copying` and `partial` those a copy has. Abstracted: the new drive has no
images of its own; a selection is copied in any order; between stopping the
interface and its restart no request arrives, as nothing answers it.

## 4. The runs

| Run | Instance | What it shows |
|---|---|---|
| `arming_core` | 2 MACs, 1 booting client, 2 modes, TTL 1, clock to 2, one helper exit, one failed save, one lost call | `TypeOK`, `BootNeedsRecord`, `RecordBoots`, `ArmingInv`, `LiveNeedsRecord`, `OtherRecordsKept`, `ImplementsLease` |
| `arming_live` | 1 MAC, `/ipxe/boot` in use, TTL 1, clock to 2, 2 calls on the way, one timeout, one failed save, one crash; fairness | `NoRebootLoop`, `ExpiryRevokes` |
| `arming_timeout` | 1 MAC, one timeout | finds `NeverArmedWithoutRecord` violated |
| `hosts_core` | 2 MACs, of which the sniffer has heard one, 2 addresses, 2 labels, one of which looks automatic, 3 starting lists, 3 requests, one full disk, one crash | `TypeOK`, `UniqueAddresses`, `NameRemembered`, `LabelIsOwn`, `NamedSurvivesDedup`, `AddressFilled` |
| `update_calls` | 2 shells, one failing `systemd-run`, one failing command, one kill, the strongswan metapackage missing | `TypeOK`, `TunnelDown`, `SuccessMeansInstalled` |
| `update_page` | the dialog alone, one command that fails under `set -e`, two requests of the page under way; fairness | `OutcomeMeansClean`, `ReloadsInstalled`, `RunningEnds`, `WatchedOutcomeShown` |
| `update_packages` | the page, the strongswan metapackage missing | finds `TunnelSurvivesPackages` violated |
| `storage_core` | 3 drives, 2 changes, 2 helpers, 1 reboot, 1 pulled drive; fairness | `TypeOK`, `ClientsOnAnnounced`, `FinishedIsServed`, `NfsNotUncovered`, `ReconnectRemounts` |
| `sniffer_core` | 2 MACs, 2 letters, a workgroup, a name of a DHCP server for one machine, 1 rename each, 1 kill; fairness | `NameIsOwn`, `FullNameStays`, `NameArrives` |
| `devices_page` | 2 MACs, 2 addresses, TTL 0, 1 job, 2 clicks, 1 move, 1 failing poll; fairness | `TypeOK`, `NeverOlder`, `TableCatchesUp`, `SilentJobFades`, `DismissesTheShown` |
| `devices_moved` | 2 MACs, 2 addresses, 1 click, 1 move | finds `ArmsTheShown` violated |
| `backups_page` | 2 MACs, 2 images, 2 answers on the way, 3 clicks, of which a change of drive takes two; fairness | `TypeOK`, `VersionsFollowTime`, `RenamesTheTyped`, `ChosenForHost`, `TableCatchesUp` |

`arming_core` checks safety only and takes the modes up to permutation
(`ModeSymmetry`): no handler tells one mode from another.

Why the bounds are enough. In `Arming` a handler reads and writes the state of
the MACs of its request and of those whose arms have expired; two MACs give a
request about one while the other expires, is armed or booting, and the proofs
of section 6 remove the bound. Two ticks let an arm be made, expire and be made
again. In `HostList` the interesting cases need two handlers that overlap and
one more request; two machines and two addresses suffice for an exchange of
addresses, a collision and a duplicate. `InitialHosts` has two named rows, or one
without a MAC and one without an address, or two for one machine, since the
program accepts hand-written lists. The sniffer has heard the name of one machine
and not of the other throughout; the proofs leave that open (`Hearings`). A
sweep may be any that two machines can give, with both at an address too.
Histories longer than three requests and lists longer than
two rows are not covered. `SelfUpdate` has no bound but the number of faults
and callers: jobs, starts and aborts repeat for ever; so do the clicks and polls
of `UpdateDialog`, of whose requests two may be under way (`MaxUnderWay`), so that
an answer can be overtaken by another. In `Storage` two
changes let one stop half-way and the next begin on what it left, a third drive
tells the old, the left-over and the new one apart, and two helpers can both have
read the state before either mounts. In `Sniffer` two letters give each machine
a name to change to and one to confuse it with, and a save interval of one tick lets
a save be put off. In `Devices` and `Backups` two answers on the way can overtake
each other, and two machines can exchange places; an age of one tick is past a
TTL of zero. With three clicks a drive can be changed and an image deleted or
restored before or after it, and two images of one machine can be copied in
either order. What the proofs of section 6 cover holds without these bounds.

`CHECK_DEADLOCK FALSE` is used where the bounded system really may stop: for
`HostList` when the requests are used up, for `Storage` and `Backups` when
operators, drives and jobs do nothing more.

## 5. Fairness

* `Arming!FairSpec`: the event loop runs the handler in progress to its end
  (every helper call has a timeout), and it serves the status request that an
  open page sends every five seconds sooner or later among the other requests
  (strong fairness: the loop is idle again and again, not continuously). With
  no page open nothing revokes an arm; `ExpiryRevokes` is a statement about a
  polled server.
* `SelfUpdate!FairSpec`: the job and the helpers that were called run on; every
  wait in the scripts is bounded. Nobody is assumed to start or abort anything.
* `UpdateDialog!DialogFairSpec`: the same for the system below; a poll reaches
  the interface if it can be answered again and again (strong fairness: one that
  arrives while the event loop waits for a helper is queued and answered), and
  answers reach the page. Nobody is assumed to click.
* `Storage!FairSpec`: a helper that runs goes on, and the open page, which polls
  every five seconds, has the storage checked. Nobody is assumed to finish a
  change or to plug a drive in.
* `Sniffer!FairSpec`: time passes, a stopping process ends, systemd restarts it,
  and every machine renews its lease again and again (strong fairness, since the
  sniffer may be down when it does).
* `Devices!FairSpec`: the timer of the page polls, an answer comes and is
  rendered or fails, time passes. `Backups!FairSpec`: the page polls, and answers
  are rendered.

## 6. What is proved

Every invariant and every action property that a passing run checks is also a
theorem, for all values of the constants that satisfy the named assumptions of
the module it is about. Where a theorem assumes more, it is said here.

`ArmingProofs` (any sets of MACs and clients, any TTL, any number of faults of
each kind):

* `TypeCorrect`: `TypeOK`.
* `ArmingInvariant`: `ArmingInv`, the inductive invariant. `BootNeedsRecord`
  is not inductive: whether a revocation is complete depends on the handler's
  copy of the records, which is saved only at its end. `ArmingInv` therefore
  relates the boot files to both, `state.json` and `mem` (`FilesAgree`), and says
  for each step which half of the MAC in hand is done. It counts faults:
  while no helper has failed neither boot file is left behind, and after one
  failure at most one of the two is. With `/ipxe/boot` in use GRUB files stay
  behind without a failure, so there the budget is zero.
* `BootNeedsRecordTheorem`: `BootNeedsRecord`, from `ArmingInv`.
* `LiveNeedsRecordTheorem`: `LiveNeedsRecord`, an action property, also from it.
  GRUB reads its file long after the proxy-DHCP read the allowlist; what
  `FilesAgree` says of the GRUB files is enough.
* `NoRebootLoopTheorem`: as long as no helper has failed, no MAC whose disarm
  call was answered is bootable, also with saves that fail and a process that
  dies at any step. Its invariant says where the files of a released MAC may
  still be incomplete while a handler is at work on them.
* `OtherRecordsKeptTheorem`: an action property, from the fact that `mem` differs from
  `state.json` only at expired MACs and at those of the request.
* `RecordBootsTheorem`: the converse of `BootNeedsRecord`, without `/ipxe/boot`
  and without faults but lost calls. A record *holds* when it has expired or the
  machine boots into its mode. In `BootedInv` the records of `state.json` hold
  between handlers, and those of `mem` during one, but for the MACs that the
  handler is about to arm.
* `LeaseImplemented`: `Arming` implements `ArmLease`, under the assumption
  `WithinBudget` (the faults the handlers are written for). Every step changes
  either the hand, the records or the files, and each of the three maps to an
  action of `ArmLease` or a stutter; that a machine outside the hand boots into
  nothing but its record is `FilesAgree`.

`HostListProofs` (any machines, addresses, labels, lists to start with, requests
and faults):

* `TypeCorrect`: `TypeOK`, through every operator of `ScanFinish`.
* `AddressTheorem`: `UniqueAddresses`, under `UniqueStart`: `hosts.yml` is written
  by hand at first, and that no two of its rows share an address is its author's
  part. The property is not inductive: a handler that was suspended writes a list
  that it read earlier. In `AddressInv` these copies are unique as well. The
  property excepts the addresses in `doubled`: of two MACs that a sweep reports
  for one new address, both rows move there (section 7).
* `NamesTheorem`: `NameRemembered`; `LabelTheorem`: `LabelIsOwn`.
* `NamedTheorem`: `NamedSurvivesDedup`; no operator before the removal of duplicates
  takes the manual name of a row away unless another machine answers at its
  address, and the removal keeps every manual name or the only row that has one.
* `AddressFilledTheorem`: `AddressFilled`; the row, the only one of its MAC, is moved to a
  free address, no later operator takes it away, and the list differs, so it is saved.

`SelfUpdateProofs`:

* `TypeCorrect`; `SuccessTheorem`, from an invariant that says for every step of
  the job and of `update.sh` what is installed by then.
* `TunnelTheorem`. `TunnelDown` speaks of the quiet state only. Its invariant says
  of every piece of the tunnel that is there who still owes its removal: an abort
  under way that has not come to that piece, or the job, through its own steps
  and the traps it ends with. It is proved for any number of callers that are not
  killed by the job, that is without `web`: section 7 says what can happen with it.
* `CleanTheorem`: `OutcomeMeansClean` for a single caller, `web` or another. The
  credentials are in it too, and those are there before the job is: a piece may
  also be stashed for a job about to start. Two callers can break the property
  (section 7).
* `DialogIsCaller`: the dialog (`UpdateDialog`) implements `SelfUpdate`, so that what is
  proved of `SelfUpdate` holds under it. This and the following assume that `web` is
  one of the callers.
* `DialogTypeCorrect`; `ReloadTheorem`, from `DialogIsCaller` and `SuccessTheorem`: a
  fresh answer on its way says "success" only when the release is installed, and
  the release does not change before the next start, which takes the freshness away.
* `DialogCleanTheorem`: `OutcomeMeansClean` under the dialog, when nobody else calls;
  what `update_page` checks.

`StorageProofs` (any number of drives, changes, helpers and reboots; what is said
of the drives shown holds until one is pulled out):

* `TypeCorrect`: `TypeOK`.
* `NfsTheorem`: `NfsNotUncovered`. The order of stopping NFS, unmounting, mounting
  and starting it matters twice in the script; the invariant says at which of its
  steps the bind has to be a mount.
* `AnnouncedTheorem`: `ClientsOnAnnounced`, and `FinishedTheorem`:
  `FinishedIsServed`. Both are about a few moments; `ServedInv` says for every
  step of the script what the entries of fstab name (`EntryInv`), which helpers
  may run (`HelperInv`), what the stacks show (`ShownInv`), and that while NFS
  runs neither the bind nor what a remount would bind is another drive than the
  announced one, or the chosen one from the start of NFS to its announcement
  (`SourceInv`).

`SnifferProofs` (any machines, workgroup, names in a DHCP server and letters, names
of two letters in the layouts that the module lists):

* `TypeCorrect`: `TypeOK`, which no run checks.
* `NameTheorem`: `NameIsOwn`. `ParsedRight` is about the parser alone: a packet with
  any of the layouts that holds a name yields that name, and one without a whole
  name yields none. It follows the walk over each layout turn by turn. The rest, `OwnInv`,
  is that memory and file hold only what their machine has announced, what a
  server has called it, or its workgroup.
* `FullNameTheorem`: `FullNameStays`; the memory never knows less than the file,
  which a restart begins with.

`DevicesProofs` (enough addresses for the machines is an assumption of `Devices`):

* `TypeCorrect`: `TypeOK`, with it that no two machines have the same place.
* `DismissTheorem`: `DismissesTheShown`.
* `NeverOlderTheorem`: `NeverOlder`; the flag leaves at most one answer under way.

`BackupsProofs` (any machines, images, answers on the way and clicks):

* `TypeCorrect`: `TypeOK`.
* `VersionsTheorem`: `VersionsFollowTime`. The order of a drive depends on that of the
  one before it, from which the copies get their times: in `OrderInv` both drives
  are in order, as are what was copied and what was taken since, and what is
  being written is the newest image of its machine. Images that a deletion or a
  copy has left in pieces are excepted throughout.
* `ChosenTheorem`: `ChosenForHost`; the version that an opening of the dialog was
  asked for, and what it has selected without a click, is of its own machine.
* `RenameTheorem`: `RenamesTheTyped`; a request to rename carries the group of its
  editor from the moment it is sent.

Induction over data. The induction theorems of the library take an operator as a
parameter, which the installed provers cannot instantiate. `ListsProofs` goes
around that: a set of natural numbers that is not empty has a least element
(the library's theorem on minima of a well-founded relation), from which follow
induction over the positions of a list, for the *set* of those that have a
property (`InductionUpTo`), and that a function defined by recursion over them
exists and satisfies its equation (`RecursionExists`). On these stand what
`Picked` keeps and in which order, and the walks of `SnifferProofs`. This is why the
models define loops as recursive functions and have no RECURSIVE operator.

Only model-checked: liveness, that is `ExpiryRevokes`, `RunningEnds`,
`WatchedOutcomeShown`, `ReconnectRemounts`, `NameArrives`, `TableCatchesUp` (of `Devices`
and of `Backups`) and `SilentJobFades`. It rests on ENABLED through the fairness, which
is out of the prover's reach.

## 7. What the models show about the code

Three statements of comments and documents do not hold (`findings` in
`PROJECT.json`, each with its run):

1. `arming_timeout`: `arm_host` does not roll back when `recovery-allowlist` times
   out, and the helper may finish later: armed without a record.
2. `update_packages`: an update over the VPN that installs a missing `strongswan`
   package stops its own tunnel.
3. `devices_moved`: a click arms the address the table showed. After a scan that
   moved machines it arms another one than the row, and the confirmation, named.

Met while modelling and left without a run:

* Arming: nothing enforces the five minutes of an arm between two requests. The
  second disarm call of a finished job may clear an arm made meanwhile.
* Device list: a PXE transient makes a scan drop a manually named row
  (`app/app.py:1716`, `1790`); a scan or an arm in progress brings a removed row
  back and drops one that was added meanwhile (`app/app.py:1831`, `1354`, `1293`).
  When a sweep has two machines at an address that no row has, the rows of both
  move there: the code compares with `by_ip`, which it filled before the moves
  (`app/app.py:1746`). The comment before it says "dedup below sorts those out",
  but the removal of duplicates is by MAC. `UniqueAddresses` excepts just these
  addresses (`doubled`); without the exception it fails.
* Self-update: after a hard kill of the job, after a command of it that failed
  under `set -e` (`helpers/recovery-update:252`, `277`, `295`), and after a
  `systemd-run` that failed, the status stays at "running", also through an abort,
  which finds no update to abort (`helpers/recovery-update:385`), so that the
  dialog polls on. `RunningEnds` and `WatchedOutcomeShown` except such deaths. The interface gives up an abort after 30 s
  (`app/app.py:982`) while the helper goes on. A start that meets a unit being
  stopped is refused by `systemd-run` after it has stashed the credentials and
  set the status; with two shells a failing start can leave the credentials
  behind after the outcome of another, which is why `OutcomeMeansClean` is a
  property of the page alone. An abort that overlaps the end of a successful
  update overwrites "success" with "failed". TERM during the EXIT trap's teardown
  skips the rest of it, which only the abort's own teardown makes good; an abort
  of the interface killed by `update.sh`'s restart while an operator's `start` is
  under way can leave the IPsec daemon running. An update does not install
  `recovery-rmimage`, two of the sudoers files and the name sniffer, although
  `README.md:94` says that it pulls "the latest app, helpers, and sudoers".
* Update dialog: a late answer to its opening puts a running dialog back to the
  form, or starts polling in a dialog that was closed. The outcome of one update
  cannot be told from that of another: an answer that was read before a start and
  comes after it ends the polling of the new update, with a reload if it is a
  success. A "running" that was read before an outcome and comes after it puts the
  line back to running, with no poll to follow.
* Storage: with a drive pulled out, the old drive, bound by a remount that raced
  the change and hidden by the new one, shows again and NFS serves it
  (`helpers/recovery-change-storage:231`). Between the start of NFS and the
  announcement (`127`-`133`) the restart of the interface may end the script:
  clients are then served a drive nobody was told of. When a first change ended
  while copying and a second before it looks at the standard mount point
  (`237`-`242`), the old drive is there though fstab names the new one;
  `recovery-remount` asks only whether something is mounted there
  (`helpers/recovery-remount:19`) and serves the old one. `ReconnectRemounts`
  excepts this leftover (`NoLeftover`). After a boot without the drive NFS exports the
  directory of the SD card, because the mount is `nofail`.
* Progress: the terminal post replaces the phase, so the badge of a finished job
  says "Job" whatever it was; a late "running" after "completed" hides the badge
  until the TTL, and after a dismissal makes the entry again. The comment of
  `_progress` says that running entries "don't survive a hung script"
  (`app/app.py:1016`). They do when only `ocs-sr` hangs, since the reporter beside it
  goes on posting (`tftp/ocs-backup.sh:79`): `SilentJobFades` is about machines that
  post no more.
* Sniffer: a Windows machine registers its workgroup with suffix 0 too, and the
  group bit is not looked at (`app/dhcp_namesniffer.py:91`), so the group's name
  becomes the machine's until DHCP brings a name, although the comment says
  "client's own computer name" (`app/dhcp_namesniffer.py:79`). Likewise the name a DHCP
  server has for a machine replaces the one it calls itself.
* Backups: an image that is being copied to a new drive, one whose copy stopped
  half-way, and one that a deletion has begun to take apart are modified last, and
  so come out as the latest version.
* Page: a refresh in flight when a name field gets the focus replaces it. Deleting
  the last image of the group being renamed leaves the backups table frozen, since
  the editor that would end the renaming is gone (`app/app.py:3128`). The image
  a restore is preset to may be one that is still being written. The late answer to a
  restore dialog that was cancelled fills the list, and sets the confirmation, under
  the header of the next one: what is confirmed then is a restore of the earlier
  machine, which only the final question names (`app/app.py:2396`, `2435`).

## 8. What is not modelled

Drive health, reachability, wake-on-LAN and the vendor tables are reads or
constant data. `install.sh` and `uninstall.sh` are run once by an operator. Of the
page, the picker of new devices and the banners, which keep nothing; of the scan,
the list of discovered devices, which is returned and not kept; of the images,
sizes, estimates and the window in which one counts as in progress; of a change
of drive, picking and formatting it, which comes before anything is mounted; of
an update, what the files of a release contain. The live system between its two
disarm calls is Clonezilla's.
