----------------------------- MODULE SelfUpdate -----------------------------
(***************************************************************************)
(* The self-update: recovery-update start | run | abort and update.sh.     *)
(*                                                                         *)
(* start and abort are calls of the web interface (one at a time, the      *)
(* event loop blocks on them) or of a shell; run is the job, a transient   *)
(* systemd unit of its own, so it outlives the restart of the interface    *)
(* that update.sh ends with.  They share status.json, the credentials in   *)
(* /dev/shm and the pieces of the VPN tunnel.                              *)
(*                                                                         *)
(* The unit runs a bash script under "set -e" with traps: a command that   *)
(* fails unexpectedly ends it through the EXIT trap, "systemctl stop"      *)
(* sends TERM, which is trapped after the command under way.               *)
(***************************************************************************)
EXTENDS Naturals, FiniteSets

CONSTANTS
    Callers,         \* who calls start and abort: "web", "shell"
    InstalledBefore, \* the packages the device starts with
    MaxFaults        \* bound on the faults of each kind

\* "launch": systemd-run fails; "die": an unguarded command of the job fails;
\* "kill": the job is killed without its traps.
FaultKinds == {"launch", "die", "kill"}

Packages == {"smartmontools", "git", "strongswan", "strongswan-swanctl", "xl2tpd", "ppp"}

Secrets == {"creds", "ppp_options"}
Tunnel  == {"swan_conf", "ipsec", "l2tp", "route", "hosts_pin"}
Things  == Secrets \cup Tunnel \cup {"work"}

\* What update.sh copies, the libraries first.
Release == {"lib", "helpers", "sudoers", "app", "scripts", "unit"}

TeardownSteps == {"td_secrets", "td_l2tp", "td_ipsec", "td_route"}

JobSteps == {"none", "boot", "precheck", "reachability", "vpn", "ipsec", "ppp", "l2tp",
             "route", "tunnel", "clone", "packages", "probe", "probe_off", "files",
             "restart", "restarted", "success", "exit"} \cup TeardownSteps

CallSteps == {"idle", "stash", "announce", "launch", "stop", "stopping", "mark"} \cup TeardownSteps

ASSUME SelfUpdateAssumption ==
    /\ InstalledBefore \subseteq Packages
    /\ MaxFaults \in [FaultKinds -> Nat]

VARIABLES
    unit,      \* the transient unit: "inactive", "active", "deactivating"
    status,    \* the state in status.json
    present,   \* what exists of Things on the system
    installed, \* what is on the device of the release that was fetched last
    packages,  \* the packages on the device
    job,       \* the run: its step and its shell variables; died: for the properties
    call,      \* where each caller's start or abort stands
    faults

vars == <<unit, status, present, installed, packages, job, call, faults>>

NoJob == [at |-> "none", usedVpn |-> FALSE, knowsSvc |-> FALSE, tornDown |-> FALSE,
          trapped |-> FALSE, then |-> "exit", died |-> FALSE]

TypeOK ==
    /\ unit \in {"inactive", "active", "deactivating"}
    /\ status \in {"idle", "running", "success", "failed"}
    /\ present \subseteq Things
    /\ installed \subseteq Release
    /\ packages \subseteq Packages
    /\ job \in [at : JobSteps, usedVpn : BOOLEAN, knowsSvc : BOOLEAN, tornDown : BOOLEAN,
                trapped : BOOLEAN, then : {"success", "exit"}, died : BOOLEAN]
    /\ call \in [Callers -> CallSteps]
    /\ faults \in [FaultKinds -> Nat]

Init ==
    /\ unit = "inactive" /\ status = "idle"
    /\ present = {} /\ installed = {} /\ packages = InstalledBefore
    /\ job = NoJob
    /\ call = [c \in Callers |-> "idle"]
    /\ faults = [k \in FaultKinds |-> 0]

Fault(kind) == faults[kind] < MaxFaults[kind] /\ faults' = [faults EXCEPT ![kind] = @ + 1]

\* Mutation: the IPsec daemon is left running.
TornDownNoDaemon(step, knowsSvc, works) ==
    CASE step = "td_secrets" -> Secrets
      [] step = "td_l2tp"    -> {"l2tp"}
      [] step = "td_ipsec"   -> {"swan_conf"}
      [] step = "td_route"   -> {"route", "hosts_pin"} \cup IF works THEN {"work"} ELSE {}

\* What each step of teardown takes away; knowsSvc: IPSEC_SVC is set, which
\* service to stop; works: WORK is set, the run's own directory.
TornDown(step, knowsSvc, works) ==
    CASE step = "td_secrets" -> Secrets
      [] step = "td_l2tp"    -> {"l2tp"}
      [] step = "td_ipsec"   -> {"swan_conf"} \cup IF knowsSvc THEN {"ipsec"} ELSE {}
      [] step = "td_route"   -> {"route", "hosts_pin"} \cup IF works THEN {"work"} ELSE {}

NextTeardown(step, end) ==
    CASE step = "td_secrets" -> "td_l2tp"
      [] step = "td_l2tp"    -> "td_ipsec"
      [] step = "td_ipsec"   -> "td_route"
      [] step = "td_route"   -> end

-----------------------------------------------------------------------------
(* recovery-update start.                                                  *)

\* Refused while the unit is active; a unit that is being stopped is not.
Start(c) ==
    /\ call[c] = "idle" /\ unit # "active"
    /\ call' = [call EXCEPT ![c] = "stash"]
    /\ UNCHANGED <<unit, status, present, installed, packages, job, faults>>

StashCredentials(c) ==
    /\ call[c] = "stash"
    /\ present' = present \cup {"creds"}
    /\ call' = [call EXCEPT ![c] = "announce"]
    /\ UNCHANGED <<unit, status, installed, packages, job, faults>>

Announce(c) ==
    /\ call[c] = "announce"
    /\ status' = "running"
    /\ call' = [call EXCEPT ![c] = "launch"]
    /\ UNCHANGED <<unit, present, installed, packages, job, faults>>

\* systemd-run refuses a name that is in use; "set -e" then ends the call.
Launch(c) ==
    /\ call[c] = "launch"
    /\ call' = [call EXCEPT ![c] = "idle"]
    /\ \/ /\ unit = "inactive"
          /\ unit' = "active" /\ job' = [NoJob EXCEPT !.at = "boot"]
          /\ UNCHANGED faults
       \/ unit # "inactive" /\ UNCHANGED <<unit, job, faults>>
       \/ Fault("launch") /\ UNCHANGED <<unit, job>>
    /\ UNCHANGED <<status, present, installed, packages>>

-----------------------------------------------------------------------------
(* recovery-update abort.                                                  *)

Abort(c) ==
    /\ call[c] = "idle"
    /\ call' = [call EXCEPT ![c] = IF unit = "active" THEN "stop" ELSE "td_secrets"]
    /\ UNCHANGED <<unit, status, present, installed, packages, job, faults>>

\* systemctl stop waits until the unit is gone.
StopUnit(c) ==
    /\ call[c] = "stop"
    /\ IF unit = "inactive"
       THEN call' = [call EXCEPT ![c] = "mark"] /\ UNCHANGED unit
       ELSE call' = [call EXCEPT ![c] = "stopping"] /\ unit' = "deactivating"
    /\ UNCHANGED <<status, present, installed, packages, job, faults>>

\* Mutation: the arguments of set_status are swapped.
MarkAbortedSwapped(c) ==
    /\ call[c] = "mark"
    /\ status' = "aborted"
    /\ call' = [call EXCEPT ![c] = "td_secrets"]
    /\ UNCHANGED <<unit, present, installed, packages, job, faults>>

MarkAborted(c) ==
    /\ call[c] = "mark"
    /\ status' = "failed"
    /\ call' = [call EXCEPT ![c] = "td_secrets"]
    /\ UNCHANGED <<unit, present, installed, packages, job, faults>>

\* abort looks the service up, and has no directory of its own.
ClearUp(c) ==
    /\ call[c] \in TeardownSteps
    /\ present' = present \ TornDown(call[c], TRUE, FALSE)
    /\ call' = [call EXCEPT ![c] = NextTeardown(@, "idle")]
    /\ UNCHANGED <<unit, status, installed, packages, job, faults>>

-----------------------------------------------------------------------------
(* recovery-update run, up to update.sh.                                   *)

\* A step of the script itself: TERM is handled before the next one.
Runs(step) == job.at = step /\ unit = "active"

Goto(step) == job' = [job EXCEPT !.at = step]

\* The EXIT trap: tear down unless that was done, or begun, before.
Exited(run) == [run EXCEPT !.at = IF run.tornDown THEN "exit" ELSE "td_secrets",
                           !.tornDown = TRUE, !.then = "exit"]

Exits == job' = Exited(job)

\* Mutation: fail does not write the status.
FailQuietly == UNCHANGED status /\ Exits

Fail == status' = "failed" /\ Exits

JobStart ==
    /\ Runs("boot")
    /\ status' = "running"
    /\ Goto("precheck")
    /\ UNCHANGED <<unit, present, installed, packages, call, faults>>

Precheck ==
    /\ Runs("precheck")
    /\ \/ status' = "running" /\ Goto("reachability")
       \/ Fail
    /\ UNCHANGED <<unit, present, installed, packages, call, faults>>

\* Direct access needs no credentials any more.
Reachability ==
    /\ Runs("reachability")
    /\ status' = "running"
    /\ \/ present' = present \ {"creds"} /\ Goto("clone")
       \/ UNCHANGED present /\ job' = [job EXCEPT !.at = "vpn", !.usedVpn = TRUE]
    /\ UNCHANGED <<unit, installed, packages, call, faults>>

\* The tools, the configuration and the credentials must be there.
VpnSetup ==
    /\ Runs("vpn")
    /\ \/ /\ {"strongswan-swanctl", "xl2tpd", "ppp"} \subseteq packages
          /\ "creds" \in present
          /\ present' = present \cup {"swan_conf"}
          /\ job' = [job EXCEPT !.at = "ipsec", !.knowsSvc = TRUE]
          /\ UNCHANGED status
       \/ Fail /\ UNCHANGED present
    /\ UNCHANGED <<unit, installed, packages, call, faults>>

IpsecUp ==
    /\ Runs("ipsec")
    /\ \/ present' = present \cup {"ipsec"} /\ (Fail \/ (Goto("ppp") /\ UNCHANGED status))
       \/ Fail /\ UNCHANGED present
    /\ UNCHANGED <<unit, installed, packages, call, faults>>

PppOptions ==
    /\ Runs("ppp")
    /\ present' = (present \cup {"ppp_options"}) \ {"creds"}
    /\ Goto("l2tp")
    /\ UNCHANGED <<unit, status, installed, packages, call, faults>>

L2tpUp ==
    /\ Runs("l2tp")
    /\ \/ present' = (present \cup {"l2tp"}) \ {"ppp_options"} /\ Goto("route") /\ UNCHANGED status
       \/ present' \in {present, present \cup {"l2tp"}} /\ Fail
    /\ UNCHANGED <<unit, installed, packages, call, faults>>

RouteGitlab ==
    /\ Runs("route")
    /\ present' = present \cup {"route", "hosts_pin"}
    /\ Goto("tunnel")
    /\ UNCHANGED <<unit, status, installed, packages, call, faults>>

WaitGitlab ==
    /\ Runs("tunnel")
    /\ \/ Goto("clone") /\ UNCHANGED status
       \/ Fail
    /\ UNCHANGED <<unit, present, installed, packages, call, faults>>

\* What is fetched may be newer than what was fetched before: then nothing of it
\* is on the device yet.
FetchRepo ==
    /\ Runs("clone")
    /\ present' = present \cup {"work"}
    /\ \/ status' = "running" /\ installed' \in {installed, {}} /\ Goto("packages")
       \/ Fail /\ UNCHANGED installed
    /\ UNCHANGED <<unit, packages, call, faults>>

-----------------------------------------------------------------------------
(* update.sh, and the end of run.                                          *)

\* Missing packages are installed if the internet is there; what Debian starts
\* then is stopped.
InstallPackages ==
    /\ Runs("packages")
    /\ LET missing == Packages \ packages IN
         \/ /\ missing # {}
            /\ packages' = Packages
            /\ present' = IF missing \cap {"strongswan", "strongswan-swanctl", "xl2tpd"} # {}
                          THEN present \ {"l2tp"} ELSE present
         \/ UNCHANGED <<packages, present>>
    /\ Goto("probe")
    /\ UNCHANGED <<unit, status, installed, call, faults>>

\* The IPsec daemon is tested: started for it if it is not up.
ProbeVpn ==
    /\ Runs("probe")
    /\ IF "strongswan-swanctl" \in packages /\ "ipsec" \notin present
       THEN present' = present \cup {"ipsec"} /\ Goto("probe_off")
       ELSE Goto("files") /\ UNCHANGED present
    /\ UNCHANGED <<unit, status, installed, packages, call, faults>>

ProbeOff ==
    /\ Runs("probe_off")
    /\ present' = present \ {"ipsec"}
    /\ Goto("files")
    /\ UNCHANGED <<unit, status, installed, packages, call, faults>>

\* Mutation: that update.sh failed is not noticed.
CopyFilesUnchecked ==
    /\ Runs("files")
    /\ installed' = installed \cup {"lib"}
    /\ Goto("restart") \/ Goto("restarted")
    /\ UNCHANGED <<unit, status, present, packages, call, faults>>

\* The files are installed one by one, the libraries first; any may fail.
CopyFiles ==
    /\ Runs("files")
    /\ installed' = installed \cup {"lib"}
    /\ \/ Goto("restart") /\ UNCHANGED status
       \/ Fail
    /\ UNCHANGED <<unit, present, packages, call, faults>>

\* The other files, then the restart: it kills the call that the interface waits
\* for, which may just have told the job to stop.
RestartInterface ==
    /\ job.at = "restart" /\ unit # "inactive"
    /\ installed' = installed \cup Release
    /\ call' = [c \in Callers |-> IF c = "web" THEN "idle" ELSE call[c]]
    /\ Goto("restarted")
    /\ UNCHANGED <<unit, status, present, packages, faults>>

FinishInstall ==
    /\ Runs("restarted")
    /\ \/ /\ job' = [job EXCEPT !.at = "td_secrets", !.tornDown = TRUE, !.then = "success"]
          /\ UNCHANGED status
       \/ Fail
    /\ UNCHANGED <<unit, present, installed, packages, call, faults>>

\* The job's teardown goes on as the EXIT trap or as the last step of a run.
\* With the TERM trap done it is not interrupted any more.
TearDown ==
    /\ job.at \in TeardownSteps
    /\ unit = "active" \/ job.trapped
    /\ present' = present \ TornDown(job.at, job.knowsSvc, TRUE)
    /\ Goto(NextTeardown(job.at, job.then))
    /\ UNCHANGED <<unit, status, installed, packages, call, faults>>

Success ==
    /\ Runs("success")
    /\ status' = "success"
    /\ Goto("exit")
    /\ UNCHANGED <<unit, present, installed, packages, call, faults>>

\* Mutation: the TERM trap forgets to tear down.
TermTrapOnly ==
    /\ unit = "deactivating" /\ ~job.trapped /\ job.at \notin {"none", "boot", "exit"}
    /\ status' = "failed"
    /\ job' = [job EXCEPT !.at = "exit", !.trapped = TRUE]
    /\ UNCHANGED <<unit, present, installed, packages, call, faults>>

\* The TERM trap: a teardown that had begun is not taken up again.
TermTrap ==
    /\ unit = "deactivating" /\ ~job.trapped /\ job.at \notin {"none", "boot", "exit"}
    /\ status' = "failed"
    /\ job' = [job EXCEPT !.at = IF job.tornDown THEN "exit" ELSE "td_secrets",
                          !.tornDown = TRUE, !.trapped = TRUE, !.then = "exit"]
    /\ UNCHANGED <<unit, present, installed, packages, call, faults>>

\* What a step may have left behind when one of its commands fails.
Begun(step) ==
    CASE step = "vpn"   -> {"swan_conf"}
      [] step = "ppp"   -> {"ppp_options"}
      [] step = "l2tp"  -> {"l2tp"}
      [] step = "route" -> {"route"}
      [] step = "clone" -> {"work"}

\* A failing command outside a condition: ip route, mktemp, the echo into the
\* control pipe, a full disk.  Only the EXIT trap runs: the status stays.
JobDies ==
    /\ Runs(job.at) /\ job.at \in {"vpn", "ppp", "l2tp", "route", "clone"}
    /\ Fault("die")
    /\ present' \in {present, present \cup Begun(job.at)}
    /\ job' = Exited([job EXCEPT !.knowsSvc = @ \/ job.at = "vpn", !.died = TRUE])
    /\ UNCHANGED <<unit, status, installed, packages, call>>

\* The unit is gone, and with it every "systemctl stop" that waited for it.
UnitGone ==
    /\ unit' = "inactive" /\ job' = NoJob
    /\ call' = [c \in Callers |-> IF call[c] = "stopping" THEN "mark" ELSE call[c]]

\* Before its traps are set, TERM ends the job at once.
JobExits ==
    /\ job.at = "exit" \/ (job.at = "boot" /\ unit = "deactivating")
    /\ UnitGone
    /\ UNCHANGED <<status, present, installed, packages, faults>>

\* SIGKILL, from the OOM killer or when stopping takes more than 90 s.
HardKill ==
    /\ unit # "inactive"
    /\ Fault("kill")
    /\ UnitGone
    /\ UNCHANGED <<status, present, installed, packages>>

-----------------------------------------------------------------------------

JobStep ==
    \/ JobStart \/ Precheck \/ Reachability
    \/ VpnSetup \/ IpsecUp \/ PppOptions \/ L2tpUp \/ RouteGitlab \/ WaitGitlab
    \/ FetchRepo \/ InstallPackages \/ ProbeVpn \/ ProbeOff \/ CopyFiles
    \/ RestartInterface \/ FinishInstall \/ TearDown \/ Success \/ TermTrap \/ JobExits

CallStep(c) ==
    \/ StashCredentials(c) \/ Announce(c) \/ Launch(c)
    \/ StopUnit(c) \/ MarkAborted(c) \/ ClearUp(c)

Next ==
    \/ JobStep \/ JobDies \/ HardKill
    \/ \E c \in Callers : Start(c) \/ Abort(c) \/ CallStep(c)

Spec == Init /\ [][Next]_vars

\* The kernel runs the job and the helpers, and every wait of theirs has a
\* timeout; nobody has to start or abort anything.
FairSpec == Spec /\ WF_vars(JobStep) /\ \A c \in Callers : WF_vars(CallStep(c))

-----------------------------------------------------------------------------
(* Properties.                                                             *)

Quiet == unit = "inactive" /\ \A c \in Callers : call[c] = "idle"

\* "The tunnel is torn down as soon as the update ends - success, failure, or
\* abort" (recovery-update:9-11): also when an abort interrupts a teardown, when
\* starts and aborts overlap and when a command fails; a killed job is excepted.
TunnelDown == Quiet /\ faults["kill"] = 0 => present \cap Tunnel = {}

\* Once the page shows the outcome of an update and nothing runs any more,
\* neither the credentials nor a piece of the tunnel is left, even if the last
\* step of update.sh killed the abort that was waiting for the job.
OutcomeMeansClean ==
    Quiet /\ status \in {"success", "failed"} /\ faults["kill"] = 0 =>
        present \cap (Secrets \cup Tunnel) = {}

\* The status is "success" only while the device has everything that update.sh
\* copies of the release fetched last, whatever update failed or was aborted
\* half-way before and however often a newer release is fetched.
SuccessMeansInstalled == status = "success" => Release \subseteq installed

Lost == job.died \/ faults["kill"] > 0

\* The status of a job that is running leaves "running", by itself or by an abort,
\* wherever the two meet, unless a command of it fails under "set -e" or one is
\* killed.  After such a death nothing but a next start or an abort of that one
\* changes the status: recovery-update:385 finds no update to abort.
RunningEnds == unit = "active" /\ status = "running" /\ ~Lost ~> status # "running" \/ Lost

\* Claimed by update.sh:71-72: "a VPN-carried update can never stop its own
\* tunnel".
TunnelSurvivesPackages ==
    [][ job.usedVpn /\ job.at = "packages" /\ job'.at = "probe" /\ "l2tp" \in present
          => "l2tp" \in present' ]_vars
=============================================================================
