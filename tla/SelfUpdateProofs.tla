-------------------------- MODULE SelfUpdateProofs --------------------------
(***************************************************************************)
(* Proofs about SelfUpdate, for every set of callers, every set of         *)
(* packages and any number of faults: its type, that success means         *)
(* installed, that the tunnel is down when all is over, and that for a     *)
(* single caller every outcome is a clean one; and about UpdateDialog,     *)
(* that it is such a caller and reloads the page only from a device that   *)
(* has the whole release.                                                  *)
(***************************************************************************)
EXTENDS UpdateDialog, TLAPS

-----------------------------------------------------------------------------
(* Type correctness.                                                       *)

USE DEF TeardownSteps

LEMMA FaultTyped ==
    ASSUME TypeOK, NEW kind \in FaultKinds, Fault(kind)
    PROVE  faults' \in [FaultKinds -> Nat]
  BY DEF TypeOK, Fault

JobType == [at : JobSteps, usedVpn : BOOLEAN, knowsSvc : BOOLEAN, tornDown : BOOLEAN,
            trapped : BOOLEAN, then : {"success", "exit"}, died : BOOLEAN]

LEMMA GotoTyped ==
    ASSUME job \in JobType, NEW step \in JobSteps, Goto(step)
    PROVE  job' \in JobType
  BY DEF JobType, Goto

LEMMA ExitsTyped ==
    ASSUME job \in JobType, Exits
    PROVE  job' \in JobType
  BY DEF JobType, Exits, Exited, JobSteps

LEMMA JobTyped ==
    ASSUME job \in JobType, JobStep
    PROVE  job' \in JobType
  <1>1. \A step \in JobSteps : Goto(step) => job' \in JobType
    BY GotoTyped
  <1>2. Fail => job' \in JobType
    BY ExitsTyped DEF Fail
  <1> DEFINE Onwards == {"precheck", "reachability", "ppp", "l2tp", "route", "tunnel", "clone", "packages",
                         "probe", "probe_off", "files", "restart", "restarted", "exit"}
  <1>3. Onwards \subseteq JobSteps
    BY DEF JobSteps
  <1>4. \A step \in Onwards : Goto(step) => job' \in JobType
    BY <1>1, <1>3
  <1> HIDE DEF Onwards
  <1>5. CASE JobStart \/ Precheck \/ WaitGitlab \/ Success
    BY <1>5, <1>2, <1>4 DEF JobStart, Precheck, WaitGitlab, Success, Onwards
  <1>6. CASE Reachability
    BY <1>6, <1>4 DEF Reachability, Onwards, JobType, JobSteps
  <1>7. CASE VpnSetup
    BY <1>7, <1>2 DEF VpnSetup, JobType, JobSteps
  <1>8. CASE IpsecUp \/ PppOptions \/ L2tpUp \/ RouteGitlab \/ FetchRepo
    BY <1>8, <1>2, <1>4 DEF IpsecUp, PppOptions, L2tpUp, RouteGitlab, FetchRepo, Onwards
  <1>9. CASE InstallPackages \/ ProbeVpn \/ ProbeOff \/ CopyFiles \/ RestartInterface
    BY <1>9, <1>2, <1>4 DEF InstallPackages, ProbeVpn, ProbeOff, CopyFiles, RestartInterface, Onwards
  <1>10. CASE FinishInstall
    BY <1>10, <1>2 DEF FinishInstall, JobType, JobSteps
  <1>11. CASE TearDown
    <2>1. NextTeardown(job.at, job.then) \in JobSteps
      BY <1>11 DEF TearDown, NextTeardown, JobSteps, JobType
    <2>2. QED
      BY <1>1, <1>11, <2>1 DEF TearDown
  <1>12. CASE TermTrap
    <2>1. (IF job.tornDown THEN "exit" ELSE "td_secrets") \in JobSteps
      BY DEF JobSteps
    <2>2. QED
      BY <1>12, <2>1 DEF TermTrap, JobType
  <1>13. CASE JobExits
    BY <1>13 DEF JobExits, UnitGone, NoJob, JobType, JobSteps
  <1>14. QED
    BY <1>5, <1>6, <1>7, <1>8, <1>9, <1>10, <1>11, <1>12, <1>13 DEF JobStep

LEMMA JobStepTyped ==
    ASSUME TypeOK, JobStep
    PROVE  TypeOK'
  <1>1. job' \in JobType
    BY JobTyped DEF TypeOK, JobType
  <1> USE DEF Fail
  <1>2. /\ status' \in {"idle", "running", "success", "failed"} /\ unit' \in {"inactive", "active", "deactivating"}
        /\ installed' \subseteq Release /\ UNCHANGED faults
    BY DEF TypeOK, Release, JobStep, JobStart, Precheck, WaitGitlab, Success, TermTrap, Reachability,
           VpnSetup, IpsecUp, PppOptions, L2tpUp, RouteGitlab, FetchRepo, InstallPackages, ProbeVpn,
           ProbeOff, CopyFiles, RestartInterface, FinishInstall, TearDown, JobExits, UnitGone
  <1>3. packages' \subseteq Packages
    BY DEF TypeOK, JobStep, JobStart, Precheck, WaitGitlab, Success, TermTrap, Reachability,
           VpnSetup, IpsecUp, PppOptions, L2tpUp, RouteGitlab, FetchRepo, InstallPackages, ProbeVpn,
           ProbeOff, CopyFiles, RestartInterface, FinishInstall, TearDown, JobExits
  <1>4. present' \subseteq Things
    <2> SUFFICES ASSUME present \subseteq Things PROVE present' \subseteq Things
      BY DEF TypeOK
    <2>1. Secrets \subseteq Things /\ Tunnel \subseteq Things /\ "work" \in Things
      BY DEF Things
    <2>2. {"creds", "ppp_options", "swan_conf", "ipsec", "l2tp", "route", "hosts_pin"} \subseteq Things
      BY <2>1 DEF Secrets, Tunnel
    <2>3. CASE Reachability \/ VpnSetup \/ IpsecUp \/ PppOptions \/ L2tpUp \/ RouteGitlab \/ FetchRepo
      BY <2>1, <2>2, <2>3 DEF Reachability, VpnSetup, IpsecUp, PppOptions, L2tpUp, RouteGitlab, FetchRepo
    <2>4. CASE InstallPackages \/ ProbeVpn \/ ProbeOff \/ TearDown
      BY <2>2, <2>4 DEF InstallPackages, ProbeVpn, ProbeOff, TearDown
    <2>5. QED
      BY <2>3, <2>4 DEF JobStep, JobStart, Precheck, WaitGitlab, Success, TermTrap, CopyFiles,
                        RestartInterface, FinishInstall, JobExits
  <1>5. call' \in [Callers -> CallSteps]
    <2> SUFFICES ASSUME call \in [Callers -> CallSteps] PROVE call' \in [Callers -> CallSteps]
      BY DEF TypeOK
    <2>1. CASE RestartInterface
      BY <2>1 DEF RestartInterface, CallSteps
    <2>2. CASE JobExits
      BY <2>2 DEF JobExits, UnitGone, CallSteps
    <2>3. CASE UNCHANGED call
      BY <2>3
    <2>4. QED
      BY <2>1, <2>2, <2>3
         DEF JobStep, JobStart, Precheck, WaitGitlab, Success, TermTrap, Reachability, VpnSetup, IpsecUp,
             PppOptions, L2tpUp, RouteGitlab, FetchRepo, InstallPackages, ProbeVpn, ProbeOff, CopyFiles,
             FinishInstall, TearDown
  <1>6. QED
    BY <1>1, <1>2, <1>3, <1>4, <1>5 DEF TypeOK, JobType

LEMMA CallStepTyped ==
    ASSUME TypeOK, NEW c \in Callers, Start(c) \/ Abort(c) \/ CallStep(c)
    PROVE  TypeOK'
  <1> USE DEF TypeOK, CallSteps
  <1>1. CASE Start(c) \/ Abort(c) \/ Announce(c) \/ StopUnit(c) \/ MarkAborted(c)
    BY <1>1 DEF Start, Abort, Announce, StopUnit, MarkAborted
  <1>2. CASE StashCredentials(c)
    BY <1>2 DEF StashCredentials, Things, Secrets
  <1>3. CASE Launch(c)
    BY <1>3, FaultTyped DEF Launch, NoJob, JobSteps, FaultKinds
  <1>4. CASE ClearUp(c)
    <2>1. NextTeardown(call[c], "idle") \in CallSteps
      BY <1>4 DEF ClearUp, NextTeardown, TeardownSteps
    <2>2. present' \subseteq Things
      BY <1>4 DEF ClearUp
    <2>3. QED
      BY <1>4, <2>1, <2>2 DEF ClearUp
  <1>5. QED
    BY <1>1, <1>2, <1>3, <1>4 DEF CallStep

\* The state of the self-update keeps its type, whatever starts, aborts, jobs
\* and faults come together.
THEOREM TypeCorrect == Spec => []TypeOK
  <1>1. Init => TypeOK
    BY SelfUpdateAssumption DEF Init, TypeOK, NoJob, JobSteps, CallSteps
  <1>2. TypeOK /\ [Next]_vars => TypeOK'
    <2> SUFFICES ASSUME TypeOK, [Next]_vars PROVE TypeOK'
      OBVIOUS
    <2>1. CASE JobStep
      BY <2>1, JobStepTyped
    <2>2. CASE JobDies
      <3>1. present' \subseteq Things
        <4>1. Begun(job.at) \subseteq Things
          BY <2>2 DEF JobDies, Begun, Things, Secrets, Tunnel
        <4>2. QED
          BY <2>2, <4>1 DEF JobDies, TypeOK
      <3>2. job' \in JobType
        BY <2>2 DEF JobDies, Exited, TypeOK, JobType, JobSteps
      <3>3. QED
        BY <2>2, <3>1, <3>2, FaultTyped DEF JobDies, TypeOK, JobType, FaultKinds
    <2>3. CASE HardKill
      BY <2>3, FaultTyped DEF HardKill, UnitGone, TypeOK, NoJob, JobSteps, CallSteps, FaultKinds
    <2>4. CASE \E c \in Callers : Start(c) \/ Abort(c) \/ CallStep(c)
      BY <2>4, CallStepTyped
    <2>5. CASE UNCHANGED vars
      BY <2>5 DEF TypeOK, vars
    <2>6. QED
      BY <2>1, <2>2, <2>3, <2>4, <2>5 DEF Next
  <1>3. QED
    BY <1>1, <1>2, PTL DEF Spec

-----------------------------------------------------------------------------
(* Success.                                                                *)

\* A run that has passed the files, or is on its way to success, has installed
\* them all.
InstalledInv ==
    /\ status = "success" => Release \subseteq installed
    /\ job.at \in {"restarted", "success"} \/ job.then = "success" => Release \subseteq installed
    /\ job.at = "success" => job.then = "success"
    /\ job.then = "success" => job.at \in TeardownSteps \cup {"success", "exit"}

\* Success means installed, for every set of callers and any number of kills and
\* failing commands; SelfUpdate's only way to "success" leads through update.sh.
THEOREM SuccessTheorem == Spec => []SuccessMeansInstalled
  <1>1. Init => InstalledInv
    BY DEF Init, InstalledInv, NoJob
  <1>2. TypeOK /\ InstalledInv /\ [Next]_vars => InstalledInv'
    <2> SUFFICES ASSUME TypeOK, InstalledInv, [Next]_vars PROVE InstalledInv'
      OBVIOUS
    <2> USE DEF TypeOK, InstalledInv, Runs, Goto, Exits, Exited, Fail
    <2>1. CASE JobStart \/ Precheck \/ Reachability \/ VpnSetup \/ IpsecUp \/ PppOptions \/ L2tpUp
      BY <2>1 DEF JobStart, Precheck, Reachability, VpnSetup, IpsecUp, PppOptions, L2tpUp
    <2>2. CASE RouteGitlab \/ WaitGitlab \/ FetchRepo \/ InstallPackages \/ ProbeVpn \/ ProbeOff
      BY <2>2 DEF RouteGitlab, WaitGitlab, FetchRepo, InstallPackages, ProbeVpn, ProbeOff
    <2>3. CASE CopyFiles \/ RestartInterface \/ FinishInstall
      BY <2>3 DEF CopyFiles, RestartInterface, FinishInstall
    <2>4. CASE TearDown
      BY <2>4 DEF TearDown, NextTeardown
    <2>5. CASE Success \/ TermTrap \/ JobDies
      BY <2>5 DEF Success, TermTrap, JobDies
    <2>6. CASE JobExits \/ HardKill
      BY <2>6 DEF JobExits, HardKill, UnitGone, NoJob
    <2>7. CASE \E c \in Callers : Start(c) \/ Abort(c) \/ CallStep(c)
      BY <2>7 DEF Start, Abort, CallStep, StashCredentials, Announce, Launch, StopUnit, MarkAborted,
                  ClearUp, NoJob
    <2>8. CASE UNCHANGED vars
      BY <2>8 DEF vars
    <2>9. QED
      BY <2>1, <2>2, <2>3, <2>4, <2>5, <2>6, <2>7, <2>8 DEF Next, JobStep
  <1>3. InstalledInv => SuccessMeansInstalled
    BY DEF InstalledInv, SuccessMeansInstalled
  <1>4. QED
    BY <1>1, <1>2, <1>3, TypeCorrect, PTL DEF Spec

-----------------------------------------------------------------------------
(* The tunnel.                                                             *)

\* The steps of teardown from which a thing is still taken away.
Before(t) ==
    CASE t \in Secrets                -> {"td_secrets"}
      [] t = "l2tp"                   -> {"td_secrets", "td_l2tp"}
      [] t \in {"swan_conf", "ipsec"} -> {"td_secrets", "td_l2tp", "td_ipsec"}
      [] t \in {"route", "hosts_pin"} -> TeardownSteps

\* The steps of a run before its teardown.
Working == JobSteps \ (TeardownSteps \cup {"none", "success", "exit"})

\* An abort under way will take t away: the unit need not be there for it.
AbortClears(t) ==
    \E c \in Callers : call[c] \in {"stop", "stopping", "mark"} \cup Before(t)

\* The job will, by itself, however it ends.
JobClears(t) ==
    /\ unit = "active"
    /\ job.at \in Working \cup Before(t)
    /\ t = "ipsec" => job.knowsSvc \/ job.at = "probe_off"

\* A job that is told to stop may skip what it owes, but then an abort waits for
\* it.  A run does not begin its teardown before it has done its work.
ControlInv ==
    /\ unit = "deactivating" => \E c \in Callers : call[c] = "stopping"
    /\ job.at \in Working => ~job.tornDown
    /\ unit # "inactive" => job.at # "none"
    /\ job.at = "ipsec" => job.knowsSvc

Cleared == \A t \in present \cap Tunnel : AbortClears(t) \/ JobClears(t)

TunnelInv == ControlInv /\ (faults["kill"] = 0 => Cleared)

LEMMA BeforeSteps ==
    ASSUME NEW t \in Secrets \cup Tunnel
    PROVE  Before(t) \subseteq TeardownSteps /\ "td_secrets" \in Before(t)
  BY DEF Before, Secrets, Tunnel

\* The interface's restart ends no abort.
LEMMA RestartKeepsCalls ==
    ASSUME "web" \notin Callers, TypeOK, RestartInterface
    PROVE  UNCHANGED call
  BY DEF TypeOK, RestartInterface

LEMMA ControlStep ==
    ASSUME "web" \notin Callers, TypeOK, ControlInv, [Next]_vars
    PROVE  ControlInv'
  <1> USE DEF ControlInv, Runs, Goto, Exits, Exited, Fail
  <1>1. CASE JobStart \/ Precheck \/ Reachability \/ VpnSetup \/ IpsecUp \/ PppOptions \/ L2tpUp
    <2>1. CASE JobStart \/ PppOptions
      BY <2>1 DEF JobStart, PppOptions, TypeOK, Working, JobSteps
    <2>2. CASE Precheck \/ Reachability
      BY <2>2 DEF Precheck, Reachability, TypeOK, Working, JobSteps
    <2>3. CASE VpnSetup
      BY <2>3 DEF VpnSetup, TypeOK, Working, JobSteps
    <2>4. CASE IpsecUp
      BY <2>4 DEF IpsecUp, TypeOK, Working, JobSteps
    <2>5. CASE L2tpUp
      BY <2>5 DEF L2tpUp, TypeOK, Working, JobSteps
    <2>6. QED
      BY <1>1, <2>1, <2>2, <2>3, <2>4, <2>5
  <1>2. CASE RouteGitlab \/ WaitGitlab \/ FetchRepo \/ InstallPackages \/ ProbeVpn \/ ProbeOff \/ CopyFiles
    <2>1. CASE RouteGitlab \/ WaitGitlab
      BY <2>1 DEF RouteGitlab, WaitGitlab, TypeOK, Working, JobSteps
    <2>2. CASE FetchRepo
      BY <2>2 DEF FetchRepo, TypeOK, Working, JobSteps
    <2>3. CASE InstallPackages
      BY <2>3 DEF InstallPackages, TypeOK, Working, JobSteps
    <2>4. CASE ProbeVpn \/ ProbeOff
      BY <2>4 DEF ProbeVpn, ProbeOff, TypeOK, Working, JobSteps
    <2>5. CASE CopyFiles
      BY <2>5 DEF CopyFiles, TypeOK, Working, JobSteps
    <2>6. QED
      BY <1>2, <2>1, <2>2, <2>3, <2>4, <2>5
  <1>3. CASE RestartInterface
    BY <1>3, RestartKeepsCalls DEF RestartInterface, TypeOK, Working, JobSteps
  <1>4. CASE FinishInstall \/ Success \/ TermTrap \/ JobDies
    <2>1. job'.at \in {"td_secrets", "exit"} /\ UNCHANGED <<unit, call>>
      BY <1>4 DEF FinishInstall, Success, TermTrap, JobDies, TypeOK
    <2>2. QED
      BY <2>1 DEF Working
  <1>5. CASE TearDown
    <2>1. job'.at \in TeardownSteps \cup {"success", "exit"} /\ UNCHANGED <<unit, call>>
      BY <1>5 DEF TearDown, NextTeardown, TypeOK
    <2>2. QED
      BY <2>1 DEF Working
  <1>6. CASE JobExits \/ HardKill
    BY <1>6 DEF JobExits, HardKill, UnitGone, NoJob, Working
  <1>7. ASSUME NEW c \in Callers, Start(c) \/ Abort(c) \/ CallStep(c) PROVE ControlInv'
    <2>1. CASE Start(c) \/ Abort(c) \/ StashCredentials(c) \/ Announce(c) \/ MarkAborted(c)
      BY <2>1 DEF Start, Abort, StashCredentials, Announce, MarkAborted, TypeOK
    <2>2. CASE Launch(c)
      BY <2>2 DEF Launch, NoJob, TypeOK
    <2>3. CASE StopUnit(c)
      BY <2>3 DEF StopUnit, TypeOK
    <2>4. CASE ClearUp(c)
      BY <2>4 DEF ClearUp, TypeOK
    <2>5. QED
      BY <1>7, <2>1, <2>2, <2>3, <2>4 DEF CallStep
  <1>8. CASE UNCHANGED vars
    BY <1>8 DEF vars
  <1>9. QED
    BY <1>1, <1>2, <1>3, <1>4, <1>5, <1>6, <1>7, <1>8 DEF Next, JobStep

\* While a run works, it owes whatever there is: only the daemon needs a proof
\* that the run knows its service.
LEMMA WorkClears ==
    ASSUME Cleared, unit = "active", UNCHANGED <<unit, call>>,
           job'.at \in Working \cup {"td_secrets"},
           "ipsec" \in present' =>
               \/ job'.knowsSvc \/ job'.at = "probe_off"
               \/ "ipsec" \in present /\ job.at # "probe_off" /\ job'.knowsSvc = job.knowsSvc
    PROVE  Cleared'
  <1> SUFFICES ASSUME NEW t \in Tunnel, t \in present' PROVE AbortClears(t)' \/ JobClears(t)'
    BY DEF Cleared
  <1>1. job'.at \in Working \cup Before(t)
    BY BeforeSteps
  <1>2. CASE t # "ipsec"
    BY <1>1, <1>2 DEF JobClears
  <1>3. CASE t = "ipsec"
    <2>1. CASE job'.knowsSvc \/ job'.at = "probe_off"
      BY <1>1, <2>1 DEF JobClears
    <2>2. CASE "ipsec" \in present /\ job.at # "probe_off" /\ job'.knowsSvc = job.knowsSvc
      <3>1. AbortClears(t) \/ JobClears(t)
        BY <1>3, <2>2 DEF Cleared
      <3>2. AbortClears(t) => AbortClears(t)'
        BY DEF AbortClears
      <3>3. JobClears(t) => JobClears(t)'
        BY <1>1, <1>3, <2>2 DEF JobClears
      <3>4. QED
        BY <3>1, <3>2, <3>3
    <2>3. QED
      BY <1>3, <2>1, <2>2
  <1>4. QED
    BY <1>2, <1>3

\* The steps of a run before its teardown begins, or fails into it.
WorkStep ==
    \/ JobStart \/ Precheck \/ Reachability \/ VpnSetup \/ IpsecUp \/ PppOptions \/ L2tpUp
    \/ RouteGitlab \/ WaitGitlab \/ FetchRepo \/ InstallPackages \/ ProbeVpn \/ ProbeOff
    \/ CopyFiles \/ FinishInstall

LEMMA WorkSteps ==
    ASSUME TypeOK, WorkStep, job.at \in Working => ~job.tornDown, job.at = "ipsec" => job.knowsSvc
    PROVE  /\ unit = "active" /\ UNCHANGED <<unit, call, faults>>
           /\ job'.at \in Working \cup {"td_secrets"}
           /\ "ipsec" \in present' =>
                  \/ job'.knowsSvc \/ job'.at = "probe_off"
                  \/ "ipsec" \in present /\ job.at # "probe_off" /\ job'.knowsSvc = job.knowsSvc
  <1> USE DEF Runs, Goto, Exits, Exited, Fail
  <1>1. CASE JobStart \/ Precheck \/ Reachability \/ VpnSetup \/ PppOptions \/ L2tpUp \/ RouteGitlab
    <2>1. unit = "active" /\ UNCHANGED <<unit, call, faults>> /\ job.at # "probe_off"
      BY <1>1 DEF JobStart, Precheck, Reachability, VpnSetup, PppOptions, L2tpUp, RouteGitlab
    <2>2. job'.at \in Working \cup {"td_secrets"}
      <3>1. job.at \in Working
        BY <1>1 DEF JobStart, Precheck, Reachability, VpnSetup, PppOptions, L2tpUp, RouteGitlab, Working,
                    JobSteps
      <3>2. Fail => job'.at = "td_secrets"
        BY <3>1 DEF TypeOK
      <3>3. \A step \in Working : Goto(step) => job'.at \in Working
        BY DEF TypeOK
      <3> HIDE DEF Fail, Goto, Exits
      <3>4. CASE JobStart \/ Precheck \/ PppOptions \/ L2tpUp \/ RouteGitlab
        BY <3>2, <3>3, <3>4 DEF JobStart, Precheck, PppOptions, L2tpUp, RouteGitlab, Working, JobSteps
      <3>5. CASE Reachability \/ VpnSetup
        BY <3>2, <3>3, <3>5 DEF Reachability, VpnSetup, Working, JobSteps, TypeOK
      <3>6. QED
        BY <1>1, <3>4, <3>5
    <2>3. "ipsec" \in present' => "ipsec" \in present
      BY <1>1 DEF JobStart, Precheck, Reachability, VpnSetup, PppOptions, L2tpUp, RouteGitlab
    <2>4. job'.knowsSvc \/ job'.knowsSvc = job.knowsSvc
      BY <1>1 DEF JobStart, Precheck, Reachability, VpnSetup, PppOptions, L2tpUp, RouteGitlab, TypeOK
    <2>5. QED
      BY <2>1, <2>2, <2>3, <2>4
  <1>2. CASE WaitGitlab \/ FetchRepo \/ InstallPackages \/ CopyFiles \/ FinishInstall
    <2>1. unit = "active" /\ UNCHANGED <<unit, call, faults>> /\ job.at # "probe_off"
      BY <1>2 DEF WaitGitlab, FetchRepo, InstallPackages, CopyFiles, FinishInstall
    <2>2. job'.at \in Working \cup {"td_secrets"} /\ job'.knowsSvc = job.knowsSvc
      BY <1>2 DEF WaitGitlab, FetchRepo, InstallPackages, CopyFiles, FinishInstall, TypeOK,
                  Working, JobSteps
    <2>3. "ipsec" \in present' => "ipsec" \in present
      BY <1>2 DEF WaitGitlab, FetchRepo, InstallPackages, CopyFiles, FinishInstall
    <2>4. QED
      BY <2>1, <2>2, <2>3
  <1>3. CASE IpsecUp
    BY <1>3 DEF IpsecUp, TypeOK, Working, JobSteps
  <1>4. CASE ProbeVpn \/ ProbeOff
    BY <1>4 DEF ProbeVpn, ProbeOff, TypeOK, Working, JobSteps
  <1>5. QED
    BY <1>1, <1>2, <1>3, <1>4 DEF WorkStep

LEMMA JobStepClears ==
    ASSUME "web" \notin Callers, TypeOK, ControlInv, Cleared, JobStep
    PROVE  Cleared'
  <1> USE DEF Runs, Goto, Exits, Exited, Fail
  <1>1. CASE WorkStep
    BY <1>1, WorkSteps, WorkClears DEF ControlInv
  <1>2. CASE RestartInterface
    <2>1. UNCHANGED <<unit, call, present>> /\ job'.at = "restarted" /\ job.at = "restart"
          /\ job'.knowsSvc = job.knowsSvc
      BY <1>2, RestartKeepsCalls DEF RestartInterface, TypeOK
    <2>2. \A t \in Tunnel : JobClears(t) => JobClears(t)'
      BY <2>1 DEF JobClears, Working, JobSteps
    <2>3. \A t \in Tunnel : AbortClears(t) => AbortClears(t)'
      BY <2>1 DEF AbortClears
    <2>4. QED
      BY <2>1, <2>2, <2>3 DEF Cleared
  <1>3. CASE TearDown
    <2> SUFFICES ASSUME NEW t \in Tunnel, t \in present' PROVE AbortClears(t)' \/ JobClears(t)'
      BY DEF Cleared
    <2>1. t \in present /\ t \notin TornDown(job.at, job.knowsSvc, TRUE) /\ UNCHANGED <<unit, call>>
          /\ job.at \in TeardownSteps
      BY <1>3 DEF TearDown
    <2>2. CASE AbortClears(t)
      BY <2>1, <2>2 DEF AbortClears
    <2>3. CASE JobClears(t)
      <3>1. job'.at = NextTeardown(job.at, job.then) /\ job'.knowsSvc = job.knowsSvc
        BY <1>3 DEF TearDown, TypeOK
      <3>2. t = "ipsec" => job.knowsSvc
        BY <2>1, <2>3 DEF JobClears
      <3>3. job.at \in Before(t)
        BY <2>1, <2>3 DEF JobClears, Working
      <3>4. NextTeardown(job.at, job.then) \in Before(t)
        BY <2>1, <3>2, <3>3 DEF Before, NextTeardown, TornDown, Tunnel
      <3>5. QED
        BY <2>1, <2>3, <3>1, <3>2, <3>4 DEF JobClears
    <2>4. QED
      BY <2>1, <2>2, <2>3 DEF Cleared
  <1>4. CASE Success
    <2>1. UNCHANGED <<call, present>> /\ job.at = "success"
      BY <1>4 DEF Success
    <2>2. \A t \in Tunnel : ~JobClears(t)
      BY <2>1, BeforeSteps DEF JobClears, Working
    <2>3. QED
      BY <2>1, <2>2 DEF Cleared, AbortClears
  <1>5. CASE TermTrap
    <2>1. UNCHANGED <<call, present>> /\ unit = "deactivating"
      BY <1>5 DEF TermTrap
    <2>2. QED
      BY <2>1 DEF Cleared, AbortClears, JobClears
  <1>6. CASE JobExits
    <2>1. UNCHANGED present /\ call' = [c \in Callers |-> IF call[c] = "stopping" THEN "mark" ELSE call[c]]
      BY <1>6 DEF JobExits, UnitGone
    <2>2. ASSUME NEW t \in Tunnel, AbortClears(t) PROVE AbortClears(t)'
      BY <2>1, <2>2 DEF AbortClears
    <2>3. ASSUME NEW t \in Tunnel PROVE ~JobClears(t)
      BY <1>6, BeforeSteps DEF JobExits, JobClears, Working
    <2>4. QED
      BY <2>1, <2>2, <2>3 DEF Cleared
  <1>7. QED
    BY <1>1, <1>2, <1>3, <1>4, <1>5, <1>6 DEF JobStep, WorkStep

LEMMA CallClears ==
    ASSUME TypeOK, ControlInv, Cleared, NEW c \in Callers, Start(c) \/ Abort(c) \/ CallStep(c)
    PROVE  Cleared'
  <1> SUFFICES ASSUME NEW t \in Tunnel, t \in present' PROVE AbortClears(t)' \/ JobClears(t)'
    BY DEF Cleared
  <1>1. CASE Start(c) \/ Abort(c) \/ StashCredentials(c) \/ Announce(c) \/ MarkAborted(c)
    <2>1. t \in present /\ UNCHANGED <<unit, job>>
      BY <1>1 DEF Start, Abort, StashCredentials, Announce, MarkAborted, Tunnel
    <2>2. JobClears(t) => JobClears(t)'
      BY <2>1 DEF JobClears
    <2>3. AbortClears(t) => AbortClears(t)'
      BY <1>1, BeforeSteps DEF Start, Abort, StashCredentials, Announce, MarkAborted, AbortClears, TypeOK
    <2>4. QED
      BY <2>1, <2>2, <2>3 DEF Cleared
  <1>2. CASE Launch(c)
    <2>1. t \in present /\ call[c] = "launch" /\ call' = [call EXCEPT ![c] = "idle"]
      BY <1>2 DEF Launch
    <2>2. AbortClears(t) => AbortClears(t)'
      BY <2>1, BeforeSteps DEF AbortClears, TypeOK
    <2>3. JobClears(t) => JobClears(t)'
      BY <1>2 DEF Launch, JobClears
    <2>4. QED
      BY <2>1, <2>2, <2>3 DEF Cleared
  <1>3. CASE StopUnit(c)
    <2>1. t \in present /\ call' = [call EXCEPT ![c] = IF unit = "inactive" THEN "mark" ELSE "stopping"]
      BY <1>3 DEF StopUnit
    <2>2. AbortClears(t)'
      BY <2>1 DEF AbortClears, TypeOK
    <2>3. QED
      BY <2>2
  <1>4. CASE ClearUp(c)
    <2>1. /\ t \in present /\ t \notin TornDown(call[c], TRUE, FALSE) /\ call[c] \in TeardownSteps
          /\ call' = [call EXCEPT ![c] = NextTeardown(@, "idle")] /\ UNCHANGED <<unit, job>>
      BY <1>4 DEF ClearUp
    <2>2. call[c] \in Before(t) => NextTeardown(call[c], "idle") \in Before(t)
      BY <2>1 DEF Before, NextTeardown, TornDown, Tunnel
    <2>3. AbortClears(t) => AbortClears(t)'
      BY <2>1, <2>2 DEF AbortClears, TypeOK
    <2>4. JobClears(t) => JobClears(t)'
      BY <2>1 DEF JobClears
    <2>5. QED
      BY <2>1, <2>3, <2>4 DEF Cleared
  <1>5. QED
    BY <1>1, <1>2, <1>3, <1>4 DEF CallStep

\* Whatever the overlap of starts, aborts and the update itself, and whichever
\* command fails, the tunnel is down when all is over, for every number of
\* shells; the interface, whose calls the update kills, is left to the runs.
THEOREM TunnelTheorem ==
    ASSUME "web" \notin Callers
    PROVE  Spec => []TunnelDown
  <1>1. Init => TunnelInv
    BY DEF Init, TunnelInv, ControlInv, Cleared, NoJob, Working
  <1>2. TypeOK /\ TunnelInv /\ [Next]_vars => TunnelInv'
    <2> SUFFICES ASSUME TypeOK, TunnelInv, [Next]_vars PROVE TunnelInv'
      OBVIOUS
    <2>1. ControlInv'
      BY ControlStep DEF TunnelInv
    <2>2. ASSUME faults'["kill"] = 0 PROVE Cleared'
      <3>1. CASE JobStep
        <4>1. UNCHANGED faults
          BY <3>1 DEF JobStep, JobStart, Precheck, WaitGitlab, Success, TermTrap, Reachability, VpnSetup,
                      IpsecUp, PppOptions, L2tpUp, RouteGitlab, FetchRepo, InstallPackages, ProbeVpn,
                      ProbeOff, CopyFiles, RestartInterface, FinishInstall, TearDown, JobExits
        <4>2. QED
          BY <2>2, <3>1, <4>1, JobStepClears DEF TunnelInv
      <3>2. CASE JobDies
        <4>1. faults["kill"] = 0
          BY <2>2, <3>2 DEF JobDies, Fault, TypeOK, FaultKinds
        <4>2. unit = "active" /\ UNCHANGED <<unit, call>> /\ job'.at = "td_secrets"
              /\ job.at # "probe_off" /\ (job'.knowsSvc \/ job'.knowsSvc = job.knowsSvc)
              /\ ("ipsec" \in present' => "ipsec" \in present)
          BY <3>2 DEF JobDies, Runs, Begun, Exited, TunnelInv, ControlInv, Working, JobSteps, TypeOK
        <4>3. QED
          BY <4>1, <4>2, WorkClears DEF TunnelInv
      <3>3. CASE HardKill
        BY <2>2, <3>3 DEF HardKill, Fault, TypeOK, FaultKinds
      <3>4. ASSUME NEW c \in Callers, Start(c) \/ Abort(c) \/ CallStep(c) PROVE Cleared'
        <4>1. faults["kill"] = 0
          BY <2>2, <3>4 DEF Start, Abort, CallStep, StashCredentials, Announce, Launch, StopUnit,
                            MarkAborted, ClearUp, Fault, TypeOK, FaultKinds
        <4>2. QED
          BY <3>4, <4>1, CallClears DEF TunnelInv
      <3>5. CASE UNCHANGED vars
        BY <2>2, <3>5 DEF vars, TunnelInv, Cleared, AbortClears, JobClears
      <3>6. QED
        BY <3>1, <3>2, <3>3, <3>4, <3>5 DEF Next
    <2>3. QED
      BY <2>1, <2>2 DEF TunnelInv
  <1>3. TypeOK /\ TunnelInv => TunnelDown
    <2> SUFFICES ASSUME TypeOK, TunnelInv, Quiet, faults["kill"] = 0, NEW t \in present \cap Tunnel
                 PROVE  FALSE
      BY DEF TunnelDown
    <2>1. AbortClears(t) \/ JobClears(t)
      BY DEF TunnelInv, Cleared
    <2>2. QED
      BY <2>1, BeforeSteps DEF AbortClears, JobClears, Quiet
  <1>4. QED
    BY <1>1, <1>2, <1>3, TypeCorrect, PTL DEF Spec

-----------------------------------------------------------------------------
(***************************************************************************)
(* OutcomeMeansClean, for a single caller.  The restart of the interface   *)
(* may kill its abort, so what is there can no longer be owed by the calls *)
(* alone: an untrapped TERM owes a whole teardown as long as none has      *)
(* begun.  Credentials that a start has stashed next to a stopping job are *)
(* owed by nobody, but then the status says "running" again.               *)
(***************************************************************************)
AloneControl(c) ==
    /\ unit = "inactive" <=> job.at = "none"
    /\ unit = "active" => call[c] \in {"idle", "stop"}
    /\ unit = "deactivating" => job.trapped \/ job.at = "restarted" \/ call[c] = "stopping"
    /\ job.at \in Working => ~job.tornDown /\ ~job.trapped
    /\ job.at = "ipsec" => job.knowsSvc

AbortOwes(c, t) == call[c] \in {"stopping", "mark"} \cup Before(t)

JobOwes(t) ==
    /\ job.at \in Working \cup Before(t)
    /\ unit = "active" \/ job.trapped \/ ~job.tornDown
    /\ unit # "active" => job.at # "boot"
    /\ t = "ipsec" => job.knowsSvc \/ (unit = "active" /\ job.at = "probe_off")

Stashed(c, t) == t = "creds" /\ unit # "active" /\ (status = "running" \/ call[c] = "announce")

Owed(c) ==
    /\ \A t \in present \cap (Secrets \cup Tunnel) : AbortOwes(c, t) \/ JobOwes(t) \/ Stashed(c, t)
    /\ job.at \in {"restart", "restarted"} /\ "ipsec" \in present => job.knowsSvc

AloneInv(c) == AloneControl(c) /\ (faults["kill"] = 0 => Owed(c))

LEMMA AloneControlStep ==
    ASSUME NEW c, Callers = {c}, TypeOK, AloneControl(c), [Next]_vars
    PROVE  AloneControl(c)'
  <1> USE DEF AloneControl
  <1>1. CASE WorkStep
    <2>1. /\ unit = "active" /\ UNCHANGED <<unit, call>>
          /\ job'.at \in Working \cup {"td_secrets"}
      BY <1>1, WorkSteps
    <2>2. job'.at \in Working => ~job'.tornDown /\ ~job'.trapped
      <3>1. ~job.tornDown /\ ~job.trapped
        BY <1>1 DEF WorkStep, JobStart, Precheck, Reachability, VpnSetup, IpsecUp, PppOptions, L2tpUp,
                    RouteGitlab, WaitGitlab, FetchRepo, InstallPackages, ProbeVpn, ProbeOff, CopyFiles,
                    FinishInstall, Runs, Working, JobSteps
      <3>2. \A step : Goto(step) => ~job'.tornDown /\ ~job'.trapped
        BY <3>1 DEF Goto, TypeOK
      <3>3. Fail => job'.at \notin Working
        BY DEF Fail, Exits, Exited, TypeOK, Working
      <3>4. CASE Reachability \/ VpnSetup \/ FinishInstall
        BY <3>1, <3>2, <3>3, <3>4 DEF Reachability, VpnSetup, FinishInstall, TypeOK, Working
      <3>5. QED
        BY <1>1, <3>2, <3>3, <3>4
           DEF WorkStep, JobStart, Precheck, IpsecUp, PppOptions, L2tpUp, RouteGitlab, WaitGitlab,
               FetchRepo, InstallPackages, ProbeVpn, ProbeOff, CopyFiles
    <2>3. job'.at = "ipsec" => job'.knowsSvc
      <3>1. Fail => job'.at # "ipsec"
        BY DEF Fail, Exits, Exited, TypeOK
      <3>2. \A step : step # "ipsec" /\ Goto(step) => job'.at # "ipsec"
        BY DEF Goto, TypeOK
      <3>3. CASE Reachability \/ VpnSetup \/ FinishInstall
        BY <3>1, <3>2, <3>3 DEF Reachability, VpnSetup, FinishInstall, TypeOK
      <3>4. QED
        BY <1>1, <3>1, <3>2, <3>3
           DEF WorkStep, JobStart, Precheck, IpsecUp, PppOptions, L2tpUp, RouteGitlab, WaitGitlab,
               FetchRepo, InstallPackages, ProbeVpn, ProbeOff, CopyFiles
    <2>4. QED
      BY <2>1, <2>2, <2>3 DEF Working
  <1>2. CASE RestartInterface
    <2>1. /\ job.at = "restart" /\ job' = [job EXCEPT !.at = "restarted"]
          /\ UNCHANGED unit /\ call'[c] \in {call[c], "idle"}
      BY <1>2 DEF RestartInterface, Goto, TypeOK
    <2>2. QED
      BY <2>1 DEF TypeOK, Working, JobSteps
  <1>3. CASE TearDown \/ Success \/ TermTrap \/ JobDies
    <2>1. /\ UNCHANGED <<unit, call>> /\ unit # "inactive"
          /\ job'.at \in TeardownSteps \cup {"success", "exit"}
          /\ job'.trapped \/ job'.trapped = job.trapped
      BY <1>3 DEF TearDown, Success, TermTrap, JobDies, Runs, Goto, Exits, Exited, NextTeardown, TypeOK, Working
    <2>2. unit = "deactivating" => job'.trapped
      BY <1>3 DEF TearDown, Success, TermTrap, JobDies, Runs, Goto, TypeOK
    <2>3. QED
      BY <2>1, <2>2 DEF Working
  <1>4. CASE JobExits \/ HardKill
    BY <1>4 DEF JobExits, HardKill, UnitGone, NoJob, Working
  <1>5. CASE Start(c) \/ Abort(c) \/ StashCredentials(c) \/ Announce(c) \/ MarkAborted(c) \/ ClearUp(c)
    <2>1. UNCHANGED <<unit, job>>
      BY <1>5 DEF Start, Abort, StashCredentials, Announce, MarkAborted, ClearUp
    <2>2. call'[c] \in {"idle", "stop"} \/ unit # "active"
      BY <1>5 DEF Start, Abort, StashCredentials, Announce, MarkAborted, ClearUp, TypeOK
    <2>3. call[c] # "stopping"
      BY <1>5 DEF Start, Abort, StashCredentials, Announce, MarkAborted, ClearUp
    <2>4. QED
      BY <2>1, <2>2, <2>3
  <1>6. CASE Launch(c)
    BY <1>6 DEF Launch, NoJob, TypeOK, Working
  <1>7. CASE StopUnit(c)
    BY <1>7 DEF StopUnit, TypeOK
  <1>8. CASE UNCHANGED vars
    BY <1>8 DEF vars
  <1>9. QED
    BY <1>1, <1>2, <1>3, <1>4, <1>5, <1>6, <1>7, <1>8 DEF Next, JobStep, WorkStep, CallStep

\* While a run works, it owes whatever there is.
LEMMA WorkOwes ==
    ASSUME NEW c, Callers = {c}, TypeOK, AloneControl(c), Owed(c), WorkStep \/ JobDies
    PROVE  Owed(c)'
  <1>1. /\ unit = "active" /\ UNCHANGED <<unit, call>>
        /\ job'.at \in Working \cup {"td_secrets"}
        /\ "ipsec" \in present' =>
               \/ job'.knowsSvc \/ job'.at = "probe_off"
               \/ "ipsec" \in present /\ job.at # "probe_off" /\ job'.knowsSvc = job.knowsSvc
    <2>1. CASE WorkStep
      BY <2>1, WorkSteps DEF AloneControl
    <2>2. CASE JobDies
      BY <2>2 DEF JobDies, Runs, Begun, Exited, AloneControl, Working, JobSteps, TypeOK
    <2>3. QED
      BY <2>1, <2>2
  <1>2. "ipsec" \in present => job.knowsSvc \/ job.at = "probe_off"
    <2>1. "ipsec" \in Tunnel /\ ~AbortOwes(c, "ipsec") /\ ~Stashed(c, "ipsec")
      BY <1>1, BeforeSteps DEF AloneControl, AbortOwes, Stashed, Tunnel
    <2>2. QED
      BY <2>1 DEF Owed, JobOwes
  <1>3. "ipsec" \in present' => job'.knowsSvc \/ job'.at = "probe_off"
    BY <1>1, <1>2
  <1>4. ASSUME NEW t \in present' \cap (Secrets \cup Tunnel) PROVE JobOwes(t)'
    <2>1. job'.at \in Working \cup Before(t)
      BY <1>1, BeforeSteps
    <2>2. QED
      BY <1>1, <1>3, <2>1 DEF JobOwes
  <1>5. QED
    BY <1>3, <1>4 DEF Owed

LEMMA JobOwesStep ==
    ASSUME NEW c, Callers = {c}, TypeOK, AloneControl(c), Owed(c),
           RestartInterface \/ TearDown \/ Success \/ TermTrap \/ JobExits
    PROVE  Owed(c)'
  <1> DEFINE Dirty == Secrets \cup Tunnel
  <1>1. CASE RestartInterface
    <2>1. /\ job.at = "restart" /\ job' = [job EXCEPT !.at = "restarted"]
          /\ UNCHANGED <<unit, present, status>> /\ unit # "inactive"
      BY <1>1 DEF RestartInterface, Goto
    <2>2. ~job.tornDown /\ job'.at = "restarted" /\ ~job'.tornDown /\ job'.knowsSvc = job.knowsSvc
      BY <2>1 DEF AloneControl, Working, JobSteps, TypeOK
    <2>3. ASSUME NEW t \in present' \cap Dirty PROVE JobOwes(t)'
      BY <2>1, <2>2, <2>3 DEF JobOwes, Owed, Working, JobSteps
    <2>4. QED
      BY <2>1, <2>2, <2>3 DEF Owed
  <1>2. CASE TearDown
    <2>1. /\ job.at \in TeardownSteps /\ UNCHANGED <<unit, call, status>>
          /\ unit = "active" \/ job.trapped
          /\ job'.at = NextTeardown(job.at, job.then) /\ job'.knowsSvc = job.knowsSvc
          /\ job'.trapped = job.trapped /\ job'.at \notin {"boot", "restart", "restarted"}
      BY <1>2 DEF TearDown, Goto, TypeOK, NextTeardown
    <2>2. ASSUME NEW t \in present' \cap Dirty, JobOwes(t) PROVE JobOwes(t)'
      <3>1. t \notin TornDown(job.at, job.knowsSvc, TRUE) /\ job.at \in Before(t)
        BY <1>2, <2>1, <2>2 DEF TearDown, JobOwes, Working
      <3>2. t = "ipsec" => job.knowsSvc
        BY <2>1, <2>2 DEF JobOwes
      <3>3. NextTeardown(job.at, job.then) \in Before(t)
        BY <2>1, <3>1, <3>2 DEF Before, NextTeardown, TornDown, Tunnel, Secrets
      <3>4. QED
        BY <2>1, <3>2, <3>3 DEF JobOwes
    <2>3. \A t : (AbortOwes(c, t) => AbortOwes(c, t)') /\ (Stashed(c, t) => Stashed(c, t)')
      BY <2>1 DEF AbortOwes, Stashed
    <2>4. present' \subseteq present
      BY <1>2 DEF TearDown
    <2>5. QED
      BY <2>1, <2>2, <2>3, <2>4 DEF Owed
  <1>3. CASE Success
    <2>1. unit = "active" /\ job.at = "success" /\ UNCHANGED <<present, call, unit>> /\ job'.at = "exit"
      BY <1>3 DEF Success, Runs, Goto, TypeOK
    <2>2. \A t \in Dirty : ~AbortOwes(c, t) /\ ~JobOwes(t) /\ ~Stashed(c, t)
      BY <2>1, BeforeSteps DEF AloneControl, AbortOwes, JobOwes, Stashed, Working
    <2>3. QED
      BY <2>1, <2>2 DEF Owed
  <1>4. CASE TermTrap
    <2>1. unit = "deactivating" /\ UNCHANGED <<present, call, unit>> /\ ~job.trapped
          /\ job'.at = (IF job.tornDown THEN "exit" ELSE "td_secrets") /\ job'.trapped
          /\ job'.knowsSvc = job.knowsSvc
      BY <1>4 DEF TermTrap, TypeOK
    <2>2. CASE call[c] = "stopping"
      BY <2>1, <2>2 DEF Owed, AbortOwes
    <2>3. CASE job.at = "restarted"
      <3>1. job'.at = "td_secrets"
        BY <2>1, <2>3 DEF AloneControl, Working, JobSteps
      <3>2. ASSUME NEW t \in present' \cap Dirty PROVE JobOwes(t)'
        BY <2>1, <2>3, <3>1, BeforeSteps DEF JobOwes, Owed
      <3>3. QED
        BY <3>1, <3>2 DEF Owed
    <2>4. QED
      BY <2>1, <2>2, <2>3 DEF AloneControl
  <1>5. CASE JobExits
    <2>1. /\ unit' = "inactive" /\ job'.at = "none" /\ UNCHANGED <<present, status>>
          /\ call'[c] = IF call[c] = "stopping" THEN "mark" ELSE call[c]
      BY <1>5 DEF JobExits, UnitGone, NoJob
    <2>2. CASE job.at = "exit"
      <3>1. \A t \in Dirty : ~JobOwes(t)
        BY <2>2, BeforeSteps DEF JobOwes, Working
      <3>2. \A t : (AbortOwes(c, t) => AbortOwes(c, t)') /\ (Stashed(c, t) => Stashed(c, t)')
        BY <2>1 DEF AbortOwes, Stashed
      <3>3. QED
        BY <2>1, <3>1, <3>2 DEF Owed
    <2>3. CASE job.at = "boot" /\ unit = "deactivating"
      <3>1. call'[c] = "mark"
        BY <2>1, <2>3 DEF AloneControl, Working, JobSteps
      <3>2. QED
        BY <2>1, <3>1 DEF Owed, AbortOwes
    <2>4. QED
      BY <1>5, <2>2, <2>3 DEF JobExits
  <1>6. QED
    BY <1>1, <1>2, <1>3, <1>4, <1>5

LEMMA CallOwes ==
    ASSUME NEW c, Callers = {c}, TypeOK, AloneControl(c), Owed(c), Start(c) \/ Abort(c) \/ CallStep(c)
    PROVE  Owed(c)'
  <1> DEFINE Dirty == Secrets \cup Tunnel
  <1> USE DEF Owed
  <1>1. CASE Start(c)
    <2>1. /\ UNCHANGED <<unit, job, present, status>> /\ call[c] = "idle" /\ call'[c] = "stash"
      BY <1>1 DEF Start, TypeOK
    <2>2. \A t \in Dirty : ~AbortOwes(c, t) /\ (JobOwes(t) => JobOwes(t)')
                           /\ (Stashed(c, t) => Stashed(c, t)')
      BY <2>1, BeforeSteps DEF AbortOwes, JobOwes, Stashed
    <2>3. QED
      BY <2>1, <2>2
  <1>2. CASE StashCredentials(c)
    <2>1. /\ UNCHANGED <<unit, job, status>> /\ call[c] = "stash" /\ call'[c] = "announce"
          /\ present' = present \cup {"creds"} /\ unit # "active"
      BY <1>2 DEF StashCredentials, TypeOK, AloneControl
    <2>2. \A t \in Dirty : ~AbortOwes(c, t) /\ (JobOwes(t) => JobOwes(t)')
                           /\ (Stashed(c, t) => Stashed(c, t)')
      BY <2>1, BeforeSteps DEF AbortOwes, JobOwes, Stashed
    <2>3. Stashed(c, "creds")'
      BY <2>1 DEF Stashed
    <2>4. QED
      BY <2>1, <2>2, <2>3
  <1>3. CASE Announce(c)
    <2>1. /\ UNCHANGED <<unit, job, present>> /\ call[c] = "announce" /\ status' = "running"
      BY <1>3 DEF Announce
    <2>2. \A t \in Dirty : ~AbortOwes(c, t) /\ (JobOwes(t) => JobOwes(t)')
                           /\ (Stashed(c, t) => Stashed(c, t)')
      BY <2>1, BeforeSteps DEF AbortOwes, JobOwes, Stashed
    <2>3. QED
      BY <2>1, <2>2
  <1>4. CASE Launch(c)
    <2>1. /\ UNCHANGED <<present, status>> /\ call[c] = "launch"
      BY <1>4 DEF Launch
    <2>2. \A t \in Dirty : ~AbortOwes(c, t)
      BY <2>1, BeforeSteps DEF AbortOwes
    <2>3. CASE UNCHANGED <<unit, job>>
      BY <2>1, <2>2, <2>3 DEF JobOwes, Stashed
    <2>4. CASE unit = "inactive" /\ unit' = "active" /\ job' = [NoJob EXCEPT !.at = "boot"]
      <3>1. \A t \in Dirty : ~JobOwes(t)
        BY <2>4, BeforeSteps DEF JobOwes, AloneControl, Working
      <3>2. \A t \in present \cap Dirty : t = "creds"
        BY <2>2, <3>1 DEF Stashed
      <3>3. JobOwes("creds")'
        BY <2>4 DEF JobOwes, NoJob, Working, JobSteps
      <3>4. job'.at = "boot"
        BY <2>4 DEF NoJob
      <3>5. QED
        BY <2>1, <3>2, <3>3, <3>4
    <2>5. QED
      BY <1>4, <2>3, <2>4 DEF Launch
  <1>5. CASE Abort(c)
    <2>1. /\ UNCHANGED <<unit, job, present, status>> /\ call[c] = "idle"
          /\ call'[c] = IF unit = "active" THEN "stop" ELSE "td_secrets"
      BY <1>5 DEF Abort, TypeOK
    <2>2. \A t \in Dirty : ~AbortOwes(c, t) /\ (JobOwes(t) => JobOwes(t)')
                           /\ (Stashed(c, t) => Stashed(c, t)')
      BY <2>1, BeforeSteps DEF AbortOwes, JobOwes, Stashed
    <2>3. QED
      BY <2>1, <2>2
  <1>6. CASE StopUnit(c)
    <2>1. /\ UNCHANGED <<job, present>>
          /\ call'[c] \in {"mark", "stopping"}
      BY <1>6 DEF StopUnit, TypeOK
    <2>2. QED
      BY <2>1 DEF AbortOwes
  <1>7. CASE MarkAborted(c)
    <2>1. UNCHANGED <<job, present>> /\ call'[c] = "td_secrets"
      BY <1>7 DEF MarkAborted, TypeOK
    <2>2. QED
      BY <2>1, BeforeSteps DEF AbortOwes
  <1>8. CASE ClearUp(c)
    <2>1. /\ UNCHANGED <<unit, job, status>> /\ call[c] \in TeardownSteps
          /\ present' = present \ TornDown(call[c], TRUE, FALSE)
          /\ call'[c] = NextTeardown(call[c], "idle")
      BY <1>8 DEF ClearUp, TypeOK
    <2>2. \A t \in Dirty : (JobOwes(t) => JobOwes(t)') /\ (Stashed(c, t) => Stashed(c, t)')
      BY <2>1 DEF JobOwes, Stashed
    <2>3. ASSUME NEW t \in present' \cap Dirty, AbortOwes(c, t) PROVE AbortOwes(c, t)'
      BY <2>1, <2>3 DEF AbortOwes, Before, NextTeardown, TornDown, Tunnel, Secrets
    <2>4. QED
      BY <2>1, <2>2, <2>3
  <1>9. QED
    BY <1>1, <1>2, <1>3, <1>4, <1>5, <1>6, <1>7, <1>8 DEF CallStep

\* A single caller, the interface included: once an outcome is shown and
\* nothing runs any more, neither credentials nor a piece of the tunnel is left,
\* whatever failed and also when the update killed the abort that waited for it.
THEOREM CleanTheorem ==
    ASSUME NEW c, Callers = {c}
    PROVE  Spec => []OutcomeMeansClean
  <1>1. Init => AloneInv(c)
    BY DEF Init, AloneInv, AloneControl, Owed, NoJob, Working
  <1>2. TypeOK /\ AloneInv(c) /\ [Next]_vars => AloneInv(c)'
    <2> SUFFICES ASSUME TypeOK, AloneInv(c), [Next]_vars PROVE AloneInv(c)'
      OBVIOUS
    <2>1. AloneControl(c)'
      BY AloneControlStep DEF AloneInv
    <2>2. ASSUME faults'["kill"] = 0 PROVE Owed(c)'
      <3>1. faults["kill"] = 0
        <4>1. faults' = faults \/ (\E kind \in FaultKinds : Fault(kind))
          BY DEF Next, JobStep, JobStart, Precheck, WaitGitlab, Success, TermTrap, Reachability, VpnSetup,
                 IpsecUp, PppOptions, L2tpUp, RouteGitlab, FetchRepo, InstallPackages, ProbeVpn,
                 ProbeOff, CopyFiles, RestartInterface, FinishInstall, TearDown, JobExits, JobDies,
                 HardKill, Start, Abort, CallStep, StashCredentials, Announce, Launch, StopUnit,
                 MarkAborted, ClearUp, vars, FaultKinds
        <4>2. QED
          BY <2>2, <4>1 DEF Fault, TypeOK, FaultKinds
      <3>2. CASE HardKill
        BY <2>2, <3>2 DEF HardKill, Fault, TypeOK, FaultKinds
      <3>3. CASE UNCHANGED vars
        BY <3>1, <3>3 DEF vars, AloneInv, Owed, AbortOwes, JobOwes, Stashed
      <3>4. QED
        BY <3>1, <3>2, <3>3, WorkOwes, JobOwesStep, CallOwes DEF AloneInv, Next, JobStep, WorkStep
    <2>3. QED
      BY <2>1, <2>2 DEF AloneInv
  <1>3. TypeOK /\ AloneInv(c) => OutcomeMeansClean
    <2> SUFFICES ASSUME AloneInv(c), Quiet, status \in {"success", "failed"}, faults["kill"] = 0,
                        NEW t \in present \cap (Secrets \cup Tunnel)
                 PROVE  FALSE
      BY DEF OutcomeMeansClean
    <2>1. ~AbortOwes(c, t) /\ ~JobOwes(t) /\ ~Stashed(c, t)
      BY BeforeSteps DEF AbortOwes, JobOwes, Stashed, Quiet, AloneInv, AloneControl, Working
    <2>2. QED
      BY <2>1 DEF AloneInv, Owed
  <1>4. QED
    BY <1>1, <1>2, <1>3, TypeCorrect, PTL DEF Spec

-----------------------------------------------------------------------------
(* The update dialog: a caller of SelfUpdate like any other, so that what  *)
(* is proved above holds under it.                                         *)

LEMMA DialogStep ==
    ASSUME "web" \in Callers, [DialogNext]_all
    PROVE  [Next]_vars
  <1>1. CASE SystemStep
    BY <1>1 DEF SystemStep, Next
  <1>2. CASE ClickStart \/ ClickAbort
    BY <1>2 DEF ClickStart, ClickAbort, Next, system
  <1>3. CASE UNCHANGED vars
    BY <1>3
  <1>4. QED
    BY <1>1, <1>2, <1>3
       DEF DialogNext, OpenModal, CloseModal, PostAnswer, OpenAnswer, PollAnswer, Poll, PollFails, Reload,
           all, system

\* What the dialog and the job do together is what a caller may do: the dialog
\* never starts or aborts but through recovery-update.
THEOREM DialogIsCaller ==
    ASSUME "web" \in Callers
    PROVE  DialogSpec => Spec
  <1>1. DialogInit => Init
    BY DEF DialogInit
  <1>2. [DialogNext]_all => [Next]_vars
    BY DialogStep
  <1>3. QED
    BY <1>1, <1>2, PTL DEF DialogSpec, Spec

\* Under the dialog, when nobody else calls, an outcome is a clean one.
THEOREM DialogCleanTheorem ==
    ASSUME Callers = {"web"}
    PROVE  DialogSpec => []OutcomeMeansClean
  <1>1. "web" \in Callers
    OBVIOUS
  <1>2. Spec => []OutcomeMeansClean
    BY CleanTheorem
  <1>3. QED
    BY <1>1, <1>2, DialogIsCaller, PTL

-----------------------------------------------------------------------------
(* Types.                                                                  *)

LEMMA DialogTyped ==
    ASSUME TypeOK, DialogTypeOK, [DialogNext]_all
    PROVE  DialogTypeOK'
  <1> USE DEF DialogTypeOK, States
  <1>1. status \in States
    BY DEF TypeOK
  <1>2. CASE SystemStep
    BY <1>2 DEF SystemStep
  <1> DEFINE Fresh(a) == [a EXCEPT !.fresh = a.state \notin Outcomes]
  <1>3. \A a \in PollAnswers : Fresh(a) \in PollAnswers
    BY DEF PollAnswers
  <1>4. [state |-> status, fresh |-> TRUE] \in PollAnswers
    BY <1>1 DEF PollAnswers
  <1> HIDE DEF Fresh
  <1>5. CASE OpenModal \/ CloseModal \/ ClickAbort \/ PostAnswer
    <2>1. CASE OpenModal
      BY <1>1, <2>1 DEF OpenModal
    <2>2. CASE CloseModal \/ ClickAbort
      BY <2>2 DEF CloseModal, ClickAbort
    <2>3. CASE PostAnswer
      BY <2>3 DEF PostAnswer
    <2>4. QED
      BY <1>5, <2>1, <2>2, <2>3
  <1>6. CASE ClickStart
    <2>1. polls' \subseteq PollAnswers /\ current' \subseteq {"text", "reload"}
      BY <1>6, <1>3 DEF ClickStart, Fresh
    <2>2. QED
      BY <1>6, <2>1 DEF ClickStart
  <1>7. ASSUME NEW s \in States, OpenAnswer(s) PROVE DialogTypeOK'
    BY <1>7 DEF OpenAnswer
  <1>8. ASSUME NEW a \in PollAnswers, PollAnswer(a) PROVE DialogTypeOK'
    <2>1. polls' \subseteq PollAnswers
      BY <1>8 DEF PollAnswer
    <2>2. current' \subseteq {"text", "reload"}
      BY <1>8 DEF PollAnswer, Tells
    <2>3. text' \in {"open", "ok", "err"}
      BY <1>8 DEF PollAnswer, Shows
    <2>4. wasRunning' \in BOOLEAN /\ polling' \in BOOLEAN /\ reloads' \in BOOLEAN
      BY <1>8 DEF PollAnswer
    <2>5. QED
      BY <1>8, <2>1, <2>2, <2>3, <2>4 DEF PollAnswer
  <1>9. CASE Poll \/ PollFails \/ Reload
    BY <1>4, <1>9 DEF Poll, PollFails, Reload
  <1>10. CASE UNCHANGED all
    BY <1>10 DEF all, dialog
  <1>11. QED
    BY <1>2, <1>5, <1>6, <1>7, <1>8, <1>9, <1>10 DEF DialogNext

\* The state of the dialog keeps its type under every order of clicks, answers
\* and restarts of the interface.
THEOREM DialogTypeCorrect ==
    ASSUME "web" \in Callers
    PROVE  DialogSpec => []DialogTypeOK
  <1>1. DialogInit => DialogTypeOK
    BY DEF DialogInit, Page, DialogTypeOK
  <1>2. TypeOK /\ DialogTypeOK /\ [DialogNext]_all => DialogTypeOK'
    BY DialogTyped
  <1>3. QED
    BY <1>1, <1>2, DialogIsCaller, TypeCorrect, PTL DEF DialogSpec

-----------------------------------------------------------------------------
(* Reloading.                                                              *)

Launching == {"stash", "announce", "launch"}

\* A success is only told while no run is under way: a start waits until the unit
\* is not active, and announces itself before it launches the next.
StatusInv ==
    /\ call["web"] \in Launching => unit # "active"
    /\ status = "success" => job.at \in {"none", "exit"} /\ call["web"] # "launch"

LEMMA StatusStep ==
    ASSUME "web" \in Callers, TypeOK, StatusInv, [DialogNext]_all
    PROVE  StatusInv'
  <1> USE DEF StatusInv, Launching, TypeOK, Runs, Goto
  <1>1. CASE JobStep /\ SystemStep
    <2>1. unit' = "active" => unit = "active" /\ (call["web"]' = call["web"] \/ call["web"]' = "idle")
      BY <1>1 DEF JobStep, JobStart, Precheck, WaitGitlab, Success, TermTrap, Reachability, VpnSetup,
                  IpsecUp, PppOptions, L2tpUp, RouteGitlab, FetchRepo, InstallPackages, ProbeVpn, ProbeOff,
                  CopyFiles, RestartInterface, FinishInstall, TearDown, JobExits, UnitGone
    <2>2. status' = "success" => job'.at \in {"none", "exit"} /\ call["web"]' # "launch"
      <3>1. CASE Success
        BY <3>1 DEF Success
      <3>2. CASE JobExits
        BY <3>2 DEF JobExits, UnitGone, NoJob
      <3>3. CASE TearDown \/ TermTrap \/ RestartInterface
        BY <3>3 DEF TearDown, TermTrap, RestartInterface
      <3>4. CASE JobStart \/ Precheck \/ Reachability \/ VpnSetup \/ IpsecUp \/ PppOptions \/ L2tpUp
        BY <3>4 DEF JobStart, Precheck, Reachability, VpnSetup, IpsecUp, PppOptions, L2tpUp, Fail
      <3>5. CASE RouteGitlab \/ WaitGitlab \/ FetchRepo \/ InstallPackages \/ ProbeVpn \/ ProbeOff
                 \/ CopyFiles \/ FinishInstall
        BY <3>5 DEF RouteGitlab, WaitGitlab, FetchRepo, InstallPackages, ProbeVpn, ProbeOff, CopyFiles,
                    FinishInstall, Fail
      <3>6. QED
        BY <1>1, <3>1, <3>2, <3>3, <3>4, <3>5 DEF JobStep
    <2>3. QED
      BY <2>1, <2>2
  <1>2. CASE JobDies
    BY <1>2 DEF JobDies
  <1>3. CASE HardKill
    BY <1>3 DEF HardKill, UnitGone, NoJob
  <1>4. CASE CallStep("web")
    BY <1>4 DEF CallStep, StashCredentials, Announce, Launch, StopUnit, MarkAborted, ClearUp, NextTeardown
  <1>5. CASE ClickStart \/ ClickAbort
    BY <1>5 DEF ClickStart, ClickAbort, Start, Abort, system, vars
  <1>6. CASE UNCHANGED vars
    BY <1>6 DEF vars
  <1>7. QED
    BY <1>1, <1>2, <1>3, <1>4, <1>5, <1>6
       DEF DialogNext, SystemStep, OpenModal, CloseModal, PostAnswer, OpenAnswer, PollAnswer, Poll,
           PollFails, Reload, all, system

\* A success since the last start is known to the page, or on its way to it.
Told == "reload" \in current \/ \E a \in polls : a.fresh /\ a.state = "success"

\* Then the release is there, and no run is, nor comes without another start.
ReloadInv ==
    Told => /\ Release \subseteq installed
            /\ job.at \in {"none", "exit"} /\ call["web"] \notin Launching

\* Without a run and a start nothing is installed or fetched.
LEMMA RestingSystem ==
    ASSUME "web" \in Callers, TypeOK, job.at \in {"none", "exit"}, call["web"] \notin Launching, SystemStep
    PROVE  UNCHANGED installed /\ job'.at \in {"none", "exit"} /\ call'["web"] \notin Launching
  <1> USE DEF TypeOK, Launching, Runs
  <1>1. CASE JobStep
    <2>1. JobExits
      BY <1>1 DEF JobStep, JobStart, Precheck, WaitGitlab, Success, TermTrap, Reachability, VpnSetup,
                  IpsecUp, PppOptions, L2tpUp, RouteGitlab, FetchRepo, InstallPackages, ProbeVpn, ProbeOff,
                  CopyFiles, RestartInterface, FinishInstall, TearDown
    <2>2. QED
      BY <2>1 DEF JobExits, UnitGone, NoJob
  <1>2. CASE JobDies \/ HardKill
    BY <1>2 DEF JobDies, HardKill, UnitGone, NoJob
  <1>3. CASE CallStep("web")
    BY <1>3 DEF CallStep, StashCredentials, Announce, Launch, StopUnit, MarkAborted, ClearUp, NextTeardown
  <1>4. QED
    BY <1>1, <1>2, <1>3 DEF SystemStep

LEMMA ReloadStep ==
    ASSUME "web" \in Callers, TypeOK, DialogTypeOK, StatusInv, SuccessMeansInstalled, ReloadInv, [DialogNext]_all
    PROVE  ReloadInv'
  <1> SUFFICES ASSUME Told'
               PROVE  /\ Release \subseteq installed'
                      /\ job'.at \in {"none", "exit"} /\ call'["web"] \notin Launching
    BY DEF ReloadInv
  <1>1. CASE SystemStep
    <2>1. Told
      BY <1>1 DEF SystemStep, Told
    <2>2. QED
      BY <1>1, <2>1, RestingSystem DEF ReloadInv
  <1>2. CASE ClickStart
    <2>1. UNCHANGED system /\ Told
      <3>1. CASE Start("web")
        BY <1>2, <3>1 DEF ClickStart, Told, DialogTypeOK, PollAnswers, Outcomes, Start
      <3>2. CASE UNCHANGED <<system, polls, current>>
        BY <3>2 DEF Told
      <3>3. QED
        BY <1>2, <3>1, <3>2 DEF ClickStart, Start, Told, DialogTypeOK, PollAnswers, Outcomes
    <2>2. QED
      BY <2>1 DEF ReloadInv, system, vars
  <1>3. CASE ClickAbort
    BY <1>3 DEF ClickAbort, Abort, Told, ReloadInv, Launching, TypeOK
  <1>4. CASE Poll
    <2>1. Told \/ (status = "success" /\ call["web"] = "idle")
      BY <1>4 DEF Poll, Told, Answers
    <2>2. UNCHANGED vars
      BY <1>4 DEF Poll, system
    <2>3. QED
      BY <2>1, <2>2 DEF ReloadInv, StatusInv, SuccessMeansInstalled, vars, Launching
  <1>5. ASSUME NEW a \in PollAnswers, PollAnswer(a) PROVE UNCHANGED vars /\ Told
    <2>1. "reload" \in current' => "reload" \in current \/ (a \in polls /\ a.fresh /\ a.state = "success")
      BY <1>5 DEF PollAnswer, Tells, Shows, Outcomes
    <2>2. polls' \subseteq polls
      BY <1>5 DEF PollAnswer
    <2>3. QED
      BY <1>5, <2>1, <2>2 DEF Told, PollAnswer, system
  <1>6. CASE OpenModal \/ CloseModal \/ PostAnswer \/ PollFails \/ Reload \/ (\E s \in States : OpenAnswer(s))
             \/ UNCHANGED all
    <2>1. UNCHANGED vars /\ polls' \subseteq polls /\ ("reload" \in current' => "reload" \in current)
      BY <1>6 DEF OpenModal, CloseModal, PostAnswer, PollFails, Reload, OpenAnswer, all, dialog, system
    <2>2. QED
      BY <2>1 DEF Told, ReloadInv, vars
  <1>7. QED
    BY <1>1, <1>2, <1>3, <1>4, <1>5, <1>6 DEF DialogNext, ReloadInv, vars

\* When a success of the update started last makes the page reload itself, the
\* device has the whole release that this update fetched: for any number of
\* requests under way and any faults of the job.
THEOREM ReloadTheorem ==
    ASSUME "web" \in Callers
    PROVE  DialogSpec => []ReloadsInstalled
  <1>1. DialogInit => ReloadInv /\ StatusInv
    BY DEF DialogInit, Page, Init, ReloadInv, Told, StatusInv, Launching
  <1>2. TypeOK /\ StatusInv /\ [DialogNext]_all => StatusInv'
    BY StatusStep
  <1>3. TypeOK /\ DialogTypeOK /\ StatusInv /\ SuccessMeansInstalled /\ ReloadInv /\ [DialogNext]_all => ReloadInv'
    BY ReloadStep
  <1>4. ReloadInv => ReloadsInstalled
    BY DEF ReloadInv, Told, ReloadsInstalled
  <1>5. QED
    BY <1>1, <1>2, <1>3, <1>4, DialogIsCaller, DialogTypeCorrect, SuccessTheorem, TypeCorrect, PTL DEF DialogSpec
=============================================================================
