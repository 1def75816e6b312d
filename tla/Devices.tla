------------------------------ MODULE Devices ------------------------------
(***************************************************************************)
(* The devices table of the page against the interface.                    *)
(*                                                                         *)
(* refresh polls /api/status and replaces the table with the answer.  The  *)
(* operator acts on the rows of the last answer: a click sends the address *)
(* the row showed, except that a badge is dismissed by MAC.  Meanwhile     *)
(* scans move addresses, jobs report and arms expire.                      *)
(***************************************************************************)
EXTENDS Progress, FiniteSets, SequencesExt

CONSTANTS
    Addrs, None,
    MaxClicks, \* bound on what the operator does
    MaxMoves,  \* bound on the scans that find machines at other addresses
    MaxFails   \* bound on the polls that fail

ASSUME DevicesAssumption ==
    /\ None \notin Macs /\ None \notin Addrs
    /\ MaxClicks \in Nat /\ MaxMoves \in Nat /\ MaxFails \in Nat
    /\ \E p \in [Macs -> Addrs] : \A m, n \in Macs : p[m] = p[n] => m = n

VARIABLES
    place,      \* hosts.yml: the address of each machine, or None: not listed
    armed,      \* the machines armed
    sent,       \* the operator's requests under way
    fetches,    \* the answers to /api/status under way, in the order asked for
    refreshing, \* the flag of refresh
    shown,      \* what the table shows
    outdated,   \* was the table ever replaced by an answer older than its own?
    edit,       \* the machine whose name field has the focus, or None
    clicks, moves, fails

server == <<place, armed>>
page   == <<fetches, refreshing, shown, outdated, edit>>
bounds == <<clicks, moves, fails>>
vars   == <<reports, server, sent, page, bounds>>

Places == [Macs -> Addrs \cup {None}]

Listed(p) == {m \in Macs : p[m] # None}
Unique(p) == \A m, n \in Listed(p) : p[m] = p[n] => m = n

\* Only outcomes are shown, as a badge next to the buttons.
Badge(m) == IF GetProgress(m) \in Outcomes THEN GetProgress(m) ELSE "none"

\* What an answer says that is made now of rows read before.
View(rows) ==
    [rows  |-> rows,
     armed |-> armed \cap Listed(rows),
     badge |-> [m \in Macs |-> IF m \in Listed(rows) THEN Badge(m) ELSE "none"]]

Current == View(place)

Views == [rows : Places, armed : SUBSET Macs,
          badge : [Macs -> {"none"} \cup Outcomes]]

Nothing == [rows |-> [m \in Macs |-> None], armed |-> {},
            badge |-> [m \in Macs |-> "none"]]

Kinds == {"arm", "disarm", "remove", "dismiss"}

TypeOK ==
    /\ ProgressTypeOK
    /\ place \in Places /\ Unique(place)
    /\ armed \subseteq Listed(place)
    /\ sent \subseteq [what : Kinds, key : Addrs \cup Macs, meant : Macs]
    /\ \A i \in DOMAIN fetches : fetches[i].at \in {"rows", "answer"} /\ fetches[i].view \in Views
                               /\ fetches[i].overtaken \in BOOLEAN
    /\ refreshing \in BOOLEAN
    /\ shown \in Views
    /\ outdated \in BOOLEAN
    /\ edit \in Macs \cup {None}

Init ==
    /\ ProgressInit
    /\ place = CHOOSE p \in Places : Listed(p) = Macs /\ Unique(p)
    /\ armed = {}
    /\ sent = {}
    /\ fetches = <<>> /\ refreshing = FALSE
    /\ shown = Nothing /\ outdated = FALSE
    /\ edit = None
    /\ clicks = 0 /\ moves = 0 /\ fails = 0

-----------------------------------------------------------------------------
(* The interface: each request as a whole, the status in two steps.        *)

\* The machine listed under an address; none if it has no row any more.
Target(key) == {m \in Macs : place[m] = key}

ServeArm(r) ==
    /\ r.what = "arm"
    /\ armed' = armed \cup Target(r.key)
    /\ UNCHANGED <<place, entry>>

ServeDisarm(r) ==
    /\ r.what = "disarm"
    /\ armed' = armed \ Target(r.key)
    /\ UNCHANGED <<place, entry>>

\* Mutation: a removed host stays armed.
ServeRemoveOnly(r) ==
    /\ r.what = "remove"
    /\ place' = [m \in Macs |-> IF m \in Target(r.key) THEN None ELSE place[m]]
    /\ UNCHANGED <<armed, entry>>

\* A removed host is disarmed.
ServeRemove(r) ==
    /\ r.what = "remove"
    /\ place' = [m \in Macs |-> IF m \in Target(r.key) THEN None ELSE place[m]]
    /\ armed' = armed \ Target(r.key)
    /\ UNCHANGED entry

\* Mutation: the progress is looked up by the address of the row.
ServeDismissByRow(r) ==
    /\ r.what = "dismiss"
    /\ entry' = [m \in Macs |-> IF place[m] = shown.rows[r.meant] THEN NoEntry ELSE entry[m]]
    /\ UNCHANGED <<place, armed>>

\* dismissProgress sends the MAC of the row.
ServeDismiss(r) ==
    /\ r.what = "dismiss"
    /\ entry' = [entry EXCEPT ![r.key] = NoEntry]
    /\ UNCHANGED <<place, armed>>

\* A request that is lost is never served.  The answer makes the page refresh,
\* which Refresh may do at any time.
Serve(r) ==
    /\ ServeArm(r) \/ ServeDisarm(r) \/ ServeRemove(r) \/ ServeDismiss(r)
    /\ sent' = sent \ {r}
    /\ UNCHANGED <<job, posts, jobs, page, bounds>>

\* api_status has read the list; after its probes it reads everything else.
StatusAnswer(i) ==
    /\ fetches[i].at = "rows"
    /\ fetches' = [fetches EXCEPT ![i].at = "answer", ![i].view = View(fetches[i].view.rows)]
    /\ UNCHANGED <<reports, server, sent, refreshing, shown, outdated, edit, bounds>>

\* A scan finds listed machines at other addresses and their rows follow.
Scan ==
    /\ moves < MaxMoves /\ moves' = moves + 1
    /\ place' \in {p \in Places : Listed(p) = Listed(place) /\ Unique(p)}
    /\ UNCHANGED <<reports, armed, sent, page, clicks, fails>>

\* The job script disarms its machine, or the arm expires and is pruned.
Released(m) ==
    /\ m \in armed
    /\ armed' = armed \ {m}
    /\ UNCHANGED <<reports, place, sent, page, bounds>>

Boot(m) ==
    /\ m \in armed
    /\ JobStarts(m) \/ JobRefused(m)
    /\ UNCHANGED <<server, sent, page, bounds>>

JobGoesOn ==
    /\ \/ \E m \in Macs : Report(m) \/ JobEnds(m)
       \/ \E p \in posts : PostProgress(p)
    /\ UNCHANGED <<server, sent, page, bounds>>

TimePasses == Tick /\ UNCHANGED <<server, sent, page, bounds>>

-----------------------------------------------------------------------------
(* The page.                                                               *)

Asked == [at |-> "rows", view |-> [Nothing EXCEPT !.rows = place], overtaken |-> FALSE]

\* Mutation: refresh does not look at its flag.
RefreshUnguarded ==
    /\ edit = None /\ Len(fetches) < 2
    /\ refreshing' = TRUE
    /\ fetches' = Append(fetches, Asked)
    /\ UNCHANGED <<reports, server, sent, shown, outdated, edit, bounds>>

\* Every 5 s, after an answered click and at the end of a countdown.  The request
\* is at the interface at once: one that is slow could have been sent later.
Refresh ==
    /\ ~refreshing /\ edit = None
    /\ refreshing' = TRUE
    /\ fetches' = Append(fetches, Asked)
    /\ UNCHANGED <<reports, server, sent, shown, outdated, edit, bounds>>

\* The requests that are still under way, those before i now overtaken.
Without(i) ==
    LET rest == RemoveAt(fetches, i)
    IN  [j \in DOMAIN rest |-> [rest[j] EXCEPT !.overtaken = @ \/ j < i]]

\* Mutation: without "no-store" the browser may answer from its cache.
RenderCached(i) ==
    /\ fetches[i].at = "answer"
    /\ shown' \in {shown, fetches[i].view}
    /\ outdated' = (outdated \/ fetches[i].overtaken)
    /\ edit' = None
    /\ fetches' = Without(i)
    /\ refreshing' = FALSE
    /\ UNCHANGED <<reports, server, sent, bounds>>

\* A name field that has the focus goes with the table it is in.
Render(i) ==
    /\ fetches[i].at = "answer"
    /\ shown' = fetches[i].view
    /\ outdated' = (outdated \/ fetches[i].overtaken)
    /\ edit' = None
    /\ fetches' = Without(i)
    /\ refreshing' = FALSE
    /\ UNCHANGED <<reports, server, sent, bounds>>

\* The flag is reset whatever happens.
FetchFails(i) ==
    /\ fails < MaxFails /\ fails' = fails + 1
    /\ fetches' = Without(i)
    /\ refreshing' = FALSE
    /\ UNCHANGED <<reports, server, sent, shown, outdated, edit, clicks, moves>>

\* What the row of m offers.
Offered(m) ==
    (IF m \in shown.armed THEN {"disarm"}
     ELSE {"arm", "remove"} \cup IF shown.badge[m] # "none" THEN {"dismiss"} ELSE {})

Click(m) ==
    /\ clicks < MaxClicks /\ clicks' = clicks + 1
    /\ edit = None /\ m \in Listed(shown.rows)
    /\ \E what \in Offered(m) :
         sent' = sent \cup {[what |-> what, meant |-> m,
                             key |-> IF what = "dismiss" THEN m ELSE shown.rows[m]]}
    /\ UNCHANGED <<reports, server, page, moves, fails>>

EditName(m) ==
    /\ clicks < MaxClicks /\ clicks' = clicks + 1
    /\ edit = None /\ m \in Listed(shown.rows)
    /\ edit' = m
    /\ UNCHANGED <<reports, server, sent, fetches, refreshing, shown, outdated, moves, fails>>

LeaveField ==
    /\ edit # None /\ edit' = None
    /\ UNCHANGED <<reports, server, sent, fetches, refreshing, shown, outdated, bounds>>

-----------------------------------------------------------------------------

Next ==
    \/ \E r \in sent : Serve(r)
    \/ \E i \in DOMAIN fetches : StatusAnswer(i) \/ Render(i) \/ FetchFails(i)
    \/ Scan \/ Refresh \/ JobGoesOn \/ TimePasses \/ LeaveField
    \/ \E m \in Macs : Released(m) \/ Boot(m) \/ Click(m) \/ EditName(m)

Spec == Init /\ [][Next]_vars

\* The poll is a timer of the page, the interface answers, time passes;
\* whatever the operator, the machines and the scans do they may stop doing.
FairSpec ==
    /\ Spec
    /\ WF_vars(Refresh)
    /\ WF_vars(\E i \in DOMAIN fetches : StatusAnswer(i) \/ Render(i))
    /\ WF_vars(TimePasses)

-----------------------------------------------------------------------------
(* Properties.                                                             *)

\* The table never goes back to an older answer: however slow an answer and
\* whatever asked for it (the timer, a click, a countdown), none is rendered
\* after one that was asked for later.
NeverOlder == ~outdated

\* When nothing changes any more the table comes to show what is the case,
\* whichever poll failed or was skipped, unless a name is being edited.
TableCatchesUp == <>[](shown = Current \/ edit # None)

Silent(m) == job[m] = "off" /\ GetProgress(m) \in Running

\* "running" does not stay for a machine that was switched off or whose outcome
\* was lost: no post comes any more, those under way run out, and the entry
\* times out, although nothing ever deletes it.  The comment of _progress
\* (1014-1016) promises this for a hung script; one that hangs with its
\* reporter alive is not silent, and its entry stays for good.
SilentJobFades == \A m \in Macs : Silent(m) ~> ~Silent(m)

\* A dismissal takes away the outcome of the machine whose badge was clicked
\* and of no other, also when a scan moved the rows after the table was drawn.
DismissesTheShown ==
    [][ \A r \in sent \ sent' : r.what = "dismiss" =>
          /\ entry'[r.meant] = NoEntry
          /\ \A m \in Macs \ {r.meant} : entry'[m] = entry[m] ]_vars

\* The final confirmation of the page names the machine that a restore will
\* overwrite; a click arms the machine whose row was clicked.
ArmsTheShown ==
    [][ \A m \in armed' \ armed : \E r \in sent : r.what = "arm" /\ r.meant = m ]_vars
=============================================================================
