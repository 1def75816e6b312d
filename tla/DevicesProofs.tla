---------------------------- MODULE DevicesProofs ----------------------------
(***************************************************************************)
(* Proofs about the devices table, for any number of machines, clicks,     *)
(* scans and failing polls: its type, that it never goes back to an older  *)
(* answer, and whose outcome a dismissal takes away.                       *)
(***************************************************************************)
EXTENDS Devices, TLAPS

\* An answer under way that none asked for later has been before.
InTime(view) == [at : {"rows", "answer"}, view : {view}, overtaken : {FALSE}]

\* The flag of refresh lets one answer at most be under way, so that there is
\* none that another could overtake.
OneFetch ==
    /\ ~outdated
    /\ \/ fetches = <<>>
       \/ refreshing /\ \E view : \E f \in InTime(view) : fetches = <<f>>

LEMMA RemoveOnly ==
    ASSUME NEW f
    PROVE  RemoveAt(<<f>>, 1) = <<>>
  BY DEF RemoveAt

LEMMA OnlyIndex ==
    ASSUME OneFetch, NEW i \in DOMAIN fetches
    PROVE  i = 1 /\ refreshing /\ \E view : \E f \in InTime(view) : fetches = <<f>>
  <1>1. fetches # <<>>
    OBVIOUS
  <1>2. PICK view : \E f \in InTime(view) : fetches = <<f>>
    BY <1>1 DEF OneFetch
  <1>3. DOMAIN fetches = {1}
    BY <1>2
  <1>4. QED
    BY <1>1, <1>2, <1>3 DEF OneFetch

\* The answer that is taken off the wire is the only one.
LEMMA WithoutOnly ==
    ASSUME OneFetch, NEW i \in DOMAIN fetches
    PROVE  Without(i) = <<>> /\ ~fetches[i].overtaken
  <1>1. PICK view : i = 1 /\ \E f \in InTime(view) : fetches = <<f>>
    BY OnlyIndex
  <1>2. RemoveAt(fetches, i) = <<>>
    BY <1>1, RemoveOnly
  <1>3. Without(i) = [j \in DOMAIN << >> |-> [<< >>[j] EXCEPT !.overtaken = @ \/ j < i]]
    BY <1>2 DEF Without
  <1>4. Without(i) = <<>>
    BY <1>3
  <1>5. ~fetches[i].overtaken
    <2>1. PICK f \in InTime(view) : fetches = <<f>>
      BY <1>1
    <2>2. fetches[i] = f /\ f.overtaken = FALSE
      BY <1>1, <2>1 DEF InTime
    <2>3. QED
      BY <2>2
  <1>6. QED
    BY <1>4, <1>5

LEMMA FetchStep ==
    ASSUME OneFetch, [Next]_vars
    PROVE  OneFetch'
  <1>1. CASE Refresh
    <2>1. fetches = <<>> /\ fetches' = Append(fetches, Asked) /\ refreshing' /\ ~outdated'
      BY <1>1 DEF Refresh, OneFetch
    <2>2. fetches' = <<Asked>>
      BY <2>1
    <2>3. Asked \in InTime([Nothing EXCEPT !.rows = place])
      BY DEF Asked, InTime
    <2>4. QED
      BY <2>1, <2>2, <2>3 DEF OneFetch
  <1>2. ASSUME NEW i \in DOMAIN fetches, StatusAnswer(i) PROVE OneFetch'
    <2>1. PICK view : i = 1 /\ refreshing /\ \E f \in InTime(view) : fetches = <<f>>
      BY OnlyIndex
    <2>2. PICK f \in InTime(view) : fetches = <<f>>
      BY <2>1
    <2>3. fetches' = [fetches EXCEPT ![1] = [@ EXCEPT !.at = "answer", !.view = View(f.view.rows)]]
      BY <1>2, <2>1, <2>2 DEF StatusAnswer
    <2>4. fetches' = <<[f EXCEPT !.at = "answer", !.view = View(f.view.rows)]>>
      BY <2>2, <2>3
    <2>5. [f EXCEPT !.at = "answer", !.view = View(f.view.rows)] \in InTime(View(f.view.rows))
      BY DEF InTime
    <2>6. refreshing' /\ ~outdated'
      BY <1>2, <2>1 DEF StatusAnswer, OneFetch
    <2>7. QED
      BY <2>4, <2>5, <2>6 DEF OneFetch
  <1>3. ASSUME NEW i \in DOMAIN fetches, Render(i) \/ FetchFails(i) PROVE OneFetch'
    <2>1. Without(i) = <<>> /\ ~fetches[i].overtaken /\ ~outdated
      BY WithoutOnly DEF OneFetch
    <2>2. fetches' = <<>>
      BY <1>3, <2>1 DEF Render, FetchFails
    <2>3. outdated' = (outdated \/ fetches[i].overtaken) \/ outdated' = outdated
      BY <1>3 DEF Render, FetchFails
    <2>4. ~outdated'
      BY <2>1, <2>3
    <2>5. QED
      BY <2>2, <2>4 DEF OneFetch
  <1>4. CASE UNCHANGED <<fetches, refreshing, outdated>>
    BY <1>4 DEF OneFetch
  <1>5. QED
    BY <1>1, <1>2, <1>3, <1>4
       DEF Next, Serve, Scan, JobGoesOn, TimePasses, LeaveField, Released, Boot, Click, EditName, page, vars

\* The table never goes back to an older answer, whatever asked for it and
\* whichever polls fail: the flag is set before the request and reset after it.
THEOREM NeverOlderTheorem == Spec => []NeverOlder
  <1>1. Init => OneFetch
    BY DEF Init, OneFetch
  <1>2. OneFetch /\ [Next]_vars => OneFetch'
    BY FetchStep
  <1>3. OneFetch => NeverOlder
    BY DEF OneFetch, NeverOlder
  <1>4. QED
    BY <1>1, <1>2, <1>3, PTL DEF Spec

-----------------------------------------------------------------------------
(* Types.                                                                  *)

Fetch == [at : {"rows", "answer"}, view : Views, overtaken : BOOLEAN]

\* A request names an address its row showed, or, to dismiss, the machine.
Requests ==
    [what : {"arm", "disarm", "remove"}, key : Addrs, meant : Macs]
      \cup {r \in [what : {"dismiss"}, key : Macs, meant : Macs] : r.key = r.meant}

ServerTyped == place \in Places /\ Unique(place) /\ armed \subseteq Listed(place) /\ sent \subseteq Requests

PageTyped ==
    /\ OneFetch
    /\ \A i \in DOMAIN fetches : fetches[i] \in Fetch
    /\ refreshing \in BOOLEAN /\ outdated \in BOOLEAN
    /\ shown \in Views
    /\ edit \in Macs \cup {None}

DevicesTyped == ProgressTypeOK /\ ServerTyped /\ PageTyped

LEMMA NoEntryOnce == NoEntry \notin [status : Running \cup Outcomes, age : 0 .. ProgressTTL + 1]
  BY DEF NoEntry, Running, Outcomes

LEMMA ViewTyped ==
    ASSUME ProgressTypeOK, NEW rows \in Places
    PROVE  View(rows) \in Views
  <1>1. Listed(rows) \subseteq Macs
    BY DEF Listed
  <1>2. \A m \in Macs : Badge(m) \in {"none"} \cup Outcomes
    BY DEF Badge
  <1>3. armed \cap Listed(rows) \in SUBSET Macs
    BY <1>1
  <1>4. [m \in Macs |-> IF m \in Listed(rows) THEN Badge(m) ELSE "none"] \in [Macs -> {"none"} \cup Outcomes]
    BY <1>2
  <1>5. QED
    BY <1>3, <1>4 DEF View, Views

LEMMA NothingTyped ==
    ASSUME NEW rows \in Places
    PROVE  Nothing \in Views /\ [Nothing EXCEPT !.rows = rows] \in Views
  BY DEF Nothing, Views, Places

LEMMA InitTyped ==
    ASSUME Init
    PROVE  DevicesTyped
  <1>1. \E p \in Places : Listed(p) = Macs /\ Unique(p)
    <2>1. PICK p \in [Macs -> Addrs] : \A m, n \in Macs : p[m] = p[n] => m = n
      BY DevicesAssumption
    <2>2. p \in Places /\ Listed(p) = Macs /\ Unique(p)
      BY <2>1, DevicesAssumption DEF Places, Listed, Unique
    <2>3. QED
      BY <2>2
  <1>2. place \in Places /\ Unique(place)
    BY <1>1 DEF Init
  <1>3. ServerTyped
    BY <1>2 DEF Init, ServerTyped
  <1>4. ProgressTypeOK
    BY ProgressAssumption DEF Init, ProgressInit, ProgressTypeOK
  <1>5. PageTyped
    <2>1. OneFetch /\ \A i \in DOMAIN fetches : fetches[i] \in Fetch
      BY DEF Init, OneFetch
    <2>2. shown \in Views
      BY <1>2, NothingTyped DEF Init
    <2>3. refreshing \in BOOLEAN /\ outdated \in BOOLEAN /\ edit \in Macs \cup {None}
      BY DEF Init
    <2>4. QED
      BY <2>1, <2>2, <2>3 DEF PageTyped
  <1>6. QED
    BY <1>3, <1>4, <1>5 DEF DevicesTyped

LEMMA ProgressStep ==
    ASSUME DevicesTyped, [Next]_vars
    PROVE  ProgressTypeOK'
  <1> DEFINE Entries == {NoEntry} \cup [status : Running \cup Outcomes, age : 0 .. ProgressTTL + 1]
  <1>0. ProgressTypeOK /\ sent \subseteq Requests
    BY DEF DevicesTyped, ServerTyped
  <1>1. ASSUME NEW m \in Macs, JobStarts(m) \/ JobRefused(m) PROVE ProgressTypeOK'
    <2>1. jobs' \in 0 .. MaxJobs
      BY <1>0, <1>1, ProgressAssumption DEF JobStarts, JobRefused, Boots, ProgressTypeOK
    <2>2. Post(m, "started") \in [mac : Macs, status : Running \cup Outcomes]
          /\ Post(m, "failed") \in [mac : Macs, status : Running \cup Outcomes]
      BY DEF Post, Running, Outcomes
    <2>3. QED
      BY <1>0, <1>1, <2>1, <2>2 DEF JobStarts, JobRefused, ProgressTypeOK
  <1>2. ASSUME NEW m \in Macs, Report(m) \/ JobEnds(m) PROVE ProgressTypeOK'
    <2>1. Post(m, "running") \in [mac : Macs, status : Running \cup Outcomes]
          /\ \A s \in Outcomes : Post(m, s) \in [mac : Macs, status : Running \cup Outcomes]
      BY DEF Post, Running, Outcomes
    <2>2. QED
      BY <1>0, <1>2, <2>1 DEF Report, JobEnds, ProgressTypeOK
  <1>3. ASSUME NEW p \in posts, PostProgress(p) PROVE ProgressTypeOK'
    <2>1. [status |-> p.status, age |-> 0] \in Entries
      BY <1>0, ProgressAssumption DEF ProgressTypeOK
    <2>2. QED
      BY <1>0, <1>3, <2>1 DEF PostProgress, ProgressTypeOK
  <1>4. CASE Tick
    <2>1. ASSUME NEW m \in Macs, Ages(m) PROVE [entry[m] EXCEPT !.age = @ + 1] \in Entries
      <3>1. entry[m] \in [status : Running \cup Outcomes, age : 0 .. ProgressTTL + 1]
        BY <1>0, <2>1 DEF ProgressTypeOK, Ages
      <3>2. entry[m].age + 1 \in 0 .. ProgressTTL + 1
        BY <2>1, <3>1, ProgressAssumption DEF Ages
      <3>3. QED
        BY <3>1, <3>2
    <2>2. \A m \in Macs : entry[m] \in Entries
      BY <1>0 DEF ProgressTypeOK
    <2> HIDE DEF Entries
    <2>3. entry' \in [Macs -> Entries]
      BY <1>4, <2>1, <2>2 DEF Tick
    <2>4. QED
      BY <1>0, <1>4, <2>3 DEF Tick, ProgressTypeOK, Entries
  <1>5. ASSUME NEW r \in sent, Serve(r) PROVE ProgressTypeOK'
    <2>1. UNCHANGED <<job, posts, jobs>>
      BY <1>5 DEF Serve
    <2>2. entry' = entry \/ \E m \in Macs : entry' = [entry EXCEPT ![m] = NoEntry]
      BY <1>0, <1>5 DEF Serve, ServeArm, ServeDisarm, ServeRemove, ServeDismiss, Requests
    <2>3. QED
      BY <1>0, <2>1, <2>2 DEF ProgressTypeOK
  <1>6. CASE UNCHANGED reports
    BY <1>0, <1>6 DEF reports, ProgressTypeOK
  <1>7. QED
    BY <1>1, <1>2, <1>3, <1>4, <1>5, <1>6
       DEF Next, StatusAnswer, Render, FetchFails, Scan, Refresh, JobGoesOn, TimePasses, LeaveField, Released,
           Boot, Click, EditName, vars

LEMMA ServerStep ==
    ASSUME DevicesTyped, [Next]_vars
    PROVE  ServerTyped'
  <1>0. ServerTyped /\ shown \in Views
    BY DEF DevicesTyped, PageTyped
  <1>1. ASSUME NEW r \in sent, Serve(r) PROVE ServerTyped'
    <2>1. sent' \subseteq Requests
      BY <1>0, <1>1 DEF Serve, ServerTyped
    <2>2. CASE ServeArm(r)
      <3>1. r.key \in Addrs
        BY <1>0, <2>2 DEF ServeArm, ServerTyped, Requests
      <3>2. Target(r.key) \subseteq Listed(place)
        BY <3>1, DevicesAssumption DEF Target, Listed
      <3>3. QED
        BY <1>0, <2>1, <2>2, <3>2 DEF ServeArm, ServerTyped
    <2>3. CASE ServeDisarm(r) \/ ServeDismiss(r)
      BY <1>0, <2>1, <2>3 DEF ServeDisarm, ServeDismiss, ServerTyped
    <2>4. CASE ServeRemove(r)
      <3>1. place' = [m \in Macs |-> IF m \in Target(r.key) THEN None ELSE place[m]]
        BY <2>4 DEF ServeRemove
      <3>2. place' \in Places
        BY <1>0, <3>1 DEF ServerTyped, Places
      <3>3. Listed(place') = Listed(place) \ Target(r.key)
        BY <1>0, <3>1 DEF Listed
      <3>4. \A m \in Listed(place') : place'[m] = place[m] /\ m \in Listed(place)
        BY <3>1, <3>3 DEF Listed
      <3>5. Unique(place')
        BY <1>0, <3>4 DEF ServerTyped, Unique
      <3>6. QED
        BY <1>0, <2>1, <2>4, <3>2, <3>3, <3>5 DEF ServeRemove, ServerTyped
    <2>5. QED
      BY <1>1, <2>2, <2>3, <2>4 DEF Serve
  <1>2. CASE Scan
    BY <1>0, <1>2 DEF Scan, ServerTyped
  <1>3. ASSUME NEW m, Released(m) PROVE ServerTyped'
    BY <1>0, <1>3 DEF Released, ServerTyped
  <1>4. ASSUME NEW m \in Macs, Click(m) PROVE ServerTyped'
    <2>1. m \in Listed(shown.rows) /\ UNCHANGED server
      BY <1>4 DEF Click
    <2>2. shown.rows \in Places
      BY <1>0 DEF Views
    <2>3. shown.rows[m] \in Addrs
      BY <2>1, <2>2 DEF Listed, Places
    <2>4. PICK what \in Offered(m) :
            sent' = sent \cup {[what |-> what, meant |-> m,
                                key |-> IF what = "dismiss" THEN m ELSE shown.rows[m]]}
      BY <1>4 DEF Click
    <2>5. what \in Kinds
      BY DEF Offered, Kinds
    <2>6. [what |-> what, meant |-> m, key |-> IF what = "dismiss" THEN m ELSE shown.rows[m]] \in Requests
      BY <2>3, <2>5 DEF Requests, Kinds
    <2>7. QED
      BY <1>0, <2>1, <2>4, <2>6 DEF ServerTyped, server
  <1>5. CASE UNCHANGED <<server, sent>>
    BY <1>0, <1>5 DEF server, ServerTyped
  <1>6. QED
    BY <1>1, <1>2, <1>3, <1>4, <1>5
       DEF Next, StatusAnswer, Render, FetchFails, Refresh, JobGoesOn, TimePasses, LeaveField, Boot, EditName,
           vars

LEMMA PageStep ==
    ASSUME DevicesTyped, [Next]_vars
    PROVE  PageTyped'
  <1>0. PageTyped /\ OneFetch /\ OneFetch' /\ place \in Places /\ ProgressTypeOK
    BY FetchStep DEF DevicesTyped, PageTyped, ServerTyped
  <1>1. CASE Refresh
    <2>1. fetches = <<>>
      BY <1>0, <1>1 DEF Refresh, OneFetch
    <2>2. fetches' = <<Asked>>
      BY <1>1, <2>1 DEF Refresh
    <2>3. Asked \in Fetch
      BY <1>0, NothingTyped DEF Asked, Fetch
    <2>4. \A i \in DOMAIN fetches' : fetches'[i] \in Fetch
      BY <2>2, <2>3
    <2>5. QED
      BY <1>0, <1>1, <2>4 DEF Refresh, PageTyped
  <1>2. ASSUME NEW i \in DOMAIN fetches, StatusAnswer(i) PROVE PageTyped'
    <2>1. fetches[i] \in Fetch /\ fetches[i].view \in Views
      BY <1>0 DEF PageTyped, Fetch
    <2>2. fetches[i].view.rows \in Places
      BY <2>1 DEF Views
    <2>3. View(fetches[i].view.rows) \in Views
      BY <1>0, <2>2, ViewTyped
    <2>4. /\ DOMAIN fetches' = DOMAIN fetches
          /\ \A j \in DOMAIN fetches : j # i => fetches'[j] = fetches[j]
          /\ fetches'[i] = [fetches[i] EXCEPT !.at = "answer", !.view = View(fetches[i].view.rows)]
      BY <1>2 DEF StatusAnswer
    <2>5. fetches'[i] \in Fetch
      BY <2>1, <2>3, <2>4 DEF Fetch
    <2>6. QED
      BY <1>0, <1>2, <2>4, <2>5 DEF StatusAnswer, PageTyped
  <1>3. ASSUME NEW i \in DOMAIN fetches, Render(i) \/ FetchFails(i) PROVE PageTyped'
    <2>1. fetches' = <<>>
      BY <1>0, <1>3, WithoutOnly DEF Render, FetchFails
    <2>2. fetches[i] \in Fetch
      BY <1>0 DEF PageTyped
    <2>3. fetches[i].view \in Views
      BY <2>2 DEF Fetch
    <2>4. outdated' = FALSE
      BY <1>0, <1>3, WithoutOnly DEF Render, FetchFails, OneFetch
    <2>5. /\ refreshing' \in BOOLEAN /\ shown' \in Views /\ edit' \in Macs \cup {None}
      BY <1>0, <1>3, <2>3 DEF Render, FetchFails, PageTyped
    <2>6. \A j \in DOMAIN fetches' : fetches'[j] \in Fetch
      BY <2>1
    <2>7. QED
      BY <1>0, <2>4, <2>5, <2>6 DEF PageTyped
  <1>4. ASSUME NEW m \in Macs, EditName(m) PROVE PageTyped'
    BY <1>0, <1>4 DEF EditName, PageTyped
  <1>5. CASE LeaveField
    BY <1>0, <1>5 DEF LeaveField, PageTyped
  <1>6. CASE UNCHANGED page
    BY <1>0, <1>6 DEF page, PageTyped
  <1>7. QED
    BY <1>1, <1>2, <1>3, <1>4, <1>5, <1>6
       DEF Next, Serve, Scan, JobGoesOn, TimePasses, Released, Boot, Click, vars

LEMMA TypedAlways == Spec => []DevicesTyped
  <1>1. Init => DevicesTyped
    BY InitTyped
  <1>2. DevicesTyped /\ [Next]_vars => DevicesTyped'
    BY ProgressStep, ServerStep, PageStep DEF DevicesTyped
  <1>3. QED
    BY <1>1, <1>2, PTL DEF Spec

\* No two machines are listed at one address, only listed machines are armed,
\* and the table and every answer under way are of the machines' own rows.
THEOREM TypeCorrect == Spec => []TypeOK
  <1>1. DevicesTyped => TypeOK
    <2> SUFFICES ASSUME DevicesTyped PROVE TypeOK
      OBVIOUS
    <2>1. Requests \subseteq [what : Kinds, key : Addrs \cup Macs, meant : Macs]
      BY DEF Requests, Kinds
    <2>2. \A i \in DOMAIN fetches : fetches[i].at \in {"rows", "answer"} /\ fetches[i].view \in Views
                                    /\ fetches[i].overtaken \in BOOLEAN
      BY DEF DevicesTyped, PageTyped, Fetch
    <2>3. QED
      BY <2>1, <2>2 DEF DevicesTyped, ServerTyped, PageTyped, TypeOK
  <1>2. QED
    BY <1>1, TypedAlways, PTL

-----------------------------------------------------------------------------
(* Dismissals.                                                             *)

\* A dismissal takes away the outcome of the machine whose badge was clicked
\* and of no other: the request carries the MAC of the row, which no scan moves.
THEOREM DismissTheorem == Spec => DismissesTheShown
  <1> DEFINE Own == \A r \in sent \ sent' : r.what = "dismiss" =>
                      /\ entry'[r.meant] = NoEntry
                      /\ \A m \in Macs \ {r.meant} : entry'[m] = entry[m]
  <1>1. DevicesTyped /\ [Next]_vars => Own
    <2> SUFFICES ASSUME DevicesTyped, [Next]_vars, NEW r \in sent \ sent', r.what = "dismiss"
                 PROVE  entry'[r.meant] = NoEntry /\ \A m \in Macs \ {r.meant} : entry'[m] = entry[m]
      OBVIOUS
    <2>1. r.key = r.meant /\ r.meant \in Macs
      BY DEF DevicesTyped, ServerTyped, Requests
    <2>2. \E q \in sent : Serve(q)
      BY DEF Next, StatusAnswer, Render, FetchFails, Scan, Refresh, JobGoesOn, TimePasses, LeaveField, Released,
             Boot, Click, EditName, vars
    <2>3. Serve(r)
      BY <2>2 DEF Serve
    <2>4. entry' = [entry EXCEPT ![r.meant] = NoEntry]
      BY <2>1, <2>3 DEF Serve, ServeArm, ServeDisarm, ServeRemove, ServeDismiss
    <2>5. entry = [m \in Macs |-> entry[m]]
      BY DEF DevicesTyped, ProgressTypeOK
    <2>6. QED
      BY <2>1, <2>4, <2>5
  <1>2. DevicesTyped /\ [Next]_vars => [Own]_vars
    BY <1>1
  <1>3. QED
    BY <1>2, TypedAlways, PTL DEF Spec, DismissesTheShown
=============================================================================
