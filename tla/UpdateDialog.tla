---------------------------- MODULE UpdateDialog ----------------------------
(***************************************************************************)
(* The self-update as the page sees it: the update dialog on top of        *)
(* SelfUpdate, whose caller "web" does what the dialog asks for, and whose *)
(* other callers, if Callers has any, do nothing.                          *)
(*                                                                         *)
(* The interface answers one request after the other, none while a start   *)
(* or an abort is under way and none while update.sh restarts it.  Answers *)
(* may overtake each other on their way to the page.                       *)
(***************************************************************************)
EXTENDS SelfUpdate

CONSTANT MaxUnderWay \* bound on the requests of the page that are under way

ASSUME UpdateDialogAssumption == MaxUnderWay \in Nat \ {0}

VARIABLES
    shown,      \* is the dialog open?
    view,       \* updSetView: "form" or "log"
    text,       \* the state line: an outcome, "ok" or "err", or something else, "open"
    wasRunning, \* updWasRunning
    polling,    \* is updTimer set?
    opened,     \* the answers to openUpdateModal under way
    polls,      \* the answers to updPoll under way
    post,       \* the request of a button under way: "none", "start", "abort"
    launched,   \* did the last start launch the job?
    reloads,    \* is the page about to load itself again?
    current     \* for the properties: which of the outcome shown, "text", and the coming
                \* "reload" come from an answer that was read after the last start

dialog == <<shown, view, text, wasRunning, polling, opened, polls, post, launched, reloads, current>>
system == vars
all    == <<system, dialog>>

States == {"idle", "running", "success", "failed"}

Outcomes == {"success", "failed"}

\* An answer to a poll; not fresh: an outcome that was read before the last start.
PollAnswers == [state : States, fresh : BOOLEAN]

DialogTypeOK ==
    /\ shown \in BOOLEAN /\ view \in {"form", "log"}
    /\ text \in {"open", "ok", "err"}
    /\ wasRunning \in BOOLEAN /\ polling \in BOOLEAN /\ launched \in BOOLEAN
    /\ opened \subseteq States /\ polls \subseteq PollAnswers
    /\ post \in {"none", "start", "abort"}
    /\ reloads \in BOOLEAN /\ current \subseteq {"text", "reload"}

Page ==
    /\ shown = FALSE /\ view = "form" /\ text = "open"
    /\ wasRunning = FALSE /\ polling = FALSE
    /\ opened = {} /\ polls = {} /\ post = "none" /\ launched = FALSE
    /\ reloads = FALSE /\ current = {}

DialogInit == Init /\ Page

UnderWay(os, ps, p) == Cardinality(os) + Cardinality(ps) + (IF p = "none" THEN 0 ELSE 1)

\* The interface is up and not inside start or abort.
Answers == call["web"] = "idle" /\ job.at # "restarted"

-----------------------------------------------------------------------------
(* Opening, closing and the buttons.                                       *)

\* What an interface that is being restarted does not answer shows the form.
OpenModal ==
    /\ ~shown /\ opened = {} /\ UnderWay(opened, polls, post) < MaxUnderWay
    /\ shown' = TRUE /\ text' = "open"
    /\ \/ Answers /\ opened' = {status} /\ UNCHANGED <<view, wasRunning>>
       \/ job.at = "restarted" /\ view' = "form" /\ wasRunning' = FALSE /\ UNCHANGED opened
    /\ current' = current \ {"text"}
    /\ UNCHANGED <<system, polling, polls, post, launched, reloads>>

\* A running update is taken up again; otherwise the form is shown.
OpenAnswer(s) ==
    /\ s \in opened /\ opened' = opened \ {s}
    /\ IF s = "running"
       THEN wasRunning' = TRUE /\ view' = "log" /\ polling' = TRUE
       ELSE wasRunning' = FALSE /\ view' = "form" /\ UNCHANGED polling
    /\ UNCHANGED <<system, shown, text, polls, post, launched, reloads, current>>

CloseModal ==
    /\ shown
    /\ shown' = FALSE /\ polling' = FALSE
    /\ UNCHANGED <<system, view, text, wasRunning, opened, polls, post, launched, reloads, current>>

\* "Connect & update"; recovery-update refuses it while the unit is active.  The
\* 2.5 s until a reload are taken to be too short for another start.
ClickStart ==
    /\ shown /\ ~reloads /\ view = "form" /\ post = "none" /\ Answers
    /\ UnderWay(opened, polls, post) < MaxUnderWay
    /\ post' = "start"
    /\ \/ /\ Start("web")
          /\ polls' = {[a EXCEPT !.fresh = a.state \notin Outcomes] : a \in polls} /\ current' = {}
       \/ unit = "active" /\ UNCHANGED <<system, polls, current>>
    /\ UNCHANGED <<shown, view, text, wasRunning, polling, opened, launched, reloads>>

ClickAbort ==
    /\ shown /\ view = "log" /\ text \notin {"ok", "err"} /\ post = "none" /\ Answers
    /\ UnderWay(opened, polls, post) < MaxUnderWay
    /\ post' = "abort"
    /\ Abort("web")
    /\ UNCHANGED <<shown, view, text, wasRunning, polling, opened, polls, launched, reloads, current>>

\* Only a start that was accepted changes the view.
PostAnswer ==
    /\ post # "none" /\ call["web"] = "idle"
    /\ post' = "none" /\ launched' = FALSE
    /\ CASE post = "start" /\ launched ->
              wasRunning' = TRUE /\ view' = "log" /\ text' = "open" /\ polling' = TRUE
         [] post = "start" /\ ~launched ->
              text' = "err" /\ UNCHANGED <<wasRunning, view, polling>>
         [] post = "abort" -> UNCHANGED <<wasRunning, view, text, polling>>
    /\ current' = IF post = "start" THEN current \ {"text"} ELSE current
    /\ UNCHANGED <<system, shown, opened, polls, reloads>>

-----------------------------------------------------------------------------
(* Polling.                                                                *)

Poll ==
    /\ polling /\ Answers
    /\ LET answer == [state |-> status, fresh |-> TRUE] IN
         /\ UnderWay(opened, polls \cup {answer}, post) <= MaxUnderWay
         /\ polls' = polls \cup {answer}
    /\ UNCHANGED <<system, shown, view, text, wasRunning, polling, opened, post, launched, reloads, current>>

\* Mutation: the poll gives up when the interface does not answer.
PollFailsForGood ==
    /\ polling /\ job.at = "restarted"
    /\ text' = "open" /\ polling' = FALSE /\ current' = current \ {"text"}
    /\ UNCHANGED <<system, shown, view, wasRunning, opened, polls, post, launched, reloads>>

\* While the interface restarts the poll goes on.
PollFails ==
    /\ polling /\ job.at = "restarted"
    /\ text' = "open" /\ current' = current \ {"text"}
    /\ UNCHANGED <<system, shown, view, wasRunning, polling, opened, polls, post, launched, reloads>>

\* Mutation: every end of an update is its success.
ShowsAny(s) == CASE s = "running" -> "open" [] OTHER -> "ok"

Shows(s) ==
    CASE s = "running" -> "open"
      [] s = "success" -> "ok"
      [] s = "failed"  -> "err"
      [] OTHER         -> text

\* What an outcome determines.
Tells(s) ==
    IF s \notin Outcomes THEN {}
    ELSE IF Shows(s) = "ok" THEN {"text", "reload"} ELSE {"text"}

\* An outcome counts only when the update was seen running before; a success is
\* followed by a reload.
PollAnswer(a) ==
    /\ a \in polls /\ polls' = polls \ {a}
    /\ IF a.state = "running" \/ (a.state \in Outcomes /\ wasRunning)
       THEN /\ text' = Shows(a.state)
            /\ polling' = (polling /\ a.state = "running")
            /\ wasRunning' = TRUE
            /\ reloads' = (reloads \/ Shows(a.state) = "ok")
            /\ current' = IF a.fresh THEN (current \ {"text"}) \cup Tells(a.state)
                          ELSE current \ ({"text"} \cup Tells(a.state))
       ELSE UNCHANGED <<text, polling, wasRunning, reloads, current>>
    /\ UNCHANGED <<system, shown, view, opened, post, launched>>

\* After a success the page is loaded again, whatever it shows meanwhile.
Reload ==
    /\ reloads
    /\ shown' = FALSE /\ view' = "form" /\ text' = "open" /\ wasRunning' = FALSE
    /\ polling' = FALSE /\ opened' = {} /\ polls' = {} /\ post' = "none" /\ launched' = FALSE
    /\ reloads' = FALSE /\ current' = {}
    /\ UNCHANGED system

-----------------------------------------------------------------------------

\* What the system does by itself; the end of a start tells how it went.
SystemStep ==
    /\ JobStep \/ JobDies \/ HardKill \/ CallStep("web")
    /\ launched' = IF call["web"] = "launch" /\ call'["web"] = "idle"
                   THEN unit = "inactive" /\ unit' = "active" ELSE launched
    /\ UNCHANGED <<shown, view, text, wasRunning, polling, opened, polls, post, reloads, current>>

DialogNext ==
    \/ SystemStep
    \/ OpenModal \/ CloseModal \/ ClickStart \/ ClickAbort \/ PostAnswer
    \/ \E s \in States : OpenAnswer(s)
    \/ \E a \in PollAnswers : PollAnswer(a)
    \/ Poll \/ PollFails \/ Reload

DialogSpec == DialogInit /\ [][DialogNext]_all

\* As in SelfUpdate; the timer polls, answers arrive, and a poll that comes in
\* while the interface waits for a helper is answered when the helper is done.
DialogFairSpec ==
    /\ DialogSpec
    /\ WF_all(JobStep /\ SystemStep) /\ WF_all(CallStep("web") /\ SystemStep)
    /\ SF_all(Poll) /\ WF_all(\E a \in PollAnswers : PollAnswer(a)) /\ WF_all(PostAnswer)

-----------------------------------------------------------------------------
(* Properties.                                                             *)

\* The log of an update that runs, that the dialog polls and knows to be running,
\* comes to show its outcome, not that of an earlier one nor the refusal of a
\* start, through the restart of the interface and whatever answers overtake each
\* other, unless the dialog is closed or the job dies with its status "running".
\* Not if an answer that was read before the start is still under way: the page
\* takes it for this update's.
WatchedOutcomeShown ==
    /\ unit = "active" /\ ~Lost
    /\ shown /\ view = "log" /\ polling /\ wasRunning
    /\ opened = {} /\ \A a \in polls : a.fresh
    ~> (text \in {"ok", "err"} /\ "text" \in current) \/ ~shown \/ Lost

\* When a success of the update that was started last makes the page load itself
\* again, the device has the whole release that this update fetched.
ReloadsInstalled == reloads /\ "reload" \in current => Release \subseteq installed
=============================================================================
