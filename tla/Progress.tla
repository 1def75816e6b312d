------------------------------ MODULE Progress ------------------------------
(***************************************************************************)
(* The progress reports of the job scripts and what the interface keeps of *)
(* them.                                                                   *)
(*                                                                         *)
(* A script posts "started", its background reporter posts "running" every *)
(* two seconds, and after the reporter was killed the script posts the     *)
(* outcome.  Every post is given up by curl after two seconds, which does  *)
(* not take it back: a post under way may be handled at any later time, in *)
(* any order with the others, or never.                                    *)
(*                                                                         *)
(* A report is its status.  What a post leaves out is kept from the posts  *)
(* before it (percentage, rate, the rc of an earlier failure), and nothing *)
(* shows that: rc is only shown with "failed", which always carries one.   *)
(***************************************************************************)
EXTENDS Naturals

CONSTANTS
    Macs,
    ProgressTTL, \* PROGRESS_TTL in ticks
    MaxJobs      \* bound on the jobs begun

ASSUME ProgressAssumption == ProgressTTL \in Nat /\ MaxJobs \in Nat

VARIABLES
    job,    \* does a script run on the machine: "off" or "running"
    posts,  \* the posts under way
    entry,  \* _progress, with the age of each entry, up to one more than the TTL
    jobs

reports == <<job, posts, entry, jobs>>

Running  == {"started", "running"}
Outcomes == {"completed", "failed"}

NoEntry == [status |-> "none", age |-> 0]

Post(m, s) == [mac |-> m, status |-> s]

ProgressTypeOK ==
    /\ job \in [Macs -> {"off", "running"}]
    /\ posts \subseteq [mac : Macs, status : Running \cup Outcomes]
    /\ entry \in [Macs -> {NoEntry} \cup [status : Running \cup Outcomes, age : 0 .. ProgressTTL + 1]]
    /\ jobs \in 0 .. MaxJobs

ProgressInit ==
    /\ job = [m \in Macs |-> "off"]
    /\ posts = {}
    /\ entry = [m \in Macs |-> NoEntry]
    /\ jobs = 0

-----------------------------------------------------------------------------
(* The scripts.                                                            *)

Boots(m) ==
    /\ job[m] = "off" /\ jobs < MaxJobs
    /\ jobs' = jobs + 1

\* The image store is mounted, the script posts and starts its reporter.
JobStarts(m) ==
    /\ Boots(m)
    /\ job' = [job EXCEPT ![m] = "running"]
    /\ posts' = posts \cup {Post(m, "started")}
    /\ UNCHANGED entry

\* Without the image store, or with an image that does not fit the disk, the
\* script only says so and reboots.
JobRefused(m) ==
    /\ Boots(m)
    /\ posts' = posts \cup {Post(m, "failed")}
    /\ UNCHANGED <<job, entry>>

\* The reporter sends one post after the other.
Report(m) ==
    /\ job[m] = "running" /\ Post(m, "running") \notin posts
    /\ posts' = posts \cup {Post(m, "running")}
    /\ UNCHANGED <<job, entry, jobs>>

\* Killing the reporter does not kill the post it has under way.  A machine
\* that is switched off is one whose outcome is never handled.
JobEnds(m) ==
    /\ job[m] = "running"
    /\ job' = [job EXCEPT ![m] = "off"]
    /\ \E s \in Outcomes : posts' = posts \cup {Post(m, s)}
    /\ UNCHANGED <<entry, jobs>>

-----------------------------------------------------------------------------
(* The interface.                                                          *)

PostProgress(p) ==
    /\ p \in posts
    /\ entry' = [entry EXCEPT ![p.mac] = [status |-> p.status, age |-> 0]]
    /\ posts' = posts \ {p}
    /\ UNCHANGED <<job, jobs>>

\* Mutation: an entry is shown whatever its age.
GetProgressForever(m) == entry[m].status

\* The status of an entry that is not too old.
GetProgress(m) == IF entry[m].age > ProgressTTL THEN "none" ELSE entry[m].status

Ages(m) == entry[m] # NoEntry /\ entry[m].age <= ProgressTTL

\* Time passes for all entries.
Tick ==
    /\ \E m \in Macs : Ages(m)
    /\ entry' = [m \in Macs |-> IF Ages(m) THEN [entry[m] EXCEPT !.age = @ + 1] ELSE entry[m]]
    /\ UNCHANGED <<job, posts, jobs>>
=============================================================================
