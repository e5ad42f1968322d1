------------------------------- MODULE JobPool -------------------------------
(***************************************************************************)
(* What a thread pool promises, without threads, locks or lists: the       *)
(* comments of src/cbs.h (261-312) turned into a specification.  Jobs are  *)
(* numbered in the order in which they are handed in.                      *)
(***************************************************************************)
EXTENDS Naturals

CONSTANTS Callers, MaxJobs

VARIABLES
  place,    \* place[j]: what has become of job j
  waiting,  \* callers that wait for all jobs to be executed
  open      \* has the pool not been given up?

vars == <<place, waiting, open>>

Jobs == 1..MaxJobs
Places == {"new", "queued", "running", "done", "dropped"}

Init == place = [j \in Jobs |-> "new"] /\ waiting = {} /\ open = TRUE

\* j is the first of the jobs at p.
First(p, j) == place[j] = p /\ \A i \in Jobs : i < j => place[i] # p

Becomes(j, p) == place' = [place EXCEPT ![j] = p] /\ UNCHANGED <<waiting, open>>

Submit(j) == open /\ First("new", j) /\ Becomes(j, "queued")

\* Jobs are started in the order in which they came, and only while the pool
\* is open.
Start(j) == open /\ First("queued", j) /\ Becomes(j, "running")

Finish(j) == place[j] = "running" /\ Becomes(j, "done")

Ask(c) == open /\ waiting' = waiting \cup {c} /\ UNCHANGED <<place, open>>

\* Every job that has been handed in is done.
AllDone == \A j \in Jobs : place[j] \in {"new", "done"}

Answer(c) ==
  c \in waiting /\ AllDone /\ waiting' = waiting \ {c} /\ UNCHANGED <<place, open>>

Close == open /\ waiting = {} /\ open' = FALSE /\ UNCHANGED <<place, waiting>>

\* Jobs nobody waited for are thrown away once nothing is running any more.
Drop(j) ==
  /\ ~open /\ First("queued", j) /\ \A i \in Jobs : place[i] # "running"
  /\ Becomes(j, "dropped")

Next ==
  \/ \E j \in Jobs : Submit(j) \/ Start(j) \/ Finish(j) \/ Drop(j)
  \/ \E c \in Callers : Ask(c) \/ Answer(c)
  \/ Close

Spec == Init /\ [][Next]_vars
=============================================================================
