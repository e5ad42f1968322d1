--------------------------- MODULE PoolProperties ----------------------------
(***************************************************************************)
(* What is to hold of the thread pool.                                     *)
(***************************************************************************)
EXTENDS ThreadPool

WorkerPlaces ==
  {"none", "top", "lock", "test", "sleep", "take", "run", "release", "finish", "exited"}

\* Types of all variables.
TypeOK ==
  /\ mutex \in Workers \cup {Nobody} /\ asleep \subseteq Workers \cup Callers
  /\ stop \in BOOLEAN /\ left \in 0..MaxJobs /\ enqueued \in 0..MaxJobs
  /\ head \in 0..MaxJobs /\ tail \in 0..MaxJobs
  /\ next \in [Jobs -> 0..MaxJobs] /\ live \subseteq Jobs
  /\ ran \in [Jobs -> Nat] /\ released \in [Jobs -> Nat]
  /\ wpc \in [Workers -> WorkerPlaces] /\ job \in [Workers -> 0..MaxJobs]
  /\ cpc \in [Callers -> {"idle", "wait"}]
  /\ opc \in {"init", "use", "wake", "join", "drain", "gone"}
  /\ spurious \in 0..MaxSpurious

\* Jobs that are in the list.
Queued == IF head = 0 THEN {} ELSE head..enqueued
InHand == {job[w] : w \in Workers} \ {0}

\* The list holds exactly the jobs that nobody has taken yet, in the order in
\* which they came, its end is where tpenq writes, and none of it has been freed.
ListWhole ==
  /\ head = 0 <=> tail = 0
  /\ head # 0 => head \in 1..enqueued /\ tail = enqueued
  /\ \A j \in Queued : next[j] = IF j = enqueued THEN 0 ELSE j + 1
  /\ Queued \subseteq live /\ (tail # 0 => tail \in live)

\* A job's function is called at most once, and its argument freed at most once
\* and not before the function has returned, unless it is never called.
RunOnce ==
  \A j \in Jobs :
    /\ ran[j] <= 1 /\ released[j] <= 1
    /\ released[j] = 1 => ran[j] = 1 \/ opc \in {"drain", "gone"}

\* A job in the list has a thread that is going to see it, even if the signal
\* for it went to a thread that waits in tpwait on the same condition variable.
SomeoneAwake ==
  Queued # {} /\ ~stop =>
    \E w \in Workers : w \notin asleep /\ wpc[w] \notin {"sleep", "exited"}

\* After tpfree has woken the threads, none goes to sleep again.
NobodyOverslept ==
  opc \in {"join", "drain", "gone"} => \A w \in Workers : w \notin asleep /\ wpc[w] # "sleep"

\* After tpfree no thread is left that could use the pool, every job has been
\* freed, and every argument that was to be freed.
NothingLeft ==
  opc = "gone" =>
    /\ \A w \in Workers : wpc[w] = "exited"
    /\ live = {} /\ \A j \in Owned : j <= enqueued => released[j] = 1

\* The pool's memory is safe: its list is whole, and jobs, arguments and threads
\* are each gone once, when they have been used for the last time.
PoolSafe == ListWhole /\ RunOnce /\ NothingLeft

\* No wakeup is lost: neither that for a job nor that for the end of the pool.
WakeupsKept == SomeoneAwake /\ NobodyOverslept

\* What has become of job j.
Place(j) ==
  CASE j > enqueued    -> "new"
    [] j \in InHand    -> "running"
    [] j \in Queued    -> "queued"
    [] OTHER           -> IF ran[j] = 0 THEN "dropped" ELSE "done"

\* The pool does what it promises: jobs are executed in order and at most once,
\* and tpwait returns only when all of them have been executed.
Pool == INSTANCE JobPool WITH
  place <- [j \in Jobs |-> Place(j)],
  waiting <- {c \in Callers : cpc[c] = "wait"},
  open <- ~stop
PoolKept == Pool!Spec

\* A job that has been handed in is executed, unless the pool is given up.
JobsRun == \A j \in Jobs : (j <= enqueued) ~> (ran[j] = 1 \/ stop)

\* tpwait returns as long as nobody keeps handing in jobs (there are MaxJobs).
WaitEnds == \A c \in Callers : cpc[c] = "wait" ~> cpc[c] = "idle"

\* tpfree ends: every thread notices.
FreeEnds == stop ~> opc = "gone"

\* Nobody waits for ever: no job for a thread, and no user for the pool.
NothingHangs == JobsRun /\ WaitEnds /\ FreeEnds
=============================================================================
