----------------------------- MODULE ThreadPool ------------------------------
(***************************************************************************)
(* The thread pool of src/cbs.h (755-873): worker threads, a list of jobs, *)
(* one mutex and one condition variable for everybody.  A job is named by  *)
(* the number of the tpenq that has linked it; 0 is the null pointer.      *)
(* What happens under the mutex is one step, except where the field _stop, *)
(* which tpfree sets without it, is read.  Name_Slip is Name with a mistake *)
(* in it, used to see that the properties notice.                          *)
(***************************************************************************)
EXTENDS Integers

CONSTANTS
  Workers,     \* the threads of the pool
  Callers,     \* the threads that use it
  Nobody,      \* no thread
  Owned,       \* jobs whose argument is to be freed
  MaxJobs,     \* bound: calls of tpenq
  MaxSpurious  \* bound: wakeups without a reason

ASSUME PoolAssumption ==
  /\ Workers # {} /\ Workers \cap Callers = {}
  /\ Nobody \notin Workers \cup Callers
  /\ MaxJobs \in Nat /\ MaxSpurious \in Nat /\ Owned \subseteq 1..MaxJobs

VARIABLES
  mutex,      \* who holds _mtx
  asleep,     \* threads in pthread_cond_wait on _cnd
  stop, left, head, tail,
  next,       \* next[j]: as in struct _tjob
  live,       \* jobs that have been allocated and not been freed
  enqueued,   \* how many jobs there have been
  ran,        \* ran[j]: how often j's function has been called
  released,   \* released[j]: how often j's argument has been freed
  wpc, job,   \* where each worker is, and its j
  cpc, opc,   \* where each caller is, and what the owner makes of the pool
  spurious

list == <<head, tail, next, live, enqueued>>
work == <<ran, released>>
vars == <<mutex, asleep, stop, left, list, work, wpc, job, cpc, opc, spurious>>

Jobs == 1..MaxJobs

\* Worker w goes on at p; the owner does.
Goto(w, p) == wpc' = [wpc EXCEPT ![w] = p]

-----------------------------------------------------------------------------
(* The list of jobs.                                                       *)

\* Slip: the tail is not reset when the list becomes empty.
_tpdeq_Tail ==
  /\ head' = next[head]
  /\ UNCHANGED <<tail, next, enqueued>>

_tpdeq ==
  /\ head' = next[head]
  /\ tail' = IF head' = 0 THEN 0 ELSE tail
  /\ UNCHANGED <<next, enqueued>>

\* pthread_cond_signal wakes one of those asleep, whoever that is.
Signal == asleep' \in {asleep \ {t} : t \in asleep} \cup (IF asleep = {} THEN {{}} ELSE {})
Broadcast == asleep' = {}

\* Slip: nobody is told.
tpenq_Quiet(c) ==
  LET j == enqueued + 1 IN
  /\ opc = "use" /\ cpc[c] = "idle" /\ mutex = Nobody /\ j \in Jobs
  /\ next' = IF tail # 0 THEN [next EXCEPT ![tail] = j] ELSE next
  /\ head' = IF head = 0 THEN j ELSE head
  /\ tail' = j /\ live' = live \cup {j} /\ enqueued' = j
  /\ left' = left + 1
  /\ UNCHANGED <<mutex, asleep, stop, work, wpc, job, cpc, opc, spurious>>

tpenq(c) ==
  LET j == enqueued + 1 IN
  /\ opc = "use" /\ cpc[c] = "idle" /\ mutex = Nobody /\ j \in Jobs
  /\ next' = IF tail # 0 THEN [next EXCEPT ![tail] = j] ELSE next
  /\ head' = IF head = 0 THEN j ELSE head
  /\ tail' = j /\ live' = live \cup {j} /\ enqueued' = j
  /\ left' = left + 1
  /\ Signal
  /\ UNCHANGED <<mutex, stop, work, wpc, job, cpc, opc, spurious>>

-----------------------------------------------------------------------------
(* _tpwork.                                                                *)

\* The outer loop reads _stop without the mutex.
Top(w) ==
  /\ wpc[w] = "top"
  /\ Goto(w, IF stop THEN "exited" ELSE "lock")
  /\ UNCHANGED <<mutex, asleep, stop, left, list, work, job, cpc, opc, spurious>>

\* pthread_mutex_lock, or the end of pthread_cond_wait.
Lock(w) ==
  /\ wpc[w] = "lock" /\ w \notin asleep /\ mutex = Nobody
  /\ mutex' = w /\ Goto(w, "test")
  /\ UNCHANGED <<asleep, stop, left, list, work, job, cpc, opc, spurious>>

\* The condition of the inner loop.
Test(w) ==
  /\ wpc[w] = "test"
  /\ Goto(w, IF ~stop /\ head = 0 THEN "sleep" ELSE "take")
  /\ UNCHANGED <<mutex, asleep, stop, left, list, work, job, cpc, opc, spurious>>

Sleep(w) ==
  /\ wpc[w] = "sleep"
  /\ mutex' = Nobody /\ asleep' = asleep \cup {w} /\ Goto(w, "lock")
  /\ UNCHANGED <<stop, left, list, work, job, cpc, opc, spurious>>

Quit(w) ==
  /\ wpc[w] = "take" /\ stop
  /\ mutex' = Nobody /\ Goto(w, "exited")
  /\ UNCHANGED <<asleep, stop, left, list, work, job, cpc, opc, spurious>>

\* Slips: counts the job before it has been run; leaves it in the list.
Take_Counts(w) ==
  /\ wpc[w] = "take" /\ ~stop
  /\ job' = [job EXCEPT ![w] = head] /\ _tpdeq
  /\ mutex' = Nobody /\ Goto(w, "run") /\ left' = left - 1
  /\ UNCHANGED <<asleep, stop, live, work, cpc, opc, spurious>>

Take_Keeps(w) ==
  /\ wpc[w] = "take" /\ ~stop
  /\ job' = [job EXCEPT ![w] = head]
  /\ mutex' = Nobody /\ Goto(w, "run")
  /\ UNCHANGED <<asleep, stop, left, list, work, cpc, opc, spurious>>

Take(w) ==
  /\ wpc[w] = "take" /\ ~stop
  /\ job' = [job EXCEPT ![w] = head] /\ _tpdeq
  /\ mutex' = Nobody /\ Goto(w, "run")
  /\ UNCHANGED <<asleep, stop, left, live, work, cpc, opc, spurious>>

\* j->fn(j->arg)
Run(w) ==
  /\ wpc[w] = "run"
  /\ ran' = [ran EXCEPT ![job[w]] = @ + 1] /\ Goto(w, "release")
  /\ UNCHANGED <<mutex, asleep, stop, left, list, released, job, cpc, opc, spurious>>

\* Job j's argument and its place in memory are given back.
Freed(j) ==
  /\ released' = [released EXCEPT ![j] = IF j \in Owned THEN @ + 1 ELSE @]
  /\ live' = live \ {j}

Release(w) ==
  /\ wpc[w] = "release"
  /\ Freed(job[w]) /\ Goto(w, "finish")
  /\ UNCHANGED <<mutex, asleep, stop, left, head, tail, next, enqueued, ran, job, cpc,
                 opc, spurious>>

\* Slip: only one thread is told.
Finish_Signal(w) ==
  /\ wpc[w] = "finish" /\ mutex = Nobody
  /\ left' = left - 1 /\ Signal
  /\ job' = [job EXCEPT ![w] = 0] /\ Goto(w, "top")
  /\ UNCHANGED <<mutex, stop, list, work, cpc, opc, spurious>>

Finish(w) ==
  /\ wpc[w] = "finish" /\ mutex = Nobody
  /\ left' = left - 1 /\ Broadcast
  /\ job' = [job EXCEPT ![w] = 0] /\ Goto(w, "top")
  /\ UNCHANGED <<mutex, stop, list, work, cpc, opc, spurious>>

-----------------------------------------------------------------------------
(* The callers.                                                            *)

\* tpinit creates one thread after the other, and they start at once.
tpinit(w) ==
  /\ opc = "init" /\ wpc[w] = "none" /\ Goto(w, "top")
  /\ opc' = IF \A v \in Workers \ {w} : wpc[v] # "none" THEN "use" ELSE "init"
  /\ UNCHANGED <<mutex, asleep, stop, left, list, work, job, cpc, spurious>>

tpwait(c) ==
  /\ opc = "use" /\ cpc[c] = "idle"
  /\ cpc' = [cpc EXCEPT ![c] = "wait"]
  /\ UNCHANGED <<mutex, asleep, stop, left, list, work, wpc, job, opc, spurious>>

tpwait_sleeps(c) ==
  /\ cpc[c] = "wait" /\ c \notin asleep /\ mutex = Nobody
  /\ ~stop /\ left # 0
  /\ asleep' = asleep \cup {c}
  /\ UNCHANGED <<mutex, stop, left, list, work, wpc, job, cpc, opc, spurious>>

\* Slip: an if in place of the while.
tpwait_returns_Once(c) ==
  /\ cpc[c] = "wait" /\ c \notin asleep /\ mutex = Nobody
  /\ cpc' = [cpc EXCEPT ![c] = "idle"]
  /\ UNCHANGED <<mutex, asleep, stop, left, list, work, wpc, job, opc, spurious>>

tpwait_returns(c) ==
  /\ cpc[c] = "wait" /\ c \notin asleep /\ mutex = Nobody
  /\ stop \/ left = 0
  /\ cpc' = [cpc EXCEPT ![c] = "idle"]
  /\ UNCHANGED <<mutex, asleep, stop, left, list, work, wpc, job, opc, spurious>>

\* tpfree, once the pool is no longer in use: _stop is set without the mutex.
tpfree ==
  /\ opc = "use" /\ \A c \in Callers : cpc[c] = "idle"
  /\ stop' = TRUE /\ opc' = "wake"
  /\ UNCHANGED <<mutex, asleep, left, list, work, wpc, job, cpc, spurious>>

\* Slip: without the mutex.
tpfree_wakes_Unlocked ==
  /\ opc = "wake"
  /\ Broadcast /\ opc' = "join"
  /\ UNCHANGED <<mutex, stop, left, list, work, wpc, job, cpc, spurious>>

tpfree_wakes ==
  /\ opc = "wake" /\ mutex = Nobody
  /\ Broadcast /\ opc' = "join"
  /\ UNCHANGED <<mutex, stop, left, list, work, wpc, job, cpc, spurious>>

\* Slip: does not wait for the threads.
tpfree_joins_Not ==
  /\ opc = "join"
  /\ opc' = "drain"
  /\ UNCHANGED <<mutex, asleep, stop, left, list, work, wpc, job, cpc, spurious>>

tpfree_joins ==
  /\ opc = "join" /\ \A w \in Workers : wpc[w] = "exited"
  /\ opc' = "drain"
  /\ UNCHANGED <<mutex, asleep, stop, left, list, work, wpc, job, cpc, spurious>>

tpfree_drains ==
  /\ opc = "drain" /\ head # 0
  /\ Freed(head) /\ _tpdeq
  /\ UNCHANGED <<mutex, asleep, stop, left, ran, wpc, job, cpc, opc, spurious>>

tpfree_returns ==
  /\ opc = "drain" /\ head = 0
  /\ opc' = "gone"
  /\ UNCHANGED <<mutex, asleep, stop, left, list, work, wpc, job, cpc, spurious>>

\* pthread_cond_wait may return for no reason.
Spurious ==
  /\ spurious < MaxSpurious
  /\ \E t \in asleep : asleep' = asleep \ {t}
  /\ spurious' = spurious + 1
  /\ UNCHANGED <<mutex, stop, left, list, work, wpc, job, cpc, opc>>

-----------------------------------------------------------------------------
Init ==
  /\ mutex = Nobody /\ asleep = {} /\ stop = FALSE /\ left = 0
  /\ head = 0 /\ tail = 0 /\ next = [j \in Jobs |-> 0] /\ live = {} /\ enqueued = 0
  /\ ran = [j \in Jobs |-> 0] /\ released = [j \in Jobs |-> 0]
  /\ wpc = [w \in Workers |-> "none"] /\ job = [w \in Workers |-> 0]
  /\ cpc = [c \in Callers |-> "idle"] /\ opc = "init" /\ spurious = 0

WorkerSteps(w) ==
  \/ Top(w) \/ Lock(w) \/ Test(w) \/ Sleep(w) \/ Quit(w)
  \/ Take(w) \/ Run(w) \/ Release(w) \/ Finish(w)

Waiting(c) == tpwait_sleeps(c) \/ tpwait_returns(c)

Freeing == tpfree_wakes \/ tpfree_joins \/ tpfree_drains \/ tpfree_returns

Next ==
  \/ \E w \in Workers : tpinit(w) \/ WorkerSteps(w)
  \/ \E c \in Callers : tpenq(c) \/ tpwait(c) \/ Waiting(c)
  \/ tpfree \/ Freeing
  \/ Spurious

Spec == Init /\ [][Next]_vars

\* The system schedules every thread, and nobody holds the mutex for long.
FairSpec ==
  /\ Spec
  /\ \A w \in Workers : WF_vars(tpinit(w)) /\ WF_vars(WorkerSteps(w))
  /\ \A c \in Callers : WF_vars(Waiting(c))
  /\ WF_vars(Freeing)
=============================================================================
