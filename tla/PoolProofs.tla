----------------------------- MODULE PoolProofs ------------------------------
(***************************************************************************)
(* Proofs about the thread pool: its list, its jobs, its threads, and that *)
(* it does what JobPool promises, for any number of threads, users and     *)
(* jobs.                                                                   *)
(***************************************************************************)
EXTENDS PoolProperties, FiniteSetTheorems, TLAPS

-----------------------------------------------------------------------------
(* The inductive invariant.                                                *)

Holding == {"test", "sleep", "take"}
Working == {"run", "release", "finish"}
Over == {"join", "drain", "gone"}

\* Who holds the mutex, and what that keeps from changing.
MutexInv ==
  \A w \in Workers :
    /\ mutex = w <=> wpc[w] \in Holding
    /\ wpc[w] = "sleep" => head = 0
    /\ wpc[w] = "take" => stop \/ head # 0
    /\ w \in asleep => wpc[w] = "lock"

\* How far the pool is with its life.
PhaseInv ==
  /\ stop <=> opc \in {"wake"} \cup Over
  /\ opc # "use" => \A c \in Callers : cpc[c] = "idle"
  /\ opc = "init" => enqueued = 0
  /\ \A w \in Workers :
       /\ wpc[w] = "none" => opc = "init"
       /\ wpc[w] = "exited" => stop
       /\ opc \in {"drain", "gone"} => wpc[w] = "exited"
  /\ opc = "gone" => head = 0
  /\ \A c \in Callers : c \in asleep => cpc[c] = "wait"

\* A worker has a job of its own from the list to the end of its work.
HandInv ==
  /\ \A w \in Workers :
       /\ job[w] # 0 <=> wpc[w] \in Working
       /\ job[w] # 0 => job[w] \in (1..enqueued) \ Queued
  /\ \A v, w \in Workers : job[v] = job[w] /\ job[v] # 0 => v = w

\* The list, but for what is allocated.
Linked ==
  /\ head = 0 <=> tail = 0
  /\ head # 0 => head \in 1..enqueued /\ tail = enqueued
  /\ \A j \in Queued : next[j] = IF j = enqueued THEN 0 ELSE j + 1
  /\ \A j \in Jobs : j > enqueued => next[j] = 0

\* What has been done with every job.
Due(j) == IF j \in Owned THEN 1 ELSE 0
Untouched(j) == ran[j] = 0 /\ released[j] = 0
HandledInv ==
  /\ \A j \in Jobs : j > enqueued \/ j \in Queued => Untouched(j)
  /\ \A w \in Workers :
       /\ wpc[w] = "run" => Untouched(job[w])
       /\ wpc[w] = "release" => ran[job[w]] = 1 /\ released[job[w]] = 0
       /\ wpc[w] = "finish" =>
            ran[job[w]] = 1 /\ released[job[w]] = Due(job[w]) /\ job[w] \notin live
PastInv ==
  /\ \A j \in 1..enqueued : j \notin Queued /\ j \notin InHand =>
       /\ released[j] = Due(j) /\ j \notin live
       /\ ran[j] = 1 \/ (ran[j] = 0 /\ opc \in {"drain", "gone"})
  /\ live \subseteq 1..enqueued /\ Queued \subseteq live

\* left counts the jobs that are in the list or being worked on.
Open == Queued \cup InHand
CountInv ==
  /\ opc \notin {"drain", "gone"} => left = Cardinality(Open)
  /\ \A c \in Callers : c \in asleep => left # 0

Inv ==
  /\ TypeOK /\ MutexInv /\ PhaseInv /\ HandInv /\ Linked /\ HandledInv /\ PastInv
  /\ CountInv /\ SomeoneAwake /\ NobodyOverslept

-----------------------------------------------------------------------------
(* The list.                                                               *)

\* The jobs in the list are jobs.
LEMMA Listed ==
  ASSUME TypeOK, Linked
  PROVE  Queued \subseteq 1..enqueued /\ 1..enqueued \subseteq Jobs
<1>1. 1..enqueued \subseteq Jobs /\ MaxJobs \in Nat
  BY PoolAssumption DEF PoolAssumption, TypeOK, Jobs
<1>2. CASE head = 0
  BY <1>1, <1>2 DEF Queued
<1>3. CASE head # 0
  <2>1. Queued = head..enqueued /\ head \in 1..enqueued /\ enqueued \in Nat
    BY <1>3 DEF Queued, Linked, TypeOK
  <2> QED BY <1>1, <2>1
<1> QED BY <1>2, <1>3

\* Taking the first job off the list.
LEMMA Dequeued ==
  ASSUME TypeOK, Linked, head # 0, _tpdeq
  PROVE  /\ Linked' /\ head' \in 0..MaxJobs /\ tail' \in 0..MaxJobs
         /\ head \in Queued /\ Queued' = Queued \ {head}
<1>1. head \in Queued /\ head' = IF head = enqueued THEN 0 ELSE head + 1
  BY DEF Linked, Queued, _tpdeq, TypeOK
<1>2. Queued' = Queued \ {head}
  BY <1>1 DEF Linked, Queued, _tpdeq, TypeOK
<1>3. head' \in 0..MaxJobs /\ tail' \in 0..MaxJobs
  BY PoolAssumption, <1>1 DEF PoolAssumption, Linked, _tpdeq, TypeOK
<1>4. Linked'
  BY <1>1, <1>2 DEF Linked, _tpdeq, TypeOK
<1> QED BY <1>1, <1>2, <1>3, <1>4

\* Appending a job.
LEMMA Enqueued ==
  ASSUME TypeOK, Linked, NEW c \in Callers, tpenq(c)
  PROVE  /\ Linked' /\ head' \in 0..MaxJobs /\ tail' \in 0..MaxJobs
         /\ next' \in [Jobs -> 0..MaxJobs]
         /\ Queued' = Queued \cup {enqueued + 1} /\ enqueued + 1 \notin Queued
<1>1. enqueued + 1 \in Jobs /\ enqueued' = enqueued + 1 /\ tail' = enqueued + 1
  BY DEF tpenq
<1>2. head' = (IF head = 0 THEN enqueued + 1 ELSE head)
  BY DEF tpenq
<1>3. Queued' = Queued \cup {enqueued + 1} /\ enqueued + 1 \notin Queued
  BY <1>1, <1>2 DEF Linked, Queued, TypeOK
<1>4. next' \in [Jobs -> 0..MaxJobs]
  BY <1>1 DEF tpenq, TypeOK, Jobs
<1>5. \A j \in Queued' : next'[j] = IF j = enqueued' THEN 0 ELSE j + 1
  <2>1. CASE tail = 0
    <3>1. Queued' = {enqueued + 1} /\ next' = next /\ enqueued \in Nat
      BY <2>1, <1>3 DEF tpenq, Linked, Queued, TypeOK
    <3>2. next[enqueued + 1] = 0
      BY <1>1, <3>1 DEF Linked
    <3> QED BY <1>1, <3>1, <3>2
  <2>2. CASE tail # 0
    <3>1. tail = enqueued /\ tail \in Jobs /\ next' = [next EXCEPT ![tail] = enqueued + 1]
      BY <2>2 DEF tpenq, Linked, TypeOK, Jobs
    <3>2. Queued \subseteq Jobs /\ enqueued \in Nat /\ next \in [Jobs -> 0..MaxJobs]
      BY Listed DEF TypeOK
    <3>3. next'[tail] = enqueued + 1 /\ \A j \in Jobs \ {tail} : next'[j] = next[j]
      BY <3>1, <3>2
    <3>4. next'[enqueued + 1] = 0
      BY <1>1, <3>1, <3>2, <3>3 DEF Linked
    <3>5. \A j \in Queued \ {tail} : next'[j] = j + 1
      BY <3>1, <3>2, <3>3 DEF Linked
    <3>6. ASSUME NEW j \in Queued' PROVE next'[j] = IF j = enqueued' THEN 0 ELSE j + 1
      <4>1. j = enqueued + 1 \/ j = tail \/ j \in Queued \ {tail}
        BY <1>3
      <4>2. tail # enqueued + 1 /\ (j \in Queued => j # enqueued + 1)
        BY <1>3, <3>1, <3>2
      <4> QED BY <1>1, <3>1, <3>3, <3>4, <3>5, <4>1, <4>2
    <3> QED BY <3>6
  <2> QED BY <2>1, <2>2
<1>6. \A j \in Jobs : j > enqueued' => next'[j] = 0
  BY <1>1 DEF tpenq, Linked, TypeOK, Jobs
<1>7. head' \in 0..MaxJobs /\ tail' \in 0..MaxJobs /\ (head' = 0 <=> tail' = 0)
      /\ head' \in 1..enqueued'
  BY PoolAssumption, <1>1, <1>2 DEF PoolAssumption, TypeOK, Jobs, Linked
<1> QED BY <1>1, <1>3, <1>4, <1>5, <1>6, <1>7 DEF Linked

\* The jobs that are counted are finitely many.
LEMMA Counted ==
  ASSUME TypeOK, Linked, HandInv
  PROVE  /\ Open \subseteq 1..enqueued /\ IsFiniteSet(Open)
         /\ Cardinality(Open) \in Nat /\ Cardinality(Open) <= enqueued
<1>1. Open \subseteq 1..enqueued
  BY Listed DEF Open, InHand, HandInv
<1>2. enqueued \in Nat /\ IsFiniteSet(1..enqueued) /\ Cardinality(1..enqueued) = enqueued
  BY FS_Interval DEF TypeOK
<1> QED BY <1>1, <1>2, FS_Subset, FS_CardinalityType

\* A worker takes the first job.
LEMMA Taken ==
  ASSUME Inv, NEW w \in Workers, Take(w)
  PROVE  /\ head \in Queued /\ Queued' = Queued \ {head} /\ Linked'
         /\ job[w] = 0 /\ job' = [job EXCEPT ![w] = head] /\ head \notin InHand
         /\ InHand' = InHand \cup {head} /\ Open' = Open
<1>1. head # 0 /\ job[w] = 0 /\ job' = [job EXCEPT ![w] = head]
  BY DEF Inv, MutexInv, HandInv, Take, Working
<1>2. head \in Queued /\ Queued' = Queued \ {head} /\ Linked'
  BY <1>1, Dequeued DEF Inv, Take
<1>3. InHand' = InHand \cup {head} /\ head \notin InHand
  <2>1. head \notin InHand
    BY <1>2 DEF Inv, HandInv, InHand
  <2>2. job'[w] = head /\ \A v \in Workers \ {w} : job'[v] = job[v]
    BY <1>1 DEF Inv, TypeOK
  <2> QED BY <1>1, <2>1, <2>2 DEF InHand
<1> QED BY <1>1, <1>2, <1>3 DEF Open

\* A worker has done its job.
LEMMA Finished ==
  ASSUME Inv, NEW w \in Workers, Finish(w)
  PROVE  /\ job[w] \in InHand /\ job[w] \notin Queued
         /\ Queued' = Queued /\ InHand' = InHand \ {job[w]} /\ Open' = Open \ {job[w]}
<1>1. job[w] # 0 /\ job[w] \in InHand /\ job[w] \notin Queued
  BY DEF Inv, HandInv, Finish, Working, InHand
<1>2. Queued' = Queued
  BY DEF Finish, list, Queued
<1>3. job'[w] = 0 /\ \A v \in Workers \ {w} : job'[v] = job[v] /\ job[v] # job[w]
  BY <1>1 DEF Inv, HandInv, TypeOK, Finish
<1>4. InHand' = InHand \ {job[w]}
  BY <1>1, <1>3 DEF InHand
<1> QED BY <1>1, <1>2, <1>4 DEF Open

\* tpfree takes a job nobody is going to run off the list.
LEMMA Drained ==
  ASSUME Inv, tpfree_drains
  PROVE  /\ head \in Queued /\ Queued' = Queued \ {head} /\ Linked'
         /\ head' \in 0..MaxJobs /\ tail' \in 0..MaxJobs
         /\ InHand = {} /\ InHand' = {}
<1>1. \A w \in Workers : job[w] = 0
  BY DEF Inv, PhaseInv, HandInv, tpfree_drains, Working
<1> QED BY <1>1, Dequeued DEF Inv, tpfree_drains, InHand

-----------------------------------------------------------------------------
(* What every step keeps.                                                  *)

\* The job of a worker is one of the jobs, and is not in the list.
LEMMA InWork ==
  ASSUME Inv, NEW w \in Workers, wpc[w] \in Working
  PROVE  /\ job[w] \in Jobs /\ job[w] \in 1..enqueued /\ job[w] # 0
         /\ job[w] \notin Queued /\ job[w] \in InHand
         /\ \A v \in Workers \ {w} : job[v] # job[w]
  BY Listed DEF Inv, HandInv, InHand

\* What a step does to a worker that goes on at p.
LEMMA Went ==
  ASSUME TypeOK, NEW w \in Workers, NEW p, Goto(w, p)
  PROVE  wpc'[w] = p /\ \A v \in Workers \ {w} : wpc'[v] = wpc[v]
  BY DEF TypeOK, Goto

\* Types.
LEMMA TypesKept == ASSUME Inv, [Next]_vars PROVE TypeOK'
<1>1. ASSUME NEW w \in Workers, tpinit(w) PROVE TypeOK'
  BY <1>1 DEF Inv, tpinit, TypeOK, Goto, WorkerPlaces, list, work
<1>2. ASSUME NEW w \in Workers, Top(w) PROVE TypeOK'
  BY <1>2 DEF Inv, Top, TypeOK, Goto, WorkerPlaces, list, work
<1>3. ASSUME NEW w \in Workers, Lock(w) PROVE TypeOK'
  BY <1>3 DEF Inv, Lock, TypeOK, Goto, WorkerPlaces, list, work
<1>4. ASSUME NEW w \in Workers, Test(w) PROVE TypeOK'
  BY <1>4 DEF Inv, Test, TypeOK, Goto, WorkerPlaces, list, work
<1>5. ASSUME NEW w \in Workers, Sleep(w) PROVE TypeOK'
  BY <1>5 DEF Inv, Sleep, TypeOK, Goto, WorkerPlaces, list, work
<1>6. ASSUME NEW w \in Workers, Quit(w) PROVE TypeOK'
  BY <1>6 DEF Inv, Quit, TypeOK, Goto, WorkerPlaces, list, work
<1>7. ASSUME NEW w \in Workers, Take(w) PROVE TypeOK'
  <2>1. head' \in 0..MaxJobs /\ tail' \in 0..MaxJobs
    BY <1>7, Dequeued, Taken DEF Inv, Take, MutexInv
  <2>2. wpc' \in [Workers -> WorkerPlaces] /\ job' \in [Workers -> 0..MaxJobs]
    BY <1>7 DEF Inv, TypeOK, Take, Goto, WorkerPlaces
  <2>3. UNCHANGED <<asleep, stop, left, next, live, enqueued, ran, released, cpc, opc,
          spurious>>
        /\ mutex' = Nobody
    BY <1>7 DEF Take, _tpdeq, work
  <2> QED BY <2>1, <2>2, <2>3 DEF Inv, TypeOK
<1>8. ASSUME NEW w \in Workers, Run(w) PROVE TypeOK'
  <2>1. ran' \in [Jobs -> Nat]
    <3>1. job[w] \in Jobs
      BY <1>8, Listed DEF Inv, HandInv, Run, Working
    <3> QED BY <1>8, <3>1 DEF Inv, TypeOK, Run
  <2>2. wpc' \in [Workers -> WorkerPlaces]
    BY <1>8 DEF Inv, TypeOK, Run, Goto, WorkerPlaces
  <2> QED BY <1>8, <2>1, <2>2 DEF Inv, TypeOK, Run, list
<1>9. ASSUME NEW w \in Workers, Release(w) PROVE TypeOK'
  <2>1. released' \in [Jobs -> Nat] /\ live' \subseteq Jobs
    <3>1. job[w] \in Jobs
      BY <1>9, Listed DEF Inv, HandInv, Release, Working
    <3>2. released' = [released EXCEPT ![job[w]] = IF job[w] \in Owned THEN @ + 1 ELSE @]
          /\ live' = live \ {job[w]}
      BY <1>9 DEF Release, Freed
    <3> QED BY <3>1, <3>2 DEF Inv, TypeOK
  <2>2. wpc' \in [Workers -> WorkerPlaces]
    BY <1>9 DEF Inv, TypeOK, Release, Goto, WorkerPlaces
  <2> QED BY <1>9, <2>1, <2>2 DEF Inv, TypeOK, Release
<1>10. ASSUME NEW w \in Workers, Finish(w) PROVE TypeOK'
  <2>1. left - 1 \in 0..MaxJobs
    <3>1. left # 0 /\ left = Cardinality(Open)
      BY <1>10, Finished, Counted, FS_EmptySet DEF Inv, CountInv, Open, PhaseInv, Finish
    <3> QED BY <3>1, PoolAssumption DEF PoolAssumption, Inv, TypeOK
  <2>2. wpc' \in [Workers -> WorkerPlaces] /\ job' \in [Workers -> 0..MaxJobs]
    BY <1>10, PoolAssumption DEF PoolAssumption, Inv, TypeOK, Finish, Goto, WorkerPlaces
  <2>3. /\ UNCHANGED <<mutex, stop, head, tail, next, live, enqueued, ran, released, cpc, opc,
          spurious>>
        /\ asleep' = {} /\ left' = left - 1
    BY <1>10 DEF Finish, list, work, Broadcast
  <2> QED BY <2>1, <2>2, <2>3 DEF Inv, TypeOK
<1>11. ASSUME NEW c \in Callers, tpenq(c) PROVE TypeOK'
  <2>1. /\ head' \in 0..MaxJobs /\ tail' \in 0..MaxJobs /\ next' \in [Jobs -> 0..MaxJobs]
        /\ enqueued + 1 \in Jobs /\ enqueued' = enqueued + 1
    BY <1>11, Enqueued DEF Inv, tpenq
  <2>2. left' \in 0..MaxJobs
    <3>1. left = Cardinality(Open) /\ left <= enqueued /\ left' = left + 1
      BY <1>11, Counted DEF Inv, CountInv, tpenq
    <3> QED BY <2>1, <3>1, PoolAssumption DEF PoolAssumption, Inv, TypeOK, Jobs
  <2>3. asleep' \subseteq Workers \cup Callers
    BY <1>11 DEF Inv, TypeOK, tpenq, Signal
  <2>4. live' \subseteq Jobs /\ enqueued' \in 0..MaxJobs
    BY <1>11, <2>1 DEF Inv, TypeOK, tpenq, Jobs
  <2>5. UNCHANGED <<mutex, stop, ran, released, wpc, job, cpc, opc, spurious>>
    BY <1>11 DEF tpenq, work
  <2> QED BY <2>1, <2>2, <2>3, <2>4, <2>5 DEF Inv, TypeOK
<1>12. ASSUME NEW c \in Callers, tpwait(c) PROVE TypeOK'
  BY <1>12 DEF Inv, tpwait, TypeOK, Goto, WorkerPlaces, list, work
<1>13. ASSUME NEW c \in Callers, tpwait_sleeps(c) PROVE TypeOK'
  BY <1>13 DEF Inv, tpwait_sleeps, TypeOK, Goto, WorkerPlaces, list, work
<1>14. ASSUME NEW c \in Callers, tpwait_returns(c) PROVE TypeOK'
  BY <1>14 DEF Inv, tpwait_returns, TypeOK, Goto, WorkerPlaces, list, work
<1>15. CASE tpfree
  BY <1>15 DEF Inv, tpfree, TypeOK, Goto, WorkerPlaces, list, work
<1>16. CASE tpfree_wakes
  BY <1>16 DEF Inv, Broadcast, tpfree_wakes, TypeOK, Goto, WorkerPlaces, list, work
<1>17. CASE tpfree_joins
  BY <1>17 DEF Inv, tpfree_joins, TypeOK, Goto, WorkerPlaces, list, work
<1>18. CASE tpfree_drains
  <2>1. released' \in [Jobs -> Nat] /\ live' \subseteq Jobs
    <3>1. head \in Jobs
      BY <1>18, Drained, Listed DEF Inv
    <3>2. released' = [released EXCEPT ![head] = IF head \in Owned THEN @ + 1 ELSE @]
          /\ live' = live \ {head}
      BY <1>18 DEF tpfree_drains, Freed
    <3> QED BY <3>1, <3>2 DEF Inv, TypeOK
  <2>2. /\ head' \in 0..MaxJobs /\ tail' \in 0..MaxJobs
        /\ UNCHANGED <<mutex, asleep, stop, left, next, enqueued, ran, wpc, job, cpc, opc,
                spurious>>
    BY <1>18, Drained DEF tpfree_drains, _tpdeq
  <2> QED BY <2>1, <2>2 DEF Inv, TypeOK
<1>19. CASE tpfree_returns
  BY <1>19 DEF Inv, tpfree_returns, TypeOK, Goto, WorkerPlaces, list, work
<1>20. CASE Spurious
  BY <1>20, PoolAssumption DEF Inv, PoolAssumption, Spurious, TypeOK, Goto, WorkerPlaces,
       list, work
<1>21. CASE
     \/ UNCHANGED vars
  BY <1>21 DEF Inv, vars, list, work, TypeOK, WorkerPlaces
<1> QED BY <1>1, <1>2, <1>3, <1>4, <1>5, <1>6, <1>7, <1>8, <1>9, <1>10, <1>11,
     <1>12, <1>13, <1>14, <1>15, <1>16, <1>17, <1>18, <1>19, <1>20, <1>21 DEF
     Next, WorkerSteps, Waiting, Freeing

\* The mutex.
LEMMA MutexKept == ASSUME Inv, [Next]_vars PROVE MutexInv'
<1>1. ASSUME NEW w \in Workers, tpinit(w) PROVE MutexInv'
  BY <1>1, PoolAssumption DEF Inv, PoolAssumption, tpinit, TypeOK, MutexInv, Holding, Goto, list
<1>2. ASSUME NEW w \in Workers, Top(w) PROVE MutexInv'
  BY <1>2 DEF Inv, Top, TypeOK, MutexInv, Holding, Goto, list
<1>3. ASSUME NEW w \in Workers, Lock(w) PROVE MutexInv'
  BY <1>3, PoolAssumption DEF Inv, PoolAssumption, Lock, TypeOK, MutexInv, Holding, Goto, list
<1>4. ASSUME NEW w \in Workers, Test(w) PROVE MutexInv'
  BY <1>4 DEF Inv, Test, TypeOK, MutexInv, Holding, Goto, list
<1>5. ASSUME NEW w \in Workers, Sleep(w) PROVE MutexInv'
  BY <1>5, PoolAssumption DEF Inv, PoolAssumption, Sleep, TypeOK, MutexInv, Holding, Goto, list
<1>6. ASSUME NEW w \in Workers, Quit(w) PROVE MutexInv'
  BY <1>6, PoolAssumption DEF Inv, PoolAssumption, Quit, TypeOK, MutexInv, Holding, Goto, list
<1>7. ASSUME NEW w \in Workers, Take(w) PROVE MutexInv'
  BY <1>7, PoolAssumption DEF Inv, PoolAssumption, Take, TypeOK, MutexInv, Holding, Goto, list
<1>8. ASSUME NEW w \in Workers, Run(w) PROVE MutexInv'
  BY <1>8 DEF Inv, Run, TypeOK, MutexInv, Holding, Goto, list
<1>9. ASSUME NEW w \in Workers, Release(w) PROVE MutexInv'
  BY <1>9 DEF Inv, Release, TypeOK, MutexInv, Holding, Goto, list
<1>10. ASSUME NEW w \in Workers, Finish(w) PROVE MutexInv'
  BY <1>10, PoolAssumption DEF Inv, PoolAssumption, Broadcast, Finish, TypeOK, MutexInv,
       Holding, Goto, list
<1>11. ASSUME NEW c \in Callers, tpenq(c) PROVE MutexInv'
  BY <1>11, PoolAssumption DEF Inv, Signal, PoolAssumption, tpenq, TypeOK, MutexInv, Holding,
       Goto, list
<1>12. ASSUME NEW c \in Callers, tpwait_sleeps(c) PROVE MutexInv'
  BY <1>12, PoolAssumption DEF Inv, PoolAssumption, tpwait_sleeps, TypeOK, MutexInv, Holding,
       Goto, list
<1>13. CASE tpfree
  BY <1>13 DEF Inv, tpfree, TypeOK, MutexInv, Holding, Goto, list
<1>14. CASE tpfree_wakes
  BY <1>14 DEF Inv, Broadcast, tpfree_wakes, TypeOK, MutexInv, Holding, Goto, list
<1>15. CASE tpfree_drains
  BY <1>15 DEF Inv, PhaseInv, _tpdeq, tpfree_drains, TypeOK, MutexInv, Holding, Goto, list
<1>16. CASE Spurious
  BY <1>16 DEF Inv, Spurious, TypeOK, MutexInv, Holding, Goto, list
<1>17. CASE
     \/ \E c \in Callers : tpwait(c) \/ tpwait_returns(c)
     \/ tpfree_joins
     \/ tpfree_returns
     \/ UNCHANGED vars
  BY <1>17 DEF Inv, tpwait, tpwait_returns, tpfree_joins, tpfree_returns, vars,
     list, work, MutexInv, Holding, Goto, list
<1> QED BY <1>1, <1>2, <1>3, <1>4, <1>5, <1>6, <1>7, <1>8, <1>9, <1>10, <1>11,
     <1>12, <1>13, <1>14, <1>15, <1>16, <1>17 DEF Next, WorkerSteps, Waiting,
     Freeing

\* The pool's life.
LEMMA PhaseKept == ASSUME Inv, [Next]_vars PROVE PhaseInv'
<1>1. ASSUME NEW w \in Workers, tpinit(w) PROVE PhaseInv'
  BY <1>1 DEF Inv, tpinit, TypeOK, PhaseInv, Over, Goto, list
<1>2. ASSUME NEW w \in Workers, Top(w) PROVE PhaseInv'
  BY <1>2 DEF Inv, Top, TypeOK, PhaseInv, Over, Goto, list
<1>3. ASSUME NEW w \in Workers, Lock(w) PROVE PhaseInv'
  BY <1>3 DEF Inv, Lock, TypeOK, PhaseInv, Over, Goto, list
<1>4. ASSUME NEW w \in Workers, Test(w) PROVE PhaseInv'
  BY <1>4 DEF Inv, Test, TypeOK, PhaseInv, Over, Goto, list
<1>5. ASSUME NEW w \in Workers, Sleep(w) PROVE PhaseInv'
  BY <1>5, PoolAssumption DEF Inv, PoolAssumption, Sleep, TypeOK, PhaseInv, Over, Goto, list
<1>6. ASSUME NEW w \in Workers, Quit(w) PROVE PhaseInv'
  BY <1>6 DEF Inv, Quit, TypeOK, PhaseInv, Over, Goto, list
<1>7. ASSUME NEW w \in Workers, Take(w) PROVE PhaseInv'
  BY <1>7 DEF Inv, _tpdeq, Take, TypeOK, PhaseInv, Over, Goto, list
<1>8. ASSUME NEW w \in Workers, Run(w) PROVE PhaseInv'
  BY <1>8 DEF Inv, Run, TypeOK, PhaseInv, Over, Goto, list
<1>9. ASSUME NEW w \in Workers, Release(w) PROVE PhaseInv'
  BY <1>9 DEF Inv, Release, TypeOK, PhaseInv, Over, Goto, list
<1>10. ASSUME NEW w \in Workers, Finish(w) PROVE PhaseInv'
  BY <1>10 DEF Inv, Broadcast, Finish, TypeOK, PhaseInv, Over, Goto, list
<1>11. ASSUME NEW c \in Callers, tpenq(c) PROVE PhaseInv'
  BY <1>11 DEF Inv, Signal, tpenq, TypeOK, PhaseInv, Over, Goto, list
<1>12. ASSUME NEW c \in Callers, tpwait(c) PROVE PhaseInv'
  BY <1>12 DEF Inv, tpwait, TypeOK, PhaseInv, Over, Goto, list
<1>13. ASSUME NEW c \in Callers, tpwait_sleeps(c) PROVE PhaseInv'
  BY <1>13 DEF Inv, tpwait_sleeps, TypeOK, PhaseInv, Over, Goto, list
<1>14. ASSUME NEW c \in Callers, tpwait_returns(c) PROVE PhaseInv'
  BY <1>14 DEF Inv, tpwait_returns, TypeOK, PhaseInv, Over, Goto, list
<1>15. CASE tpfree
  BY <1>15 DEF Inv, tpfree, TypeOK, PhaseInv, Over, Goto, list
<1>16. CASE tpfree_wakes
  BY <1>16 DEF Inv, Broadcast, tpfree_wakes, TypeOK, PhaseInv, Over, Goto, list
<1>17. CASE tpfree_joins
  BY <1>17 DEF Inv, tpfree_joins, TypeOK, PhaseInv, Over, Goto, list
<1>18. CASE tpfree_drains
  BY <1>18 DEF Inv, _tpdeq, tpfree_drains, TypeOK, PhaseInv, Over, Goto, list
<1>19. CASE tpfree_returns
  BY <1>19 DEF Inv, tpfree_returns, TypeOK, PhaseInv, Over, Goto, list
<1>20. CASE Spurious
  BY <1>20 DEF Inv, Spurious, TypeOK, PhaseInv, Over, Goto, list
<1>21. CASE
     \/ UNCHANGED vars
  BY <1>21 DEF Inv, vars, list, work, PhaseInv, Over, Goto, list
<1> QED BY <1>1, <1>2, <1>3, <1>4, <1>5, <1>6, <1>7, <1>8, <1>9, <1>10, <1>11,
     <1>12, <1>13, <1>14, <1>15, <1>16, <1>17, <1>18, <1>19, <1>20, <1>21 DEF
     Next, WorkerSteps, Waiting, Freeing

\* The jobs of the workers.
LEMMA HandKept == ASSUME Inv, [Next]_vars PROVE HandInv'
<1>1. ASSUME NEW w \in Workers, Take(w) PROVE HandInv'
  <2>1. job'[w] = head /\ \A v \in Workers \ {w} : job'[v] = job[v]
    BY <1>1, Taken DEF Inv, TypeOK
  <2>2. wpc'[w] = "run" /\ \A v \in Workers \ {w} : wpc'[v] = wpc[v]
    BY <1>1 DEF Inv, TypeOK, Take, Goto
  <2>3. head # 0 /\ head \in (1..enqueued) \ Queued' /\ \A v \in Workers : job[v] # head
    BY <1>1, Taken, Listed DEF Inv, InHand
  <2>4. enqueued' = enqueued /\ Queued' \subseteq Queued
    BY <1>1, Taken DEF Take, _tpdeq
  <2> QED BY <1>1, <2>1, <2>2, <2>3, <2>4 DEF Inv, HandInv, Working
<1>2. ASSUME NEW w \in Workers, Finish(w) PROVE HandInv'
  <2>1. job'[w] = 0 /\ \A v \in Workers \ {w} : job'[v] = job[v]
    BY <1>2 DEF Inv, TypeOK, Finish
  <2>2. wpc'[w] = "top" /\ \A v \in Workers \ {w} : wpc'[v] = wpc[v]
    BY <1>2 DEF Inv, TypeOK, Finish, Goto
  <2>3. enqueued' = enqueued /\ Queued' = Queued
    BY <1>2, Finished DEF Finish, list
  <2> QED BY <1>2, <2>1, <2>2, <2>3 DEF Inv, HandInv, Working
<1>3. ASSUME NEW c \in Callers, tpenq(c) PROVE HandInv'
  <2>1. Queued' = Queued \cup {enqueued + 1} /\ enqueued' = enqueued + 1 /\ enqueued \in Nat
    BY <1>3, Enqueued DEF Inv, TypeOK, tpenq
  <2>2. \A j \in (1..enqueued) \ Queued : j \in (1..enqueued') \ Queued'
    BY <2>1
  <2>3. job' = job /\ wpc' = wpc
    BY <1>3 DEF tpenq
  <2> QED BY <2>2, <2>3 DEF Inv, HandInv
<1>4. CASE tpfree_drains
  <2>1. Queued' \subseteq Queued /\ enqueued' = enqueued /\ job' = job /\ wpc' = wpc
    BY <1>4, Drained DEF tpfree_drains, _tpdeq
  <2> QED BY <2>1 DEF Inv, HandInv
<1>5. CASE
     \/ \E w \in Workers : tpinit(w) \/ Top(w) \/ Lock(w) \/ Test(w) \/ Sleep(w) \/ Quit(w) \/
             Run(w) \/ Release(w)
     \/ \E c \in Callers : tpwait(c) \/ tpwait_sleeps(c) \/ tpwait_returns(c)
     \/ tpfree
     \/ tpfree_wakes
     \/ tpfree_joins
     \/ tpfree_returns
     \/ Spurious
     \/ UNCHANGED vars
  BY <1>5 DEF Inv, tpinit, Top, Lock, Test, Sleep, Quit, Run, Release, tpwait,
     tpwait_sleeps, tpwait_returns, tpfree, tpfree_wakes, tpfree_joins,
     tpfree_returns, Spurious, vars, list, work, TypeOK, HandInv, Working, Goto,
     list, Queued
<1> QED BY <1>1, <1>2, <1>3, <1>4, <1>5 DEF Next, WorkerSteps, Waiting, Freeing

\* The list.
LEMMA LinkedKept == ASSUME Inv, [Next]_vars PROVE Linked'
<1>1. ASSUME NEW w \in Workers, Take(w) PROVE Linked'
  BY <1>1, Taken
<1>2. ASSUME NEW c \in Callers, tpenq(c) PROVE Linked'
  BY <1>2, Enqueued DEF Inv
<1>3. CASE tpfree_drains
  BY <1>3, Drained
<1>4. CASE
     \/ \E w \in Workers : tpinit(w) \/ Top(w) \/ Lock(w) \/ Test(w) \/ Sleep(w) \/ Quit(w) \/
             Run(w) \/ Release(w) \/ Finish(w)
     \/ \E c \in Callers : tpwait(c) \/ tpwait_sleeps(c) \/ tpwait_returns(c)
     \/ tpfree
     \/ tpfree_wakes
     \/ tpfree_joins
     \/ tpfree_returns
     \/ Spurious
     \/ UNCHANGED vars
  BY <1>4 DEF Inv, tpinit, Top, Lock, Test, Sleep, Quit, Run, Release, Finish,
     tpwait, tpwait_sleeps, tpwait_returns, tpfree, tpfree_wakes, tpfree_joins,
     tpfree_returns, Spurious, vars, list, work, Linked, Queued, list
<1> QED BY <1>1, <1>2, <1>3, <1>4 DEF Next, WorkerSteps, Waiting, Freeing

\* What has been done to the jobs that are new, in the list or in hand.
LEMMA HandledKept == ASSUME Inv, [Next]_vars PROVE HandledInv'
<1>1. ASSUME NEW w \in Workers, Take(w) PROVE HandledInv'
  <2>1. /\ job'[w] = head /\ \A v \in Workers \ {w} : job'[v] = job[v]
        /\ wpc'[w] = "run" /\ \A v \in Workers \ {w} : wpc'[v] = wpc[v]
    BY <1>1, Taken, Went DEF Inv, TypeOK, Take
  <2>2. UNCHANGED <<ran, released, live, enqueued>> /\ Queued' \subseteq Queued
    BY <1>1, Taken DEF Take, work, _tpdeq
  <2>3. head \in Jobs /\ Untouched(head)
    BY <1>1, Taken, Listed DEF Inv, HandledInv
  <2> QED BY <2>1, <2>2, <2>3 DEF Inv, HandledInv, Untouched, Due, Jobs
<1>2. ASSUME NEW w \in Workers, Run(w) PROVE HandledInv'
  <2>1. /\ job' = job /\ UNCHANGED <<released, live, enqueued>> /\ Queued' = Queued
        /\ wpc'[w] = "release" /\ \A v \in Workers \ {w} : wpc'[v] = wpc[v]
    BY <1>2, Went DEF Inv, Run, list, Queued
  <2>2. /\ ran'[job[w]] = 1 /\ \A j \in Jobs \ {job[w]} : ran'[j] = ran[j]
        /\ released[job[w]] = 0
    BY <1>2, InWork DEF Inv, TypeOK, Run, HandledInv, Untouched, Working
  <2>3. /\ job[w] \in 1..enqueued /\ job[w] \notin Queued
        /\ \A v \in Workers \ {w} : wpc[v] \in Working => job[v] \in Jobs \ {job[w]}
    BY <1>2, InWork DEF Run, Working
  <2>4. enqueued \in Nat
    BY DEF Inv, TypeOK
  <2> QED BY <2>1, <2>2, <2>3, <2>4 DEF Inv, HandledInv, Untouched, Due, Jobs, Working
<1>3. ASSUME NEW w \in Workers, Release(w) PROVE HandledInv'
  <2>1. /\ job' = job /\ UNCHANGED <<ran, enqueued>> /\ Queued' = Queued /\ live' = live \
          {job[w]}
        /\ wpc'[w] = "finish" /\ \A v \in Workers \ {w} : wpc'[v] = wpc[v]
    BY <1>3, Went DEF Inv, Release, Freed, Queued
  <2>2. /\ released'[job[w]] = Due(job[w]) /\ ran[job[w]] = 1
        /\ \A j \in Jobs \ {job[w]} : released'[j] = released[j]
    BY <1>3, InWork DEF Inv, TypeOK, Release, Freed, HandledInv, Due, Working
  <2>3. /\ job[w] \in 1..enqueued /\ job[w] \notin Queued
        /\ \A v \in Workers \ {w} : wpc[v] \in Working => job[v] \in Jobs \ {job[w]}
    BY <1>3, InWork DEF Release, Working
  <2>4. enqueued \in Nat
    BY DEF Inv, TypeOK
  <2> QED BY <2>1, <2>2, <2>3, <2>4 DEF Inv, HandledInv, Untouched, Due, Jobs, Working
<1>4. ASSUME NEW w \in Workers, Finish(w) PROVE HandledInv'
  <2>1. /\ \A v \in Workers \ {w} : job'[v] = job[v] /\ wpc'[v] = wpc[v]
        /\ wpc'[w] = "top"
        /\ UNCHANGED <<ran, released, live, enqueued>> /\ Queued' = Queued
    BY <1>4, Finished, Went DEF Inv, TypeOK, Finish, list, work
  <2> QED BY <2>1 DEF Inv, HandledInv, Untouched, Due, Jobs
<1>5. ASSUME NEW c \in Callers, tpenq(c) PROVE HandledInv'
  <2>1. /\ Queued' = Queued \cup {enqueued + 1} /\ enqueued' = enqueued + 1 /\ enqueued \in Nat
        /\ UNCHANGED <<ran, released, job, wpc>> /\ live' = live \cup {enqueued + 1}
    BY <1>5, Enqueued DEF Inv, TypeOK, tpenq, work
  <2>2. \A v \in Workers : wpc[v] = "finish" => job[v] # enqueued + 1
    BY <2>1, InWork DEF Working
  <2> QED BY <2>1, <2>2 DEF Inv, HandledInv, Untouched, Due, Jobs
<1>6. CASE tpfree_drains
  <2>1. /\ Queued' = Queued \ {head} /\ UNCHANGED <<ran, enqueued, job, wpc>>
        /\ live' \subseteq live /\ head \in Queued /\ head \in 1..enqueued /\ enqueued \in Nat
        /\ \A j \in Jobs \ {head} : released'[j] = released[j]
    BY <1>6, Drained, Listed DEF Inv, TypeOK, tpfree_drains, Freed, _tpdeq
  <2>2. \A v \in Workers : wpc[v] = "exited"
    BY <1>6 DEF Inv, PhaseInv, tpfree_drains
  <2> QED BY <2>1, <2>2 DEF Inv, HandledInv, Untouched, Due, Jobs
<1>7. CASE
     \/ \E w \in Workers : tpinit(w) \/ Top(w) \/ Lock(w) \/ Test(w) \/ Sleep(w) \/ Quit(w)
     \/ \E c \in Callers : tpwait(c) \/ tpwait_sleeps(c) \/ tpwait_returns(c)
     \/ tpfree
     \/ tpfree_wakes
     \/ tpfree_joins
     \/ tpfree_returns
     \/ Spurious
     \/ UNCHANGED vars
  BY <1>7 DEF Inv, tpinit, Top, Lock, Test, Sleep, Quit, tpwait, tpwait_sleeps,
     tpwait_returns, tpfree, tpfree_wakes, tpfree_joins, tpfree_returns,
     Spurious, vars, list, work, TypeOK, HandledInv, Untouched, Due, list, work,
     Queued, Goto
<1> QED BY <1>1, <1>2, <1>3, <1>4, <1>5, <1>6, <1>7 DEF Next, WorkerSteps,
     Waiting, Freeing

\* What has become of the jobs that are neither in the list nor in hand.
LEMMA PastKept == ASSUME Inv, [Next]_vars PROVE PastInv'
<1>1. ASSUME NEW w \in Workers, tpinit(w) PROVE PastInv'
  BY <1>1 DEF Inv, tpinit, TypeOK, PastInv, Queued, InHand, Due, list, work
<1>2. ASSUME NEW w \in Workers, Take(w) PROVE PastInv'
  <2>1. /\ Queued' = Queued \ {head} /\ InHand' = InHand \cup {head}
        /\ UNCHANGED <<ran, released, live, enqueued, opc>>
    BY <1>2, Taken DEF Take, work, _tpdeq
  <2> QED BY <2>1 DEF Inv, PastInv, Due
<1>3. ASSUME NEW w \in Workers, Run(w) PROVE PastInv'
  <2>1. Queued' = Queued /\ InHand' = InHand /\ UNCHANGED <<released, live, enqueued, opc>>
    BY <1>3 DEF Run, list, Queued, InHand
  <2>2. job[w] \in InHand /\ \A j \in Jobs \ {job[w]} : ran'[j] = ran[j]
    BY <1>3, InWork DEF Inv, TypeOK, Run, Working
  <2> QED BY <2>1, <2>2, Listed DEF Inv, PastInv, Due
<1>4. ASSUME NEW w \in Workers, Release(w) PROVE PastInv'
  <2>1. /\ Queued' = Queued /\ InHand' = InHand /\ UNCHANGED <<ran, enqueued, opc>>
        /\ live' = live \ {job[w]}
    BY <1>4 DEF Release, Freed, Queued, InHand
  <2>2. /\ job[w] \in InHand /\ job[w] \notin Queued
        /\ \A j \in Jobs \ {job[w]} : released'[j] = released[j]
    BY <1>4, InWork DEF Inv, TypeOK, Release, Freed, Working
  <2> QED BY <2>1, <2>2, Listed DEF Inv, PastInv, Due
<1>5. ASSUME NEW w \in Workers, Finish(w) PROVE PastInv'
  <2>1. /\ Queued' = Queued /\ InHand' = InHand \ {job[w]}
        /\ UNCHANGED <<ran, released, live, enqueued, opc>>
    BY <1>5, Finished DEF Finish, list, work
  <2>2. ran[job[w]] = 1 /\ released[job[w]] = Due(job[w]) /\ job[w] \notin live
    BY <1>5 DEF Inv, HandledInv, Finish
  <2> QED BY <2>1, <2>2 DEF Inv, PastInv, Due
<1>6. ASSUME NEW c \in Callers, tpenq(c) PROVE PastInv'
  <2>1. /\ Queued' = Queued \cup {enqueued + 1} /\ enqueued' = enqueued + 1 /\ enqueued \in Nat
        /\ UNCHANGED <<ran, released, opc>> /\ live' = live \cup {enqueued + 1}
        /\ InHand' = InHand
    BY <1>6, Enqueued DEF Inv, TypeOK, tpenq, work, InHand
  <2> QED BY <2>1 DEF Inv, PastInv, Due
<1>7. CASE tpfree
  BY <1>7 DEF Inv, tpfree, TypeOK, PastInv, Queued, InHand, Due, list, work
<1>8. CASE tpfree_wakes
  BY <1>8 DEF Inv, tpfree_wakes, TypeOK, PastInv, Queued, InHand, Due, list, work
<1>9. CASE tpfree_joins
  BY <1>9 DEF Inv, tpfree_joins, TypeOK, PastInv, Queued, InHand, Due, list, work
<1>10. CASE tpfree_drains
  <2>1. /\ Queued' = Queued \ {head} /\ UNCHANGED <<ran, enqueued, opc>> /\ InHand' = InHand
        /\ live' = live \ {head} /\ head \in Queued /\ opc = "drain"
    BY <1>10, Drained DEF tpfree_drains, Freed, _tpdeq
  <2>2. /\ ran[head] = 0 /\ released'[head] = Due(head)
        /\ \A j \in Jobs \ {head} : released'[j] = released[j]
    BY <1>10, Drained, Listed DEF Inv, TypeOK, HandledInv, Untouched, tpfree_drains, Freed, Due
  <2> QED BY <2>1, <2>2, Listed DEF Inv, PastInv, Due
<1>11. CASE tpfree_returns
  BY <1>11 DEF Inv, tpfree_returns, TypeOK, PastInv, Queued, InHand, Due, list, work
<1>12. CASE
     \/ \E w \in Workers : Top(w) \/ Lock(w) \/ Test(w) \/ Sleep(w) \/ Quit(w)
     \/ \E c \in Callers : tpwait(c) \/ tpwait_sleeps(c) \/ tpwait_returns(c)
     \/ Spurious
     \/ UNCHANGED vars
  <2>1. UNCHANGED <<head, enqueued, job, ran, released, live, opc>>
    BY <1>12 DEF Top, Lock, Test, Sleep, Quit, tpwait, tpwait_sleeps,
       tpwait_returns, Spurious, vars, list, work
  <2> QED BY <2>1 DEF Inv, PastInv, Queued, InHand, Due
<1> QED BY <1>1, <1>2, <1>3, <1>4, <1>5, <1>6, <1>7, <1>8, <1>9, <1>10, <1>11,
     <1>12 DEF Next, WorkerSteps, Waiting, Freeing

\* The count of the jobs that are left.
LEMMA CountKept == ASSUME Inv, [Next]_vars PROVE CountInv'
<1>1. ASSUME NEW w \in Workers, tpinit(w) PROVE CountInv'
  <2>1. Open' = Open /\ UNCHANGED <<left, asleep>> /\ opc = "init"
    BY <1>1 DEF tpinit, Open, Queued, InHand, list
  <2> QED BY <2>1 DEF Inv, CountInv
<1>2. ASSUME NEW w \in Workers, Sleep(w) PROVE CountInv'
  <2>1. Open' = Open /\ UNCHANGED <<left, opc>> /\ asleep' = asleep \cup {w}
    BY <1>2 DEF Sleep, Open, Queued, InHand, list
  <2> QED BY <2>1, PoolAssumption DEF PoolAssumption, Inv, CountInv
<1>3. ASSUME NEW w \in Workers, Take(w) PROVE CountInv'
  <2>1. Open' = Open /\ UNCHANGED <<left, asleep, opc>>
    BY <1>3, Taken DEF Take
  <2> QED BY <2>1 DEF Inv, CountInv
<1>4. ASSUME NEW w \in Workers, Finish(w) PROVE CountInv'
  <2>1. job[w] \in Open /\ Open' = Open \ {job[w]} /\ left' = left - 1 /\ asleep' = {} /\ opc'
          = opc
    BY <1>4, Finished DEF Finish, Broadcast, Open
  <2>2. IsFiniteSet(Open)
    BY Counted DEF Inv
  <2> QED BY <2>1, <2>2, FS_RemoveElement DEF Inv, CountInv
<1>5. ASSUME NEW c \in Callers, tpenq(c) PROVE CountInv'
  <2>1. /\ Open' = Open \cup {enqueued + 1} /\ left' = left + 1 /\ left \in Nat
        /\ opc' = opc /\ opc = "use" /\ enqueued \in Nat
    BY <1>5, Enqueued DEF Inv, TypeOK, tpenq, Open, InHand
  <2>2. IsFiniteSet(Open) /\ Open \subseteq 1..enqueued
    BY Counted DEF Inv
  <2>3. enqueued + 1 \notin Open
    BY <2>1, <2>2
  <2>4. left' = Cardinality(Open')
    BY <2>1, <2>2, <2>3, FS_AddElement DEF Inv, CountInv
  <2> QED BY <2>1, <2>4 DEF CountInv
<1>6. ASSUME NEW c \in Callers, tpwait_sleeps(c) PROVE CountInv'
  <2>1. Open' = Open /\ UNCHANGED <<left, opc>> /\ left # 0
    BY <1>6 DEF tpwait_sleeps, Open, Queued, InHand, list
  <2> QED BY <2>1 DEF Inv, CountInv
<1>7. CASE tpfree
  <2>1. Open' = Open /\ UNCHANGED <<left, asleep>> /\ opc = "use"
    BY <1>7 DEF tpfree, Open, Queued, InHand, list
  <2> QED BY <2>1 DEF Inv, CountInv
<1>8. CASE tpfree_wakes
  <2>1. Open' = Open /\ left' = left /\ asleep' = {} /\ opc = "wake"
    BY <1>8 DEF tpfree_wakes, Broadcast, Open, Queued, InHand, list
  <2> QED BY <2>1 DEF Inv, CountInv
<1>9. CASE tpfree_joins
  <2>1. UNCHANGED <<left, asleep>> /\ opc' = "drain"
    BY <1>9 DEF tpfree_joins
  <2> QED BY <2>1 DEF Inv, CountInv
<1>10. CASE tpfree_drains
  <2>1. UNCHANGED <<left, asleep, opc>> /\ opc = "drain"
    BY <1>10 DEF tpfree_drains
  <2> QED BY <2>1 DEF Inv, CountInv
<1>11. CASE tpfree_returns
  <2>1. UNCHANGED <<left, asleep>> /\ opc' = "gone"
    BY <1>11 DEF tpfree_returns
  <2> QED BY <2>1 DEF Inv, CountInv
<1>12. CASE Spurious
  <2>1. Open' = Open /\ UNCHANGED <<left, opc>> /\ asleep' \subseteq asleep
    BY <1>12 DEF Spurious, Open, Queued, InHand, list
  <2> QED BY <2>1 DEF Inv, CountInv
<1>13. CASE
     \/ \E w \in Workers : Top(w) \/ Lock(w) \/ Test(w) \/ Quit(w) \/ Run(w) \/ Release(w)
     \/ \E c \in Callers : tpwait(c) \/ tpwait_returns(c)
     \/ UNCHANGED vars
  <2>1. UNCHANGED <<head, enqueued, job, left, asleep, opc>>
    BY <1>13 DEF Top, Lock, Test, Quit, Run, Release, tpwait, tpwait_returns,
       vars, list, work
  <2> QED BY <2>1 DEF Inv, CountInv, Open, Queued, InHand
<1> QED BY <1>1, <1>2, <1>3, <1>4, <1>5, <1>6, <1>7, <1>8, <1>9, <1>10, <1>11,
     <1>12, <1>13 DEF Next, WorkerSteps, Waiting, Freeing

\* Somebody is awake as long as there is work.
LEMMA AwakeKept == ASSUME Inv, [Next]_vars PROVE SomeoneAwake'
<1>1. ASSUME NEW w \in Workers, tpinit(w) PROVE SomeoneAwake'
  BY <1>1 DEF Inv, Goto, tpinit, TypeOK, SomeoneAwake, Queued, list
<1>2. ASSUME NEW w \in Workers, Top(w) PROVE SomeoneAwake'
  BY <1>2 DEF Inv, Goto, Top, TypeOK, SomeoneAwake, Queued, list
<1>3. ASSUME NEW w \in Workers, Lock(w) PROVE SomeoneAwake'
  BY <1>3 DEF Inv, Goto, Lock, TypeOK, SomeoneAwake, Queued, list
<1>4. ASSUME NEW w \in Workers, Test(w) PROVE SomeoneAwake'
  <2>1. /\ wpc'[w] = (IF ~stop /\ head = 0 THEN "sleep" ELSE "take") /\ w \notin asleep
        /\ UNCHANGED <<stop, asleep, head>>
    BY <1>4, Went DEF Inv, MutexInv, Test, list
  <2> QED BY <2>1 DEF SomeoneAwake, Queued
<1>5. ASSUME NEW w \in Workers, Sleep(w) PROVE SomeoneAwake'
  <2>1. head' = 0
    BY <1>5 DEF Inv, MutexInv, Sleep, list
  <2> QED BY <2>1 DEF SomeoneAwake, Queued
<1>6. ASSUME NEW w \in Workers, Quit(w) PROVE SomeoneAwake'
  BY <1>6 DEF Inv, Goto, Quit, TypeOK, SomeoneAwake, Queued, list
<1>7. ASSUME NEW w \in Workers, Take(w) PROVE SomeoneAwake'
  <2>1. wpc'[w] = "run" /\ w \notin asleep /\ asleep' = asleep
    BY <1>7, Went DEF Inv, MutexInv, Take
  <2> QED BY <2>1 DEF SomeoneAwake
<1>8. ASSUME NEW w \in Workers, Run(w) PROVE SomeoneAwake'
  BY <1>8 DEF Inv, Goto, Run, TypeOK, SomeoneAwake, Queued, list
<1>9. ASSUME NEW w \in Workers, Release(w) PROVE SomeoneAwake'
  BY <1>9 DEF Inv, Goto, Release, TypeOK, SomeoneAwake, Queued, list
<1>10. ASSUME NEW w \in Workers, Finish(w) PROVE SomeoneAwake'
  <2>1. wpc'[w] = "top" /\ asleep' = {}
    BY <1>10, Went DEF Inv, Finish, Broadcast
  <2> QED BY <2>1 DEF SomeoneAwake
<1>11. ASSUME NEW c \in Callers, tpenq(c) PROVE SomeoneAwake'
  <2>1. mutex = Nobody /\ wpc' = wpc /\ opc = "use" /\ asleep' \subseteq asleep
    BY <1>11 DEF tpenq, Signal
  <2>2. \A w \in Workers : wpc[w] \notin {"sleep", "exited"}
    BY <2>1, PoolAssumption DEF PoolAssumption, Inv, MutexInv, PhaseInv, Over, Holding
  <2>3. CASE asleep = {}
    BY <2>1, <2>2, <2>3, PoolAssumption DEF PoolAssumption, SomeoneAwake
  <2>4. CASE asleep # {}
    <3>1. PICK t \in asleep : asleep' = asleep \ {t}
      BY <1>11, <2>4 DEF tpenq, Signal
    <3>2. CASE t \in Workers
      BY <2>1, <2>2, <3>1, <3>2 DEF SomeoneAwake
    <3>3. CASE t \in Callers
      \* The signal has gone to a thread in tpwait: that one only waits because
      \* there is work, and so a worker is at it or will find it.
      <4>1. Open # {}
        <5>1. left # 0 /\ left = Cardinality(Open)
          BY <2>1, <3>1, <3>3 DEF Inv, CountInv
        <5> QED BY <5>1, FS_EmptySet
      <4>2. CASE Queued # {}
        <5>1. ~stop
          BY <2>1 DEF Inv, PhaseInv, Over
        <5> QED BY <2>1, <4>2, <5>1 DEF Inv, SomeoneAwake
      <4>3. CASE InHand # {}
        <5>1. PICK w \in Workers : job[w] # 0
          BY <4>3 DEF InHand
        <5>2. wpc[w] \in Working /\ w \notin asleep
          BY <5>1 DEF Inv, HandInv, MutexInv, Working
        <5> QED BY <2>1, <2>2, <5>2 DEF SomeoneAwake
      <4> QED BY <4>1, <4>2, <4>3 DEF Open
    <3> QED BY <3>1, <3>2, <3>3 DEF Inv, TypeOK
  <2> QED BY <2>3, <2>4
<1>12. ASSUME NEW c \in Callers, tpwait_sleeps(c) PROVE SomeoneAwake'
  <2>1. UNCHANGED <<head, enqueued, stop, wpc>> /\ asleep' = asleep \cup {c}
    BY <1>12 DEF tpwait_sleeps, list
  <2> QED BY <2>1, PoolAssumption DEF PoolAssumption, Inv, SomeoneAwake, Queued
<1>13. CASE tpfree
  BY <1>13 DEF Inv, tpfree, TypeOK, SomeoneAwake, Queued, list
<1>14. CASE tpfree_wakes
  <2>1. stop'
    BY <1>14 DEF Inv, PhaseInv, Over, tpfree_wakes
  <2> QED BY <2>1 DEF SomeoneAwake
<1>15. CASE tpfree_drains
  <2>1. stop'
    BY <1>15 DEF Inv, PhaseInv, Over, tpfree_drains
  <2> QED BY <2>1 DEF SomeoneAwake
<1>16. CASE Spurious
  BY <1>16 DEF Inv, Spurious, TypeOK, SomeoneAwake, Queued, list
<1>17. CASE
     \/ \E c \in Callers : tpwait(c) \/ tpwait_returns(c)
     \/ tpfree_joins
     \/ tpfree_returns
     \/ UNCHANGED vars
  <2>1. UNCHANGED <<head, enqueued, stop, asleep, wpc>>
    BY <1>17 DEF tpwait, tpwait_returns, tpfree_joins, tpfree_returns, vars,
       list, work
  <2> QED BY <2>1 DEF Inv, SomeoneAwake, Queued
<1> QED BY <1>1, <1>2, <1>3, <1>4, <1>5, <1>6, <1>7, <1>8, <1>9, <1>10, <1>11,
     <1>12, <1>13, <1>14, <1>15, <1>16, <1>17 DEF Next, WorkerSteps, Waiting,
     Freeing

\* Nobody goes to sleep once the pool has been given up.
LEMMA OversleptKept == ASSUME Inv, [Next]_vars PROVE NobodyOverslept'
<1>1. ASSUME NEW w \in Workers, tpinit(w) PROVE NobodyOverslept'
  BY <1>1 DEF Inv, tpinit, TypeOK, NobodyOverslept, PhaseInv, MutexInv, Holding, Over, Goto
<1>2. ASSUME NEW w \in Workers, Top(w) PROVE NobodyOverslept'
  BY <1>2 DEF Inv, Top, TypeOK, NobodyOverslept, PhaseInv, MutexInv, Holding, Over, Goto
<1>3. ASSUME NEW w \in Workers, Lock(w) PROVE NobodyOverslept'
  BY <1>3 DEF Inv, Lock, TypeOK, NobodyOverslept, PhaseInv, MutexInv, Holding, Over, Goto
<1>4. ASSUME NEW w \in Workers, Test(w) PROVE NobodyOverslept'
  BY <1>4 DEF Inv, Test, TypeOK, NobodyOverslept, PhaseInv, MutexInv, Holding, Over, Goto
<1>5. ASSUME NEW w \in Workers, Sleep(w) PROVE NobodyOverslept'
  BY <1>5 DEF Inv, Sleep, TypeOK, NobodyOverslept, PhaseInv, MutexInv, Holding, Over, Goto
<1>6. ASSUME NEW w \in Workers, Quit(w) PROVE NobodyOverslept'
  BY <1>6 DEF Inv, Quit, TypeOK, NobodyOverslept, PhaseInv, MutexInv, Holding, Over, Goto
<1>7. ASSUME NEW w \in Workers, Take(w) PROVE NobodyOverslept'
  BY <1>7 DEF Inv, Take, TypeOK, NobodyOverslept, PhaseInv, MutexInv, Holding, Over, Goto
<1>8. ASSUME NEW w \in Workers, Run(w) PROVE NobodyOverslept'
  BY <1>8 DEF Inv, Run, TypeOK, NobodyOverslept, PhaseInv, MutexInv, Holding, Over, Goto
<1>9. ASSUME NEW w \in Workers, Release(w) PROVE NobodyOverslept'
  BY <1>9 DEF Inv, Release, TypeOK, NobodyOverslept, PhaseInv, MutexInv, Holding, Over, Goto
<1>10. ASSUME NEW w \in Workers, Finish(w) PROVE NobodyOverslept'
  BY <1>10 DEF Inv, Broadcast, Finish, TypeOK, NobodyOverslept, PhaseInv, MutexInv, Holding,
       Over, Goto
<1>11. ASSUME NEW c \in Callers, tpenq(c) PROVE NobodyOverslept'
  BY <1>11 DEF Inv, Signal, tpenq, TypeOK, NobodyOverslept, PhaseInv, MutexInv, Holding, Over,
       Goto
<1>12. ASSUME NEW c \in Callers, tpwait_sleeps(c) PROVE NobodyOverslept'
  BY <1>12, PoolAssumption DEF Inv, PoolAssumption, tpwait_sleeps, TypeOK, NobodyOverslept,
       PhaseInv, MutexInv, Holding, Over, Goto
<1>13. CASE tpfree
  BY <1>13 DEF Inv, tpfree, TypeOK, NobodyOverslept, PhaseInv, MutexInv, Holding, Over, Goto
<1>14. CASE tpfree_wakes
  BY <1>14, PoolAssumption DEF Inv, PoolAssumption, Broadcast, tpfree_wakes, TypeOK,
       NobodyOverslept, PhaseInv, MutexInv, Holding, Over, Goto
<1>15. CASE tpfree_joins
  BY <1>15 DEF Inv, tpfree_joins, TypeOK, NobodyOverslept, PhaseInv, MutexInv, Holding, Over,
       Goto
<1>16. CASE tpfree_returns
  BY <1>16 DEF Inv, tpfree_returns, TypeOK, NobodyOverslept, PhaseInv, MutexInv, Holding,
       Over, Goto
<1>17. CASE Spurious
  BY <1>17 DEF Inv, Spurious, TypeOK, NobodyOverslept, PhaseInv, MutexInv, Holding, Over, Goto
<1>18. CASE
     \/ \E c \in Callers : tpwait(c) \/ tpwait_returns(c)
     \/ tpfree_drains
     \/ UNCHANGED vars
  <2>1. UNCHANGED <<opc, asleep, wpc>>
    BY <1>18 DEF tpwait, tpwait_returns, tpfree_drains, vars, list, work
  <2> QED BY <2>1 DEF Inv, NobodyOverslept
<1> QED BY <1>1, <1>2, <1>3, <1>4, <1>5, <1>6, <1>7, <1>8, <1>9, <1>10, <1>11,
     <1>12, <1>13, <1>14, <1>15, <1>16, <1>17, <1>18 DEF Next, WorkerSteps,
     Waiting, Freeing

-----------------------------------------------------------------------------
(* The theorems.                                                           *)

\* What every state has.
LEMMA Invariant == Spec => []Inv
<1>1. Init => Inv
  <2> SUFFICES ASSUME Init PROVE Inv
    OBVIOUS
  <2>1. TypeOK /\ Queued = {} /\ InHand = {}
    <3>1. TypeOK
      <4>1. wpc \in [Workers -> WorkerPlaces] /\ cpc \in [Callers -> {"idle", "wait"}]
        BY DEF Init, WorkerPlaces
      <4>2. /\ next \in [Jobs -> 0..MaxJobs] /\ job \in [Workers -> 0..MaxJobs]
            /\ ran \in [Jobs -> Nat] /\ released \in [Jobs -> Nat]
        BY PoolAssumption DEF PoolAssumption, Init
      <4>3. left \in 0..MaxJobs /\ enqueued \in 0..MaxJobs /\ head \in 0..MaxJobs
            /\ tail \in 0..MaxJobs /\ spurious \in 0..MaxSpurious
        BY PoolAssumption DEF PoolAssumption, Init
      <4> QED BY <4>1, <4>2, <4>3 DEF Init, TypeOK
    <3>2. Queued = {} /\ InHand = {}
      BY DEF Init, Queued, InHand
    <3> QED BY <3>1, <3>2
  <2>2. MutexInv /\ PhaseInv /\ HandInv /\ Linked
    BY <2>1, PoolAssumption
    DEF PoolAssumption, Init, MutexInv, PhaseInv, HandInv, Linked, Holding, Over, Working
  <2>3. HandledInv /\ PastInv
    BY <2>1 DEF Init, HandledInv, PastInv, Untouched, Due
  <2>4. CountInv /\ SomeoneAwake /\ NobodyOverslept
    BY <2>1, FS_EmptySet DEF Init, CountInv, Open, SomeoneAwake, NobodyOverslept
  <2> QED BY <2>1, <2>2, <2>3, <2>4 DEF Inv
<1>2. Inv /\ [Next]_vars => Inv'
  BY TypesKept, MutexKept, PhaseKept, HandKept, LinkedKept, HandledKept, PastKept, CountKept,
     AwakeKept, OversleptKept DEF Inv
<1> QED BY <1>1, <1>2, PTL DEF Spec

\* Every variable has its type, for any number of workers, users and jobs.
THEOREM PoolTyped == Spec => []TypeOK
<1>1. Inv => TypeOK
  BY DEF Inv
<1> QED BY Invariant, <1>1, PTL

\* The list is whole: a job is in it from tpenq until a worker or tpfree takes it,
\* whatever the order in which threads come to the mutex.
THEOREM ListStaysWhole == Spec => []ListWhole
<1>1. Inv => ListWhole
  <2> SUFFICES ASSUME Inv PROVE ListWhole
    OBVIOUS
  <2>1. tail # 0 => tail \in Queued
    BY DEF Inv, Linked, Queued, TypeOK
  <2> QED BY <2>1 DEF Inv, Linked, PastInv, ListWhole
<1> QED BY Invariant, <1>1, PTL

\* No job is run twice and no argument is freed twice or too early.
THEOREM JobsRunOnce == Spec => []RunOnce
<1>1. Inv => RunOnce
  <2> SUFFICES ASSUME Inv, NEW j \in Jobs
               PROVE  /\ ran[j] <= 1 /\ released[j] <= 1
                      /\ released[j] = 1 => ran[j] = 1 \/ opc \in {"drain", "gone"}
    BY DEF RunOnce
  <2>1. CASE j > enqueued \/ j \in Queued
    BY <2>1 DEF Inv, HandledInv, Untouched
  <2>2. CASE j \in InHand
    <3>1. PICK w \in Workers : job[w] = j /\ job[w] # 0
      BY <2>2 DEF InHand
    <3>2. wpc[w] \in Working
      BY <3>1 DEF Inv, HandInv
    <3> QED BY <3>1, <3>2 DEF Inv, HandledInv, Untouched, Due, Working
  <2>3. CASE j \in 1..enqueued /\ j \notin Queued /\ j \notin InHand
    BY <2>3 DEF Inv, PastInv, Due
  <2>4. j > enqueued \/ j \in 1..enqueued
    BY DEF Inv, TypeOK, Jobs
  <2> QED BY <2>1, <2>2, <2>3, <2>4
<1> QED BY Invariant, <1>1, PTL

\* As long as there is work in the list some worker is awake, although users and
\* workers sleep on one condition variable and tpenq wakes only one of them.
THEOREM WorkIsSeen == Spec => []SomeoneAwake
<1>1. Inv => SomeoneAwake
  BY DEF Inv
<1> QED BY Invariant, <1>1, PTL

\* No worker sleeps through the end, although _stop is set without the mutex.
THEOREM EndIsSeen == Spec => []NobodyOverslept
<1>1. Inv => NobodyOverslept
  BY DEF Inv
<1> QED BY Invariant, <1>1, PTL

\* tpfree leaves no thread, no job and no argument behind.
THEOREM PoolLeavesNothing == Spec => []NothingLeft
<1>1. Inv => NothingLeft
  <2> SUFFICES ASSUME Inv, opc = "gone"
               PROVE  /\ \A w \in Workers : wpc[w] = "exited"
                      /\ live = {} /\ \A j \in Owned : j <= enqueued => released[j] = 1
    BY DEF NothingLeft
  <2>1. \A w \in Workers : wpc[w] = "exited" /\ job[w] = 0
    BY DEF Inv, PhaseInv, HandInv, Working
  <2>2. Queued = {} /\ InHand = {}
    BY <2>1 DEF Inv, PhaseInv, Queued, InHand
  <2>3. \A j \in Owned : j <= enqueued => j \in 1..enqueued
    BY PoolAssumption DEF PoolAssumption
  <2> QED BY <2>1, <2>2, <2>3 DEF Inv, PastInv, Due
<1> QED BY Invariant, <1>1, PTL

\* The memory of the pool is safe, for any number of threads, users and jobs.
THEOREM PoolIsSafe == Spec => []PoolSafe
<1>1. ListWhole /\ RunOnce /\ NothingLeft => PoolSafe
  BY DEF PoolSafe
<1> QED BY ListStaysWhole, JobsRunOnce, PoolLeavesNothing, <1>1, PTL

\* No wakeup is lost, with one condition variable for the threads and the users,
\* spurious wakeups included.
THEOREM NoWakeupIsLost == Spec => []WakeupsKept
<1>1. SomeoneAwake /\ NobodyOverslept => WakeupsKept
  BY DEF WakeupsKept
<1> QED BY WorkIsSeen, EndIsSeen, <1>1, PTL

-----------------------------------------------------------------------------
(* The pool does what JobPool promises.                                    *)

\* Where a job is.
LEMMA Placed ==
  ASSUME Inv, NEW j \in Jobs
  PROVE  /\ Place(j) = "new" <=> j > enqueued
         /\ Place(j) = "running" <=> j \in InHand
         /\ Place(j) = "queued" <=> j \in Queued
         /\ Place(j) = "dropped" => opc \in {"drain", "gone"}
         /\ j \in InHand \cup Queued => j <= enqueued
         /\ j \notin InHand \cup Queued /\ j <= enqueued =>
              Place(j) = IF ran[j] = 0 THEN "dropped" ELSE "done"
<1>1. InHand \subseteq 1..enqueued /\ Queued \subseteq 1..enqueued /\ InHand \cap Queued = {}
  BY Listed DEF Inv, HandInv, InHand
<1>2. enqueued \in Nat /\ j \in 1..MaxJobs
  BY DEF Inv, TypeOK, Jobs
<1>3. j \notin InHand \cup Queued /\ j <= enqueued /\ ran[j] = 0 => opc \in {"drain", "gone"}
  BY <1>2 DEF Inv, PastInv
<1> QED BY <1>1, <1>2, <1>3 DEF Place

\* A job that a step does not touch stays where it is.
LEMMA Stays ==
  ASSUME NEW j \in Jobs, enqueued' = enqueued \/ j # enqueued + 1,
         enqueued' \in {enqueued, enqueued + 1}, TypeOK,
         j \in InHand <=> j \in InHand', j \in Queued <=> j \in Queued',
         j \in InHand \/ ran'[j] = ran[j]
  PROVE  Place(j)' = Place(j)
<1>1. j > enqueued <=> j > enqueued'
  BY DEF TypeOK, Jobs
<1> QED BY <1>1 DEF Place

\* A step that touches no job.
LEMMA AllStay ==
  ASSUME TypeOK, UNCHANGED <<head, enqueued, ran, job>>
  PROVE  [j \in Jobs |-> Place(j)]' = [j \in Jobs |-> Place(j)]
<1>1. \A j \in Jobs : Place(j)' = Place(j)
  BY Stays DEF Queued, InHand
<1> QED BY <1>1

\* A step that moves job i to place p and nothing else.
LEMMA OneMoves ==
  ASSUME NEW i \in Jobs, NEW p, Place(i)' = p, \A j \in Jobs \ {i} : Place(j)' = Place(j),
         UNCHANGED <<cpc, stop>>
  PROVE  Pool!Becomes(i, p)
<1>1. [j \in Jobs |-> Place(j)]' = [[j \in Jobs |-> Place(j)] EXCEPT ![i] = p]
  OBVIOUS
<1> QED BY <1>1 DEF Pool!Becomes

\* tpenq hands a job in.
LEMMA EnqSubmits ==
  ASSUME Inv, Inv', NEW c \in Callers, tpenq(c)
  PROVE  \E j \in Jobs : Pool!Submit(j)
<1>0. PICK i \in Jobs : i = enqueued + 1
  BY DEF tpenq
<1>1. /\ i \in Jobs /\ enqueued' = i /\ Queued' = Queued \cup {i} /\ InHand' = InHand
      /\ ran' = ran /\ cpc' = cpc /\ stop' = stop /\ opc = "use" /\ enqueued \in Nat
      /\ i = enqueued + 1 /\ i \notin InHand
  BY <1>0, Enqueued, Counted DEF Inv, TypeOK, tpenq, work, InHand, Open
<1>2. Place(i)' = "queued"
  BY <1>1 DEF Place
<1>3. \A j \in Jobs \ {i} : Place(j)' = Place(j)
  BY <1>1, Stays DEF Inv
<1>4. ~stop
  BY <1>1 DEF Inv, PhaseInv, Over
<1>5. Pool!First("new", i)
  BY <1>1, Placed DEF Pool!First, Pool!Jobs, Jobs
<1>6. Pool!Becomes(i, "queued")
  BY <1>1, <1>2, <1>3, OneMoves
<1> QED BY <1>1, <1>4, <1>5, <1>6 DEF Pool!Submit

\* A worker takes the first job.
LEMMA TakeStarts ==
  ASSUME Inv, Inv', NEW w \in Workers, Take(w)
  PROVE  \E j \in Jobs : Pool!Start(j)
<1>0. PICK i \in Jobs : i = head /\ i \in 1..enqueued
  BY Taken, Listed DEF Inv
<1>a. enqueued \in Nat /\ i <= enqueued
  BY <1>0 DEF Inv, TypeOK
<1>1. /\ i \in Queued /\ Queued' = Queued \ {i} /\ InHand' = InHand \cup {i}
      /\ UNCHANGED <<ran, cpc, stop, enqueued>> /\ ~stop
  BY <1>0, Taken DEF Take, work, _tpdeq
<1>2. Place(i)' = "running"
  BY <1>a, <1>1 DEF Place, Jobs
<1>3. \A j \in Jobs \ {i} : Place(j)' = Place(j)
  BY <1>1, Stays DEF Inv
<1>4. Pool!First("queued", i)
  BY <1>0, <1>1, Placed DEF Pool!First, Pool!Jobs, Jobs, Queued
<1>5. Pool!Becomes(i, "running")
  BY <1>1, <1>2, <1>3, OneMoves
<1> QED BY <1>1, <1>4, <1>5 DEF Pool!Start

\* A worker has done its job.
LEMMA FinishFinishes ==
  ASSUME Inv, Inv', NEW w \in Workers, Finish(w)
  PROVE  \E j \in Jobs : Pool!Finish(j)
<1>0. PICK i \in Jobs : i = job[w] /\ i \in 1..enqueued
  BY InWork DEF Finish, Working
<1>a. enqueued \in Nat /\ i <= enqueued
  BY <1>0 DEF Inv, TypeOK
<1>1. /\ i \in InHand /\ i \notin Queued /\ Queued' = Queued
      /\ InHand' = InHand \ {i} /\ UNCHANGED <<ran, cpc, stop, enqueued>> /\ ran[i] = 1
  BY <1>0, Finished DEF Inv, HandledInv, Finish, work, list
<1>2. Place(i)' = "done" /\ Place(i) = "running"
  BY <1>a, <1>1 DEF Place, Jobs
<1>3. \A j \in Jobs \ {i} : Place(j)' = Place(j)
  BY <1>1, Stays DEF Inv
<1>4. Pool!Becomes(i, "done")
  BY <1>1, <1>2, <1>3, OneMoves
<1> QED BY <1>1, <1>2, <1>4 DEF Pool!Finish

\* tpfree throws a job away.
LEMMA DrainDrops ==
  ASSUME Inv, Inv', tpfree_drains
  PROVE  \E j \in Jobs : Pool!Drop(j)
<1>0. PICK i \in Jobs : i = head
  BY Drained, Listed DEF Inv
<1>1. /\ i \in Jobs /\ i \in Queued /\ Queued' = Queued \ {i} /\ enqueued \in Nat /\ i <=
        enqueued
      /\ InHand = {} /\ InHand' = {} /\ UNCHANGED <<ran, cpc, stop, enqueued>>
  BY <1>0, Drained, Listed DEF Inv, TypeOK, tpfree_drains, _tpdeq
<1>1a. stop /\ ran[i] = 0
  BY <1>1 DEF Inv, PhaseInv, Over, HandledInv, Untouched, tpfree_drains
<1>2. Place(i)' = "dropped"
  BY <1>1, <1>1a DEF Place, Jobs
<1>3. \A j \in Jobs \ {i} : Place(j)' = Place(j)
  BY <1>1, Stays DEF Inv
<1>4. Pool!First("queued", i)
  BY <1>0, <1>1, Placed DEF Pool!First, Pool!Jobs, Jobs, Queued
<1>5. \A j \in Jobs : Place(j) # "running"
  BY <1>1, Placed
<1>6. Pool!Becomes(i, "dropped")
  BY <1>1, <1>2, <1>3, OneMoves
<1> QED BY <1>1, <1>1a, <1>4, <1>5, <1>6 DEF Pool!Drop, Pool!Jobs, Jobs

\* tpwait is called.
LEMMA WaitAsks ==
  ASSUME Inv, NEW c \in Callers, tpwait(c)
  PROVE  Pool!Ask(c)
<1>1. ~stop /\ stop' = stop
  BY DEF Inv, PhaseInv, Over, tpwait
<1>2. {d \in Callers : cpc'[d] = "wait"} = {d \in Callers : cpc[d] = "wait"} \cup {c}
  BY DEF Inv, TypeOK, tpwait
<1>3. [j \in Jobs |-> Place(j)]' = [j \in Jobs |-> Place(j)]
  BY AllStay DEF Inv, tpwait, list, work
<1> QED BY <1>1, <1>2, <1>3 DEF Pool!Ask

\* tpwait returns: everything that has been handed in is done.
LEMMA ReturnAnswers ==
  ASSUME Inv, NEW c \in Callers, tpwait_returns(c)
  PROVE  Pool!Answer(c)
<1>1. opc = "use" /\ ~stop /\ left = 0 /\ cpc[c] = "wait" /\ stop' = stop
  BY DEF Inv, PhaseInv, Over, tpwait_returns
<1>2. Queued = {} /\ InHand = {}
  BY <1>1, Counted, FS_EmptySet DEF Inv, CountInv, Open
<1>3. \A j \in Jobs : Place(j) \in {"new", "done"}
  <2> TAKE j \in Jobs
  <2>1. CASE j > enqueued
    BY <2>1, Placed
  <2>2. CASE ~ (j > enqueued)
    <3>1. j <= enqueued
      BY <2>2 DEF Inv, TypeOK, Jobs
    <3>2. Place(j) = "dropped" => FALSE
      BY <1>1, Placed
    <3> QED BY <1>2, <3>1, <3>2, Placed
  <2> QED BY <2>1, <2>2
<1>4. {d \in Callers : cpc'[d] = "wait"} = {d \in Callers : cpc[d] = "wait"} \ {c}
  BY DEF Inv, TypeOK, tpwait_returns
<1>5. [j \in Jobs |-> Place(j)]' = [j \in Jobs |-> Place(j)]
  BY AllStay DEF Inv, tpwait_returns, list, work
<1> QED BY <1>1, <1>3, <1>4, <1>5 DEF Pool!Answer, Pool!AllDone, Pool!Jobs, Jobs

\* tpfree gives the pool up.
LEMMA FreeCloses ==
  ASSUME Inv, tpfree
  PROVE  Pool!Close
<1>1. ~stop /\ stop' /\ cpc' = cpc /\ \A c \in Callers : cpc[c] = "idle"
  BY DEF Inv, PhaseInv, Over, tpfree
<1>2. [j \in Jobs |-> Place(j)]' = [j \in Jobs |-> Place(j)]
  BY AllStay DEF Inv, tpfree, list, work
<1> QED BY <1>1, <1>2 DEF Pool!Close

\* What happens to the mutex, the condition variable and the threads is not seen.
LEMMA QuietSteps ==
  ASSUME Inv, UNCHANGED <<head, enqueued, job, cpc, stop>>,
         ran' = ran \/ \E w \in Workers : Run(w)
  PROVE  UNCHANGED Pool!vars
<1>1. [j \in Jobs |-> Place(j)]' = [j \in Jobs |-> Place(j)]
  <2>1. CASE ran' = ran
    BY <2>1, AllStay DEF Inv
  <2>2. ASSUME NEW w \in Workers, Run(w) PROVE \A j \in Jobs : Place(j)' = Place(j)
    <3>1. job[w] \in InHand /\ \A j \in Jobs \ {job[w]} : ran'[j] = ran[j]
      BY <2>2, InWork DEF Inv, TypeOK, Run, Working
    <3>2. Queued' = Queued /\ InHand' = InHand
      BY DEF Queued, InHand
    <3> QED BY <3>1, <3>2, Stays DEF Inv
  <2> QED BY <2>1, <2>2
<1> QED BY <1>1 DEF Pool!vars

\* The pool does what JobPool promises: jobs are started in the order in which they
\* came, at most once each, and tpwait returns only when all of them are done.
THEOREM PoolKeepsItsPromise == Spec => PoolKept
<1>1. Init => Pool!Init
  <2> SUFFICES ASSUME Init PROVE Pool!Init
    OBVIOUS
  <2>1. \A j \in Jobs : Place(j) = "new"
    BY DEF Init, Place, Jobs, Queued, InHand
  <2> QED BY <2>1 DEF Init, Pool!Init, Pool!Jobs, Jobs
<1>2. Inv /\ Inv' /\ [Next]_vars => [Pool!Next]_(Pool!vars)
  <2> SUFFICES ASSUME Inv, Inv', [Next]_vars PROVE Pool!Next \/ UNCHANGED Pool!vars
    OBVIOUS
  <2>1. ASSUME NEW w \in Workers, tpinit(w) \/ WorkerSteps(w)
        PROVE  Pool!Next \/ UNCHANGED Pool!vars
    <3>1. CASE Take(w)
      BY <3>1, TakeStarts DEF Pool!Next, Pool!Jobs, Jobs
    <3>2. CASE Finish(w)
      BY <3>2, FinishFinishes DEF Pool!Next, Pool!Jobs, Jobs
    <3>3. CASE ~Take(w) /\ ~Finish(w)
      BY <2>1, <3>3, QuietSteps
      DEF WorkerSteps, tpinit, Top, Lock, Test, Sleep, Quit, Run, Release, list, work
    <3> QED BY <3>1, <3>2, <3>3
  <2>2. ASSUME NEW c \in Callers, tpenq(c) \/ tpwait(c) \/ Waiting(c)
        PROVE  Pool!Next \/ UNCHANGED Pool!vars
    <3>1. CASE tpwait_sleeps(c)
      BY <3>1, QuietSteps DEF tpwait_sleeps, list, work
    <3> QED BY <2>2, <3>1, EnqSubmits, WaitAsks, ReturnAnswers
            DEF Waiting, Pool!Next, Pool!Jobs, Jobs
  <2>3. CASE tpfree \/ Freeing
    <3>1. CASE tpfree_wakes \/ tpfree_joins \/ tpfree_returns
      BY <3>1, QuietSteps DEF tpfree_wakes, tpfree_joins, tpfree_returns, list, work
    <3> QED BY <2>3, <3>1, DrainDrops, FreeCloses DEF Freeing, Pool!Next, Pool!Jobs, Jobs
  <2>4. CASE Spurious \/ UNCHANGED vars
    BY <2>4, QuietSteps DEF Spurious, vars, list, work
  <2> QED BY <2>1, <2>2, <2>3, <2>4 DEF Next
<1> QED BY Invariant, <1>1, <1>2, PTL DEF Spec, PoolKept, Pool!Spec

=============================================================================
