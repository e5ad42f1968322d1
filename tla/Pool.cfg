\* Two workers, two users, three jobs and one spurious wakeup: every order of the
\* threads at the mutex and the condition variable.
CONSTANTS
  Workers = {w1, w2}
  Callers = {c1, c2}
  Nobody = Nobody
  Owned = {1, 3}
  MaxJobs = 3
  MaxSpurious = 1
SPECIFICATION FairSpec
INVARIANTS
  TypeOK
  PoolSafe
  WakeupsKept
PROPERTIES
  PoolKept
  NothingHangs
\* The threads exit in the end.
CHECK_DEADLOCK FALSE
