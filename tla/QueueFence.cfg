\* Two jobs, two processes, two faults of any kind, locks that run out under a
\* live worker.
CONSTANTS
  Worker = {w1, w2}
  Job = {j1, j2}
  Key = {k1, k2}
  BatchSize = 2
  MaxAttempts = 2
  SlowWorker = {w1}
  MaxFaults = 2
SPECIFICATION FairSpec
INVARIANTS
  TypeOK
  LockNamesTheClaim
  HandlerOwnsItsJob
PROPERTIES
  OnlyTheOwnerSettles
  EveryJobEnds
CHECK_DEADLOCK FALSE
