CONSTANTS
  Worker = {w1, w2}
  Job = {j1, j2}
  Key = {k1, k2}
  BatchSize = 2
  MaxAttempts = 2
  SlowWorker = {}
  MaxFaults = 2
SPECIFICATION Spec
INVARIANT AttemptsWithinBudget
CHECK_DEADLOCK FALSE
