\* Two processes and suppliers that keep their contract.  A lock runs out only
\* under a process that died, and the other takes its job over in mid-call.
SPECIFICATION Spec
CONSTANTS
  FallbackChain <- ChainAB
  Workers = {w1, w2}
  MaxAttemptsPerSupplier = 2
  MaxResolve = 2
  JobMaxAttempts = 5
  MaxGenerations = 0
  Errors = {"out_of_stock", "http_5xx", "other"}
  MaxFaults = 1
  TtlCoversRun = TRUE
  StrictSuppliers = TRUE
SYMMETRY WorkerSymmetry
INVARIANTS
  FallbackMovesForward
  FailedMeansNotMinted
  SurplusWrittenOff
  DeliveredIsQuiet
  OneLiveCall
  BudgetReachesTheEnd
CHECK_DEADLOCK FALSE
