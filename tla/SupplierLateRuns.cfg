\* Two live runs of one job, one of which may belong to a generation the order
\* has left, over a network that delivers late and refuses replays.
SPECIFICATION Spec
CONSTANTS
  FallbackChain <- ChainA
  Workers = {w1, w2}
  MaxAttemptsPerSupplier = 1
  MaxResolve = 1
  JobMaxAttempts = 1
  MaxGenerations = 1
  Errors = {"out_of_stock", "other"}
  MaxFaults = 0
  TtlCoversRun = FALSE
  StrictSuppliers = FALSE
SYMMETRY WorkerSymmetry
INVARIANTS
  TypeOK
  OneOpenAttempt
  FailureMeansExhausted
  DeliveredIsMinted
PROPERTIES
  ClosedAttemptsFrozen
  ImplementsStore
CHECK_DEADLOCK FALSE
