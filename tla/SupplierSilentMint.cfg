\* A replay whose connection is refused, after the first POST minted.
SPECIFICATION Spec
CONSTANTS
  FallbackChain <- ChainAB
  Workers = {w1}
  MaxAttemptsPerSupplier = 1
  MaxResolve = 1
  JobMaxAttempts = 2
  MaxGenerations = 0
  Errors = {"other"}
  MaxFaults = 0
  TtlCoversRun = TRUE
  StrictSuppliers = FALSE
INVARIANTS
  FailedMeansNotMinted
CHECK_DEADLOCK FALSE
