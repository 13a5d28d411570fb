\* Two generations under the fairness of the intervals, one fault.
SPECIFICATION FairSpec
CONSTANTS
  FallbackChain <- ChainAB
  Workers = {w1}
  MaxAttemptsPerSupplier = 1
  MaxResolve = 1
  JobMaxAttempts = 2
  MaxGenerations = 1
  Errors = {"other"}
  MaxFaults = 1
  TtlCoversRun = TRUE
  StrictSuppliers = FALSE
PROPERTIES
  PaidOrderSettles
CHECK_DEADLOCK FALSE
