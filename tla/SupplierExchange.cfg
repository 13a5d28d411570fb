\* Two callers, two requests, every scenario, two faults (a crash after a write
\* that threw among them) and one call of _control.
SPECIFICATION Spec
CONSTANTS
  Request = {r1, r2}
  Code = {k1, k2}
  Caller = {c1, c2}
  InventorySize = 1
  RestockCounts = {0, 1}
  Persist = TRUE
  MaxFaults = 2
  MaxControls = 1
SYMMETRY ExchangeSymmetry
INVARIANTS
  ToldStaysOnRecord
  RefusalProvesNothingMinted
  StockFollowsRecords
CHECK_DEADLOCK FALSE
