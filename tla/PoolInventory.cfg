\* Two deliveries, a restock and a second seed beside them, one lost transaction,
\* and a code that was handed out elsewhere.
SPECIFICATION FairSpec
CONSTANTS
  Order = {o1, o2}
  Restocks = {r1}
  Seeds = {s1}
  Key = {k1, k2, k3, k4}
  InitialKeys = {k1}
  SeedKeys = {k1, k2}
  TakenCodes = {k4}
  MaxGenerations = 2
  MaxFaults = 1
INVARIANTS
  TypeOK
  KeysAccountedFor
PROPERTIES
  ImplementsShelf
  PaidOrderSettles
  RefusedOrderRetried
CHECK_DEADLOCK FALSE
