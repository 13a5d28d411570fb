\* A restock and two deliveries, no other fault needed.
CONSTANTS
  Order = {o1, o2}
  Restocks = {r1}
  Seeds = {}
  Key = {k1, k2, k3}
  InitialKeys = {k1}
  SeedKeys = {}
  TakenCodes = {}
  MaxGenerations = 2
  MaxFaults = 1
SPECIFICATION Spec
INVARIANT DeadlocksNotExpected
CHECK_DEADLOCK FALSE
