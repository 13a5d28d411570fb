\* Four events of two orders, so that two batches of two wait for each other.
SPECIFICATION FairSpec
CONSTANTS
  o1 = o1
  o2 = o2
  Order = {o1, o2}
  Event = {1, 2, 3, 4}
  About <- Crossed
  Sweeper = {s1, s2}
  Nobody = Nobody
  Interval = {s1}
  BatchSize = 2
  RetryAttempts = 1
  MaxFaults = 1
INVARIANTS
  TypeOK
  OneVerdict
PROPERTIES
  GivenUpOnlyUnseen
  OrphansEnd
CHECK_DEADLOCK FALSE
