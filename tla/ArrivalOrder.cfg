\* Three events with stamps that may tie, told to one order in any order.
SPECIFICATION Spec
CONSTANTS
  OrderId = {o1}
  EventId = {e1, e2, e3}
  MaxTime = 2
SYMMETRY EventSymmetry
INVARIANT DisagreementIsRecorded
CHECK_DEADLOCK FALSE
