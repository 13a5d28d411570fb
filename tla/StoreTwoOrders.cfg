\* A pool order and a supplier order, two payment events of any content that may
\* concern either, stamps that can tie, one redelivery beyond the sweeper's cap.
SPECIFICATION FairSpec
CONSTANTS
  o1 = o1
  o2 = o2
  OrderId = {o1, o2}
  Total <- Prices
  EventId = {e1, e2}
  PoolOrders = {o1}
  MaxTime = 2
  MaxGenerations = 1
  GenerationBound = 2
INVARIANTS
  TypeOK
  CapturedExactlyWhenPaid
  RecognisedExactlyWhenDelivered
  NewestPaidWins
  NoPaidOrderForgotten
  BooksMatchOrders
PROPERTIES
  StatusFollowsTable
  ImplementsLifecycle
  DroppedEnqueueRecovered
CHECK_DEADLOCK FALSE
