--------------------------- MODULE StoreOrdersProofs ---------------------------
(***************************************************************************)
(* Proofs about StoreOrders, for every set of orders and events, every     *)
(* range of stamps, every generation cap and all prices.                   *)
(***************************************************************************)
EXTENDS StoreBooks, TLAPS

-----------------------------------------------------------------------------
(* What the transition table says about the events these actions raise.    *)

\* A 'paid' event applies exactly to unpaid orders and leads to paid; it is a
\* no-op on the others and never a conflict.
LEMMA PaidCells ==
  ASSUME NEW s \in OrderStatus
  PROVE  /\ ResolvesTo(s, "PAYMENT_PAID", "apply") =>
              s \in OrderStatus \ PaidStatus /\ Resolve(s, "PAYMENT_PAID").to = "paid"
         /\ ResolvesTo(s, "PAYMENT_PAID", "noop") => s \in PaidStatus
         /\ ~ResolvesTo(s, "PAYMENT_PAID", "conflict")
<1>1. CASE s = "created"
  BY <1>1 DEF ResolvesTo, IsLegal, Resolve, TransitionTable, ApplyTo, Noop, Conflict,
              PaidStatus, OrderStatus
<1>2. CASE s = "payment_failed"
  BY <1>2 DEF ResolvesTo, IsLegal, Resolve, TransitionTable, ApplyTo, Noop, Conflict,
              PaidStatus, OrderStatus
<1>3. CASE s = "paid"
  BY <1>3 DEF ResolvesTo, IsLegal, Resolve, TransitionTable, ApplyTo, Noop, Conflict,
              PaidStatus, OrderStatus
<1>4. CASE s = "delivering"
  BY <1>4 DEF ResolvesTo, IsLegal, Resolve, TransitionTable, ApplyTo, Noop, Conflict,
              PaidStatus, OrderStatus
<1>5. CASE s = "delivered"
  BY <1>5 DEF ResolvesTo, IsLegal, Resolve, TransitionTable, ApplyTo, Noop, Conflict,
              PaidStatus, OrderStatus
<1>6. CASE s = "out_of_stock"
  BY <1>6 DEF ResolvesTo, IsLegal, Resolve, TransitionTable, ApplyTo, Noop, Conflict,
              PaidStatus, OrderStatus
<1>7. CASE s = "delivery_failed"
  BY <1>7 DEF ResolvesTo, IsLegal, Resolve, TransitionTable, ApplyTo, Noop, Conflict,
              PaidStatus, OrderStatus
<1>. QED BY <1>1, <1>2, <1>3, <1>4, <1>5, <1>6, <1>7 DEF OrderStatus

\* A 'failed' event applies only to a created order.
LEMMA FailedCells ==
  ASSUME NEW s \in OrderStatus, ResolvesTo(s, "PAYMENT_FAILED", "apply")
  PROVE  s = "created" /\ Resolve(s, "PAYMENT_FAILED").to = "payment_failed"
<1>1. CASE s = "created"
  BY <1>1 DEF ResolvesTo, IsLegal, Resolve, TransitionTable, ApplyTo, Noop, Conflict,
              PaidStatus, OrderStatus
<1>2. CASE s = "payment_failed"
  BY <1>2 DEF ResolvesTo, IsLegal, Resolve, TransitionTable, ApplyTo, Noop, Conflict,
              PaidStatus, OrderStatus
<1>3. CASE s = "paid"
  BY <1>3 DEF ResolvesTo, IsLegal, Resolve, TransitionTable, ApplyTo, Noop, Conflict,
              PaidStatus, OrderStatus
<1>4. CASE s = "delivering"
  BY <1>4 DEF ResolvesTo, IsLegal, Resolve, TransitionTable, ApplyTo, Noop, Conflict,
              PaidStatus, OrderStatus
<1>5. CASE s = "delivered"
  BY <1>5 DEF ResolvesTo, IsLegal, Resolve, TransitionTable, ApplyTo, Noop, Conflict,
              PaidStatus, OrderStatus
<1>6. CASE s = "out_of_stock"
  BY <1>6 DEF ResolvesTo, IsLegal, Resolve, TransitionTable, ApplyTo, Noop, Conflict,
              PaidStatus, OrderStatus
<1>7. CASE s = "delivery_failed"
  BY <1>7 DEF ResolvesTo, IsLegal, Resolve, TransitionTable, ApplyTo, Noop, Conflict,
              PaidStatus, OrderStatus
<1>. QED BY <1>1, <1>2, <1>3, <1>4, <1>5, <1>6, <1>7 DEF OrderStatus

\* The sweeper's retry and the admin redelivery send only recoverable orders
\* back to delivering.
LEMMA RedeliverCells ==
  ASSUME NEW s \in OrderStatus, NEW ev \in {"RETRY_DELIVERY", "ADMIN_REDELIVER"},
         ResolvesTo(s, ev, "apply")
  PROVE  s \in RecoverableStatus /\ Resolve(s, ev).to = "delivering"
<1>1. CASE s = "created"
  BY <1>1 DEF ResolvesTo, IsLegal, Resolve, TransitionTable, ApplyTo, Noop, Conflict,
              RecoverableStatus, OrderStatus
<1>2. CASE s = "payment_failed"
  BY <1>2 DEF ResolvesTo, IsLegal, Resolve, TransitionTable, ApplyTo, Noop, Conflict,
              RecoverableStatus, OrderStatus
<1>3. CASE s = "paid"
  BY <1>3 DEF ResolvesTo, IsLegal, Resolve, TransitionTable, ApplyTo, Noop, Conflict,
              RecoverableStatus, OrderStatus
<1>4. CASE s = "delivering"
  BY <1>4 DEF ResolvesTo, IsLegal, Resolve, TransitionTable, ApplyTo, Noop, Conflict,
              RecoverableStatus, OrderStatus
<1>5. CASE s = "delivered"
  BY <1>5 DEF ResolvesTo, IsLegal, Resolve, TransitionTable, ApplyTo, Noop, Conflict,
              RecoverableStatus, OrderStatus
<1>6. CASE s = "out_of_stock"
  BY <1>6 DEF ResolvesTo, IsLegal, Resolve, TransitionTable, ApplyTo, Noop, Conflict,
              RecoverableStatus, OrderStatus
<1>7. CASE s = "delivery_failed"
  BY <1>7 DEF ResolvesTo, IsLegal, Resolve, TransitionTable, ApplyTo, Noop, Conflict,
              RecoverableStatus, OrderStatus
<1>. QED BY <1>1, <1>2, <1>3, <1>4, <1>5, <1>6, <1>7 DEF OrderStatus

-----------------------------------------------------------------------------
(* Type correctness.                                                       *)

\* An order that is known has a status of the table.
LEMMA KnownStatus ==
  ASSUME TypeOK, NEW o \in OrderId, status[o] # "absent"
  PROVE  status[o] \in OrderStatus
  BY DEF TypeOK

LEMMA InitType == Init => TypeOK
<1>1. PICK o \in OrderId : TRUE
  BY StoreAssumption
<1>2. [order |-> o, paid |-> TRUE, amountOk |-> TRUE, at |-> 1] \in Body
  BY StoreAssumption DEF Body, Times
<1>3. AnyBody \in Body
  BY <1>2 DEF AnyBody
<1>. QED
  BY <1>3, StoreAssumption DEF Init, TypeOK, Generations, NoJob, Never

LEMMA EnqueueType ==
  ASSUME TypeOK, NEW o \in OrderId, NEW g \in Generations, Enqueue(o, g)
  PROVE  job' \in [OrderId -> Generations \cup {NoJob}]
  BY DEF TypeOK, Enqueue

LEMMA ApplyType ==
  ASSUME TypeOK, NEW e \in EventId, NEW b \in Body, ApplyPersistedEvent(e, b),
         UNCHANGED <<issued, runs>>, evBody' \in [EventId -> Body]
  PROVE  TypeOK'
<1>. DEFINE o == b.order
<1>1. o \in OrderId /\ b.at \in Times /\ b.paid \in BOOLEAN
  BY DEF Body
<1>2. CASE FinaliseOnly(e, b)
  BY <1>2 DEF FinaliseOnly, StoreOrphan, RejectAmount, IgnoreStale, IgnoreNoop, StoreConflict,
              Finalise, TypeOK, EventState, FinalState, orderVars, ledgerVars
<1>3. CASE ApplyTransition(e, b)
  <2>1. status[o] \in OrderStatus
    BY <1>1, <1>3, KnownStatus DEF ApplyTransition, Admissible, OrderKnown, Transition
  <2>2. Resolve(status[o], EventOf(b)).to \in OrderStatus
    BY <1>1, <1>3, <2>1, PaidCells, FailedCells DEF ApplyTransition, EventOf, OrderStatus,
                                                    Transition
  <2>3. status' \in [OrderId -> OrderStatus \cup {"absent"}]
    BY <1>3, <2>2 DEF ApplyTransition, TypeOK, Transition
  <2>4. lastEventAt' \in [OrderId -> Times \cup {Never}]
    BY <1>1, <1>3 DEF ApplyTransition, TypeOK, Transition
  <2>5. paidAt' \in [OrderId -> BOOLEAN] /\ captured' \subseteq EventId
    BY <1>3 DEF ApplyTransition, TypeOK, Transition
  <2>6. job' \in [OrderId -> Generations \cup {NoJob}]
    BY <1>1, <1>3, EnqueueType DEF ApplyTransition, TypeOK, Transition
  <2>7. evState' \in [EventId -> EventState \cup {"none"}]
    BY <1>3 DEF ApplyTransition, TypeOK, Finalise, EventState, FinalState, Transition
  <2>. QED BY <1>3, <2>3, <2>4, <2>5, <2>6, <2>7 DEF ApplyTransition, TypeOK, Transition
<1>. QED BY <1>2, <1>3 DEF ApplyPersistedEvent

LEMMA RedeliverType ==
  ASSUME TypeOK, NEW o \in OrderId, NEW ev \in {"RETRY_DELIVERY", "ADMIN_REDELIVER"},
         status[o] \in RecoverableStatus, generation[o] < GenerationBound, Redeliver(o, ev)
  PROVE  TypeOK'
<1>1. status[o] \in OrderStatus
  BY DEF RecoverableStatus, OrderStatus
<1>2. Resolve(status[o], ev).to \in OrderStatus
  BY <1>1, RedeliverCells DEF Redeliver, OrderStatus, Transition
<1>3. generation[o] + 1 \in Generations
  BY StoreAssumption DEF TypeOK, Generations
<1>4. job' \in [OrderId -> Generations \cup {NoJob}]
  BY <1>3, EnqueueType DEF Redeliver, Transition
<1>. QED BY <1>2, <1>3, <1>4 DEF Redeliver, TypeOK, eventVars, ledgerVars, Transition

LEMMA StepType == TypeOK /\ [Next]_vars => TypeOK'
<1>. SUFFICES ASSUME TypeOK, [Next]_vars PROVE TypeOK'
  OBVIOUS
<1>. USE DEF eventVars, ledgerVars, orderVars
<1>1. ASSUME NEW o \in OrderId, CreateOrder(o) PROVE TypeOK'
  BY <1>1 DEF CreateOrder, TypeOK, OrderStatus
<1>2. ASSUME NEW o \in OrderId, AdminRedeliver(o) PROVE TypeOK'
  BY <1>2, RedeliverType DEF AdminRedeliver, IsRecoverable
<1>3. ASSUME NEW e \in EventId, NEW b \in Body, Webhook(e, b) PROVE TypeOK'
  <2>1. evBody' \in [EventId -> Body]
    BY <1>3 DEF Webhook, TypeOK, InsertPending
  <2>. QED BY <1>3, <2>1, ApplyType DEF Webhook, InsertPending
<1>4. ASSUME NEW e \in EventId, ReplayOrphan(e) PROVE TypeOK'
  <2>1. evBody' \in [EventId -> Body] /\ evBody[e] \in Body
    BY <1>4 DEF ReplayOrphan, TypeOK, Replayable
  <2>. QED BY <1>4, <2>1, ApplyType DEF ReplayOrphan, Replayable
<1>5. ASSUME NEW e \in EventId, AbandonOrphan(e) PROVE TypeOK'
  BY <1>5 DEF AbandonOrphan, Finalise, TypeOK, EventState, FinalState, Abandonable
<1>6. ASSUME NEW o \in OrderId, RequeueStuck(o) PROVE TypeOK'
  <2>1. generation[o] \in Generations
    BY DEF TypeOK
  <2>. QED BY <1>6, <2>1, EnqueueType DEF RequeueStuck, TypeOK
<1>7. ASSUME NEW o \in OrderId, RetryRecoverable(o) PROVE TypeOK'
  <2>1. generation[o] < GenerationBound
    BY <1>7, StoreAssumption DEF RetryRecoverable, TypeOK, Generations, Retryable
  <2>. QED BY <1>7, <2>1, RedeliverType DEF RetryRecoverable, IsRecoverable, Retryable
<1>8. ASSUME NEW o \in OrderId, StartRun(o) PROVE TypeOK'
  <2>1. job[o] \in Generations
    BY <1>8 DEF StartRun, TypeOK
  <2>. QED BY <1>8, <2>1 DEF StartRun, TypeOK
<1>9. ASSUME NEW o \in OrderId, BeginDelivery(o) PROVE TypeOK'
  BY <1>9 DEF BeginDelivery, TypeOK, OrderStatus, Transition
<1>10. ASSUME NEW o \in OrderId, HandOver(o) PROVE TypeOK'
  BY <1>10 DEF HandOver, TypeOK, OrderStatus, Transition
<1>11. ASSUME NEW o \in OrderId, RunOutOfStock(o) PROVE TypeOK'
  BY <1>11 DEF RunOutOfStock, TypeOK, OrderStatus, Transition
<1>12. ASSUME NEW o \in OrderId, ExhaustSuppliers(o) PROVE TypeOK'
  BY <1>12 DEF ExhaustSuppliers, TypeOK, OrderStatus, Transition
<1>13. ASSUME NEW o \in OrderId, CloseJob(o) PROVE TypeOK'
  BY <1>13 DEF CloseJob, TypeOK
<1>14. ASSUME NEW o \in OrderId, NEW g \in Generations, DropRun(o, g) PROVE TypeOK'
  BY <1>14 DEF DropRun, TypeOK
<1>15. CASE UNCHANGED vars
  BY <1>15 DEF vars, TypeOK
<1>. QED
  BY <1>1, <1>2, <1>3, <1>4, <1>5, <1>6, <1>7, <1>8, <1>9, <1>10, <1>11, <1>12, <1>13,
     <1>14, <1>15 DEF Next, Sweeper, Fulfilment

\* Every column keeps its type in every behaviour.
THEOREM TypeCorrect == Spec => []TypeOK
  BY InitType, StepType, PTL DEF Spec

-----------------------------------------------------------------------------
(* Money: CapturedExactlyWhenPaid is inductive on top of TypeOK.           *)

MoneyBooked == TypeOK /\ CapturedExactlyWhenPaid

\* Judging a new or orphaned event keeps the books: the row judged was not yet
\* captured, and if it is captured now its order was unpaid, hence without
\* captures.
LEMMA ApplyBooks ==
  ASSUME MoneyBooked, NEW e \in EventId, NEW b \in Body,
         evState[e] \in {"none", "orphan"},
         evBody' = [evBody EXCEPT ![e] = b],
         ApplyPersistedEvent(e, b)
  PROVE  CapturedExactlyWhenPaid'
<1>. DEFINE o == b.order
<1>1. o \in OrderId /\ b.paid \in BOOLEAN
  BY DEF Body
<1>2. e \notin captured
  BY DEF MoneyBooked, CapturedExactlyWhenPaid
<1>3. evBody'[e] = b /\ \A x \in EventId \ {e} : evBody'[x] = evBody[x]
  BY DEF MoneyBooked, TypeOK
<1>4. ASSUME NEW s, Finalise(e, s)
      PROVE  evState'[e] = s /\ \A x \in EventId \ {e} : evState'[x] = evState[x]
  BY <1>4 DEF MoneyBooked, TypeOK, Finalise
<1>5. CASE FinaliseOnly(e, b)
  <2>1. captured' = captured /\ status' = status
    BY <1>5 DEF FinaliseOnly, ledgerVars, orderVars
  <2>2. evState'[e] # "applied" /\ \A x \in EventId \ {e} : evState'[x] = evState[x]
    BY <1>4, <1>5 DEF FinaliseOnly, StoreOrphan, RejectAmount, IgnoreStale, IgnoreNoop,
                      StoreConflict
  <2>3. captured' = {x \in EventId : evState'[x] = "applied" /\ evBody'[x].paid}
    BY <1>2, <1>3, <2>1, <2>2 DEF MoneyBooked, CapturedExactlyWhenPaid
  <2>4. \A p \in OrderId : CapturesOf(p)' = CapturesOf(p)
    BY <1>2, <1>3, <2>1 DEF CapturesOf, MoneyBooked, TypeOK
  <2>. QED BY <2>1, <2>3, <2>4 DEF CapturedExactlyWhenPaid, IsSingleton, MoneyBooked
<1>6. CASE ApplyTransition(e, b) /\ ~b.paid
  <2>1. captured' = captured
    BY <1>6 DEF ApplyTransition, Transition
  <2>2. status[o] = "created" /\ status' = [status EXCEPT ![o] = "payment_failed"]
    BY <1>1, <1>6, KnownStatus, FailedCells DEF ApplyTransition, Admissible, OrderKnown,
                                                EventOf, MoneyBooked, Transition
  <2>3. captured' = {x \in EventId : evState'[x] = "applied" /\ evBody'[x].paid}
    BY <1>2, <1>3, <1>4, <1>6, <2>1 DEF MoneyBooked, CapturedExactlyWhenPaid, ApplyTransition,
                                        Transition
  <2>4. \A p \in OrderId : CapturesOf(p)' = CapturesOf(p)
    BY <1>2, <1>3, <2>1 DEF CapturesOf, MoneyBooked, TypeOK
  <2>5. \A p \in OrderId : status'[p] \in PaidStatus <=> status[p] \in PaidStatus
    BY <2>2 DEF MoneyBooked, TypeOK, PaidStatus, OrderStatus
  <2>. QED BY <2>3, <2>4, <2>5 DEF CapturedExactlyWhenPaid, IsSingleton, MoneyBooked
<1>7. CASE ApplyTransition(e, b) /\ b.paid
  <2>1. captured' = captured \cup {e}
    BY <1>7 DEF ApplyTransition, Transition
  <2>2. status[o] \notin PaidStatus /\ status' = [status EXCEPT ![o] = "paid"]
    BY <1>1, <1>7, KnownStatus, PaidCells DEF ApplyTransition, Admissible, OrderKnown, EventOf,
                                              MoneyBooked, Transition
  <2>3. captured' = {x \in EventId : evState'[x] = "applied" /\ evBody'[x].paid}
    BY <1>3, <1>4, <1>7, <2>1 DEF MoneyBooked, CapturedExactlyWhenPaid, ApplyTransition, Transition
  <2>4. CapturesOf(o)' = {e}
    <3>1. CapturesOf(o) = {}
      BY <1>1, <2>2 DEF MoneyBooked, CapturedExactlyWhenPaid
    <3>. QED BY <1>3, <2>1, <3>1 DEF CapturesOf, MoneyBooked, TypeOK
  <2>5. \A p \in OrderId \ {o} : CapturesOf(p)' = CapturesOf(p)
    BY <1>2, <1>3, <2>1 DEF CapturesOf, MoneyBooked, TypeOK
  <2>6. status'[o] \in PaidStatus
    BY <1>1, <2>2 DEF MoneyBooked, TypeOK, PaidStatus, OrderStatus
  <2>7. \A p \in OrderId \ {o} : status'[p] = status[p]
    BY <2>2 DEF MoneyBooked, TypeOK
  <2>8. \A p \in OrderId :
          IF status'[p] \in PaidStatus THEN IsSingleton(CapturesOf(p)') ELSE CapturesOf(p)' = {}
    BY <2>4, <2>5, <2>6, <2>7 DEF CapturedExactlyWhenPaid, IsSingleton, MoneyBooked
  <2>. QED BY <2>3, <2>8 DEF CapturedExactlyWhenPaid, IsSingleton
<1>. QED BY <1>1, <1>5, <1>6, <1>7 DEF ApplyPersistedEvent

\* A step that leaves the events and the captures alone and moves no order in
\* or out of the paid statuses keeps the books.
LEMMA FrameBooks ==
  ASSUME MoneyBooked, UNCHANGED <<captured, evBody>>,
         \A e \in EventId : evState'[e] = "applied" <=> evState[e] = "applied",
         \A o \in OrderId : status'[o] \in PaidStatus <=> status[o] \in PaidStatus
  PROVE  CapturedExactlyWhenPaid'
<1>1. \A o \in OrderId : CapturesOf(o)' = CapturesOf(o)
  BY DEF CapturesOf
<1>. QED BY <1>1 DEF MoneyBooked, CapturedExactlyWhenPaid, IsSingleton

LEMMA StepBooks == MoneyBooked /\ [Next]_vars => MoneyBooked'
<1>. SUFFICES ASSUME MoneyBooked, [Next]_vars PROVE CapturedExactlyWhenPaid'
  BY StepType DEF MoneyBooked
<1>. USE DEF eventVars, ledgerVars, orderVars
<1>1. ASSUME NEW o \in OrderId, CreateOrder(o) PROVE CapturedExactlyWhenPaid'
  <2>1. \A p \in OrderId : status'[p] \in PaidStatus <=> status[p] \in PaidStatus
    BY <1>1 DEF CreateOrder, MoneyBooked, TypeOK, PaidStatus, OrderStatus
  <2>. QED BY <1>1, <2>1, FrameBooks DEF CreateOrder
<1>2. ASSUME NEW o \in OrderId, NEW ev \in {"RETRY_DELIVERY", "ADMIN_REDELIVER"},
             IsRecoverable(status[o]), Redeliver(o, ev)
      PROVE  CapturedExactlyWhenPaid'
  <2>1. status[o] \in OrderStatus
    BY <1>2 DEF IsRecoverable, RecoverableStatus, OrderStatus
  <2>2. status' = [status EXCEPT ![o] = "delivering"]
    BY <1>2, <2>1, RedeliverCells DEF Redeliver, Transition
  <2>3. \A p \in OrderId : status'[p] \in PaidStatus <=> status[p] \in PaidStatus
    BY <1>2, <2>2 DEF MoneyBooked, TypeOK, PaidStatus, OrderStatus, IsRecoverable, RecoverableStatus
  <2>. QED BY <1>2, <2>3, FrameBooks DEF Redeliver, Transition
<1>3. ASSUME NEW e \in EventId, NEW b \in Body, Webhook(e, b) PROVE CapturedExactlyWhenPaid'
  BY <1>3, ApplyBooks DEF Webhook, InsertPending
<1>4. ASSUME NEW e \in EventId, ReplayOrphan(e) PROVE CapturedExactlyWhenPaid'
  <2>1. evBody[e] \in Body /\ evBody' = [evBody EXCEPT ![e] = evBody[e]]
    BY <1>4 DEF ReplayOrphan, MoneyBooked, TypeOK, Replayable
  <2>. QED BY <1>4, <2>1, ApplyBooks DEF ReplayOrphan, Replayable
<1>5. ASSUME NEW e \in EventId, AbandonOrphan(e) PROVE CapturedExactlyWhenPaid'
  <2>1. \A x \in EventId : evState'[x] = "applied" <=> evState[x] = "applied"
    BY <1>5 DEF AbandonOrphan, Finalise, MoneyBooked, TypeOK, Abandonable
  <2>. QED BY <1>5, <2>1, FrameBooks DEF AbandonOrphan, Abandonable
<1>6. ASSUME NEW o \in OrderId, RequeueStuck(o) PROVE CapturedExactlyWhenPaid'
  BY <1>6, FrameBooks DEF RequeueStuck
<1>7. ASSUME NEW o \in OrderId, StartRun(o) \/ CloseJob(o) \/ \E g \in Generations : DropRun(o, g)
      PROVE  CapturedExactlyWhenPaid'
  BY <1>7, FrameBooks DEF StartRun, CloseJob, DropRun
<1>8. ASSUME NEW o \in OrderId,
             BeginDelivery(o) \/ HandOver(o) \/ RunOutOfStock(o) \/ ExhaustSuppliers(o)
      PROVE  CapturedExactlyWhenPaid'
  <2>1. \A p \in OrderId : status'[p] \in PaidStatus <=> status[p] \in PaidStatus
    BY <1>8 DEF BeginDelivery, HandOver, RunOutOfStock, ExhaustSuppliers, Deliverable,
                MoneyBooked, TypeOK, PaidStatus, OrderStatus, Transition
  <2>. QED
    BY <1>8, <2>1, FrameBooks DEF BeginDelivery, HandOver, RunOutOfStock, ExhaustSuppliers,
                                  Transition
<1>9. CASE UNCHANGED vars
  BY <1>9, FrameBooks DEF vars
<1>. QED
  BY <1>1, <1>2, <1>3, <1>4, <1>5, <1>6, <1>7, <1>8, <1>9
  DEF Next, Sweeper, Fulfilment, RetryRecoverable, Retryable, AdminRedeliver

LEMMA InitBooks == Init => MoneyBooked
<1>. SUFFICES ASSUME Init PROVE CapturedExactlyWhenPaid
  BY InitType DEF MoneyBooked
<1>1. \A o \in OrderId : status[o] \notin PaidStatus
  BY DEF Init, PaidStatus, OrderStatus
<1>2. captured = {} /\ \A e \in EventId : evState[e] # "applied"
  BY DEF Init
<1>. QED BY <1>1, <1>2 DEF CapturedExactlyWhenPaid, CapturesOf

\* Exactly one payment_captured posting per paid order, none for the others,
\* and every posting stands for an applied 'paid' event.
THEOREM MoneyBookedOnce == Spec => []CapturedExactlyWhenPaid
<1>1. MoneyBooked => CapturedExactlyWhenPaid
  BY DEF MoneyBooked
<1>. QED BY InitBooks, StepBooks, <1>1, PTL DEF Spec

-----------------------------------------------------------------------------
(* Goods: RecognisedExactlyWhenDelivered is inductive on top of TypeOK.    *)

Deliveries == TypeOK /\ RecognisedExactlyWhenDelivered

\* A step that issues nothing and moves no order in or out of delivered.
LEMMA FrameDeliveries ==
  ASSUME Deliveries, UNCHANGED <<issued, recognised>>,
         \A o \in OrderId : status'[o] = "delivered" <=> status[o] = "delivered"
  PROVE  RecognisedExactlyWhenDelivered'
<1>1. \A o \in OrderId : RecognisedFor(o)' = RecognisedFor(o)
  BY DEF RecognisedFor
<1>. QED BY <1>1 DEF Deliveries, RecognisedExactlyWhenDelivered, IsSingleton

\* No payment event moves an order in or out of delivered.
LEMMA ApplyDelivered ==
  ASSUME TypeOK, NEW e \in EventId, NEW b \in Body, ApplyPersistedEvent(e, b)
  PROVE  /\ recognised' = recognised
         /\ \A o \in OrderId : status'[o] = "delivered" <=> status[o] = "delivered"
<1>1. CASE FinaliseOnly(e, b)
  BY <1>1 DEF FinaliseOnly, ledgerVars, orderVars
<1>2. CASE ApplyTransition(e, b)
  <2>1. b.order \in OrderId /\ b.paid \in BOOLEAN /\ status[b.order] \in OrderStatus
    BY <1>2, KnownStatus DEF Body, ApplyTransition, Admissible, OrderKnown, Transition
  <2>2. /\ status[b.order] # "delivered"
        /\ Resolve(status[b.order], EventOf(b)).to # "delivered"
    BY <1>2, <2>1, PaidCells, FailedCells DEF ApplyTransition, EventOf, PaidStatus, Transition
  <2>. QED BY <1>2, <2>1, <2>2 DEF ApplyTransition, TypeOK, Transition
<1>. QED BY <1>1, <1>2 DEF ApplyPersistedEvent

LEMMA StepDeliveries == Deliveries /\ [Next]_vars => Deliveries'
<1>. SUFFICES ASSUME Deliveries, [Next]_vars PROVE RecognisedExactlyWhenDelivered'
  BY StepType DEF Deliveries
<1>. USE DEF eventVars, ledgerVars, orderVars
<1>1. ASSUME NEW o \in OrderId, HandOver(o) PROVE RecognisedExactlyWhenDelivered'
  <2>1. status[o] # "delivered"
    BY <1>1 DEF HandOver, Deliverable, Transition
  <2>2. RecognisedFor(o) = {}
    BY <2>1 DEF Deliveries, RecognisedExactlyWhenDelivered
  <2>3. RecognisedFor(o)' = {generation[o]}
    BY <1>1, <2>2 DEF HandOver, RecognisedFor, Deliveries, TypeOK, Transition
  <2>4. \A p \in OrderId \ {o} : RecognisedFor(p)' = RecognisedFor(p)
    BY <1>1 DEF HandOver, RecognisedFor, Deliveries, TypeOK, Transition
  <2>5. /\ status'[o] = "delivered" /\ o \in issued'
        /\ \A p \in OrderId \ {o} : status'[p] = status[p] /\ (p \in issued' <=> p \in issued)
    BY <1>1 DEF HandOver, Deliveries, TypeOK, Transition
  <2>. QED BY <2>3, <2>4, <2>5 DEF Deliveries, RecognisedExactlyWhenDelivered, IsSingleton
<1>2. ASSUME NEW o \in OrderId, NEW ev \in {"RETRY_DELIVERY", "ADMIN_REDELIVER"},
             IsRecoverable(status[o]), Redeliver(o, ev)
      PROVE  RecognisedExactlyWhenDelivered'
  <2>1. status[o] \in OrderStatus
    BY <1>2 DEF IsRecoverable, RecoverableStatus, OrderStatus
  <2>2. status' = [status EXCEPT ![o] = "delivering"]
    BY <1>2, <2>1, RedeliverCells DEF Redeliver, Transition
  <2>3. \A p \in OrderId : status'[p] = "delivered" <=> status[p] = "delivered"
    BY <1>2, <2>2 DEF Deliveries, TypeOK, IsRecoverable, RecoverableStatus
  <2>. QED BY <1>2, <2>3, FrameDeliveries DEF Redeliver, Transition
<1>3. ASSUME NEW e \in EventId, NEW b \in Body, Webhook(e, b)
      PROVE  RecognisedExactlyWhenDelivered'
  BY <1>3, ApplyDelivered, FrameDeliveries DEF Webhook, Deliveries, InsertPending
<1>4. ASSUME NEW e \in EventId, ReplayOrphan(e) PROVE RecognisedExactlyWhenDelivered'
  <2>1. evBody[e] \in Body
    BY DEF Deliveries, TypeOK
  <2>. QED BY <1>4, <2>1, ApplyDelivered, FrameDeliveries DEF ReplayOrphan, Deliveries, Replayable
<1>5. ASSUME NEW o \in OrderId,
             CreateOrder(o) \/ BeginDelivery(o) \/ RunOutOfStock(o) \/ ExhaustSuppliers(o)
      PROVE  RecognisedExactlyWhenDelivered'
  <2>1. \A p \in OrderId : status'[p] = "delivered" <=> status[p] = "delivered"
    BY <1>5 DEF CreateOrder, BeginDelivery, RunOutOfStock, ExhaustSuppliers, Deliverable,
                Deliveries, TypeOK, Transition
  <2>. QED
    BY <1>5, <2>1, FrameDeliveries
    DEF CreateOrder, BeginDelivery, RunOutOfStock, ExhaustSuppliers, Transition
<1>6. ASSUME NEW e \in EventId, AbandonOrphan(e) PROVE RecognisedExactlyWhenDelivered'
  BY <1>6, FrameDeliveries DEF AbandonOrphan, Abandonable
<1>7. ASSUME NEW o \in OrderId,
             \/ RequeueStuck(o) \/ StartRun(o) \/ CloseJob(o)
             \/ \E g \in Generations : DropRun(o, g)
      PROVE  RecognisedExactlyWhenDelivered'
  BY <1>7, FrameDeliveries DEF RequeueStuck, StartRun, CloseJob, DropRun
<1>8. CASE UNCHANGED vars
  BY <1>8, FrameDeliveries DEF vars
<1>. QED
  BY <1>1, <1>2, <1>3, <1>4, <1>5, <1>6, <1>7, <1>8
  DEF Next, Sweeper, Fulfilment, RetryRecoverable, Retryable, AdminRedeliver

LEMMA InitDeliveries == Init => Deliveries
  BY InitType DEF Init, Deliveries, RecognisedExactlyWhenDelivered, RecognisedFor

\* Delivered, issued and recognised are the same orders, and each of them was
\* recognised once over all its generations.
THEOREM GoodsHandedOverOnce == Spec => []RecognisedExactlyWhenDelivered
<1>1. Deliveries => RecognisedExactlyWhenDelivered
  BY DEF Deliveries
<1>. QED BY InitDeliveries, StepDeliveries, <1>1, PTL DEF Spec

-----------------------------------------------------------------------------
(* Time: NewestPaidWins needs to know that last_payment_event_at is the    *)
(* stamp of an event that was applied, so that an event found stale has a  *)
(* newer judged event against it.                                          *)

LastEventApplied ==
  \A o \in OrderId : lastEventAt[o] # Never =>
    \E f \in EventId :
      evState[f] = "applied" /\ evBody[f].order = o /\ evBody[f].at = lastEventAt[o]

Provenance == TypeOK /\ LastEventApplied /\ NewestPaidWins

\* What a payment event does to paid statuses: a paid order stays paid.
LEMMA ApplyKeepsPaid ==
  ASSUME TypeOK, NEW e \in EventId, NEW b \in Body, ApplyPersistedEvent(e, b)
  PROVE  \A o \in OrderId : status[o] \in PaidStatus => status'[o] \in PaidStatus
<1>1. CASE FinaliseOnly(e, b)
  BY <1>1 DEF FinaliseOnly, orderVars
<1>2. CASE ApplyTransition(e, b)
  <2>1. b.order \in OrderId /\ b.paid \in BOOLEAN /\ status[b.order] \in OrderStatus
    BY <1>2, KnownStatus DEF Body, ApplyTransition, Admissible, OrderKnown, Transition
  <2>2. status[b.order] \notin PaidStatus
    BY <1>2, <2>1, PaidCells, FailedCells DEF ApplyTransition, EventOf, PaidStatus, Transition
  <2>. QED BY <1>2, <2>1, <2>2 DEF ApplyTransition, TypeOK, Transition
<1>. QED BY <1>1, <1>2 DEF ApplyPersistedEvent

LEMMA ApplyProvenance ==
  ASSUME Provenance, NEW e \in EventId, NEW b \in Body,
         evState[e] \in {"none", "orphan"},
         evBody' = [evBody EXCEPT ![e] = b],
         ApplyPersistedEvent(e, b)
  PROVE  LastEventApplied' /\ NewestPaidWins'
<1>. DEFINE o == b.order
<1>1. o \in OrderId /\ b.paid \in BOOLEAN /\ b.at \in Times
  BY DEF Body
<1>2. evBody'[e] = b /\ \A x \in EventId \ {e} : evBody'[x] = evBody[x]
  BY DEF Provenance, TypeOK
<1>3. \A x \in EventId \ {e} : evState'[x] = evState[x]
  BY DEF ApplyPersistedEvent, FinaliseOnly, StoreOrphan, RejectAmount, IgnoreStale, IgnoreNoop,
         StoreConflict, ApplyTransition, Finalise, Provenance, TypeOK, Transition
<1>4. ~Judged(e)
  BY DEF Judged, FinalState
<1>5. LastEventApplied'
  <2>1. CASE FinaliseOnly(e, b)
    BY <1>2, <1>3, <2>1 DEF FinaliseOnly, orderVars, Provenance, LastEventApplied
  <2>2. CASE ApplyTransition(e, b)
    <3>1. evState'[e] = "applied"
      BY <2>2 DEF ApplyTransition, Finalise, Provenance, TypeOK, Transition
    <3>2. lastEventAt'[o] = b.at /\ \A p \in OrderId \ {o} : lastEventAt'[p] = lastEventAt[p]
      BY <1>1, <2>2 DEF ApplyTransition, Provenance, TypeOK, Transition
    <3>3. ASSUME NEW p \in OrderId, lastEventAt'[p] # Never
          PROVE  \E f \in EventId :
                   evState'[f] = "applied" /\ evBody'[f].order = p /\ evBody'[f].at = lastEventAt'[p]
      <4>1. CASE p = o
        BY <1>2, <3>1, <3>2, <4>1
      <4>2. CASE p # o
        <5>1. PICK f \in EventId :
                evState[f] = "applied" /\ evBody[f].order = p /\ evBody[f].at = lastEventAt[p]
          BY <3>2, <3>3, <4>2 DEF Provenance, LastEventApplied
        <5>2. f # e
          BY <5>1
        <5>. QED BY <1>2, <1>3, <3>2, <4>2, <5>1, <5>2
      <4>. QED BY <4>1, <4>2
    <3>. QED BY <3>3 DEF LastEventApplied
  <2>. QED BY <2>1, <2>2 DEF ApplyPersistedEvent
<1>6. ASSUME NEW x \in EventId, Judged(x)', evBody'[x].paid,
             \A f \in EventId : (Judged(f)' /\ evBody'[f].order = evBody'[x].order)
                                   => evBody'[f].at <= evBody'[x].at
      PROVE  status'[evBody'[x].order] \in PaidStatus
  <2>1. CASE x # e
    <3>1. Judged(x) /\ evBody[x].paid
      BY <1>2, <1>3, <1>6, <2>1 DEF Judged
    <3>2. \A f \in EventId : (Judged(f) /\ evBody[f].order = evBody[x].order)
                                => evBody[f].at <= evBody[x].at
      <4>. SUFFICES ASSUME NEW f \in EventId, Judged(f), evBody[f].order = evBody[x].order
                    PROVE  evBody[f].at <= evBody[x].at
        OBVIOUS
      <4>1. f # e
        BY <1>4
      <4>2. Judged(f)' /\ evBody'[f] = evBody[f] /\ evBody'[x] = evBody[x]
        BY <1>2, <1>3, <2>1, <4>1 DEF Judged
      <4>. QED BY <1>6, <4>2
    <3>3. status[evBody[x].order] \in PaidStatus
      BY <3>1, <3>2 DEF Provenance, NewestPaidWins
    <3>4. evBody[x].order \in OrderId
      BY DEF Provenance, TypeOK, Body
    <3>. QED BY <1>2, <2>1, <3>3, <3>4, ApplyKeepsPaid DEF Provenance
  <2>2. CASE x = e /\ ApplyTransition(e, b)
    <3>1. b.paid
      BY <1>2, <1>6, <2>2
    <3>2. status' = [status EXCEPT ![o] = "paid"]
      BY <1>1, <2>2, <3>1, KnownStatus, PaidCells
      DEF ApplyTransition, Admissible, OrderKnown, EventOf, Provenance, Transition
    <3>. QED BY <1>1, <1>2, <2>2, <3>2 DEF Provenance, TypeOK, PaidStatus, OrderStatus
  <2>3. CASE x = e /\ FinaliseOnly(e, b)
    <3>1. b.paid
      BY <1>2, <1>6, <2>3
    <3>2. evState'[e] \notin {"orphan", "rejected_amount"}
      BY <1>6, <2>3 DEF Judged, FinalState
    <3>3. ~StoreOrphan(e, b) /\ ~RejectAmount(e, b)
      BY <3>2 DEF StoreOrphan, RejectAmount, Finalise, Provenance, TypeOK
    <3>4. ~IgnoreStale(e, b)
      <4>. SUFFICES ASSUME IgnoreStale(e, b) PROVE FALSE
        OBVIOUS
      <4>1. lastEventAt[o] # Never /\ ~(b.at >= lastEventAt[o])
        BY DEF IgnoreStale, NotStale
      <4>2. PICK f \in EventId :
              evState[f] = "applied" /\ evBody[f].order = o /\ evBody[f].at = lastEventAt[o]
        BY <1>1, <4>1 DEF Provenance, LastEventApplied
      <4>3. f # e
        BY <4>2
      <4>4. Judged(f)' /\ evBody'[f] = evBody[f]
        BY <1>2, <1>3, <4>2, <4>3 DEF Judged, FinalState
      <4>5. evBody[f].at <= b.at
        BY <1>2, <1>6, <2>3, <4>2, <4>4
      <4>6. lastEventAt[o] \in Nat /\ b.at \in Nat
        BY <1>1 DEF Provenance, TypeOK, Times, Never
      <4>. QED BY <4>1, <4>2, <4>5, <4>6
    <3>5. IgnoreNoop(e, b) \/ StoreConflict(e, b)
      BY <2>3, <3>3, <3>4 DEF FinaliseOnly
    <3>6. status[o] \in PaidStatus
      BY <1>1, <3>1, <3>5, KnownStatus, PaidCells
      DEF IgnoreNoop, StoreConflict, Admissible, OrderKnown, EventOf, Provenance
    <3>. QED BY <1>2, <2>3, <3>6 DEF FinaliseOnly, orderVars
  <2>. QED BY <2>1, <2>2, <2>3 DEF ApplyPersistedEvent
<1>. QED BY <1>5, <1>6 DEF NewestPaidWins

\* A step that judges no event and keeps paid orders paid.
LEMMA FrameProvenance ==
  ASSUME Provenance, UNCHANGED <<evBody, lastEventAt>>,
         \A e \in EventId : /\ evState'[e] = "applied" <=> evState[e] = "applied"
                            /\ Judged(e)' <=> Judged(e),
         \A o \in OrderId : status[o] \in PaidStatus => status'[o] \in PaidStatus
  PROVE  LastEventApplied' /\ NewestPaidWins'
<1>1. LastEventApplied'
  BY DEF Provenance, LastEventApplied
<1>2. \A e \in EventId : evBody[e].order \in OrderId
  BY DEF Provenance, TypeOK, Body
<1>3. NewestPaidWins'
  BY <1>2 DEF Provenance, NewestPaidWins
<1>. QED BY <1>1, <1>3

LEMMA StepProvenance == Provenance /\ [Next]_vars => Provenance'
<1>. SUFFICES ASSUME Provenance, [Next]_vars PROVE LastEventApplied' /\ NewestPaidWins'
  BY StepType DEF Provenance
<1>. USE DEF eventVars, ledgerVars, orderVars
<1>1. ASSUME NEW o \in OrderId, NEW ev \in {"RETRY_DELIVERY", "ADMIN_REDELIVER"},
             IsRecoverable(status[o]), Redeliver(o, ev)
      PROVE  LastEventApplied' /\ NewestPaidWins'
  <2>1. status[o] \in OrderStatus
    BY <1>1 DEF IsRecoverable, RecoverableStatus, OrderStatus
  <2>2. status' = [status EXCEPT ![o] = "delivering"]
    BY <1>1, <2>1, RedeliverCells DEF Redeliver, Transition
  <2>3. \A p \in OrderId : status[p] \in PaidStatus => status'[p] \in PaidStatus
    BY <2>2 DEF Provenance, TypeOK, PaidStatus, OrderStatus
  <2>. QED BY <1>1, <2>3, FrameProvenance DEF Redeliver, Judged, Transition
<1>2. ASSUME NEW e \in EventId, NEW b \in Body, Webhook(e, b)
      PROVE  LastEventApplied' /\ NewestPaidWins'
  BY <1>2, ApplyProvenance DEF Webhook, InsertPending
<1>3. ASSUME NEW e \in EventId, ReplayOrphan(e) PROVE LastEventApplied' /\ NewestPaidWins'
  <2>1. evBody[e] \in Body /\ evBody' = [evBody EXCEPT ![e] = evBody[e]]
    BY <1>3 DEF ReplayOrphan, Provenance, TypeOK, Replayable
  <2>. QED BY <1>3, <2>1, ApplyProvenance DEF ReplayOrphan, Replayable
<1>4. ASSUME NEW e \in EventId, AbandonOrphan(e) PROVE LastEventApplied' /\ NewestPaidWins'
  <2>1. \A x \in EventId : /\ evState'[x] = "applied" <=> evState[x] = "applied"
                           /\ Judged(x)' <=> Judged(x)
    BY <1>4 DEF AbandonOrphan, Finalise, Provenance, TypeOK, Judged, FinalState, Abandonable
  <2>. QED BY <1>4, <2>1, FrameProvenance DEF AbandonOrphan, Abandonable
<1>5. ASSUME NEW o \in OrderId,
             \/ CreateOrder(o) \/ BeginDelivery(o) \/ HandOver(o)
             \/ RunOutOfStock(o) \/ ExhaustSuppliers(o)
      PROVE  LastEventApplied' /\ NewestPaidWins'
  <2>1. \A p \in OrderId : status[p] \in PaidStatus => status'[p] \in PaidStatus
    BY <1>5 DEF CreateOrder, BeginDelivery, HandOver, RunOutOfStock, ExhaustSuppliers,
                Provenance, TypeOK, PaidStatus, OrderStatus, Transition
  <2>. QED
    BY <1>5, <2>1, FrameProvenance
    DEF CreateOrder, BeginDelivery, HandOver, RunOutOfStock, ExhaustSuppliers, Judged, Transition
<1>6. ASSUME NEW o \in OrderId,
             \/ RequeueStuck(o) \/ StartRun(o) \/ CloseJob(o)
             \/ \E g \in Generations : DropRun(o, g)
      PROVE  LastEventApplied' /\ NewestPaidWins'
  BY <1>6, FrameProvenance DEF RequeueStuck, StartRun, CloseJob, DropRun, Judged
<1>7. CASE UNCHANGED vars
  BY <1>7, FrameProvenance DEF vars, Judged
<1>. QED
  BY <1>1, <1>2, <1>3, <1>4, <1>5, <1>6, <1>7
  DEF Next, Sweeper, Fulfilment, RetryRecoverable, Retryable, AdminRedeliver

LEMMA InitProvenance == Init => Provenance
  BY InitType DEF Init, Provenance, LastEventApplied, NewestPaidWins, Judged, FinalState

\* Whatever the arrival order, an order whose newest judged event says 'paid'
\* is paid for.
THEOREM NewestPaidEventWins == Spec => []NewestPaidWins
<1>1. Provenance => NewestPaidWins
  BY DEF Provenance
<1>. QED BY InitProvenance, StepProvenance, <1>1, PTL DEF Spec

-----------------------------------------------------------------------------
(* Refinement: every transaction is a step of OrderLifecycle or a stutter. *)

\* What judging an event does to the captures and stages of the orders: an
\* unpaid order is captured by this event, or nothing visible happens.
LEMMA CaptureEffect ==
  ASSUME MoneyBooked, NEW e \in EventId, NEW b \in Body,
         evState[e] \in {"none", "orphan"},
         evBody' = [evBody EXCEPT ![e] = b],
         ApplyPersistedEvent(e, b)
  PROVE  \/ /\ status[b.order] \in {"created", "payment_failed"}
            /\ status' = [status EXCEPT ![b.order] = "paid"]
            /\ CapturesOf(b.order)' = {e}
            /\ \A p \in OrderId \ {b.order} : CapturesOf(p)' = CapturesOf(p)
         \/ /\ \A p \in OrderId : CapturesOf(p)' = CapturesOf(p)
            /\ \/ status' = status
               \/ /\ status[b.order] = "created"
                  /\ status' = [status EXCEPT ![b.order] = "payment_failed"]
<1>. DEFINE o == b.order
<1>1. o \in OrderId /\ b.paid \in BOOLEAN
  BY DEF Body
<1>2. e \notin captured
  BY DEF MoneyBooked, CapturedExactlyWhenPaid
<1>3. evBody'[e] = b /\ \A x \in EventId \ {e} : evBody'[x] = evBody[x]
  BY DEF MoneyBooked, TypeOK
<1>4. CASE captured' = captured
  <2>1. \A p \in OrderId : CapturesOf(p)' = CapturesOf(p)
    BY <1>2, <1>3, <1>4 DEF CapturesOf, MoneyBooked, TypeOK
  <2>2. CASE FinaliseOnly(e, b)
    BY <2>1, <2>2 DEF FinaliseOnly, orderVars
  <2>3. CASE ApplyTransition(e, b)
    <3>1. ~b.paid
      BY <1>2, <1>4, <2>3 DEF ApplyTransition, Transition
    <3>. QED
      BY <1>1, <2>1, <2>3, <3>1, KnownStatus, FailedCells
      DEF ApplyTransition, Admissible, OrderKnown, EventOf, MoneyBooked, Transition
  <2>. QED BY <2>2, <2>3 DEF ApplyPersistedEvent
<1>5. CASE captured' # captured
  <2>1. ApplyTransition(e, b) /\ b.paid
    BY <1>1, <1>5 DEF ApplyPersistedEvent, FinaliseOnly, ApplyTransition, ledgerVars, Transition
  <2>2. status[o] \in OrderStatus \ PaidStatus /\ status' = [status EXCEPT ![o] = "paid"]
    BY <1>1, <2>1, KnownStatus, PaidCells DEF ApplyTransition, Admissible, OrderKnown, EventOf,
                                              MoneyBooked, Transition
  <2>3. captured' = captured \cup {e}
    BY <2>1 DEF ApplyTransition, Transition
  <2>4. CapturesOf(o) = {}
    BY <1>1, <2>2 DEF MoneyBooked, CapturedExactlyWhenPaid
  <2>5. CapturesOf(o)' = {e}
    BY <1>3, <2>3, <2>4 DEF CapturesOf, MoneyBooked, TypeOK
  <2>6. \A p \in OrderId \ {o} : CapturesOf(p)' = CapturesOf(p)
    BY <1>2, <1>3, <2>3 DEF CapturesOf, MoneyBooked, TypeOK
  <2>. QED BY <2>2, <2>5, <2>6 DEF PaidStatus
<1>. QED BY <1>4, <1>5

\* A step that shows nothing of itself at the level of OrderLifecycle.
LEMMA Stutter ==
  ASSUME \A o \in OrderId : StageOf(status[o])' = StageOf(status[o]),
         \A o \in OrderId : CapturesOf(o)' = CapturesOf(o),
         \A o \in OrderId : RecognisedFor(o)' = RecognisedFor(o),
         issued' = issued
  PROVE  UNCHANGED Lifecycle!lifecycleVars
  BY DEF Lifecycle!lifecycleVars

LEMMA SimulateEvent ==
  ASSUME MoneyBooked, NEW e \in EventId, NEW b \in Body,
         evState[e] \in {"none", "orphan"},
         evBody' = [evBody EXCEPT ![e] = b],
         ApplyPersistedEvent(e, b), issued' = issued
  PROVE  [Lifecycle!Next]_(Lifecycle!lifecycleVars)
<1>1. b.order \in OrderId /\ TypeOK
  BY DEF Body, MoneyBooked
<1>2. \A p \in OrderId : RecognisedFor(p)' = RecognisedFor(p)
  BY <1>1, ApplyDelivered DEF RecognisedFor
<1>3. CASE /\ status[b.order] \in {"created", "payment_failed"}
           /\ status' = [status EXCEPT ![b.order] = "paid"]
           /\ CapturesOf(b.order)' = {e}
           /\ \A p \in OrderId \ {b.order} : CapturesOf(p)' = CapturesOf(p)
  <2>1. StageOf(status[b.order]) = "open"
    BY <1>3 DEF StageOf
  <2>2. StageOf(status[b.order])' = "owed"
    BY <1>1, <1>3 DEF StageOf, PaidStatus, OrderStatus, TypeOK
  <2>3. \A p \in OrderId \ {b.order} : StageOf(status[p])' = StageOf(status[p])
    BY <1>3 DEF StageOf, TypeOK, MoneyBooked
  <2>4. Lifecycle!Capture(b.order, e)
    BY <1>1, <1>2, <1>3, <2>1, <2>2, <2>3 DEF Lifecycle!Capture
  <2>. QED BY <1>1, <2>4 DEF Lifecycle!Next
<1>4. CASE /\ \A p \in OrderId : CapturesOf(p)' = CapturesOf(p)
           /\ \/ status' = status
              \/ /\ status[b.order] = "created"
                 /\ status' = [status EXCEPT ![b.order] = "payment_failed"]
  <2>1. \A p \in OrderId : StageOf(status[p])' = StageOf(status[p])
    BY <1>1, <1>4 DEF StageOf, TypeOK
  <2>. QED BY <1>2, <1>4, <2>1, Stutter
<1>. QED BY <1>3, <1>4, CaptureEffect

LEMMA SimulateInit == Init => Lifecycle!Init
  BY DEF Init, Lifecycle!Init, StageOf, CapturesOf, RecognisedFor

LEMMA SimulateStep ==
  MoneyBooked /\ Deliveries /\ [Next]_vars => [Lifecycle!Next]_(Lifecycle!lifecycleVars)
<1>. SUFFICES ASSUME MoneyBooked, Deliveries, [Next]_vars
              PROVE  [Lifecycle!Next]_(Lifecycle!lifecycleVars)
  OBVIOUS
<1>. USE DEF eventVars, ledgerVars, orderVars
<1>1. ASSUME NEW o \in OrderId, CreateOrder(o) PROVE Lifecycle!Next
  <2>1. StageOf(status[o]) = "none" /\ StageOf(status[o])' = "open"
    BY <1>1 DEF CreateOrder, StageOf, MoneyBooked, TypeOK
  <2>2. \A p \in OrderId \ {o} : StageOf(status[p])' = StageOf(status[p])
    BY <1>1 DEF CreateOrder, StageOf, MoneyBooked, TypeOK
  <2>3. \A p \in OrderId : CapturesOf(p)' = CapturesOf(p) /\ RecognisedFor(p)' = RecognisedFor(p)
    BY <1>1 DEF CreateOrder, CapturesOf, RecognisedFor
  <2>4. Lifecycle!Place(o)
    BY <1>1, <2>1, <2>2, <2>3 DEF Lifecycle!Place, CreateOrder
  <2>. QED BY <2>4 DEF Lifecycle!Next
<1>2. ASSUME NEW o \in OrderId, HandOver(o) PROVE Lifecycle!Next
  <2>1. StageOf(status[o]) = "owed" /\ StageOf(status[o])' = "done"
    BY <1>2 DEF HandOver, Deliverable, StageOf, PaidStatus, OrderStatus, MoneyBooked, TypeOK, Transition
  <2>2. \A p \in OrderId \ {o} : StageOf(status[p])' = StageOf(status[p])
    BY <1>2 DEF HandOver, StageOf, MoneyBooked, TypeOK, Transition
  <2>3. \A p \in OrderId : CapturesOf(p)' = CapturesOf(p)
    BY <1>2 DEF HandOver, CapturesOf, Transition
  <2>4. RecognisedFor(o) = {}
    BY <1>2 DEF HandOver, Deliverable, Deliveries, RecognisedExactlyWhenDelivered, Transition
  <2>5. RecognisedFor(o)' = {generation[o]} /\ generation[o] \in Generations
    BY <1>2, <2>4 DEF HandOver, RecognisedFor, MoneyBooked, TypeOK, Transition
  <2>6. \A p \in OrderId \ {o} : RecognisedFor(p)' = RecognisedFor(p)
    BY <1>2 DEF HandOver, RecognisedFor, MoneyBooked, TypeOK, Transition
  <2>7. Lifecycle!HandOver(o, generation[o])
    BY <1>2, <2>1, <2>2, <2>3, <2>5, <2>6 DEF Lifecycle!HandOver, HandOver, Transition
  <2>. QED BY <2>5, <2>7 DEF Lifecycle!Next
<1>3. ASSUME NEW o \in OrderId, NEW ev \in {"RETRY_DELIVERY", "ADMIN_REDELIVER"},
             IsRecoverable(status[o]), Redeliver(o, ev)
      PROVE  UNCHANGED Lifecycle!lifecycleVars
  <2>1. status[o] \in OrderStatus
    BY <1>3 DEF IsRecoverable, RecoverableStatus, OrderStatus
  <2>2. status' = [status EXCEPT ![o] = "delivering"]
    BY <1>3, <2>1, RedeliverCells DEF Redeliver, Transition
  <2>3. \A p \in OrderId : StageOf(status[p])' = StageOf(status[p])
    BY <1>3, <2>2 DEF StageOf, IsRecoverable, RecoverableStatus, PaidStatus, OrderStatus, MoneyBooked,
                      TypeOK
  <2>. QED BY <1>3, <2>3, Stutter DEF Redeliver, CapturesOf, RecognisedFor, Transition
<1>4. ASSUME NEW e \in EventId, NEW b \in Body, Webhook(e, b)
      PROVE  [Lifecycle!Next]_(Lifecycle!lifecycleVars)
  BY <1>4, SimulateEvent DEF Webhook, InsertPending
<1>5. ASSUME NEW e \in EventId, ReplayOrphan(e) PROVE [Lifecycle!Next]_(Lifecycle!lifecycleVars)
  <2>1. evBody[e] \in Body /\ evBody' = [evBody EXCEPT ![e] = evBody[e]]
    BY <1>5 DEF ReplayOrphan, MoneyBooked, TypeOK, Replayable
  <2>. QED BY <1>5, <2>1, SimulateEvent DEF ReplayOrphan, Replayable
<1>6. ASSUME NEW o \in OrderId, BeginDelivery(o) \/ RunOutOfStock(o) \/ ExhaustSuppliers(o)
      PROVE  UNCHANGED Lifecycle!lifecycleVars
  <2>1. \A p \in OrderId : StageOf(status[p])' = StageOf(status[p])
    BY <1>6 DEF BeginDelivery, RunOutOfStock, ExhaustSuppliers, Deliverable, StageOf, PaidStatus,
                OrderStatus, MoneyBooked, TypeOK, Transition
  <2>. QED
    BY <1>6, <2>1, Stutter
    DEF BeginDelivery, RunOutOfStock, ExhaustSuppliers, CapturesOf, RecognisedFor, Transition
<1>7. ASSUME NEW o \in OrderId,
             \/ RequeueStuck(o) \/ StartRun(o) \/ CloseJob(o)
             \/ \E g \in Generations : DropRun(o, g)
      PROVE  UNCHANGED Lifecycle!lifecycleVars
  BY <1>7, Stutter
  DEF RequeueStuck, StartRun, CloseJob, DropRun, CapturesOf, RecognisedFor, StageOf
<1>8. ASSUME NEW e \in EventId, AbandonOrphan(e) PROVE UNCHANGED Lifecycle!lifecycleVars
  BY <1>8, Stutter DEF AbandonOrphan, CapturesOf, RecognisedFor, StageOf, Abandonable
<1>9. CASE UNCHANGED vars
  BY <1>9, Stutter DEF vars, CapturesOf, RecognisedFor, StageOf
<1>. QED
  BY <1>1, <1>2, <1>3, <1>4, <1>5, <1>6, <1>7, <1>8, <1>9
  DEF Next, Sweeper, Fulfilment, RetryRecoverable, Retryable, AdminRedeliver

\* The transactions of the service implement the life of an order.
THEOREM StoreImplementsLifecycle == Spec => ImplementsLifecycle
  BY InitBooks, StepBooks, InitDeliveries, StepDeliveries, SimulateInit, SimulateStep, PTL
  DEF Spec, ImplementsLifecycle, Lifecycle!Spec

-----------------------------------------------------------------------------
(* Nobody is forgotten: pass 2 asks for paid_at, the worker for the         *)
(* generation, and both have kept up with the status.                       *)

PaidStamped == \A o \in OrderId : status[o] \in PaidStatus => paidAt[o]

GenerationsReached ==
  \A o \in OrderId :
    /\ job[o] <= generation[o]
    /\ \A g \in Generations : <<o, g>> \in runs => g <= generation[o]

Remembered == TypeOK /\ PaidStamped /\ GenerationsReached

LEMMA ApplyRemembers ==
  ASSUME Remembered, NEW e \in EventId, NEW b \in Body, ApplyPersistedEvent(e, b), UNCHANGED runs
  PROVE  PaidStamped' /\ GenerationsReached'
<1>1. CASE FinaliseOnly(e, b)
  BY <1>1 DEF FinaliseOnly, orderVars, Remembered, PaidStamped, GenerationsReached
<1>2. CASE ApplyTransition(e, b)
  <2>. DEFINE o == b.order
  <2>1. o \in OrderId /\ b.paid \in BOOLEAN /\ status[o] \in OrderStatus
    BY <1>2, KnownStatus DEF Body, ApplyTransition, Admissible, OrderKnown, Remembered
  <2>2. IF b.paid THEN paidAt' = [paidAt EXCEPT ![o] = TRUE] /\ Enqueue(o, generation[o])
        ELSE UNCHANGED <<paidAt, job>>
    BY <1>2 DEF ApplyTransition
  <2>3. generation' = generation /\ status' = [status EXCEPT ![o] = Resolve(status[o], EventOf(b)).to]
    BY <1>2 DEF ApplyTransition, Transition
  <2>4. ~b.paid => Resolve(status[o], EventOf(b)).to = "payment_failed"
    BY <1>2, <2>1, FailedCells DEF ApplyTransition, EventOf
  <2>5. PaidStamped'
    BY <2>1, <2>2, <2>3, <2>4 DEF Remembered, TypeOK, PaidStamped, PaidStatus
  <2>6. \A p \in OrderId : job'[p] = job[p] \/ job'[p] = generation[p]
    BY <2>1, <2>2 DEF Enqueue, Remembered, TypeOK
  <2>7. GenerationsReached'
    BY <2>3, <2>6 DEF Remembered, TypeOK, GenerationsReached, Generations
  <2>. QED BY <2>5, <2>7
<1>. QED BY <1>1, <1>2 DEF ApplyPersistedEvent

LEMMA RedeliverRemembers ==
  ASSUME Remembered, NEW o \in OrderId, NEW ev \in {"RETRY_DELIVERY", "ADMIN_REDELIVER"},
         IsRecoverable(status[o]), Redeliver(o, ev)
  PROVE  PaidStamped' /\ GenerationsReached'
<1>1. status[o] \in OrderStatus /\ status[o] \in PaidStatus
  BY DEF IsRecoverable, RecoverableStatus, OrderStatus, PaidStatus
<1>2. /\ paidAt' = paidAt /\ runs' = runs
      /\ generation' = [generation EXCEPT ![o] = @ + 1]
      /\ Enqueue(o, generation[o] + 1)
      /\ status' = [status EXCEPT ![o] = "delivering"]
  BY <1>1, RedeliverCells DEF Redeliver, Transition
<1>3. PaidStamped'
  BY <1>1, <1>2 DEF Remembered, TypeOK, PaidStamped
<1>4. \A p \in OrderId : /\ generation[p] <= generation'[p] /\ generation[p] \in Nat /\ generation'[p] \in Nat
                         /\ job'[p] = job[p] \/ job'[p] = generation'[p]
  BY <1>2 DEF Enqueue, Remembered, TypeOK, Generations
<1>5. \A p \in OrderId : job[p] \in Int
  BY DEF Remembered, TypeOK, Generations, NoJob
<1>6. \A p \in OrderId : job'[p] <= generation'[p]
  BY <1>4, <1>5 DEF Remembered, GenerationsReached
<1>7. \A p \in OrderId, g \in Generations : <<p, g>> \in runs' => g <= generation'[p]
  <2>. SUFFICES ASSUME NEW p \in OrderId, NEW g \in Generations, <<p, g>> \in runs
                PROVE  g <= generation'[p]
    BY <1>2
  <2>1. g <= generation[p] /\ g \in Int
    BY DEF Remembered, GenerationsReached, Generations
  <2>. QED BY <1>4, <2>1
<1>8. GenerationsReached'
  BY <1>6, <1>7 DEF GenerationsReached
<1>. QED BY <1>3, <1>8

\* A step that leaves generations, jobs, runs and paid_at alone, or takes rows
\* away, and pays for nothing.
LEMMA FrameRemembers ==
  ASSUME Remembered, UNCHANGED <<paidAt, generation>>,
         \A o \in OrderId : status'[o] \in PaidStatus => status[o] \in PaidStatus,
         \A o \in OrderId : job'[o] = job[o] \/ job'[o] <= generation[o],
         \A o \in OrderId, g \in Generations : <<o, g>> \in runs' => <<o, g>> \in runs \/ g = job[o]
  PROVE  PaidStamped' /\ GenerationsReached'
BY DEF Remembered, PaidStamped, GenerationsReached

LEMMA StepRemembers == Remembered /\ [Next]_vars => Remembered'
<1>. SUFFICES ASSUME Remembered, [Next]_vars PROVE PaidStamped' /\ GenerationsReached'
  BY StepType DEF Remembered
<1>. USE DEF eventVars, ledgerVars, orderVars
<1>1. ASSUME NEW e \in EventId, NEW b \in Body, Webhook(e, b) PROVE PaidStamped' /\ GenerationsReached'
  BY <1>1, ApplyRemembers DEF Webhook
<1>2. ASSUME NEW e \in EventId, ReplayOrphan(e) PROVE PaidStamped' /\ GenerationsReached'
  <2>1. evBody[e] \in Body
    BY DEF Remembered, TypeOK
  <2>. QED BY <1>2, <2>1, ApplyRemembers DEF ReplayOrphan
<1>3. ASSUME NEW o \in OrderId, AdminRedeliver(o) \/ RetryRecoverable(o) PROVE PaidStamped' /\ GenerationsReached'
  BY <1>3, RedeliverRemembers DEF AdminRedeliver, RetryRecoverable, Retryable
<1>4. ASSUME NEW o \in OrderId,
             CreateOrder(o) \/ BeginDelivery(o) \/ HandOver(o) \/ RunOutOfStock(o) \/ ExhaustSuppliers(o)
      PROVE  PaidStamped' /\ GenerationsReached'
  <2>1. UNCHANGED <<paidAt, generation, job, runs>>
    BY <1>4 DEF CreateOrder, BeginDelivery, HandOver, RunOutOfStock, ExhaustSuppliers
  <2>2. \A p \in OrderId : status'[p] \in PaidStatus => status[p] \in PaidStatus
    <3>1. CASE CreateOrder(o)
      BY <3>1 DEF CreateOrder, Remembered, TypeOK, PaidStatus
    <3>2. ASSUME NEW s, status' = [status EXCEPT ![o] = s], status[o] \in PaidStatus
          PROVE  \A p \in OrderId : status'[p] \in PaidStatus => status[p] \in PaidStatus
      BY <3>2 DEF Remembered, TypeOK
    <3>3. ASSUME ~CreateOrder(o) PROVE status[o] \in {"paid", "delivering"}
      BY <1>4, <3>3 DEF BeginDelivery, HandOver, RunOutOfStock, ExhaustSuppliers, Deliverable
    <3>4. ASSUME ~CreateOrder(o) PROVE \E s : status' = [status EXCEPT ![o] = s]
      BY <1>4, <3>4 DEF BeginDelivery, HandOver, RunOutOfStock, ExhaustSuppliers, Transition
    <3>5. {"paid", "delivering"} \subseteq PaidStatus
      BY DEF PaidStatus, OrderStatus
    <3>. QED BY <3>1, <3>2, <3>3, <3>4, <3>5
  <2>. QED BY <2>1, <2>2, FrameRemembers
<1>5. ASSUME NEW e \in EventId, AbandonOrphan(e) PROVE PaidStamped' /\ GenerationsReached'
  BY <1>5, FrameRemembers DEF AbandonOrphan
<1>6. ASSUME NEW o \in OrderId, RequeueStuck(o) PROVE PaidStamped' /\ GenerationsReached'
  <2>1. \A p \in OrderId : job'[p] = job[p] \/ job'[p] = generation[p]
    BY <1>6 DEF RequeueStuck, Enqueue, Remembered, TypeOK
  <2>2. \A p \in OrderId : generation[p] <= generation[p]
    BY DEF Remembered, TypeOK, Generations
  <2>. QED BY <1>6, <2>1, <2>2, FrameRemembers DEF RequeueStuck
<1>7. ASSUME NEW o \in OrderId, StartRun(o) PROVE PaidStamped' /\ GenerationsReached'
  BY <1>7, FrameRemembers DEF StartRun
<1>8. ASSUME NEW o \in OrderId, CloseJob(o) PROVE PaidStamped' /\ GenerationsReached'
  <2>1. \A p \in OrderId : job'[p] = job[p] \/ job'[p] <= generation[p]
    BY <1>8 DEF CloseJob, Remembered, TypeOK, Generations, NoJob
  <2>. QED BY <1>8, <2>1, FrameRemembers DEF CloseJob
<1>9. ASSUME NEW o \in OrderId, NEW g \in Generations, DropRun(o, g) PROVE PaidStamped' /\ GenerationsReached'
  BY <1>9, FrameRemembers DEF DropRun
<1>10. CASE UNCHANGED vars
  BY <1>10, FrameRemembers DEF vars
<1>. QED
  BY <1>1, <1>2, <1>3, <1>4, <1>5, <1>6, <1>7, <1>8, <1>9, <1>10 DEF Next, Sweeper, Fulfilment

LEMMA InitRemembers == Init => Remembered
<1>. SUFFICES ASSUME Init PROVE PaidStamped /\ GenerationsReached
  BY InitType DEF Remembered
<1>1. PaidStamped
  BY DEF Init, PaidStamped, PaidStatus, OrderStatus
<1>2. GenerationsReached
  BY DEF Init, GenerationsReached, NoJob
<1>. QED BY <1>1, <1>2

\* An order that is owed its goods has a live job, or pass 2 finds it, or it is
\* in a status that can be retried; no job or run is ahead of its order.
THEOREM PaidOrdersAreFound == Spec => []NoPaidOrderForgotten
<1>1. ASSUME Remembered, Deliveries PROVE NoPaidOrderForgotten
  <2>. SUFFICES ASSUME NEW o \in OrderId, status[o] \in PaidStatus \ {"delivered"}
                PROVE  job[o] # NoJob \/ Stuck(o) \/ IsRecoverable(status[o])
    BY <1>1 DEF NoPaidOrderForgotten, Remembered, GenerationsReached
  <2>1. paidAt[o] /\ o \notin issued
    BY <1>1 DEF Remembered, PaidStamped, Deliveries, RecognisedExactlyWhenDelivered
  <2>2. status[o] \in {"paid", "delivering"} \cup RecoverableStatus
    BY DEF PaidStatus, OrderStatus, RecoverableStatus
  <2>. QED BY <2>1, <2>2 DEF Stuck, IsRecoverable
<1>. QED BY <1>1, InitRemembers, StepRemembers, InitDeliveries, StepDeliveries, PTL DEF Spec

-----------------------------------------------------------------------------
(* The table: what the fulfilment writes without asking it.                *)

LEMMA FulfilmentCells ==
  /\ TableStep("paid", "delivering")
  /\ \A t \in {"delivered", "out_of_stock", "delivery_failed"} : TableStep("delivering", t)
<1>. USE DEF TableStep, ResolvesTo, IsLegal, Resolve, TransitionTable, ApplyTo, Noop, Conflict
<1>. "DELIVERY_STARTED" \in OrderEvent /\ "DELIVERY_SUCCEEDED" \in OrderEvent
     /\ "DELIVERY_OUT_OF_STOCK" \in OrderEvent /\ "DELIVERY_FAILED" \in OrderEvent
  BY DEF OrderEvent
<1>1. TableStep("paid", "delivering")
  OBVIOUS
<1>2. TableStep("delivering", "delivered")
  OBVIOUS
<1>3. TableStep("delivering", "out_of_stock")
  OBVIOUS
<1>4. TableStep("delivering", "delivery_failed")
  OBVIOUS
<1>. QED BY <1>1, <1>2, <1>3, <1>4

\* One cell, or two for a pool order.
TablePath(o, s, t) ==
  \/ TableStep(s, t)
  \/ o \in PoolOrders /\ \E m \in OrderStatus : TableStep(s, m) /\ TableStep(m, t)

\* A transaction that writes the status of at most one order, along a path.
OnPath ==
  status' = status \/
  \E o \in OrderId, t \in OrderStatus :
    status' = [status EXCEPT ![o] = t] /\ (status[o] = "absent" \/ TablePath(o, status[o], t))

LEMMA ApplyOnPath ==
  ASSUME TypeOK, NEW e \in EventId, NEW b \in Body, ApplyPersistedEvent(e, b)
  PROVE  OnPath
<1>1. CASE FinaliseOnly(e, b)
  BY <1>1 DEF FinaliseOnly, orderVars, OnPath
<1>2. CASE ApplyTransition(e, b)
  <2>1. b.order \in OrderId /\ b.paid \in BOOLEAN /\ status[b.order] \in OrderStatus
    BY <1>2, KnownStatus DEF Body, ApplyTransition, Admissible, OrderKnown
  <2>2. EventOf(b) \in OrderEvent /\ ResolvesTo(status[b.order], EventOf(b), "apply")
    BY <1>2 DEF ApplyTransition, EventOf, OrderEvent
  <2>3. Resolve(status[b.order], EventOf(b)).to \in OrderStatus
    BY <2>1, <2>2, PaidCells, FailedCells DEF EventOf, OrderStatus
  <2>4. status' = [status EXCEPT ![b.order] = Resolve(status[b.order], EventOf(b)).to]
    BY <1>2 DEF ApplyTransition, Transition
  <2>5. TableStep(status[b.order], Resolve(status[b.order], EventOf(b)).to)
    BY <2>2 DEF TableStep
  <2>. QED BY <2>1, <2>3, <2>4, <2>5 DEF OnPath, TablePath
<1>. QED BY <1>1, <1>2 DEF ApplyPersistedEvent

LEMMA RedeliverOnPath ==
  ASSUME NEW o \in OrderId, NEW ev \in {"RETRY_DELIVERY", "ADMIN_REDELIVER"},
         IsRecoverable(status[o]), Redeliver(o, ev)
  PROVE  OnPath
<1>1. status[o] \in OrderStatus /\ ResolvesTo(status[o], ev, "apply") /\ ev \in OrderEvent
  BY DEF IsRecoverable, RecoverableStatus, OrderStatus, Redeliver, OrderEvent
<1>2. Resolve(status[o], ev).to \in OrderStatus
  BY <1>1, RedeliverCells DEF OrderStatus
<1>3. status' = [status EXCEPT ![o] = Resolve(status[o], ev).to]
  BY DEF Redeliver, Transition
<1>4. TableStep(status[o], Resolve(status[o], ev).to)
  BY <1>1 DEF TableStep
<1>. QED BY <1>2, <1>3, <1>4 DEF OnPath, TablePath

LEMMA StepOnPath == TypeOK /\ [Next]_vars => OnPath
<1>. SUFFICES ASSUME TypeOK, [Next]_vars PROVE OnPath
  OBVIOUS
<1>. USE DEF orderVars
<1>1. ASSUME NEW e \in EventId, NEW b \in Body, Webhook(e, b) PROVE OnPath
  BY <1>1, ApplyOnPath DEF Webhook
<1>2. ASSUME NEW e \in EventId, ReplayOrphan(e) PROVE OnPath
  <2>1. evBody[e] \in Body
    BY DEF TypeOK
  <2>. QED BY <1>2, <2>1, ApplyOnPath DEF ReplayOrphan
<1>3. ASSUME NEW o \in OrderId, AdminRedeliver(o) \/ RetryRecoverable(o) PROVE OnPath
  BY <1>3, RedeliverOnPath DEF AdminRedeliver, RetryRecoverable, Retryable
<1>4. ASSUME NEW o \in OrderId, CreateOrder(o) PROVE OnPath
  BY <1>4 DEF CreateOrder, OnPath, OrderStatus
<1>5. ASSUME NEW o \in OrderId, BeginDelivery(o) PROVE OnPath
  BY <1>5, FulfilmentCells DEF BeginDelivery, Transition, OnPath, TablePath, OrderStatus
<1>6. ASSUME NEW o \in OrderId, HandOver(o) \/ RunOutOfStock(o) \/ ExhaustSuppliers(o) PROVE OnPath
  <2>1. PICK t \in {"delivered", "out_of_stock", "delivery_failed"} : status' = [status EXCEPT ![o] = t]
    BY <1>6 DEF HandOver, RunOutOfStock, ExhaustSuppliers, Transition
  <2>2. status[o] = "delivering" \/ (o \in PoolOrders /\ status[o] = "paid")
    BY <1>6 DEF HandOver, RunOutOfStock, ExhaustSuppliers, Deliverable
  <2>3. TableStep("delivering", t) /\ TableStep("paid", "delivering") /\ t \in OrderStatus
    BY <2>1, FulfilmentCells DEF OrderStatus
  <2>4. "delivering" \in OrderStatus
    BY DEF OrderStatus
  <2>5. TablePath(o, status[o], t)
    BY <2>2, <2>3, <2>4 DEF TablePath
  <2>. QED BY <2>1, <2>3, <2>5 DEF OnPath
<1>7. ASSUME status' = status PROVE OnPath
  BY <1>7 DEF OnPath
<1>8. ASSUME NEW o \in OrderId,
             \/ RequeueStuck(o) \/ StartRun(o) \/ CloseJob(o)
             \/ \E g \in Generations : DropRun(o, g)
      PROVE  status' = status
  BY <1>8 DEF RequeueStuck, StartRun, CloseJob, DropRun
<1>9. ASSUME NEW e \in EventId, AbandonOrphan(e) PROVE status' = status
  BY <1>9 DEF AbandonOrphan
<1>10. CASE UNCHANGED vars
  BY <1>7, <1>10 DEF vars
<1>. QED
  BY <1>1, <1>2, <1>3, <1>4, <1>5, <1>6, <1>7, <1>8, <1>9, <1>10 DEF Next, Sweeper, Fulfilment

\* Whatever a transaction commits, an order's status moves along the table.
THEOREM StatusStaysInTable == Spec => StatusFollowsTable
<1>. DEFINE Path == \A o \in OrderId :
       status'[o] # status[o] /\ status[o] # "absent" =>
         \/ TableStep(status[o], status'[o])
         \/ /\ o \in PoolOrders
            /\ \E s \in OrderStatus : TableStep(status[o], s) /\ TableStep(s, status'[o])
<1>1. ASSUME TypeOK, [Next]_vars PROVE [Path]_vars
  <2>1. OnPath
    BY <1>1, StepOnPath
  <2>2. Path
    BY <1>1, <2>1 DEF OnPath, TablePath, TypeOK
  <2>. QED BY <2>2
<1>2. Spec => [][Path]_vars
  BY <1>1, TypeCorrect, PTL DEF Spec
<1>. QED BY <1>2 DEF StatusFollowsTable

-----------------------------------------------------------------------------
(* The sums of Ledger are folds, which the library defines by recursion on  *)
(* sets.  A transaction has two legs and an order at most two transactions, *)
(* so the recursion is unrolled.                                           *)

\* The recursion of a fold over two legs that adds w[i] for leg i.
FoldsTwo(w, f) ==
  f = [s \in SUBSET {1, 2} |-> IF s = {} THEN 0 ELSE f[s \ {Max(s)}] + w[Max(s)]]

LEMMA MaxOfTwo == Max({1}) = 1 /\ Max({2}) = 2 /\ Max({1, 2}) = 2
  BY DEF Max

LEMMA SubsetsOfTwo == \A s \in SUBSET {1, 2} : s = {} \/ s = {1} \/ s = {2} \/ s = {1, 2}
  OBVIOUS

LEMMA TwoFoldExists ==
  ASSUME NEW w \in [{1, 2} -> Int]
  PROVE  \E f : FoldsTwo(w, f)
<1>. DEFINE F == [s \in SUBSET {1, 2} |-> (IF 1 \in s THEN w[1] ELSE 0) + (IF 2 \in s THEN w[2] ELSE 0)]
<1>1. ASSUME NEW s \in SUBSET {1, 2}
      PROVE  F[s] = IF s = {} THEN 0 ELSE F[s \ {Max(s)}] + w[Max(s)]
  <2>1. CASE s = {}
    BY <2>1
  <2>2. CASE s = {1}
    BY <2>2, MaxOfTwo
  <2>3. CASE s = {2}
    BY <2>3, MaxOfTwo
  <2>4. CASE s = {1, 2}
    <3>1. s \ {2} = {1}
      BY <2>4
    <3>. QED BY <2>4, <3>1, MaxOfTwo
  <2>. QED BY <2>1, <2>2, <2>3, <2>4, SubsetsOfTwo
<1>2. F = [s \in SUBSET {1, 2} |-> F[s]]
  OBVIOUS
<1>. HIDE DEF F
<1>3. FoldsTwo(w, F)
  BY <1>1, <1>2 DEF FoldsTwo
<1>. QED BY <1>3

LEMMA TwoFoldValue ==
  ASSUME NEW w \in [{1, 2} -> Int], NEW f, FoldsTwo(w, f)
  PROVE  f[{1, 2}] = w[1] + w[2]
<1>1. f[{}] = 0
  BY DEF FoldsTwo
<1>2. f[{1}] = f[{}] + w[1]
  <2>1. {1} \in SUBSET {1, 2} /\ {1} # {}
    OBVIOUS
  <2>2. f[{1}] = f[{1} \ {Max({1})}] + w[Max({1})]
    BY <2>1 DEF FoldsTwo
  <2>3. {1} \ {Max({1})} = {}
    BY MaxOfTwo
  <2>. QED BY <2>2, <2>3, MaxOfTwo
<1>3. f[{1, 2}] = f[{1}] + w[2]
  <2>1. {1, 2} \ {2} = {1}
    OBVIOUS
  <2>. QED BY <2>1, MaxOfTwo DEF FoldsTwo
<1>. QED BY <1>1, <1>2, <1>3

Leg == [account : {"cash", "customer_prepayment", "revenue"},
        direction : {"debit", "credit"}, amount : Int]

\* The legs of a transaction sum to what the two of them count for, and so do those
\* in one account.
LEMMA SumOfTwoLegs ==
  ASSUME NEW a \in Leg, NEW b \in Leg
  PROVE  SumOfLegs(<<a, b>>) = Signed(a) + Signed(b)
<1>. DEFINE legs == <<a, b>>
            w == [i \in {1, 2} |-> Signed(legs[i])]
            Iter(f) == [s \in SUBSET DOMAIN legs |->
                          IF s = {} THEN 0 ELSE LET i == Max(s) IN f[s \ {i}] + Signed(legs[i])]
<1>1. SumOfLegs(legs) = (CHOOSE f : f = Iter(f))[DOMAIN legs]
  BY DEF SumOfLegs, FoldLeft, MapThenFoldSet
<1>2. DOMAIN legs = {1, 2} /\ legs[1] = a /\ legs[2] = b
  OBVIOUS
<1>3. w \in [{1, 2} -> Int] /\ w[1] = Signed(a) /\ w[2] = Signed(b)
  BY <1>2 DEF Signed, Leg
<1>4. ASSUME NEW f PROVE FoldsTwo(w, f) <=> f = Iter(f)
  <2>1. \A s \in SUBSET {1, 2} : s # {} => w[Max(s)] = Signed(legs[Max(s)])
    BY <1>3, MaxOfTwo, SubsetsOfTwo
  <2>. HIDE DEF w, legs
  <2>. QED BY <1>2, <2>1 DEF FoldsTwo
<1>. HIDE DEF w, legs
<1>5. \E f : f = Iter(f)
  <2>1. PICK f : FoldsTwo(w, f)
    BY <1>3, TwoFoldExists
  <2>. QED BY <2>1, <1>4
<1>. HIDE DEF Iter
<1>6. PICK f : f = Iter(f) /\ f = (CHOOSE g : g = Iter(g))
  BY <1>5
<1>7. f[{1, 2}] = w[1] + w[2]
  BY <1>3, <1>4, <1>6, TwoFoldValue
<1>8. SumOfLegs(legs) = Signed(a) + Signed(b)
  BY <1>1, <1>2, <1>3, <1>6, <1>7
<1>. QED BY <1>8 DEF legs

LEMMA MovedByTwoLegs ==
  ASSUME NEW txn, NEW account, NEW a \in Leg, NEW b \in Leg, txn.legs = <<a, b>>
  PROVE  Moved(txn, account) = SignedIn(a, account) + SignedIn(b, account)
<1>. DEFINE legs == txn.legs
            w == [i \in {1, 2} |-> SignedIn(legs[i], account)]
            Iter(f) == [s \in SUBSET DOMAIN legs |->
                          IF s = {} THEN 0
                          ELSE LET i == Max(s) IN f[s \ {i}] + SignedIn(legs[i], account)]
<1>1. Moved(txn, account) = (CHOOSE f : f = Iter(f))[DOMAIN legs]
  BY DEF Moved, FoldLeft, MapThenFoldSet
<1>2. DOMAIN legs = {1, 2} /\ legs[1] = a /\ legs[2] = b
  OBVIOUS
<1>3. w \in [{1, 2} -> Int] /\ w[1] = SignedIn(a, account) /\ w[2] = SignedIn(b, account)
  BY <1>2 DEF SignedIn, Signed, Leg
<1>4. ASSUME NEW f PROVE FoldsTwo(w, f) <=> f = Iter(f)
  <2>1. \A s \in SUBSET {1, 2} : s # {} => w[Max(s)] = SignedIn(legs[Max(s)], account)
    BY <1>3, MaxOfTwo, SubsetsOfTwo
  <2>. HIDE DEF w, legs
  <2>. QED BY <1>2, <2>1 DEF FoldsTwo
<1>. HIDE DEF w, legs
<1>5. \E f : f = Iter(f)
  <2>1. PICK f : FoldsTwo(w, f)
    BY <1>3, TwoFoldExists
  <2>. QED BY <2>1, <1>4
<1>. HIDE DEF Iter
<1>6. PICK f : f = Iter(f) /\ f = (CHOOSE g : g = Iter(g))
  BY <1>5
<1>7. f[{1, 2}] = w[1] + w[2]
  BY <1>3, <1>4, <1>6, TwoFoldValue
<1>. QED BY <1>1, <1>2, <1>3, <1>6, <1>7

\* Likewise for the transactions of an order, of which there are none, one or two.
BalanceFolds(S, account, f) ==
  f = [s \in SUBSET S |-> IF s = {} THEN 0
                          ELSE LET x == CHOOSE x \in s : TRUE IN Moved(x, account) + f[s \ {x}]]

LEMMA BalanceIsFold ==
  ASSUME NEW txns, NEW order, NEW account, NEW S, S = {t \in txns : t.order = order},
         \E f : BalanceFolds(S, account, f)
  PROVE  \E f : BalanceFolds(S, account, f) /\ Balance(txns, order, account) = f[S]
<1>. DEFINE Iter(f) == [s \in SUBSET S |->
                          IF s = {} THEN 0
                          ELSE LET x == CHOOSE x \in s : TRUE IN Moved(x, account) + f[s \ {x}]]
<1>1. Balance(txns, order, account) = (CHOOSE f : f = Iter(f))[S]
  BY DEF Balance, MapThenSumSet, MapThenFoldSet
<1>2. \A f : BalanceFolds(S, account, f) <=> f = Iter(f)
  BY DEF BalanceFolds
<1>. HIDE DEF Iter
<1>3. PICK f : f = Iter(f) /\ f = (CHOOSE g : g = Iter(g))
  BY <1>2
<1>. QED BY <1>1, <1>2, <1>3

LEMMA BalanceOfNone ==
  ASSUME NEW txns, NEW order, NEW account, {t \in txns : t.order = order} = {}
  PROVE  Balance(txns, order, account) = 0
<1>1. [s \in SUBSET {} |-> 0] = [s \in SUBSET {} |-> IF s = {} THEN 0 ELSE 1]
  OBVIOUS
<1>2. \E f : BalanceFolds({}, account, f)
  <2>. DEFINE F == [s \in SUBSET {} |-> 0]
  <2>1. BalanceFolds({}, account, F)
    BY DEF BalanceFolds
  <2>. QED BY <2>1
<1>3. PICK f : BalanceFolds({}, account, f) /\ Balance(txns, order, account) = f[{}]
  BY <1>2, BalanceIsFold
<1>. QED BY <1>3 DEF BalanceFolds

LEMMA BalanceOfOne ==
  ASSUME NEW txns, NEW order, NEW account, NEW c, {t \in txns : t.order = order} = {c},
         Moved(c, account) \in Int
  PROVE  Balance(txns, order, account) = Moved(c, account)
<1>1. \E f : BalanceFolds({c}, account, f)
  <2>. DEFINE F == [s \in SUBSET {c} |-> IF s = {} THEN 0 ELSE Moved(c, account)]
  <2>1. BalanceFolds({c}, account, F)
    BY DEF BalanceFolds
  <2>. QED BY <2>1
<1>2. PICK f : BalanceFolds({c}, account, f) /\ Balance(txns, order, account) = f[{c}]
  BY <1>1, BalanceIsFold
<1>3. f[{}] = 0
  BY <1>2 DEF BalanceFolds
<1>4. f[{c}] = Moved(c, account) + f[{}]
  <2>. DEFINE x == CHOOSE x \in {c} : TRUE
  <2>1. x = c /\ {c} # {} /\ {c} \in SUBSET {c}
    OBVIOUS
  <2>2. f[{c}] = Moved(x, account) + f[{c} \ {x}]
    BY <1>2, <2>1 DEF BalanceFolds
  <2>3. {c} \ {x} = {}
    BY <2>1
  <2>. QED BY <2>1, <2>2, <2>3
<1>. QED BY <1>2, <1>3, <1>4

LEMMA BalanceOfTwo ==
  ASSUME NEW txns, NEW order, NEW account, NEW c, NEW d, c # d,
         {t \in txns : t.order = order} = {c, d},
         Moved(c, account) \in Int, Moved(d, account) \in Int
  PROVE  Balance(txns, order, account) = Moved(c, account) + Moved(d, account)
<1>. DEFINE F == [s \in SUBSET {c, d} |-> (IF c \in s THEN Moved(c, account) ELSE 0)
                                         + (IF d \in s THEN Moved(d, account) ELSE 0)]
<1>1. ASSUME NEW s \in SUBSET {c, d}, s # {}, NEW x \in s
      PROVE  F[s] = Moved(x, account) + F[s \ {x}]
  <2>1. CASE x = c
    <3>1. d \in s \ {x} <=> d \in s
      BY <2>1
    <3>. QED BY <1>1, <2>1, <3>1
  <2>2. CASE x = d
    <3>1. c \in s \ {x} <=> c \in s
      BY <2>2
    <3>. QED BY <1>1, <2>2, <3>1
  <2>. QED BY <1>1, <2>1, <2>2
<1>2. F[{}] = 0 /\ F = [s \in SUBSET {c, d} |-> F[s]]
  OBVIOUS
<1>. HIDE DEF F
<1>3. BalanceFolds({c, d}, account, F)
  <2>1. \A s \in SUBSET {c, d} : s # {} => (CHOOSE x \in s : TRUE) \in s
    OBVIOUS
  <2>2. \A s \in SUBSET {c, d} :
          F[s] = IF s = {} THEN 0
                 ELSE LET x == CHOOSE x \in s : TRUE IN Moved(x, account) + F[s \ {x}]
    BY <1>1, <1>2, <2>1
  <2>. QED BY <1>2, <2>2 DEF BalanceFolds
<1>4. PICK f : BalanceFolds({c, d}, account, f) /\ Balance(txns, order, account) = f[{c, d}]
  BY <1>3, BalanceIsFold
<1>5. \A s \in SUBSET {c, d} : s # {} => \E x \in s : f[s] = Moved(x, account) + f[s \ {x}]
  <2>1. \A s \in SUBSET {c, d} : s # {} => (CHOOSE x \in s : TRUE) \in s
    OBVIOUS
  <2>. QED BY <1>4, <2>1 DEF BalanceFolds
<1>6. f[{}] = 0
  BY <1>4 DEF BalanceFolds
<1>7. f[{c}] = Moved(c, account) /\ f[{d}] = Moved(d, account)
  <2>1. ASSUME NEW y \in {c, d} PROVE f[{y}] = Moved(y, account)
    <3>1. \E x \in {y} : f[{y}] = Moved(x, account) + f[{y} \ {x}]
      BY <1>5
    <3>2. {y} \ {y} = {}
      OBVIOUS
    <3>. QED BY <1>6, <3>1, <3>2
  <2>. QED BY <2>1
<1>8. PICK x \in {c, d} : f[{c, d}] = Moved(x, account) + f[{c, d} \ {x}]
  BY <1>5
<1>9. {c, d} \ {c} = {d} /\ {c, d} \ {d} = {c}
  OBVIOUS
<1>10. f[{c, d}] = Moved(c, account) + Moved(d, account)
  <2>1. CASE x = c
    BY <1>7, <1>8, <1>9, <2>1
  <2>2. CASE x = d
    <3>1. f[{c, d}] = Moved(d, account) + Moved(c, account)
      BY <1>7, <1>8, <1>9, <2>2
    <3>. QED BY <3>1
  <2>. QED BY <1>8, <2>1, <2>2
<1>. QED BY <1>4, <1>10

-----------------------------------------------------------------------------
(* What a posting moves, and which postings an order has.                  *)

\* Whatever is posted by a rule, assertPostableLegs lets it pass.
LEMMA LegsArePostable ==
  ASSUME NEW kind \in {"payment_captured", "delivery_recognized", "payment_refunded"},
         NEW amount \in Nat \ {0}
  PROVE  AssertPostableLegs(BuildBalancedLegs(kind, amount))
<1>. DEFINE debit  == [account |-> PostingRule[kind].debit,  direction |-> "debit",  amount |-> amount]
            credit == [account |-> PostingRule[kind].credit, direction |-> "credit", amount |-> amount]
<1>1. BuildBalancedLegs(kind, amount) = <<debit, credit>>
  BY DEF BuildBalancedLegs
<1>2. debit \in Leg /\ credit \in Leg
  BY DEF PostingRule, Leg
<1>3. Signed(debit) + Signed(credit) = 0
  BY DEF Signed
<1>4. SumOfLegs(<<debit, credit>>) = 0
  BY <1>2, <1>3, SumOfTwoLegs
<1>5. debit.amount = amount /\ credit.amount = amount
  OBVIOUS
<1>. HIDE DEF debit, credit
<1>6. Len(<<debit, credit>>) = 2 /\ \A k \in DOMAIN <<debit, credit>> : <<debit, credit>>[k].amount > 0
  BY <1>5
<1>. QED BY <1>1, <1>4, <1>6 DEF AssertPostableLegs

\* A posting of n by a rule debits one account with it and credits the other.
LEMMA PostingMoves ==
  ASSUME NEW kind \in {"payment_captured", "delivery_recognized"}, NEW n \in Int,
         NEW txn, txn.legs = BuildBalancedLegs(kind, n),
         NEW account \in {"cash", "customer_prepayment", "revenue"}
  PROVE  Moved(txn, account) = IF account = PostingRule[kind].debit THEN n
                               ELSE IF account = PostingRule[kind].credit THEN -n ELSE 0
<1>. DEFINE debit  == [account |-> PostingRule[kind].debit,  direction |-> "debit",  amount |-> n]
            credit == [account |-> PostingRule[kind].credit, direction |-> "credit", amount |-> n]
<1>1. txn.legs = <<debit, credit>>
  BY DEF BuildBalancedLegs
<1>2. debit \in Leg /\ credit \in Leg /\ PostingRule[kind].debit # PostingRule[kind].credit
  BY DEF PostingRule, Leg
<1>3. Moved(txn, account) = SignedIn(debit, account) + SignedIn(credit, account)
  BY <1>1, <1>2, MovedByTwoLegs
<1>4. SignedIn(debit, account) = IF account = PostingRule[kind].debit THEN n ELSE 0
  BY DEF SignedIn, Signed
<1>5. SignedIn(credit, account) = IF account = PostingRule[kind].credit THEN -n ELSE 0
  BY DEF SignedIn, Signed
<1>. QED BY <1>2, <1>3, <1>4, <1>5

LEMMA CaptureMoves ==
  ASSUME NEW e, NEW o \in OrderId, evBody[e].order = o
  PROVE  /\ Moved(CaptureOf(e), "cash") = Total[o]
         /\ Moved(CaptureOf(e), "customer_prepayment") = -Total[o]
         /\ Moved(CaptureOf(e), "revenue") = 0
<1>1. CaptureOf(e).legs = BuildBalancedLegs("payment_captured", Total[o]) /\ Total[o] \in Int
  BY TotalAssumption DEF CaptureOf, Posting
<1>2. PostingRule["payment_captured"] = [debit |-> "cash", credit |-> "customer_prepayment"]
  BY DEF PostingRule
<1>. QED BY <1>1, <1>2, PostingMoves

LEMMA RecognitionMoves ==
  ASSUME NEW o \in OrderId, NEW g
  PROVE  /\ Moved(RecognitionOf(o, g), "cash") = 0
         /\ Moved(RecognitionOf(o, g), "customer_prepayment") = Total[o]
         /\ Moved(RecognitionOf(o, g), "revenue") = -Total[o]
<1>1. /\ RecognitionOf(o, g).legs = BuildBalancedLegs("delivery_recognized", Total[o])
      /\ Total[o] \in Int
  BY TotalAssumption DEF RecognitionOf, Posting
<1>2. PostingRule["delivery_recognized"] = [debit |-> "customer_prepayment", credit |-> "revenue"]
  BY DEF PostingRule
<1>. QED BY <1>1, <1>2, PostingMoves

\* The postings of an order are those of its captures and its recognitions.
LEMMA PostingsOf ==
  ASSUME TypeOK, NEW o \in OrderId
  PROVE  {t \in Books : t.order = o} =
           {CaptureOf(e) : e \in CapturesOf(o)} \cup {RecognitionOf(o, g) : g \in RecognisedFor(o)}
<1>1. \A e : CaptureOf(e).order = evBody[e].order
  BY DEF CaptureOf, Posting
<1>2. \A p, g : RecognitionOf(p, g).order = p
  BY DEF RecognitionOf, Posting
<1>3. \A t : t \in Books /\ t.order = o =>
        \/ \E e \in CapturesOf(o) : t = CaptureOf(e)
        \/ \E g \in RecognisedFor(o) : t = RecognitionOf(o, g)
  <2>. SUFFICES ASSUME NEW t \in Books, t.order = o
                PROVE  \/ \E e \in CapturesOf(o) : t = CaptureOf(e)
                       \/ \E g \in RecognisedFor(o) : t = RecognitionOf(o, g)
    OBVIOUS
  <2>1. ASSUME NEW e \in captured, t = CaptureOf(e) PROVE e \in CapturesOf(o)
    BY <1>1, <2>1 DEF CapturesOf
  <2>2. ASSUME NEW p \in recognised, t = RecognitionOf(p[1], p[2])
        PROVE  p[1] = o /\ p[2] \in RecognisedFor(o)
    <3>1. p[1] = o /\ p \in OrderId \X Generations
      BY <1>2, <2>2 DEF TypeOK
    <3>2. p = <<o, p[2]>> /\ p[2] \in Generations
      BY <3>1
    <3>. QED BY <3>1, <3>2, <2>2 DEF RecognisedFor
  <2>. QED BY <2>1, <2>2 DEF Books
<1>4. \A e \in CapturesOf(o) : CaptureOf(e) \in Books /\ CaptureOf(e).order = o
  BY <1>1 DEF CapturesOf, Books
<1>5. \A g \in RecognisedFor(o) : RecognitionOf(o, g) \in Books /\ RecognitionOf(o, g).order = o
  <2>. SUFFICES ASSUME NEW g \in RecognisedFor(o) PROVE RecognitionOf(o, g) \in Books
    BY <1>2
  <2>1. <<o, g>> \in recognised /\ <<o, g>>[1] = o /\ <<o, g>>[2] = g
    BY DEF RecognisedFor
  <2>. QED BY <2>1 DEF Books
<1>. HIDE DEF Books
<1>. QED BY <1>3, <1>4, <1>5

\* The keys tell the two kinds of posting apart.
LEMMA KeysDiffer ==
  ASSUME NEW e, NEW o, NEW g
  PROVE  CaptureOf(e) # RecognitionOf(o, g)
<1>1. CaptureOf(e).key[1] = "payment_captured"
  BY DEF CaptureOf, Posting, BuildPaymentCapturedKey
<1>2. RecognitionOf(o, g).key[1] = "delivery_recognized"
  BY DEF RecognitionOf, Posting, BuildDeliveryRecognizedKey
<1>. QED BY <1>1, <1>2

LEMMA EveryPostingPasses ==
  ASSUME TypeOK
  PROVE  \A txn \in Books : AssertPostableLegs(txn.legs)
<1>1. ASSUME NEW e \in captured PROVE AssertPostableLegs(CaptureOf(e).legs)
  <2>1. evBody[e].order \in OrderId
    BY <1>1 DEF TypeOK, Body
  <2>2. CaptureOf(e).legs = BuildBalancedLegs("payment_captured", Total[evBody[e].order])
    BY DEF CaptureOf, Posting
  <2>. QED BY <2>1, <2>2, LegsArePostable, TotalAssumption
<1>2. ASSUME NEW p \in recognised PROVE AssertPostableLegs(RecognitionOf(p[1], p[2]).legs)
  <2>1. p[1] \in OrderId
    BY <1>2 DEF TypeOK
  <2>2. RecognitionOf(p[1], p[2]).legs = BuildBalancedLegs("delivery_recognized", Total[p[1]])
    BY DEF RecognitionOf, Posting
  <2>. QED BY <2>1, <2>2, LegsArePostable, TotalAssumption
<1>. QED BY <1>1, <1>2 DEF Books

\* The reconciliation finds nothing: in every account an order's entries come to what
\* its status says, and every transaction has passed assertPostableLegs.
THEOREM BooksAgree == Spec => []BooksMatchOrders
<1>1. ASSUME MoneyBooked, Deliveries PROVE BooksMatchOrders
  <2>. SUFFICES ASSUME NEW o \in OrderId,
                       NEW account \in {"cash", "customer_prepayment", "revenue"}
                PROVE  Balance(Books, o, account) =
                         (IF status[o] \notin PaidStatus THEN 0
                          ELSE IF account = "cash" THEN Total[o]
                          ELSE IF account = "customer_prepayment"
                               THEN (IF status[o] = "delivered" THEN 0 ELSE -Total[o])
                          ELSE (IF status[o] = "delivered" THEN -Total[o] ELSE 0))
    <3>1. TypeOK /\ "delivered" \in PaidStatus
      BY <1>1 DEF MoneyBooked, PaidStatus, OrderStatus
    <3>. QED BY <3>1, EveryPostingPasses DEF BooksMatchOrders
  <2>. DEFINE S == {t \in Books : t.order = o}
  <2>0. TypeOK /\ Total[o] \in Int
    BY <1>1, TotalAssumption DEF MoneyBooked
  <2>1. S = {CaptureOf(e) : e \in CapturesOf(o)} \cup {RecognitionOf(o, g) : g \in RecognisedFor(o)}
    BY <2>0, PostingsOf
  <2>2. CASE status[o] \notin PaidStatus
    <3>1. CapturesOf(o) = {}
      BY <1>1, <2>2 DEF MoneyBooked, CapturedExactlyWhenPaid
    <3>2. RecognisedFor(o) = {}
      BY <1>1, <2>2 DEF Deliveries, RecognisedExactlyWhenDelivered, PaidStatus, OrderStatus
    <3>3. S = {}
      BY <2>1, <3>1, <3>2
    <3>. QED BY <2>2, <3>3, BalanceOfNone
  <2>3. CASE status[o] \in PaidStatus
    <3>1. PICK e : CapturesOf(o) = {e}
      BY <1>1, <2>3 DEF MoneyBooked, CapturedExactlyWhenPaid, IsSingleton
    <3>2. evBody[e].order = o
      BY <3>1 DEF CapturesOf
    <3>3. CASE status[o] # "delivered"
      <4>1. RecognisedFor(o) = {}
        BY <1>1, <3>3 DEF Deliveries, RecognisedExactlyWhenDelivered
      <4>2. S = {CaptureOf(e)}
        BY <2>1, <3>1, <4>1
      <4>. QED BY <2>0, <2>3, <3>2, <3>3, <4>2, BalanceOfOne, CaptureMoves
    <3>4. CASE status[o] = "delivered"
      <4>1. PICK g : RecognisedFor(o) = {g}
        BY <1>1, <3>4 DEF Deliveries, RecognisedExactlyWhenDelivered, IsSingleton
      <4>2. S = {CaptureOf(e), RecognitionOf(o, g)}
        BY <2>1, <3>1, <4>1
      <4>3. Moved(CaptureOf(e), account) \in Int /\ Moved(RecognitionOf(o, g), account) \in Int
        BY <2>0, <3>2, CaptureMoves, RecognitionMoves
      <4>4. Balance(Books, o, account) = Moved(CaptureOf(e), account) + Moved(RecognitionOf(o, g), account)
        BY <4>2, <4>3, KeysDiffer, BalanceOfTwo
      <4>. QED BY <2>0, <2>3, <3>2, <3>4, <4>4, CaptureMoves, RecognitionMoves
    <3>. QED BY <3>3, <3>4
  <2>. QED BY <2>2, <2>3
<1>. QED BY <1>1, InitBooks, StepBooks, InitDeliveries, StepDeliveries, PTL DEF Spec

LEMMA StepKeepsPostings ==
  ASSUME MoneyBooked, [Next]_vars
  PROVE  /\ captured \subseteq captured' /\ recognised \subseteq recognised'
         /\ \A e \in captured : evBody'[e] = evBody[e]
<1>. DEFINE Kept == /\ captured \subseteq captured' /\ recognised \subseteq recognised'
                    /\ \A e \in captured : evBody'[e] = evBody[e]
<1>. USE DEF eventVars, ledgerVars, orderVars
<1>1. ASSUME NEW e, NEW b, ApplyPersistedEvent(e, b)
      PROVE  captured \subseteq captured' /\ recognised \subseteq recognised'
  BY <1>1 DEF ApplyPersistedEvent, FinaliseOnly, ApplyTransition
<1>2. ASSUME NEW e \in EventId, NEW b \in Body, Webhook(e, b) PROVE Kept
  <2>1. e \notin captured /\ evBody' = [evBody EXCEPT ![e] = b]
    BY <1>2 DEF Webhook, InsertPending, MoneyBooked, CapturedExactlyWhenPaid
  <2>2. \A x \in captured : x \in EventId /\ x # e
    BY <2>1 DEF MoneyBooked, TypeOK
  <2>3. evBody \in [EventId -> Body]
    BY DEF MoneyBooked, TypeOK
  <2>4. \A x \in captured : evBody'[x] = evBody[x]
    BY <2>1, <2>2, <2>3
  <2>. QED BY <1>1, <1>2, <2>4 DEF Webhook
<1>3. ASSUME NEW e \in EventId, ReplayOrphan(e) PROVE Kept
  BY <1>1, <1>3 DEF ReplayOrphan
<1>4. ASSUME NEW e \in EventId, AbandonOrphan(e) PROVE Kept
  BY <1>4 DEF AbandonOrphan
<1>5. ASSUME NEW o \in OrderId,
             \/ CreateOrder(o) \/ AdminRedeliver(o) \/ RequeueStuck(o) \/ RetryRecoverable(o)
             \/ StartRun(o) \/ BeginDelivery(o) \/ HandOver(o) \/ RunOutOfStock(o)
             \/ ExhaustSuppliers(o) \/ CloseJob(o) \/ \E g \in Generations : DropRun(o, g)
      PROVE  Kept
  BY <1>5 DEF CreateOrder, AdminRedeliver, RequeueStuck, RetryRecoverable, Redeliver, StartRun,
              BeginDelivery, HandOver, RunOutOfStock, ExhaustSuppliers, CloseJob, DropRun
<1>6. CASE UNCHANGED vars
  BY <1>6 DEF vars
<1>. QED BY <1>2, <1>3, <1>4, <1>5, <1>6 DEF Next, Sweeper, Fulfilment

\* The book is append-only: whatever a later redelivery of the event says, and whatever
\* the status and the generation become, a posting stays in it as it was written.
THEOREM PostingsStay == Spec => [][Books \subseteq Books']_vars
<1>1. ASSUME MoneyBooked, [Next]_vars PROVE Books \subseteq Books'
  <2>1. /\ captured \subseteq captured' /\ recognised \subseteq recognised'
        /\ \A e \in captured : evBody'[e] = evBody[e]
    BY <1>1, StepKeepsPostings
  <2>2. \A e \in captured : CaptureOf(e)' = CaptureOf(e)
    BY <2>1 DEF CaptureOf
  <2>3. \A o, g : RecognitionOf(o, g)' = RecognitionOf(o, g)
    BY DEF RecognitionOf
  <2>. HIDE DEF MoneyBooked
  <2>. QED BY <2>1, <2>2, <2>3 DEF Books
<1>. QED BY <1>1, InitBooks, StepBooks, PTL DEF Spec
=============================================================================
