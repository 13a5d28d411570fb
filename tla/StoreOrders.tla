------------------------------ MODULE StoreOrders ------------------------------
(***************************************************************************)
(* The transactional core of the store: what POST /orders, the payment     *)
(* webhook, the sweeper (passes 2, 3, 4, 6a and 6b), the admin redelivery  *)
(* and the fulfilment of a deliver_order job do to the tables orders,      *)
(* payment_events, jobs, issued_deliveries and ledger_txns.                *)
(*                                                                         *)
(* Every handler of the service is one database transaction that begins by *)
(* taking the order's row FOR UPDATE (UnitOfWorkService.withTransaction),  *)
(* so every action here is one committed transaction on one order.  A      *)
(* sweeper pass locks a batch with SKIP LOCKED and treats its rows one by  *)
(* one; the model commits each row by itself, which allows every           *)
(* interleaving a batch allows.  Ages and TTLs ("older than N seconds")    *)
(* are not modelled: a pass may find a row old enough at any time.         *)
(*                                                                         *)
(* Fulfilment is seen here only through its commits: TX-S1's               *)
(* paid -> delivering, and the three outcomes.  How a supplier run arrives *)
(* at an outcome is the subject of other modules; what matters here is     *)
(* that a run works for the generation in its job's payload and re-checks  *)
(* it under the order's lock.                                              *)
(***************************************************************************)
EXTENDS Integers, OrderStateMachine

CONSTANTS
  OrderId,          \* orders.ext_id: the ids clients and the provider use
  EventId,          \* payment_events.event_id
  PoolOrders,       \* the orders whose product is in fulfillment_mode 'pool'
  MaxTime,          \* occurred_at stamps are 1 .. MaxTime
  MaxGenerations,   \* maxDeliveryGenerations: the sweeper's cap
  GenerationBound   \* model bound on admin redeliveries, which the code does not cap

ASSUME StoreAssumption ==
  /\ OrderId # {}
  /\ PoolOrders \subseteq OrderId
  /\ MaxTime \in Nat \ {0}
  /\ MaxGenerations \in Nat
  /\ GenerationBound \in Nat
  /\ MaxGenerations <= GenerationBound

VARIABLES
  status,       \* orders.status, or "absent" while there is no row
  paidAt,       \* orders.paid_at IS NOT NULL
  generation,   \* orders.delivery_generation
  lastEventAt,  \* orders.last_payment_event_at (Never when NULL)
  evState,      \* payment_events.state, or "none" while there is no row
  evBody,       \* what the first delivery of the event said
  captured,     \* ledger keys payment_captured:<event_id>
  issued,       \* issued_deliveries.order_id
  recognised,   \* ledger keys delivery_recognized:<ext_id>:<generation>
  job,          \* generation in the live deliver_order job's payload, or NoJob
  runs          \* <<order, generation>> of the handler runs in progress

orderVars   == <<status, paidAt, generation, lastEventAt>>
eventVars   == <<evState, evBody>>
ledgerVars  == <<captured, recognised>>
vars == <<orderVars, eventVars, ledgerVars, issued, job, runs>>

-----------------------------------------------------------------------------
(* Rows and their columns.                                                 *)

Never == 0
Times == 1 .. MaxTime
Generations == 0 .. GenerationBound
NoJob == -1

\* amountOk: amount and currency equal the order's.
Body == [order : OrderId, paid : BOOLEAN, amountOk : BOOLEAN, at : Times]
AnyBody == CHOOSE b \in Body : TRUE   \* fills the column while there is no row

\* The states a committed payment_events row can have ('pending' never
\* outlives its transaction).
FinalState == { "applied", "abandoned", "ignored_stale", "ignored_already_paid",
                "ignored_terminal", "conflict", "rejected_amount" }
EventState == FinalState \cup { "orphan" }

\* Statuses of an order whose payment was captured: PAYMENT_PAID is a noop in them.
PaidStatus == OrderStatus \ { "created", "payment_failed" }

TypeOK ==
  /\ status \in [OrderId -> OrderStatus \cup {"absent"}]
  /\ paidAt \in [OrderId -> BOOLEAN]
  /\ generation \in [OrderId -> Generations]
  /\ lastEventAt \in [OrderId -> Times \cup {Never}]
  /\ evState \in [EventId -> EventState \cup {"none"}]
  /\ evBody \in [EventId -> Body]
  /\ captured \subseteq EventId
  /\ issued \subseteq OrderId
  /\ recognised \subseteq OrderId \X Generations
  /\ job \in [OrderId -> Generations \cup {NoJob}]
  /\ runs \subseteq OrderId \X Generations

Init ==
  /\ status = [o \in OrderId |-> "absent"]
  /\ paidAt = [o \in OrderId |-> FALSE]
  /\ generation = [o \in OrderId |-> 0]
  /\ lastEventAt = [o \in OrderId |-> Never]
  /\ evState = [e \in EventId |-> "none"]
  /\ evBody = [e \in EventId |-> AnyBody]
  /\ captured = {}
  /\ issued = {}
  /\ recognised = {}
  /\ job = [o \in OrderId |-> NoJob]
  /\ runs = {}

-----------------------------------------------------------------------------
(* Orders and jobs.                                                        *)

\* ORDER_TRANSITION_SQL: a compare-and-set whose callers hold the order's row, so
\* that it finds the status they read.
Transition(o, to) == status' = [status EXCEPT ![o] = to]

\* POST /orders with a new id.  A repeated client_order_id answers with the
\* stored row and changes nothing.  Orphan events are not looked at.
CreateOrder(o) ==
  /\ status[o] = "absent"
  /\ status' = [status EXCEPT ![o] = "created"]
  /\ UNCHANGED <<paidAt, generation, lastEventAt, eventVars, ledgerVars, issued, job, runs>>

\* JobQueueService.enqueue: ON CONFLICT (kind, dedupe_key) over the live jobs
\* drops the insert, and the older live job keeps its own generation.
Enqueue(o, g) == job' = [job EXCEPT ![o] = IF job[o] = NoJob THEN g ELSE job[o]]

-----------------------------------------------------------------------------
(* Payment events.                                                         *)

EventOf(b) == IF b.paid THEN "PAYMENT_PAID" ELSE "PAYMENT_FAILED"

Finalise(e, s) == evState' = [evState EXCEPT ![e] = s]

OrderKnown(b)  == status[b.order] # "absent"
AmountOk(b)    == b.paid => b.amountOk
\* Faulty variant: a tie with the last applied event counts as stale.
NotStaleStrict(b) == lastEventAt[b.order] = Never \/ b.at > lastEventAt[b.order]

NotStale(b)    == lastEventAt[b.order] = Never \/ b.at >= lastEventAt[b.order]
Admissible(b)  == OrderKnown(b) /\ AmountOk(b) /\ NotStale(b)

\* The paths of applyPersistedEvent that only finalise the event row, in the
\* order of its guards.
StoreOrphan(e, b) ==
  /\ ~OrderKnown(b)
  /\ Finalise(e, "orphan")

RejectAmount(e, b) ==
  /\ OrderKnown(b)
  /\ ~AmountOk(b)
  /\ Finalise(e, "rejected_amount")

\* Faulty variant: the stale event's row is left as the insert wrote it.
IgnoreStaleUnfinalised(e, b) ==
  /\ OrderKnown(b)
  /\ AmountOk(b)
  /\ ~NotStale(b)
  /\ Finalise(e, "pending")

IgnoreStale(e, b) ==
  /\ OrderKnown(b)
  /\ AmountOk(b)
  /\ ~NotStale(b)
  /\ Finalise(e, "ignored_stale")

IgnoreNoop(e, b) ==
  /\ Admissible(b)
  /\ ResolvesTo(status[b.order], EventOf(b), "noop")
  /\ Finalise(e, IF b.paid THEN "ignored_already_paid" ELSE "ignored_terminal")

StoreConflict(e, b) ==
  /\ Admissible(b)
  /\ ResolvesTo(status[b.order], EventOf(b), "conflict")
  /\ Finalise(e, "conflict")

FinaliseOnly(e, b) ==
  /\ \/ StoreOrphan(e, b)
     \/ RejectAmount(e, b)
     \/ IgnoreStale(e, b)
     \/ IgnoreNoop(e, b)
     \/ StoreConflict(e, b)
  /\ UNCHANGED <<orderVars, ledgerVars, job>>

\* Faulty variant: every applied event posts payment_captured.
ApplyTransitionCapturesAll(e, b) ==
  LET o == b.order IN
  /\ Admissible(b)
  /\ ResolvesTo(status[o], EventOf(b), "apply")
  /\ Finalise(e, "applied")
  /\ Transition(o, Resolve(status[o], EventOf(b)).to)
  /\ lastEventAt' = [lastEventAt EXCEPT ![o] = b.at]
  /\ captured' = captured \cup {e}
  /\ IF b.paid
       THEN paidAt' = [paidAt EXCEPT ![o] = TRUE] /\ Enqueue(o, generation[o])
       ELSE UNCHANGED <<paidAt, job>>
  /\ UNCHANGED <<generation, recognised>>

\* Faulty variant: paid_at is not stamped.
ApplyTransitionNoPaidAt(e, b) ==
  LET o == b.order IN
  /\ Admissible(b)
  /\ ResolvesTo(status[o], EventOf(b), "apply")
  /\ Finalise(e, "applied")
  /\ Transition(o, Resolve(status[o], EventOf(b)).to)
  /\ lastEventAt' = [lastEventAt EXCEPT ![o] = b.at]
  /\ IF b.paid
       THEN captured' = captured \cup {e} /\ Enqueue(o, generation[o])
       ELSE UNCHANGED <<captured, job>>
  /\ UNCHANGED <<paidAt, generation, recognised>>

\* applyTransition.  Only an applied event moves last_payment_event_at; only a
\* paid one stamps paid_at, posts payment_captured and enqueues the delivery.
ApplyTransition(e, b) ==
  LET o == b.order IN
  /\ Admissible(b)
  /\ ResolvesTo(status[o], EventOf(b), "apply")
  /\ Finalise(e, "applied")
  /\ Transition(o, Resolve(status[o], EventOf(b)).to)
  /\ lastEventAt' = [lastEventAt EXCEPT ![o] = b.at]
  /\ IF b.paid
       THEN /\ paidAt' = [paidAt EXCEPT ![o] = TRUE]
            /\ captured' = captured \cup {e}
            /\ Enqueue(o, generation[o])
       ELSE UNCHANGED <<paidAt, captured, job>>
  /\ UNCHANGED <<generation, recognised>>

ApplyPersistedEvent(e, b) == FinaliseOnly(e, b) \/ ApplyTransition(e, b)

\* PAYMENT_EVENT_INSERT_SQL: a redelivered event_id, whatever its body, hits
\* ON CONFLICT (event_id) and changes nothing.
InsertPending(e, b) ==
  /\ evState[e] = "none"
  /\ evBody' = [evBody EXCEPT ![e] = b]

\* POST /webhooks/payment.
Webhook(e, b) ==
  /\ InsertPending(e, b)
  /\ ApplyPersistedEvent(e, b)
  /\ UNCHANGED <<issued, runs>>

\* PAYMENT_FIND_REPLAYABLE_ORPHANS_SQL, which joins the order, and
\* PAYMENT_FIND_ABANDONABLE_ORPHANS_SQL, which asks for the age of the orphan and
\* nothing else.
Replayable(e) == evState[e] = "orphan" /\ OrderKnown(evBody[e])
Abandonable(e) == evState[e] = "orphan"

\* Sweeper pass 6a.  The pass takes the oldest orphans it can lock: with
\* another sweeper (or POST /admin/sweeper/run) holding the older ones any
\* orphan may come first, so no order is assumed.
ReplayOrphan(e) ==
  /\ Replayable(e)
  /\ ApplyPersistedEvent(e, evBody[e])
  /\ UNCHANGED <<evBody, issued, runs>>

\* Sweeper pass 6b.
AbandonOrphan(e) ==
  /\ Abandonable(e)
  /\ Finalise(e, "abandoned")
  /\ UNCHANGED <<orderVars, evBody, ledgerVars, issued, job, runs>>

-----------------------------------------------------------------------------
(* Sweeper and admin recovery of deliveries.                               *)

\* Faulty variant: a delivery that stopped half-way is not stuck.
StuckPaidOnly(o) ==
  /\ paidAt[o]
  /\ status[o] = "paid"
  /\ o \notin issued
  /\ job[o] = NoJob

\* Sweeper pass 2.
Stuck(o) ==
  /\ paidAt[o]
  /\ status[o] \in {"paid", "delivering"}
  /\ o \notin issued
  /\ job[o] = NoJob

RequeueStuck(o) ==
  /\ Stuck(o)
  /\ Enqueue(o, generation[o])
  /\ UNCHANGED <<orderVars, eventVars, ledgerVars, issued, runs>>

\* What passes 3 and 4 and the admin redelivery share: leave the recoverable
\* status, bump the generation, enqueue a job of the new generation.
Redeliver(o, event) ==
  /\ ResolvesTo(status[o], event, "apply")
  /\ Transition(o, Resolve(status[o], event).to)
  /\ generation' = [generation EXCEPT ![o] = @ + 1]
  /\ Enqueue(o, generation[o] + 1)
  /\ UNCHANGED <<paidAt, lastEventAt, eventVars, ledgerVars, issued, runs>>

\* The two ORDER_FIND_RETRYABLE_*_SQL, for passes 3 (stock permitting) and 4.
Retryable(o) == IsRecoverable(status[o]) /\ generation[o] < MaxGenerations

RetryRecoverable(o) ==
  /\ Retryable(o)
  /\ Redeliver(o, "RETRY_DELIVERY")

\* POST /admin/orders/:id/redeliver.
AdminRedeliver(o) ==
  /\ o \notin issued
  /\ IsRecoverable(status[o])
  /\ generation[o] < GenerationBound   \* model bound only
  /\ Redeliver(o, "ADMIN_REDELIVER")

-----------------------------------------------------------------------------
(* Fulfilment, seen through its commits.                                   *)

\* A worker claims the live job and calls the handler.
StartRun(o) ==
  /\ job[o] # NoJob
  /\ runs' = runs \cup {<<o, job[o]>>}
  /\ UNCHANGED <<orderVars, eventVars, ledgerVars, issued, job>>

\* The guard of TX-P, TX-S1, TX-S2 and the forced outcome: the run's
\* generation is the order's.
CurrentRun(o) == <<o, generation[o]>> \in runs

\* A pool order goes from paid to its outcome inside one transaction, a
\* supplier order commits paid -> delivering first.
Deliverable(o) == status[o] = "delivering" \/ (o \in PoolOrders /\ status[o] = "paid")

\* Faulty variant: the status is not looked at again under the lock.
BeginDeliveryUnchecked(o) ==
  /\ CurrentRun(o)
  /\ o \notin PoolOrders
  /\ Transition(o, "delivering")
  /\ UNCHANGED <<paidAt, generation, lastEventAt, eventVars, ledgerVars, issued, job, runs>>

BeginDelivery(o) ==
  /\ CurrentRun(o)
  /\ o \notin PoolOrders
  /\ status[o] = "paid"
  /\ Transition(o, "delivering")
  /\ UNCHANGED <<paidAt, generation, lastEventAt, eventVars, ledgerVars, issued, job, runs>>

\* Faulty variant: the revenue is left for somebody else to post.
HandOverUnrecognised(o) ==
  /\ CurrentRun(o)
  /\ Deliverable(o)
  /\ issued' = issued \cup {o}
  /\ Transition(o, "delivered")
  /\ UNCHANGED <<paidAt, generation, lastEventAt, eventVars, ledgerVars, job, runs>>

HandOver(o) ==
  /\ CurrentRun(o)
  /\ Deliverable(o)
  /\ issued' = issued \cup {o}
  /\ Transition(o, "delivered")
  /\ recognised' = recognised \cup {<<o, generation[o]>>}
  /\ UNCHANGED <<paidAt, generation, lastEventAt, eventVars, captured, job, runs>>

\* Faulty variant: a late run overwrites whatever status it finds.
RunOutOfStockUnchecked(o) ==
  /\ CurrentRun(o)
  /\ Transition(o, "out_of_stock")
  /\ UNCHANGED <<paidAt, generation, lastEventAt, eventVars, ledgerVars, issued, job, runs>>

RunOutOfStock(o) ==
  /\ CurrentRun(o)
  /\ Deliverable(o)
  /\ Transition(o, "out_of_stock")
  /\ UNCHANGED <<paidAt, generation, lastEventAt, eventVars, ledgerVars, issued, job, runs>>

\* Only the supplier chain ends in delivery_failed.
ExhaustSuppliers(o) ==
  /\ CurrentRun(o)
  /\ o \notin PoolOrders
  /\ status[o] = "delivering"
  /\ Transition(o, "delivery_failed")
  /\ UNCHANGED <<paidAt, generation, lastEventAt, eventVars, ledgerVars, issued, job, runs>>

\* The run ends and its job leaves the live set: done, or dead after
\* max_attempts.  A job goes dead whatever the order's status is.  A worker the
\* job was reclaimed from may still be in a run of the same generation.
CloseJob(o) ==
  /\ job[o] # NoJob
  /\ <<o, job[o]>> \in runs
  /\ job' = [job EXCEPT ![o] = NoJob]
  /\ runs' \in {runs, runs \ {<<o, job[o]>>}}
  /\ UNCHANGED <<orderVars, eventVars, ledgerVars, issued>>

\* The run ends and leaves its job as it is: it failed and is retried, it lost
\* the job to another worker, or its process died.
DropRun(o, g) ==
  /\ <<o, g>> \in runs
  /\ runs' = runs \ {<<o, g>>}
  /\ UNCHANGED <<orderVars, eventVars, ledgerVars, issued, job>>

-----------------------------------------------------------------------------
Sweeper ==
  \/ \E e \in EventId : ReplayOrphan(e) \/ AbandonOrphan(e)
  \/ \E o \in OrderId : RequeueStuck(o) \/ RetryRecoverable(o)

Fulfilment ==
  \E o \in OrderId :
    \/ StartRun(o)
    \/ BeginDelivery(o)
    \/ HandOver(o)
    \/ RunOutOfStock(o)
    \/ ExhaustSuppliers(o)
    \/ CloseJob(o)
    \/ \E g \in Generations : DropRun(o, g)

Next ==
  \/ \E o \in OrderId : CreateOrder(o) \/ AdminRedeliver(o)
  \/ \E e \in EventId, b \in Body : Webhook(e, b)
  \/ Sweeper
  \/ Fulfilment

Spec == Init /\ [][Next]_vars

\* The sweeper and the workers run on an interval for as long as the service
\* does; a job is closed after at most max_attempts runs.
Fairness ==
  \A o \in OrderId :
    /\ WF_vars(RequeueStuck(o))
    /\ WF_vars(StartRun(o))
    /\ SF_vars(CloseJob(o))

FairSpec == Spec /\ Fairness

-----------------------------------------------------------------------------
(* Invariants.                                                             *)

CapturesOf(o) == {e \in captured : evBody[e].order = o}
RecognisedFor(o) == {g \in Generations : <<o, g>> \in recognised}
IsSingleton(S) == \E x \in S : S = {x}

\* Money is booked exactly once: an order has a payment_captured posting, and
\* only one, exactly when it is in a paid status, and that posting belongs to
\* an applied 'paid' event.  Violated by two applied 'paid' events, by a paid
\* status reached without a posting, or by a paid order reverted.
CapturedExactlyWhenPaid ==
  /\ \A o \in OrderId :
       IF status[o] \in PaidStatus THEN IsSingleton(CapturesOf(o)) ELSE CapturesOf(o) = {}
  /\ captured = {e \in EventId : evState[e] = "applied" /\ evBody[e].paid}

\* Goods and revenue go together: an order has an issued delivery, and exactly
\* one delivery_recognized posting over all its generations, exactly when it is
\* delivered.
RecognisedExactlyWhenDelivered ==
  \A o \in OrderId :
    /\ (status[o] = "delivered") <=> (o \in issued)
    /\ IF o \in issued THEN IsSingleton(RecognisedFor(o)) ELSE RecognisedFor(o) = {}

\* The provider's clock decides: if the newest payment event the service has
\* judged for an order (amounts right, ties included) says 'paid', the order is
\* paid for, in whatever order the webhooks arrived, were orphaned or replayed.
Judged(e) == evState[e] \in FinalState \ {"abandoned", "rejected_amount"}

NewestPaidWins ==
  \A e \in EventId :
    /\ Judged(e)
    /\ evBody[e].paid
    /\ \A f \in EventId : (Judged(f) /\ evBody[f].order = evBody[e].order)
                             => evBody[f].at <= evBody[e].at
    => status[evBody[e].order] \in PaidStatus

\* No paid order falls between the passes: one that waits for goods has a live
\* job, or satisfies the predicate of pass 2, or is in a status that passes 3, 4
\* and the admin redelivery accept.  And a live job or a run never carries a
\* generation the order has not reached.
NoPaidOrderForgotten ==
  \A o \in OrderId :
    /\ status[o] \in PaidStatus \ {"delivered"} =>
         job[o] # NoJob \/ Stuck(o) \/ IsRecoverable(status[o])
    /\ job[o] <= generation[o]
    /\ \A g \in Generations : <<o, g>> \in runs => g <= generation[o]

-----------------------------------------------------------------------------
(* Action properties.                                                      *)

\* The fulfilment services write statuses without asking the table.  Every
\* change they, the webhook, the sweeper or the admin commit is nevertheless a
\* path of apply cells: one cell, or for a pool order two inside one transaction.
TableStep(s, t) == \E ev \in OrderEvent : ResolvesTo(s, ev, "apply") /\ Resolve(s, ev).to = t

StatusFollowsTable ==
  [][\A o \in OrderId :
       status'[o] # status[o] /\ status[o] # "absent" =>
         \/ TableStep(status[o], status'[o])
         \/ /\ o \in PoolOrders
            /\ \E s \in OrderStatus : TableStep(status[o], s) /\ TableStep(s, status'[o])]_vars

-----------------------------------------------------------------------------
(* Liveness.                                                               *)

\* A generation bump whose enqueue was dropped by an older live job is not
\* lost: the order gets a job of its own generation, or has moved on.
DroppedEnqueueRecovered ==
  \A o \in OrderId :
    (status[o] = "delivering" /\ job[o] # generation[o])
      ~> (status[o] # "delivering" \/ job[o] = generation[o])

-----------------------------------------------------------------------------
(* Refinement.                                                             *)

StageOf(s) == IF s = "absent" THEN "none"
              ELSE IF s \in {"created", "payment_failed"} THEN "open"
              ELSE IF s = "delivered" THEN "done" ELSE "owed"

Lifecycle == INSTANCE OrderLifecycle WITH
  Tag      <- Generations,
  stage    <- [o \in OrderId |-> StageOf(status[o])],
  payments <- [o \in OrderId |-> CapturesOf(o)],
  handed   <- issued,
  revenue  <- [o \in OrderId |-> RecognisedFor(o)]

\* The transactions of the service implement the life of an order: one capture,
\* one hand-over after it, nothing undone, whatever events are duplicated,
\* reordered, orphaned and replayed and however often delivery is retried.
ImplementsLifecycle == Lifecycle!Spec
=============================================================================
