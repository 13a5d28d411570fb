------------------------------ MODULE OrphanSweep ------------------------------
(***************************************************************************)
(* Payment events that come before their order: the webhook that stores     *)
(* them, the order that is created at last, and passes 6a and 6b of the      *)
(* sweeper, which replay or give up what was stored, a batch in one          *)
(* transaction.                                                             *)
(*                                                                         *)
(* The passes of a cycle come one after the other, and an exception in one  *)
(* ends the cycle; passes 1 to 5 are left out.  The flag `running` keeps an  *)
(* interval from overlapping itself, but other processes have intervals of   *)
(* their own and POST /admin/sweeper/run calls runOnce without looking at    *)
(* it, so several cycles may be under way.                                  *)
(*                                                                         *)
(* Isolation is READ COMMITTED.  An action is one statement, or several that *)
(* cannot wait in between; a row that is locked makes others wait, or is     *)
(* skipped where the statement says SKIP LOCKED.  What the verdict on an     *)
(* event is, is the subject of StoreOrders: here it is 'judged'.            *)
(***************************************************************************)
EXTENDS Integers, FiniteSets

CONSTANTS
  Order,          \* orders.ext_id
  Event,          \* payment events, numbered in the order of received_at
  About,          \* the order an event names
  Sweeper,        \* who runs cycles
  Nobody,         \* who holds a row that is free
  Interval,       \* those of them that are intervals; the others are admin requests
  BatchSize,      \* sweeper.batchSize
  RetryAttempts,  \* db.txRetryAttempts
  MaxFaults       \* model bound: transactions that fail for no reason of this model

ASSUME OrphanAssumption ==
  /\ Event \subseteq Nat \ {0} /\ IsFiniteSet(Event)
  /\ About \in [Event -> Order]
  /\ Interval \subseteq Sweeper
  /\ Nobody \notin Sweeper \cup Event /\ Sweeper \cap Event = {}
  /\ BatchSize \in Nat \ {0}
  /\ RetryAttempts \in Nat
  /\ MaxFaults \in Nat

VARIABLES
  known,      \* the orders that exist
  state,      \* payment_events.state, committed
  verdicts,   \* history: how often an event was judged or given up
  orderLock,  \* who holds the order's row
  eventLock,  \* who holds the event's row
  webhook,    \* per event: where POST /webhooks/payment stands
  cycle,      \* per sweeper: where its cycle stands
  faults      \* failed transactions so far

rows == <<known, state, verdicts>>
locks == <<orderLock, eventLock>>
vars == <<rows, locks, webhook, cycle, faults>>

-----------------------------------------------------------------------------
Free(row) == row = Nobody

EventState == {"none", "orphan", "judged", "abandoned"}
WebhookPlace == {"idle", "locked", "orphaned"}
CyclePlace == {"idle", "replay", "abandon", "abandoning"}

\* What a cycle knows: the events its batch holds and those it has not come to;
\* due (history) is what pass 6a took up.
Cycle == [pc : CyclePlace, batch : SUBSET Event, todo : SUBSET Event, due : SUBSET Event,
          tries : 0 .. RetryAttempts]
NoCycle == [pc |-> "idle", batch |-> {}, todo |-> {}, due |-> {}, tries |-> 0]

TypeOK ==
  /\ known \subseteq Order
  /\ state \in [Event -> EventState]
  /\ verdicts \in [Event -> Nat]
  /\ orderLock \in [Order -> Sweeper \cup Event \cup {Nobody}]
  /\ eventLock \in [Event -> Sweeper \cup {Nobody}]
  /\ webhook \in [Event -> WebhookPlace]
  /\ cycle \in [Sweeper -> Cycle]
  /\ faults \in 0 .. MaxFaults

Init ==
  /\ known = {}
  /\ state = [e \in Event |-> "none"]
  /\ verdicts = [e \in Event |-> 0]
  /\ orderLock = [o \in Order |-> Nobody]
  /\ eventLock = [e \in Event |-> Nobody]
  /\ webhook = [e \in Event |-> "idle"]
  /\ cycle = [s \in Sweeper |-> NoCycle]
  /\ faults = 0

Received(e) == webhook[e] # "idle" \/ state[e] # "none"

\* The order whose row a batch needs next, unless it has all it needs.
Wanted(s) == {About[e] : e \in {f \in cycle[s].todo : \A g \in cycle[s].todo : f <= g}}
Waiters(o) == {s \in Sweeper : o \in Wanted(s) /\ orderLock[o] # s}

\* The rows of t are released when its transaction ends.  Those who wait for a row
\* form a queue, so it goes to one of them and not to who comes next.
LetGo(t) ==
  /\ \E heir \in [Order -> Sweeper] :
       /\ \A o \in Order : Waiters(o) # {} => heir[o] \in Waiters(o)
       /\ orderLock' = [o \in Order |-> IF orderLock[o] # t THEN orderLock[o]
                                        ELSE IF Waiters(o) = {} THEN Nobody ELSE heir[o]]
  /\ eventLock' = [e \in Event |-> IF eventLock[e] = t THEN Nobody ELSE eventLock[e]]

\* Commit: the rows of a set of events get a state.
Settle(t, es, verdict) ==
  /\ state' = [e \in Event |-> IF e \in es THEN verdict ELSE state[e]]
  /\ verdicts' = [e \in Event |-> IF e \in es /\ verdict # "orphan" THEN verdicts[e] + 1 ELSE verdicts[e]]
  /\ LetGo(t)
  /\ UNCHANGED known

-----------------------------------------------------------------------------
(* Orders and webhooks.                                                    *)

\* POST /orders: one insert, which looks at no event.
CreateOrder(o) ==
  /\ o \notin known
  /\ known' = known \cup {o}
  /\ UNCHANGED <<state, verdicts, locks, webhook, cycle, faults>>

\* PAYMENT_EVENT_INSERT_SQL writes a row that nobody sees yet, and
\* ORDER_LOCK_BY_EXT_ID_SQL finds the order and waits for it, or finds none.  A
\* redelivery waits for this transaction, and goes on only where it fails.
Receive(e) ==
  /\ webhook[e] = "idle"
  /\ state[e] = "none"
  /\ \A f \in Event : f < e => Received(f)
  /\ \/ /\ About[e] \in known
        /\ Free(orderLock[About[e]])
        /\ orderLock' = [orderLock EXCEPT ![About[e]] = e]
        /\ webhook' = [webhook EXCEPT ![e] = "locked"]
     \/ /\ About[e] \notin known
        /\ webhook' = [webhook EXCEPT ![e] = "orphaned"]
        /\ UNCHANGED orderLock
  /\ UNCHANGED <<rows, eventLock, cycle, faults>>

\* By the time the orphan is committed its order may be there.
CommitWebhook(e) ==
  /\ webhook[e] \in {"locked", "orphaned"}
  /\ Settle(e, {e}, IF webhook[e] = "locked" THEN "judged" ELSE "orphan")
  /\ webhook' = [webhook EXCEPT ![e] = "idle"]
  /\ UNCHANGED <<cycle, faults>>

-----------------------------------------------------------------------------
(* A cycle.                                                                *)

Orphans == {e \in Event : state[e] = "orphan"}
Replayable == {e \in Orphans : About[e] \in known}
Abandonable(age) == {e \in Orphans : e <= age}   \* those received up to age have passed orphanTtlSeconds
Unlocked(es) == {e \in es : Free(eventLock[e])}

\* ORDER BY received_at FOR UPDATE SKIP LOCKED LIMIT: the first rows nobody holds.
Oldest(es) == {e \in es : Cardinality({f \in es : f < e}) < BatchSize}

Begin6a(s, batch) ==
  cycle' = [cycle EXCEPT ![s] = [@ EXCEPT !.pc = "replay", !.batch = batch, !.todo = batch, !.due = batch]]

\* Faulty variant: a plain SELECT.
SelectReplayableUnlocked(s) ==
  /\ cycle[s].pc = "idle"
  /\ Begin6a(s, Oldest(Replayable))
  /\ UNCHANGED <<rows, locks, webhook, faults>>

\* Pass 6a begins (again, after a deadlock): PAYMENT_FIND_REPLAYABLE_ORPHANS_SQL.
SelectReplayable(s) ==
  /\ cycle[s].pc = "idle"
  /\ LET batch == Oldest(Unlocked(Replayable)) IN
       /\ Begin6a(s, batch)
       /\ eventLock' = [e \in Event |-> IF e \in batch THEN s ELSE eventLock[e]]
  /\ UNCHANGED <<rows, orderLock, webhook, faults>>

\* applyPersistedEvent, one event after the other: each takes its order's row,
\* and the batch keeps them all.
Replay(s, e) ==
  /\ cycle[s].pc = "replay"
  /\ e \in cycle[s].todo /\ \A f \in cycle[s].todo : e <= f
  /\ orderLock[About[e]] \in {Nobody, s}
  /\ orderLock' = [orderLock EXCEPT ![About[e]] = s]
  /\ cycle' = [cycle EXCEPT ![s].todo = @ \ {e}]
  /\ UNCHANGED <<rows, eventLock, webhook, faults>>

CommitReplay(s) ==
  /\ cycle[s].pc = "replay"
  /\ cycle[s].todo = {}
  /\ Settle(s, cycle[s].batch, "judged")
  /\ cycle' = [cycle EXCEPT ![s].pc = "abandon", ![s].batch = {}, ![s].tries = 0]
  /\ UNCHANGED <<webhook, faults>>

\* Pass 6b: PAYMENT_FIND_ABANDONABLE_ORPHANS_SQL asks for the age and not for the
\* order.  How far the TTL has come is left open.
SelectAbandonable(s) ==
  /\ cycle[s].pc = "abandon"
  /\ \E age \in {0} \cup Event : LET batch == Oldest(Unlocked(Abandonable(age))) IN
       /\ eventLock' = [e \in Event |-> IF e \in batch THEN s ELSE eventLock[e]]
       /\ cycle' = [cycle EXCEPT ![s].pc = "abandoning", ![s].batch = batch]
  /\ UNCHANGED <<rows, orderLock, webhook, faults>>

CommitAbandon(s) ==
  /\ cycle[s].pc = "abandoning"
  /\ Settle(s, cycle[s].batch, "abandoned")
  /\ cycle' = [cycle EXCEPT ![s] = NoCycle]
  /\ UNCHANGED <<webhook, faults>>

-----------------------------------------------------------------------------
(* Failure.                                                                *)

\* Faulty variant: the exception of a pass is caught and the next one runs.
FailCycleGoesOn(s) ==
  /\ cycle[s].pc # "idle"
  /\ faults < MaxFaults
  /\ faults' = faults + 1
  /\ cycle' = [cycle EXCEPT ![s] = IF @.pc = "replay" THEN [@ EXCEPT !.pc = "abandon", !.todo = {}]
                                                      ELSE NoCycle]
  /\ LetGo(s)
  /\ UNCHANGED <<rows, webhook>>

\* Faulty variant: the connection goes back to the pool with its transaction open.
FailCycleWithoutRollback(s) ==
  /\ cycle[s].pc # "idle"
  /\ faults < MaxFaults
  /\ faults' = faults + 1
  /\ cycle' = [cycle EXCEPT ![s] = NoCycle]
  /\ UNCHANGED <<rows, locks, webhook>>

\* A transaction fails, or its process dies: the cycle ends, and the passes after
\* the one that failed are not run.  (A webhook that fails leaves nothing; as the
\* provider sends the event again, it is as if it had not begun.)
FailCycle(s) ==
  /\ cycle[s].pc # "idle"
  /\ faults < MaxFaults
  /\ faults' = faults + 1
  /\ cycle' = [cycle EXCEPT ![s] = NoCycle]
  /\ LetGo(s)
  /\ UNCHANGED <<rows, webhook>>

\* Whom a batch waits for.  A webhook that waits holds no order, so it is in no
\* cycle of waits, nor are the deliveries, which lock one order and that first.
WaitsFor(s) == {orderLock[o] : o \in {p \in Wanted(s) : s \in Waiters(p)}} \ {Nobody}

InDeadlock(s) ==
  \E ring \in SUBSET Sweeper :
    /\ s \in ring
    /\ \A t \in ring : WaitsFor(t) \cap ring # {} /\ \E u \in ring : t \in WaitsFor(u)

\* Faulty variant: the retries are not counted.
BreakDeadlockUncapped(s) ==
  /\ InDeadlock(s)
  /\ cycle' = [cycle EXCEPT ![s] = [NoCycle EXCEPT !.tries = cycle[s].tries + 1]]
  /\ LetGo(s)
  /\ UNCHANGED <<rows, webhook, faults>>

\* 40P01: withTransaction runs pass 6a again, up to RetryAttempts times, and then
\* throws, which ends the cycle.
BreakDeadlock(s) ==
  /\ InDeadlock(s)
  /\ cycle' = [cycle EXCEPT ![s] = IF @.tries < RetryAttempts THEN [NoCycle EXCEPT !.tries = cycle[s].tries + 1]
                                                              ELSE NoCycle]
  /\ LetGo(s)
  /\ UNCHANGED <<rows, webhook, faults>>

-----------------------------------------------------------------------------
ContinueCycle(s) ==
  \/ \E e \in Event : Replay(s, e)
  \/ CommitReplay(s)
  \/ SelectAbandonable(s)
  \/ CommitAbandon(s)

Next ==
  \/ \E o \in Order : CreateOrder(o)
  \/ \E e \in Event : Receive(e) \/ CommitWebhook(e)
  \/ \E s \in Sweeper : SelectReplayable(s) \/ ContinueCycle(s) \/ FailCycle(s) \/ BreakDeadlock(s)

Spec == Init /\ [][Next]_vars

\* Intervals come round, and a transaction that has begun goes on.  Nobody has to
\* ask for a cycle.
Fairness ==
  /\ \A s \in Interval : WF_vars(SelectReplayable(s))
  /\ \A s \in Sweeper : WF_vars(ContinueCycle(s)) /\ WF_vars(BreakDeadlock(s))
  /\ \A e \in Event : WF_vars(CommitWebhook(e))

FairSpec == Spec /\ Fairness

-----------------------------------------------------------------------------
(* Properties.                                                             *)

\* However cycles overlap, fail and are run again, an event is judged once or
\* given up once, and not both.
OneVerdict ==
  \A e \in Event : verdicts[e] = IF state[e] \in {"judged", "abandoned"} THEN 1 ELSE 0

\* Pass 6b asks for no order.  What keeps it from giving up the events of orders
\* that are there is that it comes after pass 6a, and not after one that
\* failed: what a cycle gives up, its pass 6a could not have, because the order
\* or the event came later, another cycle held it, or the batch was full.
GivenUpOnlyUnseen ==
  [][\A s \in Sweeper, e \in Event :
       cycle[s].pc = "abandoning" /\ e \in cycle[s].batch /\ state'[e] # state[e] => e \notin cycle[s].due]_vars

\* An orphan whose order is there comes to its end, though batches wait for each
\* other's orders and are run again.
OrphansEnd == (Replayable # {}) ~> (Replayable = {})
=============================================================================
