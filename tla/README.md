# Verification of the digital-goods store

TLA+ models of the store in `src/`: a NestJS API over PostgreSQL that takes orders,
learns of payments through webhooks, and delivers a code to each paid order, either from
its own pool of keys or by buying from supplier A and then supplier B. Its claim is
"exactly once": a payment is booked once, an order gets one code, and no paid order is
lost. The models are about the transactions and the steps between them; TLC checks them on
small instances and TLAPS proves the central invariants for all instances.

## 1. The system

Paths are relative to `src/apps/api/src/` unless they begin with `src/`.

| Component | State it keeps | Operations | What makes it correct |
|---|---|---|---|
| Order state machine (`orders/order-state-machine.ts`) | none | `resolveTransition(status, event)`: apply, noop, conflict, illegal | every status change is a path of apply cells |
| Orders (`orders/`) | `orders` | create, guarded status writes | terminal rows are final; generations only grow |
| Payment webhook (`payments/`) | `payment_events` | handle, replay, abandon | one capture per paid order; the provider's clock decides |
| Ledger (`ledger/`) | `ledger_txns`, `ledger_entries` | `postTxn` | one posting per idempotency key; legs balance |
| Job queue and worker (`jobs/`) | `jobs`; the batch in a process's memory | enqueue, claim, complete, fail, reclaim; tick | one live job per order; a lost claim changes nothing; every job ends |
| Supplier fulfilment (`delivery/supplier-fulfilment.service.ts`) | `delivery_attempts`, `issued_deliveries` | TX-S1, call, TX-S2, forced outcome | one open attempt; no second purchase after a timeout; failed means exhausted |
| Pool fulfilment and inventory (`delivery/pool-fulfilment.service.ts`, `inventory/`) | `stock_keys`, `sku_stock`, `products.in_stock` | TX-P, restock | one key per order; counters follow keys |
| Sweeper (`reconciliation/sweeper.service.ts`) | none of its own | passes 1 to 6b | whatever a crash or a dropped message left is found again |
| Admin (`admin/`) | none of its own | restock, redeliver | same guards as the sweeper, without its cap |
| Supplier client (`suppliers/`) | none | issue, lookup, restock; classification of answers | a definite outcome proves nothing was minted |
| Supplier stub (`src/apps/supplier-stub/`) | minted records, stock, scenario, a state file | issue, lookup, control | one code per `request_id`, across restarts |
| Unit of work (`common/db/`) | a transaction | commit, roll back, retry on 40001 and 40P01 | atomicity |
| Catalog, configuration, logging, tools | | reads, formatting, command lines | |

The API process, one or several workers and one or several sweepers share nothing but the
database. A webhook commits the event, the order's status, the ledger posting and the
`deliver_order` job together. A worker claims jobs in batches and, for a supplier order,
splits every call into two transactions around the HTTP request. Every transaction on an
order begins by locking its row, so the hard behaviours are between transactions:

- events duplicated, reordered, arriving before their order, judged against a clock that
  is not the server's;
- a job dropped by the dedupe index because an older one is still alive;
- state read before an HTTP call and used after it, when the order may have moved on;
- batches of the sweeper that lock several orders, and cycles that overlap;
- answers that are lost after the supplier minted, and requests that arrive late;
- processes that die between two transactions, locks that run out under live ones;
- two transactions that lock the same rows in opposite orders.

`PROJECT.json` lists these hazards line by line with the properties that would catch them.

## 2. The modules

```
OrderStateMachine            the transition table and resolveTransition
   |
StoreOrders  --implements--> OrderLifecycle      (abstract: open, owed, done)
   |    |\
   |    | ArrivalOrder       two copies of StoreOrders, one script of events
   |    StoreBooks           StoreOrders with the entries of Ledger
   |
SupplierFulfilment --implements--> StoreOrders   (uses SupplierPlan)
SupplierExchange             one supplier and its callers (uses SupplierAnswers)
PoolInventory      --implements--> KeyShelf      (abstract: transactions one at a time)
OrphanSweep                  webhooks before their order, passes 6a and 6b in batches
JobQueue
```

An `MC` module adds symmetry sets and values for TLC; a `Proofs` module holds the theorems.
Definitions that begin with "Faulty variant" are wrong on purpose: each is a plausible slip
in the code, and putting it in the place of the right definition must break the property
`PROJECT.json` names for it.

**OrderStateMachine** is the 7 by 9 table of `orders.constants.ts`, with the statuses that
are recoverable (`out_of_stock`, `delivery_failed`).

**StoreOrders** is the transactional core. An action is one committed transaction on one
order: `CreateOrder`, `Webhook` (insert gate, guards in the order of `applyPersistedEvent`,
transition, capture, enqueue), `ReplayOrphan` (6a), `AbandonOrphan` (6b), `RequeueStuck`
(2), `RetryRecoverable` (3, 4), `AdminRedeliver`, and what a fulfilment run commits
(`BeginDelivery`, `HandOver`, `RunOutOfStock`, `ExhaustSuppliers`). `job` is the generation
in the live job's payload; `runs` are the handlers at work, each with the generation it
started from.

**OrderLifecycle** is what a customer may rely on: an order is opened, paid for by one
payment, handed over once with its revenue recognised once, and nothing is undone.

**ArrivalOrder** runs two copies of `StoreOrders` over one script of events, told in two
orders.

**Ledger** is `ledger/`: the posting rules, the two legs of a transaction, what
`assertPostableLegs` demands, the idempotency keys and the balance of an account.
**StoreBooks** puts it over `StoreOrders`: the legs of a posting are written in the
transaction that writes its key, from the order's total, so the books are a function of the
state of `StoreOrders` and the totals.

**SupplierPlan** is `supplier-plan.util.ts`: `PickSupplier` and the status of an exhausted
chain, functions of the attempts.

**SupplierFulfilment** is the delivery of one order through the suppliers. A worker's
`pc` is its place in `fulfil()`: `first`/`again` (top of the loop), `call` (TX-S1 has
committed), `settle` (the answer is known, TX-S2 has not begun), `force`, `done`, `failed`.
The suppliers are seen from outside: `minted` is what they minted, by attempt (its position
stands for its `request_id`), `late` are requests whose caller gave up and that may still
arrive. `StrictSuppliers` says that a definite refusal proves nothing was or will be
minted; `TtlCoversRun` that a job's lock is not taken back under a live run. The sweeper
passes 1, 2, 3/4, 5a and 5b and the admin redelivery are actions.

**SupplierAnswers** is the classification in `suppliers.util.ts` and `supplier.client.ts`:
what statuses, bodies, echoes and socket errors are taken for. **SupplierExchange** puts it
between some callers and one supplier stub: minting, replay by `request_id`, the nine
scenarios (`slow` is `ok` at another speed), `_control`, the state file, writes that
throw, crash, torn file and restart, answers lost or written by something in between. Time is left out: a caller
may give up at any moment. It justifies what `SupplierFulfilment` takes for granted:

- `ToldStaysOnRecord` is why an attempt's position may stand for its code there: a
  request has one code. It fails only in the four ways the stub forgets (`wiped`): a
  reset, a restart without a state file, a state file torn by a crash in the middle of a
  write, and a crash while the file is `behind`. The last is what a write that throws leaves:
  `persist()` comes after the change in memory and nothing undoes it, so the caller has a
  500, the record is in memory, and the file is as it was or cut short until the next write
  that succeeds. Any write may throw or be torn, those of `_control` too.
- `RefusalProvesNothingMinted` is `StrictSuppliers`. It leaves out the requests in `doubt`:
  a POST still on its way when its caller gave up, two callers with one request out at once
  (`OneLiveCall` excludes it while locks outlast runs), and the replay that was refused a
  connection, which is the finding of `SupplierSilentMint`.
- What stands between the two may answer with a 5xx page or with the answer of another
  request. A 4xx page or an invented success is not assumed: no client could tell.

**PoolInventory** is one product under READ COMMITTED, statement by statement: `tx` is what
each transaction has in hand, `stockLock`, `productLock` and `productShare` are the row
locks. A key another transaction holds is skipped, a row another transaction holds is
waited for, a cycle of waits is broken by a rollback. Three kinds of transactions meet:
TX-P, the restock, and the seed that is run again beside the service
(`src/tools/src/seed-catalog.ts`). `TakenCodes` are codes that another product or a
supplier has handed out, on which the insert of the delivery fails.

The seed counts the shelf in a statement that then waits for the row it writes the count
to, so the count may be old when it is written. It never is: the seed holds the products
row from its first statement to its commit, and every TX-P writes that row too, whether or
not the flag changes. `ImplementsShelf` fails as soon as that write is made conditional
(`SyncOnChange`), which looks like a harmless optimisation.

**KeyShelf** is the shelf seen by somebody who never looks between two commits.

**OrphanSweep** takes apart what `StoreOrders` has as the single steps `ReplayOrphan` and
`AbandonOrphan`: the statements of the webhook and of passes 6a and 6b, with the locks on
events and orders. A pass treats a batch in one transaction, each event takes its order's
row and the batch keeps it, so that batches wait for each other; the unit of work runs the
loser again `RetryAttempts` times and then throws, which ends the cycle. An interval does
not overlap itself, but `POST /admin/sweeper/run` and other processes do not look at its
flag. What the verdict on an event is stays with `StoreOrders`; here it is `judged`. Rows
that a transaction releases go to one of those who wait (`LetGo`), since PostgreSQL queues
them: otherwise two batches could be each other's victim for ever.

**JobQueue** is `jobs/` by itself: batches claimed by one statement, handlers that succeed
or fail, settle with its second chance, locks that run out, crashes. `expired` says that a
row's lock is older than the TTL, `due` that its `run_at` has come, `SlowWorker` are the workers whose batches may outlast it.

### What is abstracted

- Ages and intervals are not numbers: a sweep may find a row old enough, a timeout may
  fire and a lock may run out at any step at which the code lets it. Of
  `run_at` a row of the queue keeps whether it has come; in the modules about orders a
  pending job may be claimed at once.
- A sweeper pass treats a batch in one transaction. `OrphanSweep` has the batches of 6a and
  6b; elsewhere each row is committed by itself, which allows every interleaving with other
  transactions that a batch allows. Passes 2 to 4 take orders with SKIP LOCKED and nothing
  else, so their batches wait for nobody.
- How old an orphan is when 6b looks at it is left open, except that the events that came
  first are the first to pass the TTL.
- Claims take any set of due jobs up to the batch size, where the code takes the oldest:
  SKIP LOCKED may hide any of them.
- `PoolInventory` reads a statement's rows at one instant. A RESERVE_KEY statement whose
  snapshot and lock are apart in time is approximated by its lock. Keys are taken in any
  order, where the code takes the lowest id that is free.
- A payment is its stamp, its verdict and whether its
  amount is right.
- Workers have distinct `WORKER_ID`s (hostname and pid by default). The fence of the queue
  rests on it.

## 3. The runs

| Run | Instance | What it shows |
|---|---|---|
| `StoreTwoOrders` | a pool and a supplier order at prices 3 and 5, 2 events with any body, stamps 1..2, generations up to 2 of which the sweeper may open 1 | `CapturedExactlyWhenPaid`, `RecognisedExactlyWhenDelivered`, `NewestPaidWins`, `NoPaidOrderForgotten`, `BooksMatchOrders`, `StatusFollowsTable`; it implements `OrderLifecycle`; `DroppedEnqueueRecovered` |
| `ArrivalOrder` | 1 order, 3 events, stamps that tie | where two arrival orders end differently, the paid copy has a newer `failed` on record as set aside (`DisagreementIsRecorded`) |
| `SupplierContract` | 2 workers, A then B, 2 attempts each, 2 resumptions of an attempt, 5 claims of the job, every error kind, 1 fault, strict suppliers, locks outlast runs | `FallbackMovesForward`, `FailedMeansNotMinted`, `SurplusWrittenOff`, `OneLiveCall`, `DeliveredIsQuiet`, `BudgetReachesTheEnd` |
| `SupplierLateRuns` | 2 live runs of one job, 2 generations, lossy network, locks that run out | `OneOpenAttempt`, `FailureMeansExhausted`, `DeliveredIsMinted`, `ClosedAttemptsFrozen`; it implements `StoreOrders` |
| `SupplierLiveness` | 1 worker, A then B, 2 generations, 1 fault, lossy network | `PaidOrderSettles` |
| `SupplierExchange` | 2 callers, 2 requests, 2 codes of which 1 in stock, every scenario, 2 crashes or writes that throw, 1 call of `_control` | `ToldStaysOnRecord`, `RefusalProvesNothingMinted`, `StockFollowsRecords` |
| `SupplierSilentMint` | 1 worker, no fault, lossy network | a violation, see section 5 |
| `PoolInventory` | 2 orders, 1 restock, 1 second seed, 4 codes of which 1 on the shelf and 1 handed out elsewhere, 1 rollback | `KeysAccountedFor`; it implements `KeyShelf`; `PaidOrderSettles`, `RefusedOrderRetried` |
| `PoolDeadlock` | 2 orders, 1 restock | a violation, see section 5 |
| `OrphanSweep` | 4 events of 2 orders that cross, 2 sweepers of which 1 an interval, batches of 2, 1 retry, 1 fault | `OneVerdict`, `GivenUpOnlyUnseen`, `OrphansEnd` |
| `QueueFence` | 2 workers of which 1 slow, 2 jobs, batches of 2, 2 attempts, 2 faults | `LockNamesTheClaim`, `HandlerOwnsItsJob`, `OnlyTheOwnerSettles`, `EveryJobEnds` |
| `QueuePoison` | as `QueueFence`, no slow worker | a violation, see section 5 |

**Bounds.** Two events of one order are enough for a duplicate, a reorder, a tie and a
refused event beside an accepted one; `ArrivalOrder` has three. One generation
beyond the first is enough for a stale run to meet a new one, and in `StoreTwoOrders`
a second lies beyond the sweeper's cap; different prices keep orders from being
taken for each other in the books. Two resumptions tell an attempt at the limit of its resolve count from one below. Five claims are the least `JobBudgetRule` allows for two
suppliers with two attempts each. Two workers are enough for a takeover. Two pool orders
and one key are enough for a winner whose commit is pending and a refusal beside it; the
restock and the seed may each bring more. Two batches of two events whose orders come
crosswise are the least that wait for each other. Constants named `Max...` that the code does not have (`GenerationBound`,
`MaxFaults`, `MaxControls`) are marked as model bounds where they are declared. In `SupplierFulfilment`,
`MaxGenerations` also bounds the admin redelivery, which the code does not cap, and a count
stops at the number beyond which the code does not look.

The systems may stop (everything delivered, no generation left), so deadlock of the model
is not checked; the deadlock of transactions is a state predicate of `PoolInventory`.

**Fairness** is stated next to each `FairSpec` and used by the liveness properties only.

- `StoreOrders`: sweeper pass 2 is fair because the sweeper runs on an interval
  as long as the service runs, and every row it may take stays eligible until taken; a job
  is closed after at most `max_attempts` runs. Strong fairness of `CloseJob` allows for the
  runs that end without closing it.
- `SupplierFulfilment`: a worker goes on with its run (every call has a timeout), passes 1
  and 2 come round. Nothing is assumed of the suppliers, of passes 3 to 5 or of an admin.
- `PoolInventory`: a transaction that waits for a row gets it in the end, since PostgreSQL
  queues the waiters (strong fairness), the database breaks deadlocks, pass 3 comes round.
  Nobody has to ask for a restock or to run the seed.
- `OrphanSweep`: intervals come round, a transaction that has begun goes on, deadlocks are
  broken. Weak fairness is enough because released rows are handed to who waits. Cycles on
  demand have to end and need not begin.
- `JobQueue`: ticks come on an interval, handlers end, locks run out, backoffs end; a due job is
  claimed in the end because the claim is `ORDER BY run_at, id` (strong fairness per job).

Crashes and failed transactions have no fairness and are bounded by `MaxFaults`: an
unbounded number of them would defeat any of these claims (see `QueuePoison`).

## 4. The proofs

All are safety results `Spec => []I` or `Spec => [][A]_vars`, for all values of the
constants that satisfy the module's named assumption. The assumptions say what kind of
thing a constant is (non-empty sets, naturals, a cap below its model bound, `Nobody` no
worker). `TtlCoversRun`, `StrictSuppliers` and `SlowWorker` are free, so a theorem holds with
and without them, except in `SupplierContractProofs`, whose theorems assume by name what
they need of the first two.

**StoreOrdersProofs.** `CapturedExactlyWhenPaid` and `RecognisedExactlyWhenDelivered` are
inductive on top of `TypeOK`. What they need of the 63 cells of the table is stated as
three lemmas (`PaidCells`, `FailedCells`, `RedeliverCells`): a `paid` event is applied
exactly where the order is not paid for, a `failed` one only to a created order, a
redelivery only to a recoverable one. `NewestPaidWins` is not inductive; it needs
`LastEventApplied`, that `last_payment_event_at` is the stamp of an event of that order that was
applied. From the same invariants, every step is a step of `OrderLifecycle` or a stutter
(`StoreImplementsLifecycle`). `NoPaidOrderForgotten` needs that `paid_at` and the
generations keep up with the status (`Remembered`). `StatusFollowsTable` is about one step
at a time: each write of a status is an edge of the table or a path of them
(`StatusStaysInTable`).

The same module proves the books. The balances of `Ledger` are folds, defined in the library
by recursion on sets; a transaction has two legs and an order at most two transactions (its
capture and its recognition, by the two theorems above), so the recursion is unrolled once
(`BalanceOfNone`, `BalanceOfOne`, `BalanceOfTwo`) and no induction is needed. `BooksAgree`
is then the sum of what the posting rules move, whatever the prices. `PostingsStay` says
that a posting is never taken back; it is proved and not run. It is more than that the sets
of keys grow: the legs of a capture are computed from the body of its event, so that body
must not change once it was applied.

**ArrivalOrderProofs.** `DisagreementIsRecorded` compares two runs of one store, so no
invariant of a single copy is enough, but the copies do not look at each other: `CopyInv`
is an invariant of one copy, with the copy's variables as parameters, and is used for both
(`LeftSteps`, `RightSteps`). It says of each event that its verdict fits what the event says
and the stamp its order has reached, and of each order that the stamp is that of an applied
event which says what the status says. Given two copies that judged everything, a paid one
and a failed one, the failed copy's stamp is that of a `failed` event the paid copy has seen
too, and must have set aside; that it is newer than the capture follows from the verdict the
other copy gave the payment (`PaidAgainstFailed`). Proving it for all constants showed that
`AllJudged` has to mention the orders: an order nobody sent an event about may exist in one
copy and not yet in the other, which no run with events for its only order could show.

**SupplierFulfilmentProofs.** The inductive invariant is `TypeOK`, `RunKnows`,
`OneOpenAttempt`, `FailureMeansExhausted` and `DeliveredIsMinted`. `RunKnows` says what a
run knows between its steps: which attempt it called for, and that an answer "issued" has a
minted code behind it. `OneOpenAttempt` includes that the open attempt is of the order's
own generation, which needs `FailureMeansExhausted` (a generation ends only with nothing
open), which in turn needs that no settlement reopens an attempt; this is `StepShape`: a
step leaves the table as it is, rewrites open rows, or appends one, and only if none is open.
`HistoryIsFrozen` follows from the same lemma. `FallbackMovesForward` rests on two facts:
only the newest row can be open (`OpenIsLast`), and the suppliers the chain has passed have
nothing left to be asked for (`LeftBehind`), which depends on their own closed rows only.

The same module shows that every step of the split transactions is one transaction of
`StoreOrders` or is not seen by it (`FulfilmentImplementsStore`). Two facts make it true. A
run that still holds its job is of the generation in the job's payload (`OwnClaim`), so that
the job it completes is the one `StoreOrders` completes; and an order has no attempt before
the first call (`NothingAsked`), so that its chain never ends from `paid`.

**SupplierContractProofs.** What the code promises only under conditions it does not ensure.
The first is that a lock outlasts a run (`TtlCoversRun`). It gives `LockHeld`: a busy worker
owns the job, so there is one run at a time; then the attempt a run has called for stands
until it settles it (`CallStands`), and a delivered order has nothing open (`Settled`).
Together they are `LockedInv`, which holds whatever the suppliers do and is enough for
`AtMostOneLiveCall`, `DeliveredOrderIsQuiet` and `ClaimsLastForTheChain`. For the last, as
long as nothing fails and every answer is definite, each claim of a job but the one in hand
has an attempt of its generation to show (`ClaimsCounted`), since a run finds nothing open
to resume (`Attended`); and a generation has at most as many attempts as there are suppliers
times attempts for each (`AskedBound`). Whether a definite answer is also true does not
matter to it.

The second condition is that a supplier that refuses has not minted and will not
(`StrictSuppliers`). It adds that nothing is posted late (`NothingLate`) and that a refusal a
run brings home is true (`RefusalTrue`); only `FailedAttemptsBoughtNothing` and
`BoughtAgainOnlyAfterWriteOff` need it. `SupplierLateRuns` shows what holds without the
first condition, `SupplierSilentMint` what becomes possible without the second.

Neither condition keeps an order from being bought for twice: A may mint for a POST whose
answer is lost, leave the lookup unanswered, be given up, and B mint too (`spec/14`, row 6).
`BoughtAgainOnlyAfterWriteOff` says that this is the only way: whatever was minted for an
older attempt than the newest is on record as `abandoned_unknown`, with its resolve count at
the limit, and an attempt that failed has nothing behind it. The invariant adds that every
row but the newest is failed, or abandoned at the limit (`OlderGivenUp`), and that a run
asks only about a row at the limit (`LimitReached`). A row is written off by the lookup of a
run alone and a new one is appended only when none is open; a success ends the chain, and
resolve counts never go down (`ResolvesGrow`).

**JobQueueProofs.** `locked_by` names a worker, and a worker may lose a job and claim it
again. `LockNamesTheClaim` says the fence is sufficient nevertheless. It is inductive
with `CurrentInBatch` and `EmptyHandsBeforeClaim`: a process claims only with an empty
batch, so it never holds two claims of one job. `OwnerSettles` and `AtMostOneLiveJob`
follow; the latter is proved and not run, and is why one `job` per order is enough in
`StoreOrders`.
For `HandlerInTimeOwns` the claims in memory are compared with their rows (`Grip`): the
claim of a worker in time still has the row it took, running, unexpired and under its name;
every other claim is at most as new as its row.

**OrphanSweepProofs.** `OneVerdict` counts the verdicts of an event and is not inductive: a
transaction decides on what it read when it began. The inductive invariant adds `Owned` (an
event in a cycle's batch is locked by that cycle and still an orphan, and only events in a
batch are locked), `Unseen` (while its webhook is under way nobody else sees the event) and
`Served` (what pass 6a took up has ended by the time pass 6b selects, from which
`PassesInOrder`). The batches are any sets, so nothing is assumed of `BatchSize` or of the
order of the events.

**PoolInventoryProofs.** A transaction reads under READ COMMITTED and writes several
statements later, so the inductive invariant has to say what of its reading still holds.
`Sound` says it for one transaction: where its place in the code puts it in possession of
a row lock (`Holds`), which keys it has in hand (`InPlace`), and what it knows (`OrderKnows`,
`RefillKnows`): the counter it is about to write is the number of keys on the shelf with its
own uncommitted ones. That survives the other transactions because nobody commits a change
of the shelf without both the `sku_stock` and the `products` row; `OthersUntouched` and
`Bystander` are that argument. `Books` says the same of the committed counter and flag.
`KeysAccountedFor` is inductive on top of it, and each commit is the one step of `KeyShelf`
that the transaction stands for (`InventoryImplementsShelf`); every other statement is a
stutter. Sets of keys are counted with the library's facts on cardinality.

**SupplierExchangeProofs.** A refusal is a statement about the supplier's records that was
true when it was sent. It is still true when it is heard and ever after because the call
was the only one for its request (`OneOut`), no POST of it is under way (`stray` is in
`doubt`), and a request that is over is not asked again; `CallSound` says it of each call,
`Bystander` that the steps of the others do not touch it. The records survive a crash
because a running supplier has written them unless its last write threw (`BooksInv`, with
`behind`); one that decides on memory alone still answers from it. `Balanced` says of memory
and file that the stock counts the records. Callers, requests and codes are any sets.

**Model-checked only.** Liveness: `DroppedEnqueueRecovered`, `PaidOrderSettles` (of the
suppliers and of the pool), `RefusedOrderRetried`, `OrphansEnd` and `EveryJobEnds` rest on
fairness and ENABLED, which are out of the prover's reach here. Every other property of a
passing run is a theorem. Induction over data and RECURSIVE operators are out of reach too;
no module uses either, and folds are proved about only where their length is fixed.

## 5. Where the documents and the code differ

Three differences are runs that end in a violation, each with a finding in `PROJECT.json`.

- **`SupplierSilentMint`**: a refused connection counts as proof that nothing was minted,
  also for the replay of a request whose first POST timed out. The attempt is closed as
  `failed`, so the code is not even recorded as possibly lost, and supplier B is asked.
- **`PoolDeadlock`**: `spec/05` says deadlocks are not expected; a restock and a delivery
  lock `products` and `sku_stock` in opposite orders. The retry of the unit of work makes
  up for it, as `PaidOrderSettles` of `PoolInventory` shows.
- **`QueuePoison`**: `spec/14` bounds a poisoned job by `JOB_MAX_ATTEMPTS`; taking back a
  stale lock does not look at attempts.

Others were met while modelling and are not runs:

- `spec/05-exactly-once-design.md:72` has `POST /orders` replay orphans in its own
  transaction; `orders.service.ts:64-113` leaves them to pass 6a. The model follows the code.
- Pass 6b is described as abandoning events "without an order" (`sweeper.service.ts:270`);
  its query looks at the age only (`payments.constants.ts:114-120`). `GivenUpOnlyUnseen`
  states what remains: the passes' order keeps 6b from what 6a of the same cycle took.
- `spec/05:74` says the outcome is decided by `occurred_at` "not by arrival order". An event
  that changes nothing leaves `last_payment_event_at` alone: `failed` at 1, `failed` at 3, `paid` at 2
  ends in `paid`, and with the `failed` at 3 first it ends in `payment_failed`. `ArrivalOrder`
  states exactly when two arrival orders can differ.
- `README.md:62` has the open-attempt index allow one live call; it allows one open
  attempt, and two workers may resume it. `OneLiveCall` holds when locks outlast runs, which
  the validation of the configuration does not ensure.
- `README.md:452` says a restock of a supplier product tops up the virtual stock. The counter
  is topped up (`inventory.constants.ts:101-105`); the supplier's stock is set to the count,
  whatever was left and for all its products (`stub-state.store.ts:78-82`, `Restock` of
  `SupplierExchange`), so a restock can lower it with every answer `ok`.
- `spec/06-supplier-integration.md:254` forces the counter to 0 on a refusal; the code
  recounts (`inventory.constants.ts:62-76`), without which
  `RefusedOrderRetried` fails: keys on the shelf would stay hidden from pass 3.

## 6. Not modelled

The catalog (reads only), logging, errors and HTTP plumbing, parsing of the configuration,
migrations, entities and DTOs as such, and the command-line tools but for the seed. Partly
modelled: the ledger (one currency, no memos; refunds have a posting rule and no caller),
the supplier half of a restock, and a pool of one product (of others only the codes they
handed out). Hazards without a property, and hazards a property covers only in part, say
why in `PROJECT.json`.

## 7. Plan

Done: the modules of section 2, most important behaviour first (money and goods, then the
split transactions, then the shelf and the queue, the supplier and the books, the seed, the
sweeper's batches). Next, in this order:

1. The admin call that restocks a supplier product: counter, commit, both suppliers, one
   failing or lost.
2. A worker's batch of deliveries over `JobQueue`.
3. Proofs: that `JobQueue` implements the live job per order that `StoreOrders` and
   `SupplierFulfilment` take for granted (`AtMostOneLiveJob` is the heart of it), and that
   the passes of `OrphanSweep` implement `ReplayOrphan` and `AbandonOrphan`.
