----------------------------- MODULE PoolInventory -----------------------------
(***************************************************************************)
(* Delivery of pool orders of one product, statement by statement: TX-P    *)
(* (pool-fulfilment.service.ts), POST /admin/products/:sku/restock, the     *)
(* seed run again beside the service (seed-catalog.ts) and sweeper pass 3,  *)
(* over stock_keys, the sku_stock row and the products row.                 *)
(*                                                                         *)
(* Isolation is READ COMMITTED: a statement sees what was committed when it *)
(* began and what its own transaction wrote; a row written or locked by one *)
(* transaction makes the others wait until it ends (or is skipped, SKIP     *)
(* LOCKED).  An action is one statement, or several that cannot wait in     *)
(* between.  What a transaction wrote is in its own record until it         *)
(* commits.                                                                 *)
(*                                                                         *)
(* A key is 'reserved' only inside TX-P: no transaction commits that        *)
(* status, so FIND_RESERVED_KEY_SQL finds nothing for an order that is not  *)
(* delivered yet, and the model has no such key.  Two runs of one order     *)
(* queue for the order's row, so an order has one transaction at a time.    *)
(***************************************************************************)
EXTENDS Integers, FiniteSets

CONSTANTS
  Order,           \* pool orders of the product, paid
  Restocks,        \* restock requests
  Seeds,           \* runs of the seed, after the first one
  Key,             \* key codes
  InitialKeys,     \* the codes the first seed put on the shelf
  SeedKeys,        \* the codes of keys.json now
  TakenCodes,      \* the codes another product or a supplier has handed out
  MaxGenerations,  \* maxDeliveryGenerations
  MaxFaults        \* model bound: transactions that fail for no reason of this model

ASSUME InventoryAssumption ==
  /\ Order \cap (Restocks \cup Seeds) = {} /\ Restocks \cap Seeds = {}
  /\ {"absent", "available"} \cap Order = {}
  /\ "nobody" \notin Order \cup Restocks \cup Seeds
  /\ IsFiniteSet(Key) /\ "no key" \notin Key
  /\ InitialKeys \subseteq Key /\ SeedKeys \subseteq Key /\ TakenCodes \subseteq Key
  /\ MaxGenerations \in Nat
  /\ MaxFaults \in Nat

VARIABLES
  keys,         \* stock_keys, committed: "absent", "available", or the order it was issued to
  stock,        \* sku_stock, committed
  inStock,      \* products.in_stock, committed
  status,       \* orders.status
  generation,   \* orders.delivery_generation
  tx,           \* per order, restock request and seed: its transaction
  stockLock,    \* who holds the sku_stock row
  productLock,  \* who holds the products row (FOR UPDATE, or by an UPDATE)
  productShare, \* who holds it FOR KEY SHARE (the foreign key of issued_deliveries)
  faults        \* failed transactions so far

tables == <<keys, stock, inStock, status, generation>>
locks == <<stockLock, productLock, productShare>>
vars == <<tables, tx, locks, faults>>

-----------------------------------------------------------------------------
Transactions == Order \cup Restocks \cup Seeds
Nobody == "nobody"
NoKey == "no key"

\* The places of a transaction between its statements.
Place == {"idle", "decrement", "issue", "lockStock", "recount", "sync", "commit",
          "restockStock", "insert", "count", "setStock", "done"}
Counters == [available : Nat, reserved : Nat, issued : Nat]
Tally(available, reserved, issued) == [available |-> available, reserved |-> reserved, issued |-> issued]
Tx == [pc : Place, key : Key \cup {NoKey}, new : SUBSET Key, inStock : BOOLEAN, stock : Counters]
Idle == [pc |-> "idle", key |-> NoKey, new |-> {}, inStock |-> FALSE, stock |-> Tally(0, 0, 0)]

Ended == [Idle EXCEPT !.pc = "done"]

OnShelf == {k \in Key : keys[k] = "available"}
Issued == {k \in Key : keys[k] \in Order}
Missing(codes) == {k \in codes : keys[k] = "absent"}   \* the others hit ON CONFLICT DO NOTHING
InHand == {tx[o].key : o \in Order} \ {NoKey}   \* reserved and not yet committed

At(t, pc) == tx[t].pc = pc
Becomes(t, new) == tx' = [tx EXCEPT ![t] = new]
Decreased(n) == IF n > 0 THEN n - 1 ELSE 0      \* GREATEST(n - 1, 0)

TypeOK ==
  /\ keys \in [Key -> {"absent", "available"} \cup Order]
  /\ stock \in Counters
  /\ inStock \in BOOLEAN
  /\ status \in [Order -> {"paid", "delivering", "delivered", "out_of_stock"}]
  /\ generation \in [Order -> 0 .. MaxGenerations]
  /\ tx \in [Transactions -> Tx]
  /\ stockLock \in Transactions \cup {Nobody}
  /\ productLock \in Transactions \cup {Nobody}
  /\ productShare \subseteq Order
  /\ faults \in 0 .. MaxFaults

Init ==
  /\ keys = [k \in Key |-> IF k \in InitialKeys THEN "available" ELSE "absent"]
  /\ stock = Tally(Cardinality(InitialKeys), 0, 0)
  /\ inStock = (InitialKeys # {})
  /\ status = [o \in Order |-> "paid"]
  /\ generation = [o \in Order |-> 0]
  /\ tx = [t \in Transactions |-> Idle]
  /\ stockLock = Nobody
  /\ productLock = Nobody
  /\ productShare = {}
  /\ faults = 0

-----------------------------------------------------------------------------
(* TX-P.                                                                   *)

\* The order's row is locked, and its status and generation are looked at.
Begins(o) == At(o, "idle") /\ status[o] \in {"paid", "delivering"}

\* Faulty variant: FOR UPDATE SKIP LOCKED forgotten.
ReserveKeyUnlocked(o) ==
  /\ Begins(o)
  /\ \E k \in OnShelf : Becomes(o, [tx[o] EXCEPT !.pc = "decrement", !.key = k])
  /\ UNCHANGED <<tables, locks, faults>>

\* RESERVE_KEY_SQL: the first key nobody holds, or none when all are gone or
\* held.  Ids follow the order of the inserts, so any code may be first.
ReserveKey(o) ==
  /\ Begins(o)
  /\ \E k \in OnShelf \ InHand : Becomes(o, [tx[o] EXCEPT !.pc = "decrement", !.key = k])
  /\ UNCHANGED <<tables, locks, faults>>

ReserveNothing(o) ==
  /\ Begins(o)
  /\ OnShelf \subseteq InHand
  /\ Becomes(o, [tx[o] EXCEPT !.pc = "lockStock"])
  /\ UNCHANGED <<tables, locks, faults>>

Decrement(o) ==
  /\ At(o, "decrement")
  /\ stockLock = Nobody
  /\ stockLock' = o
  /\ Becomes(o, [tx[o] EXCEPT !.pc = "issue",
                              !.stock = Tally(Decreased(stock.available), stock.reserved + 1, stock.issued)])
  /\ UNCHANGED <<tables, productLock, productShare, faults>>

\* INSERT_ISSUED_DELIVERY_SQL (its foreign key wants the products row, which a
\* restock holds FOR UPDATE), MARK_KEY_ISSUED_SQL, MOVE_RESERVED_TO_ISSUED_SQL.
Issue(o) ==
  /\ At(o, "issue")
  /\ tx[o].key \notin TakenCodes
  /\ productLock \notin Restocks
  /\ productShare' = productShare \cup {o}
  /\ Becomes(o, [tx[o] EXCEPT !.pc = "sync",
                              !.stock = Tally(@.available, Decreased(@.reserved), @.issued + 1)])
  /\ UNCHANGED <<tables, stockLock, productLock, faults>>

\* recountAvailable: LOCK_SKU_STOCK_SQL, and only then the count.
LockStock(o) ==
  /\ At(o, "lockStock")
  /\ stockLock = Nobody
  /\ stockLock' = o
  /\ Becomes(o, [tx[o] EXCEPT !.pc = "recount", !.stock = stock])
  /\ UNCHANGED <<tables, productLock, productShare, faults>>

\* Faulty variant: the counter is set to zero instead.
RecountBlind(o) ==
  /\ At(o, "recount")
  /\ Becomes(o, [tx[o] EXCEPT !.pc = "sync", !.stock = [@ EXCEPT !.available = 0]])
  /\ UNCHANGED <<tables, locks, faults>>

Recount(o) ==
  /\ At(o, "recount")
  /\ Becomes(o, [tx[o] EXCEPT !.pc = "sync", !.stock = [@ EXCEPT !.available = Cardinality(OnShelf)]])
  /\ UNCHANGED <<tables, locks, faults>>

\* Faulty variant: the products row is written only where the flag changes.
SyncOnChange(o) ==
  /\ At(o, "sync")
  /\ LET flag == tx[o].stock.available > 0 IN
       /\ flag = inStock \/ productLock = Nobody
       /\ productLock' = IF flag = inStock THEN productLock ELSE o
       /\ Becomes(o, [tx[o] EXCEPT !.pc = "commit", !.inStock = flag])
  /\ UNCHANGED <<tables, stockLock, productShare, faults>>

\* SYNC_PRODUCT_IN_STOCK_SQL, with the sku_stock row already held.  It writes the
\* products row whether or not the flag changes.
Sync(o) ==
  /\ At(o, "sync")
  /\ productLock = Nobody
  /\ productLock' = o
  /\ Becomes(o, [tx[o] EXCEPT !.pc = "commit", !.inStock = (tx[o].stock.available > 0)])
  /\ UNCHANGED <<tables, stockLock, productShare, faults>>

Release(t) ==
  /\ stockLock' = IF stockLock = t THEN Nobody ELSE stockLock
  /\ productLock' = IF productLock = t THEN Nobody ELSE productLock
  /\ productShare' = productShare \ {t}

\* Faulty variant: the order of a refusal stays 'delivering'.
CommitWithoutRefusal(o) ==
  /\ At(o, "commit")
  /\ stock' = tx[o].stock
  /\ inStock' = tx[o].inStock
  /\ IF tx[o].key # NoKey
       THEN /\ keys' = [keys EXCEPT ![tx[o].key] = o]
            /\ status' = [status EXCEPT ![o] = "delivered"]
       ELSE UNCHANGED <<keys, status>>
  /\ Becomes(o, Idle)
  /\ Release(o)
  /\ UNCHANGED <<generation, faults>>

\* The last statement is the order's transition.
Commit(o) ==
  /\ At(o, "commit")
  /\ stock' = tx[o].stock
  /\ inStock' = tx[o].inStock
  /\ IF tx[o].key # NoKey
       THEN /\ keys' = [keys EXCEPT ![tx[o].key] = o]
            /\ status' = [status EXCEPT ![o] = "delivered"]
       ELSE /\ status' = [status EXCEPT ![o] = "out_of_stock"]
            /\ UNCHANGED keys
  /\ Becomes(o, Idle)
  /\ Release(o)
  /\ UNCHANGED <<generation, faults>>

-----------------------------------------------------------------------------
(* Restock.                                                                *)

\* LOCK_PRODUCT_STOCK_BY_SKU_SQL takes the products row, then the sku_stock row.
LockProduct(r) ==
  /\ At(r, "idle")
  /\ productLock = Nobody
  /\ productShare = {}
  /\ productLock' = r
  /\ Becomes(r, [tx[r] EXCEPT !.pc = "restockStock"])
  /\ UNCHANGED <<tables, stockLock, productShare, faults>>

LockProductStock(r) ==
  /\ At(r, "restockStock")
  /\ stockLock = Nobody
  /\ stockLock' = r
  /\ Becomes(r, [tx[r] EXCEPT !.pc = "insert", !.stock = stock])
  /\ UNCHANGED <<tables, productLock, productShare, faults>>

\* INSERT_RESTOCK_KEYS_SQL drops the codes the table has; the counter grows by
\* what was inserted, and the flag follows the counter.
InsertKeys(r) ==
  /\ At(r, "insert")
  /\ \E codes \in SUBSET Key \ {{}} :
       LET available == stock.available + Cardinality(Missing(codes))
       IN Becomes(r, [tx[r] EXCEPT !.pc = "commit", !.new = Missing(codes),
                                   !.stock = [@ EXCEPT !.available = available], !.inStock = (available > 0)])
  /\ UNCHANGED <<tables, locks, faults>>

CommitKeys(t) ==
  /\ At(t, "commit")
  /\ keys' = [k \in Key |-> IF k \in tx[t].new THEN "available" ELSE keys[k]]
  /\ stock' = tx[t].stock
  /\ inStock' = tx[t].inStock
  /\ Becomes(t, Ended)
  /\ Release(t)
  /\ UNCHANGED <<status, generation, faults>>

-----------------------------------------------------------------------------
(* The seed, run again.  It treats every product in one transaction; what   *)
(* it does to the rows of the others makes nobody wait who has rows here.   *)

\* SEED_PRODUCT_UPSERT_SQL writes the products row, SEED_KEYS_INSERT_SQL adds what
\* the table lacks.
UpsertProduct(s) ==
  /\ At(s, "idle")
  /\ productLock = Nobody
  /\ productLock' = s
  /\ Becomes(s, [tx[s] EXCEPT !.pc = "count", !.new = Missing(SeedKeys)])
  /\ UNCHANGED <<tables, stockLock, productShare, faults>>

\* SEED_SKU_STOCK_POOL_SQL counts the shelf when the statement begins...
CountShelf(s) ==
  /\ At(s, "count")
  /\ Becomes(s, [tx[s] EXCEPT !.pc = "setStock",
                              !.stock = [@ EXCEPT !.available =
                                           Cardinality(OnShelf) + Cardinality(tx[s].new)]])
  /\ UNCHANGED <<tables, locks, faults>>

\* ...and then waits for the row it writes that count to.  SEED_IN_STOCK_SYNC_SQL
\* finds the products row already its own.
SetStock(s) ==
  /\ At(s, "setStock")
  /\ stockLock = Nobody
  /\ stockLock' = s
  /\ LET available == tx[s].stock.available
     IN Becomes(s, [tx[s] EXCEPT !.pc = "commit", !.stock = [stock EXCEPT !.available = available],
                                   !.inStock = (available > 0)])
  /\ UNCHANGED <<tables, productLock, productShare, faults>>

-----------------------------------------------------------------------------
(* Failure, and the sweeper.                                               *)

\* A job or a request may come again; a seed reports the failure and exits.
RollBack(t) ==
  /\ Becomes(t, IF t \in Seeds THEN Ended ELSE Idle)
  /\ Release(t)
  /\ UNCHANGED tables

\* issued_deliveries_code_uq spans all products and suppliers: the insert fails,
\* and the job, tried again, may find the same key first.
CodeTaken(o) ==
  /\ At(o, "issue")
  /\ tx[o].key \in TakenCodes
  /\ RollBack(o)
  /\ UNCHANGED faults

\* A lost connection, a timeout, a process that dies.
Abort(t) ==
  /\ tx[t].pc \notin {"idle", "done"}
  /\ faults < MaxFaults
  /\ faults' = faults + 1
  /\ RollBack(t)

\* Whom a transaction waits for.  A restock or a seed that waits for the
\* products row holds nothing yet.
Holder(t) ==
  IF tx[t].pc \in {"decrement", "lockStock", "restockStock", "setStock"} THEN {stockLock}
  ELSE IF tx[t].pc = "sync" \/ (tx[t].pc = "issue" /\ productLock \in Restocks) THEN {productLock}
  ELSE {}
WaitsFor(t) == Holder(t) \ {Nobody}

\* With two rows to wait for, a cycle has two transactions.
InDeadlock(t) == \E u \in WaitsFor(t) : t \in WaitsFor(u)

\* PostgreSQL ends one of them with 40P01.  The service's withTransaction runs it
\* again, up to a number of times; after that the job comes round, or the restock
\* answers 500.  The seed has no retries.
BreakDeadlock(t) ==
  /\ InDeadlock(t)
  /\ RollBack(t)
  /\ UNCHANGED faults

\* Faulty variant: no cap on the generations.
RetryOutOfStockUncapped(o) ==
  /\ status[o] = "out_of_stock"
  /\ stock.available > 0
  /\ status' = [status EXCEPT ![o] = "delivering"]
  /\ generation' = [generation EXCEPT ![o] = @ + 1]
  /\ UNCHANGED <<keys, stock, inStock, tx, locks, faults>>

\* Pass 3: the order is locked with SKIP LOCKED, sku_stock is only read.
RetryOutOfStock(o) ==
  /\ status[o] = "out_of_stock"
  /\ stock.available > 0
  /\ generation[o] < MaxGenerations
  /\ status' = [status EXCEPT ![o] = "delivering"]
  /\ generation' = [generation EXCEPT ![o] = @ + 1]
  /\ UNCHANGED <<keys, stock, inStock, tx, locks, faults>>

-----------------------------------------------------------------------------
TxP(o) ==
  \/ ReserveKey(o)
  \/ ReserveNothing(o)
  \/ Decrement(o)
  \/ Issue(o)
  \/ LockStock(o)
  \/ Recount(o)
  \/ Sync(o)
  \/ Commit(o)
  \/ CodeTaken(o)

ContinueRestock(r) ==
  \/ LockProductStock(r)
  \/ InsertKeys(r)
  \/ CommitKeys(r)

ContinueSeed(s) ==
  \/ CountShelf(s)
  \/ SetStock(s)
  \/ CommitKeys(s)

Next ==
  \/ \E o \in Order : TxP(o) \/ RetryOutOfStock(o)
  \/ \E r \in Restocks : LockProduct(r) \/ ContinueRestock(r)
  \/ \E s \in Seeds : UpsertProduct(s) \/ ContinueSeed(s)
  \/ \E t \in Transactions : Abort(t) \/ BreakDeadlock(t)

Spec == Init /\ [][Next]_vars

\* A transaction that has begun goes on, the database breaks deadlocks, jobs
\* are retried, and the sweeper runs on an interval.  A transaction that waits
\* for a row gets it though others take it first, since row locks queue.
\* Nobody has to ask for a restock or to run the seed.
Fairness ==
  /\ \A o \in Order : SF_vars(TxP(o)) /\ WF_vars(RetryOutOfStock(o))
  /\ \A r \in Restocks : SF_vars(ContinueRestock(r))
  /\ \A s \in Seeds : SF_vars(ContinueSeed(s))
  /\ \A t \in Transactions : WF_vars(BreakDeadlock(t))

FairSpec == Spec /\ Fairness

-----------------------------------------------------------------------------
(* Properties.                                                             *)

\* An order has a key exactly when it is delivered, and only one, no code
\* goes out that went out elsewhere; a key in hand is in one transaction's hand
\* and on the shelf still; and the two inner counters of sku_stock agree.
KeysAccountedFor ==
  /\ \A o \in Order : Cardinality({k \in Key : keys[k] = o}) = IF status[o] = "delivered" THEN 1 ELSE 0
  /\ Issued \cap TakenCodes = {}
  /\ \A o, p \in Order : tx[o].key = tx[p].key /\ tx[o].key # NoKey => o = p
  /\ InHand \subseteq OnShelf
  /\ stock.reserved = 0
  /\ stock.issued = Cardinality(Issued)

\* spec/05-exactly-once-design.md 5.7: deadlocks are not expected, every
\* invariant being protected by a row lock or a unique constraint.
DeadlocksNotExpected == \A t \in Transactions : ~InDeadlock(t)

\* A paid order gets a key or is refused, unless a code came on the shelf that
\* was handed out elsewhere: an order that meets it first may never get past it.
PaidOrderSettles ==
  \A o \in Order : (status[o] \in {"paid", "delivering"})
    ~> (status[o] \in {"delivered", "out_of_stock"} \/ OnShelf \cap TakenCodes # {})

\* A refused order does not outlive its reason: while it has generations left
\* and keys are on the shelf, it is sent again.
RefusedOrderRetried ==
  \A o \in Order :
    (status[o] = "out_of_stock" /\ generation[o] < MaxGenerations /\ OnShelf # {})
      ~> (status[o] # "out_of_stock" \/ OnShelf = {})

Shelf == INSTANCE KeyShelf WITH shown <- stock.available, onSale <- inStock

\* Statement by statement, under READ COMMITTED, with rollbacks and deadlocks,
\* the transactions do what they would do one after the other, and the counter
\* and the flag always say what the keys say: no recount, restock, seed or
\* rollback loses an update.
ImplementsShelf == Shelf!Spec
=============================================================================
