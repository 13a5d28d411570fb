-------------------------- MODULE PoolInventoryProofs --------------------------
(***************************************************************************)
(* PoolInventory for any number of orders, restocks, seeds, keys and       *)
(* faults.  A transaction changes what others see at its commit only, and   *)
(* who commits holds the sku_stock row and the products row: what it read    *)
(* of the shelf under one of them is still true then.                        *)
(***************************************************************************)
EXTENDS PoolInventory, FiniteSetTheorems, TLAPS

\* Where a transaction is once it has the sku_stock row, and once it has the
\* products row.
WithStock == {"issue", "recount", "sync", "insert", "commit"}
WithProduct == {"restockStock", "insert", "count", "setStock", "commit"}

InPlace(t) ==
  /\ t \in Order => tx[t].pc \in {"idle", "decrement", "issue", "lockStock", "recount", "sync", "commit"}
  /\ t \in Restocks => tx[t].pc \in {"idle", "restockStock", "insert", "commit", "done"}
  /\ t \in Seeds => tx[t].pc \in {"idle", "count", "setStock", "commit", "done"}

Holds(t) ==
  /\ tx[t].pc \in WithStock => stockLock = t
  /\ tx[t].pc \in WithProduct => productLock = t

Shown == Cardinality(OnShelf)
Sold == Cardinality(Issued)

\* The counter and the flag say what the keys say.
Books == stock = Tally(Shown, 0, Sold) /\ inStock = (OnShelf # {})

\* What a delivery knows: the key it has in hand is on the shelf for the others,
\* and what it is about to write is the old count and its own key.
OrderKnows(o) ==
  /\ tx[o].pc # "idle" => status[o] \in {"paid", "delivering"}
  /\ tx[o].pc \in {"idle", "lockStock", "recount"} => tx[o].key = NoKey
  /\ tx[o].pc \in {"decrement", "issue"} => tx[o].key # NoKey
  /\ tx[o].key # NoKey => tx[o].key \in OnShelf
  /\ tx[o].pc = "issue" => tx[o].stock = Tally(Shown - 1, 1, Sold)
  /\ tx[o].pc = "recount" => tx[o].stock = Tally(Shown, 0, Sold)
  /\ tx[o].pc \in {"sync", "commit"} =>
       IF tx[o].key = NoKey THEN tx[o].stock = Tally(Shown, 0, Sold)
                            ELSE tx[o].stock = Tally(Shown - 1, 0, Sold + 1) /\ tx[o].key \notin TakenCodes
  /\ tx[o].pc = "commit" => tx[o].inStock = (tx[o].stock.available > 0)

\* What a restock or a seed knows: the keys it brings are still absent.
RefillKnows(t) ==
  /\ tx[t].key = NoKey
  /\ tx[t].pc \in {"count", "setStock", "commit"} => tx[t].new \subseteq Missing(Key)
  /\ tx[t].pc = "insert" => tx[t].stock = Tally(Shown, 0, Sold)
  /\ tx[t].pc = "setStock" => tx[t].stock.available = Shown + Cardinality(tx[t].new)
  /\ tx[t].pc = "commit" => /\ tx[t].stock = Tally(Shown + Cardinality(tx[t].new), 0, Sold)
                            /\ tx[t].inStock = (tx[t].stock.available > 0)

Sound(t) ==
  /\ InPlace(t)
  /\ Holds(t)
  /\ IF t \in Order THEN OrderKnows(t) ELSE RefillKnows(t)

IndInv == TypeOK /\ Books /\ KeysAccountedFor /\ \A t \in Transactions : Sound(t)

-----------------------------------------------------------------------------
(* Counting.                                                               *)

LEMMA FiniteKeys ==
  ASSUME NEW S \in SUBSET Key
  PROVE  IsFiniteSet(S) /\ Cardinality(S) \in Nat
<1>1. IsFiniteSet(S)
  BY InventoryAssumption, FS_Subset
<1> QED
  BY <1>1, FS_CardinalityType

LEMMA ShelfCount ==
  /\ Shown \in Nat /\ Sold \in Nat
  /\ Shown > 0 <=> OnShelf # {}
<1>1. OnShelf \in SUBSET Key /\ Issued \in SUBSET Key
  BY DEF OnShelf, Issued
<1>2. IsFiniteSet(OnShelf) /\ Shown \in Nat /\ Sold \in Nat
  BY <1>1, FiniteKeys DEF Shown, Sold
<1>3. Shown = 0 <=> OnShelf = {}
  BY <1>2, FS_EmptySet DEF Shown
<1> QED
  BY <1>2, <1>3

LEMMA NobodyElse ==
  /\ Nobody \notin Transactions
  /\ \A o \in Order : o \notin Restocks \cup Seeds
  /\ \A r \in Restocks : r \notin Seeds
  BY InventoryAssumption DEF Transactions, Nobody

LEMMA InitInv == ASSUME Init PROVE IndInv
<1>1. OnShelf = InitialKeys /\ Issued = {}
  BY InventoryAssumption DEF Init, OnShelf, Issued
<1>2. Cardinality(InitialKeys) \in Nat /\ Cardinality({}) = 0
  BY InventoryAssumption, FiniteKeys, FS_EmptySet
<1>3. Idle \in Tx
  BY DEF Tx, Idle, NoKey, Place, Counters, Tally
<1>4. stock \in Counters
  BY <1>2 DEF Init, Counters, Tally
<1>5. TypeOK
  <2>1. keys \in [Key -> {"absent", "available"} \cup Order] /\ tx \in [Transactions -> Tx]
    BY <1>3 DEF Init
  <2>n. MaxGenerations \in Nat /\ MaxFaults \in Nat
    BY InventoryAssumption
  <2>2. 0 \in 0 .. MaxGenerations /\ 0 \in 0 .. MaxFaults
    BY <2>n
  <2>3. /\ status \in [Order -> {"paid", "delivering", "delivered", "out_of_stock"}]
        /\ generation \in [Order -> 0 .. MaxGenerations] /\ faults \in 0 .. MaxFaults
    BY <2>2 DEF Init
  <2> QED
    BY <1>4, <2>1, <2>3 DEF Init, TypeOK
<1>6. Books
  BY <1>1, <1>2 DEF Init, Books, Tally, Shown, Sold
<1>7. \A o \in Order : {k \in Key : keys[k] = o} = {}
  BY InventoryAssumption DEF Init
<1>8. InHand = {}
  BY DEF Init, InHand, Idle, Transactions
<1>9. KeysAccountedFor
  BY <1>1, <1>2, <1>7, <1>8 DEF Init, KeysAccountedFor, Idle, Transactions, Tally
<1>10. \A t \in Transactions : Sound(t)
  BY DEF Init, Sound, InPlace, Holds, OrderKnows, RefillKnows, Idle, WithStock, WithProduct
<1> QED
  BY <1>5, <1>6, <1>9, <1>10 DEF IndInv

-----------------------------------------------------------------------------
(* Steps that nobody else sees.                                            *)

LEMMA Became ==
  ASSUME TypeOK, NEW t \in Transactions, NEW new \in Tx, Becomes(t, new)
  PROVE  /\ tx' \in [Transactions -> Tx]
         /\ tx'[t] = new
         /\ \A u \in Transactions : u # t => tx'[u] = tx[u]
  BY DEF TypeOK, Becomes

LEMMA SameShelf ==
  ASSUME UNCHANGED keys
  PROVE  /\ OnShelf' = OnShelf /\ Issued' = Issued /\ Shown' = Shown /\ Sold' = Sold
         /\ Missing(Key)' = Missing(Key)
  BY DEF OnShelf, Issued, Shown, Sold, Missing

\* Everything a transaction knows is about itself, the tables and its locks.
LEMMA OthersUntouched ==
  ASSUME NEW u \in Transactions, Sound(u), tx'[u] = tx[u], UNCHANGED keys,
         u \in Order => tx[u].pc = "idle" \/ status'[u] = status[u],
         stockLock = u => stockLock' = u, productLock = u => productLock' = u
  PROVE  Sound(u)'
<1>1. InPlace(u)' /\ Holds(u)'
  BY DEF Sound, InPlace, Holds
<1>2. CASE u \in Order
  BY <1>1, <1>2, SameShelf DEF Sound, OrderKnows
<1>3. CASE u \notin Order
  BY <1>1, <1>3, SameShelf DEF Sound, RefillKnows
<1> QED
  BY <1>2, <1>3

\* A step inside a transaction: it concerns its own record and its own locks, and
\* a key it takes in hand is in no other hand.
LEMMA PrivateStep ==
  ASSUME IndInv, NEW t \in Transactions, NEW new \in Tx, Becomes(t, new), UNCHANGED tables,
         faults' \in 0 .. MaxFaults, productShare' \in SUBSET Order,
         stockLock' \in Transactions \cup {Nobody}, productLock' \in Transactions \cup {Nobody},
         \A u \in Transactions : u # t => /\ stockLock = u => stockLock' = u
                                          /\ productLock = u => productLock' = u,
         new.key \in {NoKey, tx[t].key} \cup (OnShelf \ InHand),
         Sound(t)'
  PROVE  IndInv'
<1>1. /\ tx' \in [Transactions -> Tx]
      /\ tx'[t] = new
      /\ \A u \in Transactions : u # t => tx'[u] = tx[u]
  BY Became DEF IndInv
<1>2. TypeOK'
  BY <1>1 DEF IndInv, TypeOK, tables
<1>3. Books'
  BY SameShelf DEF IndInv, Books, tables
<1>4. \A u \in Transactions : Sound(u)'
  BY <1>1, OthersUntouched DEF IndInv, tables
<1>5. \A o \in Order : o \in Transactions
  BY DEF Transactions
<1>6. \A o \in Order : tx[o].key # NoKey => tx[o].key \in InHand
  BY DEF InHand
<1>7. \A o, p \in Order : tx'[o].key = tx'[p].key /\ tx'[o].key # NoKey => o = p
  BY <1>1, <1>5, <1>6 DEF IndInv, KeysAccountedFor
<1>8. (InHand \subseteq OnShelf)'
  BY <1>4, <1>5 DEF Sound, OrderKnows, InHand
<1>9. KeysAccountedFor'
  BY <1>7, <1>8, SameShelf DEF IndInv, KeysAccountedFor, tables
<1> QED
  BY <1>2, <1>3, <1>4, <1>9 DEF IndInv

-----------------------------------------------------------------------------
(* TX-P.                                                                   *)

\* What every step of a transaction may use.
LEMMA Known ==
  ASSUME IndInv, NEW t \in Transactions
  PROVE  /\ tx[t] \in Tx /\ stock \in Counters /\ Sound(t)
         /\ stock = Tally(Shown, 0, Sold) /\ Shown \in Nat /\ Sold \in Nat
         /\ Shown > 0 <=> OnShelf # {}
         /\ \A u \in Transactions : u # Nobody
  BY ShelfCount, NobodyElse DEF IndInv, TypeOK, Books

LEMMA ReserveKeyInv == ASSUME IndInv, NEW o \in Order, ReserveKey(o) PROVE IndInv'
<1>1. PICK k \in OnShelf \ InHand : Becomes(o, [tx[o] EXCEPT !.pc = "decrement", !.key = k])
  BY DEF ReserveKey
<1> DEFINE new == [tx[o] EXCEPT !.pc = "decrement", !.key = k]
<1>2. o \in Transactions /\ tx[o] \in Tx /\ Sound(o)
  BY Known DEF Transactions
<1>3. k \in Key /\ k # NoKey
  BY InventoryAssumption DEF OnShelf, NoKey
<1>4. new \in Tx
  BY <1>2, <1>3 DEF Tx, Place
<1>5. tx'[o] = new
  BY <1>1, <1>2, <1>4, Became DEF IndInv
<1>6. new.pc = "decrement" /\ new.key = k
  BY <1>2 DEF Tx
<1>7. Sound(o)'
  BY <1>1, <1>2, <1>3, <1>5, <1>6, NobodyElse, SameShelf
  DEF ReserveKey, Begins, At, Sound, InPlace, Holds, OrderKnows, WithStock, WithProduct, tables
<1> QED
  BY <1>1, <1>2, <1>4, <1>6, <1>7, PrivateStep DEF ReserveKey, IndInv, TypeOK, locks, tables

LEMMA ReserveNothingInv == ASSUME IndInv, NEW o \in Order, ReserveNothing(o) PROVE IndInv'
<1> DEFINE new == [tx[o] EXCEPT !.pc = "lockStock"]
<1>1. o \in Transactions /\ tx[o] \in Tx /\ Sound(o)
  BY Known DEF Transactions
<1>2. new \in Tx /\ new.pc = "lockStock" /\ new.key = tx[o].key
  BY <1>1 DEF Tx, Place
<1>3. Becomes(o, new) /\ tx'[o] = new
  BY <1>1, <1>2, Became DEF IndInv, ReserveNothing
<1>4. Sound(o)'
  BY <1>1, <1>2, <1>3, NobodyElse, SameShelf
  DEF ReserveNothing, Begins, At, Sound, InPlace, Holds, OrderKnows, WithStock, WithProduct, tables
<1> QED
  BY <1>1, <1>2, <1>3, <1>4, PrivateStep DEF ReserveNothing, IndInv, TypeOK, locks, tables

LEMMA DecrementInv == ASSUME IndInv, NEW o \in Order, Decrement(o) PROVE IndInv'
<1> DEFINE left == Tally(Decreased(stock.available), stock.reserved + 1, stock.issued)
           new == [tx[o] EXCEPT !.pc = "issue", !.stock = left]
<1>1. o \in Transactions
  BY DEF Transactions
<1>2. tx[o].key \in OnShelf
  BY <1>1, Known DEF Decrement, At, Sound, OrderKnows
<1>3. stock = Tally(Shown, 0, Sold) /\ Shown \in Nat /\ Sold \in Nat /\ Shown > 0
  BY <1>1, <1>2, Known
<1>d. Decreased(Shown) = Shown - 1
  BY <1>3 DEF Decreased
<1>4. left = Tally(Shown - 1, 1, Sold)
  <2>1. stock.available = Shown /\ stock.reserved = 0 /\ stock.issued = Sold
    BY <1>3 DEF Tally
  <2> QED
    BY <2>1, <1>d
<1>5. Tally(Shown - 1, 1, Sold) \in Counters
  BY <1>3 DEF Tally, Counters
<1>6. new \in Tx /\ new.pc = "issue" /\ new.key = tx[o].key /\ new.stock = left
  BY <1>1, <1>4, <1>5, Known DEF Tx, Place
<1>7. Becomes(o, new) /\ tx'[o] = new
  BY <1>1, <1>6, Became DEF IndInv, Decrement
<1>8. Sound(o)'
  BY <1>1, <1>4, <1>5, <1>6, <1>7, Known, NobodyElse, SameShelf
  DEF Decrement, At, Sound, InPlace, Holds, OrderKnows, WithStock, WithProduct, tables
<1> QED
  BY <1>1, <1>6, <1>7, <1>8, Known, PrivateStep DEF Decrement, IndInv, TypeOK, tables

LEMMA IssueInv == ASSUME IndInv, NEW o \in Order, Issue(o) PROVE IndInv'
<1> DEFINE new == [tx[o] EXCEPT !.pc = "sync",
                             !.stock = Tally(@.available, Decreased(@.reserved), @.issued + 1)]
<1>1. o \in Transactions
  BY DEF Transactions
<1>2. tx[o] \in Tx /\ tx[o].key \in OnShelf /\ tx[o].key # NoKey /\ tx[o].stock = Tally(Shown - 1, 1, Sold)
  BY <1>1, Known DEF Issue, At, Sound, OrderKnows
<1>3. Tally(tx[o].stock.available, Decreased(tx[o].stock.reserved), tx[o].stock.issued + 1)
        = Tally(Shown - 1, 0, Sold + 1)
  <2>1. Decreased(1) = 0
    BY DEF Decreased
  <2>2. tx[o].stock.available = Shown - 1 /\ tx[o].stock.reserved = 1 /\ tx[o].stock.issued = Sold
    BY <1>2 DEF Tally
  <2> QED
    BY <2>1, <2>2
<1>4. Tally(Shown - 1, 0, Sold + 1) \in Counters
  BY <1>1, <1>2, Known DEF Tally, Counters
<1>5. new \in Tx /\ new.pc = "sync" /\ new.key = tx[o].key /\ new.stock = Tally(Shown - 1, 0, Sold + 1)
  BY <1>1, <1>2, <1>3, <1>4 DEF Tx, Place
<1>6. Becomes(o, new) /\ tx'[o] = new
  BY <1>1, <1>5, Became DEF IndInv, Issue
<1>7. Sound(o)'
  BY <1>1, <1>2, <1>5, <1>6, Known, NobodyElse, SameShelf
  DEF Issue, At, Sound, InPlace, Holds, OrderKnows, WithStock, WithProduct, tables
<1> QED
  BY <1>1, <1>5, <1>6, <1>7, PrivateStep DEF Issue, IndInv, TypeOK, tables

LEMMA LockStockInv == ASSUME IndInv, NEW o \in Order, LockStock(o) PROVE IndInv'
<1> DEFINE new == [tx[o] EXCEPT !.pc = "recount", !.stock = stock]
<1>1. o \in Transactions
  BY DEF Transactions
<1>2. new \in Tx /\ new.pc = "recount" /\ new.key = tx[o].key /\ new.stock = stock
  BY <1>1, Known DEF Tx, Place
<1>3. Becomes(o, new) /\ tx'[o] = new
  BY <1>1, <1>2, Became DEF IndInv, LockStock
<1>4. Sound(o)'
  BY <1>1, <1>2, <1>3, Known, NobodyElse, SameShelf
  DEF LockStock, At, Sound, InPlace, Holds, OrderKnows, WithStock, WithProduct, tables
<1> QED
  BY <1>1, <1>2, <1>3, <1>4, Known, PrivateStep DEF LockStock, IndInv, TypeOK, tables

LEMMA RecountInv == ASSUME IndInv, NEW o \in Order, Recount(o) PROVE IndInv'
<1> DEFINE new == [tx[o] EXCEPT !.pc = "sync", !.stock = [@ EXCEPT !.available = Cardinality(OnShelf)]]
<1>1. o \in Transactions
  BY DEF Transactions
<1>2. tx[o] \in Tx /\ tx[o].stock = Tally(Shown, 0, Sold)
  BY <1>1, Known DEF Recount, At, Sound, OrderKnows
<1>3. [tx[o].stock EXCEPT !.available = Cardinality(OnShelf)] = Tally(Shown, 0, Sold)
  BY <1>1, <1>2, Known DEF Tally, Shown
<1>4. Tally(Shown, 0, Sold) \in Counters
  BY <1>1, Known DEF Tally, Counters
<1>5. new \in Tx /\ new.pc = "sync" /\ new.key = tx[o].key /\ new.stock = Tally(Shown, 0, Sold)
  BY <1>1, <1>2, <1>3, <1>4 DEF Tx, Place
<1>6. Becomes(o, new) /\ tx'[o] = new
  BY <1>1, <1>5, Became DEF IndInv, Recount
<1>7. Sound(o)'
  BY <1>1, <1>5, <1>6, Known, NobodyElse, SameShelf
  DEF Recount, At, Sound, InPlace, Holds, OrderKnows, WithStock, WithProduct, tables, locks
<1> QED
  BY <1>1, <1>5, <1>6, <1>7, PrivateStep DEF Recount, IndInv, TypeOK, tables, locks

LEMMA SyncInv == ASSUME IndInv, NEW o \in Order, Sync(o) PROVE IndInv'
<1> DEFINE new == [tx[o] EXCEPT !.pc = "commit", !.inStock = (tx[o].stock.available > 0)]
<1>1. o \in Transactions
  BY DEF Transactions
<1>2. new.pc = "commit" /\ new.key = tx[o].key /\ new.stock = tx[o].stock
  BY <1>1, Known DEF Tx
<1>3. new.inStock = (new.stock.available > 0)
  BY <1>1, Known DEF Tx
<1>b. (tx[o].stock.available > 0) \in BOOLEAN
  OBVIOUS
<1>6. new \in Tx
  BY <1>1, <1>b, Known DEF Tx, Place
<1>4. Becomes(o, new) /\ tx'[o] = new
  BY <1>1, <1>6, Became DEF IndInv, Sync
<1>5. Sound(o)'
  BY <1>1, <1>2, <1>3, <1>4, Known, NobodyElse, SameShelf
  DEF Sync, At, Sound, InPlace, Holds, OrderKnows, WithStock, WithProduct, tables
<1> QED
  BY <1>1, <1>2, <1>4, <1>5, <1>6, Known, PrivateStep DEF Sync, IndInv, TypeOK, tables

-----------------------------------------------------------------------------
(* The restock and the seed.                                               *)

LEMMA LockProductInv == ASSUME IndInv, NEW r \in Restocks, LockProduct(r) PROVE IndInv'
<1> DEFINE new == [tx[r] EXCEPT !.pc = "restockStock"]
<1>1. r \in Transactions /\ r \notin Order /\ r \notin Seeds
  BY NobodyElse DEF Transactions
<1>2. new \in Tx /\ new.pc = "restockStock" /\ new.key = tx[r].key
  BY <1>1, Known DEF Tx, Place
<1>3. Becomes(r, new) /\ tx'[r] = new
  BY <1>1, <1>2, Became DEF IndInv, LockProduct
<1>4. Sound(r)'
  BY <1>1, <1>2, <1>3, Known
  DEF LockProduct, At, Sound, InPlace, Holds, RefillKnows, WithStock, WithProduct
<1> QED
  BY <1>1, <1>2, <1>3, <1>4, Known, PrivateStep DEF LockProduct, IndInv, TypeOK, tables

LEMMA LockProductStockInv == ASSUME IndInv, NEW r \in Restocks, LockProductStock(r) PROVE IndInv'
<1> DEFINE new == [tx[r] EXCEPT !.pc = "insert", !.stock = stock]
<1>1. r \in Transactions /\ r \notin Order /\ r \notin Seeds
  BY NobodyElse DEF Transactions
<1>2. new \in Tx /\ new.pc = "insert" /\ new.key = tx[r].key /\ new.stock = stock
  BY <1>1, Known DEF Tx, Place
<1>3. Becomes(r, new) /\ tx'[r] = new
  BY <1>1, <1>2, Became DEF IndInv, LockProductStock
<1>4. Sound(r)'
  BY <1>1, <1>2, <1>3, Known, SameShelf
  DEF LockProductStock, At, Sound, InPlace, Holds, RefillKnows, WithStock, WithProduct, tables
<1> QED
  BY <1>1, <1>2, <1>3, <1>4, Known, PrivateStep DEF LockProductStock, IndInv, TypeOK, tables

LEMMA InsertKeysInv == ASSUME IndInv, NEW r \in Restocks, InsertKeys(r) PROVE IndInv'
<1>1. r \in Transactions /\ r \notin Order /\ r \notin Seeds
  BY NobodyElse DEF Transactions
<1>2. PICK codes \in SUBSET Key :
        LET available == stock.available + Cardinality(Missing(codes))
        IN Becomes(r, [tx[r] EXCEPT !.pc = "commit", !.new = Missing(codes),
                                    !.stock = [@ EXCEPT !.available = available],
                                    !.inStock = (available > 0)])
  BY DEF InsertKeys
<1> DEFINE available == Shown + Cardinality(Missing(codes))
           new == [tx[r] EXCEPT !.pc = "commit", !.new = Missing(codes),
                                !.stock = Tally(available, 0, Sold), !.inStock = (available > 0)]
<1>3. /\ Missing(codes) \in SUBSET Key /\ Missing(codes) \subseteq Missing(Key)
      /\ Cardinality(Missing(codes)) \in Nat
  BY FiniteKeys DEF Missing
<1>4. tx[r].stock = Tally(Shown, 0, Sold) /\ stock.available = Shown
  <2>1. tx[r].stock = Tally(Shown, 0, Sold)
    BY <1>1, Known DEF InsertKeys, At, Sound, RefillKnows
  <2>2. stock = Tally(Shown, 0, Sold)
    BY <1>1, Known
  <2> QED
    BY <2>1, <2>2 DEF Tally
<1>5. [tx[r].stock EXCEPT !.available = available] = Tally(available, 0, Sold)
  BY <1>4 DEF Tally
<1>6. available \in Nat /\ Tally(available, 0, Sold) \in Counters /\ (available > 0) \in BOOLEAN
      /\ Tally(available, 0, Sold).available = available
  BY <1>1, <1>3, Known DEF Tally, Counters
<1>7. new \in Tx
  BY <1>1, <1>3, <1>6, Known DEF Tx, Place
<1>8. new.pc = "commit" /\ new.key = tx[r].key /\ new.new = Missing(codes)
      /\ new.stock = Tally(available, 0, Sold) /\ new.inStock = (new.stock.available > 0)
  BY <1>1, <1>6, Known DEF Tx
<1>9. Becomes(r, new) /\ tx'[r] = new
  BY <1>1, <1>2, <1>4, <1>5, <1>7, Became DEF IndInv
<1>10. Sound(r)'
  BY <1>1, <1>3, <1>8, <1>9, Known, SameShelf
  DEF InsertKeys, At, Sound, InPlace, Holds, RefillKnows, WithStock, WithProduct, tables, locks
<1> QED
  BY <1>1, <1>7, <1>8, <1>9, <1>10, PrivateStep DEF InsertKeys, IndInv, TypeOK, tables, locks

LEMMA UpsertProductInv == ASSUME IndInv, NEW s \in Seeds, UpsertProduct(s) PROVE IndInv'
<1> DEFINE new == [tx[s] EXCEPT !.pc = "count", !.new = Missing(SeedKeys)]
<1>1. s \in Transactions /\ s \notin Order /\ s \notin Restocks
  BY NobodyElse DEF Transactions
<1>2. Missing(SeedKeys) \in SUBSET Key /\ Missing(SeedKeys) \subseteq Missing(Key)
  BY InventoryAssumption DEF Missing
<1>3. new \in Tx /\ new.pc = "count" /\ new.key = tx[s].key /\ new.new = Missing(SeedKeys)
  BY <1>1, <1>2, Known DEF Tx, Place
<1>4. Becomes(s, new) /\ tx'[s] = new
  BY <1>1, <1>3, Became DEF IndInv, UpsertProduct
<1>5. Sound(s)'
  BY <1>1, <1>2, <1>3, <1>4, Known, SameShelf
  DEF UpsertProduct, At, Sound, InPlace, Holds, RefillKnows, WithStock, WithProduct, tables
<1> QED
  BY <1>1, <1>3, <1>4, <1>5, Known, PrivateStep DEF UpsertProduct, IndInv, TypeOK, tables

LEMMA CountShelfInv == ASSUME IndInv, NEW s \in Seeds, CountShelf(s) PROVE IndInv'
<1> DEFINE counted == [tx[s].stock EXCEPT !.available = Cardinality(OnShelf) + Cardinality(tx[s].new)]
           new == [tx[s] EXCEPT !.pc = "setStock", !.stock = counted]
<1>1. s \in Transactions /\ s \notin Order /\ s \notin Restocks
  BY NobodyElse DEF Transactions
<1>2. tx[s].new \in SUBSET Key /\ Cardinality(tx[s].new) \in Nat
  BY <1>1, Known, FiniteKeys DEF Tx
<1>3. counted \in Counters /\ counted.available = Shown + Cardinality(tx[s].new)
  BY <1>1, <1>2, Known DEF Tx, Counters, Shown
<1>4. new \in Tx /\ new.pc = "setStock" /\ new.key = tx[s].key /\ new.new = tx[s].new /\ new.stock = counted
  BY <1>1, <1>3, Known DEF Tx, Place
<1>5. Becomes(s, new) /\ tx'[s] = new
  BY <1>1, <1>4, Became DEF IndInv, CountShelf
<1>6. Sound(s)'
  <2>1. RefillKnows(s) /\ Holds(s) /\ tx[s].pc = "count"
    BY <1>1, Known DEF CountShelf, At, Sound
  <2>2. RefillKnows(s)'
    BY <1>3, <1>4, <1>5, <2>1, SameShelf DEF CountShelf, RefillKnows, tables
  <2>3. InPlace(s)' /\ Holds(s)'
    BY <1>1, <1>4, <1>5, <2>1 DEF CountShelf, InPlace, Holds, WithStock, WithProduct, locks
  <2> QED
    BY <1>1, <2>2, <2>3 DEF Sound
<1> QED
  BY <1>1, <1>4, <1>5, <1>6, PrivateStep DEF CountShelf, IndInv, TypeOK, tables, locks

LEMMA SetStockInv == ASSUME IndInv, NEW s \in Seeds, SetStock(s) PROVE IndInv'
<1> DEFINE available == tx[s].stock.available
           counted == [stock EXCEPT !.available = available]
           new == [tx[s] EXCEPT !.pc = "commit", !.stock = counted, !.inStock = (available > 0)]
<1>1. s \in Transactions /\ s \notin Order /\ s \notin Restocks
  BY NobodyElse DEF Transactions
<1>2. available = Shown + Cardinality(tx[s].new) /\ available \in Nat
  BY <1>1, Known DEF SetStock, At, Sound, RefillKnows, Tx, Counters
<1>3. counted = Tally(available, 0, Sold) /\ counted.available = available
  BY <1>1, Known DEF Tally
<1>4. counted \in Counters /\ (available > 0) \in BOOLEAN
  BY <1>1, <1>2, <1>3, Known DEF Tally, Counters
<1>5. new \in Tx
  BY <1>1, <1>4, Known DEF Tx, Place
<1>6. new.pc = "commit" /\ new.key = tx[s].key /\ new.new = tx[s].new /\ new.stock = counted
      /\ new.inStock = (new.stock.available > 0)
  BY <1>1, <1>3, Known DEF Tx
<1>7. Becomes(s, new) /\ tx'[s] = new
  BY <1>1, <1>5, Became DEF IndInv, SetStock
<1>8. Sound(s)'
  BY <1>1, <1>2, <1>3, <1>6, <1>7, Known, SameShelf
  DEF SetStock, At, Sound, InPlace, Holds, RefillKnows, WithStock, WithProduct, tables
<1> QED
  BY <1>1, <1>5, <1>6, <1>7, <1>8, Known, PrivateStep DEF SetStock, IndInv, TypeOK, tables

LEMMA RollBackInv ==
  ASSUME IndInv, NEW t \in Transactions, RollBack(t), faults' \in 0 .. MaxFaults
  PROVE  IndInv'
<1> DEFINE new == IF t \in Seeds THEN Ended ELSE Idle
<1>1. Idle \in Tx /\ Idle.pc = "idle" /\ Idle.key = NoKey
  BY DEF Tx, Idle, NoKey, Place, Counters, Tally
<1>2. Ended \in Tx /\ Ended.pc = "done" /\ Ended.key = NoKey
  BY <1>1 DEF Ended, Tx, Place
<1>3. Becomes(t, new) /\ tx'[t] = new
  BY <1>1, <1>2, Became DEF IndInv, RollBack
<1>4. Sound(t)'
  BY <1>1, <1>2, <1>3, NobodyElse
  DEF Sound, InPlace, Holds, OrderKnows, RefillKnows, WithStock, WithProduct
<1> QED
  BY <1>1, <1>2, <1>3, <1>4, PrivateStep DEF RollBack, Release, IndInv, TypeOK, tables

-----------------------------------------------------------------------------
(* The sweeper, and the commits.                                           *)

LEMMA RetryOutOfStockInv == ASSUME IndInv, NEW o \in Order, RetryOutOfStock(o) PROVE IndInv'
<1>1. o \in Transactions /\ Sound(o) /\ tx[o].pc = "idle"
  BY Known DEF RetryOutOfStock, Sound, OrderKnows, Transactions
<1>2. /\ generation[o] + 1 \in 0 .. MaxGenerations
      /\ status \in [Order -> {"paid", "delivering", "delivered", "out_of_stock"}]
  <2>1. MaxGenerations \in Nat
    BY InventoryAssumption
  <2>2. generation[o] \in 0 .. MaxGenerations /\ generation[o] < MaxGenerations
    BY DEF RetryOutOfStock, IndInv, TypeOK
  <2> QED
    BY <2>1, <2>2 DEF IndInv, TypeOK
<1>3. TypeOK'
  BY <1>2 DEF RetryOutOfStock, IndInv, TypeOK, locks
<1>4. \A u \in Transactions : Sound(u)'
  BY <1>1, <1>2, OthersUntouched DEF RetryOutOfStock, IndInv, TypeOK, locks
<1>5. Books'
  BY SameShelf DEF RetryOutOfStock, IndInv, Books
<1>6. \A p \in Order : status'[p] = "delivered" <=> status[p] = "delivered"
  BY <1>2 DEF RetryOutOfStock
<1>7. KeysAccountedFor'
  BY <1>6, SameShelf DEF RetryOutOfStock, IndInv, KeysAccountedFor, InHand
<1> QED
  BY <1>3, <1>4, <1>5, <1>7 DEF IndInv

\* While somebody commits, the others have neither row: they know nothing of the
\* counts, and the key they have in hand stays where it is.
LEMMA Bystander ==
  ASSUME IndInv, NEW t \in Transactions, tx[t].pc = "commit",
         NEW u \in Transactions, u # t, tx'[u] = tx[u],
         u \in Order => /\ status'[u] = status[u]
                        /\ tx[u].key # NoKey => tx[u].key \in OnShelf'
  PROVE  Sound(u)'
<1>1. Sound(u) /\ Sound(t)
  BY Known
<1>2. tx[u].pc \notin WithStock \cup WithProduct
  BY <1>1 DEF Sound, Holds, WithStock, WithProduct
<1>3. InPlace(u)' /\ Holds(u)'
  BY <1>1, <1>2 DEF Sound, InPlace, Holds
<1>4. CASE u \in Order
  BY <1>1, <1>2, <1>3, <1>4 DEF Sound, InPlace, OrderKnows, WithStock, WithProduct
<1>5. CASE u \notin Order
  BY <1>1, <1>2, <1>3, <1>5 DEF Sound, InPlace, RefillKnows, WithStock, WithProduct, Transactions
<1> QED
  BY <1>4, <1>5

\* Who has ended holds nothing and knows nothing.
LEMMA Gone ==
  ASSUME NEW t \in Transactions, tx'[t] \in {Idle, Ended}, t \in Order => tx'[t] = Idle,
         t \in Restocks \cup Seeds => tx'[t] = Ended
  PROVE  Sound(t)'
<1>1. Idle.pc = "idle" /\ Idle.key = NoKey /\ Ended.pc = "done" /\ Ended.key = NoKey
  BY DEF Idle, Ended
<1> QED
  BY <1>1, NobodyElse DEF Sound, InPlace, Holds, OrderKnows, RefillKnows, WithStock, WithProduct

LEMMA CommitKeysInv == ASSUME IndInv, NEW t \in Restocks \cup Seeds, CommitKeys(t) PROVE IndInv'
<1> DEFINE new == tx[t].new
<1>1. t \in Transactions /\ t \notin Order /\ tx[t].pc = "commit"
  BY NobodyElse DEF CommitKeys, At, Transactions
<1>2. /\ new \in SUBSET Key /\ new \subseteq Missing(Key)
      /\ tx[t].stock = Tally(Shown + Cardinality(new), 0, Sold)
      /\ tx[t].inStock = (tx[t].stock.available > 0)
  BY <1>1, Known DEF Sound, RefillKnows, Tx
<1>3. /\ keys' = [k \in Key |-> IF k \in new THEN "available" ELSE keys[k]]
      /\ stock' = tx[t].stock /\ inStock' = tx[t].inStock
      /\ UNCHANGED <<status, generation, faults>>
  BY DEF CommitKeys
<1>4. /\ Idle \in Tx /\ Ended \in Tx
  BY DEF Tx, Idle, Ended, NoKey, Place, Counters, Tally
<1>5. /\ tx' \in [Transactions -> Tx]
      /\ tx'[t] = Ended
      /\ \A u \in Transactions : u # t => tx'[u] = tx[u]
  BY <1>1, <1>4, Became DEF CommitKeys, IndInv
<1>6. TypeOK'
  BY <1>1, <1>3, <1>5, Known DEF CommitKeys, IndInv, TypeOK, Release, Tx
<1>7. OnShelf' = OnShelf \cup new /\ Issued' = Issued /\ OnShelf \cap new = {}
  BY <1>2, <1>3, InventoryAssumption DEF IndInv, TypeOK, OnShelf, Issued, Missing
<1>8. Shown' = Shown + Cardinality(new) /\ Sold' = Sold
  <2>1. IsFiniteSet(OnShelf) /\ IsFiniteSet(new) /\ Cardinality(OnShelf) \in Nat /\ Cardinality(new) \in Nat
    BY <1>2, FiniteKeys DEF OnShelf
  <2>3. Cardinality(OnShelf \cup new) = Cardinality(OnShelf) + Cardinality(new) - Cardinality({})
    BY <1>7, <2>1, FS_Union
  <2>2. Cardinality(OnShelf \cup new) = Cardinality(OnShelf) + Cardinality(new)
    BY <2>1, <2>3, FS_EmptySet
  <2> QED
    BY <1>7, <2>2 DEF Shown, Sold
<1>9. Books'
  <2>1. stock' = Tally(Shown', 0, Sold') /\ stock'.available = Shown'
    BY <1>2, <1>3, <1>8 DEF Tally
  <2>2. Shown' > 0 <=> OnShelf' # {}
    <3>1. IsFiniteSet(OnShelf') /\ Shown' = Cardinality(OnShelf') /\ Cardinality(OnShelf') \in Nat
      BY <1>2, <1>7, FiniteKeys DEF OnShelf, Shown
    <3> QED
      BY <3>1, FS_EmptySet
  <2>3. inStock' = (Shown' > 0)
    BY <1>2, <1>3, <2>1
  <2> QED
    BY <2>1, <2>2, <2>3 DEF Books
<1>10. Sound(t)'
  BY <1>1, <1>5, Gone
<1>11. ASSUME NEW u \in Transactions, u # t PROVE Sound(u)'
  <2>1. u \in Order /\ tx[u].key # NoKey => tx[u].key \in OnShelf
    BY Known DEF Sound, OrderKnows
  <2> QED
    BY <1>1, <1>3, <1>5, <1>7, <1>11, <2>1, Bystander
<1>12. \A o \in Order : tx'[o] = tx[o]
  BY <1>1, <1>5 DEF Transactions
<1>13. \A o \in Order : {k \in Key : keys'[k] = o} = {k \in Key : keys[k] = o}
  BY <1>2, <1>3, InventoryAssumption DEF Missing
<1>14. InHand' = InHand
  BY <1>12 DEF InHand
<1>15. KeysAccountedFor'
  <2>1. \A o \in Order : Cardinality({k \in Key : keys'[k] = o}) = IF status'[o] = "delivered" THEN 1 ELSE 0
    BY <1>3, <1>13 DEF IndInv, KeysAccountedFor
  <2>2. stock'.reserved = 0 /\ stock'.issued = Cardinality(Issued')
    BY <1>9 DEF Books, Tally, Sold
  <2>3. InHand' \subseteq OnShelf' /\ Issued' \cap TakenCodes = {}
    BY <1>7, <1>14 DEF IndInv, KeysAccountedFor
  <2>4. \A o, p \in Order : tx'[o].key = tx'[p].key /\ tx'[o].key # NoKey => o = p
    BY <1>12 DEF IndInv, KeysAccountedFor
  <2> QED
    BY <2>1, <2>2, <2>3, <2>4 DEF KeysAccountedFor
<1> QED
  BY <1>6, <1>9, <1>10, <1>11, <1>15 DEF IndInv

\* A delivery: one key leaves the shelf, and the order has it and no other.
LEMMA CommitDeliveryInv == ASSUME IndInv, NEW o \in Order, Commit(o), tx[o].key # NoKey PROVE IndInv'
<1> DEFINE key == tx[o].key
<1>1. o \in Transactions /\ o \notin Restocks \cup Seeds /\ tx[o].pc = "commit" /\ Sound(o)
  BY NobodyElse, Known DEF Commit, At, Transactions
<1>2. /\ key \in OnShelf /\ key \in Key /\ keys[key] = "available"
      /\ tx[o].stock = Tally(Shown - 1, 0, Sold + 1) /\ key \notin TakenCodes
      /\ tx[o].inStock = (tx[o].stock.available > 0)
      /\ status[o] \in {"paid", "delivering"}
  BY <1>1 DEF Sound, OrderKnows, OnShelf
<1>3. /\ keys' = [keys EXCEPT ![key] = o]
      /\ status' = [status EXCEPT ![o] = "delivered"]
      /\ stock' = tx[o].stock /\ inStock' = tx[o].inStock
      /\ UNCHANGED <<generation, faults>>
  BY DEF Commit
<1>4. Idle \in Tx /\ Idle.key = NoKey
  BY DEF Tx, Idle, NoKey, Place, Counters, Tally
<1>5. /\ tx' \in [Transactions -> Tx]
      /\ tx'[o] = Idle
      /\ \A u \in Transactions : u # o => tx'[u] = tx[u]
  BY <1>1, <1>4, Became DEF Commit, IndInv
<1>6. TypeOK'
  BY <1>1, <1>3, <1>5, Known DEF Commit, IndInv, TypeOK, Release, Tx
<1>7. OnShelf' = OnShelf \ {key} /\ Issued' = Issued \cup {key} /\ key \notin Issued
  <2>1. o # "available" /\ "available" \notin Order
    BY InventoryAssumption
  <2>2. \A k \in Key : keys'[k] = IF k = key THEN o ELSE keys[k]
    BY <1>3 DEF IndInv, TypeOK
  <2>3. OnShelf' = OnShelf \ {key}
    BY <1>2, <2>1, <2>2 DEF OnShelf
  <2> QED
    BY <1>2, <2>1, <2>2, <2>3 DEF Issued
<1>8. Shown' = Shown - 1 /\ Sold' = Sold + 1
  <2>1. IsFiniteSet(OnShelf) /\ IsFiniteSet(Issued)
    BY FiniteKeys DEF OnShelf, Issued
  <2> QED
    BY <1>2, <1>7, <2>1, FS_AddElement, FS_RemoveElement DEF Shown, Sold
<1>9. Books'
  <2>1. stock' = Tally(Shown', 0, Sold') /\ stock'.available = Shown'
    BY <1>2, <1>3, <1>8 DEF Tally
  <2>2. Shown' > 0 <=> OnShelf' # {}
    <3>1. IsFiniteSet(OnShelf') /\ Shown' = Cardinality(OnShelf') /\ Cardinality(OnShelf') \in Nat
      BY <1>7, FiniteKeys DEF OnShelf, Shown
    <3> QED
      BY <3>1, FS_EmptySet
  <2>3. inStock' = (Shown' > 0)
    BY <1>2, <1>3, <2>1
  <2> QED
    BY <2>1, <2>2, <2>3 DEF Books
<1>10. Sound(o)'
  BY <1>1, <1>5, Gone
<1>11. \A p \in Order : p # o /\ tx[p].key # NoKey => tx[p].key \in OnShelf'
  BY <1>1, <1>7 DEF IndInv, KeysAccountedFor, InHand
<1>12. ASSUME NEW u \in Transactions, u # o PROVE Sound(u)'
  BY <1>1, <1>3, <1>5, <1>11, <1>12, Bystander
<1>13. \A p \in Order : p # o => tx'[p] = tx[p] /\ status'[p] = status[p]
  BY <1>3, <1>5 DEF Transactions
<1>14. KeysAccountedFor'
  <2>1. Cardinality({k \in Key : keys'[k] = o}) = 1
    <3>1. Cardinality({k \in Key : keys[k] = o}) = 0
      BY <1>2 DEF IndInv, KeysAccountedFor
    <3>2. {k \in Key : keys[k] = o} = {}
      BY <3>1, FiniteKeys, FS_EmptySet
    <3>3. {k \in Key : keys'[k] = o} = {key}
      BY <1>2, <1>3, <3>2 DEF IndInv, TypeOK
    <3> QED
      BY <3>3, FS_Singleton
  <2>2. status'[o] = "delivered"
    BY <1>3 DEF IndInv, TypeOK
  <2>3. ASSUME NEW p \in Order, p # o
        PROVE  Cardinality({k \in Key : keys'[k] = p}) = IF status'[p] = "delivered" THEN 1 ELSE 0
    <3>1. {k \in Key : keys'[k] = p} = {k \in Key : keys[k] = p}
      BY <1>2, <1>3, <2>3, InventoryAssumption DEF IndInv, TypeOK
    <3> QED
      BY <1>13, <2>3, <3>1 DEF IndInv, KeysAccountedFor
  <2>4. stock'.reserved = 0 /\ stock'.issued = Cardinality(Issued')
    BY <1>9 DEF Books, Tally, Sold
  <2>5. Issued' \cap TakenCodes = {}
    BY <1>2, <1>7 DEF IndInv, KeysAccountedFor
  <2>6. InHand' \subseteq OnShelf'
    BY <1>4, <1>5, <1>11, <1>13 DEF InHand
  <2>7. \A p, q \in Order : tx'[p].key = tx'[q].key /\ tx'[p].key # NoKey => p = q
    BY <1>4, <1>5, <1>13 DEF IndInv, KeysAccountedFor
  <2> QED
    BY <2>1, <2>2, <2>3, <2>4, <2>5, <2>6, <2>7 DEF KeysAccountedFor
<1> QED
  BY <1>6, <1>9, <1>10, <1>12, <1>14 DEF IndInv

\* A refusal: only the order's status changes, for the recount finds what was there.
LEMMA CommitRefusalInv == ASSUME IndInv, NEW o \in Order, Commit(o), tx[o].key = NoKey PROVE IndInv'
<1>1. o \in Transactions /\ o \notin Restocks \cup Seeds /\ tx[o].pc = "commit" /\ Sound(o)
  BY NobodyElse, Known DEF Commit, At, Transactions
<1>2. /\ tx[o].stock = Tally(Shown, 0, Sold)
      /\ tx[o].inStock = (tx[o].stock.available > 0)
      /\ status[o] \in {"paid", "delivering"}
  BY <1>1 DEF Sound, OrderKnows
<1>3. /\ status' = [status EXCEPT ![o] = "out_of_stock"]
      /\ stock' = tx[o].stock /\ inStock' = tx[o].inStock
      /\ UNCHANGED <<keys, generation, faults>>
  BY DEF Commit
<1>4. Idle \in Tx /\ Idle.key = NoKey
  BY DEF Tx, Idle, NoKey, Place, Counters, Tally
<1>5. /\ tx' \in [Transactions -> Tx]
      /\ tx'[o] = Idle
      /\ \A u \in Transactions : u # o => tx'[u] = tx[u]
  BY <1>1, <1>4, Became DEF Commit, IndInv
<1>6. TypeOK'
  BY <1>1, <1>3, <1>5, Known DEF Commit, IndInv, TypeOK, Release, Tx
<1>7. stock' = stock /\ inStock' = inStock
  <2>1. stock = Tally(Shown, 0, Sold) /\ inStock = (OnShelf # {})
    BY DEF IndInv, Books
  <2>2. Tally(Shown, 0, Sold).available = Shown
    BY DEF Tally
  <2> QED
    BY <1>2, <1>3, <2>1, <2>2, ShelfCount
<1>8. Books'
  BY <1>3, <1>7, SameShelf DEF IndInv, Books
<1>9. Sound(o)'
  BY <1>1, <1>5, Gone
<1>10. \A p \in Order : tx[p].key # NoKey => tx[p].key \in OnShelf'
  BY <1>3, SameShelf DEF IndInv, KeysAccountedFor, InHand
<1>11. ASSUME NEW u \in Transactions, u # o PROVE Sound(u)'
  BY <1>1, <1>3, <1>5, <1>10, <1>11, Bystander
<1>12. \A p \in Order : p # o => tx'[p] = tx[p]
  BY <1>5 DEF Transactions
<1>13. \A p \in Order : status'[p] = "delivered" <=> status[p] = "delivered"
  BY <1>2, <1>3 DEF IndInv, TypeOK
<1>14. InHand' \subseteq InHand
  BY <1>4, <1>5, <1>12 DEF InHand
<1>15. KeysAccountedFor'
  BY <1>3, <1>4, <1>5, <1>7, <1>12, <1>13, <1>14, SameShelf DEF IndInv, KeysAccountedFor
<1> QED
  BY <1>6, <1>8, <1>9, <1>11, <1>15 DEF IndInv

LEMMA StepInv == ASSUME IndInv, [Next]_vars PROVE IndInv'
<1>1. ASSUME NEW o \in Order, TxP(o) PROVE IndInv'
  <2>1. CASE CodeTaken(o)
    BY <2>1, RollBackInv DEF CodeTaken, IndInv, TypeOK, Transactions
  <2>2. CASE Commit(o)
    BY <2>2, CommitDeliveryInv, CommitRefusalInv
  <2> QED
    BY <1>1, <2>1, <2>2, ReserveKeyInv, ReserveNothingInv, DecrementInv, IssueInv, LockStockInv,
       RecountInv, SyncInv
    DEF TxP
<1>2. ASSUME NEW r \in Restocks, LockProduct(r) \/ ContinueRestock(r) PROVE IndInv'
  BY <1>2, LockProductInv, LockProductStockInv, InsertKeysInv, CommitKeysInv DEF ContinueRestock
<1>3. ASSUME NEW s \in Seeds, UpsertProduct(s) \/ ContinueSeed(s) PROVE IndInv'
  BY <1>3, UpsertProductInv, CountShelfInv, SetStockInv, CommitKeysInv DEF ContinueSeed
<1>4. ASSUME NEW t \in Transactions, Abort(t) \/ BreakDeadlock(t) PROVE IndInv'
  <2>1. faults' \in 0 .. MaxFaults
    <3>1. MaxFaults \in Nat /\ faults \in 0 .. MaxFaults
      BY InventoryAssumption DEF IndInv, TypeOK
    <3> QED
      BY <1>4, <3>1 DEF Abort, BreakDeadlock
  <2> QED
    BY <1>4, <2>1, RollBackInv DEF Abort, BreakDeadlock
<1>5. CASE UNCHANGED vars
  <2>1. TypeOK'
    BY <1>5 DEF vars, tables, locks, IndInv, TypeOK
  <2>2. Books' /\ KeysAccountedFor'
    BY <1>5, SameShelf DEF vars, tables, IndInv, Books, KeysAccountedFor, InHand
  <2>3. \A u \in Transactions : Sound(u)'
    BY <1>5, OthersUntouched DEF vars, tables, locks, IndInv
  <2> QED
    BY <2>1, <2>2, <2>3 DEF IndInv
<1> QED
  BY <1>1, <1>2, <1>3, <1>4, <1>5, RetryOutOfStockInv DEF Next

LEMMA Invariance == Spec => []IndInv
<1>1. Init => IndInv
  BY InitInv
<1>2. IndInv /\ [Next]_vars => IndInv'
  BY StepInv
<1> QED
  BY <1>1, <1>2, PTL DEF Spec

-----------------------------------------------------------------------------
(* The theorems.                                                           *)

\* The columns and what a transaction keeps in hand have their types; no counter
\* is ever negative and no generation above the cap.
THEOREM TypeCorrect == Spec => []TypeOK
<1>1. IndInv => TypeOK
  BY DEF IndInv
<1> QED
  BY <1>1, Invariance, PTL

\* SKIP LOCKED and the row locks give a key to one order and an order one key, and
\* no code goes out twice, whatever is rolled back.
THEOREM OneKeyEach == Spec => []KeysAccountedFor
<1>1. IndInv => KeysAccountedFor
  BY DEF IndInv
<1> QED
  BY <1>1, Invariance, PTL

\* The shelf counts as the inventory does.
LEMMA SameCount == \A S : Shelf!Cardinality(S) = Cardinality(S)
  BY DEF Shelf!Cardinality, Cardinality

LEMMA SimulateInit == ASSUME Init PROVE Shelf!Init
<1>1. Books /\ keys \in [Key -> {"absent", "available"}]
  BY InitInv DEF IndInv, Init
<1>2. stock.available = Shown /\ inStock = (OnShelf # {})
  BY <1>1 DEF Books, Tally
<1>3. Shelf!OnShelf(keys) = OnShelf
  BY DEF Shelf!OnShelf, OnShelf
<1> QED
  BY <1>1, <1>2, <1>3, SameCount DEF Init, Shelf!Init, Shelf!Mirror, Shown

LEMMA SimulateStep ==
  ASSUME IndInv, IndInv', [Next]_vars
  PROVE  [Shelf!Next]_(Shelf!shelfVars)
<1>1. Shelf!Mirror(keys', stock'.available, inStock')
  <2>1. stock' = Tally(Shown', 0, Sold') /\ inStock' = (OnShelf' # {})
    BY DEF IndInv, Books
  <2>2. stock'.available = Cardinality(OnShelf')
    BY <2>1 DEF Tally, Shown
  <2>3. Shelf!OnShelf(keys') = OnShelf'
    BY DEF Shelf!OnShelf, OnShelf
  <2> QED
    BY <2>1, <2>2, <2>3, SameCount DEF Shelf!Mirror
<1>2. ASSUME NEW o \in Order, Commit(o), tx[o].key # NoKey
      PROVE  Shelf!Deliver(o, tx[o].key) /\ tx[o].key \in Key
  <2>1. o \in Transactions /\ Sound(o)
    BY Known DEF Transactions
  <2>2. tx[o].key \in OnShelf /\ status[o] \in {"paid", "delivering"}
    BY <1>2, <2>1 DEF Sound, OrderKnows, Commit, At
  <2> QED
    BY <1>1, <1>2, <2>2 DEF Commit, Shelf!Deliver, Shelf!Waiting, OnShelf
<1>3. ASSUME NEW o \in Order, Commit(o), tx[o].key = NoKey PROVE Shelf!Refuse(o)
  <2>1. o \in Transactions /\ Sound(o) /\ tx[o].pc = "commit"
    BY <1>3, Known DEF Transactions, Commit, At
  <2>2. status[o] \in {"paid", "delivering"} /\ UNCHANGED keys
    BY <1>3, <2>1 DEF Sound, OrderKnows, Commit
  <2>3. UNCHANGED <<stock, inStock>>
    BY <2>2, SameShelf DEF IndInv, Books
  <2> QED
    BY <1>3, <2>2, <2>3 DEF Commit, Shelf!Refuse, Shelf!Waiting
<1>4. ASSUME NEW o \in Order, RetryOutOfStock(o) PROVE Shelf!Retry(o)
  <2>1. OnShelf # {}
    BY <1>4, ShelfCount DEF RetryOutOfStock, IndInv, Books, Tally
  <2> QED
    BY <1>4, <2>1 DEF RetryOutOfStock, Shelf!Retry, Shelf!OnShelf, OnShelf
<1>5. ASSUME NEW t \in Restocks \cup Seeds, CommitKeys(t)
      PROVE  Shelf!Restock(tx[t].new) /\ tx[t].new \in SUBSET Key
  <2>1. t \in Transactions /\ t \notin Order /\ Sound(t) /\ tx[t].pc = "commit"
    BY <1>5, NobodyElse, Known DEF Transactions, CommitKeys, At
  <2>2. tx[t].new \subseteq Missing(Key)
    BY <2>1 DEF Sound, RefillKnows
  <2> QED
    BY <1>1, <1>5, <2>2 DEF CommitKeys, Shelf!Restock, Missing
<1>6. CASE UNCHANGED tables
  BY <1>6 DEF tables, Shelf!shelfVars
<1> QED
  BY <1>2, <1>3, <1>4, <1>5, <1>6
  DEF Next, TxP, ContinueRestock, ContinueSeed, vars, Shelf!Next,
      ReserveKey, ReserveNothing, Decrement, Issue, LockStock, Recount, Sync, CodeTaken,
      LockProduct, LockProductStock, InsertKeys, UpsertProduct, CountShelf, SetStock,
      Abort, BreakDeadlock, RollBack

\* Statement by statement, with whatever interleaving, rollbacks and deadlocks, the
\* transactions are those of a shelf on which one happens at a time, and the
\* counter and the flag follow the keys.
THEOREM InventoryImplementsShelf == Spec => ImplementsShelf
  BY InitInv, Invariance, SimulateInit, SimulateStep, PTL DEF Spec, ImplementsShelf, Shelf!Spec
=============================================================================
