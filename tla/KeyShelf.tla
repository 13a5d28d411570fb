------------------------------- MODULE KeyShelf -------------------------------
(***************************************************************************)
(* What the stock of one pool product promises: every transaction of the   *)
(* service happens at one instant.  A key goes from the shelf to one order; *)
(* an order is refused, or sent again while the shelf shows stock; a        *)
(* restock, or the seed run again, puts new keys on the shelf.  The counter *)
(* of sku_stock and the flag of products always say what stock_keys says.  *)
(***************************************************************************)
EXTENDS Integers, FiniteSets

CONSTANTS Order, Key, MaxGenerations

VARIABLES
  keys,        \* per key: "absent", "available", or the order it was issued to
  status,      \* per order
  generation,  \* per order: delivery_generation
  shown,       \* sku_stock.available_count
  onSale       \* products.in_stock

shelfVars == <<keys, status, generation, shown, onSale>>

OnShelf(ks) == {k \in Key : ks[k] = "available"}
Mirror(ks, count, flag) ==
  /\ count = Cardinality(OnShelf(ks))
  /\ flag = (OnShelf(ks) # {})

Init ==
  /\ keys \in [Key -> {"absent", "available"}]
  /\ status = [o \in Order |-> "paid"]
  /\ generation = [o \in Order |-> 0]
  /\ Mirror(keys, shown, onSale)

Waiting(o) == status[o] \in {"paid", "delivering"}

Deliver(o, k) ==
  /\ Waiting(o)
  /\ keys[k] = "available"
  /\ keys' = [keys EXCEPT ![k] = o]
  /\ status' = [status EXCEPT ![o] = "delivered"]
  /\ Mirror(keys', shown', onSale')
  /\ UNCHANGED generation

\* The shelf need not be empty: its keys may be on their way to other orders.
Refuse(o) ==
  /\ Waiting(o)
  /\ status' = [status EXCEPT ![o] = "out_of_stock"]
  /\ UNCHANGED <<keys, generation, shown, onSale>>

Retry(o) ==
  /\ status[o] = "out_of_stock"
  /\ OnShelf(keys) # {}
  /\ generation[o] < MaxGenerations
  /\ status' = [status EXCEPT ![o] = "delivering"]
  /\ generation' = [generation EXCEPT ![o] = @ + 1]
  /\ UNCHANGED <<keys, shown, onSale>>

Restock(new) ==
  /\ new \subseteq {k \in Key : keys[k] = "absent"}
  /\ keys' = [k \in Key |-> IF k \in new THEN "available" ELSE keys[k]]
  /\ Mirror(keys', shown', onSale')
  /\ UNCHANGED <<status, generation>>

Next ==
  \/ \E o \in Order : Refuse(o) \/ Retry(o) \/ \E k \in Key : Deliver(o, k)
  \/ \E new \in SUBSET Key : Restock(new)

Spec == Init /\ [][Next]_shelfVars
=============================================================================
