---------------------------- MODULE OrderLifecycle ----------------------------
(***************************************************************************)
(* What the store promises about one order, with no webhooks, jobs,        *)
(* generations or retries in sight: an order is placed; its price is       *)
(* captured once, by one payment event; the goods are handed over once,    *)
(* only after the capture; the revenue is recognised in the same step; and *)
(* nothing is ever taken back.  The modules that follow the code are shown *)
(* to implement this one.                                                  *)
(***************************************************************************)
CONSTANTS
  OrderId,
  EventId,     \* payment events, one of which pays an order
  Tag          \* what tells one revenue posting of an order from another

VARIABLES
  stage,       \* per order: "none", "open" (unpaid), "owed" (paid), "done"
  payments,    \* per order: the events whose amount was captured
  handed,      \* the orders whose goods were handed over
  revenue      \* per order: the recognition postings

lifecycleVars == <<stage, payments, handed, revenue>>

Init ==
  /\ stage = [o \in OrderId |-> "none"]
  /\ payments = [o \in OrderId |-> {}]
  /\ handed = {}
  /\ revenue = [o \in OrderId |-> {}]

Place(o) ==
  /\ stage[o] = "none"
  /\ stage' = [stage EXCEPT ![o] = "open"]
  /\ UNCHANGED <<payments, handed, revenue>>

Capture(o, e) ==
  /\ stage[o] = "open"
  /\ stage' = [stage EXCEPT ![o] = "owed"]
  /\ payments' = [payments EXCEPT ![o] = {e}]
  /\ UNCHANGED <<handed, revenue>>

HandOver(o, t) ==
  /\ stage[o] = "owed"
  /\ stage' = [stage EXCEPT ![o] = "done"]
  /\ handed' = handed \cup {o}
  /\ revenue' = [revenue EXCEPT ![o] = {t}]
  /\ UNCHANGED payments

Next ==
  \E o \in OrderId :
    \/ Place(o)
    \/ \E e \in EventId : Capture(o, e)
    \/ \E t \in Tag : HandOver(o, t)

Spec == Init /\ [][Next]_lifecycleVars
=============================================================================
