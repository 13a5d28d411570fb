------------------------------ MODULE StoreBooks ------------------------------
(***************************************************************************)
(* The books of the store: StoreOrders with the ledger's entries in them.   *)
(* StoreOrders keeps the idempotency keys of the postings; the legs are     *)
(* written in the same transaction from the order's total, so the books are *)
(* a function of its state and of the totals.                               *)
(***************************************************************************)
EXTENDS StoreOrders, Ledger

CONSTANT Total   \* orders.total_minor, which the schema keeps above 0

ASSUME TotalAssumption == Total \in [OrderId -> Nat \ {0}]

CaptureOf(e) ==
  Posting(BuildPaymentCapturedKey(e), evBody[e].order,
          BuildBalancedLegs("payment_captured", Total[evBody[e].order]))

RecognitionOf(o, g) ==
  Posting(BuildDeliveryRecognizedKey(o, g), o,
          BuildBalancedLegs("delivery_recognized", Total[o]))

Books == {CaptureOf(e) : e \in captured} \cup {RecognitionOf(p[1], p[2]) : p \in recognised}

\* The reconciliation of spec/07 finds nothing: for every order, cash is its price
\* once it is paid for, revenue its price once it is delivered, and the prepayment
\* is what the customer is still owed.  It takes the posting rules, the keys and the
\* statuses together; and no posting is one assertPostableLegs would have refused.
BooksMatchOrders ==
  /\ \A txn \in Books : AssertPostableLegs(txn.legs)
  /\ \A o \in OrderId :
       LET paid == status[o] \in PaidStatus
           done == status[o] = "delivered"
       IN /\ Balance(Books, o, "cash") = IF paid THEN Total[o] ELSE 0
          /\ Balance(Books, o, "customer_prepayment") = IF paid /\ ~done THEN -Total[o] ELSE 0
          /\ Balance(Books, o, "revenue") = IF done THEN -Total[o] ELSE 0
=============================================================================
