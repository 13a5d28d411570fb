-------------------------------- MODULE Ledger --------------------------------
(***************************************************************************)
(* Double entry as apps/api/src/ledger keeps it: the posting rules, the     *)
(* legs of a transaction, what assertPostableLegs demands of them, and the  *)
(* keys that make a posting idempotent.  There is one currency.  A debit    *)
(* counts up and a credit down, as in ledger_entries.signed_minor.          *)
(***************************************************************************)
EXTENDS Integers, SequencesExt

\* Faulty variant: the revenue of a delivery is booked against cash.
PostingRuleAgainstCash ==
  [payment_captured    |-> [debit |-> "cash", credit |-> "customer_prepayment"],
   delivery_recognized |-> [debit |-> "cash", credit |-> "revenue"],
   payment_refunded    |-> [debit |-> "customer_prepayment", credit |-> "cash"]]

PostingRule ==
  [payment_captured    |-> [debit |-> "cash", credit |-> "customer_prepayment"],
   delivery_recognized |-> [debit |-> "customer_prepayment", credit |-> "revenue"],
   payment_refunded    |-> [debit |-> "customer_prepayment", credit |-> "cash"]]

BuildBalancedLegs(kind, amount) ==
  <<[account |-> PostingRule[kind].debit,  direction |-> "debit",  amount |-> amount],
    [account |-> PostingRule[kind].credit, direction |-> "credit", amount |-> amount]>>

Signed(leg) == IF leg.direction = "debit" THEN leg.amount ELSE -leg.amount
SumOfLegs(legs) == FoldLeft(LAMBDA sum, leg : sum + Signed(leg), 0, legs)

\* What lets a transaction with these legs go on; otherwise it is rolled back.
AssertPostableLegs(legs) ==
  /\ Len(legs) >= 2
  /\ \A k \in DOMAIN legs : legs[k].amount > 0
  /\ SumOfLegs(legs) = 0

\* The idempotency keys, which the table keeps unique: a payment is captured once
\* per event, a delivery recognised once per generation.
BuildPaymentCapturedKey(event) == <<"payment_captured", event>>
BuildDeliveryRecognizedKey(order, generation) == <<"delivery_recognized", order, generation>>

\* A ledger_txns row with its entries.
Posting(key, order, legs) == [key |-> key, order |-> order, legs |-> legs]

\* What the entries of an order come to in an account: SUM(signed_minor) over
\* its transactions, FILTER (WHERE account = ...).
SignedIn(leg, account) == IF leg.account = account THEN Signed(leg) ELSE 0
Moved(txn, account) == FoldLeft(LAMBDA sum, leg : sum + SignedIn(leg, account), 0, txn.legs)
Balance(txns, order, account) ==
  MapThenSumSet(LAMBDA txn : Moved(txn, account), {t \in txns : t.order = order})
=============================================================================
