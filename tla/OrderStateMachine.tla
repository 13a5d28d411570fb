--------------------------- MODULE OrderStateMachine ---------------------------
(***************************************************************************)
(* The order state machine of apps/api/src/orders: the statuses of an      *)
(* order, the events the rest of the service raises against it, and the    *)
(* transition table every payment webhook, sweeper retry and admin         *)
(* redelivery consults.  The table is a pure value: this module has no     *)
(* state.                                                                  *)
(***************************************************************************)

OrderStatus == { "created", "paid", "delivering", "delivered",
                 "payment_failed", "out_of_stock", "delivery_failed" }

OrderEvent == { "PAYMENT_PAID", "PAYMENT_FAILED", "DELIVERY_STARTED",
                "DELIVERY_SUCCEEDED", "DELIVERY_OUT_OF_STOCK", "DELIVERY_FAILED",
                "RETRY_DELIVERY", "ADMIN_FORCE_PAID", "ADMIN_REDELIVER" }

\* The two result kinds that leave the order alone; "to" is then meaningless
\* and repeats no status.
Noop     == [kind |-> "noop",     to |-> "none"]
Conflict == [kind |-> "conflict", to |-> "none"]
ApplyTo(s) == [kind |-> "apply", to |-> s]

\* One row per status; an event with no cell in the row is illegal.
TransitionTable ==
  [ created |->
      [ PAYMENT_PAID   |-> ApplyTo("paid"),
        PAYMENT_FAILED |-> ApplyTo("payment_failed") ],
    paid |->
      [ PAYMENT_PAID          |-> Noop,
        PAYMENT_FAILED        |-> Conflict,
        DELIVERY_STARTED      |-> ApplyTo("delivering"),
        DELIVERY_OUT_OF_STOCK |-> ApplyTo("out_of_stock"),
        DELIVERY_FAILED       |-> ApplyTo("delivery_failed") ],
    delivering |->
      [ PAYMENT_PAID          |-> Noop,
        PAYMENT_FAILED        |-> Conflict,
        DELIVERY_STARTED      |-> Noop,
        DELIVERY_SUCCEEDED    |-> ApplyTo("delivered"),
        DELIVERY_OUT_OF_STOCK |-> ApplyTo("out_of_stock"),
        DELIVERY_FAILED       |-> ApplyTo("delivery_failed") ],
    delivered |->
      [ PAYMENT_PAID          |-> Noop,
        PAYMENT_FAILED        |-> Conflict,
        DELIVERY_STARTED      |-> Noop,
        DELIVERY_SUCCEEDED    |-> Noop,
        DELIVERY_OUT_OF_STOCK |-> Noop,
        DELIVERY_FAILED       |-> Noop ],
    payment_failed |->
      [ PAYMENT_PAID     |-> ApplyTo("paid"),
        PAYMENT_FAILED   |-> Noop,
        ADMIN_FORCE_PAID |-> ApplyTo("paid") ],
    out_of_stock |->
      [ PAYMENT_PAID          |-> Noop,
        PAYMENT_FAILED        |-> Conflict,
        DELIVERY_OUT_OF_STOCK |-> Noop,
        RETRY_DELIVERY        |-> ApplyTo("delivering"),
        ADMIN_REDELIVER       |-> ApplyTo("delivering") ],
    delivery_failed |->
      [ PAYMENT_PAID    |-> Noop,
        PAYMENT_FAILED  |-> Conflict,
        DELIVERY_FAILED |-> Noop,
        RETRY_DELIVERY  |-> ApplyTo("delivering"),
        ADMIN_REDELIVER |-> ApplyTo("delivering") ] ]

\* resolveTransition throws ILLEGAL_TRANSITION on a missing cell, which rolls
\* the caller's transaction back: a caller guards with IsLegal.
IsLegal(from, event) == event \in DOMAIN TransitionTable[from]
Resolve(from, event) == TransitionTable[from][event]
ResolvesTo(from, event, kind) == IsLegal(from, event) /\ Resolve(from, event).kind = kind

RecoverableStatus == { "out_of_stock", "delivery_failed" }

IsRecoverable(s) == s \in RecoverableStatus
=============================================================================
