----------------------------- MODULE ArrivalOrder -----------------------------
(***************************************************************************)
(* Does the order in which webhooks arrive matter?  Two copies of the      *)
(* payment path of StoreOrders are given the same events about the same    *)
(* orders, each in an arrival order of its own, with the order row created *)
(* whenever each copy likes (so that events are orphaned and replayed).    *)
(*                                                                         *)
(* No delivery runs here, so what StoreOrders keeps of deliveries is       *)
(* constant, and paid_at, the captures and the live job are functions of   *)
(* the status and the judged events.                                       *)
(***************************************************************************)
EXTENDS Integers

CONSTANTS OrderId, EventId, MaxTime

VARIABLES
  script,                              \* what the provider says in each event
  statusL, lastEventAtL, evStateL,     \* the left copy
  statusR, lastEventAtR, evStateR      \* the right copy

left  == <<statusL, lastEventAtL, evStateL>>
right == <<statusR, lastEventAtR, evStateR>>
vars  == <<script, left, right>>

\* An order is paid once its status has left these three, in the absence of
\* deliveries.
Unpaid == {"absent", "created", "payment_failed"}
PaidOf(status) == [o \in OrderId |-> status[o] \notin Unpaid]
CapturedOf(evState) == {e \in EventId : evState[e] = "applied" /\ script[e].paid}
JobOf(status) == [o \in OrderId |-> IF PaidOf(status)[o] THEN 0 ELSE -1]

Left == INSTANCE StoreOrders WITH
  PoolOrders <- {}, MaxGenerations <- 0, GenerationBound <- 0,
  generation <- [o \in OrderId |-> 0], issued <- {}, recognised <- {}, runs <- {},
  status <- statusL, lastEventAt <- lastEventAtL, evState <- evStateL, evBody <- script,
  paidAt <- PaidOf(statusL), captured <- CapturedOf(evStateL), job <- JobOf(statusL)

Right == INSTANCE StoreOrders WITH
  PoolOrders <- {}, MaxGenerations <- 0, GenerationBound <- 0,
  generation <- [o \in OrderId |-> 0], issued <- {}, recognised <- {}, runs <- {},
  status <- statusR, lastEventAt <- lastEventAtR, evState <- evStateR, evBody <- script,
  paidAt <- PaidOf(statusR), captured <- CapturedOf(evStateR), job <- JobOf(statusR)

Init ==
  /\ script \in [EventId -> Left!Body]
  /\ statusL = [o \in OrderId |-> "absent"] /\ statusR = statusL
  /\ lastEventAtL = [o \in OrderId |-> Left!Never] /\ lastEventAtR = lastEventAtL
  /\ evStateL = [e \in EventId |-> "none"] /\ evStateR = evStateL

LeftStep ==
  /\ UNCHANGED <<script, right>>
  /\ \/ \E o \in OrderId : Left!CreateOrder(o)
     \/ \E e \in EventId : Left!Webhook(e, script[e]) \/ Left!ReplayOrphan(e)

RightStep ==
  /\ UNCHANGED <<script, left>>
  /\ \/ \E o \in OrderId : Right!CreateOrder(o)
     \/ \E e \in EventId : Right!Webhook(e, script[e]) \/ Right!ReplayOrphan(e)

Next == LeftStep \/ RightStep

Spec == Init /\ [][Next]_vars

\* Both copies have every order, and have every event and have judged it.
AllJudged ==
  /\ \A o \in OrderId : statusL[o] # "absent" /\ statusR[o] # "absent"
  /\ \A e \in EventId : evStateL[e] \in Left!FinalState /\ evStateR[e] \in Right!FinalState

\* 'failed' events the copy set aside although they are newer than the capture.
OverruledFailure(evState, o) ==
  {f \in EventId :
     /\ script[f].order = o /\ ~script[f].paid
     /\ evState[f] \in {"conflict", "ignored_terminal"}
     /\ \A c \in CapturedOf(evState) : script[c].order = o => script[f].at > script[c].at}

\* Two copies that judged the same events disagree about an order only in this
\* way: one is paid, the other payment_failed, and the paid one set aside a
\* 'failed' event newer than its capture.  Duplicates, orphans, replays, ties,
\* wrong amounts and stale events never make the outcomes differ.
DisagreementIsRecorded ==
  AllJudged => \A o \in OrderId :
    statusL[o] # statusR[o] =>
      \/ /\ statusL[o] = "paid" /\ statusR[o] = "payment_failed"
         /\ OverruledFailure(evStateL, o) # {}
      \/ /\ statusR[o] = "paid" /\ statusL[o] = "payment_failed"
         /\ OverruledFailure(evStateR, o) # {}
=============================================================================
