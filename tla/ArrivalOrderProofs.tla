-------------------------- MODULE ArrivalOrderProofs --------------------------
(***************************************************************************)
(* Proofs about ArrivalOrder, for every set of orders and events, every     *)
(* range of stamps and every script.  The two copies never look at each     *)
(* other, so one invariant is proved of a copy, with its variables and what *)
(* the events say as parameters, and used for both.                         *)
(***************************************************************************)
EXTENDS ArrivalOrder, TLAPS

-----------------------------------------------------------------------------
(* The invariant of a copy.                                                *)

Undecided == {"none", "orphan"}

CopyTyped(sc, s, l, v) ==
  /\ sc \in [EventId -> Left!Body]
  /\ s \in [OrderId -> {"absent", "created", "paid", "payment_failed"}]
  /\ l \in [OrderId -> Left!Times \cup {Left!Never}]
  /\ v \in [EventId -> (Left!FinalState \ {"abandoned"}) \cup Undecided]

\* The verdict on an event fits what it says and what its order's stamp has
\* become since.
VerdictFits(b, v, last) ==
  /\ v = "rejected_amount" <=> v \in Left!FinalState /\ ~Left!AmountOk(b)
  /\ v = "ignored_already_paid" => b.paid
  /\ v = "applied" => b.at <= last
  /\ v = "ignored_stale" => b.at < last

Judged(sc, v, o) == {e \in EventId : sc[e].order = o /\ v[e] \in Left!FinalState}

\* Nothing was applied to an order that is absent or created.  The stamp of any
\* other is that of an applied event that says what the status says.  Only a stale
\* payment, or one of the wrong amount, has met a failed order and left it failed.
StatusFits(sc, s, l, v, o) ==
  /\ s[o] = "absent" => Judged(sc, v, o) = {}
  /\ s[o] \in {"absent", "created"} <=> l[o] = Left!Never
  /\ s[o] = "created" => \A e \in Judged(sc, v, o) : v[e] = "rejected_amount"
  /\ s[o] \in {"paid", "payment_failed"} =>
       \E e \in Judged(sc, v, o) :
         sc[e].at = l[o] /\ v[e] = "applied" /\ sc[e].paid = (s[o] = "paid")
  /\ s[o] = "payment_failed" =>
       \A e \in Judged(sc, v, o) : sc[e].paid => v[e] \in {"rejected_amount", "ignored_stale"}

CopyInv(sc, s, l, v) ==
  /\ CopyTyped(sc, s, l, v)
  /\ \A e \in EventId : VerdictFits(sc[e], v[e], l[sc[e].order])
  /\ \A o \in OrderId : StatusFits(sc, s, l, v, o)

-----------------------------------------------------------------------------
(* What a copy can do, the table's cells filled in.                        *)

CreateRow(s, l, v, s2, l2, v2, o) ==
  /\ s[o] = "absent" /\ s2 = [s EXCEPT ![o] = "created"]
  /\ l2 = l /\ v2 = v

\* The event's row is finalised with x and nothing else changes.
MaySetAside(b, s, l, x) ==
  LET o == b.order
      admitted == s[o] # "absent" /\ Left!AmountOk(b) /\ (l[o] = Left!Never \/ b.at >= l[o])
  IN \/ x = "orphan" /\ s[o] = "absent"
     \/ x = "rejected_amount" /\ s[o] # "absent" /\ ~Left!AmountOk(b)
     \/ /\ x = "ignored_stale" /\ s[o] # "absent" /\ Left!AmountOk(b)
        /\ l[o] # Left!Never /\ ~(b.at >= l[o])
     \/ x = "ignored_already_paid" /\ admitted /\ b.paid /\ s[o] = "paid"
     \/ x = "ignored_terminal" /\ admitted /\ ~b.paid /\ s[o] = "payment_failed"
     \/ x = "conflict" /\ admitted /\ ~b.paid /\ s[o] = "paid"

SetAside(sc, s, l, v, s2, l2, v2, e) ==
  /\ v[e] \in Undecided
  /\ \E x \in (Left!FinalState \ {"abandoned", "applied"}) \cup {"orphan"} :
       MaySetAside(sc[e], s, l, x) /\ v2 = [v EXCEPT ![e] = x]
  /\ s2 = s /\ l2 = l

Apply(sc, s, l, v, s2, l2, v2, e) ==
  LET b == sc[e]
      o == b.order
  IN /\ v[e] \in Undecided
     /\ Left!AmountOk(b) /\ (l[o] = Left!Never \/ b.at >= l[o])
     /\ s[o] = "created" \/ (b.paid /\ s[o] = "payment_failed")
     /\ s2 = [s EXCEPT ![o] = IF b.paid THEN "paid" ELSE "payment_failed"]
     /\ l2 = [l EXCEPT ![o] = b.at]
     /\ v2 = [v EXCEPT ![e] = "applied"]

CopyStep(sc, s, l, v, s2, l2, v2) ==
  \/ \E o \in OrderId : CreateRow(s, l, v, s2, l2, v2, o)
  \/ \E e \in EventId : SetAside(sc, s, l, v, s2, l2, v2, e) \/ Apply(sc, s, l, v, s2, l2, v2, e)

-----------------------------------------------------------------------------
(* A copy keeps its invariant.                                             *)

LEMMA CreateKeeps ==
  ASSUME NEW sc, NEW s, NEW l, NEW v, NEW s2, NEW l2, NEW v2, NEW o \in OrderId,
         CopyInv(sc, s, l, v), CreateRow(s, l, v, s2, l2, v2, o)
  PROVE  CopyInv(sc, s2, l2, v2)
<1>1. CopyTyped(sc, s2, l2, v2)
  BY DEF CopyInv, CopyTyped, CreateRow
<1>2. \A e \in EventId : VerdictFits(sc[e], v2[e], l2[sc[e].order])
  BY DEF CopyInv, CreateRow
<1>3. \A p \in OrderId : Judged(sc, v2, p) = Judged(sc, v, p)
  BY DEF CreateRow
<1>4. ASSUME NEW p \in OrderId PROVE StatusFits(sc, s2, l2, v2, p)
  <2>1. StatusFits(sc, s, l, v, p) /\ Judged(sc, v2, p) = Judged(sc, v, p) /\ l2 = l /\ v2 = v
    BY <1>3 DEF CopyInv, CreateRow
  <2>2. CASE p # o
    <3>1. s2[p] = s[p]
      BY <2>2 DEF CreateRow, CopyInv, CopyTyped
    <3>. QED BY <2>1, <3>1 DEF StatusFits
  <2>3. CASE p = o
    <3>1. s2[p] = "created" /\ s[p] = "absent"
      BY <2>3 DEF CreateRow, CopyInv, CopyTyped
    <3>. QED BY <2>1, <3>1 DEF StatusFits
  <2>. QED BY <2>2, <2>3
<1>. QED BY <1>1, <1>2, <1>4 DEF CopyInv

LEMMA SetAsideKeeps ==
  ASSUME NEW sc, NEW s, NEW l, NEW v, NEW s2, NEW l2, NEW v2, NEW e \in EventId,
         CopyInv(sc, s, l, v), SetAside(sc, s, l, v, s2, l2, v2, e)
  PROVE  CopyInv(sc, s2, l2, v2)
<1>. DEFINE b == sc[e]
            o == b.order
<1>1. PICK x \in (Left!FinalState \ {"abandoned", "applied"}) \cup {"orphan"} :
        MaySetAside(b, s, l, x) /\ v2 = [v EXCEPT ![e] = x]
  BY DEF SetAside
<1>2. s2 = s /\ l2 = l /\ v[e] \in Undecided /\ v[e] \notin Left!FinalState
  BY DEF SetAside, Undecided, Left!FinalState
<1>3. b \in Left!Body /\ o \in OrderId /\ b.paid \in BOOLEAN /\ b.at \in Int /\ b.at # Left!Never
  BY DEF CopyInv, CopyTyped, Left!Body, Left!Times, Left!Never
<1>4. v2[e] = x /\ \A f \in EventId \ {e} : v2[f] = v[f]
  BY <1>1 DEF CopyInv, CopyTyped
<1>5. CopyTyped(sc, s2, l2, v2)
  BY <1>1, <1>2 DEF CopyInv, CopyTyped, Undecided
<1>6. s[o] \in {"absent", "created", "paid", "payment_failed"} /\ l[o] \in Int
  BY <1>3 DEF CopyInv, CopyTyped, Left!Times, Left!Never
<1>7. VerdictFits(b, x, l[o])
  BY <1>1, <1>3, <1>6 DEF MaySetAside, VerdictFits, Left!FinalState
<1>8. \A f \in EventId : VerdictFits(sc[f], v2[f], l2[sc[f].order])
  BY <1>2, <1>4, <1>7 DEF CopyInv
<1>9. \A p \in OrderId \ {o} : Judged(sc, v2, p) = Judged(sc, v, p)
  BY <1>4 DEF Judged
<1>10. Judged(sc, v2, o) = Judged(sc, v, o) \cup (IF x = "orphan" THEN {} ELSE {e})
  BY <1>1, <1>2, <1>4 DEF Judged, Left!FinalState
<1>11. e \notin Judged(sc, v, o)
  BY <1>2 DEF Judged
<1>12. StatusFits(sc, s, l, v, o)
  BY <1>3 DEF CopyInv
<1>13. StatusFits(sc, s2, l2, v2, o)
  <2>1. x = "orphan" <=> s[o] = "absent"
    BY <1>1 DEF MaySetAside
  <2>2. s[o] = "created" /\ x # "orphan" => x = "rejected_amount"
    BY <1>1, <1>12 DEF MaySetAside, StatusFits
  <2>3. s[o] = "payment_failed" /\ b.paid => x \in {"rejected_amount", "ignored_stale"}
    BY <1>1 DEF MaySetAside
  <2>4. \A f \in Judged(sc, v, o) : v2[f] = v[f]
    BY <1>4, <1>11 DEF Judged
  <2>. QED BY <1>2, <1>4, <1>10, <1>12, <2>1, <2>2, <2>3, <2>4 DEF StatusFits
<1>14. ASSUME NEW p \in OrderId, p # o PROVE StatusFits(sc, s2, l2, v2, p)
  <2>1. StatusFits(sc, s, l, v, p) /\ Judged(sc, v2, p) = Judged(sc, v, p)
    BY <1>9, <1>14 DEF CopyInv
  <2>2. \A f \in Judged(sc, v, p) : v2[f] = v[f]
    BY <1>4, <1>14 DEF Judged
  <2>. QED BY <1>2, <2>1, <2>2 DEF StatusFits
<1>. QED BY <1>5, <1>8, <1>13, <1>14 DEF CopyInv

LEMMA ApplyKeeps ==
  ASSUME NEW sc, NEW s, NEW l, NEW v, NEW s2, NEW l2, NEW v2, NEW e \in EventId,
         CopyInv(sc, s, l, v), Apply(sc, s, l, v, s2, l2, v2, e)
  PROVE  CopyInv(sc, s2, l2, v2)
<1>. DEFINE b == sc[e]
            o == b.order
<1>1. /\ v[e] \in Undecided /\ v[e] \notin Left!FinalState
      /\ Left!AmountOk(b) /\ (l[o] = Left!Never \/ b.at >= l[o])
      /\ s[o] = "created" \/ (b.paid /\ s[o] = "payment_failed")
      /\ s2 = [s EXCEPT ![o] = IF b.paid THEN "paid" ELSE "payment_failed"]
      /\ l2 = [l EXCEPT ![o] = b.at] /\ v2 = [v EXCEPT ![e] = "applied"]
  BY DEF Apply, Undecided, Left!FinalState
<1>2. b \in Left!Body /\ o \in OrderId /\ b.paid \in BOOLEAN /\ b.at \in Left!Times
  BY DEF CopyInv, CopyTyped, Left!Body
<1>3. v2[e] = "applied" /\ \A f \in EventId \ {e} : v2[f] = v[f]
  BY <1>1 DEF CopyInv, CopyTyped
<1>4. l2[o] = b.at /\ \A p \in OrderId \ {o} : l2[p] = l[p]
  BY <1>1, <1>2 DEF CopyInv, CopyTyped
<1>5. s2[o] = (IF b.paid THEN "paid" ELSE "payment_failed") /\ \A p \in OrderId \ {o} : s2[p] = s[p]
  BY <1>1, <1>2 DEF CopyInv, CopyTyped
<1>6. CopyTyped(sc, s2, l2, v2)
  BY <1>1, <1>2 DEF CopyInv, CopyTyped, Left!FinalState
<1>7. l[o] \in Int /\ l2[o] \in Int /\ b.at \in Int /\ l2[o] # Left!Never /\ b.at > Left!Never
  BY <1>2, <1>4 DEF CopyInv, CopyTyped, Left!Times, Left!Never
<1>8. l[o] <= l2[o]
  BY <1>1, <1>4, <1>7 DEF Left!Never
<1>9. ASSUME NEW f \in EventId PROVE VerdictFits(sc[f], v2[f], l2[sc[f].order])
  <2>1. CASE f = e
    BY <1>1, <1>3, <1>4, <1>7, <2>1 DEF VerdictFits, Left!FinalState
  <2>2. CASE f # e
    <3>1. VerdictFits(sc[f], v[f], l[sc[f].order]) /\ v2[f] = v[f]
      BY <1>3, <2>2 DEF CopyInv
    <3>2. sc[f].order \in OrderId /\ sc[f].at \in Int /\ l[sc[f].order] \in Int /\ l2[sc[f].order] \in Int
      BY <1>6 DEF CopyInv, CopyTyped, Left!Body, Left!Times, Left!Never
    <3>3. l[sc[f].order] <= l2[sc[f].order]
      BY <1>4, <1>8, <3>2
    <3>. QED BY <3>1, <3>2, <3>3 DEF VerdictFits
  <2>. QED BY <2>1, <2>2
<1>10. Judged(sc, v2, o) = Judged(sc, v, o) \cup {e} /\ e \notin Judged(sc, v, o)
  BY <1>1, <1>3 DEF Judged, Left!FinalState
<1>11. StatusFits(sc, s2, l2, v2, o)
  <2>1. StatusFits(sc, s, l, v, o)
    BY <1>2 DEF CopyInv
  <2>2. \A f \in Judged(sc, v, o) : v2[f] = v[f]
    BY <1>3, <1>10 DEF Judged
  <2>3. ~b.paid => s[o] = "created"
    BY <1>1
  <2>. QED BY <1>2, <1>3, <1>4, <1>5, <1>7, <1>10, <2>1, <2>2, <2>3 DEF StatusFits
<1>12. ASSUME NEW p \in OrderId, p # o PROVE StatusFits(sc, s2, l2, v2, p)
  <2>1. StatusFits(sc, s, l, v, p)
    BY DEF CopyInv
  <2>2. Judged(sc, v2, p) = Judged(sc, v, p)
    BY <1>3, <1>12 DEF Judged
  <2>3. \A f \in Judged(sc, v, p) : v2[f] = v[f]
    BY <1>3, <1>12 DEF Judged
  <2>. QED BY <1>4, <1>5, <1>12, <2>1, <2>2, <2>3 DEF StatusFits
<1>. QED BY <1>6, <1>9, <1>11, <1>12 DEF CopyInv

LEMMA StepKeepsCopy ==
  ASSUME NEW sc, NEW s, NEW l, NEW v, NEW s2, NEW l2, NEW v2,
         CopyInv(sc, s, l, v), CopyStep(sc, s, l, v, s2, l2, v2)
  PROVE  CopyInv(sc, s2, l2, v2)
BY CreateKeeps, SetAsideKeeps, ApplyKeeps DEF CopyStep

-----------------------------------------------------------------------------
(* The two copies of StoreOrders do nothing else.                          *)

\* The cells of the table for payment events, while nothing is delivered.
LEMMA Cells ==
  ASSUME NEW s \in {"created", "paid", "payment_failed"}
  PROVE  /\ Left!ResolvesTo(s, "PAYMENT_PAID", "apply") =>
              s \in {"created", "payment_failed"} /\ Left!Resolve(s, "PAYMENT_PAID").to = "paid"
         /\ Left!ResolvesTo(s, "PAYMENT_PAID", "noop") => s = "paid"
         /\ ~Left!ResolvesTo(s, "PAYMENT_PAID", "conflict")
         /\ Left!ResolvesTo(s, "PAYMENT_FAILED", "apply") =>
              s = "created" /\ Left!Resolve(s, "PAYMENT_FAILED").to = "payment_failed"
         /\ Left!ResolvesTo(s, "PAYMENT_FAILED", "noop") => s = "payment_failed"
         /\ Left!ResolvesTo(s, "PAYMENT_FAILED", "conflict") => s = "paid"
<1>. USE DEF Left!ResolvesTo, Left!IsLegal, Left!Resolve, Left!TransitionTable, Left!ApplyTo,
            Left!Noop, Left!Conflict
<1>1. CASE s = "created"
  BY <1>1
<1>2. CASE s = "paid"
  BY <1>2
<1>3. CASE s = "payment_failed"
  BY <1>3
<1>. QED BY <1>1, <1>2, <1>3

LEMMA SameTable ==
  \A s, ev, k : /\ Right!ResolvesTo(s, ev, k) <=> Left!ResolvesTo(s, ev, k)
                /\ Right!Resolve(s, ev) = Left!Resolve(s, ev)
BY DEF Left!ResolvesTo, Left!IsLegal, Left!Resolve, Left!TransitionTable, Left!ApplyTo,
       Left!Noop, Left!Conflict, Right!ResolvesTo, Right!IsLegal, Right!Resolve,
       Right!TransitionTable, Right!ApplyTo, Right!Noop, Right!Conflict

LEMMA LeftJudges ==
  ASSUME CopyTyped(script, statusL, lastEventAtL, evStateL), NEW e \in EventId,
         evStateL[e] \in Undecided, Left!ApplyPersistedEvent(e, script[e])
  PROVE  CopyStep(script, statusL, lastEventAtL, evStateL, statusL', lastEventAtL', evStateL')
<1>. DEFINE b == script[e]
            o == b.order
            finalises(x) == evStateL' = [evStateL EXCEPT ![e] = x]
<1>1. b \in Left!Body /\ o \in OrderId /\ b.paid \in BOOLEAN
  BY DEF CopyTyped, Left!Body
<1>2. statusL[o] \in {"absent", "created", "paid", "payment_failed"}
  BY <1>1 DEF CopyTyped
<1>. USE DEF Left!OrderKnown, Left!AmountOk, Left!NotStale, Left!Admissible, Left!Finalise, Left!Never,
            Left!AmountOk, Left!Never, Left!EventOf
<1>3. ASSUME Left!FinaliseOnly(e, b)
      PROVE  SetAside(script, statusL, lastEventAtL, evStateL, statusL', lastEventAtL', evStateL', e)
  <2>1. statusL' = statusL /\ lastEventAtL' = lastEventAtL
    BY <1>3 DEF Left!FinaliseOnly, Left!orderVars
  <2>2. \E x \in (Left!FinalState \ {"abandoned", "applied"}) \cup {"orphan"} :
          MaySetAside(b, statusL, lastEventAtL, x) /\ finalises(x)
    <3>1. CASE Left!StoreOrphan(e, b)
      BY <3>1 DEF Left!StoreOrphan, MaySetAside, Left!FinalState
    <3>2. CASE Left!RejectAmount(e, b)
      BY <3>2 DEF Left!RejectAmount, MaySetAside, Left!FinalState
    <3>3. CASE Left!IgnoreStale(e, b)
      BY <3>3 DEF Left!IgnoreStale, MaySetAside, Left!FinalState
    <3>4. CASE Left!IgnoreNoop(e, b)
      <4>1. b.paid => statusL[o] = "paid"
        BY <1>1, <1>2, <3>4, SameTable, Cells DEF Left!IgnoreNoop
      <4>2. ~b.paid => statusL[o] = "payment_failed"
        BY <1>1, <1>2, <3>4, SameTable, Cells DEF Left!IgnoreNoop
      <4>. QED BY <1>1, <3>4, <4>1, <4>2 DEF Left!IgnoreNoop, MaySetAside, Left!FinalState
    <3>5. CASE Left!StoreConflict(e, b)
      <4>1. ~b.paid /\ statusL[o] = "paid"
        BY <1>1, <1>2, <3>5, SameTable, Cells DEF Left!StoreConflict
      <4>. QED BY <3>5, <4>1 DEF Left!StoreConflict, MaySetAside, Left!FinalState
    <3>. QED BY <1>3, <3>1, <3>2, <3>3, <3>4, <3>5 DEF Left!FinaliseOnly
  <2>. QED BY <2>1, <2>2 DEF SetAside
<1>4. ASSUME Left!ApplyTransition(e, b)
      PROVE  Apply(script, statusL, lastEventAtL, evStateL, statusL', lastEventAtL', evStateL', e)
  <2>1. /\ statusL[o] # "absent" /\ Left!AmountOk(b) /\ Left!NotStale(b)
        /\ Left!ResolvesTo(statusL[o], Left!EventOf(b), "apply")
        /\ statusL' = [statusL EXCEPT ![o] = Left!Resolve(statusL[o], Left!EventOf(b)).to]
        /\ lastEventAtL' = [lastEventAtL EXCEPT ![o] = b.at]
        /\ finalises("applied")
    BY <1>4 DEF Left!ApplyTransition, Left!Transition
  <2>2. CASE b.paid
    <3>1. /\ statusL[o] \in {"created", "payment_failed"}
          /\ Left!Resolve(statusL[o], Left!EventOf(b)).to = "paid"
      BY <1>2, <2>1, <2>2, SameTable, Cells
    <3>. QED BY <2>1, <2>2, <3>1 DEF Apply
  <2>3. CASE ~b.paid
    <3>1. statusL[o] = "created" /\ Left!Resolve(statusL[o], Left!EventOf(b)).to = "payment_failed"
      BY <1>2, <2>1, <2>3, SameTable, Cells
    <3>. QED BY <2>1, <2>3, <3>1 DEF Apply
  <2>. QED BY <2>2, <2>3
<1>. QED BY <1>3, <1>4 DEF Left!ApplyPersistedEvent, CopyStep

LEMMA LeftSteps ==
  ASSUME CopyTyped(script, statusL, lastEventAtL, evStateL), LeftStep
  PROVE  CopyStep(script, statusL, lastEventAtL, evStateL, statusL', lastEventAtL', evStateL')
<1>1. ASSUME NEW o \in OrderId, Left!CreateOrder(o)
      PROVE  CreateRow(statusL, lastEventAtL, evStateL, statusL', lastEventAtL', evStateL', o)
  BY <1>1 DEF Left!CreateOrder, Left!eventVars, CreateRow
<1>2. ASSUME NEW e \in EventId, Left!Webhook(e, script[e])
      PROVE  evStateL[e] \in Undecided /\ Left!ApplyPersistedEvent(e, script[e])
  BY <1>2 DEF Left!Webhook, Left!InsertPending, Undecided
<1>3. ASSUME NEW e \in EventId, Left!ReplayOrphan(e)
      PROVE  evStateL[e] \in Undecided /\ Left!ApplyPersistedEvent(e, script[e])
  BY <1>3 DEF Left!ReplayOrphan, Left!Replayable, Undecided
<1>4. \/ \E o \in OrderId : Left!CreateOrder(o)
      \/ \E e \in EventId : Left!Webhook(e, script[e]) \/ Left!ReplayOrphan(e)
  BY DEF LeftStep
<1>. QED BY <1>1, <1>2, <1>3, <1>4, LeftJudges DEF CopyStep

LEMMA RightJudges ==
  ASSUME CopyTyped(script, statusR, lastEventAtR, evStateR), NEW e \in EventId,
         evStateR[e] \in Undecided, Right!ApplyPersistedEvent(e, script[e])
  PROVE  CopyStep(script, statusR, lastEventAtR, evStateR, statusR', lastEventAtR', evStateR')
<1>. DEFINE b == script[e]
            o == b.order
            finalises(x) == evStateR' = [evStateR EXCEPT ![e] = x]
<1>1. b \in Left!Body /\ o \in OrderId /\ b.paid \in BOOLEAN
  BY DEF CopyTyped, Left!Body
<1>2. statusR[o] \in {"absent", "created", "paid", "payment_failed"}
  BY <1>1 DEF CopyTyped
<1>. USE DEF Right!OrderKnown, Right!AmountOk, Right!NotStale, Right!Admissible, Right!Finalise, Right!Never,
            Left!AmountOk, Left!Never, Right!EventOf
<1>3. ASSUME Right!FinaliseOnly(e, b)
      PROVE  SetAside(script, statusR, lastEventAtR, evStateR, statusR', lastEventAtR', evStateR', e)
  <2>1. statusR' = statusR /\ lastEventAtR' = lastEventAtR
    BY <1>3 DEF Right!FinaliseOnly, Right!orderVars
  <2>2. \E x \in (Left!FinalState \ {"abandoned", "applied"}) \cup {"orphan"} :
          MaySetAside(b, statusR, lastEventAtR, x) /\ finalises(x)
    <3>1. CASE Right!StoreOrphan(e, b)
      BY <3>1 DEF Right!StoreOrphan, MaySetAside, Left!FinalState
    <3>2. CASE Right!RejectAmount(e, b)
      BY <3>2 DEF Right!RejectAmount, MaySetAside, Left!FinalState
    <3>3. CASE Right!IgnoreStale(e, b)
      BY <3>3 DEF Right!IgnoreStale, MaySetAside, Left!FinalState
    <3>4. CASE Right!IgnoreNoop(e, b)
      <4>1. b.paid => statusR[o] = "paid"
        BY <1>1, <1>2, <3>4, SameTable, Cells DEF Right!IgnoreNoop
      <4>2. ~b.paid => statusR[o] = "payment_failed"
        BY <1>1, <1>2, <3>4, SameTable, Cells DEF Right!IgnoreNoop
      <4>. QED BY <1>1, <3>4, <4>1, <4>2 DEF Right!IgnoreNoop, MaySetAside, Left!FinalState
    <3>5. CASE Right!StoreConflict(e, b)
      <4>1. ~b.paid /\ statusR[o] = "paid"
        BY <1>1, <1>2, <3>5, SameTable, Cells DEF Right!StoreConflict
      <4>. QED BY <3>5, <4>1 DEF Right!StoreConflict, MaySetAside, Left!FinalState
    <3>. QED BY <1>3, <3>1, <3>2, <3>3, <3>4, <3>5 DEF Right!FinaliseOnly
  <2>. QED BY <2>1, <2>2 DEF SetAside
<1>4. ASSUME Right!ApplyTransition(e, b)
      PROVE  Apply(script, statusR, lastEventAtR, evStateR, statusR', lastEventAtR', evStateR', e)
  <2>1. /\ statusR[o] # "absent" /\ Right!AmountOk(b) /\ Right!NotStale(b)
        /\ Right!ResolvesTo(statusR[o], Right!EventOf(b), "apply")
        /\ statusR' = [statusR EXCEPT ![o] = Right!Resolve(statusR[o], Right!EventOf(b)).to]
        /\ lastEventAtR' = [lastEventAtR EXCEPT ![o] = b.at]
        /\ finalises("applied")
    BY <1>4 DEF Right!ApplyTransition, Right!Transition
  <2>2. CASE b.paid
    <3>1. /\ statusR[o] \in {"created", "payment_failed"}
          /\ Right!Resolve(statusR[o], Right!EventOf(b)).to = "paid"
      BY <1>2, <2>1, <2>2, SameTable, Cells
    <3>. QED BY <2>1, <2>2, <3>1 DEF Apply
  <2>3. CASE ~b.paid
    <3>1. statusR[o] = "created" /\ Right!Resolve(statusR[o], Right!EventOf(b)).to = "payment_failed"
      BY <1>2, <2>1, <2>3, SameTable, Cells
    <3>. QED BY <2>1, <2>3, <3>1 DEF Apply
  <2>. QED BY <2>2, <2>3
<1>. QED BY <1>3, <1>4 DEF Right!ApplyPersistedEvent, CopyStep

LEMMA RightSteps ==
  ASSUME CopyTyped(script, statusR, lastEventAtR, evStateR), RightStep
  PROVE  CopyStep(script, statusR, lastEventAtR, evStateR, statusR', lastEventAtR', evStateR')
<1>1. ASSUME NEW o \in OrderId, Right!CreateOrder(o)
      PROVE  CreateRow(statusR, lastEventAtR, evStateR, statusR', lastEventAtR', evStateR', o)
  BY <1>1 DEF Right!CreateOrder, Right!eventVars, CreateRow
<1>2. ASSUME NEW e \in EventId, Right!Webhook(e, script[e])
      PROVE  evStateR[e] \in Undecided /\ Right!ApplyPersistedEvent(e, script[e])
  BY <1>2 DEF Right!Webhook, Right!InsertPending, Undecided
<1>3. ASSUME NEW e \in EventId, Right!ReplayOrphan(e)
      PROVE  evStateR[e] \in Undecided /\ Right!ApplyPersistedEvent(e, script[e])
  BY <1>3 DEF Right!ReplayOrphan, Right!Replayable, Undecided
<1>4. \/ \E o \in OrderId : Right!CreateOrder(o)
      \/ \E e \in EventId : Right!Webhook(e, script[e]) \/ Right!ReplayOrphan(e)
  BY DEF RightStep
<1>. QED BY <1>1, <1>2, <1>3, <1>4, RightJudges DEF CopyStep

-----------------------------------------------------------------------------
(* Both copies keep it, and two of them that judged the same events agree.  *)

BothInv ==
  /\ CopyInv(script, statusL, lastEventAtL, evStateL)
  /\ CopyInv(script, statusR, lastEventAtR, evStateR)

LEMMA InitBoth == Init => BothInv
<1>. SUFFICES ASSUME Init PROVE CopyInv(script, statusL, lastEventAtL, evStateL)
  BY DEF Init, BothInv
<1>1. CopyTyped(script, statusL, lastEventAtL, evStateL)
  BY DEF Init, CopyTyped, Undecided
<1>2. \A e \in EventId : evStateL[e] = "none"
  BY DEF Init
<1>3. \A e \in EventId : VerdictFits(script[e], evStateL[e], lastEventAtL[script[e].order])
  BY <1>2 DEF VerdictFits, Left!FinalState
<1>4. \A o \in OrderId : statusL[o] = "absent" /\ lastEventAtL[o] = Left!Never
  BY DEF Init
<1>5. \A o \in OrderId : Judged(script, evStateL, o) = {}
  BY <1>2 DEF Judged, Left!FinalState
<1>6. \A o \in OrderId : StatusFits(script, statusL, lastEventAtL, evStateL, o)
  BY <1>4, <1>5 DEF StatusFits
<1>. QED BY <1>1, <1>3, <1>6 DEF CopyInv

LEMMA StepBoth == BothInv /\ [Next]_vars => BothInv'
<1>. SUFFICES ASSUME BothInv, [Next]_vars PROVE BothInv'
  OBVIOUS
<1>1. script' = script
  BY DEF Next, LeftStep, RightStep, vars
<1>2. CASE LeftStep
  <2>1. CopyInv(script, statusL', lastEventAtL', evStateL')
    BY <1>2, LeftSteps, StepKeepsCopy DEF BothInv, CopyInv
  <2>2. UNCHANGED <<statusR, lastEventAtR, evStateR>>
    BY <1>2 DEF LeftStep, right
  <2>3. CopyInv(script', statusL', lastEventAtL', evStateL') /\ CopyInv(script', statusR', lastEventAtR', evStateR')
    BY <1>1, <2>1, <2>2 DEF BothInv
  <2>. QED BY <2>3 DEF BothInv
<1>3. CASE RightStep
  <2>1. CopyInv(script, statusR', lastEventAtR', evStateR')
    BY <1>3, RightSteps, StepKeepsCopy DEF BothInv, CopyInv
  <2>2. UNCHANGED <<statusL, lastEventAtL, evStateL>>
    BY <1>3 DEF RightStep, left
  <2>3. CopyInv(script', statusL', lastEventAtL', evStateL') /\ CopyInv(script', statusR', lastEventAtR', evStateR')
    BY <1>1, <2>1, <2>2 DEF BothInv
  <2>. QED BY <2>3 DEF BothInv
<1>4. CASE UNCHANGED vars
  <2>1. UNCHANGED <<statusL, lastEventAtL, evStateL, statusR, lastEventAtR, evStateR>>
    BY <1>4 DEF vars, left, right
  <2>2. CopyInv(script', statusL', lastEventAtL', evStateL') /\ CopyInv(script', statusR', lastEventAtR', evStateR')
    BY <1>1, <2>1 DEF BothInv
  <2>. QED BY <2>2 DEF BothInv
<1>. QED BY <1>2, <1>3, <1>4 DEF Next

\* A copy in which the order is paid and one in which its payment failed: the event
\* that failed it there was set aside here, and is newer than every capture.
LEMMA PaidAgainstFailed ==
  ASSUME NEW sc, NEW s, NEW l, NEW v, NEW s2, NEW l2, NEW v2, NEW o \in OrderId,
         CopyInv(sc, s, l, v), CopyInv(sc, s2, l2, v2),
         \A e \in EventId : v[e] \in Left!FinalState /\ v2[e] \in Left!FinalState,
         s[o] = "paid", s2[o] = "payment_failed"
  PROVE  \E f \in EventId :
           /\ sc[f].order = o /\ ~sc[f].paid
           /\ v[f] \in {"conflict", "ignored_terminal"}
           /\ \A c \in EventId : v[c] = "applied" /\ sc[c].order = o => sc[f].at > sc[c].at
<1>. DEFINE Of == {e \in EventId : sc[e].order = o}
<1>1. \A e \in Of : /\ VerdictFits(sc[e], v[e], l[o]) /\ VerdictFits(sc[e], v2[e], l2[o])
                    /\ sc[e].at \in Int /\ sc[e].paid \in BOOLEAN
                    /\ v[e] # "abandoned" /\ v2[e] # "abandoned"
  BY DEF CopyInv, CopyTyped, Left!Body, Left!Times, Undecided, Left!FinalState
<1>2. l[o] \in Int /\ l2[o] \in Int
  BY DEF CopyInv, CopyTyped, Left!Times, Left!Never
<1>3. Judged(sc, v, o) = Of /\ Judged(sc, v2, o) = Of
  BY DEF Judged
<1>4. PICK c \in Of : sc[c].at = l[o] /\ v[c] = "applied" /\ sc[c].paid
  <2>1. StatusFits(sc, s, l, v, o)
    BY DEF CopyInv
  <2>. QED BY <1>1, <1>3, <2>1 DEF StatusFits
<1>5. /\ \E f \in Of : sc[f].at = l2[o] /\ v2[f] = "applied" /\ ~sc[f].paid
      /\ v2[c] \in {"rejected_amount", "ignored_stale"}
  <2>1. StatusFits(sc, s2, l2, v2, o)
    BY DEF CopyInv
  <2>. QED BY <1>1, <1>3, <1>4, <2>1 DEF StatusFits
<1>6. PICK f \in Of : sc[f].at = l2[o] /\ v2[f] = "applied" /\ ~sc[f].paid
  BY <1>5
<1>7. v2[c] = "ignored_stale"
  BY <1>1, <1>4, <1>5 DEF VerdictFits
<1>8. l[o] < l2[o]
  BY <1>1, <1>4, <1>7 DEF VerdictFits
<1>9. v[f] \in {"conflict", "ignored_terminal"}
  <2>1. v[f] # "applied" /\ v[f] # "ignored_stale"
    BY <1>1, <1>2, <1>6, <1>8 DEF VerdictFits
  <2>2. v[f] # "ignored_already_paid" /\ v[f] # "rejected_amount"
    BY <1>1, <1>6 DEF VerdictFits, Left!AmountOk
  <2>3. v[f] \in Left!FinalState /\ v[f] # "abandoned"
    BY <1>1
  <2>. QED BY <2>1, <2>2, <2>3 DEF Left!FinalState
<1>10. ASSUME NEW d \in Of, v[d] = "applied" PROVE sc[f].at > sc[d].at
  <2>1. sc[d].at <= l[o] /\ sc[d].at \in Int
    BY <1>1, <1>10 DEF VerdictFits
  <2>. QED BY <1>2, <1>6, <1>8, <2>1
<1>. QED BY <1>6, <1>9, <1>10

\* Otherwise they agree: some event that fits was judged by both, or by neither.
LEMMA OnlyFailuresDiffer ==
  ASSUME NEW sc, NEW s, NEW l, NEW v, NEW s2, NEW l2, NEW v2, NEW o \in OrderId,
         CopyInv(sc, s, l, v), CopyInv(sc, s2, l2, v2),
         \A e \in EventId : v[e] \in Left!FinalState /\ v2[e] \in Left!FinalState,
         s[o] = "created"
  PROVE  s2[o] \in {"absent", "created"}
<1>. SUFFICES ASSUME s2[o] \in {"paid", "payment_failed"} PROVE FALSE
  BY DEF CopyInv, CopyTyped
<1>1. PICK e \in Judged(sc, v2, o) : v2[e] = "applied"
  BY DEF CopyInv, StatusFits
<1>2. e \in EventId /\ e \in Judged(sc, v, o)
  BY DEF Judged
<1>3. v[e] = "rejected_amount"
  BY <1>2 DEF CopyInv, StatusFits
<1>4. ~Left!AmountOk(sc[e])
  BY <1>2, <1>3 DEF CopyInv, VerdictFits
<1>5. v2[e] = "rejected_amount"
  BY <1>2, <1>4 DEF CopyInv, VerdictFits
<1>. QED BY <1>1, <1>5

\* The order in which webhooks arrive matters only where the service says so: one copy
\* paid, the other failed, and the paid one set aside a newer failure.
THEOREM ArrivalOrderHardlyMatters == Spec => []DisagreementIsRecorded
<1>1. ASSUME BothInv PROVE DisagreementIsRecorded
  <2>. SUFFICES ASSUME AllJudged, NEW o \in OrderId, statusL[o] # statusR[o]
                PROVE  \/ /\ statusL[o] = "paid" /\ statusR[o] = "payment_failed"
                          /\ OverruledFailure(evStateL, o) # {}
                       \/ /\ statusR[o] = "paid" /\ statusL[o] = "payment_failed"
                          /\ OverruledFailure(evStateR, o) # {}
    BY DEF DisagreementIsRecorded
  <2>1. /\ statusL[o] \in {"created", "paid", "payment_failed"}
        /\ statusR[o] \in {"created", "paid", "payment_failed"}
    BY <1>1 DEF AllJudged, BothInv, CopyInv, CopyTyped
  <2>2. \A e \in EventId : evStateL[e] \in Left!FinalState /\ evStateR[e] \in Left!FinalState
    BY DEF AllJudged, Left!FinalState, Right!FinalState
  <2>3. statusL[o] # "created" /\ statusR[o] # "created"
    BY <1>1, <2>1, <2>2, OnlyFailuresDiffer DEF BothInv
  <2>4. ASSUME statusL[o] = "paid", statusR[o] = "payment_failed" PROVE OverruledFailure(evStateL, o) # {}
    <3>1. \E f \in EventId :
            /\ script[f].order = o /\ ~script[f].paid
            /\ evStateL[f] \in {"conflict", "ignored_terminal"}
            /\ \A c \in EventId : evStateL[c] = "applied" /\ script[c].order = o => script[f].at > script[c].at
      BY <1>1, <2>2, <2>4, PaidAgainstFailed DEF BothInv
    <3>. QED BY <3>1 DEF OverruledFailure, CapturedOf
  <2>5. ASSUME statusR[o] = "paid", statusL[o] = "payment_failed" PROVE OverruledFailure(evStateR, o) # {}
    <3>1. \E f \in EventId :
            /\ script[f].order = o /\ ~script[f].paid
            /\ evStateR[f] \in {"conflict", "ignored_terminal"}
            /\ \A c \in EventId : evStateR[c] = "applied" /\ script[c].order = o => script[f].at > script[c].at
      BY <1>1, <2>2, <2>5, PaidAgainstFailed DEF BothInv
    <3>. QED BY <3>1 DEF OverruledFailure, CapturedOf
  <2>. QED BY <2>1, <2>3, <2>4, <2>5
<1>. QED BY <1>1, InitBoth, StepBoth, PTL DEF Spec
=============================================================================
