--------------------------- MODULE OrphanSweepProofs ---------------------------
(***************************************************************************)
(* OrphanSweep for any number of orders, events and sweepers, any batch     *)
(* size and any number of faults.  A batch owns its events: they are locked *)
(* by its cycle and they are orphans.  That nobody else can judge them until *)
(* the batch ends is all that OneVerdict rests on.                          *)
(***************************************************************************)
EXTENDS OrphanSweep, TLAPS

Ended == {"judged", "abandoned"}

\* A batch owns its events.
Owned ==
  \A s \in Sweeper : \A e \in cycle[s].batch : eventLock[e] = s /\ state[e] = "orphan"

\* An event whose webhook is under way is in no table yet.
Unseen == \A e \in Event : webhook[e] # "idle" => state[e] = "none"

\* What pass 6a took up is its batch, and has ended when the pass has.
Served ==
  \A s \in Sweeper :
    /\ cycle[s].pc = "replay" => cycle[s].due = cycle[s].batch
    /\ cycle[s].pc \in {"abandon", "abandoning"} => \A e \in cycle[s].due : state[e] \in Ended

IndInv == TypeOK /\ Owned /\ Unseen /\ OneVerdict /\ Served

-----------------------------------------------------------------------------
\* Who ends a transaction lets go of its events, and of nobody else's.
LEMMA LetGoLocks ==
  ASSUME TypeOK, NEW t \in Sweeper \cup Event, LetGo(t)
  PROVE  /\ orderLock' \in [Order -> Sweeper \cup Event \cup {Nobody}]
         /\ eventLock' \in [Event -> Sweeper \cup {Nobody}]
         /\ \A e \in Event : eventLock[e] # t => eventLock'[e] = eventLock[e]
<1>1. PICK heir \in [Order -> Sweeper] :
        orderLock' = [o \in Order |-> IF orderLock[o] # t THEN orderLock[o]
                                      ELSE IF Waiters(o) = {} THEN Nobody ELSE heir[o]]
  BY DEF LetGo
<1>2. orderLock' \in [Order -> Sweeper \cup Event \cup {Nobody}]
  BY <1>1 DEF TypeOK
<1>3. eventLock' = [e \in Event |-> IF eventLock[e] = t THEN Nobody ELSE eventLock[e]]
  BY DEF LetGo
<1> QED
  BY <1>2, <1>3 DEF TypeOK

\* LIMIT takes rows away only.
LEMMA OldestOf == ASSUME NEW es PROVE Oldest(es) \subseteq es
  BY DEF Oldest

LEMMA InitInv == ASSUME Init PROVE IndInv
<1>1. TypeOK
  BY OrphanAssumption DEF Init, TypeOK, EventState, WebhookPlace, Cycle, NoCycle, CyclePlace
<1> QED
  BY <1>1 DEF Init, IndInv, Owned, Unseen, OneVerdict, Served, NoCycle

-----------------------------------------------------------------------------
(* Types.                                                                  *)

LEMMA SettleTypes ==
  ASSUME TypeOK, NEW t \in Sweeper \cup Event, NEW es \in SUBSET Event,
         NEW verdict \in {"orphan", "judged", "abandoned"}, Settle(t, es, verdict)
  PROVE  /\ known' \subseteq Order
         /\ state' \in [Event -> EventState]
         /\ verdicts' \in [Event -> Nat]
         /\ orderLock' \in [Order -> Sweeper \cup Event \cup {Nobody}]
         /\ eventLock' \in [Event -> Sweeper \cup {Nobody}]
<1>1. LetGo(t)
  BY DEF Settle
<1>2. state' \in [Event -> EventState] /\ verdicts' \in [Event -> Nat]
  BY DEF Settle, TypeOK, EventState
<1> QED
  BY <1>1, <1>2, LetGoLocks DEF Settle, TypeOK

LEMMA TypeStep == ASSUME TypeOK, [Next]_vars PROVE TypeOK'
<1> USE OrphanAssumption
<1>1. ASSUME NEW o \in Order, CreateOrder(o) PROVE TypeOK'
  BY <1>1 DEF CreateOrder, TypeOK, locks
<1>2. ASSUME NEW e \in Event, Receive(e) PROVE TypeOK'
  BY <1>2 DEF Receive, TypeOK, rows, WebhookPlace
<1>3. ASSUME NEW e \in Event, CommitWebhook(e) PROVE TypeOK'
  <2>1. PICK verdict \in {"orphan", "judged"} : Settle(e, {e}, verdict)
    BY <1>3 DEF CommitWebhook
  <2> QED
    BY <1>3, <2>1, SettleTypes DEF CommitWebhook, TypeOK, WebhookPlace
<1>4. ASSUME NEW s \in Sweeper, SelectReplayable(s) PROVE TypeOK'
  <2> DEFINE batch == Oldest(Unlocked(Replayable))
  <2>1. batch \subseteq Event
    BY OldestOf DEF Unlocked, Replayable, Orphans
  <2>2. eventLock' \in [Event -> Sweeper \cup {Nobody}]
    BY <1>4 DEF SelectReplayable, TypeOK
  <2>3. cycle' = [cycle EXCEPT ![s] = [@ EXCEPT !.pc = "replay", !.batch = batch, !.todo = batch, !.due = batch]]
    BY <1>4 DEF SelectReplayable, Begin6a
  <2>4. cycle' \in [Sweeper -> Cycle]
    <3> HIDE DEF batch
    <3>1. [cycle[s] EXCEPT !.pc = "replay", !.batch = batch, !.todo = batch, !.due = batch] \in Cycle
      BY <2>1 DEF TypeOK, Cycle, CyclePlace
    <3> QED BY <2>3, <3>1 DEF TypeOK
  <2> QED
    BY <1>4, <2>2, <2>4 DEF SelectReplayable, TypeOK, rows
<1>5. ASSUME NEW s \in Sweeper, NEW e \in Event, Replay(s, e) PROVE TypeOK'
  <2>1. cycle' \in [Sweeper -> Cycle]
    <3>1. [cycle[s] EXCEPT !.todo = @ \ {e}] \in Cycle
      BY DEF TypeOK, Cycle
    <3> QED BY <1>5, <3>1 DEF Replay, TypeOK
  <2> QED
    BY <1>5, <2>1 DEF Replay, TypeOK, rows
<1>6. ASSUME NEW s \in Sweeper, CommitReplay(s) PROVE TypeOK'
  <2>1. cycle[s].batch \in SUBSET Event
    BY DEF TypeOK, Cycle
  <2>2. cycle' \in [Sweeper -> Cycle]
    <3>1. cycle' = [cycle EXCEPT ![s] = [cycle[s] EXCEPT !.pc = "abandon", !.batch = {}, !.tries = 0]]
      BY <1>6 DEF CommitReplay, TypeOK
    <3>2. [cycle[s] EXCEPT !.pc = "abandon", !.batch = {}, !.tries = 0] \in Cycle
      <4>1. cycle[s] \in Cycle
        BY DEF TypeOK
      <4>2. 0 \in 0 .. RetryAttempts /\ {} \in SUBSET Event /\ "abandon" \in CyclePlace
        BY DEF CyclePlace
      <4> QED BY <4>1, <4>2 DEF Cycle
    <3> QED BY <3>1, <3>2 DEF TypeOK
  <2> QED
    BY <1>6, <2>1, <2>2, SettleTypes DEF CommitReplay, TypeOK
<1>7. ASSUME NEW s \in Sweeper, SelectAbandonable(s) PROVE TypeOK'
  <2>1. PICK age \in {0} \cup Event :
          /\ eventLock' = [e \in Event |-> IF e \in Oldest(Unlocked(Abandonable(age))) THEN s ELSE eventLock[e]]
          /\ cycle' = [cycle EXCEPT ![s].pc = "abandoning", ![s].batch = Oldest(Unlocked(Abandonable(age)))]
    BY <1>7 DEF SelectAbandonable
  <2> DEFINE batch == Oldest(Unlocked(Abandonable(age)))
  <2>2. batch \subseteq Event
    BY OldestOf DEF Unlocked, Abandonable, Orphans
  <2>3. eventLock' \in [Event -> Sweeper \cup {Nobody}]
    BY <2>1 DEF TypeOK
  <2>4. cycle' \in [Sweeper -> Cycle]
    <3>1. cycle' = [cycle EXCEPT ![s] = [cycle[s] EXCEPT !.pc = "abandoning", !.batch = batch]]
      BY <2>1 DEF TypeOK
    <3> HIDE DEF batch
    <3>2. [cycle[s] EXCEPT !.pc = "abandoning", !.batch = batch] \in Cycle
      BY <2>2 DEF TypeOK, Cycle, CyclePlace
    <3> QED BY <3>1, <3>2 DEF TypeOK
  <2> QED
    BY <1>7, <2>3, <2>4 DEF SelectAbandonable, TypeOK, rows
<1>8. ASSUME NEW s \in Sweeper, CommitAbandon(s) PROVE TypeOK'
  <2>1. cycle[s].batch \in SUBSET Event
    BY DEF TypeOK, Cycle
  <2>2. cycle' \in [Sweeper -> Cycle]
    BY <1>8 DEF CommitAbandon, TypeOK, Cycle, CyclePlace, NoCycle
  <2> QED
    BY <1>8, <2>1, <2>2, SettleTypes DEF CommitAbandon, TypeOK
<1>9. ASSUME NEW s \in Sweeper, FailCycle(s) PROVE TypeOK'
  <2>1. cycle' \in [Sweeper -> Cycle] /\ faults' \in 0 .. MaxFaults
    BY <1>9 DEF FailCycle, TypeOK, Cycle, CyclePlace, NoCycle
  <2> QED
    BY <1>9, <2>1, LetGoLocks DEF FailCycle, TypeOK, rows
<1>10. ASSUME NEW s \in Sweeper, BreakDeadlock(s) PROVE TypeOK'
  <2>1. cycle[s].tries \in 0 .. RetryAttempts
    BY DEF TypeOK, Cycle
  <2>2. cycle' \in [Sweeper -> Cycle]
    BY <1>10, <2>1 DEF BreakDeadlock, TypeOK, Cycle, CyclePlace, NoCycle
  <2> QED
    BY <1>10, <2>2, LetGoLocks DEF BreakDeadlock, TypeOK, rows
<1>11. CASE UNCHANGED vars
  BY <1>11 DEF TypeOK, vars, rows, locks
<1> QED
  BY <1>1, <1>2, <1>3, <1>4, <1>5, <1>6, <1>7, <1>8, <1>9, <1>10, <1>11 DEF Next, ContinueCycle

\* The types are those of the columns and of what a cycle keeps in memory; the
\* retries of withTransaction stay within txRetryAttempts.
THEOREM TypeCorrect == Spec => []TypeOK
<1>1. Init => TypeOK
  BY InitInv DEF IndInv
<1>2. TypeOK /\ [Next]_vars => TypeOK'
  BY TypeStep
<1> QED
  BY <1>1, <1>2, PTL DEF Spec

-----------------------------------------------------------------------------
(* One verdict.                                                            *)

\* A sweeper that rolls back, or has nothing to write, takes nothing from the
\* batches of the others.
LEMMA RollBackInv ==
  ASSUME IndInv, NEW s \in Sweeper, LetGo(s), UNCHANGED <<rows, webhook>>,
         NEW c, c.batch = {}, c.pc = "idle", cycle' = [cycle EXCEPT ![s] = c]
  PROVE  Owned' /\ Unseen' /\ OneVerdict' /\ Served'
<1> USE DEF IndInv, rows
<1>1. cycle \in [Sweeper -> Cycle] /\ \A t \in Sweeper : cycle[t].batch \subseteq Event
  BY DEF TypeOK, Cycle
<1>2. \A t \in Sweeper : t # s => cycle'[t] = cycle[t]
  BY <1>1
<1>3. cycle'[s] = c
  BY <1>1
<1>4. Owned'
  BY <1>1, <1>2, <1>3, LetGoLocks DEF Owned
<1>5. Served'
  BY <1>1, <1>2, <1>3 DEF Served
<1> QED
  BY <1>4, <1>5 DEF Unseen, OneVerdict

\* A batch that commits: its events had no verdict and get one, and no other
\* batch holds any of them.
LEMMA CommitInv ==
  ASSUME IndInv, NEW s \in Sweeper, NEW verdict \in Ended, Settle(s, cycle[s].batch, verdict),
         webhook' = webhook, NEW c, c.batch = {}, cycle' = [cycle EXCEPT ![s] = c],
         \/ c.pc = "idle"
         \/ c.pc = "abandon" /\ c.due = cycle[s].batch
  PROVE  Owned' /\ Unseen' /\ OneVerdict' /\ Served'
<1> USE DEF IndInv
<1>1. cycle \in [Sweeper -> Cycle] /\ \A t \in Sweeper : cycle[t].batch \subseteq Event /\ cycle[t].due \subseteq Event
  BY DEF TypeOK, Cycle
<1>2. \A t \in Sweeper : t # s => cycle'[t] = cycle[t]
  BY <1>1
<1>3. cycle'[s] = c
  BY <1>1
<1>4. \A e \in Event : state'[e] = IF e \in cycle[s].batch THEN verdict ELSE state[e]
  BY DEF Settle
<1>5. \A t \in Sweeper : t # s => cycle[t].batch \cap cycle[s].batch = {}
  BY DEF Owned
<1>6. Owned'
  <2>1. LetGo(s)
    BY DEF Settle
  <2> QED
    BY <1>1, <1>2, <1>3, <1>4, <1>5, <2>1, LetGoLocks DEF Owned
<1>7. Unseen'
  BY <1>1, <1>4 DEF Unseen, Owned
<1>8. OneVerdict'
  <2>1. \A e \in Event : verdicts'[e] = IF e \in cycle[s].batch THEN verdicts[e] + 1 ELSE verdicts[e]
    BY DEF Settle, Ended
  <2>2. \A e \in cycle[s].batch : verdicts[e] = 0
    BY <1>1 DEF OneVerdict, Owned
  <2> QED
    BY <1>4, <2>1, <2>2 DEF OneVerdict, Ended
<1>9. Served'
  <2>1. ASSUME NEW t \in Sweeper, t # s
        PROVE  /\ cycle'[t].pc = "replay" => cycle'[t].due = cycle'[t].batch
               /\ cycle'[t].pc \in {"abandon", "abandoning"} => \A e \in cycle'[t].due : state'[e] \in Ended
    BY <1>1, <1>2, <1>4, <2>1 DEF Served
  <2>2. /\ c.pc # "replay"
        /\ c.pc \in {"abandon", "abandoning"} => \A e \in c.due : state'[e] \in Ended
    BY <1>1, <1>4
  <2> QED
    BY <1>3, <2>1, <2>2 DEF Served
<1> QED
  BY <1>6, <1>7, <1>8, <1>9

\* A batch that is taken up is free, so it is in no other's hands.
LEMMA SelectInv ==
  ASSUME IndInv, NEW s \in Sweeper, NEW batch \in SUBSET Unlocked(Orphans),
         eventLock' = [e \in Event |-> IF e \in batch THEN s ELSE eventLock[e]],
         UNCHANGED <<rows, webhook>>, NEW c, c.batch = batch, cycle' = [cycle EXCEPT ![s] = c],
         \/ c.pc = "replay" /\ c.due = batch
         \/ c.pc = "abandoning" /\ cycle[s].pc = "abandon" /\ c.due = cycle[s].due
  PROVE  Owned' /\ Unseen' /\ OneVerdict' /\ Served'
<1> USE DEF IndInv, rows
<1>1. cycle \in [Sweeper -> Cycle] /\ \A t \in Sweeper : cycle[t].batch \subseteq Event
  BY DEF TypeOK, Cycle
<1>2. \A t \in Sweeper : t # s => cycle'[t] = cycle[t]
  BY <1>1
<1>3. cycle'[s] = c
  BY <1>1
<1>4. \A e \in batch : e \in Event /\ eventLock[e] = Nobody /\ state[e] = "orphan"
  BY DEF Unlocked, Orphans, Free
<1>5. Owned'
  BY <1>1, <1>2, <1>3, <1>4, OrphanAssumption DEF Owned
<1>6. Served'
  BY <1>1, <1>2, <1>3 DEF Served
<1> QED
  BY <1>5, <1>6 DEF Unseen, OneVerdict

LEMMA StepInv == ASSUME IndInv, [Next]_vars PROVE IndInv'
<1> USE DEF IndInv
<1>0. TypeOK'
  BY TypeStep
<1>a. cycle \in [Sweeper -> Cycle] /\ \A s \in Sweeper : cycle[s].batch \subseteq Event /\ cycle[s].due \subseteq Event
  BY DEF TypeOK, Cycle
<1>1. ASSUME NEW o \in Order, CreateOrder(o) PROVE IndInv'
  BY <1>0, <1>1 DEF CreateOrder, locks, Owned, Unseen, OneVerdict, Served
<1>2. ASSUME NEW e \in Event, Receive(e) PROVE IndInv'
  <2>1. Unseen'
    BY <1>2 DEF Receive, rows, Unseen, TypeOK
  <2> QED
    BY <1>0, <1>2, <2>1 DEF Receive, rows, Owned, OneVerdict, Served
<1>3. ASSUME NEW e \in Event, CommitWebhook(e) PROVE IndInv'
  <2>1. PICK verdict \in {"orphan", "judged"} : Settle(e, {e}, verdict)
    BY <1>3 DEF CommitWebhook
  <2>2. state[e] = "none" /\ verdicts[e] = 0
    BY <1>3 DEF CommitWebhook, Unseen, OneVerdict
  <2>3. \A f \in Event : f # e => state'[f] = state[f] /\ verdicts'[f] = verdicts[f]
    BY <2>1 DEF Settle
  <2>4. state'[e] = verdict /\ verdicts'[e] = IF verdict = "orphan" THEN 0 ELSE 1
    BY <2>1, <2>2 DEF Settle
  <2>5. LetGo(e)
    BY <2>1 DEF Settle
  <2>6. Owned'
    <3> SUFFICES ASSUME NEW s \in Sweeper, NEW f \in cycle[s].batch
                 PROVE  eventLock'[f] = s /\ state'[f] = "orphan"
      BY <1>3 DEF CommitWebhook, Owned
    <3>1. f \in Event /\ eventLock[f] = s /\ state[f] = "orphan"
      BY <1>a DEF Owned
    <3>2. f # e /\ s # e
      BY <2>2, <3>1, OrphanAssumption
    <3> QED
      BY <2>3, <2>5, <3>1, <3>2, LetGoLocks
  <2>7. Unseen'
    BY <1>3, <2>3 DEF CommitWebhook, Unseen, TypeOK
  <2>8. OneVerdict'
    BY <2>3, <2>4 DEF OneVerdict
  <2>9. Served'
    BY <1>3, <1>a, <2>2, <2>3 DEF CommitWebhook, Served, Ended
  <2> QED
    BY <1>0, <2>6, <2>7, <2>8, <2>9
<1>4. ASSUME NEW s \in Sweeper, SelectReplayable(s) PROVE IndInv'
  <2> DEFINE batch == Oldest(Unlocked(Replayable))
  <2> DEFINE c == [cycle[s] EXCEPT !.pc = "replay", !.batch = batch, !.todo = batch, !.due = batch]
  <2>1. batch \in SUBSET Unlocked(Orphans)
    BY OldestOf DEF Unlocked, Replayable
  <2>2. cycle' = [cycle EXCEPT ![s] = c] /\ eventLock' = [e \in Event |-> IF e \in batch THEN s ELSE eventLock[e]]
    BY <1>4 DEF SelectReplayable, Begin6a
  <2>3. c.batch = batch /\ c.pc = "replay" /\ c.due = batch
    <3> HIDE DEF batch
    <3> QED BY <1>a DEF Cycle
  <2>4. UNCHANGED <<rows, webhook>>
    BY <1>4 DEF SelectReplayable
  <2> HIDE DEF batch, c
  <2> QED
    BY <1>0, <2>1, <2>2, <2>3, <2>4, SelectInv
<1>5. ASSUME NEW s \in Sweeper, NEW e \in Event, Replay(s, e) PROVE IndInv'
  <2>1. \A t \in Sweeper : /\ cycle'[t].pc = cycle[t].pc
                           /\ cycle'[t].batch = cycle[t].batch
                           /\ cycle'[t].due = cycle[t].due
    BY <1>5, <1>a DEF Replay, Cycle
  <2> QED
    BY <1>0, <1>5, <2>1 DEF Replay, rows, Owned, Unseen, OneVerdict, Served
<1>6. ASSUME NEW s \in Sweeper, CommitReplay(s) PROVE IndInv'
  <2> DEFINE c == [cycle[s] EXCEPT !.pc = "abandon", !.batch = {}, !.tries = 0]
  <2>1. cycle' = [cycle EXCEPT ![s] = c]
    BY <1>6, <1>a DEF CommitReplay
  <2>2. c.batch = {} /\ c.pc = "abandon" /\ c.due = cycle[s].batch
    BY <1>6, <1>a DEF CommitReplay, Served, Cycle
  <2>3. Settle(s, cycle[s].batch, "judged") /\ webhook' = webhook
    BY <1>6 DEF CommitReplay
  <2> HIDE DEF c
  <2> QED
    BY <1>0, <2>1, <2>2, <2>3, CommitInv DEF Ended
<1>7. ASSUME NEW s \in Sweeper, SelectAbandonable(s) PROVE IndInv'
  <2>1. PICK age \in {0} \cup Event :
          /\ eventLock' = [e \in Event |-> IF e \in Oldest(Unlocked(Abandonable(age))) THEN s ELSE eventLock[e]]
          /\ cycle' = [cycle EXCEPT ![s].pc = "abandoning", ![s].batch = Oldest(Unlocked(Abandonable(age)))]
    BY <1>7 DEF SelectAbandonable
  <2> DEFINE batch == Oldest(Unlocked(Abandonable(age)))
  <2> DEFINE c == [cycle[s] EXCEPT !.pc = "abandoning", !.batch = batch]
  <2>2. batch \in SUBSET Unlocked(Orphans)
    BY OldestOf DEF Unlocked, Abandonable
  <2>3. cycle' = [cycle EXCEPT ![s] = c]
    BY <1>a, <2>1
  <2>4. eventLock' = [e \in Event |-> IF e \in batch THEN s ELSE eventLock[e]]
    BY <2>1
  <2>5. c.batch = batch /\ c.pc = "abandoning" /\ c.due = cycle[s].due /\ cycle[s].pc = "abandon"
    <3> HIDE DEF batch
    <3> QED BY <1>7, <1>a DEF SelectAbandonable, Cycle
  <2>6. UNCHANGED <<rows, webhook>>
    BY <1>7 DEF SelectAbandonable
  <2> HIDE DEF batch, c
  <2> QED
    BY <1>0, <2>2, <2>3, <2>4, <2>5, <2>6, SelectInv
<1>8. ASSUME NEW s \in Sweeper, CommitAbandon(s) PROVE IndInv'
  <2>1. Settle(s, cycle[s].batch, "abandoned") /\ webhook' = webhook /\ cycle' = [cycle EXCEPT ![s] = NoCycle]
    BY <1>8 DEF CommitAbandon
  <2>2. NoCycle.batch = {} /\ NoCycle.pc = "idle"
    BY DEF NoCycle
  <2> QED
    BY <1>0, <2>1, <2>2, CommitInv DEF Ended
<1>9. ASSUME NEW s \in Sweeper, FailCycle(s) PROVE IndInv'
  <2>1. NoCycle.batch = {} /\ NoCycle.pc = "idle"
    BY DEF NoCycle
  <2> QED
    BY <1>0, <1>9, <2>1, RollBackInv DEF FailCycle
<1>10. ASSUME NEW s \in Sweeper, BreakDeadlock(s) PROVE IndInv'
  <2> DEFINE c == IF cycle[s].tries < RetryAttempts THEN [NoCycle EXCEPT !.tries = cycle[s].tries + 1] ELSE NoCycle
  <2>1. c.batch = {} /\ c.pc = "idle"
    BY DEF NoCycle
  <2>2. cycle' = [cycle EXCEPT ![s] = c]
    BY <1>10, <1>a DEF BreakDeadlock
  <2> HIDE DEF c
  <2> QED
    BY <1>0, <1>10, <2>1, <2>2, RollBackInv DEF BreakDeadlock
<1>11. CASE UNCHANGED vars
  BY <1>0, <1>11 DEF vars, rows, locks, Owned, Unseen, OneVerdict, Served
<1> QED
  BY <1>1, <1>2, <1>3, <1>4, <1>5, <1>6, <1>7, <1>8, <1>9, <1>10, <1>11 DEF Next, ContinueCycle

LEMMA Invariance == Spec => []IndInv
<1>1. Init => IndInv
  BY InitInv
<1>2. IndInv /\ [Next]_vars => IndInv'
  BY StepInv
<1> QED
  BY <1>1, <1>2, PTL DEF Spec

\* However many cycles overlap, fail or are run again after a deadlock, an event
\* is judged once or given up once, and not both.
THEOREM JudgedOrGivenUpOnce == Spec => []OneVerdict
<1>1. IndInv => OneVerdict
  BY DEF IndInv
<1> QED
  BY <1>1, Invariance, PTL

\* Pass 6b of a cycle never gives up what pass 6a of the same cycle took up.
THEOREM PassesInOrder == Spec => GivenUpOnlyUnseen
<1>1. ASSUME IndInv, NEW s \in Sweeper, NEW e \in Event, cycle[s].pc = "abandoning", e \in cycle[s].batch
      PROVE  e \notin cycle[s].due
  BY <1>1 DEF IndInv, Owned, Served, Ended
<1>2. IndInv /\ [Next]_vars
        => [\A s \in Sweeper, e \in Event :
              cycle[s].pc = "abandoning" /\ e \in cycle[s].batch /\ state'[e] # state[e] => e \notin cycle[s].due]_vars
  BY <1>1
<1> QED
  BY <1>2, Invariance, PTL DEF Spec, GivenUpOnlyUnseen
=============================================================================
