------------------------ MODULE SupplierContractProofs ------------------------
(***************************************************************************)
(* What SupplierFulfilment promises under conditions the code relies on    *)
(* and cannot enforce: the lock of a job outlasts the run (TtlCoversRun)   *)
(* and, where the codes behind refusals are concerned, a supplier that     *)
(* refuses has not minted and will not (StrictSuppliers).  For every set   *)
(* of workers, chain, cap and number of crashes.                           *)
(***************************************************************************)
EXTENDS SupplierFulfilmentProofs, FiniteSetTheorems

-----------------------------------------------------------------------------
(* One run at a time.                                                      *)

\* While it runs, a run has its job: nobody takes it away from the living.
LockHeld ==
  \A w \in Workers : Busy(w) => job # NoJob /\ job.state = "running" /\ job.owner = w

LEMMA Alone ==
  ASSUME LockHeld, NEW v \in Workers, NEW w \in Workers, Busy(v), Busy(w)
  PROVE  v = w
BY DEF LockHeld

LEMMA StepLockHeld ==
  ASSUME TtlCoversRun, TypeOK, LockHeld, [Next]_vars
  PROVE  LockHeld'
<1>1. ASSUME job' = job, \A v \in Workers : Busy(v)' => Busy(v)
      PROVE  LockHeld'
  BY <1>1 DEF LockHeld
<1>2. ASSUME \A v \in Workers : ~Busy(v)' PROVE LockHeld'
  BY <1>2 DEF LockHeld
<1>3. ASSUME NEW g, Enqueue(g), worker' = worker PROVE LockHeld'
  <2>1. CASE job = NoJob
    BY <1>2, <1>3, <2>1 DEF LockHeld, Busy
  <2>2. CASE job # NoJob
    BY <1>1, <1>3, <2>2 DEF Enqueue, Busy
  <2>. QED BY <2>1, <2>2
<1>4. ASSUME NEW w \in Workers,
             \/ Prepare(w) \/ ExceedBudget(w) \/ Post(w) \/ Lookup(w) \/ Settle(w)
             \/ ForceOutcome(w) \/ AbortTransaction(w)
      PROVE  LockHeld'
  BY <1>1, <1>4, Turn DEF Busy
<1>5. ASSUME NEW w \in Workers, Complete(w) \/ Fail(w) \/ Crash(w) PROVE LockHeld'
  <2>1. worker' = [worker EXCEPT ![w] = Idle] /\ Busy(w)
    BY <1>5 DEF Complete, Fail, Crash, At, Busy
  <2>2. \A v \in Workers : ~Busy(v)'
    BY <2>1, Alone DEF TypeOK, Idle, Busy
  <2>. QED BY <1>2, <2>2
<1>6. ASSUME NEW w \in Workers, Claim(w) PROVE LockHeld'
  <2>1. PICK n, b :
          /\ job' = [job EXCEPT !.state = "running", !.owner = w, !.tries = n]
          /\ worker' = [worker EXCEPT ![w] = [Idle EXCEPT !.pc = "first", !.gen = job.gen,
                                                          !.last = b]]
    BY <1>6 DEF Claim
  <2>2. job \in Job /\ job.state = "pending"
    BY <1>6 DEF Claim, TypeOK
  <2>3. job'.state = "running" /\ job'.owner = w
    BY <2>1, <2>2 DEF Job
  <2>4. \A v \in Workers : ~Busy(v)
    BY <2>2 DEF LockHeld
  <2>5. \A v \in Workers \ {w} : worker'[v] = worker[v]
    BY <2>1 DEF TypeOK
  <2>. QED BY <2>3, <2>4, <2>5 DEF LockHeld, Busy, NoJob
<1>7. CASE Reclaim
  <2>1. \A v \in Workers : ~Busy(v)
    BY <1>7 DEF Reclaim, LockHeld
  <2>. QED BY <1>2, <1>7, <2>1 DEF Reclaim, Busy
<1>8. CASE CapturePayment \/ RequeueStuck \/ Redeliver
  BY <1>3, <1>8 DEF CapturePayment, RequeueStuck, Redeliver
<1>9. CASE PlaceOrder \/ (\E i \in late : LatePost(i)) \/ UNCHANGED vars
  BY <1>1, <1>9 DEF PlaceOrder, LatePost, vars, Busy
<1>10. ASSUME NEW i \in DOMAIN attempts, DemoteInFlight(i) \/ RedriveUnknown(i) PROVE LockHeld'
  BY <1>1, <1>3, <1>10 DEF DemoteInFlight, PromoteToUnknown, RedriveUnknown, Resolvable, Busy
<1>11. ASSUME NEW w \in Workers, Run(w) PROVE LockHeld'
  BY <1>4, <1>5, <1>6, <1>11 DEF Run
<1>. QED BY <1>4, <1>5, <1>7, <1>8, <1>9, <1>10, <1>11 DEF Next, Sweeper

-----------------------------------------------------------------------------
(* Nothing reaches a supplier late.                                        *)

NothingLate == late = {}

LEMMA StepNothingLate ==
  ASSUME StrictSuppliers, NothingLate, [Next]_vars
  PROVE  NothingLate'
<1>1. ASSUME NEW w \in Workers, Run(w) PROVE late' = late
  BY <1>1 DEF Run, Claim, Prepare, ExceedBudget, Post, LostPost, Lookup, Settle, ForceOutcome,
              Complete, Fail, supplyVars
<1>2. ASSUME NEW w \in Workers, Crash(w) \/ AbortTransaction(w) PROVE late' = late
  BY <1>2 DEF Crash, AbortTransaction, LostPost, supplyVars
<1>3. ASSUME PlaceOrder \/ CapturePayment \/ Sweeper \/ UNCHANGED vars PROVE late' = late
  BY <1>3 DEF PlaceOrder, CapturePayment, Sweeper, Reclaim, RequeueStuck, Redeliver,
              DemoteInFlight, PromoteToUnknown, RedriveUnknown, Resolvable, vars, supplyVars
<1>4. ASSUME NEW i \in late, LatePost(i) PROVE late' = late
  BY <1>4 DEF NothingLate
<1>5. late' = late
  BY <1>1, <1>2, <1>3, <1>4 DEF Next
<1>. QED BY <1>5 DEF NothingLate

-----------------------------------------------------------------------------
(* The run with a call out.                                                *)

Calling(w) == worker[w].pc \in {"call", "settle"}

\* While a run calls, and until it settles, its attempt is in flight and the
\* order is in its generation and delivering, whatever the suppliers answer.
CallStands ==
  \A w \in Workers : Calling(w) =>
    /\ attempts[worker[w].att].state = "in_flight"
    /\ ~Stale(w)
    /\ status = "delivering"

\* A run that settles, is cut short or gives up has no call out any more.
LEMMA TurnEndsCall ==
  ASSUME TypeOK, NEW w \in Workers,
         Settle(w) \/ ExceedBudget(w) \/ ForceOutcome(w) \/ AbortTransaction(w)
  PROVE  worker'[w].pc \notin {"call", "settle"}
<1>1. ASSUME NEW pc, pc \notin {"call", "settle"}, Leave(w, pc)
      PROVE  worker'[w].pc \notin {"call", "settle"}
  BY <1>1 DEF Leave, TypeOK, Idle
<1>2. RetryPlace(w) \notin {"call", "settle"}
  BY DEF RetryPlace
<1>3. CASE SettleIssued(w)
  BY <1>1, <1>3 DEF SettleIssued, SettleStranded, HandOver, InsertIssuedDelivery,
                    HandOverTooLate
<1>4. CASE SettleRefused(w)
  BY <1>1, <1>2, <1>4 DEF SettleRefused, ContinueOrRetry
<1>5. CASE SettleUnknown(w)
  BY <1>1, <1>2, <1>5 DEF SettleUnknown, PromoteToUnknown
<1>6. CASE SettleResolved(w)
  BY <1>1, <1>2, <1>6 DEF SettleResolved, MayAbandon, ContinueOrRetry
<1>7. CASE ExceedBudget(w) \/ ForceOutcome(w) \/ AbortTransaction(w)
  BY <1>1, <1>2, <1>7 DEF ExceedBudget, ForceOutcome, AbortTransaction
<1>. QED BY <1>3, <1>4, <1>5, <1>6, <1>7 DEF Settle

LEMMA StepCallStands ==
  ASSUME TypeOK, RunKnows, LockHeld, CallStands, [Next]_vars
  PROVE  CallStands'
<1>1. ASSUME \A v \in Workers : worker'[v].pc \notin {"call", "settle"} PROVE CallStands'
  BY <1>1 DEF CallStands, Calling
<1>2. ASSUME UNCHANGED <<worker, status, generation>>,
             \A i \in DOMAIN attempts : attempts[i].state = "in_flight" =>
               attempts'[i].state = "in_flight"
      PROVE  CallStands'
  <2>1. \A v \in Workers : Calling(v) => worker[v].att \in DOMAIN attempts
    BY DEF TypeOK, RunKnows, Calling, At
  <2>. QED BY <1>2, <2>1 DEF CallStands, Calling, Stale, At
<1>3. ASSUME NEW w \in Workers, Busy(w), worker'[w].pc \notin {"call", "settle"},
             \A v \in Workers \ {w} : worker'[v] = worker[v]
      PROVE  CallStands'
  <2>1. \A v \in Workers \ {w} : worker'[v].pc = "idle"
    BY <1>3, Alone DEF Busy
  <2>. QED BY <1>1, <1>3, <2>1
<1>4. ASSUME NEW w \in Workers, Prepare(w) PROVE CallStands'
  <2>1. Busy(w) /\ \A v \in Workers \ {w} : worker'[v].pc = "idle"
    BY <1>4, Turn, Alone DEF Busy
  <2>2. CASE PrepareSkip(w) \/ ExhaustChain(w)
    <3>1. worker'[w].pc = "done"
      BY <2>2 DEF PrepareSkip, ExhaustChain, Leave, TypeOK, Idle
    <3>. QED BY <1>1, <2>1, <3>1
  <2>3. CASE ~Skip(w) /\ (ResumeAttempt(w) \/ StartAttempt(w))
    <3>1. /\ status' = "delivering" /\ generation' = generation
          /\ worker'[w].gen = worker[w].gen /\ generation = worker[w].gen
      BY <1>4, <2>3, Turn DEF Prepare, ResumeAttempt, Resume, StartAttempt, InsertAttempt, Skip
    <3>2. worker'[w].pc = "call" /\ attempts'[worker'[w].att].state = "in_flight"
      <4>1. CASE ResumeAttempt(w)
        <5>1. PICK i \in OpenAttempts :
                /\ \E b : worker' = [worker EXCEPT ![w].pc = "call", ![w].att = i, ![w].lookup = b,
                                                   ![w].err = attempts[i].err]
                /\ Resume(i, w)
          BY <4>1 DEF ResumeAttempt
        <5>2. i \in DOMAIN attempts /\ attempts[i] \in Attempt
          BY Rows DEF OpenAttempts
        <5>3. attempts'[i].state = "in_flight"
          BY <5>1, <5>2 DEF Resume, Attempt
        <5>4. worker'[w].pc = "call" /\ worker'[w].att = i
          BY <5>1 DEF TypeOK
        <5>. QED BY <5>3, <5>4
      <4>2. CASE StartAttempt(w)
        <5>1. worker'[w].pc = "call" /\ worker'[w].att = Len(attempts) + 1
          BY <4>2 DEF StartAttempt, InsertAttempt, TypeOK
        <5>2. PICK r : attempts' = Append(attempts, r) /\ r.state = "in_flight"
          BY <4>2 DEF StartAttempt, InsertAttempt
        <5>3. attempts'[Len(attempts) + 1] = r
          BY <5>2, Rows
        <5>. QED BY <5>1, <5>2, <5>3
      <4>. QED BY <2>3, <4>1, <4>2
    <3>. QED BY <2>1, <3>1, <3>2 DEF CallStands, Calling, Stale, At
  <2>. QED BY <1>4, <2>2, <2>3 DEF Prepare
<1>5. ASSUME NEW w \in Workers, Post(w) \/ Lookup(w) PROVE CallStands'
  <2>1. Busy(w) /\ \A v \in Workers \ {w} : worker'[v].pc = "idle"
    BY <1>5, Turn, Alone DEF Busy
  <2>2. /\ attempts[worker[w].att].state = "in_flight"
        /\ ~Stale(w) /\ status = "delivering"
    BY <1>5 DEF Post, Lookup, At, CallStands, Calling
  <2>3. PICK o, e : Answer(w, o, e)
    BY <1>5 DEF Post, Lookup
  <2>4. worker'[w].att = worker[w].att /\ worker'[w].gen = worker[w].gen
    BY <2>3 DEF Answer, TypeOK
  <2>5. UNCHANGED <<status, generation, attempts>>
    BY <1>5 DEF Post, Lookup, orderVars
  <2>. QED BY <2>1, <2>2, <2>3, <2>4, <2>5 DEF CallStands, Calling, Stale, At
<1>6. ASSUME NEW w \in Workers,
             Settle(w) \/ ExceedBudget(w) \/ ForceOutcome(w) \/ AbortTransaction(w)
      PROVE  CallStands'
  BY <1>3, <1>6, TurnEndsCall, Turn
<1>7. ASSUME NEW w \in Workers, Complete(w) \/ Fail(w) \/ Crash(w) PROVE CallStands'
  <2>1. worker' = [worker EXCEPT ![w] = Idle] /\ Busy(w)
    BY <1>7 DEF Complete, Fail, Crash, At, Busy
  <2>2. worker'[w].pc = "idle" /\ \A v \in Workers \ {w} : worker'[v] = worker[v]
    BY <2>1 DEF TypeOK, Idle
  <2>. QED BY <1>3, <2>1, <2>2
<1>8. ASSUME NEW w \in Workers, Claim(w) PROVE CallStands'
  <2>1. job.state = "pending"
    BY <1>8 DEF Claim
  <2>2. \A v \in Workers : ~Busy(v)
    BY <2>1 DEF LockHeld
  <2>3. PICK b : worker' = [worker EXCEPT ![w] = [Idle EXCEPT !.pc = "first", !.gen = job.gen,
                                                            !.last = b]]
    BY <1>8 DEF Claim
  <2>4. worker'[w].pc = "first" /\ \A v \in Workers \ {w} : worker'[v].pc = "idle"
    BY <2>2, <2>3 DEF TypeOK, Idle, Busy
  <2>. QED BY <1>1, <2>4
<1>9. CASE PlaceOrder \/ CapturePayment \/ Redeliver
  <2>1. status # "delivering" /\ worker' = worker
    BY <1>9 DEF PlaceOrder, CapturePayment, Redeliver, IsRecoverable, RecoverableStatus
  <2>. QED BY <1>1, <2>1 DEF CallStands, Calling
<1>10. CASE Reclaim \/ RequeueStuck \/ UNCHANGED vars
  BY <1>2, <1>10 DEF Reclaim, RequeueStuck, vars, orderVars, supplyVars
<1>11. ASSUME NEW i \in DOMAIN attempts, DemoteInFlight(i) PROVE CallStands'
  <2>1. \A v \in Workers : ~Busy(v)
    BY <1>11 DEF DemoteInFlight, LockHeld
  <2>. QED BY <1>1, <1>11, <2>1 DEF DemoteInFlight, Busy
<1>12. ASSUME NEW i \in DOMAIN attempts, RedriveUnknown(i) PROVE CallStands'
  BY <1>2, <1>12 DEF RedriveUnknown, Resolvable, orderVars, supplyVars
<1>13. ASSUME NEW i \in late, LatePost(i) PROVE CallStands'
  BY <1>2, <1>13 DEF LatePost, orderVars
<1>14. ASSUME NEW w \in Workers, Run(w) PROVE CallStands'
  BY <1>4, <1>5, <1>6, <1>7, <1>8, <1>14 DEF Run
<1>. QED BY <1>6, <1>7, <1>9, <1>10, <1>11, <1>12, <1>13, <1>14 DEF Next, Sweeper

-----------------------------------------------------------------------------
(* A refusal brought home.                                                 *)

\* A refusal a run has yet to settle is true: nobody minted for its attempt.
RefusalTrue ==
  \A w \in Workers : At(w, "settle") /\ worker[w].outcome = "refused" =>
    worker[w].att \notin minted

LEMMA StepRefusalTrue ==
  ASSUME StrictSuppliers, TypeOK, LockHeld, NothingLate, RefusalTrue, [Next]_vars
  PROVE  RefusalTrue'
<1>1. ASSUME \A v \in Workers : worker'[v].pc # "settle" PROVE RefusalTrue'
  BY <1>1 DEF RefusalTrue, At
<1>2. ASSUME UNCHANGED <<worker, minted>> PROVE RefusalTrue'
  BY <1>2 DEF RefusalTrue, At
<1>3. ASSUME NEW w \in Workers, Busy(w), worker'[w].pc # "settle",
             \A v \in Workers \ {w} : worker'[v] = worker[v]
      PROVE  RefusalTrue'
  <2>1. \A v \in Workers \ {w} : worker'[v].pc = "idle"
    BY <1>3, Alone DEF Busy
  <2>. QED BY <1>1, <1>3, <2>1
<1>4. ASSUME NEW w \in Workers, Prepare(w) PROVE RefusalTrue'
  <2>1. CASE PrepareSkip(w) \/ ExhaustChain(w)
    <3>1. worker'[w].pc = "done"
      BY <2>1 DEF PrepareSkip, ExhaustChain, Leave, TypeOK, Idle
    <3>. QED BY <1>3, <1>4, <3>1, Turn
  <2>2. CASE ResumeAttempt(w) \/ StartAttempt(w)
    <3>1. CASE ResumeAttempt(w)
      BY <1>3, <1>4, <3>1, Turn DEF ResumeAttempt, Resume, TypeOK
    <3>2. CASE StartAttempt(w)
      BY <1>3, <1>4, <3>2, Turn DEF StartAttempt, InsertAttempt, TypeOK
    <3>. QED BY <2>2, <3>1, <3>2
  <2>. QED BY <1>4, <2>1, <2>2 DEF Prepare
<1>5. ASSUME NEW w \in Workers, Post(w) \/ Lookup(w) PROVE RefusalTrue'
  <2>1. \A v \in Workers \ {w} : worker'[v].pc = "idle"
    BY <1>5, Turn, Alone DEF Busy
  <2>2. PICK o, e : /\ Answer(w, o, e)
                    /\ o = "refused" => worker[w].att \notin minted'
    BY <1>5 DEF Post, Lookup, supplyVars
  <2>3. worker'[w].att = worker[w].att /\ worker'[w].outcome = o
    BY <2>2 DEF Answer, TypeOK
  <2>. QED BY <2>1, <2>2, <2>3 DEF RefusalTrue, At
<1>6. ASSUME NEW w \in Workers,
             Settle(w) \/ ExceedBudget(w) \/ ForceOutcome(w) \/ AbortTransaction(w)
      PROVE  RefusalTrue'
  BY <1>3, <1>6, TurnEndsCall, Turn
<1>7. ASSUME NEW w \in Workers, Complete(w) \/ Fail(w) \/ Crash(w) PROVE RefusalTrue'
  <2>1. worker' = [worker EXCEPT ![w] = Idle] /\ Busy(w)
    BY <1>7 DEF Complete, Fail, Crash, At, Busy
  <2>2. worker'[w].pc = "idle" /\ \A v \in Workers \ {w} : worker'[v] = worker[v]
    BY <2>1 DEF TypeOK, Idle
  <2>. QED BY <1>3, <2>1, <2>2
<1>8. ASSUME NEW w \in Workers, Claim(w) PROVE RefusalTrue'
  <2>1. \A v \in Workers : ~Busy(v)
    BY <1>8 DEF Claim, LockHeld
  <2>2. PICK b : worker' = [worker EXCEPT ![w] = [Idle EXCEPT !.pc = "first", !.gen = job.gen,
                                                            !.last = b]]
    BY <1>8 DEF Claim
  <2>3. worker'[w].pc = "first" /\ \A v \in Workers \ {w} : worker'[v].pc = "idle"
    BY <2>1, <2>2 DEF TypeOK, Idle, Busy
  <2>. QED BY <1>1, <2>3
<1>9. CASE PlaceOrder \/ CapturePayment \/ Sweeper \/ UNCHANGED vars
  BY <1>2, <1>9 DEF PlaceOrder, CapturePayment, Sweeper, Reclaim, RequeueStuck, Redeliver,
                    DemoteInFlight, PromoteToUnknown, RedriveUnknown, Resolvable, vars, supplyVars
<1>10. ASSUME NEW i \in late, LatePost(i) PROVE RefusalTrue'
  BY <1>10 DEF NothingLate
<1>11. ASSUME NEW w \in Workers, Run(w) PROVE RefusalTrue'
  BY <1>4, <1>5, <1>6, <1>7, <1>8, <1>11 DEF Run
<1>. QED BY <1>6, <1>7, <1>9, <1>10, <1>11 DEF Next

-----------------------------------------------------------------------------
(* The books of attempts and codes.                                        *)

\* A successful attempt is the one whose code was handed over, and a delivered
\* order has nothing open.
Settled ==
  /\ \A i \in DOMAIN attempts : attempts[i].state = "succeeded" => i = delivered
  /\ delivered # None => OpenAttempts = {} /\ attempts[delivered].state = "succeeded"

\* An open row of an undelivered order may become anything but a success.
LEMMA RewriteSettled ==
  ASSUME TypeOK, Settled, NEW o \in DOMAIN attempts, NEW r,
         attempts' = [attempts EXCEPT ![o] = r], delivered = None, delivered' = None,
         r.state # "succeeded"
  PROVE  Settled'
<1>1. DOMAIN attempts' = DOMAIN attempts /\ attempts'[o] = r
      /\ \A i \in DOMAIN attempts \ {o} : attempts'[i] = attempts[i]
  OBVIOUS
<1>. QED BY <1>1 DEF Settled

\* What the settlement of an answer that hands nothing over writes.
LEMMA SettleRewrites ==
  ASSUME TypeOK, RunKnows, NEW w \in Workers, Settle(w),
         SettleRefused(w) \/ SettleUnknown(w) \/ SettleResolved(w)
  PROVE  \/ attempts' = attempts
         \/ \E r : /\ attempts' = [attempts EXCEPT ![worker[w].att] = r]
                   /\ r.state # "succeeded"
                   /\ r.state = "failed" => worker[w].outcome = "refused"
<1>. DEFINE o == worker[w].att
<1>1. o \in DOMAIN attempts /\ attempts[o] \in Attempt
  BY Rows DEF Settle, At, RunKnows, TypeOK
<1>. HIDE DEF o
<1>2. CASE SettleRefused(w)
  <2>. DEFINE r == [attempts[o] EXCEPT !.state = "failed", !.err = worker[w].err]
  <2>1. r.state = "failed" /\ worker[w].outcome = "refused"
    BY <1>1, <1>2 DEF SettleRefused, Attempt
  <2>2. attempts' = attempts \/ attempts' = [attempts EXCEPT ![o] = r]
    <3>1. \/ attempts' = attempts
          \/ attempts' = [attempts EXCEPT ![o].state = "failed", ![o].err = worker[w].err]
      BY <1>2 DEF SettleRefused, Finalise, o
    <3>. QED BY <1>1, <3>1 DEF Attempt
  <2>. QED BY <2>1, <2>2 DEF o
<1>3. CASE SettleUnknown(w)
  BY <1>1, <1>3 DEF SettleUnknown, PromoteToUnknown, Attempt, o
<1>4. CASE SettleResolved(w)
  <2>. DEFINE denied == worker[w].outcome = "refused"
              s == IF denied THEN "failed" ELSE "abandoned_unknown"
              e == IF denied THEN worker[w].err ELSE attempts[o].err
              r == [attempts[o] EXCEPT !.state = s, !.err = e]
  <2>1. r.state # "succeeded" /\ (r.state = "failed" => denied)
    BY <1>1 DEF Attempt
  <2>2. attempts' = attempts \/ attempts' = [attempts EXCEPT ![o].state = s, ![o].err = e]
    BY <1>4 DEF SettleResolved, MayAbandon, o
  <2>. HIDE DEF s, e
  <2>3. attempts' = attempts \/ attempts' = [attempts EXCEPT ![o] = r]
    BY <1>1, <2>2 DEF Attempt
  <2>. QED BY <2>1, <2>3 DEF o
<1>. QED BY <1>2, <1>3, <1>4

\* The sweeper leaves a row it touches unknown.
LEMMA SweepRewrites ==
  ASSUME TypeOK, NEW i \in DOMAIN attempts, DemoteInFlight(i) \/ RedriveUnknown(i)
  PROVE  /\ i \in OpenAttempts
         /\ \E r : attempts' = [attempts EXCEPT ![i] = r] /\ r.state = "unknown"
<1>1. i \in OpenAttempts /\ attempts[i] \in Attempt
  BY Rows DEF DemoteInFlight, RedriveUnknown, Resolvable, OpenAttempts, Open, OpenState
<1>2. CASE DemoteInFlight(i)
  <2>. DEFINE r == [attempts[i] EXCEPT !.state = "unknown", !.err = "other",
                                       !.resolves = Cap(attempts[i].resolves + 1, MaxResolve)]
  <2>1. r.state = "unknown"
    BY <1>1 DEF Attempt
  <2>2. attempts' = [attempts EXCEPT ![i] = r]
    BY <1>1, <1>2 DEF DemoteInFlight, PromoteToUnknown, Attempt
  <2>. QED BY <1>1, <2>1, <2>2
<1>3. CASE RedriveUnknown(i)
  <2>. DEFINE r == [attempts[i] EXCEPT !.resolves = attempts[i].resolves + 1]
  <2>1. r.state = "unknown"
    BY <1>1, <1>3 DEF RedriveUnknown, Resolvable, Attempt
  <2>2. attempts' = [attempts EXCEPT ![i] = r]
    BY <1>1, <1>3 DEF RedriveUnknown, Attempt
  <2>. QED BY <1>1, <2>1, <2>2
<1>. QED BY <1>2, <1>3

LEMMA StepSettled ==
  ASSUME TypeOK, RunKnows, OneOpenAttempt, DeliveredIsMinted, CallStands, Settled, [Next]_vars
  PROVE  Settled'
<1>1. ASSUME UNCHANGED <<attempts, delivered>> PROVE Settled'
  BY <1>1 DEF Settled, OpenAttempts, Open
<1>2. \A i \in OpenAttempts : delivered = None /\ i \in DOMAIN attempts /\ attempts[i] \in Attempt
  BY Rows DEF Settled, OpenAttempts
<1>3. ASSUME NEW w \in Workers, Prepare(w) PROVE Settled'
  <2>1. delivered' = delivered
    BY <1>3 DEF Prepare
  <2>2. CASE PrepareSkip(w) \/ ExhaustChain(w)
    BY <1>1, <2>1, <2>2 DEF PrepareSkip, ExhaustChain
  <2>3. CASE ResumeAttempt(w)
    <3>1. PICK i \in OpenAttempts :
            attempts' = [attempts EXCEPT ![i].state = "in_flight", ![i].starter = w]
      BY <2>3 DEF ResumeAttempt, Resume
    <3>. DEFINE r == [attempts[i] EXCEPT !.state = "in_flight", !.starter = w]
    <3>2. r.state = "in_flight"
      BY <1>2 DEF Attempt
    <3>3. attempts' = [attempts EXCEPT ![i] = r]
      BY <1>2, <3>1 DEF Attempt
    <3>. HIDE DEF r
    <3>. QED BY <1>2, <2>1, <3>2, <3>3, RewriteSettled
  <2>4. CASE ~Skip(w) /\ StartAttempt(w)
    <3>1. delivered = None
      BY <2>4 DEF Skip, DeliveredIsMinted
    <3>2. PICK r : attempts' = Append(attempts, r) /\ r.state = "in_flight"
      BY <2>4 DEF StartAttempt, InsertAttempt
    <3>3. /\ attempts \in Seq(Attempt)
          /\ \A i \in DOMAIN attempts' \ {Len(attempts) + 1} :
               i \in DOMAIN attempts /\ attempts'[i] = attempts[i]
          /\ attempts'[Len(attempts) + 1] = r
      BY <3>2, Rows DEF TypeOK
    <3>4. \A i \in DOMAIN attempts' : attempts'[i].state = "succeeded" => i = delivered
      BY <3>2, <3>3 DEF Settled
    <3>. QED BY <2>1, <3>1, <3>4 DEF Settled
  <2>. QED BY <1>3, <2>2, <2>3, <2>4 DEF Prepare
<1>4. ASSUME NEW w \in Workers, Settle(w) PROVE Settled'
  <2>. DEFINE o == worker[w].att
  <2>1. /\ o \in DOMAIN attempts /\ attempts[o] \in Attempt
        /\ attempts[o].state = "in_flight"
        /\ ~Stale(w) /\ status = "delivering"
    BY <1>4, Rows DEF Settle, At, TypeOK, RunKnows, CallStands, Calling
  <2>2. o \in OpenAttempts /\ delivered = None
    BY <2>1 DEF OpenAttempts, Open, OpenState, DeliveredIsMinted
  <2>. HIDE DEF o
  <2>3. CASE SettleIssued(w)
    <3>1. HandOver(w)
      BY <2>1, <2>3 DEF SettleIssued, SettleStranded, HandOverTooLate
    <3>2. /\ delivered' = o
          /\ DOMAIN attempts' = DOMAIN attempts
          /\ attempts'[o].state = "succeeded"
          /\ \A i \in DOMAIN attempts \ {o} : attempts'[i] = attempts[i]
      <4>1. delivered' = o /\ Finalise(o, "succeeded", attempts[o].err)
        BY <2>2, <3>1 DEF HandOver, InsertIssuedDelivery, o
      <4>2. attempts' = [attempts EXCEPT ![o] =
                           [attempts[o] EXCEPT !.state = "succeeded"]]
        BY <2>1, <4>1 DEF Finalise, Attempt
      <4>. QED BY <2>1, <4>1, <4>2 DEF Attempt
    <3>3. OpenAttempts' = {}
      BY <2>2, <3>2 DEF OpenAttempts, Open, OpenState, OneOpenAttempt
    <3>4. \A i \in DOMAIN attempts \ {o} : attempts[i].state # "succeeded"
      BY <2>2, Rows DEF Settled, None
    <3>. QED BY <3>2, <3>3, <3>4 DEF Settled
  <2>4. CASE SettleRefused(w) \/ SettleUnknown(w) \/ SettleResolved(w)
    <3>1. delivered' = delivered
      BY <2>4 DEF SettleRefused, SettleUnknown, SettleResolved
    <3>2. \/ attempts' = attempts
          \/ \E r : attempts' = [attempts EXCEPT ![o] = r] /\ r.state # "succeeded"
      BY <1>4, <2>4, SettleRewrites DEF o
    <3>. QED BY <1>1, <2>1, <2>2, <3>1, <3>2, RewriteSettled
  <2>. QED BY <1>4, <2>3, <2>4 DEF Settle
<1>5. ASSUME NEW w \in Workers, Post(w) \/ Lookup(w) PROVE Settled'
  BY <1>1, <1>5 DEF Post, Lookup
<1>6. ASSUME NEW w \in Workers, Crash(w) \/ AbortTransaction(w) PROVE Settled'
  BY <1>1, <1>6 DEF Crash, AbortTransaction
<1>7. ASSUME NEW w \in Workers,
             Claim(w) \/ ExceedBudget(w) \/ ForceOutcome(w) \/ Complete(w) \/ Fail(w)
      PROVE  Settled'
  BY <1>1, <1>7 DEF Claim, ExceedBudget, ForceOutcome, Complete, Fail
<1>8. CASE PlaceOrder \/ CapturePayment \/ Reclaim \/ RequeueStuck \/ Redeliver \/ UNCHANGED vars
  BY <1>1, <1>8 DEF PlaceOrder, CapturePayment, Reclaim, RequeueStuck, Redeliver, vars
<1>9. ASSUME NEW i \in DOMAIN attempts, DemoteInFlight(i) \/ RedriveUnknown(i) PROVE Settled'
  <2>1. delivered' = delivered
    BY <1>9 DEF DemoteInFlight, PromoteToUnknown, RedriveUnknown
  <2>. QED BY <1>2, <1>9, <2>1, SweepRewrites, RewriteSettled
<1>10. ASSUME NEW i \in late, LatePost(i) PROVE Settled'
  BY <1>1, <1>10 DEF LatePost
<1>11. ASSUME NEW w \in Workers, Run(w) PROVE Settled'
  BY <1>3, <1>4, <1>5, <1>7, <1>11 DEF Run
<1>. QED BY <1>6, <1>8, <1>9, <1>10, <1>11 DEF Next, Sweeper

\* A code appears only behind a row that is in flight, and a row fails only on a
\* refusal that is true.
LEMMA StepFailedUnminted ==
  ASSUME TypeOK, RunKnows, NothingLate, CallStands, RefusalTrue, FailedMeansNotMinted, [Next]_vars
  PROVE  FailedMeansNotMinted'
<1>. USE DEF FailedMeansNotMinted
<1>0. minted \subseteq DOMAIN attempts
  BY DEF TypeOK
<1>1. ASSUME UNCHANGED <<attempts, minted>> PROVE FailedMeansNotMinted'
  BY <1>1
<1>2. ASSUME NEW w \in Workers, At(w, "call"), attempts' = attempts,
             minted' \subseteq minted \cup {worker[w].att}
      PROVE  FailedMeansNotMinted'
  <2>1. attempts[worker[w].att].state = "in_flight"
    BY <1>2 DEF CallStands, Calling, At
  <2>. QED BY <1>2, <2>1
<1>3. ASSUME NEW i \in DOMAIN attempts, NEW r, attempts' = [attempts EXCEPT ![i] = r],
             minted' = minted, r.state = "failed" => i \notin minted
      PROVE  FailedMeansNotMinted'
  BY <1>0, <1>3
<1>4. ASSUME NEW w \in Workers, Prepare(w) PROVE FailedMeansNotMinted'
  <2>1. minted' = minted
    BY <1>4 DEF Prepare, supplyVars
  <2>2. CASE PrepareSkip(w) \/ ExhaustChain(w)
    BY <1>1, <2>1, <2>2 DEF PrepareSkip, ExhaustChain
  <2>3. CASE ResumeAttempt(w)
    <3>1. PICK i \in OpenAttempts :
            attempts' = [attempts EXCEPT ![i].state = "in_flight", ![i].starter = w]
      BY <2>3 DEF ResumeAttempt, Resume
    <3>. DEFINE r == [attempts[i] EXCEPT !.state = "in_flight", !.starter = w]
    <3>2. i \in DOMAIN attempts /\ attempts[i] \in Attempt
      BY Rows DEF OpenAttempts
    <3>3. r.state = "in_flight" /\ attempts' = [attempts EXCEPT ![i] = r]
      BY <3>1, <3>2 DEF Attempt
    <3>. HIDE DEF r
    <3>. QED BY <1>3, <2>1, <3>2, <3>3
  <2>4. CASE StartAttempt(w)
    <3>1. PICK r : attempts' = Append(attempts, r)
      BY <2>4 DEF StartAttempt, InsertAttempt
    <3>. QED BY <1>0, <2>1, <3>1, Rows
  <2>. QED BY <1>4, <2>2, <2>3, <2>4 DEF Prepare
<1>5. ASSUME NEW w \in Workers, Settle(w) PROVE FailedMeansNotMinted'
  <2>1. /\ worker[w].att \in DOMAIN attempts /\ attempts[worker[w].att] \in Attempt
        /\ minted' = minted /\ At(w, "settle")
    BY <1>5, Rows DEF Settle, At, RunKnows, TypeOK, supplyVars
  <2>2. CASE SettleIssued(w)
    <3>1. HandOver(w)
      BY <2>1, <2>2 DEF SettleIssued, SettleStranded, HandOverTooLate, CallStands, Calling, At
    <3>2. Finalise(worker[w].att, "succeeded", attempts[worker[w].att].err)
      BY <3>1 DEF HandOver, InsertIssuedDelivery
    <3>. DEFINE r == [attempts[worker[w].att] EXCEPT !.state = "succeeded"]
    <3>3. attempts[worker[w].att].state = "in_flight"
      BY <2>1 DEF CallStands, Calling, At
    <3>4. r.state = "succeeded" /\ attempts' = [attempts EXCEPT ![worker[w].att] = r]
      BY <2>1, <3>2, <3>3 DEF Finalise, Attempt
    <3>. HIDE DEF r
    <3>. QED BY <1>3, <2>1, <3>4
  <2>3. CASE SettleRefused(w) \/ SettleUnknown(w) \/ SettleResolved(w)
    <3>1. worker[w].outcome = "refused" => worker[w].att \notin minted
      BY <2>1 DEF RefusalTrue
    <3>. QED BY <1>1, <1>3, <1>5, <2>1, <2>3, <3>1, SettleRewrites
  <2>. QED BY <1>5, <2>2, <2>3 DEF Settle
<1>6. ASSUME NEW w \in Workers, Post(w) \/ Lookup(w) PROVE FailedMeansNotMinted'
  BY <1>1, <1>2, <1>6 DEF Post, Lookup, LostPost, supplyVars
<1>7. ASSUME NEW w \in Workers, Crash(w) \/ AbortTransaction(w) PROVE FailedMeansNotMinted'
  BY <1>1, <1>2, <1>7 DEF Crash, AbortTransaction, LostPost, supplyVars
<1>8. ASSUME NEW w \in Workers,
             Claim(w) \/ ExceedBudget(w) \/ ForceOutcome(w) \/ Complete(w) \/ Fail(w)
      PROVE  FailedMeansNotMinted'
  BY <1>1, <1>8 DEF Claim, ExceedBudget, ForceOutcome, Complete, Fail, supplyVars
<1>9. CASE PlaceOrder \/ CapturePayment \/ Reclaim \/ RequeueStuck \/ Redeliver \/ UNCHANGED vars
  BY <1>1, <1>9 DEF PlaceOrder, CapturePayment, Reclaim, RequeueStuck, Redeliver, vars, supplyVars
<1>10. ASSUME NEW i \in DOMAIN attempts, DemoteInFlight(i) \/ RedriveUnknown(i)
       PROVE  FailedMeansNotMinted'
  <2>1. minted' = minted
    BY <1>10 DEF DemoteInFlight, PromoteToUnknown, RedriveUnknown, Resolvable, supplyVars
  <2>2. PICK r : attempts' = [attempts EXCEPT ![i] = r] /\ r.state = "unknown"
    BY <1>10, SweepRewrites
  <2>. QED BY <1>3, <2>1, <2>2
<1>11. ASSUME NEW i \in late, LatePost(i) PROVE FailedMeansNotMinted'
  BY <1>11 DEF NothingLate
<1>12. ASSUME NEW w \in Workers, Run(w) PROVE FailedMeansNotMinted'
  BY <1>4, <1>5, <1>6, <1>8, <1>12 DEF Run
<1>. QED BY <1>7, <1>9, <1>10, <1>11, <1>12 DEF Next, Sweeper

-----------------------------------------------------------------------------
(* How many attempts a generation can have.                                *)

RowsOf(a, g) == {i \in DOMAIN a : a[i].gen = g}
Asked(a, g) == Cardinality(RowsOf(a, g))

Own(i) == AttemptsFor(attempts, attempts[i].gen, attempts[i].sup)

\* A supplier's attempts are numbered within their count, which its budget bounds.
NumbersFit ==
  \A i \in DOMAIN attempts :
    /\ attempts[i].no \in 1 .. Cardinality(Own(i))
    /\ Cardinality(Own(i)) <= MaxAttemptsPerSupplier

LEMMA RowsFinite ==
  ASSUME NEW a \in Seq(Attempt)
  PROVE  /\ \A g : Asked(a, g) \in Nat /\ IsFiniteSet(RowsOf(a, g))
         /\ \A g, s : /\ IsFiniteSet(AttemptsFor(a, g, s))
                      /\ Cardinality(AttemptsFor(a, g, s)) \in Nat
<1>1. IsFiniteSet(DOMAIN a)
  BY LenProperties, FS_Interval
<1>2. ASSUME NEW S \in SUBSET DOMAIN a PROVE IsFiniteSet(S) /\ Cardinality(S) \in Nat
  BY <1>1, <1>2, FS_Subset, FS_CardinalityType
<1>3. \A g : RowsOf(a, g) \in SUBSET DOMAIN a
  BY DEF RowsOf
<1>4. \A g, s : AttemptsFor(a, g, s) \in SUBSET DOMAIN a
  BY DEF AttemptsFor
<1>. QED BY <1>2, <1>3, <1>4 DEF Asked

\* No two attempts of a generation share a supplier and a number.
LEMMA AskedBound ==
  ASSUME TypeOK, NumbersFit, FallbackMovesForward, NEW g
  PROVE  Asked(attempts, g) <= Len(FallbackChain) * MaxAttemptsPerSupplier
<1>. DEFINE R == RowsOf(attempts, g)
            T == (1 .. Len(FallbackChain)) \X (1 .. MaxAttemptsPerSupplier)
            f == [i \in R |-> <<Rank(attempts[i].sup), attempts[i].no>>]
<1>1. /\ Len(FallbackChain) \in Nat
      /\ DOMAIN FallbackChain = 1 .. Len(FallbackChain)
      /\ MaxAttemptsPerSupplier \in Nat
  BY PlanAssumption, LenProperties, SupplierAssumption
<1>2. ASSUME NEW i \in R
      PROVE  /\ i \in DOMAIN attempts /\ attempts[i] \in Attempt /\ attempts[i].gen = g
             /\ Rank(attempts[i].sup) \in 1 .. Len(FallbackChain)
             /\ attempts[i].no \in 1 .. MaxAttemptsPerSupplier
  <2>1. i \in DOMAIN attempts /\ attempts[i] \in Attempt /\ attempts[i].gen = g
    BY Rows DEF RowsOf
  <2>2. Rank(attempts[i].sup) \in 1 .. Len(FallbackChain)
    BY <1>1, <2>1, RankOf DEF Attempt
  <2>3. Cardinality(Own(i)) \in Nat
    BY Rows, RowsFinite DEF Own
  <2>4. attempts[i].no \in 1 .. Cardinality(Own(i)) /\ Cardinality(Own(i)) <= MaxAttemptsPerSupplier
    BY <2>1 DEF NumbersFit
  <2>. QED BY <1>1, <2>1, <2>2, <2>3, <2>4
<1>3. ASSUME NEW i \in R, NEW j \in R, i < j PROVE f[i] # f[j]
  <2>1. CASE attempts[i].sup = attempts[j].sup
    <3>1. attempts[i].no < attempts[j].no
      BY <1>2, <1>3, <2>1 DEF FallbackMovesForward
    <3>2. attempts[i].no \in Int /\ attempts[j].no \in Int
      BY <1>2
    <3>. QED BY <3>1, <3>2
  <2>2. CASE attempts[i].sup # attempts[j].sup
    <3>1. Rank(attempts[i].sup) # Rank(attempts[j].sup)
      BY <1>2, <2>2, RankOf DEF Attempt
    <3>. QED BY <3>1
  <2>. QED BY <2>1, <2>2
<1>4. f \in Injection(R, T)
  <2>1. f \in [R -> T]
    BY <1>2
  <2>2. \A i, j \in R : i # j => i < j \/ j < i
    BY <1>2, Rows
  <2>3. \A i, j \in R : f[i] = f[j] => i = j
    BY <1>3, <2>2
  <2>. HIDE DEF f, R, T
  <2>. QED BY <2>1, <2>3 DEF Injection, IsInjective
<1>5. /\ IsFiniteSet(T)
      /\ Cardinality(T) = Len(FallbackChain) * MaxAttemptsPerSupplier
  <2>1. ASSUME NEW n \in Nat PROVE IsFiniteSet(1 .. n) /\ Cardinality(1 .. n) = n
    <3>1. n \in Int /\ 1 \in Int /\ n = (IF 1 > n THEN 0 ELSE n - 1 + 1)
      OBVIOUS
    <3>. QED BY <3>1, FS_Interval, ZenonT(30)
  <2>2. IsFiniteSet(1 .. Len(FallbackChain)) /\ IsFiniteSet(1 .. MaxAttemptsPerSupplier)
    BY <1>1, <2>1
  <2>3. Cardinality(T) = Cardinality(1 .. Len(FallbackChain))
                           * Cardinality(1 .. MaxAttemptsPerSupplier)
    BY <2>2, FS_Product
  <2>4. IsFiniteSet(T)
    BY <2>2, FS_Product
  <2>. QED BY <1>1, <2>1, <2>3, <2>4
<1>. HIDE DEF f, R, T
<1>6. Cardinality(R) <= Cardinality(T)
  BY <1>4, <1>5, FS_Injection
<1>. QED BY <1>5, <1>6 DEF Asked, R

\* A rewritten row still counts, and as what it counted.
LEMMA RewriteCounts ==
  ASSUME TypeOK, RewriteOpen
  PROVE  /\ DOMAIN attempts' = DOMAIN attempts
         /\ \A i \in DOMAIN attempts :
              /\ attempts'[i].gen = attempts[i].gen
              /\ attempts'[i].sup = attempts[i].sup
              /\ attempts'[i].no = attempts[i].no
              /\ attempts'[i].resolves >= attempts[i].resolves
<1>1. PICK o \in OpenAttempts, r \in Attempt :
        /\ r.gen = attempts[o].gen /\ r.sup = attempts[o].sup /\ r.no = attempts[o].no
        /\ r.resolves >= attempts[o].resolves
        /\ attempts' = [attempts EXCEPT ![o] = r]
  BY DEF RewriteOpen
<1>2. ASSUME NEW i \in DOMAIN attempts PROVE attempts[i].resolves >= attempts[i].resolves
  BY Rows DEF Attempt
<1>. QED BY <1>1, <1>2

\* An appended row is one more of the order's generation and of none other.
LEMMA AppendCounts ==
  ASSUME TypeOK, NEW r, attempts' = Append(attempts, r)
  PROVE  /\ DOMAIN attempts' = DOMAIN attempts \cup {Len(attempts) + 1}
         /\ Len(attempts) + 1 \notin DOMAIN attempts
         /\ attempts'[Len(attempts) + 1] = r
         /\ \A i \in DOMAIN attempts : attempts'[i] = attempts[i]
<1>. DEFINE S == {attempts[i] : i \in DOMAIN attempts} \cup {r}
<1>1. attempts \in Seq(S) /\ r \in S
  <2>1. \A i \in 1 .. Len(attempts) : attempts[i] \in S
    BY Rows
  <2>. QED BY <2>1, Rows, LenProperties, SeqDef
<1>. HIDE DEF S
<1>. QED BY <1>1, Rows, AppendProperties, LenProperties

LEMMA StepNumbers ==
  ASSUME TypeOK, NumbersFit, UNCHANGED attempts \/ RewriteOpen \/ AppendRow
  PROVE  NumbersFit'
<1>1. CASE UNCHANGED attempts
  BY <1>1 DEF NumbersFit, Own
<1>2. CASE RewriteOpen
  <2>1. \A i \in DOMAIN attempts : Own(i)' = Own(i)
    BY <1>2, RewriteCounts DEF Own, AttemptsFor
  <2>. QED BY <1>2, <2>1, RewriteCounts DEF NumbersFit
<1>3. CASE AppendRow
  <2>1. PICK r \in Attempt, c \in Pick :
          /\ r.gen = generation /\ r.sup = c.sup /\ r.no = c.no
          /\ attempts' = Append(attempts, r)
    BY <1>3 DEF AppendRow
  <2>. DEFINE n == Len(attempts) + 1
              A == AttemptsFor(attempts, generation, c.sup)
  <2>2. /\ DOMAIN attempts' = DOMAIN attempts \cup {n}
        /\ n \notin DOMAIN attempts
        /\ attempts'[n] = r
        /\ \A i \in DOMAIN attempts : attempts'[i] = attempts[i]
    BY <2>1, AppendCounts
  <2>. HIDE DEF n
  <2>3. /\ IsFiniteSet(A) /\ Cardinality(A) \in Nat /\ n \notin A
        /\ Cardinality(A \cup {n}) = Cardinality(A) + 1
    <3>1. IsFiniteSet(A) /\ Cardinality(A) \in Nat
      BY Rows, RowsFinite
    <3>2. n \notin A
      BY <2>2 DEF AttemptsFor
    <3>. QED BY <3>1, <3>2, FS_AddElement
  <2>4. c.no \in 1 .. Cardinality(A) + 1 /\ Cardinality(A) + 1 <= MaxAttemptsPerSupplier
    <3>1. c.no \in NextNo(attempts, generation, c.sup, MaxAttemptsPerSupplier)
      BY PickIsFirst
    <3>2. CASE A = {}
      <4>1. c.no = 1 /\ Cardinality(A) = 0
        BY <3>1, <3>2, FS_EmptySet DEF NextNo
      <4>. QED BY <4>1, SupplierAssumption
    <3>3. CASE A # {}
      <4>1. PICK j \in A : c.no = attempts[j].no + 1 /\ Cardinality(A) < MaxAttemptsPerSupplier
        BY <3>1, <3>3 DEF NextNo, LastAttemptFor
      <4>2. j \in DOMAIN attempts /\ Own(j) = A
        BY DEF Own, AttemptsFor
      <4>3. attempts[j].no \in 1 .. Cardinality(A)
        BY <4>2 DEF NumbersFit
      <4>. QED BY <2>3, <4>1, <4>3, SupplierAssumption
    <3>. QED BY <3>2, <3>3
  <2>5. ASSUME NEW i \in DOMAIN attempts'
        PROVE  /\ attempts'[i].no \in 1 .. Cardinality(Own(i)')
               /\ Cardinality(Own(i)') <= MaxAttemptsPerSupplier
    <3>1. CASE attempts'[i].gen = generation /\ attempts'[i].sup = c.sup
      <4>1. Own(i)' = A \cup {n}
        BY <2>1, <2>2, <3>1 DEF Own, AttemptsFor
      <4>2. CASE i = n
        BY <2>1, <2>2, <2>3, <2>4, <4>1, <4>2
      <4>3. CASE i # n
        <5>1. i \in DOMAIN attempts /\ attempts'[i] = attempts[i] /\ Own(i) = A
          BY <2>2, <3>1, <4>3 DEF Own, AttemptsFor
        <5>2. attempts[i].no \in 1 .. Cardinality(A)
          BY <5>1 DEF NumbersFit
        <5>. QED BY <2>3, <2>4, <4>1, <5>1, <5>2
      <4>. QED BY <4>2, <4>3
    <3>2. CASE ~(attempts'[i].gen = generation /\ attempts'[i].sup = c.sup)
      <4>1. i \in DOMAIN attempts /\ attempts'[i] = attempts[i]
        BY <2>1, <2>2, <3>2
      <4>2. Own(i)' = Own(i)
        BY <2>1, <2>2, <3>2, <4>1 DEF Own, AttemptsFor
      <4>. QED BY <4>1, <4>2 DEF NumbersFit
    <3>. QED BY <3>1, <3>2
  <2>. QED BY <2>5 DEF NumbersFit
<1>. QED BY <1>1, <1>2, <1>3

-----------------------------------------------------------------------------
(* The claims of a job last for the chain: while nothing fails and every   *)
(* answer is definite, each claim but the last has an attempt to show.      *)

Definite == faults = 0 /\ \A i \in DOMAIN attempts : attempts[i].resolves = 0

\* An open attempt is one a run is calling for, by a POST.
Attended ==
  /\ \A i \in OpenAttempts : \E w \in Workers : Calling(w) /\ worker[w].att = i
  /\ \A w \in Workers : ~worker[w].lookup

\* A claimed job is in the hands of its run.
OwnerRuns == job # NoJob /\ job.state = "running" => job.owner \in Workers /\ Busy(job.owner)

ClaimsCounted ==
  /\ job # NoJob /\ job.state = "pending" => job.tries <= Asked(attempts, job.gen)
  /\ \A w \in Workers : Busy(w) =>
       /\ worker[w].last => job.tries = JobMaxAttempts
       /\ At(w, "first") => job.tries <= Asked(attempts, job.gen) + 1
       /\ worker[w].pc \notin {"first", "done"} => job.tries <= Asked(attempts, job.gen)

Budgeted == Attended /\ OwnerRuns /\ ClaimsCounted

LEMMA AskedSame ==
  ASSUME TypeOK, UNCHANGED attempts \/ RewriteOpen, NEW g
  PROVE  Asked(attempts', g) = Asked(attempts, g)
<1>1. RowsOf(attempts', g) = RowsOf(attempts, g)
  BY RewriteCounts DEF RowsOf
<1>. QED BY <1>1 DEF Asked

LEMMA AskedGrows ==
  ASSUME TypeOK, TypeOK', NEW r, attempts' = Append(attempts, r)
  PROVE  /\ Asked(attempts', r.gen) = Asked(attempts, r.gen) + 1
         /\ \A g : Asked(attempts', g) >= Asked(attempts, g)
<1>. DEFINE n == Len(attempts) + 1
<1>1. /\ RowsOf(attempts', r.gen) = RowsOf(attempts, r.gen) \cup {n}
      /\ n \notin RowsOf(attempts, r.gen)
  BY AppendCounts DEF RowsOf
<1>2. Cardinality(RowsOf(attempts, r.gen) \cup {n}) = Cardinality(RowsOf(attempts, r.gen)) + 1
  BY <1>1, Rows, RowsFinite, FS_AddElement
<1>3. ASSUME NEW g PROVE Asked(attempts', g) >= Asked(attempts, g)
  <2>1. RowsOf(attempts, g) \in SUBSET RowsOf(attempts', g)
    BY AppendCounts DEF RowsOf
  <2>2. IsFiniteSet(RowsOf(attempts', g)) /\ Asked(attempts', g) \in Nat
    BY RowsFinite DEF TypeOK
  <2>3. Asked(attempts, g) \in Nat
    BY RowsFinite DEF TypeOK
  <2>4. Cardinality(RowsOf(attempts, g)) <= Cardinality(RowsOf(attempts', g))
    BY <2>1, <2>2, FS_Subset
  <2>. QED BY <2>2, <2>3, <2>4 DEF Asked
<1>. QED BY <1>1, <1>2, <1>3 DEF Asked

\* Doubt stays: a fault is not forgotten, nor is an attempt that was looked for.
LEMMA DefiniteBefore ==
  ASSUME TypeOK, RunKnows, [Next]_vars, Definite'
  PROVE  Definite /\ faults' = faults
<1>1. faults' = faults
  <2>1. faults \in Nat /\ faults' = 0
    BY DEF TypeOK, Definite
  <2>2. ASSUME NEW w \in Workers, Run(w) PROVE faults' = faults
    BY <2>2 DEF Run, Claim, Prepare, ExceedBudget, Post, Lookup, Settle, ForceOutcome,
                Complete, Fail
  <2>3. ASSUME NEW w \in Workers, Crash(w) \/ AbortTransaction(w) PROVE FALSE
    BY <2>1, <2>3 DEF Crash, AbortTransaction
  <2>4. ASSUME PlaceOrder \/ CapturePayment \/ Sweeper \/ UNCHANGED vars PROVE faults' = faults
    BY <2>4 DEF PlaceOrder, CapturePayment, Sweeper, Reclaim, RequeueStuck, Redeliver,
                DemoteInFlight, RedriveUnknown, vars
  <2>5. ASSUME NEW i \in late, LatePost(i) PROVE faults' = faults
    BY <2>5 DEF LatePost
  <2>. QED BY <2>2, <2>3, <2>4, <2>5 DEF Next
<1>2. ASSUME NEW i \in DOMAIN attempts PROVE attempts[i].resolves = 0
  <2>1. attempts[i].resolves \in Nat
    BY Rows, SupplierAssumption DEF Attempt
  <2>2. CASE UNCHANGED attempts
    BY <2>2 DEF Definite
  <2>3. CASE RewriteOpen
    BY <2>1, <2>3, RewriteCounts DEF Definite
  <2>4. CASE AppendRow
    <3>1. PICK r : attempts' = Append(attempts, r)
      BY <2>4 DEF AppendRow
    <3>. QED BY <3>1, AppendCounts DEF Definite
  <2>. QED BY <2>2, <2>3, <2>4, StepShape
<1>. QED BY <1>1, <1>2 DEF Definite

\* A run between two calls finds no open attempt.
LEMMA NothingOpen ==
  ASSUME LockHeld, Attended, NEW w \in Workers, Busy(w), ~Calling(w)
  PROVE  OpenAttempts = {}
<1>1. \A v \in Workers : Calling(v) => v = w
  BY Alone DEF Calling, Busy
<1>. QED BY <1>1 DEF Attended

\* A turn of a run keeps the count, if its first one ends the run or asks a supplier.
LEMMA TurnCounted ==
  ASSUME TypeOK, TypeOK', LockHeld, ClaimsCounted, NEW w \in Workers,
         job' = job, Busy(w), \A v \in Workers \ {w} : worker'[v] = worker[v],
         worker'[w].last = worker[w].last, ~At(w, "done"), worker'[w].pc # "first",
         \A g : Asked(attempts', g) >= Asked(attempts, g),
         \/ ~At(w, "first")
         \/ worker'[w].pc = "done"
         \/ Asked(attempts', job.gen) = Asked(attempts, job.gen) + 1
  PROVE  ClaimsCounted'
<1>1. job # NoJob /\ job.state = "running" /\ job \in Job
  BY DEF LockHeld, TypeOK
<1>2. \A v \in Workers \ {w} : ~Busy(v)'
  BY Alone DEF Busy
<1>3. Asked(attempts, job.gen) \in Nat /\ Asked(attempts', job.gen) \in Nat /\ job.tries \in Nat
  BY <1>1, RowsFinite, SupplierAssumption DEF Job, TypeOK
<1>4. worker'[w].pc # "done" => job.tries <= Asked(attempts', job.gen)
  BY <1>3 DEF ClaimsCounted, At
<1>. QED BY <1>1, <1>2, <1>4 DEF ClaimsCounted, At, Busy

LEMMA LeaveFields ==
  ASSUME TypeOK, NEW w \in Workers, NEW pc, Leave(w, pc)
  PROVE  /\ worker'[w].pc = pc /\ worker'[w].last = worker[w].last /\ ~worker'[w].lookup
         /\ \A v \in Workers \ {w} : worker'[v] = worker[v]
BY DEF Leave, TypeOK, Idle

\* A settlement that leaves nothing in doubt closes the attempt.
LEMMA SettleCloses ==
  ASSUME TypeOK, RunKnows, CallStands, Attended, Definite', NEW w \in Workers, Settle(w)
  PROVE  attempts'[worker[w].att].state \notin OpenState
<1>. DEFINE i == worker[w].att
<1>1. /\ i \in DOMAIN attempts /\ attempts[i] \in Attempt
      /\ attempts[i].state = "in_flight" /\ ~Stale(w) /\ status = "delivering"
      /\ ~worker[w].lookup
  BY Rows DEF Settle, At, RunKnows, TypeOK, CallStands, Calling, Attended
<1>2. CASE SettleIssued(w)
  BY <1>1, <1>2 DEF SettleIssued, SettleStranded, HandOver, HandOverTooLate, Finalise, Attempt,
                    OpenState
<1>3. CASE SettleRefused(w)
  BY <1>1, <1>3 DEF SettleRefused, Finalise, Attempt, OpenState
<1>4. CASE SettleUnknown(w)
  <2>1. /\ attempts'[i].resolves = Cap(attempts[i].resolves + 1, MaxResolve)
        /\ i \in DOMAIN attempts'
    <3>1. PromoteToUnknown(i, worker[w].err)
      BY <1>1, <1>4 DEF SettleUnknown
    <3>. HIDE DEF i
    <3>. QED BY <1>1, <3>1 DEF PromoteToUnknown, Attempt
  <2>2. Cap(attempts[i].resolves + 1, MaxResolve) > 0
    BY <1>1, CapType DEF Attempt
  <2>. QED BY <2>1, <2>2 DEF Definite
<1>5. CASE SettleResolved(w)
  BY <1>1, <1>5 DEF SettleResolved
<1>. QED BY <1>2, <1>3, <1>4, <1>5 DEF Settle

LEMMA StepBudgeted ==
  ASSUME TtlCoversRun, TypeOK, TypeOK', RunKnows, LockHeld, CallStands, OwnClaim,
         Definite, Definite', Budgeted, [Next]_vars
  PROVE  Budgeted'
<1>. USE DEF Budgeted
<1>0. faults' = faults /\ faults \in Nat
  BY DEF TypeOK, Definite
<1>1. ASSUME worker' = worker, attempts' = attempts, job' = job PROVE Budgeted'
  BY <1>1 DEF Attended, OwnerRuns, ClaimsCounted, OpenAttempts, Open, Calling, Busy, At
<1>2. ASSUME NEW g, Enqueue(g), worker' = worker, attempts' = attempts PROVE Budgeted'
  <2>1. CASE job # NoJob
    BY <1>1, <1>2, <2>1 DEF Enqueue
  <2>2. CASE job = NoJob
    <3>1. job'.state = "pending" /\ job'.tries = 0
      BY <1>2, <2>2 DEF Enqueue, NewJob
    <3>2. \A v \in Workers : ~Busy(v)'
      BY <1>2, <2>2 DEF LockHeld, Busy
    <3>3. Asked(attempts', job'.gen) \in Nat
      BY RowsFinite DEF TypeOK
    <3>4. Attended'
      BY <1>2 DEF Attended, OpenAttempts, Open, Calling
    <3>. QED BY <3>1, <3>2, <3>3, <3>4 DEF OwnerRuns, ClaimsCounted
  <2>. QED BY <2>1, <2>2
\* A turn after which nothing is open.
<1>3. ASSUME NEW w \in Workers, NEW pc, pc # "first", pc # "idle", Leave(w, pc), OpenAttempts' = {},
             job' = job, Busy(w), ~At(w, "done"), At(w, "first") => pc = "done",
             UNCHANGED attempts \/ RewriteOpen
      PROVE  Budgeted'
  <2>1. /\ worker'[w].pc = pc /\ worker'[w].last = worker[w].last /\ ~worker'[w].lookup
        /\ \A v \in Workers \ {w} : worker'[v] = worker[v]
    BY <1>3, LeaveFields
  <2>2. Attended'
    BY <1>3, <2>1 DEF Attended
  <2>3. \A g : Asked(attempts', g) >= Asked(attempts, g)
    <3>1. ASSUME NEW g PROVE Asked(attempts', g) >= Asked(attempts, g)
      <4>1. Asked(attempts', g) = Asked(attempts, g) /\ Asked(attempts, g) \in Nat
        BY <1>3, AskedSame, RowsFinite DEF TypeOK
      <4>. QED BY <4>1
    <3>. QED BY <3>1
  <2>4. ClaimsCounted'
    BY <1>3, <2>1, <2>3, TurnCounted
  <2>5. OwnerRuns'
    BY <1>3, <2>1 DEF OwnerRuns, Busy
  <2>. QED BY <2>2, <2>4, <2>5
<1>4. ASSUME NEW w \in Workers, Claim(w) PROVE Budgeted'
  <2>1. /\ job # NoJob /\ job.state = "pending" /\ job \in Job /\ attempts' = attempts
        /\ \A v \in Workers : ~Busy(v)
    BY <1>4 DEF Claim, LockHeld, TypeOK
  <2>. DEFINE t == Cap(job.tries + 1, JobMaxAttempts)
  <2>2. /\ job' = [job EXCEPT !.state = "running", !.owner = w, !.tries = t]
        /\ worker' = [worker EXCEPT ![w] = [Idle EXCEPT !.pc = "first", !.gen = job.gen,
                                                        !.last = (t = JobMaxAttempts)]]
    BY <1>4 DEF Claim
  <2>3. t <= Asked(attempts, job.gen) + 1
    <3>1. job.tries \in Nat /\ Asked(attempts, job.gen) \in Nat /\ JobMaxAttempts \in Nat
      BY <2>1, RowsFinite, SupplierAssumption DEF Job, TypeOK
    <3>2. job.tries <= Asked(attempts, job.gen)
      BY <2>1 DEF ClaimsCounted
    <3>. QED BY <3>1, <3>2 DEF Cap
  <2>. HIDE DEF t
  <2>4. job'.state = "running" /\ job'.owner = w /\ job'.tries = t /\ job'.gen = job.gen
    BY <2>1, <2>2 DEF Job
  <2>5. /\ worker'[w].pc = "first" /\ worker'[w].last = (t = JobMaxAttempts) /\ ~worker'[w].lookup
        /\ \A v \in Workers \ {w} : worker'[v] = worker[v]
    BY <2>2 DEF TypeOK, Idle
  <2>6. Attended'
    BY <2>1, <2>5 DEF Attended, OpenAttempts, Open, Calling, Busy
  <2>7. OwnerRuns'
    BY <2>4, <2>5 DEF OwnerRuns, Busy
  <2>8. ClaimsCounted'
    BY <2>1, <2>3, <2>4, <2>5 DEF ClaimsCounted, Busy, At
  <2>. QED BY <2>6, <2>7, <2>8
<1>5. CASE Reclaim
  BY <1>5 DEF Reclaim, OwnerRuns
<1>6. ASSUME NEW w \in Workers, Prepare(w) PROVE Budgeted'
  <2>1. /\ Busy(w) /\ ~Calling(w) /\ ~At(w, "done") /\ job' = job
    BY <1>6 DEF Prepare, At, Busy, Calling
  <2>2. OpenAttempts = {}
    BY <2>1, NothingOpen
  <2>3. CASE PrepareSkip(w) \/ ExhaustChain(w)
    BY <1>3, <2>1, <2>2, <2>3 DEF PrepareSkip, ExhaustChain, OpenAttempts, Open
  <2>4. CASE ~Skip(w) /\ StartAttempt(w)
    <3>. DEFINE n == Len(attempts) + 1
    <3>1. PICK r : /\ attempts' = Append(attempts, r) /\ r.gen = generation
                   /\ r.state = "in_flight"
      BY <2>4 DEF StartAttempt, InsertAttempt
    <3>2. /\ worker'[w].pc = "call" /\ worker'[w].att = n
          /\ worker'[w].last = worker[w].last /\ worker'[w].lookup = worker[w].lookup
          /\ \A v \in Workers \ {w} : worker'[v] = worker[v]
      BY <2>4 DEF StartAttempt, TypeOK
    <3>3. generation = job.gen
      BY <2>1, <2>4 DEF Skip, OwnClaim, Holds, LockHeld
    <3>4. /\ Asked(attempts', job.gen) = Asked(attempts, job.gen) + 1
          /\ \A g : Asked(attempts', g) >= Asked(attempts, g)
      BY <3>1, <3>3, AskedGrows
    <3>5. OpenAttempts' \subseteq {n}
      BY <2>2, <3>1, AppendCounts DEF OpenAttempts, Open
    <3>6. Attended'
      BY <3>2, <3>5 DEF Attended, Calling
    <3>7. ClaimsCounted'
      BY <2>1, <3>2, <3>4, TurnCounted
    <3>8. OwnerRuns'
      BY <2>1, <3>2 DEF OwnerRuns, Busy
    <3>. QED BY <3>6, <3>7, <3>8
  <2>. QED BY <1>6, <2>2, <2>3, <2>4 DEF Prepare, ResumeAttempt
<1>7. ASSUME NEW w \in Workers, ExceedBudget(w) \/ ForceOutcome(w) PROVE Budgeted'
  <2>1. /\ Busy(w) /\ ~Calling(w) /\ ~At(w, "done") /\ ~At(w, "first")
        /\ job' = job /\ attempts' = attempts
    BY <1>7 DEF ExceedBudget, ForceOutcome, At, Busy, Calling
  <2>2. OpenAttempts' = {}
    BY <2>1, NothingOpen DEF OpenAttempts, Open
  <2>3. Leave(w, "force") \/ Leave(w, "failed") \/ Leave(w, "done")
    BY <1>7 DEF ExceedBudget, ForceOutcome, RetryPlace
  <2>. QED BY <1>3, <2>1, <2>2, <2>3
<1>8. ASSUME NEW w \in Workers, Post(w) \/ Lookup(w) PROVE Budgeted'
  <2>1. PICK o, e : worker' = [worker EXCEPT ![w].pc = "settle", ![w].outcome = o, ![w].err = e]
    BY <1>8 DEF Post, Lookup, Answer
  <2>2. /\ worker'[w].pc = "settle" /\ worker'[w].att = worker[w].att
        /\ worker'[w].last = worker[w].last /\ worker'[w].lookup = worker[w].lookup
        /\ \A v \in Workers \ {w} : worker'[v] = worker[v]
    BY <2>1 DEF TypeOK
  <2>3. At(w, "call") /\ Busy(w) /\ attempts' = attempts /\ job' = job
    BY <1>8 DEF Post, Lookup, At, Busy
  <2>4. Attended'
    BY <2>2, <2>3 DEF Attended, OpenAttempts, Open, Calling, At
  <2>5. \A g : Asked(attempts', g) >= Asked(attempts, g)
    BY <2>3, RowsFinite DEF TypeOK
  <2>6. ClaimsCounted'
    BY <2>2, <2>3, <2>5, TurnCounted DEF At
  <2>7. OwnerRuns'
    BY <2>2, <2>3 DEF OwnerRuns, Busy
  <2>. QED BY <2>4, <2>6, <2>7
<1>9. ASSUME NEW w \in Workers, Settle(w) PROVE Budgeted'
  <2>1. Busy(w) /\ Calling(w) /\ ~At(w, "done") /\ ~At(w, "first") /\ job' = job
    BY <1>9 DEF Settle, At, Busy, Calling
  <2>2. UNCHANGED attempts \/ RewriteOpen
    BY <1>9, SettleShape
  <2>3. OpenAttempts' = {}
    <3>1. \A v \in Workers : Calling(v) => v = w
      BY <2>1, Alone DEF Calling, Busy
    <3>2. OpenAttempts \subseteq {worker[w].att}
      BY <3>1 DEF Attended
    <3>3. \A i \in DOMAIN attempts' : i # worker[w].att => ~Open(i)'
      <4>1. CASE UNCHANGED attempts
        BY <3>2, <4>1 DEF OpenAttempts, Open
      <4>2. CASE RewriteOpen
        BY <3>2, <4>2 DEF RewriteOpen, OpenAttempts, Open
      <4>. QED BY <2>2, <4>1, <4>2
    <3>. QED BY <1>9, <3>3, SettleCloses DEF OpenAttempts, Open
  <2>4. Leave(w, "done") \/ Leave(w, "failed") \/ Leave(w, "again") \/ Leave(w, "force")
    BY <1>9 DEF Settle, SettleIssued, SettleStranded, HandOver, HandOverTooLate, SettleRefused,
                SettleUnknown, SettleResolved, ContinueOrRetry, RetryPlace
  <2>. QED BY <1>3, <2>1, <2>2, <2>3, <2>4
<1>10. ASSUME NEW w \in Workers, Complete(w) \/ Fail(w) PROVE Budgeted'
  <2>1. /\ Busy(w) /\ ~Calling(w) /\ attempts' = attempts
        /\ worker' = [worker EXCEPT ![w] = Idle]
    BY <1>10 DEF Complete, Fail, At, Busy, Calling
  <2>2. Holds(w) /\ job \in Job
    BY <2>1 DEF LockHeld, Holds, TypeOK
  <2>3. \A v \in Workers : ~Busy(v)'
    BY <2>1, Alone DEF TypeOK, Idle, Busy
  <2>4. Attended'
    <3>1. OpenAttempts' = {}
      BY <2>1, NothingOpen DEF OpenAttempts, Open
    <3>2. \A v \in Workers : ~worker'[v].lookup
      BY <2>1 DEF Attended, TypeOK, Idle
    <3>. QED BY <3>1, <3>2 DEF Attended
  <2>5. CASE job' = NoJob
    <3>1. job'.state = "none"
      BY <2>5 DEF NoJob
    <3>. QED BY <2>3, <2>4, <3>1 DEF OwnerRuns, ClaimsCounted
  <2>6. CASE At(w, "failed") /\ job' = [job EXCEPT !.state = "pending", !.owner = Nobody]
    <3>1. job'.state = "pending" /\ job'.tries = job.tries /\ job'.gen = job.gen
      BY <2>2, <2>6 DEF Job
    <3>2. job.tries <= Asked(attempts, job.gen)
      BY <2>1, <2>6 DEF ClaimsCounted, At
    <3>. QED BY <2>1, <2>3, <2>4, <3>1, <3>2 DEF OwnerRuns, ClaimsCounted
  <2>. QED BY <1>10, <2>2, <2>5, <2>6 DEF Complete, Fail
<1>11. ASSUME NEW w \in Workers, Crash(w) \/ AbortTransaction(w) PROVE FALSE
  BY <1>0, <1>11 DEF Crash, AbortTransaction
<1>12. ASSUME NEW i \in DOMAIN attempts, DemoteInFlight(i) \/ RedriveUnknown(i) PROVE FALSE
  <2>1. attempts[i] \in Attempt
    BY Rows
  <2>2. CASE DemoteInFlight(i)
    <3>1. /\ attempts'[i].resolves = Cap(attempts[i].resolves + 1, MaxResolve)
          /\ i \in DOMAIN attempts'
      BY <2>1, <2>2 DEF DemoteInFlight, PromoteToUnknown, Attempt
    <3>2. Cap(attempts[i].resolves + 1, MaxResolve) > 0
      BY <2>1, CapType DEF Attempt
    <3>. QED BY <3>1, <3>2 DEF Definite
  <2>3. CASE RedriveUnknown(i)
    BY <2>1, <2>3 DEF RedriveUnknown, Attempt, Definite
  <2>. QED BY <1>12, <2>2, <2>3
<1>13. CASE PlaceOrder \/ CapturePayment \/ RequeueStuck \/ Redeliver
            \/ (\E i \in late : LatePost(i)) \/ UNCHANGED vars
  BY <1>1, <1>2, <1>13 DEF PlaceOrder, CapturePayment, RequeueStuck, Redeliver, LatePost, vars
<1>14. ASSUME NEW w \in Workers, Run(w) PROVE Budgeted'
  BY <1>4, <1>6, <1>7, <1>8, <1>9, <1>10, <1>14 DEF Run
<1>. QED BY <1>5, <1>11, <1>12, <1>13, <1>14 DEF Next, Sweeper

-----------------------------------------------------------------------------
(* What an order gave up before its newest attempt.                        *)

\* A row that another one followed was refused or written off, and not the one
\* that was delivered.
OlderGivenUp ==
  \A i, j \in DOMAIN attempts :
    i < j => attempts[i].state \in {"failed", "abandoned_unknown"}

\* Who asks about an attempt has seen its count at the limit, and only who asked
\* writes off.
LimitReached ==
  /\ \A w \in Workers : worker[w].lookup =>
       Calling(w) /\ attempts[worker[w].att].resolves >= MaxResolve
  /\ \A i \in DOMAIN attempts :
       attempts[i].state = "abandoned_unknown" => attempts[i].resolves >= MaxResolve

LEMMA StepOlderGivenUp ==
  ASSUME TypeOK, RunKnows, DeliveredIsMinted, Settled, OlderGivenUp, [Next]_vars
  PROVE  OlderGivenUp'
<1>1. CASE UNCHANGED attempts
  BY <1>1 DEF OlderGivenUp
<1>2. CASE RewriteOpen
  <2>1. PICK o \in OpenAttempts, r \in Attempt : attempts' = [attempts EXCEPT ![o] = r]
    BY <1>2 DEF RewriteOpen
  <2>2. o \in DOMAIN attempts /\ attempts[o].state \in OpenState
    BY DEF OpenAttempts, Open
  <2>3. \A j \in DOMAIN attempts : ~(o < j)
    BY <2>2 DEF OlderGivenUp, OpenState
  <2>. QED BY <2>1, <2>3 DEF OlderGivenUp
<1>3. CASE AppendRow
  <2>1. PICK r : attempts' = Append(attempts, r)
    BY <1>3 DEF AppendRow
  <2>2. OpenAttempts = {} /\ delivered = None
    BY <1>3 DEF AppendRow, DeliveredIsMinted
  <2>3. ASSUME NEW i \in DOMAIN attempts
        PROVE  attempts[i].state \in {"failed", "abandoned_unknown"}
    <3>1. attempts[i].state \in AttemptState /\ i # None
      BY Rows DEF Attempt, None
    <3>2. attempts[i].state \notin OpenState /\ attempts[i].state # "succeeded"
      BY <2>2, <3>1 DEF OpenAttempts, Open, Settled
    <3>. QED BY <3>1, <3>2 DEF AttemptState, OpenState
  <2>4. \A i, j \in DOMAIN attempts' : i < j => i \in DOMAIN attempts
    BY <2>1, AppendCounts, Rows
  <2>. QED BY <2>1, <2>3, <2>4, AppendCounts DEF OlderGivenUp
<1>. QED BY <1>1, <1>2, <1>3, StepShape

\* The counts of a row only grow.
LEMMA ResolvesGrow ==
  ASSUME TypeOK, RunKnows, [Next]_vars
  PROVE  \A i \in DOMAIN attempts :
           i \in DOMAIN attempts' /\ attempts'[i].resolves >= attempts[i].resolves
<1>1. \A i \in DOMAIN attempts : attempts[i].resolves >= attempts[i].resolves
  BY Rows DEF Attempt
<1>2. CASE AppendRow
  <2>1. PICK r : attempts' = Append(attempts, r)
    BY <1>2 DEF AppendRow
  <2>. QED BY <1>1, <2>1, AppendCounts
<1>. QED BY <1>1, <1>2, StepShape, RewriteCounts

\* A row is written off by the run that asked about it.
LEMMA WrittenOff ==
  ASSUME TypeOK, RunKnows, LimitReached, [Next]_vars,
         NEW i \in DOMAIN attempts', attempts'[i].state = "abandoned_unknown"
  PROVE  i \in DOMAIN attempts /\ attempts[i].resolves >= MaxResolve
<1>. DEFINE Goal == i \in DOMAIN attempts /\ attempts[i].resolves >= MaxResolve
<1>1. ASSUME attempts' = attempts PROVE Goal
  BY <1>1 DEF LimitReached
<1>2. ASSUME NEW o \in DOMAIN attempts, NEW r, attempts' = [attempts EXCEPT ![o] = r],
             r.state = "abandoned_unknown" => attempts[o].resolves >= MaxResolve
      PROVE  Goal
  BY <1>2 DEF LimitReached
<1>3. ASSUME NEW w \in Workers, Prepare(w) PROVE Goal
  <2>1. CASE PrepareSkip(w) \/ ExhaustChain(w)
    BY <1>1, <2>1 DEF PrepareSkip, ExhaustChain
  <2>2. CASE ResumeAttempt(w)
    <3>1. PICK o \in OpenAttempts :
            attempts' = [attempts EXCEPT ![o].state = "in_flight", ![o].starter = w]
      BY <2>2 DEF ResumeAttempt, Resume
    <3>. DEFINE r == [attempts[o] EXCEPT !.state = "in_flight", !.starter = w]
    <3>2. o \in DOMAIN attempts /\ attempts[o] \in Attempt
      BY Rows DEF OpenAttempts
    <3>3. r.state = "in_flight" /\ attempts' = [attempts EXCEPT ![o] = r]
      BY <3>1, <3>2 DEF Attempt
    <3>. HIDE DEF r
    <3>. QED BY <1>2, <3>2, <3>3
  <2>3. CASE StartAttempt(w)
    <3>1. PICK r : attempts' = Append(attempts, r) /\ r.state = "in_flight"
      BY <2>3 DEF StartAttempt, InsertAttempt
    <3>. QED BY <3>1, AppendCounts DEF LimitReached
  <2>. QED BY <1>3, <2>1, <2>2, <2>3 DEF Prepare
<1>4. ASSUME NEW w \in Workers, Settle(w) PROVE Goal
  <2>. DEFINE o == worker[w].att
  <2>1. o \in DOMAIN attempts /\ attempts[o] \in Attempt
    BY <1>4, Rows DEF Settle, At, RunKnows, TypeOK
  <2>2. ASSUME NEW s, NEW e, s # "abandoned_unknown", Finalise(o, s, e) PROVE Goal
    <3>. DEFINE r == [attempts[o] EXCEPT !.state = s, !.err = e]
    <3>1. r.state = s
      BY <2>1 DEF Attempt
    <3>2. attempts' = attempts \/ attempts' = [attempts EXCEPT ![o] = r]
      BY <2>1, <2>2 DEF Finalise, Attempt
    <3>. HIDE DEF r, o
    <3>. QED BY <1>1, <1>2, <2>1, <2>2, <3>1, <3>2
  <2>3. CASE SettleIssued(w)
    BY <1>1, <2>2, <2>3 DEF SettleIssued, SettleStranded, HandOver, InsertIssuedDelivery,
                            HandOverTooLate
  <2>4. CASE SettleRefused(w)
    BY <2>2, <2>4 DEF SettleRefused
  <2>5. CASE SettleUnknown(w)
    <3>. DEFINE r == [attempts[o] EXCEPT !.state = "unknown", !.err = worker[w].err,
                                         !.resolves = Cap(attempts[o].resolves + 1, MaxResolve)]
    <3>1. r.state = "unknown"
      BY <2>1 DEF Attempt
    <3>2. attempts' = attempts \/ attempts' = [attempts EXCEPT ![o] = r]
      BY <2>1, <2>5 DEF SettleUnknown, PromoteToUnknown, Attempt
    <3>. HIDE DEF r, o
    <3>. QED BY <1>1, <1>2, <2>1, <3>1, <3>2
  <2>6. CASE SettleResolved(w)
    <3>1. attempts[o].resolves >= MaxResolve
      BY <2>6 DEF SettleResolved, LimitReached
    <3>2. \/ attempts' = attempts
          \/ \E r : attempts' = [attempts EXCEPT ![o] = r]
      BY <1>4, <2>6, SettleRewrites
    <3>. HIDE DEF o
    <3>. QED BY <1>1, <1>2, <2>1, <3>1, <3>2
  <2>. QED BY <1>4, <2>3, <2>4, <2>5, <2>6 DEF Settle
<1>5. ASSUME NEW o \in DOMAIN attempts, DemoteInFlight(o) \/ RedriveUnknown(o) PROVE Goal
  BY <1>2, <1>5, SweepRewrites
<1>6. ASSUME NEW w \in Workers, Run(w), ~Prepare(w), ~Settle(w) PROVE attempts' = attempts
  BY <1>6 DEF Run, Claim, ExceedBudget, Post, Lookup, ForceOutcome, Complete, Fail
<1>7. ASSUME NEW w \in Workers, Crash(w) \/ AbortTransaction(w) PROVE attempts' = attempts
  BY <1>7 DEF Crash, AbortTransaction
<1>8. CASE PlaceOrder \/ CapturePayment \/ Reclaim \/ RequeueStuck \/ Redeliver
           \/ (\E j \in late : LatePost(j)) \/ UNCHANGED vars
  BY <1>1, <1>8 DEF PlaceOrder, CapturePayment, Reclaim, RequeueStuck, Redeliver, LatePost, vars
<1>. QED BY <1>1, <1>3, <1>4, <1>5, <1>6, <1>7, <1>8 DEF Next, Sweeper

\* Whoever asks has begun to ask in this step, with the count at the limit, or
\* was asking before.
LEMMA Asking ==
  ASSUME TypeOK, RunKnows, LimitReached, [Next]_vars,
         NEW v \in Workers, worker'[v].lookup
  PROVE  /\ Calling(v)'
         /\ worker'[v].att \in DOMAIN attempts
         /\ attempts[worker'[v].att].resolves >= MaxResolve
<1>. DEFINE Goal == /\ Calling(v)'
                    /\ worker'[v].att \in DOMAIN attempts
                    /\ attempts[worker'[v].att].resolves >= MaxResolve
<1>1. ASSUME worker'[v] = worker[v] PROVE Goal
  BY <1>1 DEF LimitReached, Calling, RunKnows, TypeOK
<1>2. ASSUME NEW w \in Workers, NEW pc, Leave(w, pc) PROVE Goal
  BY <1>1, <1>2, LeaveFields
<1>3. ASSUME NEW w \in Workers, Prepare(w) PROVE Goal
  <2>1. CASE PrepareSkip(w) \/ ExhaustChain(w)
    BY <1>2, <2>1 DEF PrepareSkip, ExhaustChain
  <2>2. CASE ResumeAttempt(w)
    <3>1. PICK i \in OpenAttempts, b \in BOOLEAN :
            /\ b => attempts[i].resolves >= MaxResolve
            /\ worker' = [worker EXCEPT ![w].pc = "call", ![w].att = i, ![w].lookup = b,
                                        ![w].err = attempts[i].err]
      BY <2>2 DEF ResumeAttempt
    <3>2. i \in DOMAIN attempts
      BY DEF OpenAttempts
    <3>3. CASE v = w
      BY <3>1, <3>2, <3>3 DEF TypeOK, Calling
    <3>4. CASE v # w
      BY <1>1, <3>1, <3>4 DEF TypeOK
    <3>. QED BY <3>3, <3>4
  <2>3. CASE StartAttempt(w)
    <3>1. ~worker[w].lookup
      BY <1>3 DEF Prepare, At, LimitReached, Calling
    <3>2. worker' = [worker EXCEPT ![w].pc = "call", ![w].att = Len(attempts) + 1]
      BY <2>3 DEF StartAttempt
    <3>3. v # w
      BY <3>1, <3>2 DEF TypeOK
    <3>. QED BY <1>1, <3>2, <3>3 DEF TypeOK
  <2>. QED BY <1>3, <2>1, <2>2, <2>3 DEF Prepare
<1>4. ASSUME NEW w \in Workers, Post(w) \/ Lookup(w) PROVE Goal
  <2>1. PICK o, e : Answer(w, o, e)
    BY <1>4 DEF Post, Lookup
  <2>2. CASE v = w
    <3>1. worker[w].lookup /\ worker'[w].att = worker[w].att /\ worker'[w].pc = "settle"
      BY <2>1, <2>2 DEF Answer, TypeOK
    <3>. QED BY <2>2, <3>1 DEF LimitReached, Calling, RunKnows, TypeOK
  <2>3. CASE v # w
    BY <1>1, <2>1, <2>3 DEF Answer, TypeOK
  <2>. QED BY <2>2, <2>3
<1>5. ASSUME NEW w \in Workers, Settle(w) PROVE Goal
  <2>1. \E pc : Leave(w, pc)
    BY <1>5 DEF Settle, SettleIssued, SettleStranded, HandOver, HandOverTooLate, SettleRefused,
                SettleUnknown, SettleResolved, ContinueOrRetry
  <2>. QED BY <1>2, <2>1
<1>6. ASSUME NEW w \in Workers, ExceedBudget(w) \/ ForceOutcome(w) \/ AbortTransaction(w) PROVE Goal
  BY <1>2, <1>6 DEF ExceedBudget, ForceOutcome, AbortTransaction
<1>7. ASSUME NEW w \in Workers, Claim(w) \/ Complete(w) \/ Fail(w) \/ Crash(w) PROVE Goal
  <2>1. CASE Claim(w)
    <3>1. PICK g, b : worker' = [worker EXCEPT ![w] = [Idle EXCEPT !.pc = "first", !.gen = g,
                                                                  !.last = b]]
      BY <2>1 DEF Claim
    <3>2. ~worker'[w].lookup /\ \A u \in Workers \ {w} : worker'[u] = worker[u]
      BY <3>1 DEF TypeOK, Idle
    <3>. QED BY <1>1, <3>2
  <2>2. CASE Complete(w) \/ Fail(w) \/ Crash(w)
    <3>1. worker' = [worker EXCEPT ![w] = Idle]
      BY <2>2 DEF Complete, Fail, Crash
    <3>2. ~worker'[w].lookup /\ \A u \in Workers \ {w} : worker'[u] = worker[u]
      BY <3>1 DEF TypeOK, Idle
    <3>. QED BY <1>1, <3>2
  <2>. QED BY <1>7, <2>1, <2>2
<1>8. CASE PlaceOrder \/ CapturePayment \/ Sweeper \/ (\E j \in late : LatePost(j)) \/ UNCHANGED vars
  BY <1>1, <1>8 DEF PlaceOrder, CapturePayment, Sweeper, Reclaim, RequeueStuck, Redeliver,
                    DemoteInFlight, RedriveUnknown, LatePost, vars
<1>. QED BY <1>3, <1>4, <1>5, <1>6, <1>7, <1>8 DEF Next, Run

LEMMA RowsNext ==
  ASSUME TypeOK'
  PROVE  \A i \in DOMAIN attempts' : attempts'[i] \in Attempt
BY LenProperties, ElementOfSeq DEF TypeOK

LEMMA StepLimitReached ==
  ASSUME TypeOK, TypeOK', RunKnows, LimitReached, [Next]_vars
  PROVE  LimitReached'
<1>1. \A i \in DOMAIN attempts :
        attempts[i].resolves >= MaxResolve =>
          i \in DOMAIN attempts' /\ attempts'[i].resolves >= MaxResolve
  <2>. SUFFICES ASSUME NEW i \in DOMAIN attempts, attempts[i].resolves >= MaxResolve
                PROVE  i \in DOMAIN attempts' /\ attempts'[i].resolves >= MaxResolve
    OBVIOUS
  <2>1. i \in DOMAIN attempts' /\ attempts'[i].resolves >= attempts[i].resolves
    BY ResolvesGrow
  <2>2. attempts'[i].resolves \in Nat /\ attempts[i].resolves \in Nat /\ MaxResolve \in Nat
    BY <2>1, Rows, RowsNext, SupplierAssumption DEF Attempt
  <2>. QED BY <2>1, <2>2
<1>2. \A v \in Workers : worker'[v].lookup =>
        Calling(v)' /\ attempts'[worker'[v].att].resolves >= MaxResolve
  BY <1>1, Asking
<1>3. \A i \in DOMAIN attempts' :
        attempts'[i].state = "abandoned_unknown" => attempts'[i].resolves >= MaxResolve
  BY <1>1, WrittenOff
<1>. QED BY <1>2, <1>3 DEF LimitReached

-----------------------------------------------------------------------------
(* Theorems.                                                               *)

\* What the lock alone gives, and what the contract of the suppliers adds.
LockedInv == IInv /\ LockHeld /\ CallStands /\ Settled
ContractInv == LockedInv /\ NothingLate /\ RefusalTrue /\ FailedMeansNotMinted
WriteOffInv == ContractInv /\ OlderGivenUp /\ LimitReached

LEMMA InitLocked == Init => LockedInv
<1>. SUFFICES ASSUME Init PROVE LockedInv
  OBVIOUS
<1>1. IInv
  BY InitInv
<1>2. LockHeld /\ CallStands
  BY DEF Init, LockHeld, CallStands, Calling, Busy, Idle
<1>3. Settled
  BY DEF Init, Settled
<1>. QED BY <1>1, <1>2, <1>3 DEF LockedInv

LEMMA StepLocked ==
  ASSUME TtlCoversRun
  PROVE  LockedInv /\ [Next]_vars => LockedInv'
<1>. SUFFICES ASSUME LockedInv, [Next]_vars PROVE LockedInv'
  OBVIOUS
<1>. QED
  BY StepInv, StepLockHeld, StepCallStands, StepSettled DEF LockedInv, IInv

LEMMA InitContract == Init => ContractInv
<1>. SUFFICES ASSUME Init PROVE ContractInv
  OBVIOUS
<1>1. NothingLate /\ RefusalTrue /\ FailedMeansNotMinted
  BY DEF Init, NothingLate, RefusalTrue, FailedMeansNotMinted, At, Idle
<1>. QED BY <1>1, InitLocked DEF ContractInv

LEMMA StepContract ==
  ASSUME TtlCoversRun, StrictSuppliers
  PROVE  ContractInv /\ [Next]_vars => ContractInv'
<1>. SUFFICES ASSUME ContractInv, [Next]_vars PROVE ContractInv'
  OBVIOUS
<1>1. LockedInv'
  BY StepLocked DEF ContractInv
<1>. QED
  BY <1>1, StepNothingLate, StepRefusalTrue, StepFailedUnminted DEF ContractInv, LockedInv, IInv

\* A set whose members are all equal has one member at most.
LEMMA AtMostOne ==
  ASSUME NEW S, \A x, y \in S : x = y
  PROVE  Cardinality(S) <= 1
<1>1. CASE S = {}
  BY <1>1, FS_EmptySet
<1>2. CASE S # {}
  <2>1. PICK x \in S : S = {x}
    BY <1>2
  <2>. QED BY <2>1, FS_Singleton
<1>. QED BY <1>1, <1>2

\* The chain leaves a supplier only when no code was bought there.
THEOREM FailedAttemptsBoughtNothing ==
  ASSUME TtlCoversRun, StrictSuppliers
  PROVE  Spec => []FailedMeansNotMinted
<1>1. ContractInv => FailedMeansNotMinted
  BY DEF ContractInv
<1>2. Init => ContractInv
  BY InitContract
<1>3. ContractInv /\ [Next]_vars => ContractInv'
  BY StepContract
<1>. QED BY <1>1, <1>2, <1>3, PTL DEF Spec

LEMMA InitWriteOff == Init => WriteOffInv
<1>. SUFFICES ASSUME Init PROVE WriteOffInv
  OBVIOUS
<1>1. OlderGivenUp /\ LimitReached
  BY DEF Init, OlderGivenUp, LimitReached, Idle
<1>. QED BY <1>1, InitContract DEF WriteOffInv

LEMMA StepWriteOff ==
  ASSUME TtlCoversRun, StrictSuppliers
  PROVE  WriteOffInv /\ [Next]_vars => WriteOffInv'
<1>. SUFFICES ASSUME WriteOffInv, [Next]_vars PROVE WriteOffInv'
  OBVIOUS
<1>1. ContractInv'
  BY StepContract DEF WriteOffInv
<1>2. TypeOK /\ TypeOK' /\ RunKnows /\ DeliveredIsMinted /\ Settled
  BY <1>1 DEF WriteOffInv, ContractInv, LockedInv, IInv
<1>. QED BY <1>1, <1>2, StepOlderGivenUp, StepLimitReached DEF WriteOffInv

\* An order may be bought for twice, and only so: whatever a supplier minted for
\* an attempt before the newest was written off as abandoned_unknown, when the
\* limit of its resolve count was reached and the lookup had no answer.
THEOREM BoughtAgainOnlyAfterWriteOff ==
  ASSUME TtlCoversRun, StrictSuppliers
  PROVE  Spec => []SurplusWrittenOff
<1>1. WriteOffInv => SurplusWrittenOff
  <2>. SUFFICES ASSUME WriteOffInv, NEW i \in minted, i # Len(attempts)
                PROVE  attempts[i].state = "abandoned_unknown" /\ attempts[i].resolves >= MaxResolve
    BY DEF SurplusWrittenOff
  <2>1. i \in DOMAIN attempts /\ Len(attempts) \in DOMAIN attempts /\ i < Len(attempts)
    BY Rows DEF WriteOffInv, ContractInv, LockedInv, IInv, TypeOK
  <2>2. attempts[i].state \in {"failed", "abandoned_unknown"}
    BY <2>1 DEF WriteOffInv, OlderGivenUp
  <2>3. attempts[i].state # "failed"
    BY DEF WriteOffInv, ContractInv, FailedMeansNotMinted
  <2>. QED BY <2>1, <2>2, <2>3 DEF WriteOffInv, LimitReached
<1>2. Init => WriteOffInv
  BY InitWriteOff
<1>3. WriteOffInv /\ [Next]_vars => WriteOffInv'
  BY StepWriteOff
<1>. QED BY <1>1, <1>2, <1>3, PTL DEF Spec

\* A delivered order leaves nothing open and no purchase under way, whatever the
\* suppliers do.
THEOREM DeliveredOrderIsQuiet ==
  ASSUME TtlCoversRun
  PROVE  Spec => []DeliveredIsQuiet
<1>1. LockedInv => DeliveredIsQuiet
  BY DEF LockedInv, IInv, DeliveredIsMinted, Settled, CallStands, Calling, At, DeliveredIsQuiet
<1>2. Init => LockedInv
  BY InitLocked
<1>3. LockedInv /\ [Next]_vars => LockedInv'
  BY StepLocked
<1>. QED BY <1>1, <1>2, <1>3, PTL DEF Spec

\* At most one live call, from the lock alone: the suppliers do not matter.
THEOREM AtMostOneLiveCall ==
  ASSUME TtlCoversRun
  PROVE  Spec => []OneLiveCall
<1>1. LockedInv => OneLiveCall
  <2>. SUFFICES ASSUME LockedInv,
                       NEW v \in Workers, At(v, "call"), NEW w \in Workers, At(w, "call")
                PROVE  v = w
    BY AtMostOne DEF OneLiveCall
  <2>. QED BY Alone DEF LockedInv, At, Busy
<1>2. Init => LockedInv
  BY InitLocked
<1>3. LockedInv /\ [Next]_vars => LockedInv'
  BY StepLocked
<1>. QED BY <1>1, <1>2, <1>3, PTL DEF Spec

\* The claims of a job are counted against the attempts of its generation.
BudgetInv == LockedInv /\ OwnClaim /\ FallbackInv /\ NumbersFit /\ (Definite => Budgeted)

LEMMA InitBudget == Init => BudgetInv
<1>. SUFFICES ASSUME Init PROVE BudgetInv
  OBVIOUS
<1>1. LockedInv /\ FallbackInv
  BY InitLocked, InitFallback
<1>2. DOMAIN attempts = {} /\ job = NoJob /\ \A w \in Workers : worker[w] = Idle
  BY DEF Init
<1>3. \A w \in Workers : ~Busy(w) /\ ~worker[w].lookup
  BY <1>2 DEF Busy, Idle
<1>4. Attended /\ OwnerRuns /\ ClaimsCounted
  BY <1>2, <1>3 DEF Attended, OpenAttempts, OwnerRuns, ClaimsCounted
<1>5. NumbersFit /\ OwnClaim
  BY <1>2, <1>3 DEF NumbersFit, OwnClaim
<1>. QED BY <1>1, <1>4, <1>5 DEF BudgetInv, Budgeted

LEMMA StepBudget ==
  ASSUME TtlCoversRun
  PROVE  BudgetInv /\ [Next]_vars => BudgetInv'
<1>. SUFFICES ASSUME BudgetInv, [Next]_vars PROVE BudgetInv'
  OBVIOUS
<1>1. LockedInv'
  BY StepLocked DEF BudgetInv
<1>2. TypeOK /\ TypeOK' /\ RunKnows /\ LockHeld /\ CallStands /\ IInv
  BY <1>1 DEF BudgetInv, LockedInv, IInv
<1>3. OwnClaim' /\ FallbackInv'
  BY <1>2, StepOwnClaim, StepFallback DEF BudgetInv
<1>4. NumbersFit'
  BY <1>2, StepShape, StepNumbers DEF BudgetInv
<1>5. ASSUME Definite' PROVE Budgeted'
  <2>1. Definite
    BY <1>2, <1>5, DefiniteBefore
  <2>. QED BY <1>2, <1>5, <2>1, StepBudgeted DEF BudgetInv
<1>. QED BY <1>1, <1>3, <1>4, <1>5 DEF BudgetInv

\* The claims of a job last for the chain: where every answer is definite and
\* nothing fails, its last claim never leaves the order without an outcome.
THEOREM ClaimsLastForTheChain ==
  ASSUME TtlCoversRun
  PROVE  Spec => []BudgetReachesTheEnd
<1>1. BudgetInv => BudgetReachesTheEnd
  <2>. SUFFICES ASSUME BudgetInv, JobBudgetRule, Definite,
                       NEW w \in Workers, At(w, "failed"), worker[w].last
                PROVE  FALSE
    BY DEF BudgetReachesTheEnd, Definite
  <2>1. /\ Busy(w) /\ job \in Job
        /\ job.tries = JobMaxAttempts
        /\ job.tries <= Asked(attempts, job.gen)
    BY DEF BudgetInv, Budgeted, ClaimsCounted, At, Busy, LockedInv, LockHeld, IInv, TypeOK
  <2>2. Asked(attempts, job.gen) <= Len(FallbackChain) * MaxAttemptsPerSupplier
    BY AskedBound DEF BudgetInv, FallbackInv, LockedInv, IInv
  <2>3. Asked(attempts, job.gen) \in Nat
    BY Rows, RowsFinite DEF BudgetInv, LockedInv, IInv
  <2>4. Len(FallbackChain) * MaxAttemptsPerSupplier \in Nat
    <3>1. Len(FallbackChain) \in Nat /\ MaxAttemptsPerSupplier \in Nat
      BY PlanAssumption, LenProperties, SupplierAssumption
    <3>2. \A m, n \in Nat : m * n \in Nat
      OBVIOUS
    <3>. QED BY <3>1, <3>2
  <2>5. JobMaxAttempts >= Len(FallbackChain) * MaxAttemptsPerSupplier + 1
    BY DEF JobBudgetRule
  <2>. DEFINE p == Len(FallbackChain) * MaxAttemptsPerSupplier
  <2>. HIDE DEF p
  <2>6. p \in Nat /\ Asked(attempts, job.gen) <= p /\ JobMaxAttempts >= p + 1
    BY <2>2, <2>4, <2>5 DEF p
  <2>. QED BY <2>1, <2>3, <2>6, SupplierAssumption
<1>2. Init => BudgetInv
  BY InitBudget
<1>3. BudgetInv /\ [Next]_vars => BudgetInv'
  BY StepBudget
<1>. QED BY <1>1, <1>2, <1>3, PTL DEF Spec
=============================================================================
