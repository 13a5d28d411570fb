----------------------- MODULE SupplierFulfilmentProofs -----------------------
(***************************************************************************)
(* Proofs about SupplierFulfilment, for every set of workers, every chain  *)
(* of suppliers and every cap, with two live runs of one job and with      *)
(* suppliers that refuse or deliver late.                                  *)
(***************************************************************************)
EXTENDS SupplierFulfilment, SequenceTheorems, TLAPS

-----------------------------------------------------------------------------
\* The table of attempts is a sequence of rows.
LEMMA Rows ==
  ASSUME TypeOK
  PROVE  /\ attempts \in Seq(Attempt)
         /\ Len(attempts) \in Nat
         /\ DOMAIN attempts = 1 .. Len(attempts)
         /\ \A i \in DOMAIN attempts : attempts[i] \in Attempt
<1>1. attempts \in Seq(Attempt)
  BY DEF TypeOK
<1>. QED BY <1>1, LenProperties, ElementOfSeq

-----------------------------------------------------------------------------
(* The plan.                                                               *)

\* Whatever the history, the plan offers attempts at suppliers of the chain.
LEMMA PickType ==
  ASSUME TypeOK
  PROVE  Pick \subseteq [sup : SupplierCode, no : Nat]
<1>1. ASSUME NEW s \in SupplierCode
      PROVE  NextNo(attempts, generation, s, MaxAttemptsPerSupplier) \subseteq Nat
  <2>1. \A i \in DOMAIN attempts : attempts[i].no \in Nat
    BY Rows DEF Attempt
  <2>2. LastAttemptFor(attempts, generation, s) \subseteq DOMAIN attempts
    BY DEF LastAttemptFor, AttemptsFor
  <2>3. {1} \subseteq Nat
    OBVIOUS
  <2>4. \A i \in LastAttemptFor(attempts, generation, s) : attempts[i].no + 1 \in Nat
    BY <2>1, <2>2
  <2>. HIDE DEF LastAttemptFor
  <2>. QED BY <2>3, <2>4 DEF NextNo
<1>2. \A k \in DOMAIN FallbackChain : FallbackChain[k] \in SupplierCode
  BY DEF SupplierCode
<1>. QED BY <1>1, <1>2 DEF Pick, PickSupplier

-----------------------------------------------------------------------------
(* What a step may do to the attempts: nothing, rewrite an open row without *)
(* moving it to another generation, supplier or number or forgetting how    *)
(* often it was looked for, or append the row the plan asks for, of the     *)
(* order's own generation, while none is open and nothing delivered.        *)

RewriteOpen ==
  \E i \in OpenAttempts, r \in Attempt :
    /\ r.gen = attempts[i].gen /\ r.sup = attempts[i].sup /\ r.no = attempts[i].no
    /\ r.resolves >= attempts[i].resolves
    /\ attempts' = [attempts EXCEPT ![i] = r]

AppendRow ==
  /\ OpenAttempts = {}
  /\ ~IsRecoverable(status) /\ status # "delivered"
  /\ \E r \in Attempt, c \in Pick :
       /\ r.gen = generation /\ r.sup = c.sup /\ r.no = c.no
       /\ attempts' = Append(attempts, r)

\* What a run knows between its transactions.
RunKnows ==
  \A w \in Workers :
    /\ worker[w].pc \in {"call", "settle"} => worker[w].att # None
    /\ At(w, "settle") => worker[w].outcome # "none"
    /\ At(w, "settle") /\ worker[w].outcome = "issued" => worker[w].att \in minted

\* A changed column of an open row makes a row again.
LEMMA RewriteRow ==
  ASSUME TypeOK, NEW i \in OpenAttempts,
         NEW s \in AttemptState, NEW e \in ErrorKind, NEW n \in 0 .. MaxResolve,
         n >= attempts[i].resolves, NEW w \in Workers,
         attempts' = [attempts EXCEPT ![i] = [attempts[i] EXCEPT !.state = s, !.err = e,
                                                               !.resolves = n, !.starter = w]]
  PROVE  RewriteOpen
<1>1. attempts[i] \in Attempt
  BY Rows DEF OpenAttempts
<1>. DEFINE r == [attempts[i] EXCEPT !.state = s, !.err = e, !.resolves = n, !.starter = w]
<1>2. /\ r \in Attempt /\ r.resolves = n
      /\ r.gen = attempts[i].gen /\ r.sup = attempts[i].sup /\ r.no = attempts[i].no
  BY <1>1 DEF Attempt
<1>. HIDE DEF r
<1>3. attempts' = [attempts EXCEPT ![i] = r]
  BY DEF r
<1>. QED BY <1>2, <1>3 DEF RewriteOpen

\* Finalising an attempt rewrites its row if it is in flight.
LEMMA FinaliseRow ==
  ASSUME TypeOK, NEW i \in DOMAIN attempts, NEW s \in AttemptState, NEW e \in ErrorKind,
         Finalise(i, s, e)
  PROVE  UNCHANGED attempts \/ RewriteOpen
<1>1. CASE attempts[i].state = "in_flight"
  <2>1. i \in OpenAttempts /\ attempts[i] \in Attempt
    BY <1>1, Rows DEF OpenAttempts, Open, OpenState
  <2>2. attempts' = [attempts EXCEPT ![i] =
                       [attempts[i] EXCEPT !.state = s, !.err = e,
                          !.resolves = attempts[i].resolves, !.starter = attempts[i].starter]]
    BY <1>1, <2>1 DEF Finalise, Attempt
  <2>3. /\ attempts[i].resolves \in 0 .. MaxResolve /\ attempts[i].starter \in Workers
        /\ attempts[i].resolves >= attempts[i].resolves
    BY <2>1 DEF Attempt
  <2>. QED BY <2>1, <2>2, <2>3, RewriteRow
<1>2. CASE attempts[i].state # "in_flight"
  BY <1>2 DEF Finalise
<1>. QED BY <1>1, <1>2

LEMMA CapType ==
  ASSUME NEW n \in 0 .. MaxResolve
  PROVE  Cap(n + 1, MaxResolve) \in 0 .. MaxResolve
         /\ Cap(n + 1, MaxResolve) >= n /\ Cap(n + 1, MaxResolve) > 0
BY SupplierAssumption DEF Cap

LEMMA PrepareShape ==
  ASSUME TypeOK, NEW w \in Workers, Prepare(w)
  PROVE  UNCHANGED attempts \/ RewriteOpen \/ AppendRow
<1>1. CASE PrepareSkip(w)
  BY <1>1 DEF PrepareSkip
<1>2. CASE ResumeAttempt(w)
  <2>1. PICK i \in OpenAttempts :
          attempts' = [attempts EXCEPT ![i].state = "in_flight", ![i].starter = w]
    BY <1>2 DEF ResumeAttempt, Resume
  <2>2. attempts[i] \in Attempt
    BY Rows DEF OpenAttempts
  <2>3. attempts' = [attempts EXCEPT ![i] =
                       [attempts[i] EXCEPT !.state = "in_flight", !.err = attempts[i].err,
                          !.resolves = attempts[i].resolves, !.starter = w]]
    BY <2>1, <2>2 DEF Attempt
  <2>4. /\ "in_flight" \in AttemptState
        /\ attempts[i].err \in ErrorKind /\ attempts[i].resolves \in 0 .. MaxResolve
        /\ attempts[i].resolves >= attempts[i].resolves
    BY <2>2 DEF Attempt, AttemptState
  <2>. QED BY <2>3, <2>4, RewriteRow
<1>3. CASE ~Skip(w) /\ StartAttempt(w)
  <2>1. PICK c \in Pick :
          attempts' = Append(attempts, [sup |-> c.sup, no |-> c.no, gen |-> generation,
                                        state |-> "in_flight", err |-> "none", resolves |-> 0,
                                        starter |-> w])
    BY <1>3 DEF StartAttempt, InsertAttempt
  <2>. DEFINE r == [sup |-> c.sup, no |-> c.no, gen |-> generation,
                    state |-> "in_flight", err |-> "none", resolves |-> 0, starter |-> w]
  <2>2. c.sup \in SupplierCode /\ c.no \in Nat
    BY PickType
  <2>3. generation \in Generations /\ 0 \in 0 .. MaxResolve
    BY SupplierAssumption DEF TypeOK
  <2>4. r \in Attempt /\ r.gen = generation /\ r.sup = c.sup /\ r.no = c.no
    BY <2>2, <2>3 DEF Attempt, AttemptState, ErrorKind
  <2>5. OpenAttempts = {} /\ ~IsRecoverable(status) /\ status # "delivered"
    BY <1>3 DEF StartAttempt, InsertAttempt, Skip, IsRecoverable, RecoverableStatus
  <2>. QED BY <2>1, <2>4, <2>5 DEF AppendRow
<1>4. CASE ExhaustChain(w)
  BY <1>4 DEF ExhaustChain
<1>. QED BY <1>1, <1>2, <1>3, <1>4 DEF Prepare

LEMMA SettleShape ==
  ASSUME TypeOK, RunKnows, NEW w \in Workers, Settle(w)
  PROVE  UNCHANGED attempts \/ RewriteOpen
<1>. DEFINE i == worker[w].att
<1>1. i \in DOMAIN attempts /\ worker[w].err \in ErrorKind /\ At(w, "settle")
  BY DEF Settle, At, RunKnows, TypeOK
<1>2. attempts[i] \in Attempt
  BY <1>1, Rows
<1>3. {"succeeded", "failed", "unknown", "abandoned_unknown"} \subseteq AttemptState
  BY DEF AttemptState
<1>4. CASE SettleIssued(w)
  <2>1. CASE SettleStranded(w)
    BY <2>1, <1>1, <1>2, <1>3, FinaliseRow DEF SettleStranded, Attempt
  <2>2. CASE HandOver(w)
    BY <2>2, <1>1, <1>2, <1>3, FinaliseRow DEF HandOver, InsertIssuedDelivery, Attempt
  <2>3. CASE HandOverTooLate(w)
    BY <2>3 DEF HandOverTooLate
  <2>. QED BY <1>4, <2>1, <2>2, <2>3 DEF SettleIssued
<1>5. CASE SettleRefused(w)
  BY <1>5, <1>1, <1>3, FinaliseRow DEF SettleRefused
<1>6. CASE SettleUnknown(w)
  <2>1. CASE attempts[i].state = "in_flight"
    <3>1. i \in OpenAttempts
      BY <2>1, <1>1 DEF OpenAttempts, Open, OpenState
    <3>2. attempts' = [attempts EXCEPT ![i] =
                         [attempts[i] EXCEPT !.state = "unknown", !.err = worker[w].err,
                            !.resolves = Cap(attempts[i].resolves + 1, MaxResolve),
                            !.starter = attempts[i].starter]]
      BY <2>1, <1>1, <1>2, <1>6 DEF SettleUnknown, PromoteToUnknown, Attempt
    <3>3. /\ Cap(attempts[i].resolves + 1, MaxResolve) \in 0 .. MaxResolve
          /\ Cap(attempts[i].resolves + 1, MaxResolve) >= attempts[i].resolves
      BY <1>2, CapType DEF Attempt
    <3>4. attempts[i].starter \in Workers
      BY <1>2 DEF Attempt
    <3>. QED BY <3>1, <3>2, <3>3, <3>4, <1>1, <1>3, RewriteRow
  <2>2. CASE attempts[i].state # "in_flight"
    BY <2>2, <1>6 DEF SettleUnknown, PromoteToUnknown
  <2>. QED BY <2>1, <2>2
<1>7. CASE SettleResolved(w)
  <2>. DEFINE denied == worker[w].outcome = "refused"
              mine == IF denied THEN attempts[i].state = "in_flight"
                                ELSE Open(i) /\ attempts[i].starter = w
              s == IF denied THEN "failed" ELSE "abandoned_unknown"
              e == IF denied THEN worker[w].err ELSE attempts[i].err
  <2>1. CASE mine
    <3>1. i \in OpenAttempts
      BY <2>1, <1>1 DEF OpenAttempts, Open, OpenState
    <3>2. attempts' = [attempts EXCEPT ![i] =
                         [attempts[i] EXCEPT !.state = s, !.err = e,
                            !.resolves = attempts[i].resolves,
                            !.starter = attempts[i].starter]]
      <4>1. attempts' = [attempts EXCEPT ![i].state = s, ![i].err = e]
        BY <2>1, <1>1, <1>7 DEF SettleResolved, MayAbandon
      <4>. HIDE DEF s, e, i
      <4>. QED BY <4>1, <1>1, <1>2 DEF Attempt
    <3>3. s \in AttemptState /\ e \in ErrorKind
      BY <1>1, <1>2, <1>3 DEF Attempt
    <3>4. /\ attempts[i].resolves \in 0 .. MaxResolve /\ attempts[i].starter \in Workers
          /\ attempts[i].resolves >= attempts[i].resolves
      BY <1>2 DEF Attempt
    <3>. HIDE DEF i, s, e
    <3>. QED BY <3>1, <3>2, <3>3, <3>4, RewriteRow
  <2>2. CASE ~mine
    BY <2>2, <1>7 DEF SettleResolved, MayAbandon
  <2>. QED BY <2>1, <2>2
<1>. QED BY <1>4, <1>5, <1>6, <1>7 DEF Settle

LEMMA SweepShape ==
  ASSUME TypeOK, NEW i \in DOMAIN attempts, DemoteInFlight(i) \/ RedriveUnknown(i)
  PROVE  RewriteOpen
<1>1. attempts[i] \in Attempt
  BY Rows
<1>2. CASE DemoteInFlight(i)
  <2>1. i \in OpenAttempts
    BY <1>2 DEF DemoteInFlight, PromoteToUnknown, OpenAttempts, Open, OpenState
  <2>2. attempts' = [attempts EXCEPT ![i] =
                       [attempts[i] EXCEPT !.state = "unknown", !.err = "other",
                          !.resolves = Cap(attempts[i].resolves + 1, MaxResolve),
                          !.starter = attempts[i].starter]]
    BY <1>1, <1>2 DEF DemoteInFlight, PromoteToUnknown, Attempt
  <2>3. /\ Cap(attempts[i].resolves + 1, MaxResolve) \in 0 .. MaxResolve
        /\ Cap(attempts[i].resolves + 1, MaxResolve) >= attempts[i].resolves
    BY <1>1, CapType DEF Attempt
  <2>4. attempts[i].starter \in Workers /\ "unknown" \in AttemptState /\ "other" \in ErrorKind
    BY <1>1 DEF Attempt, AttemptState, ErrorKind
  <2>. QED BY <2>1, <2>2, <2>3, <2>4, RewriteRow
<1>3. CASE RedriveUnknown(i)
  <2>1. i \in OpenAttempts
    BY <1>3 DEF RedriveUnknown, Resolvable, OpenAttempts, Open, OpenState
  <2>2. attempts' = [attempts EXCEPT ![i] =
                       [attempts[i] EXCEPT !.state = attempts[i].state, !.err = attempts[i].err,
                          !.resolves = attempts[i].resolves + 1,
                          !.starter = attempts[i].starter]]
    BY <1>1, <1>3 DEF RedriveUnknown, Resolvable, Attempt
  <2>3. /\ attempts[i].resolves + 1 \in 0 .. MaxResolve
        /\ attempts[i].resolves + 1 >= attempts[i].resolves
    BY <1>1, <1>3, SupplierAssumption DEF RedriveUnknown, Resolvable, Attempt
  <2>4. /\ attempts[i].state \in AttemptState
        /\ attempts[i].err \in ErrorKind
        /\ attempts[i].starter \in Workers
    BY <1>1 DEF Attempt
  <2>. QED BY <2>1, <2>2, <2>3, <2>4, RewriteRow
<1>. QED BY <1>2, <1>3

\* No action does anything else to the table of attempts.
LEMMA StepShape ==
  ASSUME TypeOK, RunKnows, [Next]_vars
  PROVE  UNCHANGED attempts \/ RewriteOpen \/ AppendRow
<1>1. CASE PlaceOrder \/ CapturePayment \/ Reclaim \/ RequeueStuck \/ Redeliver
  BY <1>1 DEF PlaceOrder, CapturePayment, Reclaim, RequeueStuck, Redeliver
<1>2. ASSUME NEW w \in Workers, Run(w) PROVE UNCHANGED attempts \/ RewriteOpen \/ AppendRow
  <2>1. CASE Prepare(w)
    BY <2>1, PrepareShape
  <2>2. CASE Settle(w)
    BY <2>2, SettleShape
  <2>3. CASE Claim(w) \/ ExceedBudget(w) \/ Post(w) \/ Lookup(w) \/ ForceOutcome(w)
               \/ Complete(w) \/ Fail(w)
    BY <2>3 DEF Claim, ExceedBudget, Post, Lookup, ForceOutcome, Complete, Fail
  <2>. QED BY <1>2, <2>1, <2>2, <2>3 DEF Run
<1>3. ASSUME NEW w \in Workers, Crash(w) \/ AbortTransaction(w) PROVE UNCHANGED attempts
  BY <1>3 DEF Crash, AbortTransaction
<1>4. ASSUME NEW i \in late, LatePost(i) PROVE UNCHANGED attempts
  BY <1>4 DEF LatePost
<1>5. ASSUME NEW i \in DOMAIN attempts, DemoteInFlight(i) \/ RedriveUnknown(i)
      PROVE  RewriteOpen
  BY <1>5, SweepShape
<1>6. CASE UNCHANGED vars
  BY <1>6 DEF vars
<1>. QED BY <1>1, <1>2, <1>3, <1>4, <1>5, <1>6 DEF Next, Sweeper

\* What the three shapes have in common: the table stays a sequence of rows
\* that only grows, and closed rows stay as they are.
LEMMA HistoryGrows ==
  ASSUME TypeOK, UNCHANGED attempts \/ RewriteOpen \/ AppendRow
  PROVE  /\ attempts' \in Seq(Attempt)
         /\ DOMAIN attempts \subseteq DOMAIN attempts'
         /\ \A i \in DOMAIN attempts : ~Open(i) => attempts'[i] = attempts[i]
<1>1. CASE UNCHANGED attempts
  BY <1>1, Rows
<1>2. CASE RewriteOpen
  <2>1. PICK i \in OpenAttempts, r \in Attempt : attempts' = [attempts EXCEPT ![i] = r]
    BY <1>2 DEF RewriteOpen
  <2>2. i \in 1 .. Len(attempts) /\ Open(i)
    BY Rows DEF OpenAttempts
  <2>3. attempts' \in Seq(Attempt)
    BY <2>1, <2>2, Rows, ExceptSeq
  <2>. QED BY <2>1, <2>2, <2>3, Rows
<1>3. CASE AppendRow
  <2>1. PICK r \in Attempt : attempts' = Append(attempts, r)
    BY <1>3 DEF AppendRow
  <2>2. /\ attempts' \in Seq(Attempt)
        /\ Len(attempts') = Len(attempts) + 1
        /\ \A i \in 1 .. Len(attempts) : attempts'[i] = attempts[i]
    <3>1. attempts \in Seq(Attempt) /\ r \in Attempt
      BY Rows
    <3>2. /\ Append(attempts, r) \in Seq(Attempt)
          /\ Len(Append(attempts, r)) = Len(attempts) + 1
          /\ \A i \in 1 .. Len(attempts) : Append(attempts, r)[i] = attempts[i]
      BY <3>1, AppendProperties
    <3>. QED BY <2>1, <3>2
  <2>3. DOMAIN attempts' = 1 .. Len(attempts')
    BY <2>2, LenProperties
  <2>. QED BY <2>2, <2>3, Rows
<1>. QED BY <1>1, <1>2, <1>3

-----------------------------------------------------------------------------
(* Types.                                                                  *)

RunType(D) == [pc : Place, gen : Generations, last : BOOLEAN, att : D \cup {None},
               lookup : BOOLEAN, outcome : Outcome, err : ErrorKind]

LEMMA IdleType ==
  ASSUME NEW D
  PROVE  Idle \in RunType(D) /\ 0 \in Generations
BY SupplierAssumption DEF Idle, RunType, Place, Outcome, ErrorKind, None, Generations

LEMMA LeaveType ==
  ASSUME NEW D, worker \in [Workers -> RunType(D)], NEW w \in Workers, NEW pc \in Place,
         Leave(w, pc)
  PROVE  worker' \in [Workers -> RunType(D)]
<1>1. [Idle EXCEPT !.pc = pc, !.gen = worker[w].gen, !.last = worker[w].last] \in RunType(D)
  BY IdleType DEF RunType
<1>. QED BY <1>1 DEF Leave

LEMMA RetryPlaceType == \A w \in Workers : RetryPlace(w) \in Place
BY DEF RetryPlace, Place

LEMMA PrepareWorker ==
  ASSUME TypeOK, NEW w \in Workers, Prepare(w), DOMAIN attempts \subseteq DOMAIN attempts'
  PROVE  worker' \in [Workers -> RunType(DOMAIN attempts')]
<1>. DEFINE D == DOMAIN attempts'
<1>1. worker \in [Workers -> RunType(D)]
  BY DEF TypeOK, RunType
<1>2. {"call", "done"} \subseteq Place
  BY DEF Place
<1>3. CASE PrepareSkip(w) \/ ExhaustChain(w)
  BY <1>3, <1>1, <1>2, LeaveType DEF PrepareSkip, ExhaustChain
<1>4. CASE ResumeAttempt(w)
  <2>1. PICK i \in OpenAttempts :
          \E b \in BOOLEAN :
            worker' = [worker EXCEPT ![w].pc = "call", ![w].att = i, ![w].lookup = b,
                                     ![w].err = attempts[i].err]
    BY <1>4 DEF ResumeAttempt, Resume
  <2>2. i \in D /\ attempts[i].err \in ErrorKind
    BY Rows DEF OpenAttempts, Attempt
  <2>3. PICK b \in BOOLEAN :
          worker' = [worker EXCEPT ![w].pc = "call", ![w].att = i, ![w].lookup = b,
                                   ![w].err = attempts[i].err]
    BY <2>1
  <2>. HIDE DEF D
  <2>4. [worker[w] EXCEPT !.pc = "call", !.att = i, !.lookup = b, !.err = attempts[i].err]
          \in RunType(D)
    BY <2>2, <1>1, <1>2 DEF RunType
  <2>5. worker' = [worker EXCEPT ![w] =
          [worker[w] EXCEPT !.pc = "call", !.att = i, !.lookup = b, !.err = attempts[i].err]]
    BY <2>3, <1>1 DEF RunType
  <2>6. worker' \in [Workers -> RunType(D)]
    BY <2>4, <2>5, <1>1
  <2>. QED BY <2>6 DEF D
<1>5. CASE StartAttempt(w)
  <2>1. worker' = [worker EXCEPT ![w].pc = "call", ![w].att = Len(attempts) + 1]
    BY <1>5 DEF StartAttempt, InsertAttempt
  <2>2. Len(attempts) + 1 \in D
    <3>1. PICK c \in Pick :
            attempts' = Append(attempts, [sup |-> c.sup, no |-> c.no, gen |-> generation,
                                          state |-> "in_flight", err |-> "none",
                                          resolves |-> 0, starter |-> w])
      BY <1>5 DEF StartAttempt, InsertAttempt
    <3>2. attempts \in Seq(Attempt)
      BY Rows
    <3>. QED BY <3>1, <3>2
  <2>. HIDE DEF D
  <2>3. worker' \in [Workers -> RunType(D)]
    BY <2>1, <2>2, <1>1, <1>2 DEF RunType
  <2>. QED BY <2>3 DEF D
<1>. QED BY <1>3, <1>4, <1>5 DEF Prepare

LEMMA SettleWorker ==
  ASSUME TypeOK, NEW w \in Workers, Settle(w), NEW D, worker \in [Workers -> RunType(D)]
  PROVE  worker' \in [Workers -> RunType(D)]
<1>1. \E pc \in Place : Leave(w, pc)
  <2>1. {"done", "again", "failed"} \subseteq Place
    BY DEF Place
  <2>2. CASE SettleIssued(w)
    BY <2>1, <2>2 DEF SettleIssued, SettleStranded, HandOver, InsertIssuedDelivery,
                      HandOverTooLate
  <2>3. CASE SettleRefused(w)
    BY <2>1, <2>3, RetryPlaceType DEF SettleRefused, ContinueOrRetry
  <2>4. CASE SettleUnknown(w)
    BY <2>1, <2>4, RetryPlaceType DEF SettleUnknown, PromoteToUnknown
  <2>5. CASE SettleResolved(w)
    BY <2>1, <2>5, RetryPlaceType DEF SettleResolved, MayAbandon, ContinueOrRetry
  <2>. QED BY <2>2, <2>3, <2>4, <2>5 DEF Settle
<1>. QED BY <1>1, LeaveType

LEMMA CallWorker ==
  ASSUME TypeOK, NEW w \in Workers, Post(w) \/ Lookup(w), NEW D,
         worker \in [Workers -> RunType(D)]
  PROVE  worker' \in [Workers -> RunType(D)]
<1>1. \E o \in Outcome, e \in ErrorKind : Answer(w, o, e)
  <2>1. Errors \subseteq ErrorKind /\ {"none", "other"} \subseteq ErrorKind
    BY SupplierAssumption DEF ErrorKind
  <2>2. {"issued", "refused", "unknown"} \subseteq Outcome
    BY DEF Outcome
  <2>3. worker[w].err \in ErrorKind
    BY DEF RunType
  <2>4. CASE Post(w)
    BY <2>1, <2>2, <2>4 DEF Post
  <2>5. CASE Lookup(w)
    BY <2>1, <2>2, <2>3, <2>5 DEF Lookup
  <2>. QED BY <2>4, <2>5
<1>2. PICK o \in Outcome, e \in ErrorKind : Answer(w, o, e)
  BY <1>1
<1>3. "settle" \in Place
  BY DEF Place
<1>. QED BY <1>2, <1>3 DEF Answer, RunType

LEMMA WorkerType ==
  ASSUME TypeOK, [Next]_vars, DOMAIN attempts \subseteq DOMAIN attempts'
  PROVE  worker' \in [Workers -> RunType(DOMAIN attempts')]
<1>. DEFINE D == DOMAIN attempts'
            Good == worker' \in [Workers -> RunType(D)]
<1>1. worker \in [Workers -> RunType(D)]
  BY DEF TypeOK, RunType
<1>2. CASE UNCHANGED worker
  BY <1>1, <1>2
<1>3. ASSUME NEW w \in Workers, Run(w) PROVE Good
  <2>1. CASE Prepare(w)
    BY <2>1, PrepareWorker
  <2>2. CASE Settle(w)
    BY <2>2, <1>1, SettleWorker
  <2>3. CASE Post(w) \/ Lookup(w)
    BY <2>3, <1>1, CallWorker
  <2>4. CASE ExceedBudget(w)
    BY <2>4, <1>1, LeaveType, RetryPlaceType DEF ExceedBudget
  <2>5. CASE ForceOutcome(w)
    <3>1. {"done", "failed"} \subseteq Place
      BY DEF Place
    <3>2. \E pc \in Place : Leave(w, pc)
      BY <2>5, <3>1 DEF ForceOutcome
    <3>. QED BY <3>2, <1>1, LeaveType
  <2>6. CASE Complete(w) \/ Fail(w)
    <3>. HIDE DEF D
    <3>. QED BY <2>6, <1>1, IdleType DEF Complete, Fail
  <2>7. CASE Claim(w)
    <3>1. job.gen \in Generations
      BY <2>7 DEF Claim, TypeOK, Job
    <3>2. \E b \in BOOLEAN :
            worker' = [worker EXCEPT ![w] = [Idle EXCEPT !.pc = "first", !.gen = job.gen,
                                                         !.last = b]]
      BY <2>7 DEF Claim
    <3>3. \A b \in BOOLEAN :
            [Idle EXCEPT !.pc = "first", !.gen = job.gen, !.last = b] \in RunType(D)
      BY <3>1, IdleType DEF RunType, Place
    <3>. HIDE DEF D
    <3>. QED BY <3>2, <3>3, <1>1
  <2>. QED BY <1>3, <2>1, <2>2, <2>3, <2>4, <2>5, <2>6, <2>7 DEF Run
<1>4. ASSUME NEW w \in Workers, Crash(w) PROVE Good
  BY <1>4, <1>1, IdleType DEF Crash
<1>5. ASSUME NEW w \in Workers, AbortTransaction(w) PROVE Good
  BY <1>5, <1>1, LeaveType DEF AbortTransaction, Place
<1>6. CASE PlaceOrder \/ CapturePayment \/ Sweeper \/ (\E i \in late : LatePost(i)) \/ UNCHANGED vars
  BY <1>6, <1>2 DEF PlaceOrder, CapturePayment, Sweeper, LatePost, Reclaim, RequeueStuck,
                    Redeliver, DemoteInFlight, PromoteToUnknown, RedriveUnknown, Resolvable, vars
<1>. QED BY <1>3, <1>4, <1>5, <1>6 DEF Next

LEMMA EnqueueType ==
  ASSUME TypeOK, NEW g \in Generations, Enqueue(g)
  PROVE  job' \in Job \cup {NoJob}
<1>1. NewJob(g) \in Job
  BY SupplierAssumption DEF NewJob, Job
<1>. QED BY <1>1 DEF Enqueue, TypeOK

LEMMA JobType ==
  ASSUME TypeOK, [Next]_vars
  PROVE  job' \in Job \cup {NoJob}
<1>1. CASE UNCHANGED job
  BY <1>1 DEF TypeOK
<1>2. CASE \E g \in Generations : Enqueue(g)
  BY <1>2, EnqueueType
<1>3. ASSUME NEW w \in Workers, Claim(w) PROVE job' \in Job
  <2>1. job \in Job
    BY <1>3 DEF Claim, TypeOK
  <2>2. PICK tries \in 0 .. JobMaxAttempts :
          job' = [job EXCEPT !.state = "running", !.owner = w, !.tries = tries]
    <3>1. Cap(job.tries + 1, JobMaxAttempts) \in 0 .. JobMaxAttempts
      BY <2>1, SupplierAssumption DEF Cap, Job
    <3>. QED BY <1>3, <3>1 DEF Claim
  <2>. QED BY <2>1, <2>2 DEF Job
<1>4. ASSUME job # NoJob, job' = [job EXCEPT !.state = "pending", !.owner = Nobody]
      PROVE  job' \in Job
  BY <1>4 DEF TypeOK, Job
<1>5. ASSUME NEW w \in Workers, Complete(w) \/ Fail(w) PROVE job' \in Job \cup {NoJob}
  <2>1. job' \in {job, NoJob} \/ (Holds(w) /\ job' = [job EXCEPT !.state = "pending",
  !.owner = Nobody])
    BY <1>5 DEF Complete, Fail
  <2>. QED BY <2>1, <1>4 DEF Holds, TypeOK
<1>6. ASSUME NEW w \in Workers, Run(w) PROVE job' \in Job \cup {NoJob}
  <2>1. CASE Claim(w)
    BY <2>1, <1>3
  <2>2. CASE Complete(w) \/ Fail(w)
    BY <2>2, <1>5
  <2>3. CASE Prepare(w) \/ ExceedBudget(w) \/ Post(w) \/ Lookup(w) \/ Settle(w) \/ ForceOutcome(w)
    BY <2>3, <1>1 DEF Prepare, ExceedBudget, Post, Lookup, Settle, ForceOutcome
  <2>. QED BY <1>6, <2>1, <2>2, <2>3 DEF Run
<1>7. ASSUME NEW w \in Workers, Crash(w) \/ AbortTransaction(w) PROVE UNCHANGED job
  BY <1>7 DEF Crash, AbortTransaction
<1>8. CASE PlaceOrder \/ (\E i \in late : LatePost(i)) \/ UNCHANGED vars
  BY <1>8, <1>1 DEF PlaceOrder, LatePost, vars
<1>9. generation \in Generations /\ (generation < MaxGenerations => generation + 1 \in Generations)
  BY SupplierAssumption DEF TypeOK, Generations
<1>10. CASE CapturePayment \/ RequeueStuck
  BY <1>10, <1>2, <1>9 DEF CapturePayment, RequeueStuck
<1>11. CASE Redeliver
  BY <1>11, <1>2, <1>9 DEF Redeliver
<1>12. CASE Reclaim
  BY <1>12, <1>4 DEF Reclaim
<1>13. ASSUME NEW i \in DOMAIN attempts, DemoteInFlight(i) \/ RedriveUnknown(i)
       PROVE  job' \in Job \cup {NoJob}
  BY <1>13, <1>1, <1>2, <1>9 DEF DemoteInFlight, PromoteToUnknown, RedriveUnknown, Resolvable
<1>. QED BY <1>6, <1>7, <1>1, <1>8, <1>10, <1>11, <1>12, <1>13 DEF Next, Sweeper

\* The columns no transaction computes with: status, generation, faults.
LEMMA OrderType ==
  ASSUME TypeOK, [Next]_vars
  PROVE  /\ status' \in OrderStatus \cup {"absent"}
         /\ generation' \in Generations
         /\ faults' \in 0 .. MaxFaults
<1>. DEFINE Good == /\ status' \in OrderStatus \cup {"absent"}
                    /\ generation' \in Generations
                    /\ faults' \in 0 .. MaxFaults
<1>1. {"created", "paid", "delivering", "delivered", "out_of_stock",
"delivery_failed"} \subseteq OrderStatus
  BY DEF OrderStatus
<1>2. ApplyExhausted => status' \in OrderStatus
  BY <1>1 DEF ApplyExhausted, ExhaustedStatus
<1>3. status \in OrderStatus \cup {"absent"} /\ generation \in Generations /\ faults \in 0 .. MaxFaults
  BY DEF TypeOK
<1>4. ASSUME NEW w \in Workers, Run(w) PROVE Good
  <2>1. CASE Prepare(w)
    BY <2>1, <1>1, <1>2, <1>3 DEF Prepare, PrepareSkip, ResumeAttempt, Resume, StartAttempt,
                                  InsertAttempt, ExhaustChain
  <2>2. CASE Settle(w)
    BY <2>2, <1>1, <1>3 DEF Settle, SettleIssued, SettleStranded, HandOver,
                            InsertIssuedDelivery, HandOverTooLate,
                            SettleRefused, SettleUnknown, PromoteToUnknown, SettleResolved,
                            MayAbandon
  <2>3. CASE ForceOutcome(w)
    BY <2>3, <1>2, <1>3 DEF ForceOutcome
  <2>4. CASE Claim(w) \/ ExceedBudget(w) \/ Post(w) \/ Lookup(w) \/ Complete(w) \/ Fail(w)
    BY <2>4, <1>3 DEF Claim, ExceedBudget, Post, Lookup, Complete, Fail, orderVars
  <2>. QED BY <1>4, <2>1, <2>2, <2>3, <2>4 DEF Run
<1>5. ASSUME NEW w \in Workers, Crash(w) \/ AbortTransaction(w) PROVE Good
  BY <1>5, <1>3, SupplierAssumption DEF Crash, AbortTransaction, orderVars
<1>6. CASE PlaceOrder \/ CapturePayment \/ (\E i \in late : LatePost(i)) \/ UNCHANGED vars
  BY <1>6, <1>1, <1>3 DEF PlaceOrder, CapturePayment, LatePost, vars, orderVars
<1>7. CASE Redeliver
  BY <1>7, <1>1, <1>3, SupplierAssumption DEF Redeliver, Generations
<1>8. CASE Reclaim \/ RequeueStuck \/ (\E i \in DOMAIN attempts : DemoteInFlight(i) \/ RedriveUnknown(i))
  BY <1>8, <1>3 DEF Reclaim, RequeueStuck, DemoteInFlight, PromoteToUnknown, RedriveUnknown,
                    Resolvable, orderVars
<1>. QED BY <1>4, <1>5, <1>6, <1>7, <1>8 DEF Next, Sweeper

\* What was handed over and what suppliers minted or may still mint are
\* attempts of the table.
LEMMA SupplyType ==
  ASSUME TypeOK, RunKnows, [Next]_vars
  PROVE  /\ delivered' \in DOMAIN attempts \cup {None}
         /\ minted' \subseteq DOMAIN attempts
         /\ late' \subseteq DOMAIN attempts
<1>. DEFINE Good == /\ delivered' \in DOMAIN attempts \cup {None}
                    /\ minted' \subseteq DOMAIN attempts
                    /\ late' \subseteq DOMAIN attempts
<1>1. /\ delivered \in DOMAIN attempts \cup {None}
      /\ minted \subseteq DOMAIN attempts
      /\ late \subseteq DOMAIN attempts
  BY DEF TypeOK
<1>2. ASSUME NEW w \in Workers, At(w, "call") \/ At(w, "settle")
      PROVE  worker[w].att \in DOMAIN attempts
  BY <1>2 DEF TypeOK, RunKnows, At
<1>3. ASSUME NEW w \in Workers, Run(w) PROVE Good
  <2>1. CASE Post(w)
    BY <2>1, <1>1, <1>2 DEF Post, LostPost, supplyVars
  <2>2. CASE Settle(w)
    BY <2>2, <1>1, <1>2 DEF Settle, SettleIssued, SettleStranded, HandOver,
                            InsertIssuedDelivery, HandOverTooLate,
                            SettleRefused, SettleUnknown, PromoteToUnknown, SettleResolved,
                            MayAbandon, supplyVars
  <2>3. CASE Claim(w) \/ Prepare(w) \/ ExceedBudget(w) \/ Lookup(w) \/ ForceOutcome(w)
               \/ Complete(w) \/ Fail(w)
    BY <2>3, <1>1 DEF Claim, Prepare, ExceedBudget, Lookup, ForceOutcome, Complete, Fail,
                      supplyVars
  <2>. QED BY <1>3, <2>1, <2>2, <2>3 DEF Run
<1>4. ASSUME NEW w \in Workers, Crash(w) \/ AbortTransaction(w) PROVE Good
  BY <1>4, <1>1, <1>2 DEF Crash, AbortTransaction, LostPost, supplyVars
<1>5. ASSUME NEW i \in late, LatePost(i) PROVE Good
  BY <1>5, <1>1 DEF LatePost
<1>6. CASE PlaceOrder \/ CapturePayment \/ Sweeper \/ UNCHANGED vars
  BY <1>6, <1>1 DEF PlaceOrder, CapturePayment, Sweeper, Reclaim, RequeueStuck, Redeliver,
                    DemoteInFlight, PromoteToUnknown, RedriveUnknown, Resolvable, vars, supplyVars
<1>. QED BY <1>3, <1>4, <1>5, <1>6 DEF Next

LEMMA InitType == Init => TypeOK
<1>. SUFFICES ASSUME Init PROVE TypeOK
  OBVIOUS
<1>1. attempts \in Seq(Attempt) /\ DOMAIN attempts = {}
  BY DEF Init
<1>2. worker \in [Workers -> RunType(DOMAIN attempts)]
  BY IdleType DEF Init
<1>3. generation \in Generations /\ faults \in 0 .. MaxFaults
  BY SupplierAssumption DEF Init, Generations
<1>. QED BY <1>1, <1>2, <1>3 DEF Init, TypeOK, RunType

LEMMA StepType ==
  ASSUME TypeOK, RunKnows, [Next]_vars
  PROVE  TypeOK'
<1>1. attempts' \in Seq(Attempt) /\ DOMAIN attempts \subseteq DOMAIN attempts'
  BY StepShape, HistoryGrows
<1>2. worker' \in [Workers -> RunType(DOMAIN attempts')]
  BY <1>1, WorkerType
<1>. QED BY <1>1, <1>2, JobType, OrderType, SupplyType DEF TypeOK, RunType

\* A turn of a run, from one of its places to another: the run goes on, with
\* the generation of its claim, and touches neither the job nor another run.
LEMMA Turn ==
  ASSUME TypeOK, NEW w \in Workers,
         \/ Prepare(w) \/ ExceedBudget(w) \/ Post(w) \/ Lookup(w) \/ Settle(w)
         \/ ForceOutcome(w) \/ AbortTransaction(w)
  PROVE  /\ job' = job
         /\ Busy(w)
         /\ worker'[w].pc # "idle"
         /\ worker'[w].gen = worker[w].gen
         /\ \A v \in Workers \ {w} : worker'[v] = worker[v]
<1>. DEFINE Goal == /\ worker'[w].pc # "idle"
                    /\ worker'[w].gen = worker[w].gen
                    /\ \A v \in Workers \ {w} : worker'[v] = worker[v]
<1>1. job' = job /\ Busy(w)
  BY DEF Prepare, ExceedBudget, Post, Lookup, Settle, ForceOutcome, AbortTransaction, At, Busy
<1>. SUFFICES Goal
  BY <1>1
<1>2. ASSUME NEW pc, pc # "idle", Leave(w, pc) PROVE Goal
  BY <1>2 DEF Leave, TypeOK, Idle
<1>3. RetryPlace(w) # "idle"
  BY DEF RetryPlace
<1>4. CASE Prepare(w)
  <2>1. CASE PrepareSkip(w) \/ ExhaustChain(w)
    BY <1>2, <2>1 DEF PrepareSkip, ExhaustChain
  <2>2. CASE ResumeAttempt(w)
    BY <2>2 DEF ResumeAttempt, Resume, TypeOK
  <2>3. CASE StartAttempt(w)
    BY <2>3 DEF StartAttempt, InsertAttempt, TypeOK
  <2>. QED BY <1>4, <2>1, <2>2, <2>3 DEF Prepare
<1>5. CASE Post(w) \/ Lookup(w)
  <2>1. PICK o, e : Answer(w, o, e)
    BY <1>5 DEF Post, Lookup
  <2>. QED BY <2>1 DEF Answer, TypeOK
<1>6. CASE Settle(w)
  <2>1. CASE SettleIssued(w)
    BY <1>2, <2>1 DEF SettleIssued, SettleStranded, HandOver, InsertIssuedDelivery,
                      HandOverTooLate
  <2>2. CASE SettleRefused(w)
    BY <1>2, <1>3, <2>2 DEF SettleRefused, ContinueOrRetry
  <2>3. CASE SettleUnknown(w)
    BY <1>2, <1>3, <2>3 DEF SettleUnknown, PromoteToUnknown
  <2>4. CASE SettleResolved(w)
    BY <1>2, <1>3, <2>4 DEF SettleResolved, MayAbandon, ContinueOrRetry
  <2>. QED BY <1>6, <2>1, <2>2, <2>3, <2>4 DEF Settle
<1>7. CASE ExceedBudget(w) \/ ForceOutcome(w) \/ AbortTransaction(w)
  BY <1>2, <1>3, <1>7 DEF ExceedBudget, ForceOutcome, AbortTransaction
<1>. QED BY <1>4, <1>5, <1>6, <1>7

-----------------------------------------------------------------------------
(* What a run knows.                                                       *)

\* A run that leaves its call behind claims nothing; the codes minted so far
\* stay minted for every other run.
LEMMA LeaveKnows ==
  ASSUME TypeOK, RunKnows, NEW w \in Workers, NEW pc \in Place \ {"call", "settle"},
         Leave(w, pc), minted \subseteq minted'
  PROVE  RunKnows'
<1>1. worker' \in [Workers -> RunType(DOMAIN attempts)]
  BY LeaveType DEF TypeOK, RunType
<1>2. \A v \in Workers \ {w} : worker'[v] = worker[v]
  BY DEF Leave, TypeOK
<1>3. worker'[w].pc = pc
  BY DEF Leave, TypeOK, Idle
<1>. QED BY <1>2, <1>3 DEF RunKnows, At

LEMMA PrepareKnows ==
  ASSUME TypeOK, RunKnows, NEW w \in Workers, Prepare(w)
  PROVE  RunKnows'
<1>1. minted' = minted
  BY DEF Prepare, supplyVars
<1>2. CASE PrepareSkip(w) \/ ExhaustChain(w)
  <2>1. Leave(w, "done") /\ "done" \in Place \ {"call", "settle"}
    BY <1>2 DEF PrepareSkip, ExhaustChain, Place
  <2>. QED BY <2>1, <1>1, LeaveKnows
<1>3. CASE ResumeAttempt(w) \/ StartAttempt(w)
  <2>1. \A v \in Workers \ {w} : worker'[v] = worker[v]
    BY <1>3 DEF ResumeAttempt, Resume, StartAttempt, InsertAttempt, TypeOK
  <2>2. worker'[w].pc = "call" /\ worker'[w].att # None
    <3>1. CASE ResumeAttempt(w)
      <4>1. PICK i \in OpenAttempts : worker'[w].pc = "call" /\ worker'[w].att = i
        BY <3>1 DEF ResumeAttempt, Resume, TypeOK
      <4>. QED BY <4>1, Rows DEF OpenAttempts, None
    <3>2. CASE StartAttempt(w)
      <4>1. worker'[w].pc = "call" /\ worker'[w].att = Len(attempts) + 1
        BY <3>2 DEF StartAttempt, InsertAttempt, TypeOK
      <4>. QED BY <4>1, Rows DEF None
    <3>. QED BY <1>3, <3>1, <3>2
  <2>. QED BY <2>1, <2>2, <1>1 DEF RunKnows, At
<1>. QED BY <1>2, <1>3 DEF Prepare

LEMMA CallKnows ==
  ASSUME TypeOK, RunKnows, NEW w \in Workers, Post(w) \/ Lookup(w)
  PROVE  RunKnows'
<1>1. PICK o \in Outcome \ {"none"}, e \in ErrorKind :
        /\ Answer(w, o, e)
        /\ o = "issued" => worker[w].att \in minted'
  <2>1. Errors \subseteq ErrorKind /\ {"none", "other"} \subseteq ErrorKind
    BY SupplierAssumption DEF ErrorKind
  <2>2. worker[w].err \in ErrorKind
    BY DEF TypeOK
  <2>3. CASE Post(w)
    BY <2>1, <2>3 DEF Post, Outcome
  <2>4. CASE Lookup(w)
    BY <2>1, <2>2, <2>4 DEF Lookup, Outcome, supplyVars
  <2>. QED BY <2>3, <2>4
<1>2. minted \subseteq minted'
  BY DEF Post, Lookup, LostPost, supplyVars
<1>3. worker[w].att # None
  BY DEF Post, Lookup, RunKnows, At
<1>4. \A v \in Workers \ {w} : worker'[v] = worker[v]
  BY <1>1 DEF Answer, TypeOK
<1>5. worker'[w].att = worker[w].att /\ worker'[w].outcome = o
  BY <1>1 DEF Answer, TypeOK
<1>. QED BY <1>1, <1>2, <1>3, <1>4, <1>5 DEF RunKnows, At

LEMMA SettleKnows ==
  ASSUME TypeOK, RunKnows, NEW w \in Workers, Settle(w)
  PROVE  RunKnows'
<1>. DEFINE Rest == Place \ {"call", "settle"}
<1>1. {"done", "again", "failed"} \subseteq Rest /\ RetryPlace(w) \in Rest
  BY DEF Place, RetryPlace
<1>2. \E pc \in Rest : Leave(w, pc)
  <2>1. CASE SettleIssued(w)
    BY <1>1, <2>1 DEF SettleIssued, SettleStranded, HandOver, InsertIssuedDelivery,
                      HandOverTooLate
  <2>2. CASE SettleRefused(w)
    BY <1>1, <2>2 DEF SettleRefused, ContinueOrRetry
  <2>3. CASE SettleUnknown(w)
    BY <1>1, <2>3 DEF SettleUnknown, PromoteToUnknown
  <2>4. CASE SettleResolved(w)
    BY <1>1, <2>4 DEF SettleResolved, MayAbandon, ContinueOrRetry
  <2>. QED BY <2>1, <2>2, <2>3, <2>4 DEF Settle
<1>3. minted' = minted
  BY DEF Settle, supplyVars
<1>. QED BY <1>2, <1>3, LeaveKnows

\* A run that starts, or ends, knows nothing.
LEMMA IdleKnows ==
  ASSUME TypeOK, RunKnows, NEW w \in Workers,
         Claim(w) \/ Complete(w) \/ Fail(w) \/ Crash(w)
  PROVE  RunKnows'
<1>1. \A v \in Workers \ {w} : worker'[v] = worker[v]
  BY DEF Claim, Complete, Fail, Crash, TypeOK
<1>2. worker'[w].pc \in {"first", "idle"}
  <2>1. CASE Claim(w)
    <3>1. PICK b \in BOOLEAN :
            worker' = [worker EXCEPT ![w] = [Idle EXCEPT !.pc = "first", !.gen = job.gen,
                                                         !.last = b]]
      BY <2>1 DEF Claim
    <3>. QED BY <3>1 DEF TypeOK, Idle
  <2>2. CASE Complete(w) \/ Fail(w) \/ Crash(w)
    BY <2>2 DEF Complete, Fail, Crash, TypeOK, Idle
  <2>. QED BY <2>1, <2>2
<1>3. minted \subseteq minted'
  BY DEF Claim, Complete, Fail, Crash, LostPost, supplyVars
<1>. QED BY <1>1, <1>2, <1>3 DEF RunKnows, At

LEMMA StepKnows ==
  ASSUME TypeOK, RunKnows, [Next]_vars
  PROVE  RunKnows'
<1>1. ASSUME worker' = worker, minted \subseteq minted' PROVE RunKnows'
  BY <1>1 DEF RunKnows, At
<1>2. ASSUME NEW w \in Workers, Run(w) \/ Crash(w) \/ AbortTransaction(w) PROVE RunKnows'
  <2>1. CASE Prepare(w)
    BY <2>1, PrepareKnows
  <2>2. CASE Post(w) \/ Lookup(w)
    BY <2>2, CallKnows
  <2>3. CASE Settle(w)
    BY <2>3, SettleKnows
  <2>4. CASE Claim(w) \/ Complete(w) \/ Fail(w) \/ Crash(w)
    BY <2>4, IdleKnows
  <2>5. CASE ExceedBudget(w) \/ ForceOutcome(w) \/ AbortTransaction(w)
    <3>1. \E pc \in Place \ {"call", "settle"} : Leave(w, pc)
      BY <2>5 DEF ExceedBudget, ForceOutcome, AbortTransaction, RetryPlace, Place
    <3>2. minted' = minted
      BY <2>5 DEF ExceedBudget, ForceOutcome, AbortTransaction, supplyVars
    <3>. QED BY <3>1, <3>2, LeaveKnows
  <2>. QED BY <1>2, <2>1, <2>2, <2>3, <2>4, <2>5 DEF Run
<1>3. ASSUME NEW i \in late, LatePost(i) PROVE RunKnows'
  BY <1>3, <1>1 DEF LatePost
<1>4. CASE PlaceOrder \/ CapturePayment \/ Sweeper \/ UNCHANGED vars
  BY <1>4, <1>1 DEF PlaceOrder, CapturePayment, Sweeper, Reclaim, RequeueStuck, Redeliver,
                    DemoteInFlight, PromoteToUnknown, RedriveUnknown, Resolvable, vars, supplyVars
<1>. QED BY <1>2, <1>3, <1>4 DEF Next

-----------------------------------------------------------------------------
(* The inductive invariant.                                                *)

\* What a step does to the order: most leave it; only an exhausted chain ends
\* in a recoverable status; only a hand-over delivers; only a redelivery opens
\* another generation.
StatusKept == UNCHANGED <<orderVars, delivered>>

StatusAdvances ==
  /\ ~IsRecoverable(status)
  /\ status # "delivered"
  /\ status' \in {"created", "paid", "delivering"}
  /\ UNCHANGED <<generation, delivered>>

ChainEnds ==
  /\ status \in {"paid", "delivering"}
  /\ OpenAttempts = {}
  /\ Pick = {}
  /\ ApplyExhausted
  /\ UNCHANGED <<generation, attempts, delivered>>

CodeHandedOver ==
  /\ status = "delivering"
  /\ status' = "delivered"
  /\ delivered = None => delivered' \in minted \ {None}
  /\ delivered # None => delivered' = delivered
  /\ UNCHANGED generation

GenerationOpens ==
  /\ IsRecoverable(status)
  /\ delivered = None
  /\ status' = "delivering"
  /\ UNCHANGED <<attempts, delivered>>

LEMMA OrderShape ==
  ASSUME TypeOK, RunKnows, [Next]_vars
  PROVE  StatusKept \/ StatusAdvances \/ ChainEnds \/ CodeHandedOver \/ GenerationOpens
<1>. DEFINE Good == StatusKept \/ StatusAdvances \/ ChainEnds \/ CodeHandedOver \/ GenerationOpens
<1>. USE DEF orderVars
<1>1. ASSUME NEW w \in Workers, Run(w) PROVE Good
  <2>1. CASE Prepare(w)
    <3>1. CASE PrepareSkip(w)
      BY <2>1, <3>1 DEF Prepare, PrepareSkip, StatusKept
    <3>2. CASE ~Skip(w) /\ (ResumeAttempt(w) \/ StartAttempt(w))
      BY <2>1, <3>2 DEF Prepare, Skip, ResumeAttempt, Resume, StartAttempt, InsertAttempt,
                        StatusAdvances,
                        IsRecoverable, RecoverableStatus
    <3>3. CASE ~Skip(w) /\ ExhaustChain(w)
      BY <2>1, <3>3 DEF Prepare, Skip, ExhaustChain, ChainEnds
    <3>. QED BY <2>1, <3>1, <3>2, <3>3 DEF Prepare
  <2>2. CASE Settle(w)
    <3>1. CASE SettleIssued(w) /\ HandOver(w)
      <4>1. worker[w].att \in minted \ {None}
        BY <2>2, <3>1 DEF Settle, SettleIssued, RunKnows, At
      <4>. QED BY <2>2, <3>1, <4>1 DEF Settle, HandOver, InsertIssuedDelivery, CodeHandedOver
    <3>2. CASE SettleIssued(w) /\ ~HandOver(w)
      BY <2>2, <3>2 DEF Settle, SettleIssued, SettleStranded, HandOverTooLate, StatusKept
    <3>3. CASE SettleRefused(w) \/ SettleUnknown(w) \/ SettleResolved(w)
      BY <2>2, <3>3 DEF Settle, SettleRefused, SettleUnknown, PromoteToUnknown, SettleResolved,
                        MayAbandon, StatusKept
    <3>. QED BY <2>2, <3>1, <3>2, <3>3 DEF Settle
  <2>3. CASE ForceOutcome(w)
    BY <2>3 DEF ForceOutcome, StatusKept, ChainEnds
  <2>4. CASE Claim(w) \/ ExceedBudget(w) \/ Post(w) \/ Lookup(w) \/ Complete(w) \/ Fail(w)
    BY <2>4 DEF Claim, ExceedBudget, Post, Lookup, Complete, Fail, StatusKept
  <2>. QED BY <1>1, <2>1, <2>2, <2>3, <2>4 DEF Run
<1>2. ASSUME NEW w \in Workers, Crash(w) \/ AbortTransaction(w) PROVE StatusKept
  BY <1>2 DEF Crash, AbortTransaction, StatusKept
<1>3. CASE PlaceOrder \/ CapturePayment
  BY <1>3 DEF PlaceOrder, CapturePayment, StatusAdvances, IsRecoverable, RecoverableStatus
<1>4. CASE Redeliver
  BY <1>4 DEF Redeliver, GenerationOpens
<1>5. CASE \/ Reclaim \/ RequeueStuck \/ UNCHANGED vars
           \/ \E i \in DOMAIN attempts : DemoteInFlight(i) \/ RedriveUnknown(i)
           \/ \E i \in late : LatePost(i)
  BY <1>5 DEF Reclaim, RequeueStuck, DemoteInFlight, PromoteToUnknown, RedriveUnknown,
              Resolvable, LatePost, vars, StatusKept
<1>. QED BY <1>1, <1>2, <1>3, <1>4, <1>5 DEF Next, Sweeper

LEMMA MintedStays ==
  ASSUME [Next]_vars
  PROVE  minted \subseteq minted'
<1>1. ASSUME NEW w \in Workers, Run(w) PROVE minted \subseteq minted'
  BY <1>1 DEF Run, Claim, Prepare, ExceedBudget, Post, LostPost, Lookup, Settle, ForceOutcome,
              Complete, Fail, supplyVars
<1>2. ASSUME NEW w \in Workers, Crash(w) \/ AbortTransaction(w) PROVE minted \subseteq minted'
  BY <1>2 DEF Crash, AbortTransaction, LostPost, supplyVars
<1>3. CASE PlaceOrder \/ CapturePayment \/ Sweeper \/ UNCHANGED vars
           \/ \E i \in late : LatePost(i)
  BY <1>3 DEF PlaceOrder, CapturePayment, Sweeper, Reclaim, RequeueStuck, Redeliver,
              DemoteInFlight, PromoteToUnknown, RedriveUnknown, Resolvable, LatePost, vars,
              supplyVars
<1>. QED BY <1>1, <1>2, <1>3 DEF Next

\* While the order is recoverable nothing touches its attempts: they are all
\* closed, and a new one needs an order that is paid or delivering.
LEMMA RecoverableKeeps ==
  ASSUME IsRecoverable(status), FailureMeansExhausted,
         UNCHANGED attempts \/ RewriteOpen \/ AppendRow
  PROVE  UNCHANGED attempts
BY DEF FailureMeansExhausted, RewriteOpen, AppendRow

LEMMA StepOneOpen ==
  ASSUME TypeOK, RunKnows, OneOpenAttempt, FailureMeansExhausted, [Next]_vars
  PROVE  OneOpenAttempt'
<1>1. UNCHANGED attempts \/ RewriteOpen \/ AppendRow
  BY StepShape
<1>2. CASE UNCHANGED attempts /\ generation' = generation
  BY <1>2 DEF OneOpenAttempt, OpenAttempts, Open
<1>3. CASE GenerationOpens
  <2>1. OpenAttempts = {} /\ attempts' = attempts
    BY <1>3 DEF GenerationOpens, FailureMeansExhausted
  <2>2. OpenAttempts' = {}
    BY <2>1 DEF OpenAttempts, Open
  <2>. QED BY <2>2 DEF OneOpenAttempt
<1>4. CASE RewriteOpen /\ generation' = generation
  <2>1. PICK i \in OpenAttempts, r \in Attempt :
          r.gen = attempts[i].gen /\ attempts' = [attempts EXCEPT ![i] = r]
    BY <1>4 DEF RewriteOpen
  <2>2. i \in DOMAIN attempts /\ DOMAIN attempts' = DOMAIN attempts
    BY <2>1 DEF OpenAttempts
  <2>3. attempts'[i].gen = generation
    BY <2>1, <2>2 DEF OneOpenAttempt
  <2>4. OpenAttempts' \subseteq OpenAttempts
    BY <2>1, <2>2 DEF OpenAttempts, Open
  <2>5. OpenAttempts' \subseteq {i}
    BY <2>4 DEF OneOpenAttempt
  <2>. QED BY <1>4, <2>3, <2>5 DEF OneOpenAttempt
<1>5. CASE AppendRow /\ generation' = generation
  <2>1. PICK r \in Attempt : r.gen = generation /\ attempts' = Append(attempts, r)
    BY <1>5 DEF AppendRow
  <2>2. /\ \A i \in 1 .. Len(attempts) : attempts'[i] = attempts[i]
        /\ attempts'[Len(attempts) + 1] = r
        /\ DOMAIN attempts' = 1 .. Len(attempts) + 1
    <3>1. attempts \in Seq(Attempt)
      BY Rows
    <3>. QED BY <2>1, <3>1, AppendProperties, LenProperties
  <2>3. OpenAttempts = {} /\ DOMAIN attempts = 1 .. Len(attempts) /\ Len(attempts) \in Nat
    BY <1>5, Rows DEF AppendRow
  <2>4. OpenAttempts' \subseteq {Len(attempts) + 1}
    BY <2>2, <2>3 DEF OpenAttempts, Open
  <2>. QED BY <1>5, <2>1, <2>2, <2>4 DEF OneOpenAttempt
<1>6. generation' = generation \/ GenerationOpens
  BY OrderShape DEF StatusKept, StatusAdvances, ChainEnds, CodeHandedOver, orderVars
<1>. QED BY <1>1, <1>2, <1>3, <1>4, <1>5, <1>6

LEMMA StepFailure ==
  ASSUME TypeOK, RunKnows, FailureMeansExhausted, [Next]_vars
  PROVE  FailureMeansExhausted'
<1>1. CASE StatusKept
  <2>1. CASE IsRecoverable(status)
    <3>1. attempts' = attempts /\ status' = status /\ generation' = generation
      BY <1>1, <2>1, StepShape, RecoverableKeeps DEF StatusKept, orderVars
    <3>. QED BY <3>1 DEF FailureMeansExhausted, OpenAttempts, Open, Pick
  <2>2. CASE ~IsRecoverable(status)
    BY <1>1, <2>2 DEF StatusKept, orderVars, FailureMeansExhausted, IsRecoverable
  <2>. QED BY <2>1, <2>2
<1>2. CASE ChainEnds
  <2>1. attempts' = attempts /\ generation' = generation
        /\ status' = ExhaustedStatus(attempts, generation)
    BY <1>2 DEF ChainEnds, ApplyExhausted
  <2>2. OpenAttempts' = {} /\ Pick' = {}
    BY <1>2, <2>1 DEF ChainEnds, OpenAttempts, Open, Pick
  <2>. QED BY <2>1, <2>2 DEF FailureMeansExhausted, ExhaustedStatus
<1>3. CASE StatusAdvances \/ CodeHandedOver \/ GenerationOpens
  BY <1>3 DEF StatusAdvances, CodeHandedOver, GenerationOpens, FailureMeansExhausted,
              IsRecoverable, RecoverableStatus
<1>. QED BY <1>1, <1>2, <1>3, OrderShape

LEMMA StepDelivered ==
  ASSUME TypeOK, RunKnows, DeliveredIsMinted, [Next]_vars
  PROVE  DeliveredIsMinted'
<1>1. minted \subseteq minted'
  BY MintedStays
<1>2. CASE StatusKept
  BY <1>1, <1>2 DEF StatusKept, orderVars, DeliveredIsMinted
<1>3. CASE StatusAdvances
  BY <1>1, <1>3 DEF StatusAdvances, DeliveredIsMinted
<1>4. CASE ChainEnds
  BY <1>1, <1>4 DEF ChainEnds, ApplyExhausted, ExhaustedStatus, DeliveredIsMinted
<1>5. CASE CodeHandedOver
  BY <1>1, <1>5 DEF CodeHandedOver, DeliveredIsMinted
<1>6. CASE GenerationOpens
  BY <1>1, <1>6 DEF GenerationOpens, DeliveredIsMinted
<1>. QED BY <1>2, <1>3, <1>4, <1>5, <1>6, OrderShape

\* OneOpenAttempt needs FailureMeansExhausted (a new generation must open on
\* closed attempts), which needs what a run knows and the types.
IInv == TypeOK /\ RunKnows /\ OneOpenAttempt /\ FailureMeansExhausted /\ DeliveredIsMinted

LEMMA InitInv == Init => IInv
<1>. SUFFICES ASSUME Init PROVE IInv
  OBVIOUS
<1>1. OpenAttempts = {}
  BY DEF Init, OpenAttempts
<1>2. RunKnows
  BY DEF Init, RunKnows, Idle, At
<1>3. ~IsRecoverable(status)
  BY DEF Init, IsRecoverable, RecoverableStatus
<1>4. DeliveredIsMinted
  BY DEF Init, DeliveredIsMinted
<1>. QED BY <1>1, <1>2, <1>3, <1>4, InitType DEF IInv, OneOpenAttempt, FailureMeansExhausted

LEMMA StepInv == IInv /\ [Next]_vars => IInv'
<1>. SUFFICES ASSUME TypeOK, RunKnows, OneOpenAttempt, FailureMeansExhausted, DeliveredIsMinted,
                     [Next]_vars
              PROVE  IInv'
  BY DEF IInv
<1>. QED BY StepType, StepKnows, StepOneOpen, StepFailure, StepDelivered DEF IInv

-----------------------------------------------------------------------------
(* Theorems.                                                               *)

\* Every row and every run has its type, and every code minted or handed over
\* belongs to a row of the table.
THEOREM TypeCorrect == Spec => []TypeOK
<1>1. IInv => TypeOK
  BY DEF IInv
<1>. QED BY <1>1, InitInv, StepInv, PTL DEF Spec

\* However the runs, the sweeps and the redeliveries interleave, an order has
\* at most one open attempt, and it is of the order's generation.
THEOREM AtMostOneOpenAttempt == Spec => []OneOpenAttempt
<1>1. IInv => OneOpenAttempt
  BY DEF IInv
<1>. QED BY <1>1, InitInv, StepInv, PTL DEF Spec

\* No order is failed, or called out of stock, while its plan has a supplier
\* left to ask or an attempt is open.
THEOREM FailedOnlyWhenExhausted == Spec => []FailureMeansExhausted
<1>1. IInv => FailureMeansExhausted
  BY DEF IInv
<1>. QED BY <1>1, InitInv, StepInv, PTL DEF Spec

\* A delivered order, and no other, has a code, and a supplier minted it.
THEOREM HandedOverIsMinted == Spec => []DeliveredIsMinted
<1>1. IInv => DeliveredIsMinted
  BY DEF IInv
<1>. QED BY <1>1, InitInv, StepInv, PTL DEF Spec

LEMMA StepFrozen ==
  IInv /\ [Next]_vars => [\A i \in DOMAIN attempts : ~Open(i) => attempts'[i] = attempts[i]]_vars
<1>. SUFFICES ASSUME IInv, [Next]_vars
              PROVE  \A i \in DOMAIN attempts : ~Open(i) => attempts'[i] = attempts[i]
  OBVIOUS
<1>. QED BY StepShape, HistoryGrows DEF IInv

\* A closed attempt never changes again, two live runs of the job or not.
THEOREM HistoryIsFrozen == Spec => ClosedAttemptsFrozen
  BY InitInv, StepInv, StepFrozen, PTL DEF Spec, ClosedAttemptsFrozen

-----------------------------------------------------------------------------
(* The chain of suppliers moves forward.                                   *)

\* Rank is the place of a supplier in the chain.
LEMMA RankOf ==
  /\ \A k \in DOMAIN FallbackChain : Rank(FallbackChain[k]) = k
  /\ \A s \in SupplierCode : Rank(s) \in DOMAIN FallbackChain /\ FallbackChain[Rank(s)] = s
<1>1. ASSUME NEW s \in SupplierCode
      PROVE  Rank(s) \in DOMAIN FallbackChain /\ FallbackChain[Rank(s)] = s
  <2>1. \E k \in DOMAIN FallbackChain : FallbackChain[k] = s
    BY DEF SupplierCode
  <2>. QED BY <2>1 DEF Rank
<1>2. ASSUME NEW k \in DOMAIN FallbackChain PROVE Rank(FallbackChain[k]) = k
  <2>1. FallbackChain[k] \in SupplierCode
    BY DEF SupplierCode
  <2>2. Rank(FallbackChain[k]) \in DOMAIN FallbackChain
        /\ FallbackChain[Rank(FallbackChain[k])] = FallbackChain[k]
    BY <1>1, <2>1
  <2>. QED BY <2>2, PlanAssumption
<1>. QED BY <1>1, <1>2

\* What a supplier would get depends on its own attempts and nothing else.
LEMMA SamePlan ==
  ASSUME NEW a, NEW b, NEW g, NEW s, NEW m,
         AttemptsFor(a, g, s) = AttemptsFor(b, g, s),
         \A i \in AttemptsFor(a, g, s) : a[i] = b[i]
  PROVE  NextNo(a, g, s, m) = NextNo(b, g, s, m)
<1>1. LastAttemptFor(a, g, s) = LastAttemptFor(b, g, s)
  BY DEF LastAttemptFor
<1>2. LastAttemptFor(a, g, s) \subseteq AttemptsFor(a, g, s)
  BY DEF LastAttemptFor
<1>. DEFINE J(t) == {j \in LastAttemptFor(t, g, s) :
                       /\ IsRetriableSameSupplier(t[j])
                       /\ Cardinality(AttemptsFor(t, g, s)) < m}
<1>3. J(a) = J(b) /\ \A i \in J(a) : a[i] = b[i]
  BY <1>1, <1>2
<1>4. {a[i].no + 1 : i \in J(a)} = {b[i].no + 1 : i \in J(b)}
  BY <1>3
<1>. HIDE DEF J
<1>5. NextNo(a, g, s, m) = (IF AttemptsFor(a, g, s) = {} THEN {1} ELSE {a[i].no + 1 : i \in J(a)})
  BY DEF NextNo, J
<1>6. NextNo(b, g, s, m) = (IF AttemptsFor(b, g, s) = {} THEN {1} ELSE {b[i].no + 1 : i \in J(b)})
  BY DEF NextNo, J
<1>. QED BY <1>4, <1>5, <1>6

\* A number of the plan: the first attempt at a supplier, or the next after a
\* last one that failed with a 5xx.
LEMMA NextNoCases ==
  ASSUME NEW a, NEW g, NEW s, NEW m, NEW n \in NextNo(a, g, s, m)
  PROVE  \/ AttemptsFor(a, g, s) = {}
         \/ \E j \in AttemptsFor(a, g, s) :
              /\ \A i \in AttemptsFor(a, g, s) : i <= j
              /\ IsRetriableSameSupplier(a[j])
              /\ n = a[j].no + 1
BY DEF NextNo, LastAttemptFor

LEMMA PickIsFirst ==
  ASSUME NEW c \in Pick
  PROVE  /\ c.sup \in SupplierCode
         /\ c.no \in NextNo(attempts, generation, c.sup, MaxAttemptsPerSupplier)
         /\ \A l \in DOMAIN FallbackChain : l < Rank(c.sup) =>
              NextNo(attempts, generation, FallbackChain[l], MaxAttemptsPerSupplier) = {}
<1>. DEFINE Numbers(k) == NextNo(attempts, generation, FallbackChain[k], MaxAttemptsPerSupplier)
<1>1. PICK k \in DOMAIN FallbackChain :
        /\ \A l \in DOMAIN FallbackChain : l < k => Numbers(l) = {}
        /\ \E n \in Numbers(k) : c = [sup |-> FallbackChain[k], no |-> n]
  BY DEF Pick, PickSupplier
<1>2. c.sup = FallbackChain[k] /\ c.no \in Numbers(k)
  BY <1>1
<1>3. Rank(c.sup) = k /\ c.sup \in SupplierCode
  BY <1>2, RankOf DEF SupplierCode
<1>. QED BY <1>1, <1>2, <1>3

\* Only the last row of the table can be open.
OpenIsLast == \A i \in OpenAttempts : i = Len(attempts)

\* The suppliers before one that was asked have nothing left to be asked for,
\* and since their rows are closed that is for good.
LeftBehind ==
  \A i \in DOMAIN attempts : \A k \in DOMAIN FallbackChain :
    k < Rank(attempts[i].sup) =>
      NextNo(attempts, attempts[i].gen, FallbackChain[k], MaxAttemptsPerSupplier) = {}

FallbackInv == OpenIsLast /\ LeftBehind /\ FallbackMovesForward

LEMMA RewriteFallback ==
  ASSUME TypeOK, FallbackInv, RewriteOpen
  PROVE  FallbackInv'
<1>1. PICK o \in OpenAttempts, r \in Attempt :
        /\ r.gen = attempts[o].gen /\ r.sup = attempts[o].sup /\ r.no = attempts[o].no
        /\ attempts' = [attempts EXCEPT ![o] = r]
  BY DEF RewriteOpen
<1>2. /\ o \in 1 .. Len(attempts)
      /\ DOMAIN attempts = 1 .. Len(attempts)
      /\ Len(attempts) \in Nat
      /\ o = Len(attempts)
  BY Rows DEF OpenAttempts, FallbackInv, OpenIsLast
<1>3. /\ DOMAIN attempts' = DOMAIN attempts
      /\ Len(attempts') = Len(attempts)
      /\ \A i \in DOMAIN attempts : i # o => attempts'[i] = attempts[i]
      /\ \A i \in DOMAIN attempts : /\ attempts'[i].sup = attempts[i].sup
                                    /\ attempts'[i].gen = attempts[i].gen
                                    /\ attempts'[i].no = attempts[i].no
  <2>1. Len(attempts') = Len(attempts)
    BY <1>1, <1>2, Rows, ExceptSeq
  <2>. QED BY <1>1, <1>2, <2>1
<1>4. OpenIsLast'
  BY <1>1, <1>2, <1>3 DEF FallbackInv, OpenIsLast, OpenAttempts, Open
<1>5. \A g, s : AttemptsFor(attempts', g, s) = AttemptsFor(attempts, g, s)
  BY <1>3 DEF AttemptsFor
<1>6. LeftBehind'
  <2>. SUFFICES ASSUME NEW i \in DOMAIN attempts, NEW k \in DOMAIN FallbackChain,
                       k < Rank(attempts[i].sup)
                PROVE  NextNo(attempts', attempts[i].gen, FallbackChain[k],
                              MaxAttemptsPerSupplier) = {}
    BY <1>3 DEF LeftBehind
  <2>1. o \notin AttemptsFor(attempts, attempts[i].gen, FallbackChain[k])
    <3>. SUFFICES ASSUME attempts[o].gen = attempts[i].gen, attempts[o].sup = FallbackChain[k]
                  PROVE  FALSE
      BY DEF AttemptsFor
    <3>1. Rank(attempts[o].sup) = k /\ k \in Int
      BY RankOf, PlanAssumption
    <3>2. attempts[i].sup \in SupplierCode
      BY Rows DEF Attempt
    <3>3. Rank(attempts[i].sup) \in Int
      BY <3>2, RankOf, PlanAssumption
    <3>4. i < o
      BY <1>2, <3>1, <3>3
    <3>5. Rank(attempts[i].sup) <= Rank(attempts[o].sup)
      BY <1>2, <3>4 DEF FallbackInv, FallbackMovesForward
    <3>. QED BY <3>1, <3>3, <3>5
  <2>2. \A j \in AttemptsFor(attempts, attempts[i].gen, FallbackChain[k]) :
          attempts'[j] = attempts[j]
    BY <1>3, <2>1 DEF AttemptsFor
  <2>3. NextNo(attempts', attempts[i].gen, FallbackChain[k], MaxAttemptsPerSupplier)
          = NextNo(attempts, attempts[i].gen, FallbackChain[k], MaxAttemptsPerSupplier)
    BY <1>5, <2>2, SamePlan
  <2>. QED BY <2>3 DEF FallbackInv, LeftBehind
<1>7. FallbackMovesForward'
  <2>. SUFFICES ASSUME NEW i \in DOMAIN attempts', NEW j \in DOMAIN attempts',
                       i < j, attempts'[i].gen = attempts'[j].gen
                PROVE  /\ Rank(attempts'[i].sup) <= Rank(attempts'[j].sup)
                       /\ attempts'[i].sup = attempts'[j].sup =>
                            /\ attempts'[i].no < attempts'[j].no
                            /\ IsRetriableSameSupplier(attempts'[i])
    BY DEF FallbackMovesForward
  <2>1. attempts'[i] = attempts[i]
    BY <1>2, <1>3
  <2>2. /\ Rank(attempts[i].sup) <= Rank(attempts[j].sup)
        /\ attempts[i].sup = attempts[j].sup =>
             attempts[i].no < attempts[j].no /\ IsRetriableSameSupplier(attempts[i])
    BY <1>3 DEF FallbackInv, FallbackMovesForward
  <2>. QED BY <1>3, <2>1, <2>2
<1>. QED BY <1>4, <1>6, <1>7 DEF FallbackInv

LEMMA AppendFallback ==
  ASSUME TypeOK, FallbackInv, AppendRow
  PROVE  FallbackInv'
<1>1. PICK r \in Attempt, c \in Pick :
        /\ r.gen = generation /\ r.sup = c.sup /\ r.no = c.no
        /\ attempts' = Append(attempts, r)
  BY DEF AppendRow
<1>. DEFINE n == Len(attempts) + 1
            Numbers(g, k) == NextNo(attempts, g, FallbackChain[k], MaxAttemptsPerSupplier)
<1>2. /\ DOMAIN attempts = 1 .. Len(attempts)
      /\ Len(attempts) \in Nat
      /\ DOMAIN attempts' = 1 .. n
      /\ Len(attempts') = n
      /\ \A i \in DOMAIN attempts : attempts'[i] = attempts[i]
      /\ attempts'[n] = r
  <2>1. attempts \in Seq(Attempt)
    BY Rows
  <2>. QED BY <1>1, <2>1, Rows, AppendProperties, LenProperties
<1>. HIDE DEF n
<1>3. n \notin DOMAIN attempts /\ n = Len(attempts) + 1
  BY <1>2 DEF n
<1>4. OpenIsLast'
  <2>1. OpenAttempts = {}
    BY DEF AppendRow
  <2>2. OpenAttempts' \subseteq {n}
    BY <1>2, <1>3, <2>1 DEF OpenAttempts, Open
  <2>. QED BY <1>2, <2>2 DEF OpenIsLast
\* The plan of a supplier before the new row's, or of one that was left behind,
\* is not touched by the new row.
<1>5. ASSUME NEW g, NEW k \in DOMAIN FallbackChain,
             ~(g = generation /\ FallbackChain[k] = c.sup)
      PROVE  NextNo(attempts', g, FallbackChain[k], MaxAttemptsPerSupplier) = Numbers(g, k)
  <2>1. AttemptsFor(attempts', g, FallbackChain[k]) = AttemptsFor(attempts, g, FallbackChain[k])
    BY <1>1, <1>2, <1>3, <1>5 DEF AttemptsFor
  <2>2. \A i \in AttemptsFor(attempts, g, FallbackChain[k]) : attempts'[i] = attempts[i]
    BY <1>2 DEF AttemptsFor
  <2>. QED BY <2>1, <2>2, SamePlan
<1>6. /\ c.sup \in SupplierCode
      /\ c.no \in NextNo(attempts, generation, c.sup, MaxAttemptsPerSupplier)
      /\ \A l \in DOMAIN FallbackChain : l < Rank(c.sup) => Numbers(generation, l) = {}
  BY PickIsFirst
<1>7. LeftBehind'
  <2>. SUFFICES ASSUME NEW i \in DOMAIN attempts', NEW k \in DOMAIN FallbackChain,
                       k < Rank(attempts'[i].sup)
                PROVE  NextNo(attempts', attempts'[i].gen, FallbackChain[k],
                              MaxAttemptsPerSupplier) = {}
    BY DEF LeftBehind
  <2>1. CASE i = n
    <3>1. attempts'[i].gen = generation /\ attempts'[i].sup = c.sup /\ k < Rank(c.sup)
      BY <1>1, <1>2, <2>1
    <3>2. FallbackChain[k] # c.sup
      BY <3>1, RankOf, PlanAssumption
    <3>. QED BY <1>5, <1>6, <3>1, <3>2
  <2>2. CASE i # n
    <3>1. i \in DOMAIN attempts /\ attempts'[i] = attempts[i]
      BY <1>2, <1>3, <2>2
    <3>2. Numbers(attempts[i].gen, k) = {}
      BY <3>1 DEF FallbackInv, LeftBehind
    <3>3. ~(attempts[i].gen = generation /\ FallbackChain[k] = c.sup)
      BY <1>6, <3>2
    <3>. QED BY <1>5, <3>1, <3>2, <3>3
  <2>. QED BY <2>1, <2>2
<1>8. FallbackMovesForward'
  <2>. SUFFICES ASSUME NEW i \in DOMAIN attempts', NEW j \in DOMAIN attempts',
                       i < j, attempts'[i].gen = attempts'[j].gen
                PROVE  /\ Rank(attempts'[i].sup) <= Rank(attempts'[j].sup)
                       /\ attempts'[i].sup = attempts'[j].sup =>
                            /\ attempts'[i].no < attempts'[j].no
                            /\ IsRetriableSameSupplier(attempts'[i])
    BY DEF FallbackMovesForward
  <2>1. i \in DOMAIN attempts /\ attempts'[i] = attempts[i] /\ attempts[i] \in Attempt
    BY <1>2, <1>3, Rows
  <2>2. CASE j # n
    <3>1. j \in DOMAIN attempts /\ attempts'[j] = attempts[j]
      BY <1>2, <1>3, <2>2
    <3>2. attempts[i].gen = attempts[j].gen
      BY <2>1, <3>1
    <3>3. /\ Rank(attempts[i].sup) <= Rank(attempts[j].sup)
          /\ attempts[i].sup = attempts[j].sup =>
               attempts[i].no < attempts[j].no /\ IsRetriableSameSupplier(attempts[i])
      BY <2>1, <3>1, <3>2 DEF FallbackInv, FallbackMovesForward
    <3>. QED BY <2>1, <3>1, <3>3
  <2>3. CASE j = n
    <3>1. attempts'[j] = r /\ attempts[i].gen = generation
      BY <1>1, <1>2, <2>1, <2>3
    <3>2. Rank(attempts[i].sup) <= Rank(c.sup)
      <4>1. Rank(c.sup) \in DOMAIN FallbackChain /\ FallbackChain[Rank(c.sup)] = c.sup
        BY <1>6, RankOf
      <4>2. ~(Rank(c.sup) < Rank(attempts[i].sup))
        BY <1>6, <2>1, <3>1, <4>1 DEF FallbackInv, LeftBehind
      <4>3. Rank(attempts[i].sup) \in DOMAIN FallbackChain
        BY <2>1, RankOf DEF Attempt
      <4>4. DOMAIN FallbackChain \subseteq Int
        BY PlanAssumption
      <4>. QED BY <4>1, <4>2, <4>3, <4>4
    <3>3. ASSUME attempts[i].sup = c.sup
          PROVE  attempts[i].no < c.no /\ IsRetriableSameSupplier(attempts[i])
      <4>1. i \in AttemptsFor(attempts, generation, c.sup)
        BY <2>1, <3>1, <3>3 DEF AttemptsFor
      <4>2. PICK l \in AttemptsFor(attempts, generation, c.sup) :
              /\ i <= l
              /\ IsRetriableSameSupplier(attempts[l])
              /\ c.no = attempts[l].no + 1
        BY <1>6, <4>1, NextNoCases
      <4>3. /\ l \in DOMAIN attempts /\ attempts[l] \in Attempt
            /\ attempts[l].gen = generation /\ attempts[l].sup = c.sup
        BY <4>2, Rows DEF AttemptsFor
      <4>4. attempts[l].no \in Nat /\ attempts[i].no \in Nat
        BY <2>1, <4>3 DEF Attempt
      <4>5. CASE i = l
        BY <4>2, <4>4, <4>5
      <4>6. CASE i < l
        <5>1. attempts[i].no < attempts[l].no /\ IsRetriableSameSupplier(attempts[i])
          BY <2>1, <3>1, <3>3, <4>3, <4>6 DEF FallbackInv, FallbackMovesForward
        <5>. QED BY <4>2, <4>4, <5>1
      <4>. QED BY <1>2, <2>1, <4>2, <4>3, <4>5, <4>6
    <3>. QED BY <1>1, <2>1, <3>1, <3>2, <3>3
  <2>. QED BY <2>2, <2>3
<1>. QED BY <1>4, <1>7, <1>8 DEF FallbackInv

LEMMA InitFallback == Init => FallbackInv
<1>. SUFFICES ASSUME Init PROVE FallbackInv
  OBVIOUS
<1>1. DOMAIN attempts = {}
  BY DEF Init
<1>. QED
  BY <1>1 DEF FallbackInv, OpenIsLast, OpenAttempts, LeftBehind, FallbackMovesForward

LEMMA StepFallback ==
  IInv /\ FallbackInv /\ [Next]_vars => FallbackInv'
<1>. SUFFICES ASSUME TypeOK, RunKnows, FallbackInv, [Next]_vars
              PROVE  FallbackInv'
  BY DEF IInv
<1>1. CASE UNCHANGED attempts
  BY <1>1 DEF FallbackInv, OpenIsLast, OpenAttempts, Open, LeftBehind, FallbackMovesForward
<1>. QED BY <1>1, StepShape, RewriteFallback, AppendFallback

\* Within a generation no attempt goes back to a supplier the chain has left,
\* and one is repeated at a supplier only after that one answered with a 5xx.
THEOREM ChainMovesForward == Spec => []FallbackMovesForward
<1>1. FallbackInv => FallbackMovesForward
  BY DEF FallbackInv
<1>. QED BY <1>1, InitInv, StepInv, InitFallback, StepFallback, PTL DEF Spec

-----------------------------------------------------------------------------
(* SupplierFulfilment implements StoreOrders, for every set of workers,    *)
(* every chain and every cap: each of its steps is one transaction of      *)
(* StoreOrders, or a step StoreOrders does not see.                        *)
(*                                                                         *)
(* What StoreOrders sees: the order's row, whether it was delivered, the   *)
(* generation of its live job, and the generations of the runs.            *)

JobGen == IF job = NoJob THEN -1 ELSE job.gen
RunGens == {<<Order, worker[w].gen>> : w \in {x \in Workers : Busy(x)}}

RowKept == UNCHANGED orderVars /\ ((delivered' = None) <=> (delivered = None))
QueueKept == UNCHANGED <<JobGen, RunGens>>

\* A step that keeps all of that is none of StoreOrders.
LEMMA Unseen ==
  ASSUME RowKept, QueueKept
  PROVE  UNCHANGED Store!vars
BY DEF RowKept, QueueKept, orderVars, JobGen, RunGens, IsPaid,
       Store!vars, Store!orderVars, Store!eventVars, Store!ledgerVars

\* A run that takes a turn keeps its generation, and the job as it is.
LEMMA TurnKeepsQueue ==
  ASSUME TypeOK, NEW w \in Workers,
         \/ Prepare(w) \/ ExceedBudget(w) \/ Post(w) \/ Lookup(w) \/ Settle(w)
         \/ ForceOutcome(w) \/ AbortTransaction(w)
  PROVE  QueueKept
<1>1. /\ \A v \in Workers : (worker'[v].pc # "idle") <=> (worker[v].pc # "idle")
      /\ \A v \in Workers : worker'[v].gen = worker[v].gen
  BY Turn DEF Busy
<1>. QED BY <1>1, Turn DEF QueueKept, RunGens, JobGen, Busy

\* A run that ends takes its generation with it, unless another run has it too.
LEMMA RunEnds ==
  ASSUME TypeOK, NEW w \in Workers, Busy(w), worker' = [worker EXCEPT ![w] = Idle]
  PROVE  RunGens' \in {RunGens, RunGens \ {<<Order, worker[w].gen>>}}
<1>1. \A v \in Workers \ {w} : worker'[v] = worker[v]
  BY DEF TypeOK
<1>2. worker'[w].pc = "idle"
  BY DEF TypeOK, Idle
<1>3. RunGens' = {<<Order, worker[v].gen>> : v \in {x \in Workers : Busy(x)} \ {w}}
  BY <1>1, <1>2 DEF RunGens, Busy
<1>4. RunGens = RunGens' \cup {<<Order, worker[w].gen>>}
  BY <1>3 DEF RunGens
<1>. QED BY <1>4

-----------------------------------------------------------------------------
(* The steps StoreOrders sees.                                             *)

\* The run of w is of the generation the order is in.
LEMMA Current ==
  ASSUME NEW w \in Workers, Busy(w), ~Stale(w)
  PROVE  Store!CurrentRun(Order)
BY DEF Stale, Store!CurrentRun, Busy

LEMMA SeenPlace ==
  ASSUME PlaceOrder
  PROVE  Store!CreateOrder(Order)
BY DEF PlaceOrder, Store!CreateOrder, Store!eventVars, Store!ledgerVars, IsPaid, Busy

LEMMA SeenCapture ==
  ASSUME TypeOK, CapturePayment
  PROVE  Store!Webhook(Payment, PaymentBody)
<1>1. status = "created" /\ status' = "paid" /\ Enqueue(generation)
  BY DEF CapturePayment
<1>2. JobGen' = IF JobGen = -1 THEN generation ELSE JobGen
  BY <1>1, SupplierAssumption DEF Enqueue, NewJob, NoJob, JobGen, TypeOK, Job, Generations
<1>3. Store!InsertPending(Payment, PaymentBody)
  BY <1>1 DEF Store!InsertPending, IsPaid
<1>4. Store!Admissible(PaymentBody)
  BY <1>1 DEF Store!Admissible, Store!OrderKnown, Store!AmountOk, Store!NotStale, Store!Never,
              PaymentBody, IsPaid
<1>5. /\ Store!ResolvesTo(status, "PAYMENT_PAID", "apply")
      /\ Store!Resolve(status, "PAYMENT_PAID").to = "paid"
  BY <1>1 DEF Store!ResolvesTo, Store!Resolve, Store!IsLegal, Store!TransitionTable,
              Store!ApplyTo
<1>6. Store!EventOf(PaymentBody) = "PAYMENT_PAID"
  BY DEF Store!EventOf, PaymentBody
<1>7. IsPaid' /\ ~IsPaid /\ delivered' = delivered /\ generation' = generation
  BY <1>1 DEF CapturePayment, IsPaid
<1>8. Store!Transition(Order, "paid") /\ Store!Finalise(Payment, "applied")
  BY <1>1, <1>7 DEF Store!Transition, Store!Finalise
<1>9. Store!Enqueue(Order, generation)
  BY <1>2 DEF Store!Enqueue, Store!NoJob, JobGen
<1>10. Store!ApplyTransition(Payment, PaymentBody)
  BY <1>1, <1>4, <1>5, <1>6, <1>7, <1>8, <1>9
  DEF Store!ApplyTransition, PaymentBody
<1>. QED BY <1>3, <1>10 DEF CapturePayment, Store!Webhook, Store!ApplyPersistedEvent, Busy

LEMMA SeenClaim ==
  ASSUME TypeOK, NEW w \in Workers, Claim(w)
  PROVE  Store!StartRun(Order)
<1>1. job \in Job /\ ~Busy(w)
  BY DEF Claim, TypeOK
<1>2. PICK n, b :
        /\ job' = [job EXCEPT !.state = "running", !.owner = w, !.tries = n]
        /\ worker' = [worker EXCEPT ![w] = [Idle EXCEPT !.pc = "first", !.gen = job.gen,
                                                        !.last = b]]
  BY DEF Claim
<1>3. job' # NoJob /\ job'.gen = job.gen /\ job # NoJob /\ job.gen # -1
  <2>1. job'.state = "running" /\ job'.gen = job.gen
    BY <1>1, <1>2 DEF Job
  <2>2. job.gen \in Nat
    BY <1>1, SupplierAssumption DEF Job, Generations
  <2>3. job # NoJob
    BY DEF Claim
  <2>. QED BY <2>1, <2>2, <2>3 DEF NoJob
<1>4. /\ \A v \in Workers \ {w} : worker'[v] = worker[v]
      /\ worker'[w].pc = "first" /\ worker'[w].gen = job.gen
  BY <1>2 DEF TypeOK, Idle
<1>5. RunGens' = RunGens \cup {<<Order, job.gen>>}
  BY <1>1, <1>4 DEF RunGens, Busy
<1>6. /\ JobGen # -1
      /\ JobGen' = JobGen
      /\ RunGens' = RunGens \cup {<<Order, JobGen>>}
  BY <1>3, <1>5 DEF JobGen
<1>7. status' = status /\ generation' = generation /\ delivered' = delivered
  BY DEF Claim, orderVars
<1>. QED
  BY <1>6, <1>7 DEF Store!StartRun, Store!NoJob, Store!orderVars, Store!eventVars,
                    Store!ledgerVars, JobGen, RunGens, IsPaid

\* The first call of an order's run takes the order from paid to delivering.
LEMMA SeenBegin ==
  ASSUME NEW w \in Workers, Busy(w), ~Stale(w), status = "paid", status' = "delivering",
         generation' = generation, delivered' = delivered, QueueKept
  PROVE  Store!BeginDelivery(Order)
<1>1. Store!CurrentRun(Order)
  BY Current
<1>2. IsPaid /\ IsPaid'
  BY DEF IsPaid
<1>. QED
  BY <1>1, <1>2 DEF Store!BeginDelivery, Store!Transition, Store!eventVars, Store!ledgerVars,
                    QueueKept, JobGen, RunGens

LEMMA SeenHandOver ==
  ASSUME NEW w \in Workers, Busy(w), ~Stale(w), status = "delivering", status' = "delivered",
         generation' = generation, delivered' # None, QueueKept
  PROVE  Store!HandOver(Order)
<1>1. Store!CurrentRun(Order)
  BY Current
<1>2. IsPaid /\ IsPaid'
  BY DEF IsPaid
<1>. QED
  BY <1>1, <1>2 DEF Store!HandOver, Store!Deliverable, Store!Transition, Store!eventVars,
                    QueueKept, JobGen, RunGens

\* The chain ends, on the ordinary path or on the forced one.
LEMMA SeenExhaust ==
  ASSUME NEW w \in Workers, Busy(w), ~Stale(w), status = "delivering", ApplyExhausted,
         generation' = generation, delivered' = delivered, QueueKept
  PROVE  Store!RunOutOfStock(Order) \/ Store!ExhaustSuppliers(Order)
<1>1. Store!CurrentRun(Order)
  BY Current
<1>2. status' \in {"out_of_stock", "delivery_failed"}
  BY DEF ApplyExhausted, ExhaustedStatus
<1>3. IsPaid /\ IsPaid'
  BY <1>2 DEF IsPaid
<1>4. CASE status' = "out_of_stock"
  BY <1>1, <1>3, <1>4
  DEF Store!RunOutOfStock, Store!Deliverable, Store!Transition, Store!eventVars,
      Store!ledgerVars, QueueKept, JobGen, RunGens
<1>5. CASE status' = "delivery_failed"
  BY <1>1, <1>3, <1>5
  DEF Store!ExhaustSuppliers, Store!Transition, Store!eventVars, Store!ledgerVars,
      QueueKept, JobGen, RunGens
<1>. QED BY <1>2, <1>4, <1>5

\* A run ends without its job: the run is dropped, unless StoreOrders still
\* sees another of its generation.
LEMMA SeenDrop ==
  ASSUME TypeOK, NEW w \in Workers, Busy(w), worker' = [worker EXCEPT ![w] = Idle],
         JobGen' = JobGen, RowKept
  PROVE  (\E g \in Store!Generations : Store!DropRun(Order, g)) \/ UNCHANGED Store!vars
<1>. PICK g \in Store!Generations : g = worker[w].gen
  BY DEF TypeOK, Generations, Store!Generations
<1>1. CASE RunGens' = RunGens
  BY <1>1, Unseen DEF QueueKept
<1>2. CASE RunGens' = RunGens \ {<<Order, g>>}
  <2>1. <<Order, g>> \in RunGens
    BY DEF RunGens
  <2>2. Store!DropRun(Order, g)
    BY <1>2, <2>1 DEF Store!DropRun, Store!orderVars, Store!eventVars, Store!ledgerVars,
                      RowKept, orderVars, JobGen, RunGens, IsPaid
  <2>. QED BY <2>2
<1>. QED BY <1>1, <1>2, RunEnds

\* A run that holds its job is of the generation in the job's payload.
OwnClaim == \A w \in Workers : Busy(w) /\ Holds(w) => worker[w].gen = job.gen

LEMMA SeenClose ==
  ASSUME TypeOK, OwnClaim, NEW w \in Workers, Busy(w), Holds(w), job' = NoJob,
         worker' = [worker EXCEPT ![w] = Idle], RowKept
  PROVE  Store!CloseJob(Order)
<1>1. job \in Job /\ worker[w].gen = job.gen
  BY DEF Holds, TypeOK, OwnClaim
<1>2. JobGen = worker[w].gen /\ JobGen # -1 /\ JobGen' = -1
  BY <1>1, SupplierAssumption DEF JobGen, Holds, Job, Generations
<1>3. <<Order, JobGen>> \in RunGens
  BY <1>2 DEF RunGens
<1>4. RunGens' \in {RunGens, RunGens \ {<<Order, JobGen>>}}
  BY <1>2, RunEnds
<1>. QED
  BY <1>2, <1>3, <1>4 DEF Store!CloseJob, Store!NoJob, Store!orderVars, Store!eventVars,
                          Store!ledgerVars, RowKept, orderVars, JobGen, RunGens, IsPaid

\* Pass 2, or the enqueue of pass 5b, gives the order a job of its generation.
LEMMA SeenRequeue ==
  ASSUME TypeOK, status \in {"paid", "delivering"}, delivered = None, job = NoJob,
         Enqueue(generation), UNCHANGED <<orderVars, delivered, worker>>
  PROVE  Store!RequeueStuck(Order)
<1>1. JobGen = -1 /\ JobGen' = generation
  BY SupplierAssumption DEF Enqueue, NewJob, NoJob, JobGen, TypeOK, Generations
<1>2. IsPaid
  BY DEF IsPaid
<1>3. Store!Stuck(Order)
  BY <1>1, <1>2 DEF Store!Stuck, Store!NoJob, JobGen
<1>4. RunGens' = RunGens
  BY DEF RunGens, Busy
<1>. QED
  BY <1>1, <1>3, <1>4 DEF Store!RequeueStuck, Store!Enqueue, Store!NoJob, Store!orderVars,
                          Store!eventVars, Store!ledgerVars, orderVars, JobGen, RunGens, IsPaid

LEMMA SeenRedeliver ==
  ASSUME TypeOK, Redeliver
  PROVE  Store!AdminRedeliver(Order)
<1>1. /\ status \in {"out_of_stock", "delivery_failed"}
      /\ status' = "delivering"
      /\ generation < MaxGenerations /\ generation' = generation + 1
      /\ delivered = None /\ delivered' = None
  BY DEF Redeliver, IsRecoverable, RecoverableStatus
<1>2. JobGen' = IF JobGen = -1 THEN generation + 1 ELSE JobGen
  BY SupplierAssumption
  DEF Redeliver, Enqueue, NewJob, NoJob, JobGen, TypeOK, Job, Generations
<1>3. /\ Store!ResolvesTo(status, "ADMIN_REDELIVER", "apply")
      /\ Store!Resolve(status, "ADMIN_REDELIVER").to = "delivering"
  BY <1>1 DEF Store!ResolvesTo, Store!Resolve, Store!IsLegal, Store!TransitionTable,
              Store!ApplyTo
<1>4. RunGens' = RunGens /\ IsPaid /\ IsPaid'
  BY <1>1 DEF Redeliver, RunGens, Busy, IsPaid
<1>5. Store!Transition(Order, "delivering")
  BY <1>1 DEF Store!Transition
<1>6. Store!Enqueue(Order, generation + 1)
  BY <1>2 DEF Store!Enqueue, Store!NoJob, JobGen
<1>7. Store!Redeliver(Order, "ADMIN_REDELIVER")
  BY <1>1, <1>3, <1>4, <1>5, <1>6
  DEF Store!Redeliver, Store!eventVars, Store!ledgerVars, RunGens
<1>8. Store!IsRecoverable(status)
  BY <1>1 DEF Store!IsRecoverable, Store!RecoverableStatus
<1>. QED BY <1>1, <1>7, <1>8 DEF Store!AdminRedeliver

-----------------------------------------------------------------------------
(* What the simulation needs of the state.                                 *)

\* Before its first call a paid order has no attempt, so its plan has somebody
\* to ask: the chain cannot end from 'paid'.
NothingAsked == status \in {"absent", "created", "paid"} => attempts = <<>>

LEMMA FreshPlan ==
  ASSUME attempts = <<>>
  PROVE  Pick # {}
<1>1. \A k \in DOMAIN FallbackChain :
        NextNo(attempts, generation, FallbackChain[k], MaxAttemptsPerSupplier) = {1}
  BY DEF NextNo, AttemptsFor
<1>2. 1 \in DOMAIN FallbackChain /\ \A l \in DOMAIN FallbackChain : ~(l < 1)
  BY PlanAssumption
<1>3. [sup |-> FallbackChain[1], no |-> 1] \in Pick
  BY <1>1, <1>2 DEF Pick, PickSupplier
<1>. QED BY <1>3

LEMMA StepNothingAsked ==
  ASSUME TypeOK, RunKnows, NothingAsked, [Next]_vars
  PROVE  NothingAsked'
<1>. DEFINE Early(s) == s \in {"absent", "created", "paid"}
<1>1. ASSUME attempts' = attempts, Early(status') => Early(status) PROVE NothingAsked'
  BY <1>1 DEF NothingAsked
<1>2. ASSUME NEW i \in DOMAIN attempts, Early(status') => Early(status) PROVE NothingAsked'
  BY <1>2, Rows DEF NothingAsked
<1>3. ASSUME NEW w \in Workers, Prepare(w) PROVE NothingAsked'
  <2>1. CASE PrepareSkip(w)
    BY <1>1, <2>1 DEF PrepareSkip
  <2>2. CASE ResumeAttempt(w) \/ StartAttempt(w)
    BY <2>2 DEF ResumeAttempt, Resume, StartAttempt, InsertAttempt, NothingAsked
  <2>3. CASE ExhaustChain(w)
    BY <2>3 DEF ExhaustChain, ApplyExhausted, ExhaustedStatus, NothingAsked
  <2>. QED BY <1>3, <2>1, <2>2, <2>3 DEF Prepare
<1>4. ASSUME NEW w \in Workers, Settle(w) PROVE NothingAsked'
  <2>1. worker[w].att \in DOMAIN attempts
    BY <1>4 DEF Settle, RunKnows, TypeOK, At
  <2>2. status' \in {status, "delivered"}
    BY <1>4 DEF Settle, SettleIssued, SettleStranded, HandOver, InsertIssuedDelivery,
                HandOverTooLate, SettleRefused, SettleUnknown, PromoteToUnknown,
                SettleResolved, MayAbandon
  <2>. QED BY <1>2, <2>1, <2>2
<1>5. ASSUME NEW w \in Workers, ForceOutcome(w) PROVE NothingAsked'
  BY <1>1, <1>5 DEF ForceOutcome, ApplyExhausted, ExhaustedStatus
<1>6. ASSUME NEW w \in Workers, Run(w) PROVE NothingAsked'
  <2>1. CASE Claim(w) \/ ExceedBudget(w) \/ Post(w) \/ Lookup(w) \/ Complete(w) \/ Fail(w)
    BY <1>1, <2>1 DEF Claim, ExceedBudget, Post, Lookup, Complete, Fail, orderVars
  <2>. QED BY <1>3, <1>4, <1>5, <1>6, <2>1 DEF Run
<1>7. ASSUME NEW w \in Workers, Crash(w) \/ AbortTransaction(w) PROVE NothingAsked'
  BY <1>1, <1>7 DEF Crash, AbortTransaction, orderVars
<1>8. CASE PlaceOrder \/ CapturePayment \/ Reclaim \/ RequeueStuck \/ Redeliver
           \/ (\E i \in late : LatePost(i)) \/ UNCHANGED vars
  BY <1>1, <1>8 DEF PlaceOrder, CapturePayment, Reclaim, RequeueStuck, Redeliver, LatePost,
                    vars, orderVars
<1>9. ASSUME NEW i \in DOMAIN attempts, DemoteInFlight(i) \/ RedriveUnknown(i)
      PROVE  NothingAsked'
  BY <1>2, <1>9 DEF DemoteInFlight, PromoteToUnknown, RedriveUnknown, Resolvable, orderVars
<1>. QED BY <1>6, <1>7, <1>8, <1>9 DEF Next, Sweeper

\* A run goes from claim to end with the generation of its claim, and the row
\* it claimed carries its name until it is reclaimed.
LEMMA StepOwnClaim ==
  ASSUME TypeOK, OwnClaim, [Next]_vars
  PROVE  OwnClaim'
<1>1. ASSUME job' = job \/ job'.owner = Nobody,
             \A v \in Workers : Busy(v)' => Busy(v) /\ worker'[v].gen = worker[v].gen
      PROVE  OwnClaim'
  BY <1>1, SupplierAssumption DEF OwnClaim, Holds
<1>2. ASSUME worker' = worker, job' = job \/ job'.owner = Nobody
      PROVE  OwnClaim'
  BY <1>1, <1>2 DEF Busy
<1>3. ASSUME NEW g, Enqueue(g) PROVE job' = job \/ job'.owner = Nobody
  BY <1>3 DEF Enqueue, NewJob
<1>4. ASSUME NEW w \in Workers,
             \/ Prepare(w) \/ ExceedBudget(w) \/ Post(w) \/ Lookup(w) \/ Settle(w)
             \/ ForceOutcome(w) \/ AbortTransaction(w)
      PROVE  OwnClaim'
  BY <1>1, <1>4, Turn DEF Busy
<1>5. ASSUME NEW w \in Workers, Complete(w) \/ Fail(w) \/ Crash(w) PROVE OwnClaim'
  <2>1. /\ worker' = [worker EXCEPT ![w] = Idle]
        /\ job' \in {job, NoJob, [job EXCEPT !.state = "pending", !.owner = Nobody]}
    BY <1>5 DEF Complete, Fail, Crash
  <2>2. job' = job \/ job'.owner = Nobody
    <3>1. NoJob.owner = Nobody
      BY DEF NoJob
    <3>2. [job EXCEPT !.state = "pending", !.owner = Nobody].owner = Nobody
      BY DEF TypeOK, Job, NoJob
    <3>. QED BY <2>1, <3>1, <3>2
  <2>3. \A v \in Workers : Busy(v)' => v # w
    BY <2>1 DEF TypeOK, Busy, Idle
  <2>. QED BY <1>1, <2>1, <2>2, <2>3 DEF Busy, TypeOK
<1>6. ASSUME NEW w \in Workers, Claim(w) PROVE OwnClaim'
  <2>1. PICK n, b :
          /\ job' = [job EXCEPT !.state = "running", !.owner = w, !.tries = n]
          /\ worker' = [worker EXCEPT ![w] = [Idle EXCEPT !.pc = "first", !.gen = job.gen,
                                                          !.last = b]]
    BY <1>6 DEF Claim
  <2>2. job \in Job
    BY <1>6 DEF Claim, TypeOK
  <2>3. job'.owner = w /\ job'.gen = job.gen
    BY <2>1, <2>2 DEF Job
  <2>4. worker'[w].gen = job.gen
    BY <2>1 DEF TypeOK, Idle
  <2>. QED BY <2>3, <2>4 DEF OwnClaim, Holds
<1>7. CASE Reclaim
  <2>1. job' = [job EXCEPT !.state = "pending", !.owner = Nobody] /\ job \in Job
    BY <1>7 DEF Reclaim, TypeOK
  <2>2. job'.owner = Nobody
    BY <2>1 DEF Job
  <2>. QED BY <1>2, <1>7, <2>2 DEF Reclaim
<1>8. CASE PlaceOrder \/ CapturePayment \/ RequeueStuck \/ Redeliver
            \/ (\E i \in late : LatePost(i)) \/ UNCHANGED vars
  BY <1>2, <1>3, <1>8 DEF PlaceOrder, CapturePayment, RequeueStuck, Redeliver, LatePost, vars
<1>9. ASSUME NEW i \in DOMAIN attempts, DemoteInFlight(i) \/ RedriveUnknown(i) PROVE OwnClaim'
  BY <1>2, <1>3, <1>9 DEF DemoteInFlight, PromoteToUnknown, RedriveUnknown, Resolvable
<1>10. ASSUME NEW w \in Workers, Run(w) PROVE OwnClaim'
  BY <1>10, <1>4, <1>5, <1>6 DEF Run
<1>. QED BY <1>4, <1>5, <1>7, <1>8, <1>9, <1>10 DEF Next, Sweeper

-----------------------------------------------------------------------------
(* The simulation.                                                         *)

SInv == IInv /\ NothingAsked /\ OwnClaim

LEMMA InitSimulated == Init => Store!Init
<1>. SUFFICES ASSUME Init PROVE Store!Init
  OBVIOUS
<1>1. ~IsPaid /\ JobGen = -1 /\ RunGens = {}
  BY DEF Init, IsPaid, JobGen, RunGens, Busy, Idle
<1>2. AnyPaymentBody = Store!AnyBody
  BY DEF AnyPaymentBody, Store!AnyBody, Store!Body, Store!Times
<1>3. status = "absent" /\ generation = 0 /\ delivered = None
  BY DEF Init
<1>4. {<<Order, g>> : g \in {x \in {generation} : status = "delivered"}} = {}
  BY <1>3
<1>5. \A b : [e \in {Payment} |-> IF IsPaid THEN PaymentBody ELSE b] = [e \in {Payment} |-> b]
  BY <1>1
<1>6. [e \in {Payment} |-> IF IsPaid THEN PaymentBody ELSE AnyPaymentBody]
        = [e \in {Payment} |-> Store!AnyBody]
  BY <1>2, <1>5
<1>7. [o \in {Order} |-> IsPaid] = [o \in {Order} |-> FALSE]
  <2>1. IsPaid = FALSE
    BY <1>1, <1>3 DEF IsPaid
  <2>. QED BY <2>1, Zenon
<1>. QED
  BY <1>1, <1>3, <1>4, <1>6, <1>7
  DEF Store!Init, Store!NoJob, Store!Never, JobGen, RunGens

LEMMA InitSInv == Init => SInv
<1>1. Init => NothingAsked /\ OwnClaim
  BY DEF Init, NothingAsked, OwnClaim, Idle, Busy
<1>. QED BY <1>1, InitInv DEF SInv

LEMMA StepSInv == SInv /\ [Next]_vars => SInv'
  BY StepInv, StepNothingAsked, StepOwnClaim DEF SInv, IInv

\* One action of StoreOrders, or a step it does not see.
Simulated == [Store!Next]_(Store!vars)

LEMMA PrepareSimulated ==
  ASSUME SInv, NEW w \in Workers, Prepare(w)
  PROVE  Simulated
<1>1. NothingAsked /\ Busy(w) /\ QueueKept /\ delivered' = delivered /\ generation' = generation
  BY TurnKeepsQueue DEF SInv, IInv, Prepare, At, Busy
<1>2. CASE PrepareSkip(w)
  BY <1>1, <1>2, Unseen DEF PrepareSkip, RowKept, orderVars, Simulated
<1>3. CASE ~Skip(w) /\ (ResumeAttempt(w) \/ StartAttempt(w))
  <2>1. status' = "delivering" /\ ~Stale(w) /\ status \in {"paid", "delivering"}
    BY <1>3 DEF ResumeAttempt, Resume, StartAttempt, InsertAttempt, Skip, Stale
  <2>2. CASE status = "paid"
    <3>1. Store!BeginDelivery(Order)
      BY <1>1, <2>1, <2>2, SeenBegin
    <3>. QED BY <3>1 DEF Simulated, Store!Next, Store!Fulfilment
  <2>3. CASE status = "delivering"
    BY <1>1, <2>1, <2>3, Unseen DEF RowKept, orderVars, Simulated
  <2>. QED BY <2>1, <2>2, <2>3
<1>4. CASE ~Skip(w) /\ ExhaustChain(w)
  <2>1. status # "paid"
    BY <1>1, <1>4, FreshPlan DEF ExhaustChain, NothingAsked
  <2>2. status = "delivering" /\ ~Stale(w) /\ ApplyExhausted
    BY <1>4, <2>1 DEF Skip, Stale, ExhaustChain
  <2>3. Store!RunOutOfStock(Order) \/ Store!ExhaustSuppliers(Order)
    BY <1>1, <2>2, SeenExhaust
  <2>. QED BY <2>3 DEF Simulated, Store!Next, Store!Fulfilment
<1>. QED BY <1>2, <1>3, <1>4 DEF Prepare

LEMMA SettleSimulated ==
  ASSUME SInv, NEW w \in Workers, Settle(w)
  PROVE  Simulated
<1>1. RunKnows /\ Busy(w) /\ QueueKept /\ generation' = generation
  BY TurnKeepsQueue DEF SInv, IInv, Settle, At, Busy
<1>2. CASE SettleIssued(w) /\ HandOver(w)
  <2>1. worker[w].att # None
    BY <1>1 DEF Settle, RunKnows, At
  <2>2. ~Stale(w) /\ status = "delivering" /\ status' = "delivered" /\ delivered' # None
    BY <1>2, <2>1 DEF HandOver, InsertIssuedDelivery
  <2>3. Store!HandOver(Order)
    BY <1>1, <2>2, SeenHandOver
  <2>. QED BY <2>3 DEF Simulated, Store!Next, Store!Fulfilment
<1>3. CASE ~(SettleIssued(w) /\ HandOver(w))
  <2>1. status' = status /\ delivered' = delivered
    BY <1>3 DEF Settle, SettleIssued, SettleStranded, HandOverTooLate, SettleRefused,
                SettleUnknown, PromoteToUnknown, SettleResolved, MayAbandon
  <2>. QED BY <1>1, <2>1, Unseen DEF RowKept, orderVars, Simulated
<1>. QED BY <1>2, <1>3

LEMMA RunSimulated ==
  ASSUME SInv, NEW w \in Workers, Run(w)
  PROVE  Simulated
<1>1. TypeOK /\ OwnClaim
  BY DEF SInv, IInv
<1>2. CASE Claim(w)
  BY <1>1, <1>2, SeenClaim DEF Simulated, Store!Next, Store!Fulfilment
<1>3. CASE ExceedBudget(w) \/ Post(w) \/ Lookup(w)
  <2>1. RowKept
    BY <1>3 DEF ExceedBudget, Post, Lookup, RowKept
  <2>. QED BY <1>1, <1>3, <2>1, TurnKeepsQueue, Unseen DEF Simulated
<1>4. CASE ForceOutcome(w)
  <2>1. Busy(w) /\ QueueKept /\ delivered' = delivered /\ generation' = generation
    BY <1>1, <1>4, TurnKeepsQueue DEF ForceOutcome, At, Busy
  <2>2. CASE status' = status
    BY <2>1, <2>2, Unseen DEF RowKept, orderVars, Simulated
  <2>3. CASE status' # status
    <3>1. ~Stale(w) /\ status = "delivering" /\ ApplyExhausted
      BY <1>4, <2>3 DEF ForceOutcome
    <3>2. Store!RunOutOfStock(Order) \/ Store!ExhaustSuppliers(Order)
      BY <2>1, <3>1, SeenExhaust
    <3>. QED BY <3>2 DEF Simulated, Store!Next, Store!Fulfilment
  <2>. QED BY <2>2, <2>3
<1>5. CASE Complete(w) \/ Fail(w)
  <2>1. Busy(w) /\ worker' = [worker EXCEPT ![w] = Idle] /\ RowKept
    BY <1>5 DEF Complete, Fail, At, Busy, RowKept
  <2>2. CASE Holds(w) /\ job' = NoJob
    BY <1>1, <2>1, <2>2, SeenClose DEF Simulated, Store!Next, Store!Fulfilment
  <2>3. CASE ~(Holds(w) /\ job' = NoJob)
    <3>1. JobGen' = JobGen
      <4>1. job' = job \/ (job \in Job /\ job # NoJob
                           /\ job' = [job EXCEPT !.state = "pending", !.owner = Nobody])
        BY <1>1, <1>5, <2>3 DEF Complete, Fail, Holds, TypeOK
      <4>2. CASE job' = job
        BY <4>2 DEF JobGen
      <4>3. CASE job \in Job /\ job' = [job EXCEPT !.state = "pending", !.owner = Nobody]
        <5>1. job'.gen = job.gen /\ job'.state = "pending" /\ job.state # "none"
          BY <4>3 DEF Job
        <5>. QED BY <5>1 DEF JobGen, NoJob
      <4>. QED BY <4>1, <4>2, <4>3
    <3>2. (\E g \in Store!Generations : Store!DropRun(Order, g)) \/ UNCHANGED Store!vars
      BY <1>1, <2>1, <3>1, SeenDrop
    <3>. QED BY <3>2 DEF Simulated, Store!Next, Store!Fulfilment
  <2>. QED BY <2>2, <2>3
<1>. QED
  BY <1>2, <1>3, <1>4, <1>5, PrepareSimulated, SettleSimulated DEF Run

LEMMA FaultSimulated ==
  ASSUME SInv, NEW w \in Workers, Crash(w) \/ AbortTransaction(w)
  PROVE  Simulated
<1>1. TypeOK
  BY DEF SInv, IInv
<1>2. CASE Crash(w)
  <2>1. (\E g \in Store!Generations : Store!DropRun(Order, g)) \/ UNCHANGED Store!vars
    BY <1>1, <1>2, SeenDrop DEF Crash, RowKept, JobGen
  <2>. QED BY <2>1 DEF Simulated, Store!Next, Store!Fulfilment
<1>3. CASE AbortTransaction(w)
  BY <1>1, <1>3, TurnKeepsQueue, Unseen DEF AbortTransaction, RowKept, Simulated
<1>. QED BY <1>2, <1>3

LEMMA SweeperSimulated ==
  ASSUME SInv, Sweeper
  PROVE  Simulated
<1>1. TypeOK /\ DeliveredIsMinted
  BY DEF SInv, IInv
<1>2. CASE Reclaim
  <2>1. job \in Job /\ job' = [job EXCEPT !.state = "pending", !.owner = Nobody]
    BY <1>1, <1>2 DEF Reclaim, TypeOK
  <2>2. job'.gen = job.gen /\ job'.state = "pending" /\ job.state # "none"
    BY <2>1 DEF Job
  <2>3. JobGen' = JobGen
    BY <2>2 DEF JobGen, NoJob
  <2>. QED BY <1>2, <2>3, Unseen DEF Reclaim, RowKept, QueueKept, RunGens, Busy, Simulated
<1>3. CASE RequeueStuck
  <2>1. Store!RequeueStuck(Order)
    BY <1>1, <1>3, SeenRequeue DEF RequeueStuck
  <2>. QED BY <2>1 DEF Simulated, Store!Next, Store!Sweeper
<1>4. CASE Redeliver
  BY <1>1, <1>4, SeenRedeliver DEF Simulated, Store!Next
<1>5. ASSUME NEW i \in DOMAIN attempts, DemoteInFlight(i) PROVE Simulated
  BY <1>5, Unseen
  DEF DemoteInFlight, PromoteToUnknown, RowKept, QueueKept, JobGen, RunGens, Busy, Simulated
<1>6. ASSUME NEW i \in DOMAIN attempts, RedriveUnknown(i) PROVE Simulated
  <2>1. CASE job = NoJob
    <3>1. delivered = None /\ status \in {"paid", "delivering"}
      BY <1>1, <1>6 DEF RedriveUnknown, Resolvable, DeliveredIsMinted
    <3>2. Store!RequeueStuck(Order)
      BY <1>1, <1>6, <2>1, <3>1, SeenRequeue DEF RedriveUnknown
    <3>. QED BY <3>2 DEF Simulated, Store!Next, Store!Sweeper
  <2>2. CASE job # NoJob
    BY <1>6, <2>2, Unseen
    DEF RedriveUnknown, Enqueue, RowKept, QueueKept, JobGen, RunGens, Busy, Simulated
  <2>. QED BY <2>1, <2>2
<1>. QED BY <1>2, <1>3, <1>4, <1>5, <1>6 DEF Sweeper

LEMMA StepSimulated == SInv /\ [Next]_vars => [Store!Next]_(Store!vars)
<1>. SUFFICES ASSUME SInv, [Next]_vars PROVE Simulated
  BY DEF Simulated
<1>1. TypeOK
  BY DEF SInv, IInv
<1>2. CASE PlaceOrder
  BY <1>2, SeenPlace DEF Simulated, Store!Next
<1>3. CASE CapturePayment
  <2>1. PaymentBody \in Store!Body
    BY DEF PaymentBody, Store!Body, Store!Times
  <2>. QED BY <1>1, <1>3, <2>1, SeenCapture DEF Simulated, Store!Next
<1>4. ASSUME NEW i \in late, LatePost(i) PROVE Simulated
  BY <1>4, Unseen DEF LatePost, RowKept, QueueKept, JobGen, RunGens, Busy, Simulated
<1>5. CASE UNCHANGED vars
  BY <1>5, Unseen DEF vars, RowKept, QueueKept, JobGen, RunGens, Busy, Simulated
<1>. QED
  BY <1>2, <1>3, <1>4, <1>5, RunSimulated, FaultSimulated, SweeperSimulated DEF Next

\* Whatever two or more workers, crashes, reclaimed jobs, sweeps and
\* redeliveries interleave, what is committed is a behaviour of StoreOrders:
\* what is proved of a fulfilment there holds of the suppliers' runs.
THEOREM FulfilmentImplementsStore == Spec => ImplementsStore
<1>. QED BY InitSInv, StepSInv, InitSimulated, StepSimulated, PTL DEF Spec, ImplementsStore, Store!Spec
=============================================================================
