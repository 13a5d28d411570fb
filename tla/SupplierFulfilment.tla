-------------------------- MODULE SupplierFulfilment --------------------------
(***************************************************************************)
(* Delivery of one order through the suppliers: the deliver_order job, the *)
(* worker processes that claim it, the split transactions around every     *)
(* call (TX-S1, HTTP, TX-S2), the rows of delivery_attempts, the suppliers *)
(* at the other end, and the sweeper passes that pick up what was left.    *)
(*                                                                         *)
(* A transaction is one action: it locks the order's row first, reads the  *)
(* rest under the lock and commits.  Between two actions of a worker any   *)
(* other worker, the sweeper or an admin may commit.  Ages and deadlines   *)
(* are not modelled as numbers: a timeout may fire at any step the code    *)
(* lets it fire.  An attempt is named by its place in the table, which     *)
(* stands for its request_id: delivery_attempts_request_uq makes it unique *)
(* and a supplier files what it mints under it.                            *)
(***************************************************************************)
EXTENDS SupplierPlan, OrderStateMachine

CONSTANTS
  Workers,                \* WORKER_ID of the processes
  MaxAttemptsPerSupplier, \* SUPPLIER_MAX_ATTEMPTS_PER_SUPPLIER
  MaxResolve,             \* SUPPLIER_UNKNOWN_MAX_RESOLVE_ATTEMPTS
  JobMaxAttempts,         \* JOB_MAX_ATTEMPTS
  MaxGenerations,         \* maxDeliveryGenerations, and the bound on admin redeliveries
  Errors,                 \* the error kinds an answer may carry in this instance
  MaxFaults,              \* model bound: crashes and failed transactions
  TtlCoversRun,           \* JOB_LOCK_TTL_MS outlasts every run of a claimed batch
  StrictSuppliers         \* a definite refusal proves nothing was or will be minted

Nobody == "nobody"        \* locked_by IS NULL

ASSUME SupplierAssumption ==
  /\ Workers # {}
  /\ Nobody \notin Workers
  /\ MaxAttemptsPerSupplier \in Nat \ {0}
  /\ MaxResolve \in Nat \ {0}
  /\ JobMaxAttempts \in Nat \ {0}
  /\ MaxGenerations \in Nat
  /\ Errors \subseteq {"out_of_stock", "http_5xx", "other"}
  /\ MaxFaults \in Nat
  /\ TtlCoversRun \in BOOLEAN
  /\ StrictSuppliers \in BOOLEAN

VARIABLES
  status,      \* orders.status, or "absent"
  generation,  \* orders.delivery_generation
  attempts,    \* delivery_attempts of the order, by id
  delivered,   \* issued_deliveries: the attempt whose code was handed over, or None
  job,         \* the live deliver_order row, or NoJob
  worker,      \* per process: where its run of the job is
  minted,      \* the attempts under whose request_id a supplier minted a code
  late,        \* POSTs their caller gave up on that may still reach the supplier
  faults       \* crashes and failed transactions so far

orderVars == <<status, generation>>
supplyVars == <<minted, late>>
vars == <<orderVars, attempts, delivered, job, worker, supplyVars, faults>>

-----------------------------------------------------------------------------
(* Rows.                                                                   *)

None == 0
Generations == 0 .. MaxGenerations
Cap(n, max) == IF n < max THEN n ELSE max

AttemptState == {"in_flight", "succeeded", "failed", "unknown", "abandoned_unknown"}
\* Faulty variant: an attempt of unknown outcome is not looked for.
OpenStateInFlight == {"in_flight"}

OpenState == {"in_flight", "unknown"}   \* nothing writes 'pending'

\* error_kind: the plan tells three apart; "other" stands for the rest.
ErrorKind == {"none", "out_of_stock", "http_5xx", "other"}

\* resolves counts up to the cap, beyond which the code does not look; starter
\* stands for started_at: it names who inserted or resumed the attempt last.
Attempt == [sup : SupplierCode, no : Nat, gen : Generations,
            state : AttemptState, err : ErrorKind, resolves : 0 .. MaxResolve,
            starter : Workers]

\* The live row of jobs; tries counts up to JobMaxAttempts, beyond which
\* isLastAttempt and fail see no difference.
Job == [gen : Generations, state : {"pending", "running"}, owner : Workers \cup {Nobody},
        tries : 0 .. JobMaxAttempts]
NoJob == [gen |-> 0, state |-> "none", owner |-> Nobody, tries |-> 0]
NewJob(g) == [gen |-> g, state |-> "pending", owner |-> Nobody, tries |-> 0]

\* A run: its place in fulfil(), its claim's generation, whether the claim is
\* the job's last, the attempt at hand, and what the supplier said about it.
Place == {"idle", "first", "again", "call", "settle", "force", "done", "failed"}
Outcome == {"none", "issued", "refused", "unknown"}
Idle == [pc |-> "idle", gen |-> 0, last |-> FALSE, att |-> None, lookup |-> FALSE,
         outcome |-> "none", err |-> "none"]

Open(i) == attempts[i].state \in OpenState
OpenAttempts == {i \in DOMAIN attempts : Open(i)}
Pick == PickSupplier(attempts, generation, MaxAttemptsPerSupplier)

Busy(w) == worker[w].pc # "idle"
At(w, pc) == worker[w].pc = pc

\* Only the place, the claim and nothing of a call survive a turn of the loop.
Leave(w, pc) ==
  worker' = [worker EXCEPT ![w] =
               [Idle EXCEPT !.pc = pc, !.gen = worker[w].gen, !.last = worker[w].last]]

TypeOK ==
  /\ status \in OrderStatus \cup {"absent"}
  /\ generation \in Generations
  /\ attempts \in Seq(Attempt)
  /\ delivered \in DOMAIN attempts \cup {None}
  /\ job \in Job \cup {NoJob}
  /\ worker \in [Workers -> [pc : Place, gen : Generations, last : BOOLEAN,
                             att : DOMAIN attempts \cup {None}, lookup : BOOLEAN,
                             outcome : Outcome, err : ErrorKind]]
  /\ minted \subseteq DOMAIN attempts
  /\ late \subseteq DOMAIN attempts
  /\ faults \in 0 .. MaxFaults

Init ==
  /\ status = "absent"
  /\ generation = 0
  /\ attempts = <<>>
  /\ delivered = None
  /\ job = NoJob
  /\ worker = [w \in Workers |-> Idle]
  /\ minted = {}
  /\ late = {}
  /\ faults = 0

-----------------------------------------------------------------------------
(* The order before its delivery, and the job queue.                       *)

PlaceOrder ==
  /\ status = "absent"
  /\ status' = "created"
  /\ UNCHANGED <<generation, attempts, delivered, job, worker, supplyVars, faults>>

Enqueue(g) == job' = IF job = NoJob THEN NewJob(g) ELSE job

\* The 'paid' webhook of the order.
CapturePayment ==
  /\ status = "created"
  /\ status' = "paid"
  /\ Enqueue(generation)
  /\ UNCHANGED <<generation, attempts, delivered, worker, supplyVars, faults>>

\* Faulty variant: the claim does not look at the state of the row.
ClaimRunning(w) ==
  /\ ~Busy(w)
  /\ job # NoJob
  /\ LET tries == Cap(job.tries + 1, JobMaxAttempts) IN
       /\ job' = [job EXCEPT !.state = "running", !.owner = w, !.tries = tries]
       /\ worker' = [worker EXCEPT ![w] = [Idle EXCEPT !.pc = "first", !.gen = job.gen,
                                                       !.last = (tries = JobMaxAttempts)]]
  /\ UNCHANGED <<orderVars, attempts, delivered, supplyVars, faults>>

\* JOB_CLAIM_SQL.  A process runs one tick at a time.
Claim(w) ==
  /\ ~Busy(w)
  /\ job # NoJob
  /\ job.state = "pending"
  /\ LET tries == Cap(job.tries + 1, JobMaxAttempts) IN
       /\ job' = [job EXCEPT !.state = "running", !.owner = w, !.tries = tries]
       /\ worker' = [worker EXCEPT ![w] = [Idle EXCEPT !.pc = "first", !.gen = job.gen,
                                                       !.last = (tries = JobMaxAttempts)]]
  /\ UNCHANGED <<orderVars, attempts, delivered, supplyVars, faults>>

\* JOB_COMPLETE_SQL and JOB_FAIL_*_SQL match only the row this claim wrote.
Holds(w) == job # NoJob /\ job.owner = w

Complete(w) ==
  /\ At(w, "done")
  /\ job' = IF Holds(w) THEN NoJob ELSE job
  /\ worker' = [worker EXCEPT ![w] = Idle]
  /\ UNCHANGED <<orderVars, attempts, delivered, supplyVars, faults>>

Fail(w) ==
  /\ At(w, "failed")
  /\ job' = IF ~Holds(w) THEN job
            ELSE IF worker[w].last THEN NoJob
            ELSE [job EXCEPT !.state = "pending", !.owner = Nobody]
  /\ worker' = [worker EXCEPT ![w] = Idle]
  /\ UNCHANGED <<orderVars, attempts, delivered, supplyVars, faults>>

\* JOB_REQUEUE_STALE_SQL (pass 1, and the head of every tick).  With
\* TtlCoversRun only the job of a process that died can be that old.
Reclaim ==
  /\ job # NoJob
  /\ job.state = "running"
  /\ TtlCoversRun => ~Busy(job.owner)
  /\ job' = [job EXCEPT !.state = "pending", !.owner = Nobody]
  /\ UNCHANGED <<orderVars, attempts, delivered, worker, supplyVars, faults>>

-----------------------------------------------------------------------------
(* TX-S1.                                                                  *)

\* applyExhaustedOutcome, from delivering.
ApplyExhausted == status' = ExhaustedStatus(attempts, generation)

\* An order that is not this run's to deliver any more.
Skip(w) == generation # worker[w].gen \/ status \notin {"paid", "delivering"}

PrepareSkip(w) ==
  /\ Skip(w)
  /\ Leave(w, "done")
  /\ UNCHANGED <<status, attempts>>

\* INSERT_DELIVERY_ATTEMPT_SQL, RESUME_DELIVERY_ATTEMPT_SQL and
\* PROMOTE_ATTEMPT_TO_UNKNOWN_SQL.
InsertAttempt(choice, w) ==
  attempts' = Append(attempts, [sup |-> choice.sup, no |-> choice.no, gen |-> generation,
                                state |-> "in_flight", err |-> "none", resolves |-> 0,
                                starter |-> w])

Resume(i, w) == attempts' = [attempts EXCEPT ![i].state = "in_flight", ![i].starter = w]

PromoteToUnknown(i, err) ==
  attempts' = [attempts EXCEPT ![i].state = "unknown", ![i].err = err,
                               ![i].resolves = Cap(@ + 1, MaxResolve)]

\* resumeOpenAttempt, whatever generation the open attempt is of.
ResumeAttempt(w) ==
  \E i \in OpenAttempts :
    LET a == attempts[i]
        lookup == a.state = "unknown" /\ a.resolves >= MaxResolve
    IN /\ status' = "delivering"
       /\ Resume(i, w)
       /\ worker' = [worker EXCEPT ![w].pc = "call", ![w].att = i, ![w].lookup = lookup,
                                   ![w].err = a.err]

StartAttempt(w) ==
  /\ OpenAttempts = {}
  /\ \E choice \in Pick : InsertAttempt(choice, w)
  /\ status' = "delivering"
  /\ worker' = [worker EXCEPT ![w].pc = "call", ![w].att = Len(attempts) + 1]

ExhaustChain(w) ==
  /\ OpenAttempts = {}
  /\ Pick = {}
  /\ ApplyExhausted
  /\ Leave(w, "done")
  /\ UNCHANGED attempts

\* prepareStep.
Prepare(w) ==
  /\ At(w, "first") \/ At(w, "again")
  /\ \/ PrepareSkip(w)
     \/ ~Skip(w) /\ (ResumeAttempt(w) \/ StartAttempt(w) \/ ExhaustChain(w))
  /\ UNCHANGED <<generation, delivered, job, supplyVars, faults>>

\* The end of a run that needs another: the last claim of the job goes through
\* forceDeliveryFailedIfExhausted, any other throws.
RetryPlace(w) == IF worker[w].last THEN "force" ELSE "failed"

\* The budget check at the top of the loop, from its second turn on.
ExceedBudget(w) ==
  /\ At(w, "again")
  /\ Leave(w, RetryPlace(w))
  /\ UNCHANGED <<orderVars, attempts, delivered, job, supplyVars, faults>>

-----------------------------------------------------------------------------
(* HTTP: the supplier answers, or the caller learns nothing.               *)

Answer(w, outcome, err) ==
  worker' = [worker EXCEPT ![w].pc = "settle", ![w].outcome = outcome, ![w].err = err]

\* What a POST nobody heard of may have done to the supplier.
LostPost(i) ==
  \/ UNCHANGED supplyVars
  \/ minted' = minted \cup {i} /\ UNCHANGED late
  \/ ~StrictSuppliers /\ late' = late \cup {i} /\ UNCHANGED minted

Post(w) ==
  LET i == worker[w].att IN
  /\ At(w, "call")
  /\ ~worker[w].lookup
  /\ \/ /\ minted' = minted \cup {i}
        /\ Answer(w, "issued", "none")
        /\ UNCHANGED late
     \/ /\ i \notin minted              \* the supplier itself refuses
        /\ \E err \in Errors : Answer(w, "refused", err)
        /\ UNCHANGED supplyVars
     \/ /\ ~StrictSuppliers             \* the connection is refused, of a replay too
        /\ Answer(w, "refused", "other")
        /\ UNCHANGED supplyVars
     \/ /\ LostPost(i)                  \* timeout, reset, an answer that is no answer
        /\ \E err \in Errors \ {"out_of_stock"} : Answer(w, "unknown", err)
  /\ UNCHANGED <<orderVars, attempts, delivered, job, faults>>

\* The authoritative GET: only a 404 refuses, and the run keeps the error kind
\* the attempt had.
Lookup(w) ==
  LET i == worker[w].att IN
  /\ At(w, "call")
  /\ worker[w].lookup
  /\ \/ i \in minted /\ Answer(w, "issued", "none")
     \/ i \notin minted /\ Answer(w, "refused", worker[w].err)
     \/ Answer(w, "unknown", "none")
  /\ UNCHANGED <<orderVars, attempts, delivered, job, supplyVars, faults>>

LatePost(i) ==
  /\ i \in late
  /\ late' = late \ {i}
  /\ minted' = minted \cup {i}
  /\ UNCHANGED <<orderVars, attempts, delivered, job, worker, faults>>

-----------------------------------------------------------------------------
(* TX-S2.                                                                  *)

\* The order moved to another generation while the call was out.
Stale(w) == generation # worker[w].gen

\* Faulty variant: the update does not ask for an attempt in flight.
FinaliseAnyState(i, state, err) ==
  attempts' = [attempts EXCEPT ![i].state = state, ![i].err = err]

\* FINALIZE_* match only an attempt in flight; a miss is logged.
Finalise(i, state, err) ==
  attempts' = IF attempts[i].state = "in_flight"
                THEN [attempts EXCEPT ![i].state = state, ![i].err = err]
                ELSE attempts

\* After a definite failure: another supplier at once, the same one (5xx) only
\* through the queue.
ContinueOrRetry(w, err) == Leave(w, IF err = "http_5xx" THEN RetryPlace(w) ELSE "again")

\* INSERT_SUPPLIER_ISSUED_DELIVERY_SQL, whose conflict leaves the first row.
InsertIssuedDelivery(i) == delivered' = IF delivered = None THEN i ELSE delivered

\* settleIssued.  The code is handed over even when the attempt's row was taken
\* away; only a new generation strands it.
SettleStranded(w) ==
  /\ Stale(w)
  /\ Finalise(worker[w].att, "succeeded", attempts[worker[w].att].err)
  /\ Leave(w, "done")
  /\ UNCHANGED <<status, delivered>>

\* Faulty variants: the attempt's row is not closed with the delivery; the
\* generation is not looked at again.
HandOverOpenAttempt(w) ==
  LET i == worker[w].att IN
  /\ ~Stale(w)
  /\ status = "delivering"
  /\ InsertIssuedDelivery(i)
  /\ status' = "delivered"
  /\ Leave(w, "done")
  /\ UNCHANGED attempts

HandOverUnfenced(w) ==
  LET i == worker[w].att IN
  /\ status = "delivering"
  /\ Finalise(i, "succeeded", attempts[i].err)
  /\ InsertIssuedDelivery(i)
  /\ status' = "delivered"
  /\ Leave(w, "done")

HandOver(w) ==
  LET i == worker[w].att IN
  /\ ~Stale(w)
  /\ status = "delivering"
  /\ Finalise(i, "succeeded", attempts[i].err)
  /\ InsertIssuedDelivery(i)
  /\ status' = "delivered"
  /\ Leave(w, "done")

\* transition() finds no row in 'delivering', throws, and the whole
\* transaction, the attempt's row with it, is rolled back.
HandOverTooLate(w) ==
  /\ ~Stale(w)
  /\ status # "delivering"
  /\ Leave(w, "failed")
  /\ UNCHANGED <<status, attempts, delivered>>

SettleIssued(w) ==
  /\ worker[w].outcome = "issued"
  /\ SettleStranded(w) \/ HandOver(w) \/ HandOverTooLate(w)

\* Faulty variant: the outcome is written where the error kind belongs.
SettleRefusedWrongColumn(w) ==
  /\ worker[w].outcome = "refused"
  /\ ~worker[w].lookup
  /\ Finalise(worker[w].att, "failed", worker[w].outcome)
  /\ IF Stale(w) THEN Leave(w, "done") ELSE ContinueOrRetry(w, worker[w].err)
  /\ UNCHANGED <<status, delivered>>

\* A definite failure of the POST.
SettleRefused(w) ==
  /\ worker[w].outcome = "refused"
  /\ ~worker[w].lookup
  /\ Finalise(worker[w].att, "failed", worker[w].err)
  /\ IF Stale(w) THEN Leave(w, "done") ELSE ContinueOrRetry(w, worker[w].err)
  /\ UNCHANGED <<status, delivered>>

\* Faulty variant: no answer is taken for a refusal.
SettleUnknownAsFailed(w) ==
  /\ worker[w].outcome = "unknown"
  /\ ~worker[w].lookup
  /\ Finalise(worker[w].att, "failed", worker[w].err)
  /\ IF Stale(w) THEN Leave(w, "done") ELSE ContinueOrRetry(w, worker[w].err)
  /\ UNCHANGED <<status, delivered>>

\* settleUnknown.  A row that is no longer in flight makes it throw.
SettleUnknown(w) ==
  LET i == worker[w].att IN
  /\ worker[w].outcome = "unknown"
  /\ ~worker[w].lookup
  /\ IF attempts[i].state = "in_flight"
       THEN /\ PromoteToUnknown(i, worker[w].err)
            /\ Leave(w, IF Stale(w) THEN "done" ELSE RetryPlace(w))
       ELSE /\ Leave(w, "failed")
            /\ UNCHANGED attempts
  /\ UNCHANGED <<status, delivered>>

\* MARK_ATTEMPT_ABANDONED_SQL: only who resumed an attempt may give it up.
MayAbandon(i, w) == Open(i) /\ attempts[i].starter = w

\* settleResolved: a 404 closes the attempt with the error it had, no answer
\* abandons it, and a row that was taken away sends the job round again.
SettleResolved(w) ==
  LET i == worker[w].att
      denied == worker[w].outcome = "refused"
      mine == IF denied THEN attempts[i].state = "in_flight"
                        ELSE MayAbandon(i, w)
  IN
  /\ worker[w].lookup
  /\ worker[w].outcome \in {"refused", "unknown"}
  /\ IF ~mine
       THEN /\ Leave(w, RetryPlace(w))
            /\ UNCHANGED attempts
       ELSE /\ attempts' = [attempts EXCEPT
               ![i].state = IF denied THEN "failed" ELSE "abandoned_unknown",
               ![i].err = IF denied THEN worker[w].err ELSE @]
            /\ IF Stale(w) THEN Leave(w, "done")
               ELSE IF denied THEN ContinueOrRetry(w, worker[w].err)
               ELSE Leave(w, "again")
  /\ UNCHANGED <<status, delivered>>

\* settleStep.
Settle(w) ==
  /\ At(w, "settle")
  /\ SettleIssued(w) \/ SettleRefused(w) \/ SettleUnknown(w) \/ SettleResolved(w)
  /\ UNCHANGED <<generation, job, supplyVars, faults>>

-----------------------------------------------------------------------------
(* forceDeliveryFailedIfExhausted: the job's last claim ends the order only *)
(* where the ordinary path would.                                           *)

\* Faulty variants: the last claim fails the order without asking the plan; it
\* does not look at the status.
ForceOutcomeAtOnce(w) ==
  /\ At(w, "force")
  /\ Leave(w, "done")
  /\ IF Stale(w) \/ status # "delivering" THEN UNCHANGED status ELSE ApplyExhausted
  /\ UNCHANGED <<generation, attempts, delivered, job, supplyVars, faults>>

ForceOutcomeAnyStatus(w) ==
  /\ At(w, "force")
  /\ IF Stale(w)
       THEN Leave(w, "done") /\ UNCHANGED status
     ELSE IF OpenAttempts # {} \/ Pick # {}
       THEN Leave(w, "failed") /\ UNCHANGED status
       ELSE Leave(w, "done") /\ ApplyExhausted
  /\ UNCHANGED <<generation, attempts, delivered, job, supplyVars, faults>>

ForceOutcome(w) ==
  /\ At(w, "force")
  /\ IF Stale(w) \/ status # "delivering"
       THEN Leave(w, "done") /\ UNCHANGED status
     ELSE IF OpenAttempts # {} \/ Pick # {}
       THEN Leave(w, "failed") /\ UNCHANGED status
       ELSE Leave(w, "done") /\ ApplyExhausted
  /\ UNCHANGED <<generation, attempts, delivered, job, supplyVars, faults>>

-----------------------------------------------------------------------------
(* Faults.                                                                 *)

\* A process dies in the middle of a run, and comes back with its WORKER_ID.
Crash(w) ==
  /\ Busy(w)
  /\ faults < MaxFaults
  /\ faults' = faults + 1
  /\ worker' = [worker EXCEPT ![w] = Idle]
  /\ IF At(w, "call") /\ ~worker[w].lookup THEN LostPost(worker[w].att) ELSE UNCHANGED supplyVars
  /\ UNCHANGED <<orderVars, attempts, delivered, job>>

\* A transaction of the run fails and is rolled back.
AbortTransaction(w) ==
  /\ worker[w].pc \in {"first", "again", "settle", "force"}
  /\ faults < MaxFaults
  /\ faults' = faults + 1
  /\ Leave(w, "failed")
  /\ UNCHANGED <<orderVars, attempts, delivered, job, supplyVars>>

-----------------------------------------------------------------------------
(* Sweeper and admin.                                                      *)

\* Faulty variant: a delivery that stopped half-way is not stuck.
RequeueStuckPaidOnly ==
  /\ status = "paid"
  /\ delivered = None
  /\ job = NoJob
  /\ Enqueue(generation)
  /\ UNCHANGED <<orderVars, attempts, delivered, worker, supplyVars, faults>>

\* Pass 2.
RequeueStuck ==
  /\ status \in {"paid", "delivering"}
  /\ delivered = None
  /\ job = NoJob
  /\ Enqueue(generation)
  /\ UNCHANGED <<orderVars, attempts, delivered, worker, supplyVars, faults>>

\* Passes 3 and 4, and the admin redelivery, which wants no issued delivery
\* and which nothing caps but the model.
Redeliver ==
  /\ IsRecoverable(status)
  /\ delivered = None
  /\ generation < MaxGenerations
  /\ status' = "delivering"
  /\ generation' = generation + 1
  /\ Enqueue(generation + 1)
  /\ UNCHANGED <<attempts, delivered, worker, supplyVars, faults>>

\* Pass 5a.
DemoteInFlight(i) ==
  /\ attempts[i].state = "in_flight"
  /\ job = NoJob
  /\ PromoteToUnknown(i, "other")
  /\ UNCHANGED <<orderVars, delivered, job, worker, supplyVars, faults>>

\* Pass 5b, and the rows of CLAIM_RESOLVABLE_UNKNOWN_ATTEMPTS_SQL.
Resolvable(i) ==
  /\ attempts[i].state = "unknown"
  /\ attempts[i].resolves < MaxResolve
  /\ status \in {"paid", "delivering"}

RedriveUnknown(i) ==
  /\ Resolvable(i)
  /\ attempts' = [attempts EXCEPT ![i].resolves = @ + 1]
  /\ Enqueue(generation)
  /\ UNCHANGED <<orderVars, delivered, worker, supplyVars, faults>>

-----------------------------------------------------------------------------
Run(w) ==
  \/ Claim(w)
  \/ Prepare(w)
  \/ ExceedBudget(w)
  \/ Post(w)
  \/ Lookup(w)
  \/ Settle(w)
  \/ ForceOutcome(w)
  \/ Complete(w)
  \/ Fail(w)

Sweeper ==
  \/ Reclaim
  \/ RequeueStuck
  \/ Redeliver
  \/ \E i \in DOMAIN attempts : DemoteInFlight(i) \/ RedriveUnknown(i)

Next ==
  \/ PlaceOrder
  \/ CapturePayment
  \/ \E w \in Workers : Run(w) \/ Crash(w) \/ AbortTransaction(w)
  \/ \E i \in late : LatePost(i)
  \/ Sweeper

Spec == Init /\ [][Next]_vars

\* Workers poll and finish what they began (a call has a timeout), and the
\* sweeper's passes 1 and 2 run on an interval.
Fairness ==
  /\ \A w \in Workers : WF_vars(Run(w))
  /\ WF_vars(Reclaim)
  /\ WF_vars(RequeueStuck)

FairSpec == Spec /\ Fairness

-----------------------------------------------------------------------------
(* Invariants.                                                             *)

\* delivery_attempts_open_uq: one open attempt per order over all generations;
\* and it is of the order's own generation, so nothing of an older one can
\* shadow the plan of a new one.
OneOpenAttempt ==
  /\ \A i, j \in OpenAttempts : i = j
  /\ \A i \in OpenAttempts : attempts[i].gen = generation

\* delivery_failed and out_of_stock claim that every supplier of the chain
\* refused: no attempt is open, the plan offers nobody, and out_of_stock means
\* that both said so.  The ordinary and the forced path both have to keep it,
\* and no late settlement may undo it.
FailureMeansExhausted ==
  IsRecoverable(status) =>
    /\ OpenAttempts = {}
    /\ Pick = {}
    /\ (status = "out_of_stock") <=> AllSuppliersOutOfStock(attempts, generation)

\* Within a generation the chain moves forward (from A to B) and never back, and
\* a supplier is asked again only after a 5xx of its own.
Rank(s) == CHOOSE k \in DOMAIN FallbackChain : FallbackChain[k] = s

FallbackMovesForward ==
  \A i, j \in DOMAIN attempts :
    i < j /\ attempts[i].gen = attempts[j].gen =>
      /\ Rank(attempts[i].sup) <= Rank(attempts[j].sup)
      /\ attempts[i].sup = attempts[j].sup =>
           attempts[i].no < attempts[j].no /\ IsRetriableSameSupplier(attempts[i])

\* What was handed over is a code a supplier minted, and an order that was
\* delivered, and no other, has it.
DeliveredIsMinted ==
  /\ (status = "delivered") <=> (delivered # None)
  /\ delivered # None => delivered \in minted

\* A delivered order leaves no attempt behind that passes 5a and 5b would chew
\* on (the comment on DEMOTE_STALE_INFLIGHT_SQL), and its own attempt succeeded.
DeliveredIsQuiet ==
  status = "delivered" =>
    /\ OpenAttempts = {}
    /\ attempts[delivered].state = "succeeded"
    /\ \A w \in Workers : At(w, "call") => worker[w].lookup

\* suppliers.constants.ts: the chain leaves a supplier only on outcomes that
\* prove no code was issued.  A code minted under an attempt the table calls
\* failed is paid for and reported nowhere.
FailedMeansNotMinted ==
  \A i \in minted : attempts[i].state # "failed"

\* Requirement: a retry after a timeout must not buy twice.  It does, after a
\* write-off: a supplier may have minted for an older attempt than the newest, but
\* only for one that was resumed as often as the limit says, asked about in the end
\* without an answer, and given up as abandoned_unknown, where the operator sees
\* it.  So what an order has, or may still get, is the code of its newest attempt.
SurplusWrittenOff ==
  \A i \in minted : i # Len(attempts) =>
    attempts[i].state = "abandoned_unknown" /\ attempts[i].resolves >= MaxResolve

\* config.constants.ts, ENV_CROSS_RULES: the claims of a job last for the whole
\* chain.  A job whose suppliers always gave a definite answer does not run out of
\* claims before the order has its outcome.
JobBudgetRule == JobMaxAttempts >= Len(FallbackChain) * MaxAttemptsPerSupplier + 1

BudgetReachesTheEnd ==
  /\ JobBudgetRule
  /\ faults = 0
  /\ \A i \in DOMAIN attempts : attempts[i].resolves = 0
  => \A w \in Workers : ~(At(w, "failed") /\ worker[w].last)

\* README 2.2: at most one live call to a supplier.
OneLiveCall ==
  Cardinality({w \in Workers : At(w, "call")}) <= 1

-----------------------------------------------------------------------------
(* Action properties.                                                      *)

\* A closed attempt is history: its row never changes again, so neither a late
\* settlement nor a sweep can rewrite what the plan and the audit rest on.
ClosedAttemptsFrozen ==
  [][\A i \in DOMAIN attempts : ~Open(i) => attempts'[i] = attempts[i]]_vars

-----------------------------------------------------------------------------
(* Liveness.                                                               *)

\* A paid order does not hang: it is delivered, or it ends in a status that
\* names what happened.
PaidOrderSettles ==
  (status \in {"paid", "delivering"}) ~> (status = "delivered" \/ IsRecoverable(status))

-----------------------------------------------------------------------------
(* Refinement.                                                             *)

Order == "order"
Payment == "payment"
PaymentBody == [order |-> Order, paid |-> TRUE, amountOk |-> TRUE, at |-> 1]
AnyPaymentBody ==
  CHOOSE b \in [order : {Order}, paid : BOOLEAN, amountOk : BOOLEAN, at : 1 .. 1] : TRUE
IsPaid == status \notin {"absent", "created"}

Store == INSTANCE StoreOrders WITH
  OrderId        <- {Order},
  EventId        <- {Payment},
  PoolOrders     <- {},
  MaxTime        <- 1,
  MaxGenerations <- MaxGenerations,
  GenerationBound <- MaxGenerations,
  status      <- [o \in {Order} |-> status],
  paidAt      <- [o \in {Order} |-> IsPaid],
  generation  <- [o \in {Order} |-> generation],
  lastEventAt <- [o \in {Order} |-> IF IsPaid THEN 1 ELSE 0],
  evState     <- [e \in {Payment} |-> IF IsPaid THEN "applied" ELSE "none"],
  evBody      <- [e \in {Payment} |-> IF IsPaid THEN PaymentBody ELSE AnyPaymentBody],
  captured    <- IF IsPaid THEN {Payment} ELSE {},
  issued      <- IF delivered = None THEN {} ELSE {Order},
  recognised  <- {<<Order, g>> : g \in {x \in {generation} : status = "delivered"}},
  job         <- [o \in {Order} |-> IF job = NoJob THEN -1 ELSE job.gen],
  runs        <- {<<Order, worker[w].gen>> : w \in {x \in Workers : Busy(x)}}

\* Two workers, split transactions, open attempts, reclaimed jobs and sweeps
\* commit nothing that the transactional core does not allow: what StoreOrders
\* says of a fulfilment is what this one does.
ImplementsStore == Store!Spec
=============================================================================
