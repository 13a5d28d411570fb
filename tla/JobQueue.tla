------------------------------- MODULE JobQueue -------------------------------
(***************************************************************************)
(* The durable queue (jobs table, job-queue.service.ts) and the processes   *)
(* that drain it (job-worker.service.ts).                                   *)
(*                                                                         *)
(* A tick takes back the jobs whose lock is too old, claims a batch, and    *)
(* runs the batch job by job: handler, then settle.  Taking back, claiming  *)
(* and settling are transactions of their own; the rest of the batch waits  *)
(* with its locks already stamped.  The workers share nothing but the       *)
(* table, so what a worker knows of a job is what the claim returned.       *)
(*                                                                         *)
(* Of run_at a row keeps whether it has come (due), not how long the        *)
(* backoff was.  The order of the claim is left out: a claim takes any jobs *)
(* that are pending and due.  A handler is left out but for its outcome.    *)
(***************************************************************************)
EXTENDS Integers, FiniteSets

CONSTANTS
  Worker,         \* worker ids: WORKER_ID is hostname:pid unless it is set
  Job,            \* rows of the jobs table
  Key,            \* (kind, dedupe_key)
  BatchSize,      \* JOB_BATCH_SIZE
  MaxAttempts,    \* jobs.max_attempts
  SlowWorker,     \* the workers whose batches may outlast JOB_LOCK_TTL_MS
  MaxFaults       \* model bound: crashes, failed settles, locks that run out under a worker

ASSUME QueueAssumption ==
  /\ BatchSize \in Nat \ {0}
  /\ MaxAttempts \in Nat \ {0}
  /\ SlowWorker \subseteq Worker
  /\ MaxFaults \in Nat
  /\ "nobody" \notin Worker

VARIABLES
  job,     \* the jobs table
  worker,  \* per process: where it is, and the batch in its memory
  faults   \* faults so far

vars == <<job, worker, faults>>

-----------------------------------------------------------------------------
Nobody == "nobody"
State == {"none", "pending", "running", "done", "dead"}   \* "none": no such row yet
Live == {"pending", "running"}

NoKey == "no key"
\* due: run_at has come; expired: locked_at is older than JOB_LOCK_TTL_MS.
Row == [state : State, key : Key \cup {NoKey}, attempts : Nat, due : BOOLEAN,
        lockedBy : Worker \cup {Nobody}, expired : BOOLEAN]
Claimed == [job : Job, attempts : Nat]    \* what JOB_CLAIM_SQL returned of a row
NoRow == [state |-> "none", key |-> NoKey, attempts |-> 0, due |-> FALSE, lockedBy |-> Nobody, expired |-> FALSE]
NoClaim == [job |-> "no job", attempts |-> 0]
Place == {"idle", "claim", "next", "handle", "settle"}
Result == {"ok", "error"}

\* current is the job being run; it is looked at in "handle" and "settle" only.
Process == [pc : Place, batch : SUBSET Claimed, current : Claimed \cup {NoClaim}, result : Result]

IdleProcess == [pc |-> "idle", batch |-> {}, current |-> NoClaim, result |-> "ok"]

At(w, pc) == worker[w].pc = pc
Current(w) == worker[w].current

TypeOK ==
  /\ job \in [Job -> Row]
  /\ worker \in [Worker -> Process]
  /\ faults \in 0 .. MaxFaults

Init ==
  /\ job = [j \in Job |-> NoRow]
  /\ worker = [w \in Worker |-> IdleProcess]
  /\ faults = 0

\* jobs_live_uq
LiveFor(k) == \E j \in Job : job[j].state \in Live /\ job[j].key = k

\* ON CONFLICT DO NOTHING: a caller that finds a live job gets null.  run_at is
\* the caller's now, by a clock that may be ahead of the database's.
Enqueue(k) ==
  /\ ~LiveFor(k)
  /\ \E j \in Job, due \in BOOLEAN :
       /\ job[j].state = "none"
       /\ job' = [job EXCEPT ![j] = [state |-> "pending", key |-> k, attempts |-> 0, due |-> due,
                                     lockedBy |-> Nobody, expired |-> FALSE]]
  /\ UNCHANGED <<worker, faults>>

\* run_at comes: a backoff is at most JOB_BACKOFF_MAX_MS.
ComesDue(j) ==
  /\ job[j].state = "pending"
  /\ ~job[j].due
  /\ job' = [job EXCEPT ![j].due = TRUE]
  /\ UNCHANGED <<worker, faults>>

-----------------------------------------------------------------------------
(* Locks.                                                                  *)

InHand(w, j) == \E c \in worker[w].batch : c.job = j /\ c.attempts = job[j].attempts
Orphaned(j) == \A w \in Worker : ~InHand(w, j)

\* JOB_LOCK_TTL_MS passes: nothing extends a lock while the job runs.
LockExpires(j) ==
  /\ job[j].state = "running"
  /\ ~job[j].expired
  /\ \/ Orphaned(j) /\ UNCHANGED faults
     \/ /\ \E w \in SlowWorker : InHand(w, j)
        /\ faults < MaxFaults
        /\ faults' = faults + 1
  /\ job' = [job EXCEPT ![j].expired = TRUE]
  /\ UNCHANGED worker

\* run_at = now(): a job that is taken back does not wait.
Released(row) == [row EXCEPT !.state = "pending", !.due = TRUE, !.lockedBy = Nobody, !.expired = FALSE]

\* Faulty variant: locked_at is not looked at.
ReclaimAll ==
  job' = [j \in Job |-> IF job[j].state = "running"
                          THEN Released(job[j])
                          ELSE job[j]]

\* Faulty variant: nothing is taken back.
ReclaimNone == UNCHANGED job

\* JOB_REQUEUE_STALE_SQL: attempts stays as it is, and is not looked at.
Reclaim ==
  job' = [j \in Job |-> IF job[j].state = "running" /\ job[j].expired
                          THEN Released(job[j])
                          ELSE job[j]]

\* Sweeper pass 1.
SweepStale ==
  /\ Reclaim
  /\ UNCHANGED <<worker, faults>>

-----------------------------------------------------------------------------
(* A tick.                                                                 *)

\* Faulty variant: a tick starts over a tick, for the flag running is not set.
TickOverTick(w) ==
  /\ worker[w].pc \in {"idle", "handle"}
  /\ Reclaim
  /\ worker' = [worker EXCEPT ![w].pc = "claim"]
  /\ UNCHANGED faults

\* One tick at a time (the flag running), which begins with taking back.
Tick(w) ==
  /\ At(w, "idle")
  /\ Reclaim
  /\ worker' = [worker EXCEPT ![w].pc = "claim"]
  /\ UNCHANGED faults

\* FOR UPDATE SKIP LOCKED LIMIT batchSize
Claim(w, rows) ==
  /\ At(w, "claim")
  /\ rows \subseteq {j \in Job : job[j].state = "pending" /\ job[j].due}
  /\ Cardinality(rows) <= BatchSize
  /\ job' = [j \in Job |-> IF j \in rows
                             THEN [job[j] EXCEPT !.state = "running", !.lockedBy = w, !.expired = FALSE,
                                                 !.attempts = @ + 1]
                             ELSE job[j]]
  /\ worker' = [worker EXCEPT ![w].pc = "next",
                              ![w].batch = @ \cup {[job |-> j, attempts |-> job[j].attempts + 1] : j \in rows}]
  /\ UNCHANGED faults

Handle(w) ==
  /\ At(w, "next")
  /\ \E c \in worker[w].batch : worker' = [worker EXCEPT ![w].pc = "handle", ![w].current = c]
  /\ UNCHANGED <<job, faults>>

EndTick(w) ==
  /\ At(w, "next")
  /\ worker[w].batch = {}
  /\ worker' = [worker EXCEPT ![w].pc = "idle"]
  /\ UNCHANGED <<job, faults>>

\* The handler returns or throws.
HandlerEnds(w) ==
  /\ At(w, "handle")
  /\ \E r \in Result : worker' = [worker EXCEPT ![w].pc = "settle", ![w].result = r]
  /\ UNCHANGED <<job, faults>>

-----------------------------------------------------------------------------
(* Settling.                                                               *)

\* Faulty variant: the fence looks at the state only.
OwnsRunning(w) == job[Current(w).job].state = "running"

\* The fence of JOB_COMPLETE_SQL, JOB_FAIL_RETRY_SQL and JOB_FAIL_DEAD_SQL:
\* id = $1 AND state = 'running' AND locked_by = $2.
Owns(w) ==
  /\ job[Current(w).job].state = "running"
  /\ job[Current(w).job].lockedBy = w

\* A job that is sent back waits for its backoff; a closed one keeps its run_at.
Close(w, state) ==
  job' = IF Owns(w)
           THEN [job EXCEPT ![Current(w).job] =
                   [@ EXCEPT !.state = state, !.due = (state # "pending"), !.lockedBy = Nobody, !.expired = FALSE]]
           ELSE job

\* A job that was lost to another worker is left alone, and its loss logged.
NextJob(w) ==
  worker' = [worker EXCEPT ![w].pc = "next", ![w].batch = @ \ {Current(w)},
                           ![w].current = NoClaim, ![w].result = "ok"]

Complete(w) ==
  /\ At(w, "settle")
  /\ worker[w].result = "ok"
  /\ Close(w, "done")
  /\ NextJob(w)
  /\ UNCHANGED faults

\* Faulty variant: the row gets a state the table does not have.
FailUnknownState(w) ==
  /\ At(w, "settle")
  /\ worker[w].result = "error"
  /\ Close(w, IF Current(w).attempts >= MaxAttempts THEN "failed" ELSE "pending")
  /\ NextJob(w)
  /\ UNCHANGED faults

\* The attempts of the claim decide, not those of the row.
Fail(w) ==
  /\ At(w, "settle")
  /\ worker[w].result = "error"
  /\ Close(w, IF Current(w).attempts >= MaxAttempts THEN "dead" ELSE "pending")
  /\ NextJob(w)
  /\ UNCHANGED faults

LeaveTick(w) == worker' = [worker EXCEPT ![w] = IdleProcess]

\* The transaction of settle throws.  After a handler that returned, processJob
\* catches it and settles once more, as a failure; after one that threw, the
\* error ends runOnce, and with it the batch.
SettleThrows(w) ==
  /\ At(w, "settle")
  /\ faults < MaxFaults
  /\ faults' = faults + 1
  /\ \/ /\ worker[w].result = "ok"
        /\ worker' = [worker EXCEPT ![w].result = "error"]
     \/ /\ worker[w].result = "error"
        /\ LeaveTick(w)
  /\ UNCHANGED job

\* The process dies, or leaves after WORKER_SHUTDOWN_DRAIN_TIMEOUT_MS, and starts again.
Crash(w) ==
  /\ worker[w].pc # "idle"
  /\ faults < MaxFaults
  /\ faults' = faults + 1
  /\ LeaveTick(w)
  /\ UNCHANGED job

-----------------------------------------------------------------------------
Work(w) ==
  \/ Handle(w)
  \/ EndTick(w)
  \/ HandlerEnds(w)
  \/ Complete(w)
  \/ Fail(w)

Next ==
  \/ \E k \in Key : Enqueue(k)
  \/ \E j \in Job : ComesDue(j) \/ LockExpires(j)
  \/ SweepStale
  \/ \E w \in Worker :
       \/ Tick(w)
       \/ \E rows \in SUBSET Job : Claim(w, rows)
       \/ Work(w)
       \/ SettleThrows(w)
       \/ Crash(w)

Spec == Init /\ [][Next]_vars

\* Ticks come on an interval and handlers end; locks run out and backoffs end;
\* the claim takes the jobs that came due first, so it reaches every due job.
Fairness ==
  /\ \A w \in Worker :
       WF_vars(Tick(w)) /\ WF_vars(\E rows \in SUBSET Job : Claim(w, rows)) /\ WF_vars(Work(w))
  /\ \A j \in Job :
       /\ SF_vars(\E w \in Worker, rows \in SUBSET Job : j \in rows /\ Claim(w, rows))
       /\ WF_vars(LockExpires(j))
       /\ WF_vars(ComesDue(j))

FairSpec == Spec /\ Fairness

-----------------------------------------------------------------------------
(* Properties.                                                             *)

\* locked_by names the worker and not the claim.  It tells claims apart all the
\* same: a row that bears the name of a worker who has it in hand was claimed
\* by that very claim, whatever was lost, taken back and claimed again.
LockNamesTheClaim ==
  \A w \in Worker : \A c \in worker[w].batch :
    job[c.job].state = "running" /\ job[c.job].lockedBy = w => c.attempts = job[c.job].attempts

\* Two live jobs of one key would be two deliveries of one order.
OneLiveJobPerKey ==
  \A i, j \in Job : job[i].state \in Live /\ job[j].state \in Live /\ job[i].key = job[j].key => i = j

\* A running job is closed, or sent back after an error, by the claim that
\* holds it and by no earlier one; otherwise only an old lock frees it.
OnlyTheOwnerSettles ==
  [][\A j \in Job :
       job[j].state = "running" /\ job'[j].state # "running" =>
         \/ job[j].expired /\ job'[j].state = "pending"
         \/ \E w \in Worker : /\ At(w, "settle")
                              /\ Current(w) = [job |-> j, attempts |-> job[j].attempts]
                              /\ Current(w) \notin worker'[w].batch]_vars

\* While a worker is in time with its batch, whatever crashes and takeovers
\* happen around it, the job it handles is its own: nobody else's handler runs
\* for that job but one whose lock ran out.
Handling(w, j) == At(w, "handle") /\ Current(w).job = j
HandlerOwnsItsJob ==
  \A w \in Worker \ SlowWorker, j \in Job :
    Handling(w, j) => job[j].state = "running" /\ job[j].lockedBy = w

\* spec/14-risks-open-questions.md, risk 11: a poisoned order cannot keep the
\* workers busy for ever, for JOB_MAX_ATTEMPTS makes its job 'dead'.
AttemptsWithinBudget == \A j \in Job : job[j].attempts <= MaxAttempts

\* Whatever is lost with a batch is taken back: every job ends.
EveryJobEnds == \A j \in Job : (job[j].state \in Live) ~> (job[j].state \in {"done", "dead"})
=============================================================================
