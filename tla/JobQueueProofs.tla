---------------------------- MODULE JobQueueProofs ----------------------------
(***************************************************************************)
(* Proofs about JobQueue, for every set of workers, rows and keys, every   *)
(* batch size and budget, and with locks that run out under live workers.   *)
(***************************************************************************)
EXTENDS JobQueue, TLAPS

-----------------------------------------------------------------------------
(* The inductive invariant.                                                *)

\* The job being run is one of the batch.
CurrentInBatch ==
  \A w \in Worker : worker[w].pc \in {"handle", "settle"} => worker[w].current \in worker[w].batch

\* A worker claims with empty hands: one tick at a time.
EmptyHandsBeforeClaim ==
  \A w \in Worker : worker[w].pc \in {"idle", "claim"} => worker[w].batch = {}

IInv ==
  /\ TypeOK
  /\ CurrentInBatch
  /\ EmptyHandsBeforeClaim
  /\ LockNamesTheClaim
  /\ OneLiveJobPerKey

-----------------------------------------------------------------------------
(* What a step may do to the table.                                        *)

\* Rows whose lock is old go back to pending.
LEMMA ReclaimStep ==
  ASSUME TypeOK, Reclaim
  PROVE  /\ job' \in [Job -> Row]
         /\ \A j \in Job : \/ job'[j] = job[j]
                           \/ /\ job[j].state = "running"
                              /\ job[j].expired
                              /\ job'[j].state = "pending"
                              /\ job'[j].key = job[j].key
<1>1. job \in [Job -> Row]
  BY DEF TypeOK
<1>2. \A j \in Job : Released(job[j]) \in Row
  BY <1>1 DEF Released, Row, State
<1>3. \A j \in Job : Released(job[j]).state = "pending" /\ Released(job[j]).key = job[j].key
  BY <1>1 DEF Released, Row
<1>. QED BY <1>1, <1>2, <1>3 DEF Reclaim

\* Settling touches the row of the current job, and only while it is owned.
LEMMA CloseStep ==
  ASSUME TypeOK, NEW w \in Worker, NEW s \in {"done", "dead", "pending"}, Current(w).job \in Job, Close(w, s)
  PROVE  /\ job' \in [Job -> Row]
         /\ \A j \in Job : \/ job'[j] = job[j]
                           \/ /\ j = Current(w).job
                              /\ Owns(w)
                              /\ job'[j].state = s
                              /\ job'[j].key = job[j].key
<1>1. job \in [Job -> Row]
  BY DEF TypeOK
<1>. DEFINE Closed(row) == [row EXCEPT !.state = s, !.due = (s # "pending"), !.lockedBy = Nobody, !.expired = FALSE]
<1>2. \A j \in Job : Closed(job[j]) \in Row
  <2>1. (s # "pending") \in BOOLEAN /\ s \in State
    BY DEF State
  <2>. QED BY <1>1, <2>1 DEF Row
<1>3. CASE Owns(w)
  <2>1. job' = [job EXCEPT ![Current(w).job] = Closed(job[Current(w).job])]
    BY <1>1, <1>3 DEF Close
  <2>2. job' \in [Job -> Row]
    BY <1>1, <1>2, <2>1
  <2>3. \A j \in Job \ {Current(w).job} : job'[j] = job[j]
    BY <1>1, <2>1
  <2>4. LET j == Current(w).job IN job'[j].state = s /\ job'[j].key = job[j].key
    BY <1>1, <2>1 DEF Row
  <2>. QED BY <1>3, <2>2, <2>3, <2>4
<1>4. CASE ~Owns(w)
  BY <1>1, <1>4 DEF Close
<1>. QED BY <1>3, <1>4

\* No worker is called nobody, so a row that is free has no owner.
LEMMA NobodyIsNoWorker == Nobody \notin Worker
BY QueueAssumption DEF Nobody

-----------------------------------------------------------------------------
LEMMA InitIInv == Init => IInv
<1>. SUFFICES ASSUME Init PROVE IInv
  OBVIOUS
<1>1. NoRow \in Row /\ NoRow.state = "none"
  BY DEF NoRow, Row, State
<1>2. IdleProcess \in Process /\ IdleProcess.pc = "idle" /\ IdleProcess.batch = {}
  BY DEF IdleProcess, Process, Place, Result
<1>3. TypeOK
  BY <1>1, <1>2, QueueAssumption DEF Init, TypeOK
<1>4. CurrentInBatch /\ EmptyHandsBeforeClaim /\ LockNamesTheClaim
  BY <1>2 DEF Init, CurrentInBatch, EmptyHandsBeforeClaim, LockNamesTheClaim
<1>5. OneLiveJobPerKey
  BY <1>1 DEF Init, OneLiveJobPerKey, Live
<1>. QED BY <1>3, <1>4, <1>5 DEF IInv

\* A step that takes nothing but rows out of live states, and leaves the
\* workers' batches alone or smaller, keeps what the invariant says of the table.
LEMMA Shrinks ==
  ASSUME IInv, job' \in [Job -> Row],
         \A j \in Job : \/ job'[j] = job[j]
                        \/ /\ job[j].state = "running"
                           /\ job'[j].state \in {"pending", "done", "dead"}
                           /\ job'[j].key = job[j].key
         , \A w \in Worker : worker'[w].batch \subseteq worker[w].batch
  PROVE  LockNamesTheClaim' /\ OneLiveJobPerKey'
<1>1. LockNamesTheClaim'
  <2>. SUFFICES ASSUME NEW w \in Worker, NEW c \in worker'[w].batch,
                       job'[c.job].state = "running", job'[c.job].lockedBy = w
                PROVE  c.attempts = job'[c.job].attempts
    BY DEF LockNamesTheClaim
  <2>1. c \in worker[w].batch /\ c.job \in Job
    BY DEF IInv, TypeOK, Process, Claimed
  <2>2. job'[c.job] = job[c.job]
    BY <2>1
  <2>. QED BY <2>1, <2>2 DEF IInv, LockNamesTheClaim
<1>2. \A j \in Job : job'[j].state \in Live => job[j].state \in Live /\ job'[j].key = job[j].key
  BY DEF Live
<1>. QED BY <1>1, <1>2 DEF IInv, OneLiveJobPerKey

-----------------------------------------------------------------------------
(* One lemma per action.                                                   *)

LEMMA EnqueueIInv == ASSUME IInv, NEW k \in Key, Enqueue(k) PROVE IInv'
<1>. DEFINE New(due) == [state |-> "pending", key |-> k, attempts |-> 0, due |-> due,
                         lockedBy |-> Nobody, expired |-> FALSE]
<1>1. PICK j \in Job, due \in BOOLEAN : job[j].state = "none" /\ job' = [job EXCEPT ![j] = New(due)]
  BY DEF Enqueue
<1>2. New(due) \in Row
  BY DEF Row, State
<1>3. job' \in [Job -> Row] /\ job'[j] = New(due) /\ \A i \in Job \ {j} : job'[i] = job[i]
  BY <1>1, <1>2 DEF IInv, TypeOK
<1>4. TypeOK' /\ CurrentInBatch' /\ EmptyHandsBeforeClaim'
  BY <1>3 DEF IInv, Enqueue, TypeOK, CurrentInBatch, EmptyHandsBeforeClaim
<1>5. LockNamesTheClaim'
  <2>. SUFFICES ASSUME NEW w \in Worker, NEW c \in worker'[w].batch,
                       job'[c.job].state = "running", job'[c.job].lockedBy = w
                PROVE  c.attempts = job'[c.job].attempts
    BY DEF LockNamesTheClaim
  <2>1. c \in worker[w].batch /\ c.job \in Job
    BY DEF IInv, TypeOK, Process, Claimed, Enqueue
  <2>2. c.job # j
    BY <1>3
  <2>. QED BY <1>3, <2>1, <2>2 DEF IInv, LockNamesTheClaim
<1>6. OneLiveJobPerKey'
  BY <1>3 DEF IInv, OneLiveJobPerKey, Enqueue, LiveFor
<1>. QED BY <1>4, <1>5, <1>6 DEF IInv

\* Time passing: a lock gets old or a backoff ends.
LEMMA TimePassesIInv == ASSUME IInv, NEW j \in Job, ComesDue(j) \/ LockExpires(j) PROVE IInv'
<1>1. /\ job' \in [Job -> Row]
      /\ \A i \in Job : /\ job'[i].state = job[i].state
                        /\ job'[i].key = job[i].key
                        /\ job'[i].attempts = job[i].attempts
                        /\ job'[i].lockedBy = job[i].lockedBy
  <2>1. job \in [Job -> Row]
    BY DEF IInv, TypeOK
  <2>2. CASE ComesDue(j)
    BY <2>1, <2>2 DEF ComesDue, Row
  <2>3. CASE LockExpires(j)
    BY <2>1, <2>3 DEF LockExpires, Row
  <2>. QED BY <2>2, <2>3
<1>2. faults' \in 0 .. MaxFaults
  BY QueueAssumption DEF IInv, TypeOK, ComesDue, LockExpires
<1>3. TypeOK' /\ CurrentInBatch' /\ EmptyHandsBeforeClaim'
  BY <1>1, <1>2 DEF IInv, ComesDue, LockExpires, TypeOK, CurrentInBatch, EmptyHandsBeforeClaim
<1>4. LockNamesTheClaim'
  <2>1. \A w \in Worker : \A c \in worker[w].batch : c.job \in Job
    BY DEF IInv, TypeOK, Process, Claimed
  <2>. QED BY <1>1, <2>1 DEF IInv, ComesDue, LockExpires, LockNamesTheClaim
<1>5. OneLiveJobPerKey'
  BY <1>1 DEF IInv, OneLiveJobPerKey
<1>. QED BY <1>3, <1>4, <1>5 DEF IInv

LEMMA SweepStaleIInv == ASSUME IInv, SweepStale PROVE IInv'
<1>1. TypeOK
  BY DEF IInv
<1>2. job' \in [Job -> Row]
  BY <1>1, ReclaimStep DEF SweepStale
<1>3. \A j \in Job : \/ job'[j] = job[j]
                     \/ /\ job[j].state = "running"
                        /\ job'[j].state \in {"pending", "done", "dead"}
                        /\ job'[j].key = job[j].key
  BY <1>1, ReclaimStep DEF SweepStale
<1>4. LockNamesTheClaim' /\ OneLiveJobPerKey'
  BY <1>2, <1>3, Shrinks DEF SweepStale
<1>. QED BY <1>2, <1>4 DEF IInv, SweepStale, TypeOK, CurrentInBatch, EmptyHandsBeforeClaim

LEMMA TickIInv == ASSUME IInv, NEW w \in Worker, Tick(w) PROVE IInv'
<1>1. TypeOK
  BY DEF IInv
<1>2. job' \in [Job -> Row]
  BY <1>1, ReclaimStep DEF Tick
<1>3. \A j \in Job : \/ job'[j] = job[j]
                     \/ /\ job[j].state = "running"
                        /\ job'[j].state \in {"pending", "done", "dead"}
                        /\ job'[j].key = job[j].key
  BY <1>1, ReclaimStep DEF Tick
<1>4. worker' \in [Worker -> Process]
  BY <1>1 DEF Tick, TypeOK, Process, Place
<1>5. \A v \in Worker : worker'[v].batch = worker[v].batch
  BY <1>1 DEF Tick, TypeOK, Process
<1>6. LockNamesTheClaim' /\ OneLiveJobPerKey'
  BY <1>2, <1>3, <1>5, Shrinks
<1>7. CurrentInBatch' /\ EmptyHandsBeforeClaim'
  BY <1>1 DEF IInv, Tick, At, TypeOK, Process, CurrentInBatch, EmptyHandsBeforeClaim
<1>. QED BY <1>2, <1>4, <1>6, <1>7 DEF IInv, Tick, TypeOK

\* The one step that names a worker in a row: its hands are empty, so the only
\* claims it has of the rows are the new ones.
LEMMA ClaimIInv == ASSUME IInv, NEW w \in Worker, NEW rows \in SUBSET Job, Claim(w, rows) PROVE IInv'
<1>. DEFINE new == {[job |-> j, attempts |-> job[j].attempts + 1] : j \in rows}
<1>1. job \in [Job -> Row] /\ worker \in [Worker -> Process]
  BY DEF IInv, TypeOK
<1>2. ASSUME NEW j \in rows
      PROVE  /\ job'[j] = [state |-> "running", key |-> job[j].key, attempts |-> job[j].attempts + 1,
                           due |-> job[j].due, lockedBy |-> w, expired |-> FALSE]
             /\ job[j].state = "pending"
             /\ job'[j] \in Row
  <2>1. j \in Job /\ job[j] \in Row
    BY <1>1
  <2>2. job'[j] = [job[j] EXCEPT !.state = "running", !.lockedBy = w, !.expired = FALSE, !.attempts = @ + 1]
    BY <2>1 DEF Claim
  <2>3. job'[j] = [state |-> "running", key |-> job[j].key, attempts |-> job[j].attempts + 1,
                   due |-> job[j].due, lockedBy |-> w, expired |-> FALSE]
    BY <2>1, <2>2 DEF Row
  <2>4. job'[j] \in Row
    BY <2>1, <2>3 DEF Row, State
  <2>. QED BY <2>1, <2>3, <2>4 DEF Claim
<1>3. /\ job' \in [Job -> Row]
      /\ \A j \in Job \ rows : job'[j] = job[j]
      /\ \A j \in rows : /\ job[j].state = "pending"
                         /\ job'[j].key = job[j].key
                         /\ job'[j].lockedBy = w
                         /\ job'[j].attempts = job[j].attempts + 1
  BY <1>1, <1>2 DEF Claim
<1>4. new \subseteq Claimed
  BY <1>1 DEF Row, Claimed
<1>5. worker[w].batch = {}
  BY DEF IInv, EmptyHandsBeforeClaim, Claim, At
<1>6. /\ worker' \in [Worker -> Process]
      /\ worker'[w].pc = "next"
      /\ worker'[w].batch = new
      /\ \A v \in Worker \ {w} : worker'[v] = worker[v]
  BY <1>1, <1>4, <1>5 DEF Claim, Process, Place
<1>7. TypeOK' /\ CurrentInBatch' /\ EmptyHandsBeforeClaim'
  BY <1>3, <1>6 DEF IInv, Claim, TypeOK, CurrentInBatch, EmptyHandsBeforeClaim
<1>8. LockNamesTheClaim'
  <2>. SUFFICES ASSUME NEW v \in Worker, NEW c \in worker'[v].batch,
                       job'[c.job].state = "running", job'[c.job].lockedBy = v
                PROVE  c.attempts = job'[c.job].attempts
    BY DEF LockNamesTheClaim
  <2>1. CASE v = w
    <3>1. PICK j \in rows : c = [job |-> j, attempts |-> job[j].attempts + 1]
      BY <1>6, <2>1
    <3>. QED BY <1>3, <3>1
  <2>2. CASE v # w
    <3>1. c \in worker[v].batch /\ c.job \in Job
      BY <1>1, <1>6, <2>2 DEF Process, Claimed
    <3>2. c.job \notin rows
      BY <1>3, <2>2
    <3>. QED BY <1>3, <3>1, <3>2 DEF IInv, LockNamesTheClaim
  <2>. QED BY <2>1, <2>2
<1>9. OneLiveJobPerKey'
  <2>1. \A j \in Job : job'[j].state \in Live => job[j].state \in Live /\ job'[j].key = job[j].key
    BY <1>3 DEF Live
  <2>. QED BY <2>1 DEF IInv, OneLiveJobPerKey
<1>. QED BY <1>7, <1>8, <1>9 DEF IInv

\* Steps of a worker that leave the table alone and take nothing in hand.
LEMMA WorkerIInv ==
  ASSUME IInv, NEW w \in Worker, job' = job, faults' \in 0 .. MaxFaults,
         NEW p \in Process, worker' = [worker EXCEPT ![w] = p],
         p.batch \subseteq worker[w].batch,
         p.pc \in {"handle", "settle"} => p.current \in p.batch,
         p.pc \in {"idle", "claim"} => p.batch = {}
  PROVE  IInv'
<1>1. job \in [Job -> Row] /\ worker \in [Worker -> Process]
  BY DEF IInv, TypeOK
<1>2. worker' \in [Worker -> Process] /\ \A v \in Worker : worker'[v].batch \subseteq worker[v].batch
  BY <1>1
<1>3. LockNamesTheClaim' /\ OneLiveJobPerKey'
  BY <1>1, <1>2, Shrinks
<1>4. CurrentInBatch' /\ EmptyHandsBeforeClaim'
  BY <1>1 DEF IInv, CurrentInBatch, EmptyHandsBeforeClaim
<1>. QED BY <1>1, <1>2, <1>3, <1>4 DEF IInv, TypeOK

LEMMA HandleIInv == ASSUME IInv, NEW w \in Worker, Handle(w) PROVE IInv'
<1>1. PICK c \in worker[w].batch : worker' = [worker EXCEPT ![w].pc = "handle", ![w].current = c]
  BY DEF Handle
<1>. DEFINE p == [worker[w] EXCEPT !.pc = "handle", !.current = c]
<1>2. worker[w] \in Process /\ c \in Claimed
  BY DEF IInv, TypeOK, Process
<1>3. p \in Process /\ p.pc = "handle" /\ p.current = c /\ p.batch = worker[w].batch
  BY <1>2 DEF Process, Place
<1>4. worker' = [worker EXCEPT ![w] = p]
  BY <1>1
<1>5. faults' \in 0 .. MaxFaults /\ job' = job
  BY DEF IInv, TypeOK, Handle
<1>. HIDE DEF p
<1>. QED BY <1>3, <1>4, <1>5, WorkerIInv

LEMMA EndTickIInv == ASSUME IInv, NEW w \in Worker, EndTick(w) PROVE IInv'
<1>. DEFINE p == [worker[w] EXCEPT !.pc = "idle"]
<1>1. worker[w] \in Process /\ worker[w].batch = {}
  BY DEF IInv, TypeOK, EndTick
<1>2. p \in Process /\ p.pc = "idle" /\ p.batch = {}
  BY <1>1 DEF Process, Place
<1>3. worker' = [worker EXCEPT ![w] = p] /\ faults' \in 0 .. MaxFaults /\ job' = job
  BY DEF IInv, TypeOK, EndTick
<1>. HIDE DEF p
<1>. QED BY <1>1, <1>2, <1>3, WorkerIInv

LEMMA HandlerEndsIInv == ASSUME IInv, NEW w \in Worker, HandlerEnds(w) PROVE IInv'
<1>1. PICK r \in Result : worker' = [worker EXCEPT ![w].pc = "settle", ![w].result = r]
  BY DEF HandlerEnds
<1>. DEFINE p == [worker[w] EXCEPT !.pc = "settle", !.result = r]
<1>2. worker[w] \in Process /\ worker[w].current \in worker[w].batch
  BY DEF IInv, TypeOK, CurrentInBatch, HandlerEnds, At
<1>3. p \in Process /\ p.pc = "settle" /\ p.current = worker[w].current /\ p.batch = worker[w].batch
  BY <1>2 DEF Process, Place
<1>4. worker' = [worker EXCEPT ![w] = p]
  BY <1>1
<1>5. faults' \in 0 .. MaxFaults /\ job' = job
  BY DEF IInv, TypeOK, HandlerEnds
<1>. HIDE DEF p
<1>. QED BY <1>2, <1>3, <1>4, <1>5, WorkerIInv

LEMMA IdleProcessType ==
  /\ IdleProcess \in Process
  /\ IdleProcess.pc = "idle"
  /\ IdleProcess.batch = {}
BY DEF IdleProcess, Process, Place, Result

LEMMA LeaveTickIInv ==
  ASSUME IInv, NEW w \in Worker, LeaveTick(w), job' = job, faults' \in 0 .. MaxFaults
  PROVE  IInv'
<1>1. worker' = [worker EXCEPT ![w] = IdleProcess]
  BY DEF LeaveTick
<1>. QED BY <1>1, IdleProcessType, WorkerIInv

LEMMA SettleThrowsIInv == ASSUME IInv, NEW w \in Worker, SettleThrows(w) PROVE IInv'
<1>1. faults' \in 0 .. MaxFaults /\ job' = job
  BY QueueAssumption DEF IInv, TypeOK, SettleThrows
<1>2. CASE LeaveTick(w)
  BY <1>1, <1>2, LeaveTickIInv
<1>3. CASE worker' = [worker EXCEPT ![w].result = "error"]
  <2>. DEFINE p == [worker[w] EXCEPT !.result = "error"]
  <2>1. /\ worker[w] \in Process
        /\ worker[w].pc = "settle"
        /\ worker[w].current \in worker[w].batch
    BY DEF IInv, TypeOK, CurrentInBatch, SettleThrows, At
  <2>2. p \in Process /\ p.pc = "settle" /\ p.current = worker[w].current /\ p.batch = worker[w].batch
    BY <2>1 DEF Process, Place, Result
  <2>3. worker' = [worker EXCEPT ![w] = p]
    BY <1>3
  <2>. HIDE DEF p
  <2>. QED BY <1>1, <2>1, <2>2, <2>3, WorkerIInv
<1>. QED BY <1>2, <1>3 DEF SettleThrows

LEMMA CrashIInv == ASSUME IInv, NEW w \in Worker, Crash(w) PROVE IInv'
<1>1. faults' \in 0 .. MaxFaults /\ job' = job /\ LeaveTick(w)
  BY QueueAssumption DEF IInv, TypeOK, Crash
<1>. QED BY <1>1, LeaveTickIInv

\* Complete and Fail.
LEMMA SettleIInv ==
  ASSUME IInv, NEW w \in Worker, At(w, "settle"), NEW s \in {"done", "dead", "pending"},
         Close(w, s), NextJob(w), UNCHANGED faults
  PROVE  IInv'
<1>1. TypeOK /\ worker \in [Worker -> Process]
  BY DEF IInv, TypeOK
<1>2. Current(w) \in worker[w].batch /\ Current(w).job \in Job
  BY <1>1 DEF IInv, CurrentInBatch, At, Current, Process, Claimed
<1>3. job' \in [Job -> Row]
  BY <1>1, <1>2, CloseStep
<1>4. \A j \in Job : \/ job'[j] = job[j]
                     \/ /\ job[j].state = "running"
                        /\ job'[j].state \in {"pending", "done", "dead"}
                        /\ job'[j].key = job[j].key
  BY <1>1, <1>2, CloseStep DEF Owns
<1>5. NoClaim \in Claimed \cup {NoClaim} /\ "ok" \in Result /\ "next" \in Place
  BY DEF Result, Place
<1>6. /\ worker' \in [Worker -> Process]
      /\ worker'[w].pc = "next"
      /\ worker'[w].batch \subseteq worker[w].batch
      /\ \A v \in Worker \ {w} : worker'[v] = worker[v]
  BY <1>1, <1>5 DEF NextJob, Process
<1>7. LockNamesTheClaim' /\ OneLiveJobPerKey'
  BY <1>3, <1>4, <1>6, Shrinks
<1>8. CurrentInBatch' /\ EmptyHandsBeforeClaim'
  BY <1>6 DEF IInv, CurrentInBatch, EmptyHandsBeforeClaim
<1>. QED BY <1>1, <1>3, <1>6, <1>7, <1>8 DEF IInv, TypeOK

-----------------------------------------------------------------------------
LEMMA NextIInv == IInv /\ [Next]_vars => IInv'
<1>. SUFFICES ASSUME IInv, [Next]_vars PROVE IInv'
  OBVIOUS
<1>1. ASSUME NEW k \in Key, Enqueue(k) PROVE IInv'
  BY <1>1, EnqueueIInv
<1>2. ASSUME NEW j \in Job, ComesDue(j) \/ LockExpires(j) PROVE IInv'
  BY <1>2, TimePassesIInv
<1>3. CASE SweepStale
  BY <1>3, SweepStaleIInv
<1>4. ASSUME NEW w \in Worker, Tick(w) PROVE IInv'
  BY <1>4, TickIInv
<1>5. ASSUME NEW w \in Worker, NEW rows \in SUBSET Job, Claim(w, rows) PROVE IInv'
  BY <1>5, ClaimIInv
<1>6. ASSUME NEW w \in Worker, Work(w) PROVE IInv'
  <2>1. CASE Handle(w)
    BY <2>1, HandleIInv
  <2>2. CASE EndTick(w)
    BY <2>2, EndTickIInv
  <2>3. CASE HandlerEnds(w)
    BY <2>3, HandlerEndsIInv
  <2>4. CASE Complete(w)
    BY <2>4, SettleIInv DEF Complete
  <2>5. CASE Fail(w)
    <3>. DEFINE s == IF Current(w).attempts >= MaxAttempts THEN "dead" ELSE "pending"
    <3>1. s \in {"done", "dead", "pending"}
      OBVIOUS
    <3>2. At(w, "settle") /\ Close(w, s) /\ NextJob(w) /\ UNCHANGED faults
      BY <2>5 DEF Fail
    <3>. HIDE DEF s
    <3>. QED BY <3>1, <3>2, SettleIInv
  <2>. QED BY <1>6, <2>1, <2>2, <2>3, <2>4, <2>5 DEF Work
<1>7. ASSUME NEW w \in Worker, SettleThrows(w) PROVE IInv'
  BY <1>7, SettleThrowsIInv
<1>8. ASSUME NEW w \in Worker, Crash(w) PROVE IInv'
  BY <1>8, CrashIInv
<1>9. CASE UNCHANGED vars
  BY <1>9 DEF vars, IInv, TypeOK, CurrentInBatch, EmptyHandsBeforeClaim, LockNamesTheClaim, OneLiveJobPerKey
<1>. QED BY <1>1, <1>2, <1>3, <1>4, <1>5, <1>6, <1>7, <1>8, <1>9 DEF Next

LEMMA Invariant == Spec => []IInv
BY InitIInv, NextIInv, PTL DEF Spec

-----------------------------------------------------------------------------
(* Workers that are in time.                                               *)

\* What a claim in a worker's memory says of its row: it is not newer than the
\* row, a running row with its count of attempts names this worker, and while
\* the worker is in time the row is as the claim left it.
ClaimGrips(w, c) ==
  LET r == job[c.job] IN
  /\ r.state # "none"
  /\ c.attempts <= r.attempts
  /\ c.attempts = r.attempts /\ r.state = "running" => r.lockedBy = w
  /\ w \notin SlowWorker =>
       r.state = "running" /\ r.lockedBy = w /\ ~r.expired /\ c.attempts = r.attempts

Grip == \A w \in Worker : \A c \in worker[w].batch : ClaimGrips(w, c)

LEMMA InitGrip == Init => Grip
BY DEF Init, IdleProcess, Grip

\* A step is harmless to a claim that stays in hand if it leaves its row alone.
LEMMA SameRowGrips ==
  ASSUME NEW w, NEW c, ClaimGrips(w, c), job'[c.job] = job[c.job]
  PROVE  ClaimGrips(w, c)'
BY DEF ClaimGrips

LEMMA SameTableGrips ==
  ASSUME Grip, job' = job, \A w \in Worker : worker'[w].batch \subseteq worker[w].batch
  PROVE  Grip'
<1>. SUFFICES ASSUME NEW w \in Worker, NEW c \in worker'[w].batch PROVE ClaimGrips(w, c)'
  BY DEF Grip
<1>. QED BY SameRowGrips DEF Grip

\* An old lock is nobody's who is in time.
LEMMA ReclaimGrips ==
  ASSUME IInv, Grip, Reclaim, \A w \in Worker : worker'[w].batch \subseteq worker[w].batch
  PROVE  Grip'
<1>. SUFFICES ASSUME NEW w \in Worker, NEW c \in worker'[w].batch PROVE ClaimGrips(w, c)'
  BY DEF Grip
<1>1. c \in worker[w].batch /\ c.job \in Job /\ ClaimGrips(w, c)
  BY DEF IInv, TypeOK, Process, Claimed, Grip
<1>2. job[c.job] \in Row
  BY <1>1 DEF IInv, TypeOK
<1>3. CASE job[c.job].state = "running" /\ job[c.job].expired
  <2>1. job'[c.job] = Released(job[c.job])
    BY <1>1, <1>3 DEF Reclaim
  <2>2. job'[c.job].state = "pending" /\ job'[c.job].attempts = job[c.job].attempts
    BY <1>2, <2>1 DEF Released, Row
  <2>. QED BY <1>1, <1>3, <2>2 DEF ClaimGrips
<1>4. CASE ~(job[c.job].state = "running" /\ job[c.job].expired)
  BY <1>1, <1>4, SameRowGrips DEF Reclaim
<1>. QED BY <1>3, <1>4

LEMMA EnqueueGrips == ASSUME IInv, Grip, NEW k \in Key, Enqueue(k) PROVE Grip'
<1>. SUFFICES ASSUME NEW w \in Worker, NEW c \in worker'[w].batch PROVE ClaimGrips(w, c)'
  BY DEF Grip
<1>1. c \in worker[w].batch /\ c.job \in Job /\ ClaimGrips(w, c)
  BY DEF IInv, TypeOK, Process, Claimed, Grip, Enqueue
<1>2. job'[c.job] = job[c.job]
  BY <1>1 DEF IInv, TypeOK, Enqueue, ClaimGrips
<1>. QED BY <1>1, <1>2, SameRowGrips

\* A job that comes due is pending, and in nobody's hand who is in time.
LEMMA ComesDueGrips == ASSUME IInv, Grip, NEW j \in Job, ComesDue(j) PROVE Grip'
<1>. SUFFICES ASSUME NEW w \in Worker, NEW c \in worker'[w].batch PROVE ClaimGrips(w, c)'
  BY DEF Grip
<1>1. c \in worker[w].batch /\ c.job \in Job /\ ClaimGrips(w, c)
  BY DEF IInv, TypeOK, Process, Claimed, Grip, ComesDue
<1>2. CASE c.job # j
  BY <1>1, <1>2, SameRowGrips DEF IInv, TypeOK, ComesDue
<1>3. CASE c.job = j
  <2>1. job'[j] = [job[j] EXCEPT !.due = TRUE] /\ job[j] \in Row /\ job[j].state = "pending"
    BY DEF IInv, TypeOK, ComesDue
  <2>2. job'[j].state = "pending" /\ job'[j].attempts = job[j].attempts
    BY <2>1 DEF Row
  <2>. QED BY <1>1, <1>3, <2>1, <2>2 DEF ClaimGrips
<1>. QED BY <1>2, <1>3

\* The worker whose lock runs out is the one that has the job in hand.
LEMMA LockExpiresGrips == ASSUME IInv, Grip, NEW j \in Job, LockExpires(j) PROVE Grip'
<1>. SUFFICES ASSUME NEW w \in Worker, NEW c \in worker'[w].batch PROVE ClaimGrips(w, c)'
  BY DEF Grip
<1>1. c \in worker[w].batch /\ c.job \in Job /\ ClaimGrips(w, c)
  BY DEF IInv, TypeOK, Process, Claimed, Grip, LockExpires
<1>2. CASE c.job # j
  BY <1>1, <1>2, SameRowGrips DEF IInv, TypeOK, LockExpires
<1>3. CASE c.job = j
  <2>1. job'[j] = [job[j] EXCEPT !.expired = TRUE] /\ job[j] \in Row
    BY DEF IInv, TypeOK, LockExpires
  <2>2. /\ job'[j].state = job[j].state
        /\ job'[j].attempts = job[j].attempts
        /\ job'[j].lockedBy = job[j].lockedBy
    BY <2>1 DEF Row
  <2>3. ASSUME w \notin SlowWorker PROVE FALSE
    <3>1. InHand(w, j) /\ job[j].state = "running" /\ job[j].lockedBy = w
      BY <1>1, <1>3, <2>3 DEF ClaimGrips, InHand
    <3>2. PICK v \in SlowWorker : InHand(v, j)
      BY <3>1 DEF LockExpires, Orphaned
    <3>3. PICK d \in worker[v].batch : d.job = j /\ d.attempts = job[j].attempts
      BY <3>2 DEF InHand
    <3>4. v \in Worker /\ ClaimGrips(v, d)
      BY <3>3, QueueAssumption DEF Grip
    <3>. QED BY <2>3, <3>1, <3>3, <3>4 DEF ClaimGrips
  <2>. QED BY <1>1, <1>3, <2>2, <2>3 DEF ClaimGrips
<1>. QED BY <1>2, <1>3

\* A row that is claimed is pending, so whoever still has it in hand is late.
LEMMA ClaimStepGrips ==
  ASSUME IInv, Grip, NEW v \in Worker, NEW rows \in SUBSET Job, Claim(v, rows)
  PROVE  Grip'
<1>1. job \in [Job -> Row] /\ worker \in [Worker -> Process]
  BY DEF IInv, TypeOK
<1>2. ASSUME NEW j \in rows
      PROVE  /\ job[j].state = "pending"
             /\ job[j].attempts \in Nat
             /\ job'[j].state = "running"
             /\ job'[j].lockedBy = v
             /\ ~job'[j].expired
             /\ job'[j].attempts = job[j].attempts + 1
  <2>1. j \in Job /\ job[j] \in Row
    BY <1>1
  <2>2. job'[j] = [job[j] EXCEPT !.state = "running", !.lockedBy = v, !.expired = FALSE, !.attempts = @ + 1]
    BY <2>1 DEF Claim
  <2>3. job'[j] = [state |-> "running", key |-> job[j].key, attempts |-> job[j].attempts + 1,
                   due |-> job[j].due, lockedBy |-> v, expired |-> FALSE]
    BY <2>1, <2>2 DEF Row
  <2>4. job[j].state = "pending" /\ job[j].attempts \in Nat
    BY <2>1 DEF Claim, Row
  <2>. QED BY <2>3, <2>4
<1>3. \A j \in Job \ rows : job'[j] = job[j]
  BY <1>1 DEF Claim
<1>4. /\ worker'[v].batch = {[job |-> j, attempts |-> job[j].attempts + 1] : j \in rows}
      /\ \A w \in Worker \ {v} : worker'[w] = worker[w]
  <2>1. worker[v].batch = {}
    BY DEF IInv, EmptyHandsBeforeClaim, Claim, At
  <2>. QED BY <1>1, <2>1 DEF Claim, Process
<1>. SUFFICES ASSUME NEW w \in Worker, NEW c \in worker'[w].batch PROVE ClaimGrips(w, c)'
  BY DEF Grip
<1>5. CASE w = v
  <2>1. PICK j \in rows : c = [job |-> j, attempts |-> job[j].attempts + 1]
    BY <1>4, <1>5
  <2>. QED BY <1>2, <1>5, <2>1 DEF ClaimGrips
<1>6. CASE w # v
  <2>1. c \in worker[w].batch /\ c.job \in Job /\ c.attempts \in Nat /\ ClaimGrips(w, c)
    BY <1>1, <1>4, <1>6 DEF Process, Claimed, Grip
  <2>2. CASE c.job \in rows
    <3>1. job'[c.job].attempts = job[c.job].attempts + 1 /\ job[c.job].attempts \in Nat
          /\ job'[c.job].state = "running" /\ job[c.job].state = "pending"
      BY <1>2, <2>2
    <3>2. w \in SlowWorker /\ c.attempts < job[c.job].attempts + 1
      BY <2>1, <3>1 DEF ClaimGrips
    <3>. QED BY <2>1, <3>1, <3>2 DEF ClaimGrips
  <2>3. CASE c.job \notin rows
    BY <1>3, <2>1, <2>3, SameRowGrips
  <2>. QED BY <2>2, <2>3
<1>. QED BY <1>5, <1>6

\* Settling closes the row of the claim that is put down, or nothing.
LEMMA SettleGrips ==
  ASSUME IInv, Grip, NEW v \in Worker, At(v, "settle"), NEW s \in {"done", "dead", "pending"},
         Close(v, s), NextJob(v)
  PROVE  Grip'
<1>1. TypeOK /\ worker \in [Worker -> Process] /\ Current(v) \in worker[v].batch
  BY DEF IInv, TypeOK, CurrentInBatch, At, Current
<1>2. Current(v) \in Claimed /\ Current(v).job \in Job
  BY <1>1 DEF Process, Claimed
<1>3. worker'[v].batch = worker[v].batch \ {Current(v)} /\ \A w \in Worker \ {v} : worker'[w] = worker[w]
  BY <1>1 DEF NextJob, Process
<1>. SUFFICES ASSUME NEW w \in Worker, NEW c \in worker'[w].batch PROVE ClaimGrips(w, c)'
  BY DEF Grip
<1>4. c \in worker[w].batch /\ c \in Claimed /\ c.job \in Job /\ ClaimGrips(w, c)
  BY <1>1, <1>3 DEF Process, Claimed, Grip
<1>5. CASE job'[c.job] = job[c.job]
  BY <1>4, <1>5, SameRowGrips
<1>6. CASE job'[c.job] # job[c.job]
  <2>1. c.job = Current(v).job /\ Owns(v) /\ job'[c.job].state = s
    BY <1>1, <1>2, <1>4, <1>6, CloseStep
  <2>2. job'[c.job].attempts = job[c.job].attempts
    BY <1>2, <2>1 DEF Close, IInv, TypeOK, Row
  <2>3. ASSUME w \notin SlowWorker PROVE FALSE
    <3>1. v = w /\ c.attempts = job[c.job].attempts
      BY <1>4, <2>1, <2>3 DEF ClaimGrips, Owns
    <3>2. Current(v).attempts = job[c.job].attempts
      BY <1>1, <2>1 DEF IInv, LockNamesTheClaim, Owns
    <3>3. c = Current(v)
      BY <1>2, <1>4, <2>1, <3>1, <3>2 DEF Claimed
    <3>. QED BY <1>3, <3>1, <3>3
  <2>. QED BY <1>4, <2>1, <2>2, <2>3 DEF ClaimGrips
<1>. QED BY <1>5, <1>6

LEMMA NextGrips == IInv /\ Grip /\ [Next]_vars => Grip'
<1>. SUFFICES ASSUME IInv, Grip, [Next]_vars PROVE Grip'
  OBVIOUS
<1>1. worker \in [Worker -> Process]
  BY DEF IInv, TypeOK
<1>2. CASE \E k \in Key : Enqueue(k)
  BY <1>2, EnqueueGrips
<1>3. CASE \E j \in Job : ComesDue(j) \/ LockExpires(j)
  BY <1>3, ComesDueGrips, LockExpiresGrips
<1>4. CASE SweepStale
  BY <1>4, ReclaimGrips DEF SweepStale
<1>5. ASSUME NEW w \in Worker, Tick(w) PROVE Grip'
  <2>1. \A v \in Worker : worker'[v].batch \subseteq worker[v].batch
    BY <1>1, <1>5 DEF Tick, Process
  <2>. QED BY <1>5, <2>1, ReclaimGrips DEF Tick
<1>6. ASSUME NEW w \in Worker, NEW rows \in SUBSET Job, Claim(w, rows) PROVE Grip'
  BY <1>6, ClaimStepGrips
<1>7. ASSUME NEW w \in Worker, Complete(w) \/ Fail(w) PROVE Grip'
  <2>. DEFINE s == IF Current(w).attempts >= MaxAttempts THEN "dead" ELSE "pending"
  <2>1. s \in {"done", "dead", "pending"}
    OBVIOUS
  <2>2. CASE Complete(w)
    BY <2>2, SettleGrips DEF Complete
  <2>3. CASE Fail(w)
    <3>1. At(w, "settle") /\ Close(w, s) /\ NextJob(w)
      BY <2>3 DEF Fail
    <3>. HIDE DEF s
    <3>. QED BY <2>1, <3>1, SettleGrips
  <2>. QED BY <1>7, <2>2, <2>3
<1>8. ASSUME NEW w \in Worker,
             Handle(w) \/ EndTick(w) \/ HandlerEnds(w) \/ SettleThrows(w) \/ Crash(w)
      PROVE  Grip'
  <2>1. job' = job
    BY <1>8 DEF Handle, EndTick, HandlerEnds, SettleThrows, Crash
  <2>2. \A v \in Worker : worker'[v].batch \subseteq worker[v].batch
    BY <1>1, <1>8, IdleProcessType DEF Handle, EndTick, HandlerEnds, SettleThrows, Crash, LeaveTick, Process
  <2>. QED BY <2>1, <2>2, SameTableGrips
<1>9. CASE UNCHANGED vars
  BY <1>9, SameTableGrips DEF vars
<1>. QED BY <1>2, <1>3, <1>4, <1>5, <1>6, <1>7, <1>8, <1>9 DEF Next, Work

-----------------------------------------------------------------------------
(* The results.                                                            *)

\* Every reachable state has its type.
THEOREM TypeCorrect == Spec => []TypeOK
BY Invariant, PTL DEF IInv

\* locked_by is a sufficient fence: a row that names a worker who has it in
\* hand was claimed by the claim that worker remembers.
THEOREM FenceTellsClaimsApart == Spec => []LockNamesTheClaim
BY Invariant, PTL DEF IInv

\* An order never has two live jobs.
THEOREM AtMostOneLiveJob == Spec => []OneLiveJobPerKey
BY Invariant, PTL DEF IInv

\* A worker in time owns the job it handles, whatever slower workers, crashes
\* and sweeps do: the exclusion the split supplier transactions count on.
THEOREM HandlerInTimeOwns == Spec => []HandlerOwnsItsJob
<1>1. ASSUME IInv, Grip PROVE HandlerOwnsItsJob
  BY <1>1 DEF HandlerOwnsItsJob, Handling, At, Current, IInv, CurrentInBatch, Grip, ClaimGrips
<1>. QED BY <1>1, Invariant, InitGrip, NextGrips, PTL DEF Spec

\* A claim that was lost changes nothing in the job that was claimed again.
THEOREM OwnerSettles == Spec => OnlyTheOwnerSettles
<1>. DEFINE Settled == \A j \in Job :
       job[j].state = "running" /\ job'[j].state # "running" =>
         \/ job[j].expired /\ job'[j].state = "pending"
         \/ \E w \in Worker : /\ At(w, "settle")
                              /\ Current(w) = [job |-> j, attempts |-> job[j].attempts]
                              /\ Current(w) \notin worker'[w].batch
<1>1. ASSUME IInv, [Next]_vars PROVE [Settled]_vars
  <2>. DEFINE SettledBy(w, j) ==
         /\ At(w, "settle")
         /\ Current(w) = [job |-> j, attempts |-> job[j].attempts]
         /\ Current(w) \notin worker'[w].batch
       Freed(j) ==
         \/ job[j].expired /\ job'[j].state = "pending"
         \/ \E w \in Worker : SettledBy(w, j)
  <2>. SUFFICES ASSUME NEW j \in Job, job[j].state = "running", job'[j].state # "running"
                PROVE  Freed(j)
    OBVIOUS
  <2>1. TypeOK /\ job \in [Job -> Row] /\ worker \in [Worker -> Process]
    BY <1>1 DEF IInv, TypeOK
  <2>2. ASSUME job' = job PROVE FALSE
    BY <2>2
  <2>3. ASSUME Reclaim PROVE Freed(j)
    <3>1. job[j].expired /\ job'[j].state = "pending"
      BY <2>1, <2>3, ReclaimStep
    <3>. QED BY <3>1
  <2>4. ASSUME NEW k \in Key, Enqueue(k) PROVE FALSE
    BY <2>1, <2>4 DEF Enqueue
  <2>5. ASSUME NEW i \in Job, ComesDue(i) \/ LockExpires(i) PROVE FALSE
    BY <2>1, <2>5 DEF ComesDue, LockExpires, Row
  <2>6. ASSUME NEW w \in Worker, NEW rows \in SUBSET Job, Claim(w, rows) PROVE FALSE
    BY <2>1, <2>6 DEF Claim, Row
  <2>7. ASSUME NEW w \in Worker, At(w, "settle"), NEW s \in {"done", "dead", "pending"},
               Close(w, s), NextJob(w)
        PROVE  SettledBy(w, j)
    <3>1. Current(w) \in worker[w].batch /\ Current(w) \in Claimed
      BY <1>1, <2>1, <2>7 DEF IInv, CurrentInBatch, At, Current, Process
    <3>2. j = Current(w).job /\ Owns(w)
      BY <2>1, <2>7, <3>1, CloseStep DEF Claimed
    <3>3. Current(w).attempts = job[j].attempts
      BY <1>1, <3>1, <3>2 DEF IInv, LockNamesTheClaim, Owns
    <3>4. Current(w) = [job |-> j, attempts |-> job[j].attempts]
      BY <3>1, <3>2, <3>3 DEF Claimed
    <3>5. worker'[w].batch = worker[w].batch \ {Current(w)}
      BY <2>1, <2>7 DEF NextJob, Process
    <3>. QED BY <2>7, <3>4, <3>5
  <2>8. ASSUME NEW w \in Worker, Complete(w) \/ Fail(w)
        PROVE  SettledBy(w, j)
    <3>1. CASE Complete(w)
      BY <2>7, <3>1 DEF Complete
    <3>2. CASE Fail(w)
      <4>. DEFINE s == IF Current(w).attempts >= MaxAttempts THEN "dead" ELSE "pending"
      <4>1. s \in {"done", "dead", "pending"}
        OBVIOUS
      <4>2. At(w, "settle") /\ Close(w, s) /\ NextJob(w)
        BY <3>2 DEF Fail
      <4>. HIDE DEF s
      <4>. QED BY <2>7, <4>1, <4>2
    <3>. QED BY <2>8, <3>1, <3>2
  <2>9. ASSUME NEW w \in Worker,
               Tick(w) \/ Handle(w) \/ EndTick(w) \/ HandlerEnds(w) \/ SettleThrows(w) \/ Crash(w)
        PROVE  Reclaim \/ job' = job
    BY <2>9 DEF Tick, Handle, EndTick, HandlerEnds, SettleThrows, Crash
  <2>10. ~UNCHANGED vars
    BY <2>2 DEF vars
  <2>11. CASE \E k \in Key : Enqueue(k)
    BY <2>4, <2>11
  <2>12. CASE \E i \in Job : ComesDue(i) \/ LockExpires(i)
    BY <2>5, <2>12
  <2>13. CASE SweepStale
    BY <2>3, <2>13 DEF SweepStale
  <2>14. ASSUME NEW w \in Worker,
                Tick(w) \/ (\E rows \in SUBSET Job : Claim(w, rows)) \/ Work(w) \/ SettleThrows(w) \/ Crash(w)
         PROVE  Freed(j)
    <3>1. ASSUME NEW rows \in SUBSET Job, Claim(w, rows) PROVE FALSE
      BY <2>6, <3>1
    <3>2. CASE Complete(w) \/ Fail(w)
      BY <2>8, <3>2
    <3>3. CASE Tick(w) \/ Handle(w) \/ EndTick(w) \/ HandlerEnds(w) \/ SettleThrows(w) \/ Crash(w)
      <4>1. Reclaim \/ job' = job
        BY <2>9, <3>3
      <4>. HIDE DEF Freed
      <4>. QED BY <2>2, <2>3, <4>1
    <3>. HIDE DEF Freed
    <3>. QED BY <2>14, <3>1, <3>2, <3>3 DEF Work
  <2>. HIDE DEF Freed
  <2>. QED BY <1>1, <2>10, <2>11, <2>12, <2>13, <2>14 DEF Next
<1>2. Spec => [][Settled]_vars
  BY <1>1, Invariant, PTL DEF Spec
<1>. QED BY <1>2 DEF OnlyTheOwnerSettles
=============================================================================
