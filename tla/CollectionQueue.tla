--------------------------- MODULE CollectionQueue ---------------------------
(***************************************************************************)
(* The durable collection queue of cip.modules.collection_orchestration:   *)
(* one scheduler, the control plane's priority refresh, a pool of worker   *)
(* processes that lease jobs, the per-source circuit breaker and cursor,   *)
(* and the human checkpoints a job can be parked on.                       *)
(*                                                                         *)
(* Every action is one database transaction (session_scope commits or      *)
(* rolls back as a whole, and the rows it changes are locked FOR UPDATE).  *)
(* Between the transaction that claims a job and the one that reports on   *)
(* it a worker holds no lock: that is where the interleavings are.         *)
(***************************************************************************)
EXTENDS Integers, FiniteSets

CONSTANTS
  Sources,          \* source ids; each has exactly one adapter, as in the schedules
  Workers,          \* worker ids (hostname:pid)
  NoWorker, NoJob,  \* SQL NULL in lease_owner; a worker without a claim
  Interval,         \* SourceSchedule.interval_seconds of every schedule
  Minute,           \* the sixty-second grid of priority refreshes
  SchedulePolicy,   \* retry, lease and circuit settings of scheduled jobs
  PriorityPolicy,   \* the defaults a priority refresh enqueues with
  PriorityRefresh,  \* whether the control plane requests priority refreshes
  CheckpointTtl,    \* life of a human checkpoint from its creation
  ScanLimit,        \* rows the claim scan reads
  ClockLag,         \* how far behind now a transaction's clock reading may be
  Horizon,          \* bound: the last slot for which jobs are created
  MaxPauses         \* bound: checkpoints one job may raise

Policy == [maxAttempts : Nat \ {0}, baseDelay : Nat \ {0}, maxDelay : Nat \ {0},
           threshold : Nat \ {0}, reset : Nat \ {0}, lease : Nat \ {0}]

ASSUME FiniteAssumption ==
  /\ IsFiniteSet(Sources)
  /\ NoWorker \notin Workers
  /\ NoJob \notin Sources \X (0..Horizon)

ASSUME SettingsAssumption ==
  /\ SchedulePolicy \in Policy
  /\ PriorityPolicy \in Policy
  /\ Interval \in Nat \ {0} /\ Minute \in Nat \ {0} /\ CheckpointTtl \in Nat \ {0}
  /\ ScanLimit \in Nat \ {0}
  /\ PriorityRefresh \in BOOLEAN
  /\ ClockLag \in Nat /\ Horizon \in Nat /\ MaxPauses \in Nat

VARIABLES
  jobs,         \* collection_jobs, by idempotency key
  circuits,     \* collection_circuits, by source
  cursors,      \* collection_checkpoints: the version, 0 when there is no row
  deadLetters,  \* jobs with a collection_dead_letters row
  human,        \* the latest collection_human_checkpoints row of each job
  work,         \* the ClaimedJob each worker holds in memory
  allowed,      \* what source_execution_allowed answers for each source
  now           \* wall-clock time

vars == <<jobs, circuits, cursors, deadLetters, human, work, allowed, now>>

-----------------------------------------------------------------------------
(* Types *)

Slots == 0..Horizon
\* A job is identified by its idempotency key: source, adapter and slot.
JobId == Sources \X Slots
SourceOf(j) == j[1]
SlotOf(j) == j[2]

Terminal == {"succeeded", "not_modified", "dead_lettered", "cancelled"}
Claimable == {"pending", "retry_scheduled"}
Active == Claimable \cup {"running", "awaiting_human_checkpoint"}

Job == [status : Active \cup Terminal \cup {"absent"}, attempt : Nat,
        available : Nat, owner : Workers \cup {NoWorker}, lease : Nat,
        resume : BOOLEAN, kind : {"schedule", "priority"}]
Circuit == [state : {"none", "closed", "open", "half_open"},
            failures : Nat, reopen : Nat]
HumanState == {"none", "waiting", "completed", "cancelled", "expired", "invalidated"}
Human == [state : HumanState, expires : Nat, pauses : Nat]
Work == [job : JobId \cup {NoJob}, base : Nat, since : Nat]

PolicyOf(kind) == IF kind = "priority" THEN PriorityPolicy ELSE SchedulePolicy
LargerOf(a, b) == IF a < b THEN b ELSE a

Idle == [job |-> NoJob, base |-> 0, since |-> 0]
NoRow == [status |-> "absent", attempt |-> 0, available |-> 0, owner |-> NoWorker,
          lease |-> 0, resume |-> FALSE, kind |-> "schedule"]

Init ==
  /\ jobs = [j \in JobId |-> NoRow]
  /\ circuits = [s \in Sources |-> [state |-> "none", failures |-> 0, reopen |-> 0]]
  /\ cursors = [s \in Sources |-> 0]
  /\ deadLetters = {}
  /\ human = [j \in JobId |-> [state |-> "none", expires |-> 0, pauses |-> 0]]
  /\ work = [w \in Workers |-> Idle]
  /\ allowed = [s \in Sources |-> TRUE]
  /\ now = 0

\* A transaction reads its clock before it opens: the value it works with may
\* be older than the state it finds.
TxTimes == {t \in 0..now : now <= t + ClockLag}

-----------------------------------------------------------------------------
(* Enqueueing *)

NewJob(kind, slot) ==
  [status |-> "pending", attempt |-> 0, available |-> slot, owner |-> NoWorker,
   lease |-> 0, resume |-> FALSE, kind |-> kind]

SlotFor(t, grid) == t - (t % grid)

\* Faulty: a parked job does not count as active.
HasActiveJobIgnoringParked(s) ==
  \E j \in JobId : SourceOf(j) = s /\ jobs[j].status \in Active \ {"awaiting_human_checkpoint"}

HasActiveJob(s) == \E j \in JobId : SourceOf(j) = s /\ jobs[j].status \in Active

\* INSERT ... ON CONFLICT (idempotency_key) DO NOTHING
Enqueue(kind, ids) ==
  jobs' = [j \in JobId |-> IF j \in ids /\ jobs[j].status = "absent"
                             THEN NewJob(kind, SlotOf(j)) ELSE jobs[j]]

\* One scheduler pass over all schedules of allowed sources.
ScheduleDueJobs(t) ==
  LET due == {s \in Sources : allowed[s] /\ ~HasActiveJob(s)} IN
  /\ SlotFor(t, Interval) \in Slots
  /\ due # {}
  /\ Enqueue("schedule", due \X {SlotFor(t, Interval)})
  /\ UNCHANGED <<circuits, cursors, deadLetters, human, work, allowed, now>>

\* POST /sources/{id}/priority-refresh: no look at the source's active jobs.
RequestPriorityRefresh(s, t) ==
  /\ PriorityRefresh
  /\ allowed[s]
  /\ SlotFor(t, Minute) \in Slots
  /\ Enqueue("priority", {<<s, SlotFor(t, Minute)>>})
  /\ UNCHANGED <<circuits, cursors, deadLetters, human, work, allowed, now>>

-----------------------------------------------------------------------------
(* Failure accounting *)

\* The circuit of a source after n more failures, the last one of a job with
\* policy p (register_circuit_failure and _apply_circuit_state).
FailCircuit(c, n, p, t) ==
  LET failures == c.failures + n IN
  IF failures < p.threshold
    THEN [state |-> "closed", failures |-> failures, reopen |-> 0]
    ELSE [state |-> "open", failures |-> failures, reopen |-> t + p.reset]

ResetCircuit(c) ==
  IF c.state = "none" THEN c ELSE [state |-> "closed", failures |-> 0, reopen |-> 0]

\* Doubling, up to the cap.
RetryDelay(p, attempt) ==
  LET doubled == p.baseDelay * 2^LargerOf(attempt - 1, 0)
  IN IF doubled \in 1..p.maxDelay THEN doubled ELSE p.maxDelay

\* Faulty: the status is not one of JobStatus.
DeadLetteredAsFailed(job) == [job EXCEPT !.status = "failed", !.owner = NoWorker, !.lease = 0]

DeadLettered(job) == [job EXCEPT !.status = "dead_lettered", !.owner = NoWorker, !.lease = 0]

RetryScheduled(job, c, t) ==
  LET delayed == t + RetryDelay(PolicyOf(job.kind), job.attempt) IN
  [job EXCEPT !.status = "retry_scheduled", !.owner = NoWorker, !.lease = 0,
              !.available = IF c.state = "open" THEN LargerOf(delayed, c.reopen)
                                                ELSE delayed]

\* Faulty: off by one.
MayRetryOneTooMany(job) == job.attempt <= PolicyOf(job.kind).maxAttempts

MayRetry(job) == job.attempt < PolicyOf(job.kind).maxAttempts

\* record_failure, given the circuit the failure leaves behind.
FailedJob(job, c, t, retryable) ==
  IF retryable /\ MayRetry(job) THEN RetryScheduled(job, c, t) ELSE DeadLettered(job)

-----------------------------------------------------------------------------
(* The worker's poll: one transaction that expires human checkpoints,      *)
(* recovers expired leases and claims the next job.                        *)

CheckpointsDue(t) == {j \in JobId : human[j].state = "waiting" /\ human[j].expires <= t}

\* Faulty: the checkpoint is closed, the job stays parked.
LeaveWaitingJob(job) == job

\* _cancel_waiting_job
CancelWaitingJob(job) ==
  IF job.status # "awaiting_human_checkpoint" THEN job
  ELSE [job EXCEPT !.status = "cancelled", !.owner = NoWorker, !.lease = 0, !.resume = FALSE]

CloseCheckpoints(ids, state) ==
  human' = [j \in JobId |-> IF j \in ids THEN [human[j] EXCEPT !.state = state] ELSE human[j]]

\* Faulty: every running job is recovered.
RunningJobs(t) == {j \in JobId : jobs[j].status = "running"}

\* Faulty: leases are never recovered.
NoLeases(t) == {}

ExpiredLeases(t) == {j \in JobId : jobs[j].status = "running" /\ jobs[j].lease <= t}

\* The order in which the unordered recovery query returns the expired jobs.
RecoveryOrders(t) ==
  LET E == ExpiredLeases(t) IN
  {o \in [E -> 1..Cardinality(E)] : \A j, k \in E : o[j] = o[k] => j = k}

FailuresUpTo(j, t, o) ==
  Cardinality({k \in ExpiredLeases(t) : SourceOf(k) = SourceOf(j) /\ o[k] <= o[j]})

RecoveredJob(j, t, o) ==
  FailedJob(jobs[j],
            FailCircuit(circuits[SourceOf(j)], FailuresUpTo(j, t, o),
                        PolicyOf(jobs[j].kind), t),
            t, TRUE)

JobsAfterRecovery(t, o) ==
  [j \in JobId |-> IF j \in ExpiredLeases(t) THEN RecoveredJob(j, t, o)
                   ELSE IF j \in CheckpointsDue(t) THEN CancelWaitingJob(jobs[j])
                   ELSE jobs[j]]

CircuitsAfterRecovery(t, o) ==
  [s \in Sources |->
     LET E == {j \in ExpiredLeases(t) : SourceOf(j) = s}
         lastIsPriority == \E j \in E : /\ jobs[j].kind = "priority"
                                        /\ \A k \in E : o[k] <= o[j]
     IN IF E = {} THEN circuits[s]
        ELSE FailCircuit(circuits[s], Cardinality(E),
                         IF lastIsPriority THEN PriorityPolicy ELSE SchedulePolicy, t)]

\* The session runs with autoflush off. The row register_circuit_failure adds
\* for the first failure of a source stays invisible to the lookup for the
\* second, which then adds the row again, unless a dead letter flushed the
\* session in between. The duplicate insert aborts the transaction and ends
\* the worker process: nothing has changed for the process that follows it.
CircuitInsertedTwice(t, o) ==
  LET E == ExpiredLeases(t) IN
  \E j, k \in E :
    /\ SourceOf(j) = SourceOf(k)
    /\ circuits[SourceOf(j)].state = "none"
    /\ o[j] < o[k]
    /\ \A m \in E : o[j] <= o[m] /\ o[m] < o[k] => MayRetry(jobs[m])

\* Faulty: the circuit is not consulted.
CircuitIgnored(c, t) == TRUE

CircuitAllowsClaim(c, t) == c.state \in {"none", "closed"} \/ c.reopen <= t

\* The rows the claim scan reads: due jobs, oldest slot first (jobs of one slot
\* in any order), up to the limit.
Scanned(J, t) ==
  LET due == {j \in JobId : J[j].status \in Claimable /\ J[j].available <= t} IN
  {j \in due : Cardinality({k \in due : SlotOf(k) < SlotOf(j)}) < ScanLimit}

HasBudget(job) == job.resume \/ job.attempt < PolicyOf(job.kind).maxAttempts

CanClaim(J, C, t) ==
  {j \in Scanned(J, t) : CircuitAllowsClaim(C[SourceOf(j)], t) /\ HasBudget(J[j])}

\* What the scan does to a row it cannot claim: postpone it behind the open
\* circuit, or dead-letter it when its attempts are spent.
PassedOver(job, c, t) ==
  IF CircuitAllowsClaim(c, t) THEN DeadLettered(job)
  ELSE [job EXCEPT !.available = LargerOf(job.available, c.reopen)]

JobsAfterScan(J, C, passed, t) ==
  [j \in JobId |-> IF j \in passed THEN PassedOver(J[j], C[SourceOf(j)], t) ELSE J[j]]

\* Faulty: letting a probe through closes the circuit.
ClosedByProbe(c) == IF c.state \in {"none", "closed"} THEN c
                    ELSE [c EXCEPT !.state = "closed", !.failures = 0]

HalfOpened(c) == IF c.state \in {"none", "closed"} THEN c ELSE [c EXCEPT !.state = "half_open"]

CircuitsAfterScan(C, visited, t) ==
  [s \in Sources |->
     IF CircuitAllowsClaim(C[s], t) /\ \E j \in visited : SourceOf(j) = s
       THEN HalfOpened(C[s]) ELSE C[s]]

\* The sets of rows the scan may pass over before it stops at job pick.
PassedBefore(J, C, pick, t) ==
  LET skipped == Scanned(J, t) \ CanClaim(J, C, t) IN
  {P \in SUBSET {j \in skipped : SlotOf(j) <= SlotOf(pick)} :
     {j \in skipped : SlotOf(j) < SlotOf(pick)} \subseteq P}

\* Faulty: a resumption is charged as an attempt.
ClaimedRowCharged(job, w, t) ==
  [job EXCEPT !.status = "running", !.attempt = job.attempt + 1, !.resume = FALSE,
              !.owner = w, !.lease = t + PolicyOf(job.kind).lease]

\* Faulty: a job that resumes keeps its mark and is never charged again.
ClaimedRowStillResuming(job, w, t) ==
  [job EXCEPT !.status = "running",
              !.attempt = IF job.resume THEN job.attempt ELSE job.attempt + 1,
              !.owner = w, !.lease = t + PolicyOf(job.kind).lease]

\* _claim_record
ClaimedRow(job, w, t) ==
  [job EXCEPT !.status = "running",
              !.attempt = IF job.resume THEN job.attempt ELSE job.attempt + 1,
              !.resume = FALSE,
              !.owner = w,
              !.lease = t + PolicyOf(job.kind).lease]

CancelledRow(job) == [job EXCEPT !.status = "cancelled", !.owner = NoWorker, !.lease = 0]

\* Faulty: lease recovery buries a job without its dead-letter row.
BuriedByScan(t, passed) ==
  deadLetters \cup {j \in passed : jobs'[j].status = "dead_lettered"}

BuriedBy(t, passed) ==
  deadLetters \cup {j \in ExpiredLeases(t) \cup passed : jobs'[j].status = "dead_lettered"}

\* Nothing to claim: the poll still recovers, postpones and dead-letters.
PollIdle(w, t) ==
  /\ work[w].job = NoJob
  /\ \E o \in RecoveryOrders(t) :
       LET J == JobsAfterRecovery(t, o)
           C == CircuitsAfterRecovery(t, o)
           passed == Scanned(J, t)
       IN /\ ~CircuitInsertedTwice(t, o)
          /\ CanClaim(J, C, t) = {}
          /\ jobs' = JobsAfterScan(J, C, passed, t)
          /\ circuits' = CircuitsAfterScan(C, passed, t)
          /\ deadLetters' = BuriedBy(t, passed)
  /\ CloseCheckpoints(CheckpointsDue(t), "expired")
  /\ UNCHANGED <<cursors, work, allowed, now>>

\* A job is claimed; when its source may not execute it is cancelled at once.
ClaimNextJob(w, t) ==
  /\ work[w].job = NoJob
  /\ \E o \in RecoveryOrders(t) :
       LET J == JobsAfterRecovery(t, o)
           C == CircuitsAfterRecovery(t, o)
       IN /\ ~CircuitInsertedTwice(t, o)
          /\ \E pick \in CanClaim(J, C, t) :
               /\ \A j \in CanClaim(J, C, t) : SlotOf(pick) <= SlotOf(j)
               /\ \E passed \in PassedBefore(J, C, pick, t) :
                    LET K == JobsAfterScan(J, C, passed, t)
                        claimed == ClaimedRow(K[pick], w, t)
                        go == allowed[SourceOf(pick)]
                    IN /\ jobs' = [K EXCEPT ![pick] = IF go THEN claimed
                                                      ELSE CancelledRow(claimed)]
                       /\ circuits' = CircuitsAfterScan(C, passed \cup {pick}, t)
                       /\ deadLetters' = BuriedBy(t, passed)
                       /\ work' = IF go THEN [work EXCEPT ![w] =
                                       [job |-> pick, base |-> cursors[SourceOf(pick)],
                                        since |-> t]]
                                  ELSE work
  /\ CloseCheckpoints(CheckpointsDue(t), "expired")
  /\ UNCHANGED <<cursors, allowed, now>>

-----------------------------------------------------------------------------
(* The worker's report on a claimed job                                    *)

Release(w) == work' = [work EXCEPT ![w] = Idle]

\* Faulty: nobody asks who holds the lease.
RunningForAnyone(w) == jobs[work[w].job].status = "running"

\* Faulty: a report is accepted whatever became of the job.
OwnsUnchecked(w) == TRUE

\* owned_running_job: the row is running under this worker's lease.
Owns(w) == /\ jobs[work[w].job].status = "running"
           /\ jobs[work[w].job].owner = w

\* require_unexpired
LeaseValid(w, t) == jobs[work[w].job].lease > t

\* A worker's clock does not run behind its own claim.
ReportTimes(w) == {t \in TxTimes : work[w].since <= t}

CompletedRow(job, status) == [job EXCEPT !.status = status, !.owner = NoWorker, !.lease = 0]

\* complete_job: observations, cursor, job and circuit in one transaction.
CompleteJob(w, t) ==
  /\ work[w].job # NoJob
  /\ Owns(w) /\ LeaseValid(w, t)
  /\ LET j == work[w].job IN
     /\ \E status \in {"succeeded", "not_modified"} :
          jobs' = [jobs EXCEPT ![j] = CompletedRow(jobs[j], status)]
     /\ cursors' = [cursors EXCEPT ![SourceOf(j)] = @ + 1]
     /\ circuits' = [circuits EXCEPT ![SourceOf(j)] = ResetCircuit(@)]
  /\ Release(w)
  /\ UNCHANGED <<deadLetters, human, allowed, now>>

\* fail_job: the lease may have expired, as long as nobody recovered it.
RecordFailure(w, t, retryable) ==
  LET j == work[w].job
      c == FailCircuit(circuits[SourceOf(j)], 1, PolicyOf(jobs[j].kind), t)
  IN /\ jobs' = [jobs EXCEPT ![j] = FailedJob(jobs[j], c, t, retryable)]
     /\ circuits' = [circuits EXCEPT ![SourceOf(j)] = c]
     /\ deadLetters' = IF retryable /\ MayRetry(jobs[j]) THEN deadLetters
                       ELSE deadLetters \cup {j}
     /\ Release(w)

\* The adapter is missing, raised AdapterExecutionError or anything else.
FailJob(w, t) ==
  /\ work[w].job # NoJob
  /\ Owns(w)
  /\ \E retryable \in BOOLEAN : RecordFailure(w, t, retryable)
  /\ UNCHANGED <<cursors, human, allowed, now>>

\* persist_partial_progress and fail_job in one transaction.
FailWithPartialProgress(w, t) ==
  /\ work[w].job # NoJob
  /\ Owns(w)
  /\ \E retryable \in BOOLEAN : RecordFailure(w, t, retryable)
  /\ cursors' = [cursors EXCEPT ![SourceOf(work[w].job)] = @ + 1]
  /\ UNCHANGED <<human, allowed, now>>

ParkedRow(job) ==
  [job EXCEPT !.status = "awaiting_human_checkpoint", !.owner = NoWorker, !.lease = 0,
              !.resume = FALSE]

\* The adapter met a human challenge. A checkpoint that has expired by the
\* time it is stored counts as a failure that must not be retried.
PauseForHuman(w, t) ==
  /\ work[w].job # NoJob
  /\ Owns(w)
  /\ human[work[w].job].pauses < MaxPauses
  /\ LET j == work[w].job IN
     \E created \in work[w].since..t :
       IF created + CheckpointTtl <= t
         THEN RecordFailure(w, t, FALSE) /\ UNCHANGED human
         ELSE /\ LeaseValid(w, t)
              /\ jobs' = [jobs EXCEPT ![j] = ParkedRow(jobs[j])]
              /\ human' = [human EXCEPT ![j] =
                             [state |-> "waiting", expires |-> created + CheckpointTtl,
                              pauses |-> human[j].pauses + 1]]
              /\ Release(w)
              /\ UNCHANGED <<circuits, deadLetters>>
  /\ UNCHANGED <<cursors, allowed, now>>

\* LeaseLostError: nothing is written. A failure report needs the row to be
\* this worker's; a completion or a pause needs the lease to be unexpired too.
LoseLease(w, t) ==
  /\ work[w].job # NoJob
  /\ ~(Owns(w) /\ LeaseValid(w, t))
  /\ Release(w)
  /\ UNCHANGED <<jobs, circuits, cursors, deadLetters, human, allowed, now>>

\* The process ends before its report commits: a kill, a database outage, an
\* insert conflict. A new process takes its place, possibly under the same id.
CrashAndRestart(w) ==
  /\ work[w].job # NoJob
  /\ Release(w)
  /\ UNCHANGED <<jobs, circuits, cursors, deadLetters, human, allowed, now>>

-----------------------------------------------------------------------------
(* Human checkpoints, driven by the control plane                          *)

ResumedRow(job, t) ==
  [job EXCEPT !.status = "pending", !.available = t, !.owner = NoWorker, !.lease = 0,
              !.resume = TRUE]

ResumeCheckpoint(j, t) ==
  /\ human[j].state = "waiting"
  /\ human[j].expires > t
  /\ jobs[j].status = "awaiting_human_checkpoint"
  /\ jobs' = [jobs EXCEPT ![j] = ResumedRow(jobs[j], t)]
  /\ CloseCheckpoints({j}, "completed")
  /\ UNCHANGED <<circuits, cursors, deadLetters, work, allowed, now>>

CancelCheckpoint(j) ==
  /\ human[j].state = "waiting"
  /\ jobs' = [jobs EXCEPT ![j] = CancelWaitingJob(jobs[j])]
  /\ CloseCheckpoints({j}, "cancelled")
  /\ UNCHANGED <<circuits, cursors, deadLetters, work, allowed, now>>

\* The revocation of an identity closes the waiting checkpoints raised under it:
\* which of its source's they are is not recorded here.
InvalidateCheckpointsForIdentity(s) ==
  \E closing \in SUBSET {j \in JobId : SourceOf(j) = s /\ human[j].state = "waiting"} :
    /\ closing # {}
    /\ jobs' = [j \in JobId |-> IF j \in closing THEN CancelWaitingJob(jobs[j]) ELSE jobs[j]]
    /\ CloseCheckpoints(closing, "invalidated")
    /\ UNCHANGED <<circuits, cursors, deadLetters, work, allowed, now>>

-----------------------------------------------------------------------------
(* Environment                                                             *)

\* Pauses, disablement, quotas and authorisations of the source portfolio.
ToggleExecution(s) ==
  /\ allowed' = [allowed EXCEPT ![s] = ~@]
  /\ UNCHANGED <<jobs, circuits, cursors, deadLetters, human, work, now>>

\* Something still waits for the clock of the slowest reader.
DeadlineAhead ==
  \E j \in JobId :
    \/ jobs[j].status \in Claimable /\ jobs[j].available + ClockLag > now
    \/ jobs[j].status = "running" /\ jobs[j].lease + ClockLag > now
    \/ human[j].state = "waiting" /\ human[j].expires + ClockLag > now

\* Time stops once no slot and no deadline is left: nothing depends on it then.
Tick ==
  /\ now < Horizon \/ DeadlineAhead
  /\ now' = now + 1
  /\ UNCHANGED <<jobs, circuits, cursors, deadLetters, human, work, allowed>>

-----------------------------------------------------------------------------
Poll(w) == \E t \in TxTimes : PollIdle(w, t) \/ ClaimNextJob(w, t)

Report(w) ==
  \/ \E t \in ReportTimes(w) :
       \/ CompleteJob(w, t)
       \/ FailJob(w, t)
       \/ FailWithPartialProgress(w, t)
       \/ PauseForHuman(w, t)
       \/ LoseLease(w, t)
  \/ CrashAndRestart(w)

ControlPlane ==
  \/ \E s \in Sources : \/ \E t \in TxTimes : RequestPriorityRefresh(s, t)
                        \/ InvalidateCheckpointsForIdentity(s)
                        \/ ToggleExecution(s)
  \/ \E j \in JobId : \/ \E t \in TxTimes : ResumeCheckpoint(j, t)
                      \/ CancelCheckpoint(j)

Next ==
  \/ \E t \in TxTimes : ScheduleDueJobs(t)
  \/ \E w \in Workers : Poll(w) \/ Report(w)
  \/ ControlPlane
  \/ Tick

Spec == Init /\ [][Next]_vars

\* Workers poll in an endless loop, an adapter call ends (its transports are
\* bounded by timeouts) or its process dies, and time passes. Nobody obliges
\* the scheduler, an operator or a human to act.
FairSpec ==
  /\ Spec
  /\ WF_vars(Tick)
  /\ \A w \in Workers : WF_vars(Poll(w)) /\ WF_vars(Report(w))

-----------------------------------------------------------------------------
(* Properties                                                              *)

\* Every variable holds a value of its column's type.
TypeOK ==
  /\ jobs \in [JobId -> Job]
  /\ circuits \in [Sources -> Circuit]
  /\ cursors \in [Sources -> Nat]
  /\ deadLetters \subseteq JobId
  /\ human \in [JobId -> Human]
  /\ work \in [Workers -> Work]
  /\ allowed \in [Sources -> BOOLEAN]
  /\ now \in Nat

\* Until the lease a worker was granted runs out, its job stays running under
\* its name: no poll, no control-plane call and no other worker takes it away.
LeaseIsExclusive ==
  \A w \in Workers :
    LET j == work[w].job IN
    (j # NoJob /\ now < work[w].since + PolicyOf(jobs[j].kind).lease) => Owns(w)

\* A job is parked exactly while its checkpoint is waiting, whichever of the
\* four ways out of the wait is taken, and whatever interleaves with it.
ParkedIffWaiting ==
  \A j \in JobId :
    jobs[j].status = "awaiting_human_checkpoint" <=> human[j].state = "waiting"

\* Dead-letter rows and dead-lettered jobs correspond, across reports,
\* lease recovery and the claim scan.
DeadLetterIffBuried ==
  \A j \in JobId : j \in deadLetters <=> jobs[j].status = "dead_lettered"

\* A job that can be claimed still has an attempt to spend or a resumption to
\* serve, so the scan's attempt_limit_reached branch is never taken.
ClaimableHasBudget ==
  \A j \in JobId : jobs[j].status \in Claimable => HasBudget(jobs[j])

\* Attempts are counted when a lease is granted: a job that has been leased
\* has spent one, resumptions spend none, and no job, in whatever status it
\* ends, has spent more than its policy allows (CollectionJob.__post_init__).
AttemptsCounted ==
  \A j \in JobId :
    /\ jobs[j].attempt <= PolicyOf(jobs[j].kind).maxAttempts
    /\ jobs[j].status \in {"running", "awaiting_human_checkpoint"}
         => jobs[j].attempt > 0 /\ ~jobs[j].resume
    /\ (jobs[j].status \in Claimable /\ jobs[j].resume) => jobs[j].attempt > 0

\* A row has a lease owner exactly while it runs.
RunningIffOwned ==
  \A j \in JobId : jobs[j].status = "running" <=> jobs[j].owner # NoWorker

\* At most one job of a source is active at any time.
SingleFlight ==
  \A j, k \in JobId :
    (SourceOf(j) = SourceOf(k) /\ jobs[j].status \in Active /\ jobs[k].status \in Active)
      => j = k

\* No two workers collect from one source under leases that are both valid.
NoConcurrentCollection ==
  \A v, w \in Workers :
    (/\ v # w
     /\ work[v].job # NoJob /\ Owns(v) /\ LeaseValid(v, now)
     /\ work[w].job # NoJob /\ Owns(w) /\ LeaseValid(w, now))
      => SourceOf(work[v].job) # SourceOf(work[w].job)

\* The worker that may still commit works from the cursor that is stored.
HolderIsCurrent ==
  \A w \in Workers :
    (work[w].job # NoJob /\ Owns(w)) => work[w].base = cursors[SourceOf(work[w].job)]

\* A cursor only ever moves by one version, from the version that the worker
\* moving it read when it claimed its job: no completed collection overwrites
\* progress it has not seen.
NoLostUpdate ==
  [][\A s \in Sources :
       cursors'[s] # cursors[s] =>
         /\ cursors'[s] = cursors[s] + 1
         /\ \E w \in Workers : /\ work[w].job # NoJob
                               /\ SourceOf(work[w].job) = s
                               /\ work[w].base = cursors[s]
                               /\ work'[w].job = NoJob]_vars

\* A job that has reached a terminal status keeps its row as it is.
TerminalIsFinal ==
  [][\A j \in JobId : jobs[j].status \in Terminal => jobs'[j] = jobs[j]]_vars

\* No job starts to run while the circuit of its source is open and not yet
\* due to reopen, even when the poll that claims it has just opened it.
OpenCircuitBlocksClaims ==
  [][\A j \in JobId :
       (jobs[j].status # "running" /\ jobs'[j].status = "running") =>
         /\ circuits'[SourceOf(j)].state # "open"
         /\ circuits'[SourceOf(j)].reopen <= now]_vars

\* Only a completed collection closes a circuit that has opened; a further
\* failure or an aborted probe never does.
OnlySuccessClosesCircuit ==
  [][\A s \in Sources :
       (circuits[s].state \in {"open", "half_open"} /\ circuits'[s].state = "closed")
         => cursors'[s] = cursors[s] + 1 /\ circuits'[s].failures = 0]_vars

\* Every job that is enqueued settles, however often its workers crash and
\* whatever its circuit does.
EveryJobSettles ==
  \A j \in JobId : (jobs[j].status \in Active) ~> (jobs[j].status \in Terminal)

\* A job whose lease has expired does not stay running.
ExpiredLeaseIsRecovered ==
  \A j \in JobId :
    (jobs[j].status = "running" /\ jobs[j].lease <= now) ~> (jobs[j].status # "running")

-----------------------------------------------------------------------------
(* The queue implements the life cycle of a job                            *)

\* The leases a job may still lose: a lease counts as lost once it is reported
\* or recovered as failed, not while it runs or waits for a human.
LeasesLeft(job) ==
  LET lost == IF job.status \in Claimable /\ ~job.resume THEN job.attempt ELSE job.attempt - 1
  IN IF job.status \in Active THEN PolicyOf(job.kind).maxAttempts - lost ELSE 0

Phase(job) ==
  CASE job.status = "absent" -> "absent"
    [] job.status \in Claimable -> "queued"
    [] job.status = "running" -> "leased"
    [] job.status = "awaiting_human_checkpoint" -> "parked"
    [] OTHER -> "done"

Lifecycle == INSTANCE JobLifecycle WITH
  Ids <- JobId,
  Budgets <- {SchedulePolicy.maxAttempts, PriorityPolicy.maxAttempts},
  life <- [j \in JobId |-> [phase |-> Phase(jobs[j]), left |-> LeasesLeft(jobs[j])]]

\* Parking and resuming spend no attempt, a lost lease spends one, and a job
\* is never retried beyond its budget.
ImplementsLifecycle == Lifecycle!Spec
=============================================================================
