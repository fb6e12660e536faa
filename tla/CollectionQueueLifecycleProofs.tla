-------------------- MODULE CollectionQueueLifecycleProofs --------------------
(***************************************************************************)
(* What one transaction of the collection queue may do to one job and to   *)
(* one circuit, and from that: the queue implements JobLifecycle, terminal *)
(* jobs are final, and an open circuit holds claims back until it is due.  *)
(***************************************************************************)
EXTENDS CollectionQueueProofs

-----------------------------------------------------------------------------
(* One step of one row of collection_jobs                                  *)

\* The policies that jobs carry: without priority refreshes, one only.
PoliciesInUse == IF PriorityRefresh THEN {SchedulePolicy, PriorityPolicy} ELSE {SchedulePolicy}

\* A row is enqueued.
Created(a, b) ==
  /\ a.status = "absent"
  /\ \E kind \in {"schedule", "priority"}, slot \in Nat :
       (kind = "priority" => PriorityRefresh) /\ b = NewJob(kind, slot)

\* A row is leased: an attempt is spent unless it resumes.
Granted(a, b) ==
  /\ a.status \in Claimable /\ b.status = "running"
  /\ b.attempt = IF a.resume THEN a.attempt ELSE a.attempt + 1
  /\ ~b.resume /\ b.kind = a.kind

\* A running row waits for a human, who owes it the attempt it was given.
Paused(a, b) ==
  /\ a.status = "running" /\ b.status = "awaiting_human_checkpoint"
  /\ b.attempt = a.attempt /\ ~b.resume /\ b.kind = a.kind

\* A parked row is to be claimed again, at no cost.
Resumed(a, b) ==
  /\ a.status = "awaiting_human_checkpoint" /\ b.status \in Claimable
  /\ b.attempt = a.attempt /\ b.resume /\ b.kind = a.kind

\* A running row has failed and has attempts left.
Retried(a, b) ==
  /\ a.status = "running" /\ b.status \in Claimable
  /\ MayRetry(a)
  /\ b.attempt = a.attempt /\ b.resume = a.resume /\ b.kind = a.kind

\* A claimable row is put off.
Postponed(a, b) ==
  /\ a.status \in Claimable /\ b.status = a.status
  /\ b.attempt = a.attempt /\ b.resume = a.resume /\ b.kind = a.kind

\* An active row ends; a source that may not execute spends the attempt, too.
Closed(a, b) ==
  /\ a.status \in Active /\ b.status \in Terminal
  /\ \/ b.attempt = a.attempt
     \/ a.status \in Claimable /\ b.attempt = IF a.resume THEN a.attempt ELSE a.attempt + 1
  /\ b.kind = a.kind

RowStep(a, b) == \/ b = a
                 \/ Created(a, b) \/ Granted(a, b) \/ Paused(a, b) \/ Resumed(a, b)
                 \/ Retried(a, b) \/ Postponed(a, b) \/ Closed(a, b)

\* Every row of the queue makes one such step at most.
RowsStep == /\ jobs' = [j \in JobId |-> jobs'[j]]
            /\ \A j \in JobId : RowStep(jobs[j], jobs'[j])

\* The statuses of a row exclude each other.
LEMMA StatusesDiffer ==
  /\ Claimable \subseteq Active /\ Active \cap Terminal = {}
  /\ "absent" \notin Active \cup Terminal
  /\ {"running", "awaiting_human_checkpoint"} \cap Claimable = {}
  /\ {"running", "awaiting_human_checkpoint"} \subseteq Active
  BY DEF Claimable, Active, Terminal

-----------------------------------------------------------------------------
(* What the operators on rows do                                           *)

\* A failure retries a running row later, or buries it.
LEMMA FailedRowSteps ==
  ASSUME NEW job, RowOK(job), job.status = "running", NEW c \in Circuit, NEW t \in Nat,
         NEW retryable \in BOOLEAN
  PROVE  LET failed == FailedJob(job, c, t, retryable) IN
         /\ Retried(job, failed) \/ Closed(job, failed)
         /\ failed.status \in Claimable => failed.available > t
<1> DEFINE failed == FailedJob(job, c, t, retryable)
<1>1. job \in Job /\ job.attempt \in Nat
  BY DEF RowOK, Job
<1>2. CASE retryable /\ MayRetry(job)
  <2> DEFINE delayed == t + RetryDelay(PolicyOf(job.kind), job.attempt)
             due == IF c.state = "open" THEN LargerOf(delayed, c.reopen) ELSE delayed
  <2>1. RetryDelay(PolicyOf(job.kind), job.attempt) \in 1..PolicyOf(job.kind).maxDelay
    BY <1>1, PolicyType, RetryDelayType
  <2>2. delayed \in Nat /\ delayed > t
    BY <2>1, PolicyType DEF Policy
  <2> HIDE DEF delayed
  <2>3. due \in Nat /\ due > t
    BY <2>2 DEF LargerOf, Circuit
  <2>4. failed = [job EXCEPT !.status = "retry_scheduled", !.owner = NoWorker, !.lease = 0,
                             !.available = due]
    BY <1>2 DEF FailedJob, RetryScheduled, delayed
  <2> HIDE DEF due, failed
  <2>5. /\ failed.status = "retry_scheduled" /\ failed.available = due
        /\ failed.attempt = job.attempt /\ failed.resume = job.resume /\ failed.kind = job.kind
    BY <1>1, <2>4 DEF Job
  <2>6. Retried(job, failed)
    BY <1>2, <2>5 DEF Retried, Claimable
  <2> QED
    BY <2>3, <2>5, <2>6 DEF failed
<1>3. CASE ~(retryable /\ MayRetry(job))
  <2>1. failed = [job EXCEPT !.status = "dead_lettered", !.owner = NoWorker, !.lease = 0]
    BY <1>3 DEF FailedJob, DeadLettered
  <2> HIDE DEF failed
  <2>2. /\ failed.status = "dead_lettered"
        /\ failed.attempt = job.attempt /\ failed.kind = job.kind
    BY <1>1, <2>1 DEF Job
  <2>3. Closed(job, failed) /\ failed.status \notin Claimable
    BY <2>2 DEF Closed, Claimable, Active, Terminal
  <2> QED
    BY <2>3 DEF failed
<1> QED
  BY <1>2, <1>3

\* The end of a wait ends the job.
LEMMA CancelledWaitSteps ==
  ASSUME NEW job, RowOK(job), job.status = "awaiting_human_checkpoint"
  PROVE  Closed(job, CancelWaitingJob(job))
<1>1. job \in Job
  BY DEF RowOK
<1>2. /\ CancelWaitingJob(job).status = "cancelled"
      /\ CancelWaitingJob(job).attempt = job.attempt
      /\ CancelWaitingJob(job).kind = job.kind
  BY <1>1 DEF CancelWaitingJob, Job
<1> QED
  BY <1>2 DEF Closed, Active, Terminal

\* The scan postpones a row, or buries it.
LEMMA PassedOverSteps ==
  ASSUME NEW job, RowOK(job), job.status \in Claimable, NEW c, NEW t
  PROVE  LET over == PassedOver(job, c, t) IN Postponed(job, over) \/ Closed(job, over)
<1> DEFINE over == PassedOver(job, c, t)
<1>1. job \in Job
  BY DEF RowOK
<1>2. CASE CircuitAllowsClaim(c, t)
  <2>1. over = [job EXCEPT !.status = "dead_lettered", !.owner = NoWorker, !.lease = 0]
    BY <1>2 DEF PassedOver, DeadLettered
  <2> HIDE DEF over
  <2>2. over.status = "dead_lettered" /\ over.attempt = job.attempt /\ over.kind = job.kind
    BY <1>1, <2>1 DEF Job
  <2>3. Closed(job, over)
    BY <2>2 DEF Closed, Claimable, Active, Terminal
  <2> QED
    BY <2>3 DEF over
<1>3. CASE ~CircuitAllowsClaim(c, t)
  <2>1. PICK due : over = [job EXCEPT !.available = due]
    BY <1>3 DEF PassedOver
  <2> HIDE DEF over
  <2>2. /\ over.status = job.status /\ over.attempt = job.attempt
        /\ over.resume = job.resume /\ over.kind = job.kind
    BY <1>1, <2>1 DEF Job
  <2>3. Postponed(job, over)
    BY <2>2 DEF Postponed
  <2> QED
    BY <2>3 DEF over
<1> QED
  BY <1>2, <1>3

\* A claim grants a lease; what a claim cancels has spent the attempt.
LEMMA ClaimedRowSteps ==
  ASSUME NEW job, RowOK(job), job.status \in Claimable, NEW w \in Workers, NEW t \in Nat
  PROVE  LET c == ClaimedRow(job, w, t) IN
         Granted(job, c) /\ Closed(job, CancelledRow(c)) /\ CancelledRow(c).status = "cancelled"
<1> DEFINE c == ClaimedRow(job, w, t)
           spent == IF job.resume THEN job.attempt ELSE job.attempt + 1
<1>1. job \in Job
  BY DEF RowOK
<1>2. PICK end : c = [job EXCEPT !.status = "running", !.attempt = spent, !.resume = FALSE,
                                 !.owner = w, !.lease = end]
  BY DEF ClaimedRow
<1> HIDE DEF c, spent
<1>3. /\ c.status = "running" /\ c.attempt = spent /\ c.resume = FALSE /\ c.kind = job.kind
      /\ DOMAIN c = DOMAIN job
  BY <1>1, <1>2 DEF Job
<1>4. Granted(job, c)
  BY <1>3 DEF Granted, spent
<1>5. /\ CancelledRow(c).status = "cancelled" /\ CancelledRow(c).attempt = spent
      /\ CancelledRow(c).kind = job.kind
  BY <1>1, <1>2 DEF CancelledRow, Job
<1>6. Closed(job, CancelledRow(c))
  BY <1>5, StatusesDiffer DEF Closed, spent, Terminal
<1> QED
  BY <1>4, <1>5, <1>6 DEF c

\* A report that did not fail ends the job or parks it.
LEMMA ReportedRowSteps ==
  ASSUME NEW job, RowOK(job), job.status = "running"
  PROVE  /\ \A status \in {"succeeded", "not_modified"} : Closed(job, CompletedRow(job, status))
         /\ Paused(job, ParkedRow(job))
<1>1. job \in Job
  BY DEF RowOK
<1>2. ASSUME NEW status \in {"succeeded", "not_modified"}
      PROVE  Closed(job, CompletedRow(job, status))
  <2>1. /\ CompletedRow(job, status).status = status
        /\ CompletedRow(job, status).attempt = job.attempt
        /\ CompletedRow(job, status).kind = job.kind
    BY <1>1 DEF CompletedRow, Job
  <2> QED
    BY <2>1 DEF Closed, Active, Terminal
<1>3. /\ ParkedRow(job).status = "awaiting_human_checkpoint"
      /\ ParkedRow(job).attempt = job.attempt
      /\ ParkedRow(job).resume = FALSE /\ ParkedRow(job).kind = job.kind
  BY <1>1 DEF ParkedRow, Job
<1> QED
  BY <1>2, <1>3 DEF Paused

\* A resumption keeps the attempt.
LEMMA ResumedRowSteps ==
  ASSUME NEW job, RowOK(job), job.status = "awaiting_human_checkpoint", NEW t
  PROVE  Resumed(job, ResumedRow(job, t))
<1>1. job \in Job
  BY DEF RowOK
<1>2. /\ ResumedRow(job, t).status = "pending"
      /\ ResumedRow(job, t).attempt = job.attempt
      /\ ResumedRow(job, t).resume = TRUE /\ ResumedRow(job, t).kind = job.kind
  BY <1>1 DEF ResumedRow, Job
<1> QED
  BY <1>2 DEF Resumed, Claimable

-----------------------------------------------------------------------------
(* What happens to one circuit                                             *)

\* Without priority refreshes no job is of the other kind.
KindsInUse == \A j \in JobId : PolicyOf(jobs[j].kind) \in PoliciesInUse

\* A circuit counts failures of jobs, each with the policy of its kind.
Failed(c, d) ==
  \E n \in Nat \ {0}, p \in PoliciesInUse, t \in Nat : d = FailCircuit(c, n, p, t)

\* Failures may be followed by a probe in the same transaction.
CircuitStep(c, d) == \E e : (e = c \/ Failed(c, e)) /\ d \in {e, HalfOpened(e)}

\* Only the completion of a collection does anything else to a circuit.
CircuitsStep ==
  \A s \in Sources :
    \/ CircuitStep(circuits[s], circuits'[s])
    \/ circuits'[s] = ResetCircuit(circuits[s]) /\ cursors'[s] = cursors[s] + 1

\* A circuit that lets claims pass has no time to reopen at, and one that has
\* opened counts the failures its policy asks for.
CircuitInOrder(c) ==
  /\ c.state \in {"none", "closed"} => c.reopen = 0
  /\ c.state \in {"open", "half_open"} => \E p \in PoliciesInUse : p.threshold <= c.failures

CircuitsInOrder == \A s \in Sources : CircuitInOrder(circuits[s])

\* The policies in use are policies.
LEMMA PoliciesInUseType == PoliciesInUse \subseteq Policy /\ PoliciesInUse # {}
  BY SettingsAssumption DEF PoliciesInUse

\* Failures keep a circuit in order.
LEMMA FailCircuitInOrder ==
  ASSUME NEW c \in Circuit, NEW d, Failed(c, d)
  PROVE  d \in Circuit /\ CircuitInOrder(d)
<1> PICK n \in Nat \ {0}, p \in PoliciesInUse, t \in Nat : d = FailCircuit(c, n, p, t)
  BY DEF Failed
<1>1. p \in Policy
  BY PoliciesInUseType
<1>2. d \in Circuit
  BY <1>1, FailCircuitType
<1>3. c.failures \in Nat /\ p.threshold \in Nat
  BY <1>1 DEF Circuit, Policy
<1>4. CASE c.failures + n < p.threshold
  BY <1>2, <1>4 DEF FailCircuit, CircuitInOrder
<1>5. CASE ~(c.failures + n < p.threshold)
  <2>1. d.state = "open" /\ d.failures = c.failures + n
    BY <1>5 DEF FailCircuit
  <2>2. p.threshold <= d.failures
    BY <1>3, <1>5, <2>1
  <2> QED
    BY <1>2, <2>1, <2>2 DEF CircuitInOrder
<1> QED
  BY <1>4, <1>5

\* A probe and a completion keep a circuit in order.
LEMMA OtherCircuitInOrder ==
  ASSUME NEW c \in Circuit, CircuitInOrder(c)
  PROVE  CircuitInOrder(HalfOpened(c)) /\ CircuitInOrder(ResetCircuit(c))
<1>1. CASE c.state \in {"none", "closed"}
  BY <1>1 DEF CircuitInOrder, HalfOpened, ResetCircuit
<1>2. CASE c.state \in {"open", "half_open"}
  <2>1. /\ HalfOpened(c).state = "half_open" /\ HalfOpened(c).failures = c.failures
        /\ ResetCircuit(c).state = "closed" /\ ResetCircuit(c).reopen = 0
    BY <1>2 DEF HalfOpened, ResetCircuit, Circuit
  <2> QED
    BY <1>2, <2>1 DEF CircuitInOrder
<1> QED
  BY <1>1, <1>2 DEF Circuit

\* So does every step of a circuit.
LEMMA CircuitStepInOrder ==
  ASSUME NEW c \in Circuit, CircuitInOrder(c), NEW d, CircuitStep(c, d)
  PROVE  d \in Circuit /\ CircuitInOrder(d)
<1> PICK e : (e = c \/ Failed(c, e)) /\ d \in {e, HalfOpened(e)}
  BY DEF CircuitStep
<1>1. e \in Circuit /\ CircuitInOrder(e)
  BY FailCircuitInOrder
<1> QED
  BY <1>1, OtherCircuitInOrder, OtherCircuitType

\* Lease recovery counts failures, the claim scan probes.
LEMMA PollCircuitsStep ==
  ASSUME Inv, KindsInUse, NEW t \in TxTimes, NEW o, NEW visited, NEW s \in Sources
  PROVE  LET C == CircuitsAfterRecovery(t, o) IN
         /\ C[s] = circuits[s] \/ Failed(circuits[s], C[s])
         /\ CircuitStep(circuits[s], CircuitsAfterScan(C, visited, t)[s])
<1> DEFINE C == CircuitsAfterRecovery(t, o)
           E == {j \in ExpiredLeases(t) : SourceOf(j) = s}
           lastIsPriority == \E j \in E : /\ jobs[j].kind = "priority"
                                          /\ \A k \in E : o[k] <= o[j]
           p == IF lastIsPriority THEN PriorityPolicy ELSE SchedulePolicy
<1>1. C[s] = IF E = {} THEN circuits[s] ELSE FailCircuit(circuits[s], Cardinality(E), p, t)
  BY DEF CircuitsAfterRecovery
<1>2. p \in PoliciesInUse
  <2>1. CASE lastIsPriority
    BY <2>1 DEF KindsInUse, PolicyOf, ExpiredLeases, PoliciesInUse
  <2>2. CASE ~lastIsPriority
    BY <2>2 DEF PoliciesInUse
  <2> QED
    BY <2>1, <2>2
<1>3. E \subseteq JobId
  BY DEF ExpiredLeases
<1>4. E # {} => Cardinality(E) \in Nat \ {0}
  BY <1>3, JobIdFinite, FS_Subset, FS_CardinalityType, FS_EmptySet
<1>5. t \in Nat
  BY TxTimesPast DEF Inv, TypeOK
<1> HIDE DEF p, E
<1>6. C[s] = circuits[s] \/ Failed(circuits[s], C[s])
  BY <1>1, <1>2, <1>4, <1>5 DEF Failed
<1>7. CircuitsAfterScan(C, visited, t)[s] \in {C[s], HalfOpened(C[s])}
  BY DEF CircuitsAfterScan
<1> HIDE DEF C
<1>8. CircuitStep(circuits[s], CircuitsAfterScan(C, visited, t)[s])
  BY <1>6, <1>7 DEF CircuitStep
<1> QED
  BY <1>6, <1>8 DEF C

-----------------------------------------------------------------------------
(* The poll, row by row and circuit by circuit                             *)

\* What recovery and expiry change is not due for a claim in the same poll.
LEMMA RecoverySteps ==
  ASSUME Inv, NEW t \in TxTimes, NEW o, NEW j \in JobId
  PROVE  LET J == JobsAfterRecovery(t, o) IN
         /\ J[j] = jobs[j] \/ Retried(jobs[j], J[j]) \/ Closed(jobs[j], J[j])
         /\ j \in Scanned(J, t) => J[j] = jobs[j]
<1> DEFINE J == JobsAfterRecovery(t, o)
<1>1. RowOK(jobs[j]) /\ t \in Nat
  BY InvRows, TxTimesPast DEF Inv, TypeOK
<1>2. CASE j \in ExpiredLeases(t)
  <2> DEFINE c == FailCircuit(circuits[SourceOf(j)], FailuresUpTo(j, t, o),
                              PolicyOf(jobs[j].kind), t)
  <2>1. c \in Circuit
    BY <1>1, JobIdType, PolicyType, FailuresUpToType, FailCircuitType DEF Inv, TypeOK
  <2>2. J[j] = FailedJob(jobs[j], c, t, TRUE) /\ jobs[j].status = "running"
    BY <1>2 DEF JobsAfterRecovery, RecoveredJob, ExpiredLeases
  <2> HIDE DEF c, J
  <2>3. /\ Retried(jobs[j], J[j]) \/ Closed(jobs[j], J[j])
        /\ J[j].status \in Claimable => J[j].available > t
    BY <1>1, <2>1, <2>2, FailedRowSteps
  <2>4. RowOK(J[j])
    BY RecoveryOK DEF J
  <2>5. j \notin Scanned(J, t)
    BY <1>1, <2>3, <2>4 DEF Scanned, RowOK, Job
  <2> QED
    BY <2>3, <2>5 DEF J
<1>3. CASE j \in CheckpointsDue(t)
  <2>1. jobs[j].status = "awaiting_human_checkpoint" /\ J[j].status = "cancelled"
    BY <1>3, RecoveryOK
  <2>2. J[j] = CancelWaitingJob(jobs[j])
    BY <1>3, <2>1 DEF JobsAfterRecovery, ExpiredLeases
  <2> HIDE DEF J
  <2>3. Closed(jobs[j], J[j])
    BY <1>1, <2>1, <2>2, CancelledWaitSteps
  <2>4. j \notin Scanned(J, t)
    BY <2>1 DEF Scanned, Claimable
  <2> QED
    BY <2>3, <2>4 DEF J
<1>4. CASE j \notin ExpiredLeases(t) \cup CheckpointsDue(t)
  BY <1>4, RecoveryOK
<1> QED
  BY <1>2, <1>3, <1>4

\* The scan acts on rows the poll has not changed before, and starts none.
LEMMA ScanSteps ==
  ASSUME Inv, NEW t \in TxTimes, NEW o, NEW j \in JobId,
         NEW passed, passed \subseteq Scanned(JobsAfterRecovery(t, o), t)
  PROVE  LET J == JobsAfterRecovery(t, o)
             K == JobsAfterScan(J, CircuitsAfterRecovery(t, o), passed, t)
         IN /\ RowStep(jobs[j], K[j])
            /\ K[j].status = "running" => jobs[j].status = "running"
<1> DEFINE J == JobsAfterRecovery(t, o)
           C == CircuitsAfterRecovery(t, o)
           K == JobsAfterScan(J, C, passed, t)
<1>1. CASE j \notin passed
  <2>1. K[j] = J[j]
    BY <1>1 DEF JobsAfterScan
  <2>2. J[j] = jobs[j] \/ Retried(jobs[j], J[j]) \/ Closed(jobs[j], J[j])
    BY RecoverySteps
  <2> HIDE DEF J, K
  <2> QED
    BY <2>1, <2>2, StatusesDiffer DEF RowStep, Retried, Closed, J, K
<1>2. CASE j \in passed
  <2>1. J[j] = jobs[j] /\ jobs[j].status \in Claimable /\ RowOK(jobs[j])
    BY <1>2, RecoverySteps, InvRows DEF Scanned
  <2>2. K[j] = PassedOver(J[j], C[SourceOf(j)], t)
    BY <1>2 DEF JobsAfterScan
  <2> HIDE DEF J, C, K
  <2>3. Postponed(jobs[j], K[j]) \/ Closed(jobs[j], K[j])
    BY <2>1, <2>2, PassedOverSteps
  <2> QED
    BY <2>1, <2>3, StatusesDiffer DEF RowStep, Postponed, Closed, K, J, C
<1> QED
  BY <1>1, <1>2

-----------------------------------------------------------------------------
(* Every action is made of such steps                                      *)

Ordered == Inv /\ KindsInUse /\ CircuitsInOrder

\* A row only starts to run behind a circuit that lets it.
StartsAreLetThrough ==
  \A j \in JobId :
    (jobs[j].status # "running" /\ jobs'[j].status = "running") =>
      circuits'[SourceOf(j)].state # "open" /\ circuits'[SourceOf(j)].reopen <= now

Stepwise == RowsStep /\ CircuitsStep /\ StartsAreLetThrough

\* A circuit that stays as it is makes a step.
LEMMA CircuitsStay == UNCHANGED circuits => CircuitsStep
  BY DEF CircuitsStep, CircuitStep

\* A poll that claims nothing.
LEMMA PollIdleSteps ==
  ASSUME Ordered, NEW w \in Workers, NEW t \in TxTimes, PollIdle(w, t)
  PROVE  Stepwise
<1> PICK o \in RecoveryOrders(t) :
      LET J == JobsAfterRecovery(t, o)
          C == CircuitsAfterRecovery(t, o)
          passed == Scanned(J, t)
      IN /\ jobs' = JobsAfterScan(J, C, passed, t)
         /\ circuits' = CircuitsAfterScan(C, passed, t)
  BY DEF PollIdle
<1>1. \A j \in JobId : /\ RowStep(jobs[j], jobs'[j])
                       /\ jobs'[j].status = "running" => jobs[j].status = "running"
  BY ScanSteps DEF Ordered
<1>2. jobs' = [j \in JobId |-> jobs'[j]]
  BY DEF JobsAfterScan
<1>3. CircuitsStep
  BY PollCircuitsStep DEF Ordered, CircuitsStep
<1> QED
  BY <1>1, <1>2, <1>3 DEF Stepwise, RowsStep, StartsAreLetThrough

\* A poll that claims a job asks its circuit as recovery has left it.
LEMMA ClaimNextJobSteps ==
  ASSUME Ordered, NEW w \in Workers, NEW t \in TxTimes, ClaimNextJob(w, t)
  PROVE  Stepwise
<1> DEFINE J(o) == JobsAfterRecovery(t, o)
           C(o) == CircuitsAfterRecovery(t, o)
           Claimed(o, pick, passed) ==
             LET K == JobsAfterScan(J(o), C(o), passed, t)
                 claimed == ClaimedRow(K[pick], w, t)
             IN /\ jobs' = [K EXCEPT ![pick] = IF allowed[SourceOf(pick)] THEN claimed
                                               ELSE CancelledRow(claimed)]
                /\ circuits' = CircuitsAfterScan(C(o), passed \cup {pick}, t)
<1> PICK o \in RecoveryOrders(t) : \E pick \in CanClaim(J(o), C(o), t) :
      \E passed \in PassedBefore(J(o), C(o), pick, t) : Claimed(o, pick, passed)
  BY DEF ClaimNextJob
<1> PICK pick \in CanClaim(J(o), C(o), t) :
      \E passed \in PassedBefore(J(o), C(o), pick, t) : Claimed(o, pick, passed)
  OBVIOUS
<1> PICK passed \in PassedBefore(J(o), C(o), pick, t) : Claimed(o, pick, passed)
  OBVIOUS
<1> DEFINE K == JobsAfterScan(J(o), C(o), passed, t)
           claimed == ClaimedRow(K[pick], w, t)
           s == SourceOf(pick)
           D == CircuitsAfterScan(C(o), passed \cup {pick}, t)
<1>1. /\ pick \in Scanned(J(o), t) /\ pick \in JobId /\ pick \notin passed
      /\ passed \subseteq Scanned(J(o), t)
      /\ CircuitAllowsClaim(C(o)[s], t)
      /\ s \in Sources
  BY JobIdType DEF CanClaim, PassedBefore, Scanned
<1>2. \A j \in JobId : /\ RowStep(jobs[j], K[j])
                       /\ K[j].status = "running" => jobs[j].status = "running"
  BY <1>1, ScanSteps DEF Ordered
<1>3. K[pick] = jobs[pick] /\ jobs[pick].status \in Claimable /\ RowOK(jobs[pick])
  <2>1. K[pick] = J(o)[pick]
    BY <1>1 DEF JobsAfterScan
  <2>2. J(o)[pick] = jobs[pick]
    BY <1>1, RecoverySteps DEF Ordered
  <2> QED
    BY <1>1, <2>1, <2>2, InvRows DEF Ordered, Scanned
<1>4. t \in Nat /\ t <= now /\ now \in Nat
  BY TxTimesPast DEF Ordered, Inv, TypeOK
<1>5. K = [j \in JobId |-> K[j]] /\ circuits' = D
  BY DEF JobsAfterScan
<1>6. /\ jobs' = [j \in JobId |-> jobs'[j]]
      /\ jobs'[pick] = IF allowed[s] THEN claimed ELSE CancelledRow(claimed)
      /\ \A j \in JobId \ {pick} : jobs'[j] = K[j]
  BY <1>1, <1>5
<1>7. C(o)[s] \in Circuit /\ CircuitInOrder(C(o)[s])
  <2>1. circuits[s] \in Circuit /\ CircuitInOrder(circuits[s])
    BY <1>1 DEF Ordered, Inv, TypeOK, CircuitsInOrder
  <2>2. C(o)[s] = circuits[s] \/ Failed(circuits[s], C(o)[s])
    BY <1>1, PollCircuitsStep DEF Ordered
  <2> QED
    BY <2>1, <2>2, FailCircuitInOrder
<1>8. D[s] = HalfOpened(C(o)[s])
  BY <1>1 DEF CircuitsAfterScan
<1>9. CircuitsStep
  BY <1>5, PollCircuitsStep DEF Ordered, CircuitsStep
<1> HIDE DEF J, C, K, D
<1>10. /\ Granted(jobs[pick], claimed)
       /\ Closed(jobs[pick], CancelledRow(claimed))
  BY <1>3, <1>4, ClaimedRowSteps
<1> HIDE DEF claimed
<1>11. RowsStep
  <2>1. RowStep(jobs[pick], jobs'[pick])
    BY <1>6, <1>10 DEF RowStep
  <2> QED
    BY <1>2, <1>6, <2>1 DEF RowsStep
<1>12. D[s].state # "open" /\ D[s].reopen <= now
  <2> DEFINE c == C(o)[s]
  <2>1. /\ c \in Circuit /\ CircuitInOrder(c) /\ CircuitAllowsClaim(c, t) /\ D[s] = HalfOpened(c)
    BY <1>1, <1>7, <1>8
  <2> HIDE DEF c
  <2>2. CASE c.state \in {"none", "closed"}
    BY <1>4, <2>1, <2>2 DEF CircuitInOrder, HalfOpened
  <2>3. CASE c.state \notin {"none", "closed"}
    <3>1. c.reopen <= t /\ c.reopen \in Nat
      BY <2>1, <2>3 DEF CircuitAllowsClaim, Circuit
    <3>2. D[s].state = "half_open" /\ D[s].reopen = c.reopen
      BY <2>1, <2>3 DEF HalfOpened, Circuit
    <3> QED
      BY <1>4, <3>1, <3>2
  <2> QED
    BY <2>2, <2>3
<1>13. StartsAreLetThrough
  BY <1>2, <1>5, <1>6, <1>12 DEF StartsAreLetThrough
<1> QED
  BY <1>9, <1>11, <1>13 DEF Stepwise

\* Enqueueing creates rows of the producer's kind.
LEMMA EnqueueSteps ==
  ASSUME NEW kind \in {"schedule", "priority"}, kind = "priority" => PriorityRefresh,
         NEW ids, Enqueue(kind, ids), UNCHANGED circuits
  PROVE  Stepwise
<1>1. ASSUME NEW j \in JobId PROVE jobs'[j] = jobs[j] \/ Created(jobs[j], jobs'[j])
  BY JobIdType DEF Enqueue, Created
<1>2. \A a, b : Created(a, b) => b.status = "pending"
  BY NewJobOK DEF Created
<1>3. StartsAreLetThrough
  BY <1>1, <1>2 DEF StartsAreLetThrough
<1>4. RowsStep
  BY <1>1 DEF RowsStep, RowStep, Enqueue
<1> QED
  BY <1>3, <1>4, CircuitsStay DEF Stepwise

\* A step that moves one row, to a status other than running.
LEMMA OneRowSteps ==
  ASSUME TypeOK, NEW j \in JobId, NEW row, jobs' = [jobs EXCEPT ![j] = row],
         RowStep(jobs[j], row), row.status # "running"
  PROVE  RowsStep /\ StartsAreLetThrough
<1>1. \A i \in JobId : jobs'[i] = IF i = j THEN row ELSE jobs[i]
  BY DEF TypeOK
<1>2. jobs' = [i \in JobId |-> jobs'[i]]
  BY DEF TypeOK
<1>3. RowsStep
  BY <1>1, <1>2 DEF RowsStep, RowStep
<1>4. StartsAreLetThrough
  BY <1>1 DEF StartsAreLetThrough
<1> QED
  BY <1>3, <1>4

\* A step that leaves rows and circuits alone.
LEMMA QuietSteps ==
  ASSUME TypeOK, UNCHANGED <<jobs, circuits>>
  PROVE  Stepwise
<1>1. jobs' = [j \in JobId |-> jobs'[j]]
  BY DEF TypeOK
<1> QED
  BY <1>1, CircuitsStay DEF Stepwise, RowsStep, RowStep, StartsAreLetThrough

\* A completion resets the circuit as it moves the cursor.
LEMMA CompleteJobSteps ==
  ASSUME Ordered, NEW w \in Workers, NEW t \in TxTimes, CompleteJob(w, t)
  PROVE  Stepwise
<1> DEFINE j == work[w].job
<1>1. j \in JobId /\ SourceOf(j) \in Sources /\ jobs[j].status = "running" /\ RowOK(jobs[j])
  BY InvRows, JobIdType DEF CompleteJob, Ordered, Inv, TypeOK, Work, Owns
<1>2. PICK status \in {"succeeded", "not_modified"} :
        jobs' = [jobs EXCEPT ![j] = CompletedRow(jobs[j], status)]
  BY DEF CompleteJob
<1>3. Closed(jobs[j], CompletedRow(jobs[j], status))
  BY <1>1, ReportedRowSteps
<1>4. RowsStep /\ StartsAreLetThrough
  BY <1>1, <1>2, <1>3, StatusesDiffer, OneRowSteps
    DEF RowStep, Closed, Terminal, Ordered, Inv
<1>5. /\ cursors' = [cursors EXCEPT ![SourceOf(j)] = @ + 1]
      /\ circuits' = [circuits EXCEPT ![SourceOf(j)] = ResetCircuit(@)]
  BY DEF CompleteJob
<1>6. ASSUME NEW s \in Sources
      PROVE  \/ circuits'[s] = circuits[s]
             \/ circuits'[s] = ResetCircuit(circuits[s]) /\ cursors'[s] = cursors[s] + 1
  BY <1>1, <1>5 DEF Ordered, Inv, TypeOK
<1>7. CircuitsStep
  BY <1>6 DEF CircuitsStep, CircuitStep
<1> QED
  BY <1>4, <1>7 DEF Stepwise

\* A failure counts once in the circuit of its source.
LEMMA RecordFailureSteps ==
  ASSUME Ordered, NEW w \in Workers, NEW t \in TxTimes, NEW retryable \in BOOLEAN,
         work[w].job # NoJob, Owns(w), RecordFailure(w, t, retryable)
  PROVE  Stepwise
<1> DEFINE j == work[w].job
           p == PolicyOf(jobs[j].kind)
           c == FailCircuit(circuits[SourceOf(j)], 1, p, t)
<1>1. /\ j \in JobId /\ SourceOf(j) \in Sources
      /\ jobs[j].status = "running" /\ RowOK(jobs[j])
  BY InvRows, JobIdType DEF Ordered, Inv, TypeOK, Work, Owns
<1>2. t \in Nat /\ p \in PoliciesInUse /\ circuits[SourceOf(j)] \in Circuit
  BY <1>1, TxTimesPast DEF Ordered, Inv, TypeOK, KindsInUse
<1>3. /\ jobs' = [jobs EXCEPT ![j] = FailedJob(jobs[j], c, t, retryable)]
      /\ circuits' = [circuits EXCEPT ![SourceOf(j)] = c]
  BY DEF RecordFailure
<1>4. Failed(circuits[SourceOf(j)], c)
  BY <1>2 DEF Failed
<1>5. c \in Circuit
  BY <1>2, <1>4, FailCircuitInOrder
<1> HIDE DEF c
<1>6. \/ Retried(jobs[j], FailedJob(jobs[j], c, t, retryable))
      \/ Closed(jobs[j], FailedJob(jobs[j], c, t, retryable))
  BY <1>1, <1>2, <1>5, FailedRowSteps
<1>7. RowsStep /\ StartsAreLetThrough
  BY <1>1, <1>3, <1>6, StatusesDiffer, OneRowSteps
    DEF RowStep, Retried, Closed, Ordered, Inv, Claimable, Terminal
<1>8. CircuitsStep
  <2>1. \A s \in Sources : circuits'[s] = circuits[s] \/ Failed(circuits[s], circuits'[s])
    BY <1>1, <1>3, <1>4 DEF Ordered, Inv, TypeOK
  <2> QED
    BY <2>1 DEF CircuitsStep, CircuitStep
<1> QED
  BY <1>7, <1>8 DEF Stepwise

\* A pause parks the row, or buries it with an expired checkpoint.
LEMMA PauseForHumanSteps ==
  ASSUME Ordered, NEW w \in Workers, NEW t \in TxTimes, PauseForHuman(w, t)
  PROVE  Stepwise
<1> DEFINE j == work[w].job
<1>1. work[w].job # NoJob /\ Owns(w)
  BY DEF PauseForHuman
<1>2. j \in JobId /\ jobs[j].status = "running" /\ RowOK(jobs[j])
  BY <1>1, InvRows DEF Ordered, Inv, TypeOK, Work, Owns
<1>3. CASE RecordFailure(w, t, FALSE)
  BY <1>1, <1>3, RecordFailureSteps
<1>4. CASE jobs' = [jobs EXCEPT ![j] = ParkedRow(jobs[j])] /\ UNCHANGED circuits
  <2>1. Paused(jobs[j], ParkedRow(jobs[j]))
    BY <1>2, ReportedRowSteps
  <2>2. RowsStep /\ StartsAreLetThrough
    BY <1>2, <1>4, <2>1, OneRowSteps DEF RowStep, Paused, Ordered, Inv
  <2> QED
    BY <1>4, <2>2, CircuitsStay DEF Stepwise
<1> QED
  BY <1>3, <1>4 DEF PauseForHuman

\* A human's answer makes a parked row claimable again.
LEMMA ResumeCheckpointSteps ==
  ASSUME Ordered, NEW j \in JobId, NEW t \in TxTimes, ResumeCheckpoint(j, t)
  PROVE  Stepwise
<1>1. RowOK(jobs[j]) /\ jobs[j].status = "awaiting_human_checkpoint"
  BY InvRows DEF Ordered, ResumeCheckpoint
<1>2. Resumed(jobs[j], ResumedRow(jobs[j], t))
  BY <1>1, ResumedRowSteps
<1>3. jobs' = [jobs EXCEPT ![j] = ResumedRow(jobs[j], t)] /\ UNCHANGED circuits
  BY DEF ResumeCheckpoint
<1>4. RowsStep /\ StartsAreLetThrough
  BY <1>2, <1>3, StatusesDiffer, OneRowSteps DEF RowStep, Resumed, Ordered, Inv
<1> QED
  BY <1>3, <1>4, CircuitsStay DEF Stepwise

\* Closing checkpoints ends the jobs parked on them.
LEMMA CloseSteps ==
  ASSUME Ordered, NEW ids,
         \A i \in ids : i \in JobId /\ human[i].state = "waiting",
         jobs' = [i \in JobId |-> IF i \in ids THEN CancelWaitingJob(jobs[i]) ELSE jobs[i]],
         UNCHANGED circuits
  PROVE  Stepwise
<1>1. ASSUME NEW i \in JobId PROVE jobs'[i] = jobs[i] \/ Closed(jobs[i], jobs'[i])
  <2>1. CASE i \in ids
    <3>1. RowOK(jobs[i]) /\ jobs[i].status = "awaiting_human_checkpoint"
      BY <2>1, InvRows DEF Ordered, Inv, ParkedIffWaiting
    <3> QED
      BY <2>1, <3>1, CancelledWaitSteps
  <2>2. CASE i \notin ids
    BY <2>2
  <2> QED
    BY <2>1, <2>2
<1>2. RowsStep
  BY <1>1 DEF RowsStep, RowStep
<1>3. StartsAreLetThrough
  BY <1>1 DEF StartsAreLetThrough, Closed, Terminal
<1> QED
  BY <1>2, <1>3, CircuitsStay DEF Stepwise

\* Every transaction moves each row and each circuit by one step at most.
LEMMA NextSteps == Ordered /\ [Next]_vars => Stepwise
<1> SUFFICES ASSUME Ordered, [Next]_vars PROVE Stepwise
  OBVIOUS
<1>0. TypeOK
  BY DEF Ordered, Inv
<1>1. ASSUME NEW t \in TxTimes, ScheduleDueJobs(t) PROVE Stepwise
  BY <1>1, EnqueueSteps DEF ScheduleDueJobs
<1>2. ASSUME NEW s \in Sources, NEW t \in TxTimes, RequestPriorityRefresh(s, t)
      PROVE  Stepwise
  BY <1>2, EnqueueSteps DEF RequestPriorityRefresh
<1>3. ASSUME NEW w \in Workers, Poll(w) PROVE Stepwise
  BY <1>3, PollIdleSteps, ClaimNextJobSteps DEF Poll
<1>4. ASSUME NEW w \in Workers, Report(w) PROVE Stepwise
  <2>1. ASSUME NEW t \in TxTimes, CompleteJob(w, t) PROVE Stepwise
    BY <2>1, CompleteJobSteps
  <2>2. ASSUME NEW t \in TxTimes, FailJob(w, t) \/ FailWithPartialProgress(w, t)
        PROVE  Stepwise
    BY <2>2, RecordFailureSteps DEF FailJob, FailWithPartialProgress
  <2>3. ASSUME NEW t \in TxTimes, PauseForHuman(w, t) PROVE Stepwise
    BY <2>3, PauseForHumanSteps
  <2>4. ASSUME NEW t \in TxTimes, LoseLease(w, t) PROVE Stepwise
    BY <1>0, <2>4, QuietSteps DEF LoseLease
  <2>5. CASE CrashAndRestart(w)
    BY <1>0, <2>5, QuietSteps DEF CrashAndRestart
  <2> QED
    BY <1>4, <2>1, <2>2, <2>3, <2>4, <2>5 DEF Report, ReportTimes
<1>5. ASSUME NEW s \in Sources, InvalidateCheckpointsForIdentity(s) PROVE Stepwise
  BY <1>5, CloseSteps DEF InvalidateCheckpointsForIdentity
<1>6. ASSUME NEW j \in JobId, NEW t \in TxTimes, ResumeCheckpoint(j, t) PROVE Stepwise
  BY <1>6, ResumeCheckpointSteps
<1>7. ASSUME NEW j \in JobId, CancelCheckpoint(j) PROVE Stepwise
  <2>1. jobs' = [i \in JobId |-> IF i \in {j} THEN CancelWaitingJob(jobs[i]) ELSE jobs[i]]
    BY <1>0, <1>7 DEF CancelCheckpoint, TypeOK
  <2> QED
    BY <1>7, <2>1, CloseSteps DEF CancelCheckpoint
<1>8. CASE (\E s \in Sources : ToggleExecution(s)) \/ Tick \/ UNCHANGED vars
  BY <1>0, <1>8, QuietSteps DEF ToggleExecution, Tick, vars
<1> QED
  BY <1>1, <1>2, <1>3, <1>4, <1>5, <1>6, <1>7, <1>8 DEF Next, ControlPlane

-----------------------------------------------------------------------------
(* The invariant of steps                                                  *)

\* AttemptsCounted for one row.
AttemptCounted(job) ==
  /\ job.attempt <= PolicyOf(job.kind).maxAttempts
  /\ job.status \in {"running", "awaiting_human_checkpoint"} => job.attempt > 0 /\ ~job.resume
  /\ (job.status \in Claimable /\ job.resume) => job.attempt > 0

Counted == Ordered /\ AttemptsCounted

\* A new job has spent nothing.
LEMMA NewJobCounted ==
  \A kind, slot : /\ AttemptCounted(NewJob(kind, slot))
                  /\ NewJob(kind, slot).kind = kind /\ NewJob(kind, slot).attempt = 0
                  /\ NewJob(kind, slot).status = "pending" /\ ~NewJob(kind, slot).resume
<1> SUFFICES ASSUME NEW kind, NEW slot
             PROVE  /\ AttemptCounted(NewJob(kind, slot))
                    /\ NewJob(kind, slot).kind = kind /\ NewJob(kind, slot).attempt = 0
                    /\ NewJob(kind, slot).status = "pending" /\ ~NewJob(kind, slot).resume
  OBVIOUS
<1>1. PolicyOf(kind).maxAttempts \in Nat
  BY PolicyType DEF Policy
<1> QED
  BY <1>1 DEF NewJob, AttemptCounted, Claimable

\* No step of a row spends more attempts than the row has.
LEMMA RowStepCounted ==
  ASSUME NEW a, RowOK(a), AttemptCounted(a), NEW b, RowStep(a, b)
  PROVE  AttemptCounted(b)
<1>1. a \in Job /\ a.attempt \in Nat /\ PolicyOf(a.kind).maxAttempts \in Nat
  BY PolicyType DEF RowOK, Job, Policy
<1>2. CASE Created(a, b)
  BY <1>2, NewJobCounted DEF Created
<1>3. CASE Granted(a, b) \/ Closed(a, b)
  <2>1. a.status \in Claimable =>
          (IF a.resume THEN a.attempt ELSE a.attempt + 1)
            \in 1..PolicyOf(a.kind).maxAttempts
    BY <1>1 DEF RowOK, HasBudget, AttemptCounted
  <2>2. CASE Granted(a, b)
    BY <1>1, <2>1, <2>2, StatusesDiffer DEF Granted, AttemptCounted, Claimable
  <2>3. CASE Closed(a, b)
    <3>1. b.attempt <= PolicyOf(b.kind).maxAttempts
      BY <1>1, <2>1, <2>3 DEF Closed, AttemptCounted
    <3> QED
      BY <2>3, <3>1, StatusesDiffer DEF Closed, AttemptCounted
  <2> QED
    BY <1>3, <2>2, <2>3
<1>4. CASE Paused(a, b) \/ Resumed(a, b) \/ Retried(a, b) \/ Postponed(a, b)
  BY <1>1, <1>4, StatusesDiffer
    DEF Paused, Resumed, Retried, Postponed, AttemptCounted, Claimable
<1> QED
  BY <1>2, <1>3, <1>4 DEF RowStep

\* No step brings in a policy that was not in use.
LEMMA RowStepKind ==
  ASSUME NEW a, NEW b, PolicyOf(a.kind) \in PoliciesInUse, RowStep(a, b)
  PROVE  PolicyOf(b.kind) \in PoliciesInUse
<1>1. CASE Created(a, b)
  BY <1>1, NewJobCounted DEF Created, PolicyOf, PoliciesInUse
<1>2. CASE ~Created(a, b)
  BY <1>2 DEF RowStep, Granted, Paused, Resumed, Retried, Postponed, Closed
<1> QED
  BY <1>1, <1>2

\* Every transaction keeps the invariant.
LEMMA CountedNext == Counted /\ [Next]_vars => Counted' /\ Stepwise
<1> SUFFICES ASSUME Counted, [Next]_vars PROVE Counted' /\ Stepwise
  OBVIOUS
<1>1. Stepwise
  BY NextSteps DEF Counted
<1>2. Inv'
  BY NextInv DEF Counted, Ordered
<1>3. \A j \in JobId : RowOK(jobs[j]) /\ AttemptCounted(jobs[j]) /\ RowStep(jobs[j], jobs'[j])
  BY <1>1, InvRows DEF Counted, Ordered, AttemptsCounted, AttemptCounted, Stepwise, RowsStep
<1>4. AttemptsCounted'
  <2>1. \A j \in JobId : AttemptCounted(jobs'[j])
    BY <1>3, RowStepCounted
  <2> QED
    BY <2>1 DEF AttemptsCounted, AttemptCounted
<1>5. KindsInUse'
  BY <1>3, RowStepKind DEF KindsInUse, Counted, Ordered
<1>6. CircuitsInOrder'
  <2> SUFFICES ASSUME NEW s \in Sources PROVE CircuitInOrder(circuits'[s])
    BY DEF CircuitsInOrder
  <2>1. circuits[s] \in Circuit /\ CircuitInOrder(circuits[s])
    BY DEF Counted, Ordered, Inv, TypeOK, CircuitsInOrder
  <2>2. CircuitStep(circuits[s], circuits'[s]) \/ circuits'[s] = ResetCircuit(circuits[s])
    BY <1>1 DEF Stepwise, CircuitsStep
  <2> QED
    BY <2>1, <2>2, CircuitStepInOrder, OtherCircuitInOrder
<1> QED
  BY <1>1, <1>2, <1>4, <1>5, <1>6 DEF Counted, Ordered

\* The empty queue satisfies it.
LEMMA CountedInit == Init => Counted
<1> SUFFICES ASSUME Init PROVE Counted
  OBVIOUS
<1>1. Inv
  BY InitInv
<1>2. \A j \in JobId : jobs[j] = NoRow
  BY DEF Init
<1>3. AttemptsCounted
  <2>1. PolicyOf("schedule").maxAttempts \in Nat
    BY PolicyType DEF Policy
  <2> QED
    BY <1>2, <2>1 DEF AttemptsCounted, NoRow, Claimable
<1>4. KindsInUse
  BY <1>2 DEF KindsInUse, NoRow, PolicyOf, PoliciesInUse
<1>5. CircuitsInOrder
  BY DEF Init, CircuitsInOrder, CircuitInOrder
<1> QED
  BY <1>1, <1>3, <1>4, <1>5 DEF Counted, Ordered

\* The invariant that the refinement and the circuit theorems rest on.
THEOREM CountedInvariance == Spec => []Counted
  BY CountedInit, CountedNext, PTL DEF Spec

\* No job spends more attempts than its policy allows, whatever crashes,
\* retries, pauses and cancellations it goes through, and a job that runs or
\* is parked has spent one.
THEOREM AttemptsAreBounded == Spec => []AttemptsCounted
<1>1. Counted => AttemptsCounted
  BY DEF Counted
<1> QED
  BY <1>1, CountedInvariance, PTL

-----------------------------------------------------------------------------
(* Action properties                                                       *)

\* A report that comes late, a lease recovery or an operator never revives or
\* rewrites a job that has ended.
THEOREM TerminalStays == Spec => TerminalIsFinal
<1>1. ASSUME Counted, [Next]_vars
      PROVE  [\A j \in JobId : jobs[j].status \in Terminal => jobs'[j] = jobs[j]]_vars
  <2> SUFFICES ASSUME NEW j \in JobId, jobs[j].status \in Terminal
               PROVE  jobs'[j] = jobs[j]
    OBVIOUS
  <2>1. RowStep(jobs[j], jobs'[j])
    BY <1>1, CountedNext DEF Stepwise, RowsStep
  <2> QED
    BY <2>1, StatusesDiffer DEF RowStep, Created, Granted, Paused, Resumed, Retried,
                                Postponed, Closed
<1> QED
  BY <1>1, CountedInvariance, PTL DEF Spec, TerminalIsFinal

\* A poll never starts a job behind a circuit that is open and not due, not
\* even when the leases it has recovered itself have opened it.
THEOREM OpenCircuitHolds == Spec => OpenCircuitBlocksClaims
<1>1. ASSUME Counted, [Next]_vars
      PROVE  [\A j \in JobId :
                (jobs[j].status # "running" /\ jobs'[j].status = "running") =>
                  /\ circuits'[SourceOf(j)].state # "open"
                  /\ circuits'[SourceOf(j)].reopen <= now]_vars
  BY <1>1, CountedNext DEF Stepwise, StartsAreLetThrough
<1> QED
  BY <1>1, CountedInvariance, PTL DEF Spec, OpenCircuitBlocksClaims

\* The thresholds of any two kinds of job in use differ by one at most: one
\* more failure than opened a circuit for one kind opens it for the other.
ThresholdsAlike == \A p, q \in PoliciesInUse : q.threshold <= p.threshold + 1

\* Of one kind of job, or of two with such thresholds, a failure never closes
\* a circuit that has opened; only a completed collection does, and it moves
\* the cursor (register_circuit_failure takes the threshold from the job that
\* fails, not from the circuit).
THEOREM SuccessCloses == ThresholdsAlike => (Spec => OnlySuccessClosesCircuit)
<1> SUFFICES ASSUME ThresholdsAlike PROVE Spec => OnlySuccessClosesCircuit
  OBVIOUS
<1>1. ASSUME NEW c \in Circuit, CircuitInOrder(c), c.state \in {"open", "half_open"},
             NEW d, Failed(c, d)
      PROVE  d.state = "open"
  <2> PICK n \in Nat \ {0}, q \in PoliciesInUse, t \in Nat : d = FailCircuit(c, n, q, t)
    BY <1>1 DEF Failed
  <2>1. PICK p \in PoliciesInUse : p.threshold <= c.failures
    BY <1>1 DEF CircuitInOrder
  <2>2. p.threshold \in Nat /\ q.threshold \in Nat /\ c.failures \in Nat
    BY <1>1, PoliciesInUseType DEF Policy, Circuit
  <2>3. q.threshold <= c.failures + n
    BY <2>1, <2>2 DEF ThresholdsAlike
  <2> QED
    BY <2>2, <2>3 DEF FailCircuit
<1>2. ASSUME NEW c \in Circuit, CircuitInOrder(c), c.state \in {"open", "half_open"},
             NEW d, CircuitStep(c, d)
      PROVE  d.state # "closed"
  <2> PICK e : (e = c \/ Failed(c, e)) /\ d \in {e, HalfOpened(e)}
    BY <1>2 DEF CircuitStep
  <2>1. e.state \in {"open", "half_open"} /\ e \in Circuit
    BY <1>1, <1>2, FailCircuitInOrder
  <2> QED
    BY <2>1 DEF HalfOpened, Circuit
<1>3. ASSUME Counted, [Next]_vars
      PROVE  [\A s \in Sources :
                (circuits[s].state \in {"open", "half_open"} /\ circuits'[s].state = "closed")
                  => cursors'[s] = cursors[s] + 1 /\ circuits'[s].failures = 0]_vars
  <2> SUFFICES ASSUME NEW s \in Sources, circuits[s].state \in {"open", "half_open"},
                      circuits'[s].state = "closed"
               PROVE  cursors'[s] = cursors[s] + 1 /\ circuits'[s].failures = 0
    OBVIOUS
  <2>1. circuits[s] \in Circuit /\ CircuitInOrder(circuits[s])
    BY <1>3 DEF Counted, Ordered, Inv, TypeOK, CircuitsInOrder
  <2>2. \/ CircuitStep(circuits[s], circuits'[s])
        \/ circuits'[s] = ResetCircuit(circuits[s]) /\ cursors'[s] = cursors[s] + 1
    BY <1>3, CountedNext DEF Stepwise, CircuitsStep
  <2>3. circuits'[s] = ResetCircuit(circuits[s]) /\ cursors'[s] = cursors[s] + 1
    BY <1>2, <2>1, <2>2
  <2> QED
    BY <2>3 DEF ResetCircuit
<1> QED
  BY <1>3, CountedInvariance, PTL DEF Spec, OnlySuccessClosesCircuit

-----------------------------------------------------------------------------
(* The queue implements the life cycle of a job                            *)

\* A row seen as a life.
Life(job) == [phase |-> Phase(job), left |-> LeasesLeft(job)]

\* The phase of a row and the leases it has left, by status.
LEMMA LifeByStatus ==
  ASSUME NEW job, RowOK(job)
  PROVE  LET max == PolicyOf(job.kind).maxAttempts IN
         /\ max \in {SchedulePolicy.maxAttempts, PriorityPolicy.maxAttempts} /\ max \in Nat \ {0}
         /\ job.status = "absent" => Life(job) = [phase |-> "absent", left |-> 0]
         /\ job.status \in Claimable =>
              Life(job) = [phase |-> "queued",
                           left |-> IF job.resume THEN max - (job.attempt - 1)
                                                  ELSE max - job.attempt]
         /\ job.status = "running" =>
              Life(job) = [phase |-> "leased", left |-> max - (job.attempt - 1)]
         /\ job.status = "awaiting_human_checkpoint" =>
              Life(job) = [phase |-> "parked", left |-> max - (job.attempt - 1)]
         /\ job.status \in Terminal => Life(job) = [phase |-> "done", left |-> 0]
<1>1. job \in Job /\ job.resume \in BOOLEAN
  BY DEF RowOK, Job
<1>2. /\ PolicyOf(job.kind).maxAttempts \in
            {SchedulePolicy.maxAttempts, PriorityPolicy.maxAttempts}
      /\ PolicyOf(job.kind).maxAttempts \in Nat \ {0}
  BY PolicyType DEF PolicyOf, Policy
<1>3. job.status = "absent" => Life(job) = [phase |-> "absent", left |-> 0]
  BY DEF Life, Phase, LeasesLeft, Active, Claimable
<1>4. job.status \in Claimable =>
        Life(job) = [phase |-> "queued",
                     left |-> IF job.resume THEN PolicyOf(job.kind).maxAttempts - (job.attempt - 1)
                                            ELSE PolicyOf(job.kind).maxAttempts - job.attempt]
  BY <1>1 DEF Life, Phase, LeasesLeft, Active, Claimable
<1>5. job.status = "running" =>
        Life(job) = [phase |-> "leased",
                     left |-> PolicyOf(job.kind).maxAttempts - (job.attempt - 1)]
  BY DEF Life, Phase, LeasesLeft, Active, Claimable
<1>6. job.status = "awaiting_human_checkpoint" =>
        Life(job) = [phase |-> "parked",
                     left |-> PolicyOf(job.kind).maxAttempts - (job.attempt - 1)]
  BY DEF Life, Phase, LeasesLeft, Active, Claimable
<1>7. job.status \in Terminal => Life(job) = [phase |-> "done", left |-> 0]
  BY DEF Life, Phase, LeasesLeft, Active, Claimable, Terminal
<1> QED
  BY <1>2, <1>3, <1>4, <1>5, <1>6, <1>7

\* A step of a row is a step of the life cycle, or none.
LEMMA RowStepRefines ==
  ASSUME NEW a, RowOK(a), AttemptCounted(a), NEW b, RowOK(b), AttemptCounted(b), RowStep(a, b)
  PROVE  Life(b) = Life(a) \/ Lifecycle!Moves(Life(a), Life(b))
<1> DEFINE max == PolicyOf(a.kind).maxAttempts
           left == max - (a.attempt - 1)
<1> USE DEF Lifecycle!Becomes
<1>1. /\ a.attempt \in Nat /\ max \in Nat \ {0} /\ a.attempt <= max
      /\ a.resume \in BOOLEAN /\ b.attempt \in Nat /\ b.resume \in BOOLEAN
  BY PolicyType DEF RowOK, Job, Policy, AttemptCounted
<1>2. CASE Created(a, b)
  <2>1. b.status = "pending" /\ b.attempt = 0 /\ ~b.resume
    BY <1>2, NewJobCounted DEF Created
  <2>2. PolicyOf(b.kind).maxAttempts \in Nat
    BY PolicyType DEF Policy
  <2>3. Life(b) = [phase |-> "queued", left |-> PolicyOf(b.kind).maxAttempts]
    BY <2>1, <2>2, LifeByStatus DEF Claimable
  <2>4. Life(a).phase = "absent"
    BY <1>2, LifeByStatus DEF Created
  <2>5. Lifecycle!Enqueued(Life(a), Life(b))
    BY <2>3, <2>4, LifeByStatus DEF Lifecycle!Enqueued
  <2> QED
    BY <2>5 DEF Lifecycle!Moves
<1>3. CASE Granted(a, b)
  <2> DEFINE rest == IF a.resume THEN max - (a.attempt - 1) ELSE max - a.attempt
  <2>1. Life(a) = [phase |-> "queued", left |-> rest]
    BY <1>3, LifeByStatus DEF Granted
  <2>2. Life(b) = [phase |-> "leased", left |-> max - (b.attempt - 1)]
    BY <1>3, LifeByStatus DEF Granted
  <2>3. max - (b.attempt - 1) = rest
    BY <1>1, <1>3 DEF Granted
  <2>4. Lifecycle!Leased(Life(a), Life(b))
    BY <2>1, <2>2, <2>3 DEF Lifecycle!Leased
  <2> QED
    BY <2>4 DEF Lifecycle!Moves
<1>4. CASE Paused(a, b)
  <2>1. /\ Life(a) = [phase |-> "leased", left |-> left]
        /\ Life(b) = [phase |-> "parked", left |-> left]
    BY <1>4, LifeByStatus DEF Paused
  <2>2. Lifecycle!Parked(Life(a), Life(b))
    BY <2>1 DEF Lifecycle!Parked
  <2> QED
    BY <2>2 DEF Lifecycle!Moves
<1>5. CASE Resumed(a, b)
  <2>1. /\ Life(a) = [phase |-> "parked", left |-> left]
        /\ Life(b) = [phase |-> "queued", left |-> left]
    BY <1>5, LifeByStatus DEF Resumed
  <2>2. Lifecycle!Unparked(Life(a), Life(b))
    BY <2>1 DEF Lifecycle!Unparked
  <2> QED
    BY <2>2 DEF Lifecycle!Moves
<1>6. CASE Retried(a, b)
  <2>1. Life(a) = [phase |-> "leased", left |-> left]
    BY <1>6, LifeByStatus DEF Retried
  <2>2. ~b.resume
    BY <1>6 DEF Retried, AttemptCounted
  <2>3. Life(b) = [phase |-> "queued", left |-> max - a.attempt]
    BY <1>6, <2>2, LifeByStatus DEF Retried
  <2>4. left > 1 /\ max - a.attempt = left - 1
    BY <1>1, <1>6 DEF Retried, MayRetry
  <2>5. Lifecycle!Requeued(Life(a), Life(b))
    BY <2>1, <2>3, <2>4 DEF Lifecycle!Requeued
  <2> QED
    BY <2>5 DEF Lifecycle!Moves
<1>7. CASE Postponed(a, b)
  <2>1. Life(b) = Life(a)
    BY <1>7, LifeByStatus DEF Postponed
  <2> QED
    BY <2>1
<1>8. CASE Closed(a, b)
  <2>1. Life(b) = [phase |-> "done", left |-> 0]
    BY <1>8, LifeByStatus DEF Closed
  <2>2. Life(a).phase \in {"queued", "leased", "parked"}
    BY <1>8, LifeByStatus DEF Closed, Active
  <2>3. Lifecycle!Ended(Life(a), Life(b))
    BY <2>1, <2>2 DEF Lifecycle!Ended
  <2> QED
    BY <2>3 DEF Lifecycle!Moves
<1> QED
  BY <1>2, <1>3, <1>4, <1>5, <1>6, <1>7, <1>8 DEF RowStep

\* The queue refines JobLifecycle: whatever polls, reports, crashes and
\* operators do to it, a job is enqueued once, pauses and resumptions cost it
\* nothing, every lease it loses costs it one of the budget of its kind, and
\* with the last one it ends.
THEOREM QueueRefinesLifecycle == Spec => ImplementsLifecycle
<1>1. Init => Lifecycle!Init
  <2> SUFFICES ASSUME Init PROVE Lifecycle!Init
    OBVIOUS
  <2>1. ASSUME NEW j \in JobId PROVE Life(jobs[j]) = [phase |-> "absent", left |-> 0]
    BY LifeByStatus, InitInv, InvRows DEF Init, NoRow
  <2> QED
    BY <2>1 DEF Lifecycle!Init, Life
<1>2. Counted /\ [Next]_vars =>
        [Lifecycle!Next]_([j \in JobId |-> [phase |-> Phase(jobs[j]), left |-> LeasesLeft(jobs[j])]])
  <2> SUFFICES ASSUME Counted, [Next]_vars PROVE Lifecycle!Next
    OBVIOUS
  <2>1. Stepwise /\ Counted'
    BY CountedNext
  <2> SUFFICES ASSUME NEW j \in JobId
               PROVE  \/ Life(jobs'[j]) = Life(jobs[j])
                      \/ Lifecycle!Moves(Life(jobs[j]), Life(jobs'[j]))
    BY DEF Lifecycle!Next, Life
  <2>2. RowOK(jobs[j]) /\ AttemptCounted(jobs[j])
    BY InvRows DEF Counted, Ordered, AttemptsCounted, AttemptCounted
  <2>3. RowOK(jobs'[j]) /\ AttemptCounted(jobs'[j])
    <3>1. jobs'[j] \in Job /\ RunningIffOwned' /\ ClaimableHasBudget' /\ AttemptsCounted'
      BY <2>1 DEF Counted, Ordered, Inv, TypeOK
    <3> QED
      BY <3>1 DEF RowOK, RunningIffOwned, ClaimableHasBudget, AttemptsCounted, AttemptCounted
  <2>4. RowStep(jobs[j], jobs'[j])
    BY <2>1 DEF Stepwise, RowsStep
  <2> QED
    BY <2>2, <2>3, <2>4, RowStepRefines
<1> QED
  BY <1>1, <1>2, CountedInvariance, PTL DEF Spec, ImplementsLifecycle, Lifecycle!Spec

-----------------------------------------------------------------------------
(* Without priority refreshes                                              *)

\* Where the scheduler is the only producer, no two workers ever collect from
\* one source under valid leases, as the single-flight check intends: it takes
\* a priority refresh to break the property.
THEOREM CollectionIsExclusive == ~PriorityRefresh => (Spec => []NoConcurrentCollection)
<1> SUFFICES ASSUME ~PriorityRefresh PROVE Spec => []NoConcurrentCollection
  OBVIOUS
<1>1. TypeOK /\ SingleFlight => NoConcurrentCollection
  <2> SUFFICES ASSUME TypeOK, SingleFlight, NEW v \in Workers, NEW w \in Workers, v # w,
                      work[v].job # NoJob, Owns(v), work[w].job # NoJob, Owns(w),
                      SourceOf(work[v].job) = SourceOf(work[w].job)
               PROVE  FALSE
    BY DEF NoConcurrentCollection
  <2>1. work[v].job \in JobId /\ work[w].job \in JobId
    BY DEF TypeOK, Work
  <2>2. work[v].job = work[w].job
    BY <2>1 DEF SingleFlight, Owns, Active
  <2> QED
    BY <2>2 DEF Owns
<1> QED
  BY <1>1, TypeCorrect, OneFlight, PTL

\* No poll inserts the circuit row of a source twice.
PollsCommit ==
  \A t \in TxTimes : \A o \in RecoveryOrders(t) : ~CircuitInsertedTwice(t, o)

\* Nor does a poll then abort in lease recovery: the two expired leases of one
\* source that insert its circuit row twice (register_circuit_failure under
\* autoflush off) never exist together.
THEOREM RecoveryNeverAborts == ~PriorityRefresh => (Spec => []PollsCommit)
<1> SUFFICES ASSUME ~PriorityRefresh PROVE Spec => []PollsCommit
  OBVIOUS
<1>1. TypeOK /\ SingleFlight => PollsCommit
  <2> SUFFICES ASSUME TypeOK, SingleFlight, NEW t \in TxTimes, NEW o \in RecoveryOrders(t),
                      CircuitInsertedTwice(t, o)
               PROVE  FALSE
    BY DEF PollsCommit
  <2> DEFINE E == ExpiredLeases(t)
  <2>1. PICK j \in E, k \in E : SourceOf(j) = SourceOf(k) /\ o[j] < o[k]
    BY DEF CircuitInsertedTwice
  <2>2. j = k
    BY <2>1 DEF SingleFlight, ExpiredLeases, Active
  <2>3. o[j] \in Int
    BY <2>1 DEF RecoveryOrders
  <2> QED
    BY <2>1, <2>2, <2>3
<1> QED
  BY <1>1, TypeCorrect, OneFlight, PTL

\* A circuit row is never removed: with priority refreshes, too, a source whose
\* first failure has been recorded is past the duplicate insert for good.
THEOREM CircuitRowsStay ==
  Spec => [][\A s \in Sources :
               circuits[s].state # "none" => circuits'[s].state # "none"]_vars
<1>1. ASSUME NEW c \in Circuit, c.state # "none", NEW d,
             CircuitStep(c, d) \/ d = ResetCircuit(c)
      PROVE  d.state # "none"
  <2>1. \A e : Failed(c, e) => e.state # "none"
    BY DEF Failed, FailCircuit
  <2>2. \A e : (e = c \/ Failed(c, e)) => e \in Circuit /\ e.state # "none"
    <3>1. \A e : Failed(c, e) => e \in Circuit
      BY FailCircuitInOrder
    <3> QED
      BY <1>1, <2>1, <3>1
  <2>3. \A e \in Circuit : e.state # "none" => HalfOpened(e).state # "none"
    BY DEF HalfOpened, Circuit
  <2> QED
    BY <1>1, <2>2, <2>3 DEF CircuitStep, ResetCircuit
<1>2. ASSUME Counted, [Next]_vars
      PROVE  [\A s \in Sources :
                circuits[s].state # "none" => circuits'[s].state # "none"]_vars
  <2> SUFFICES ASSUME NEW s \in Sources, circuits[s].state # "none"
               PROVE  circuits'[s].state # "none"
    OBVIOUS
  <2>1. circuits[s] \in Circuit
    BY <1>2 DEF Counted, Ordered, Inv, TypeOK
  <2>2. CircuitStep(circuits[s], circuits'[s]) \/ circuits'[s] = ResetCircuit(circuits[s])
    BY <1>2, CountedNext DEF Stepwise, CircuitsStep
  <2> QED
    BY <1>1, <2>1, <2>2
<1> QED
  BY <1>2, CountedInvariance, PTL DEF Spec

=============================================================================
