------------------------ MODULE CollectionQueueProofs ------------------------
(***************************************************************************)
(* Proofs about the collection queue, for any number of sources, workers   *)
(* and slots, any settings and any clock lag.                              *)
(***************************************************************************)
EXTENDS CollectionQueue, FiniteSetTheorems, TLAPS

-----------------------------------------------------------------------------
(* The rows of collection_jobs, one at a time                              *)

RowOK(job) == /\ job \in Job
              /\ job.status = "running" <=> job.owner # NoWorker
              /\ job.status \in Claimable => HasBudget(job)

\* The policies a job may carry.
LEMMA PolicyType == \A kind : PolicyOf(kind) \in Policy
  BY SettingsAssumption DEF PolicyOf

\* Jobs are pairs of a source and a slot, and SQL NULL is none of them.
LEMMA JobIdType ==
  /\ \A j \in JobId : SourceOf(j) \in Sources /\ SlotOf(j) \in Nat
  /\ NoJob \notin JobId
  /\ \A s \in Sources, n \in Slots : /\ <<s, n>> \in JobId
                                     /\ SourceOf(<<s, n>>) = s
                                     /\ SlotOf(<<s, n>>) = n
  BY FiniteAssumption, SettingsAssumption DEF JobId, Slots, SourceOf, SlotOf

\* There are finitely many jobs.
LEMMA JobIdFinite == IsFiniteSet(JobId)
<1>1. IsFiniteSet(Slots)
  BY SettingsAssumption, FS_Interval DEF Slots
<1> QED
  BY <1>1, FiniteAssumption, FS_Product DEF JobId

\* A new job may be claimed.
LEMMA NewJobOK ==
  \A kind \in {"schedule", "priority"}, slot \in Nat :
    RowOK(NewJob(kind, slot)) /\ NewJob(kind, slot).status = "pending"
<1> SUFFICES ASSUME NEW kind \in {"schedule", "priority"}, NEW slot \in Nat
             PROVE  RowOK(NewJob(kind, slot)) /\ NewJob(kind, slot).status = "pending"
  OBVIOUS
<1>1. PolicyOf(kind).maxAttempts \in Nat \ {0}
  BY PolicyType DEF Policy
<1> QED
  BY <1>1, FiniteAssumption DEF RowOK, NewJob, Job, Claimable, Active, Terminal, HasBudget

\* The delay of a retry never exceeds its cap.
LEMMA RetryDelayType ==
  ASSUME NEW p \in Policy, NEW attempt \in Nat
  PROVE  RetryDelay(p, attempt) \in 1..p.maxDelay
<1>1. p.maxDelay \in 1..p.maxDelay
  BY DEF Policy
<1> QED
  BY <1>1 DEF RetryDelay

\* A failure leaves a circuit that is closed, or open until some time.
LEMMA FailCircuitType ==
  ASSUME NEW c \in Circuit, NEW n \in Nat, NEW p \in Policy, NEW t \in Nat
  PROVE  FailCircuit(c, n, p, t) \in Circuit
  BY DEF FailCircuit, Circuit, Policy

\* Success and probes leave a circuit.
LEMMA OtherCircuitType ==
  ASSUME NEW c \in Circuit
  PROVE  ResetCircuit(c) \in Circuit /\ HalfOpened(c) \in Circuit
  BY DEF ResetCircuit, HalfOpened, Circuit

\* What rescheduling or burying leaves of a row.
LEMMA RetryRow ==
  ASSUME NEW job \in Job, NEW available \in Nat
  PROVE  LET r == [job EXCEPT !.status = "retry_scheduled", !.owner = NoWorker, !.lease = 0,
                              !.available = available]
         IN /\ r \in Job /\ r.kind = job.kind /\ r.status = "retry_scheduled"
            /\ r.owner = NoWorker /\ r.attempt = job.attempt
  BY DEF Job, Claimable, Active, Terminal

\* A failed job is retried, with budget left, or buried.
LEMMA FailedJobOK ==
  ASSUME NEW job, RowOK(job), NEW c \in Circuit, NEW t \in Nat, NEW retryable \in BOOLEAN
  PROVE  LET failed == FailedJob(job, c, t, retryable) IN
         /\ RowOK(failed)
         /\ failed.kind = job.kind
         /\ failed.status = IF retryable /\ MayRetry(job) THEN "retry_scheduled"
                            ELSE "dead_lettered"
<1>1. /\ RowOK(DeadLettered(job))
      /\ DeadLettered(job).kind = job.kind
      /\ DeadLettered(job).status = "dead_lettered"
  BY FiniteAssumption DEF RowOK, DeadLettered, Job, Claimable, Active, Terminal
<1>2. ASSUME MayRetry(job)
      PROVE  /\ RowOK(RetryScheduled(job, c, t))
             /\ RetryScheduled(job, c, t).kind = job.kind
             /\ RetryScheduled(job, c, t).status = "retry_scheduled"
  <2> DEFINE delayed == t + RetryDelay(PolicyOf(job.kind), job.attempt)
             due == IF c.state = "open" THEN LargerOf(delayed, c.reopen) ELSE delayed
             retried == RetryScheduled(job, c, t)
  <2>1. job \in Job /\ job.attempt \in Nat
    BY DEF RowOK, Job
  <2>2. delayed \in Nat
    BY <2>1, PolicyType, RetryDelayType DEF Policy
  <2>3. due \in Nat
    BY <2>2 DEF LargerOf, Circuit
  <2>4. retried = [job EXCEPT !.status = "retry_scheduled", !.owner = NoWorker, !.lease = 0,
                              !.available = due]
    BY DEF RetryScheduled
  <2> HIDE DEF due, retried
  <2>5. /\ retried \in Job
        /\ retried.kind = job.kind /\ retried.status = "retry_scheduled"
        /\ retried.owner = NoWorker /\ retried.attempt = job.attempt
    BY <2>1, <2>3, <2>4, RetryRow
  <2>6. HasBudget(retried)
    BY <1>2, <2>5 DEF HasBudget, MayRetry
  <2>7. RowOK(retried)
    BY <2>5, <2>6 DEF RowOK
  <2> QED
    BY <2>5, <2>7 DEF retried
<1> QED
  BY <1>1, <1>2 DEF FailedJob

\* Cancelling a parked job leaves every other job alone.
LEMMA CancelWaitingJobOK ==
  ASSUME NEW job, RowOK(job)
  PROVE  LET c == CancelWaitingJob(job) IN
         /\ RowOK(c)
         /\ c.status = IF job.status = "awaiting_human_checkpoint" THEN "cancelled"
                       ELSE job.status
         /\ c.kind = job.kind
         /\ job.status # "awaiting_human_checkpoint" => c = job
  BY FiniteAssumption DEF RowOK, CancelWaitingJob, Job, Claimable, Active, Terminal

\* A row the claim scan passes over is postponed or buried.
LEMMA PassedOverOK ==
  ASSUME NEW job, RowOK(job), job.status \in Claimable, NEW c \in Circuit, NEW t
  PROVE  /\ RowOK(PassedOver(job, c, t))
         /\ PassedOver(job, c, t).kind = job.kind
         /\ PassedOver(job, c, t).status \in Claimable \cup {"dead_lettered"}
<1>1. CASE CircuitAllowsClaim(c, t)
  BY <1>1, FiniteAssumption DEF PassedOver, RowOK, DeadLettered, Job, Claimable, Active, Terminal
<1>2. CASE ~CircuitAllowsClaim(c, t)
  <2> DEFINE due == LargerOf(job.available, c.reopen)
             passed == PassedOver(job, c, t)
  <2>1. job \in Job /\ job.status \in Claimable /\ due \in Nat
    BY DEF RowOK, LargerOf, Job, Circuit
  <2>2. passed = [job EXCEPT !.available = due]
    BY <1>2 DEF PassedOver
  <2> HIDE DEF due, passed
  <2>3. /\ passed \in Job
        /\ passed.status = job.status /\ passed.owner = job.owner /\ passed.kind = job.kind
        /\ passed.attempt = job.attempt /\ passed.resume = job.resume
    BY <2>1, <2>2 DEF Job
  <2>4. RowOK(passed)
    BY <2>1, <2>3 DEF RowOK, HasBudget
  <2> QED
    BY <2>1, <2>3, <2>4 DEF passed
<1> QED
  BY <1>1, <1>2

\* A claimed row runs for its new owner until the lease it is granted ends.
LEMMA ClaimedRowOK ==
  ASSUME NEW job, RowOK(job), NEW w \in Workers, NEW t \in Nat
  PROVE  LET c == ClaimedRow(job, w, t) IN
         /\ RowOK(c)
         /\ c.status = "running" /\ c.owner = w /\ c.kind = job.kind
         /\ c.lease = t + PolicyOf(job.kind).lease
         /\ RowOK(CancelledRow(c)) /\ CancelledRow(c).status = "cancelled"
<1> DEFINE end == t + PolicyOf(job.kind).lease
           spent == IF job.resume THEN job.attempt ELSE job.attempt + 1
           c == ClaimedRow(job, w, t)
<1>1. job \in Job /\ end \in Nat /\ spent \in Nat
  BY PolicyType DEF RowOK, Job, Policy
<1>2. c = [job EXCEPT !.status = "running", !.attempt = spent, !.resume = FALSE,
                      !.owner = w, !.lease = end]
  BY DEF ClaimedRow
<1>3. w # NoWorker
  BY FiniteAssumption
<1> HIDE DEF end, spent, c
<1>4. /\ c \in Job
      /\ c.status = "running" /\ c.owner = w /\ c.kind = job.kind /\ c.lease = end
  BY <1>1, <1>2 DEF Job, Active
<1>5. RowOK(c)
  BY <1>3, <1>4 DEF RowOK, Claimable
<1>6. RowOK(CancelledRow(c)) /\ CancelledRow(c).status = "cancelled"
  BY <1>4 DEF RowOK, CancelledRow, Job, Claimable, Active, Terminal
<1> QED
  BY <1>4, <1>5, <1>6 DEF c, end

\* A reported row is not owned any more.
LEMMA ReleasedRowOK ==
  ASSUME NEW job, RowOK(job)
  PROVE  /\ \A status \in {"succeeded", "not_modified"} :
              /\ RowOK(CompletedRow(job, status))
              /\ CompletedRow(job, status).status = status
              /\ CompletedRow(job, status).kind = job.kind
         /\ RowOK(ParkedRow(job)) /\ ParkedRow(job).status = "awaiting_human_checkpoint"
         /\ ParkedRow(job).kind = job.kind
<1>1. job \in Job
  BY DEF RowOK
<1>2. ASSUME NEW status \in {"succeeded", "not_modified"}
      PROVE  /\ RowOK(CompletedRow(job, status))
             /\ CompletedRow(job, status).status = status
             /\ CompletedRow(job, status).kind = job.kind
  BY <1>1 DEF RowOK, CompletedRow, Job, Claimable, Active, Terminal
<1>3. /\ RowOK(ParkedRow(job)) /\ ParkedRow(job).status = "awaiting_human_checkpoint"
      /\ ParkedRow(job).kind = job.kind
  BY <1>1 DEF RowOK, ParkedRow, Job, Claimable, Active, Terminal
<1> QED
  BY <1>2, <1>3

\* A resumed job needs no attempt.
LEMMA ResumedRowOK ==
  ASSUME NEW job, RowOK(job), NEW t \in Nat
  PROVE  /\ RowOK(ResumedRow(job, t))
         /\ ResumedRow(job, t).status = "pending"
         /\ ResumedRow(job, t).kind = job.kind
  BY DEF RowOK, ResumedRow, HasBudget, Job, Claimable, Active, Terminal

-----------------------------------------------------------------------------
(* The inductive invariant                                                 *)

\* A worker whose lease has not run out holds it as it was granted.
GrantKept ==
  \A w \in Workers :
    LET j == work[w].job IN
    (j # NoJob /\ now < work[w].since + PolicyOf(jobs[j].kind).lease)
      => Owns(w) /\ jobs[j].lease = work[w].since + PolicyOf(jobs[j].kind).lease

\* Nobody works on a job that was never enqueued.
WorkIsEnqueued ==
  \A w \in Workers : work[w].job # NoJob => jobs[work[w].job].status # "absent"

Inv == /\ TypeOK
       /\ RunningIffOwned
       /\ ClaimableHasBudget
       /\ ParkedIffWaiting
       /\ DeadLetterIffBuried
       /\ GrantKept
       /\ WorkIsEnqueued

\* Under the invariant every row is in order.
LEMMA InvRows ==
  ASSUME Inv
  PROVE  \A j \in JobId : RowOK(jobs[j])
  BY DEF Inv, TypeOK, RunningIffOwned, ClaimableHasBudget, RowOK

\* Clock readings are past times.
LEMMA TxTimesPast == now \in Nat => \A t \in TxTimes : t \in Nat /\ t <= now
  BY DEF TxTimes

\* How many failures of a source lease recovery has counted by some job.
LEMMA FailuresUpToType == \A j, t, o : FailuresUpTo(j, t, o) \in Nat
<1> SUFFICES ASSUME NEW j, NEW t, NEW o PROVE FailuresUpTo(j, t, o) \in Nat
  OBVIOUS
<1> DEFINE F == {k \in ExpiredLeases(t) : SourceOf(k) = SourceOf(j) /\ o[k] <= o[j]}
<1>1. F \subseteq JobId
  BY DEF ExpiredLeases
<1>2. IsFiniteSet(F)
  BY <1>1, JobIdFinite, FS_Subset
<1> QED
  BY <1>2, FS_CardinalityType DEF FailuresUpTo

\* Lease recovery and checkpoint expiry keep every row in order, and touch
\* only expired leases and parked jobs.
LEMMA RecoveryOK ==
  ASSUME Inv, NEW t \in TxTimes, NEW o, NEW j \in JobId
  PROVE  LET row == JobsAfterRecovery(t, o)[j] IN
         /\ RowOK(row) /\ row.kind = jobs[j].kind
         /\ j \in ExpiredLeases(t) => /\ jobs[j].status = "running"
                                     /\ row.status \in {"retry_scheduled", "dead_lettered"}
         /\ j \in CheckpointsDue(t) => /\ jobs[j].status = "awaiting_human_checkpoint"
                                      /\ row.status = "cancelled"
         /\ j \notin ExpiredLeases(t) \cup CheckpointsDue(t) => row = jobs[j]
<1> DEFINE row == JobsAfterRecovery(t, o)[j]
<1>1. RowOK(jobs[j]) /\ t \in Nat
  BY InvRows, TxTimesPast DEF Inv, TypeOK
<1>2. ASSUME j \in ExpiredLeases(t)
      PROVE  /\ RowOK(row) /\ row.kind = jobs[j].kind
             /\ jobs[j].status = "running"
             /\ row.status \in {"retry_scheduled", "dead_lettered"}
  <2> DEFINE c == FailCircuit(circuits[SourceOf(j)], FailuresUpTo(j, t, o),
                              PolicyOf(jobs[j].kind), t)
  <2>1. c \in Circuit
    BY <1>1, JobIdType, PolicyType, FailuresUpToType, FailCircuitType DEF Inv, TypeOK
  <2>2. row = FailedJob(jobs[j], c, t, TRUE)
    BY <1>2 DEF JobsAfterRecovery, RecoveredJob
  <2> HIDE DEF c, row
  <2>3. /\ RowOK(row) /\ row.kind = jobs[j].kind
        /\ row.status \in {"retry_scheduled", "dead_lettered"}
    BY <1>1, <2>1, <2>2, FailedJobOK
  <2> QED
    BY <1>2, <2>3 DEF ExpiredLeases
<1>3. ASSUME j \in CheckpointsDue(t)
      PROVE  /\ RowOK(row) /\ row.kind = jobs[j].kind
             /\ jobs[j].status = "awaiting_human_checkpoint"
             /\ row.status = "cancelled"
  <2>1. jobs[j].status = "awaiting_human_checkpoint"
    BY <1>3 DEF CheckpointsDue, Inv, ParkedIffWaiting
  <2>2. row = CancelWaitingJob(jobs[j])
    BY <1>3, <2>1 DEF JobsAfterRecovery, ExpiredLeases
  <2> QED
    BY <1>1, <2>1, <2>2, CancelWaitingJobOK
<1>4. j \notin ExpiredLeases(t) \cup CheckpointsDue(t) => row = jobs[j]
  BY DEF JobsAfterRecovery
<1> QED
  BY <1>1, <1>2, <1>3, <1>4

\* The circuits that lease recovery and the scan leave behind.
LEMMA PollCircuitsType ==
  ASSUME Inv, NEW t \in TxTimes, NEW o, NEW visited
  PROVE  /\ CircuitsAfterRecovery(t, o) \in [Sources -> Circuit]
         /\ CircuitsAfterScan(CircuitsAfterRecovery(t, o), visited, t) \in [Sources -> Circuit]
<1> DEFINE C == CircuitsAfterRecovery(t, o)
<1>1. t \in Nat
  BY TxTimesPast DEF Inv, TypeOK
<1>2. ASSUME NEW s \in Sources PROVE C[s] \in Circuit
  <2> DEFINE E == {j \in ExpiredLeases(t) : SourceOf(j) = s}
  <2>1. circuits[s] \in Circuit
    BY DEF Inv, TypeOK
  <2>2. E \subseteq JobId
    BY DEF ExpiredLeases
  <2>3. Cardinality(E) \in Nat
    BY <2>2, JobIdFinite, FS_Subset, FS_CardinalityType
  <2>4. \/ C[s] = circuits[s]
        \/ \E p \in Policy : C[s] = FailCircuit(circuits[s], Cardinality(E), p, t)
    BY SettingsAssumption DEF CircuitsAfterRecovery
  <2> QED
    BY <1>1, <2>1, <2>3, <2>4, FailCircuitType
<1>3. C \in [Sources -> Circuit]
  BY <1>2 DEF CircuitsAfterRecovery
<1> HIDE DEF C
<1>4. CircuitsAfterScan(C, visited, t) \in [Sources -> Circuit]
  BY <1>3, OtherCircuitType DEF CircuitsAfterScan
<1> QED
  BY <1>3, <1>4 DEF C

\* What a poll has done to a row before it claims one.
LEMMA ScanOK ==
  ASSUME Inv, NEW t \in TxTimes, NEW o, NEW j \in JobId,
         NEW passed, passed \subseteq Scanned(JobsAfterRecovery(t, o), t)
  PROVE  LET J == JobsAfterRecovery(t, o)
             K == JobsAfterScan(J, CircuitsAfterRecovery(t, o), passed, t)
         IN /\ RowOK(K[j]) /\ K[j].kind = jobs[j].kind
            /\ j \notin passed => K[j] = J[j]
            /\ \/ j \in ExpiredLeases(t) /\ jobs[j].status = "running"
                  /\ K[j].status \in Claimable \cup {"dead_lettered"}
               \/ j \in CheckpointsDue(t) /\ jobs[j].status = "awaiting_human_checkpoint"
                  /\ K[j].status = "cancelled" /\ j \notin passed
               \/ j \in passed /\ jobs[j].status \in Claimable
                  /\ K[j].status \in Claimable \cup {"dead_lettered"}
               \/ j \notin ExpiredLeases(t) \cup CheckpointsDue(t) \cup passed
                  /\ K[j] = jobs[j]
<1> DEFINE J == JobsAfterRecovery(t, o)
           C == CircuitsAfterRecovery(t, o)
           K == JobsAfterScan(J, C, passed, t)
<1>1. RowOK(J[j]) /\ J[j].kind = jobs[j].kind
  BY RecoveryOK
<1>2. C[SourceOf(j)] \in Circuit
  BY PollCircuitsType, JobIdType
<1>3. j \in passed => J[j].status \in Claimable
  BY DEF Scanned
<1>4. j \notin passed => K[j] = J[j]
  BY DEF JobsAfterScan
<1>5. j \in passed => K[j] = PassedOver(J[j], C[SourceOf(j)], t)
  BY DEF JobsAfterScan
<1> HIDE DEF J, C, K
<1>6. j \in passed => /\ RowOK(K[j]) /\ K[j].kind = jobs[j].kind
                      /\ K[j].status \in Claimable \cup {"dead_lettered"}
  BY <1>1, <1>2, <1>3, <1>5, PassedOverOK
<1>7. CASE j \in ExpiredLeases(t)
  <2>1. jobs[j].status = "running" /\ J[j].status \in {"retry_scheduled", "dead_lettered"}
    BY <1>7, RecoveryOK DEF J
  <2> QED
    BY <1>1, <1>4, <1>6, <1>7, <2>1 DEF J, C, K, Claimable
<1>8. CASE j \in CheckpointsDue(t)
  <2>1. jobs[j].status = "awaiting_human_checkpoint" /\ J[j].status = "cancelled"
    BY <1>8, RecoveryOK DEF J
  <2>2. j \notin passed
    BY <2>1, <1>3 DEF Claimable
  <2> QED
    BY <1>1, <1>4, <1>8, <2>1, <2>2 DEF J, C, K
<1>9. CASE j \notin ExpiredLeases(t) \cup CheckpointsDue(t)
  <2>1. J[j] = jobs[j]
    BY <1>9, RecoveryOK DEF J
  <2> QED
    BY <1>1, <1>3, <1>4, <1>6, <1>9, <2>1 DEF J, C, K
<1> QED
  BY <1>7, <1>8, <1>9 DEF J, C, K

-----------------------------------------------------------------------------
(* Every action preserves the invariant, and is orderly                    *)

\* The step makes no settled job active.
NothingStarts ==
  \A j \in JobId : jobs'[j].status \in Active => jobs[j].status \in Active

\* Who holds a lease after the step held it before, or got it with the cursor.
HoldersStay ==
  \A v \in Workers : (work'[v].job # NoJob /\ Owns(v)') =>
    \/ work'[v] = work[v] /\ Owns(v)
    \/ work'[v].base = cursors[SourceOf(work'[v].job)] /\ UNCHANGED cursors

\* A cursor moves by one, when the holder of a job of its source reports.
HolderMovesCursor ==
  \A s \in Sources : cursors'[s] # cursors[s] =>
    /\ cursors'[s] = cursors[s] + 1
    /\ \E w \in Workers : /\ work[w].job # NoJob /\ Owns(w)
                          /\ SourceOf(work[w].job) = s
                          /\ work'[w].job = NoJob
                          /\ jobs'[work[w].job].status # "running"

Orderly == NothingStarts /\ HoldersStay /\ HolderMovesCursor

\* Rows that are in order one by one are in order together.
LEMMA RowsTogether ==
  ASSUME jobs' = [j \in JobId |-> jobs'[j]], \A j \in JobId : RowOK(jobs'[j])
  PROVE  jobs' \in [JobId -> Job] /\ RunningIffOwned' /\ ClaimableHasBudget'
  BY DEF RowOK, RunningIffOwned, ClaimableHasBudget

\* Closing checkpoints keeps the table of checkpoints well typed.
LEMMA CloseCheckpointsOK ==
  ASSUME TypeOK, NEW ids, NEW state \in HumanState \ {"waiting"}, CloseCheckpoints(ids, state)
  PROVE  /\ human' \in [JobId -> Human]
         /\ \A j \in JobId : human'[j].state = "waiting" <=>
                              human[j].state = "waiting" /\ j \notin ids
  BY DEF TypeOK, CloseCheckpoints, Human, HumanState

\* A poll that finds nothing to claim keeps the invariant.
LEMMA PollIdleInv ==
  ASSUME Inv, NEW w \in Workers, NEW t \in TxTimes, PollIdle(w, t)
  PROVE  Inv' /\ Orderly
<1> PICK o \in RecoveryOrders(t) :
      LET J == JobsAfterRecovery(t, o)
          C == CircuitsAfterRecovery(t, o)
          passed == Scanned(J, t)
      IN /\ jobs' = JobsAfterScan(J, C, passed, t)
         /\ circuits' = CircuitsAfterScan(C, passed, t)
         /\ deadLetters' = BuriedBy(t, passed)
  BY DEF PollIdle
<1> DEFINE passed == Scanned(JobsAfterRecovery(t, o), t)
<1>1. \A j \in JobId :
        /\ RowOK(jobs'[j]) /\ jobs'[j].kind = jobs[j].kind
        /\ \/ j \in ExpiredLeases(t) /\ jobs[j].status = "running"
              /\ jobs'[j].status \in Claimable \cup {"dead_lettered"}
           \/ j \in CheckpointsDue(t) /\ jobs[j].status = "awaiting_human_checkpoint"
              /\ jobs'[j].status = "cancelled" /\ j \notin passed
           \/ j \in passed /\ jobs[j].status \in Claimable
              /\ jobs'[j].status \in Claimable \cup {"dead_lettered"}
           \/ j \notin ExpiredLeases(t) \cup CheckpointsDue(t) \cup passed
              /\ jobs'[j] = jobs[j]
  BY ScanOK
<1>2. deadLetters' = deadLetters \cup {j \in ExpiredLeases(t) \cup passed :
                                         jobs'[j].status = "dead_lettered"}
  BY DEF BuriedBy
<1>3. circuits' \in [Sources -> Circuit]
  BY PollCircuitsType
<1>4. jobs' \in [JobId -> Job] /\ RunningIffOwned' /\ ClaimableHasBudget'
  <2>1. jobs' = [j \in JobId |-> jobs'[j]]
    BY DEF JobsAfterScan
  <2> QED
    BY <1>1, <2>1, RowsTogether
<1>5. /\ human' \in [JobId -> Human]
      /\ \A j \in JobId : human'[j].state = "waiting" <=>
                           human[j].state = "waiting" /\ j \notin CheckpointsDue(t)
  BY CloseCheckpointsOK DEF PollIdle, Inv, HumanState
<1>6. UNCHANGED <<cursors, work, allowed, now>>
  BY DEF PollIdle
<1>7. passed \subseteq JobId /\ ExpiredLeases(t) \subseteq JobId
  BY DEF Scanned, ExpiredLeases
<1>8. TypeOK'
  BY <1>2, <1>3, <1>4, <1>5, <1>6, <1>7 DEF TypeOK, Inv
<1> HIDE DEF passed
<1>9. ParkedIffWaiting'
  BY <1>1, <1>5 DEF Inv, ParkedIffWaiting, Claimable
<1>10. DeadLetterIffBuried'
  BY <1>1, <1>2 DEF Inv, DeadLetterIffBuried, Claimable
<1>11. GrantKept'
  <2> SUFFICES ASSUME NEW v \in Workers,
                      work[v].job # NoJob,
                      now < work[v].since + PolicyOf(jobs'[work[v].job].kind).lease
               PROVE  /\ Owns(v)'
                      /\ jobs'[work[v].job].lease =
                           work[v].since + PolicyOf(jobs'[work[v].job].kind).lease
    BY <1>6 DEF GrantKept
  <2> DEFINE j == work[v].job
  <2>1. j \in JobId /\ work[v].since \in Nat
    BY DEF Inv, TypeOK, Work
  <2>2. Owns(v) /\ jobs[j].lease = work[v].since + PolicyOf(jobs[j].kind).lease
    BY <1>1, <2>1 DEF Inv, GrantKept
  <2>3. t <= now /\ t \in Nat /\ now \in Nat
    BY TxTimesPast DEF Inv, TypeOK
  <2>4. jobs[j].lease \in Nat /\ now < jobs[j].lease
    BY <1>1, <2>1, <2>2 DEF Inv, TypeOK, Job
  <2>5. jobs[j].status = "running" /\ j \notin ExpiredLeases(t)
    BY <2>2, <2>3, <2>4 DEF Owns, ExpiredLeases
  <2>6. jobs'[j] = jobs[j]
    BY <1>1, <2>1, <2>5 DEF Claimable
  <2> QED
    BY <1>6, <2>2, <2>6 DEF Owns
<1>12. WorkIsEnqueued'
  BY <1>1, <1>6 DEF Inv, TypeOK, Work, WorkIsEnqueued, Claimable
<1>13. Inv'
  BY <1>4, <1>8, <1>9, <1>10, <1>11, <1>12 DEF Inv
<1>14. Orderly
  <2>1. NothingStarts
    BY <1>1 DEF NothingStarts, Active, Claimable
  <2>2. HoldersStay
    BY <1>1, <1>6 DEF HoldersStay, Owns, Claimable, Inv, TypeOK, Work
  <2>3. HolderMovesCursor
    BY <1>6 DEF HolderMovesCursor
  <2> QED
    BY <2>1, <2>2, <2>3 DEF Orderly
<1> QED
  BY <1>13, <1>14

\* A step leaves the grants alone if it takes no row from a worker whose lease
\* is running, hands out no work, and lets no clock run back.
LEMMA GrantFrame ==
  ASSUME Inv, now' \in Nat, now <= now',
         \A j \in JobId : jobs'[j].kind = jobs[j].kind,
         \A v \in Workers :
           \/ work'[v].job = NoJob
           \/ /\ work'[v] = work[v]
              /\ (Owns(v) /\ now < jobs[work[v].job].lease)
                   => jobs'[work[v].job] = jobs[work[v].job]
  PROVE  GrantKept'
<1> SUFFICES ASSUME NEW v \in Workers,
                    work'[v].job # NoJob,
                    now' < work'[v].since + PolicyOf(jobs'[work'[v].job].kind).lease
             PROVE  /\ Owns(v)'
                    /\ jobs'[work'[v].job].lease =
                         work'[v].since + PolicyOf(jobs'[work'[v].job].kind).lease
  BY DEF GrantKept
<1> DEFINE j == work[v].job
<1>1. j \in JobId /\ work[v].since \in Nat /\ now \in Nat /\ work'[v] = work[v]
  BY DEF Inv, TypeOK, Work
<1>2. PolicyOf(jobs[j].kind).lease \in Nat
  BY PolicyType DEF Policy
<1>3. now < work[v].since + PolicyOf(jobs[j].kind).lease
  BY <1>1, <1>2
<1>4. Owns(v) /\ jobs[j].lease = work[v].since + PolicyOf(jobs[j].kind).lease
  BY <1>1, <1>3 DEF Inv, GrantKept
<1>5. jobs'[j] = jobs[j]
  BY <1>1, <1>3, <1>4
<1> QED
  BY <1>1, <1>4, <1>5 DEF Owns

\* So does a claim, also one that cancels what it claims.
LEMMA ClaimNextJobInv ==
  ASSUME Inv, NEW w \in Workers, NEW t \in TxTimes, ClaimNextJob(w, t)
  PROVE  Inv' /\ Orderly
<1> DEFINE J(o) == JobsAfterRecovery(t, o)
           C(o) == CircuitsAfterRecovery(t, o)
           Claimed(o, pick, passed) ==
             LET K == JobsAfterScan(J(o), C(o), passed, t)
                 claimed == ClaimedRow(K[pick], w, t)
                 go == allowed[SourceOf(pick)]
             IN /\ jobs' = [K EXCEPT ![pick] = IF go THEN claimed ELSE CancelledRow(claimed)]
                /\ circuits' = CircuitsAfterScan(C(o), passed \cup {pick}, t)
                /\ deadLetters' = BuriedBy(t, passed)
                /\ work' = IF go THEN [work EXCEPT ![w] =
                                [job |-> pick, base |-> cursors[SourceOf(pick)], since |-> t]]
                           ELSE work
<1> PICK o \in RecoveryOrders(t) : \E pick \in CanClaim(J(o), C(o), t) :
      \E passed \in PassedBefore(J(o), C(o), pick, t) : Claimed(o, pick, passed)
  BY DEF ClaimNextJob
<1> PICK pick \in CanClaim(J(o), C(o), t) :
      \E passed \in PassedBefore(J(o), C(o), pick, t) : Claimed(o, pick, passed)
  OBVIOUS
<1> PICK passed \in PassedBefore(J(o), C(o), pick, t) : Claimed(o, pick, passed)
  OBVIOUS
<1> DEFINE K == JobsAfterScan(J(o), C(o), passed, t)
           claimed == ClaimedRow(K[pick], w, t)
           go == allowed[SourceOf(pick)]
<1>1. /\ pick \in JobId /\ pick \notin passed
      /\ J(o)[pick].status \in Claimable
      /\ passed \subseteq Scanned(J(o), t)
  BY DEF CanClaim, PassedBefore, Scanned
<1>2. \A j \in JobId :
        /\ RowOK(K[j]) /\ K[j].kind = jobs[j].kind
        /\ j \notin passed => K[j] = J(o)[j]
        /\ \/ j \in ExpiredLeases(t) /\ jobs[j].status = "running"
              /\ K[j].status \in Claimable \cup {"dead_lettered"}
           \/ j \in CheckpointsDue(t) /\ jobs[j].status = "awaiting_human_checkpoint"
              /\ K[j].status = "cancelled" /\ j \notin passed
           \/ j \in passed /\ jobs[j].status \in Claimable
              /\ K[j].status \in Claimable \cup {"dead_lettered"}
           \/ j \notin ExpiredLeases(t) \cup CheckpointsDue(t) \cup passed
              /\ K[j] = jobs[j]
  BY <1>1, ScanOK
<1>3. K = [j \in JobId |-> K[j]]
  BY DEF JobsAfterScan
<1>4. circuits' \in [Sources -> Circuit]
  BY PollCircuitsType
<1>5. deadLetters' = deadLetters \cup {j \in ExpiredLeases(t) \cup passed :
                                         jobs'[j].status = "dead_lettered"}
  BY DEF BuriedBy
<1>6. passed \subseteq JobId /\ ExpiredLeases(t) \subseteq JobId
  BY <1>1 DEF Scanned, ExpiredLeases
<1>7. t \in Nat /\ t <= now
  BY TxTimesPast DEF Inv, TypeOK
<1> HIDE DEF J, C, K
<1>8. K[pick].status \in Claimable
  BY <1>1, <1>2
<1>9. /\ RowOK(claimed) /\ claimed.status = "running" /\ claimed.owner = w
      /\ claimed.kind = K[pick].kind
      /\ claimed.lease = t + PolicyOf(K[pick].kind).lease
      /\ RowOK(CancelledRow(claimed)) /\ CancelledRow(claimed).status = "cancelled"
  BY <1>1, <1>2, <1>7, ClaimedRowOK
<1>10. CancelledRow(claimed).kind = claimed.kind
  BY <1>9 DEF CancelledRow, RowOK, Job
<1> HIDE DEF claimed
<1>11. /\ jobs'[pick] = IF go THEN claimed ELSE CancelledRow(claimed)
       /\ \A j \in JobId \ {pick} : jobs'[j] = K[j]
       /\ jobs' = [j \in JobId |-> jobs'[j]]
  BY <1>1, <1>3 DEF K, claimed, J, C
<1>12. jobs' \in [JobId -> Job] /\ RunningIffOwned' /\ ClaimableHasBudget'
  <2>1. \A j \in JobId : RowOK(jobs'[j])
    BY <1>2, <1>9, <1>11
  <2> QED
    BY <1>11, <2>1, RowsTogether
<1>13. /\ human' \in [JobId -> Human]
       /\ \A j \in JobId : human'[j].state = "waiting" <=>
                            human[j].state = "waiting" /\ j \notin CheckpointsDue(t)
  BY CloseCheckpointsOK DEF ClaimNextJob, Inv, HumanState
<1>14. UNCHANGED <<cursors, allowed, now>>
  BY DEF ClaimNextJob
<1>15. work' = IF go THEN [work EXCEPT ![w] =
                  [job |-> pick, base |-> cursors[SourceOf(pick)], since |-> t]]
               ELSE work
  OBVIOUS
<1>16. work' \in [Workers -> Work]
  BY <1>1, <1>7, <1>15, JobIdType DEF Inv, TypeOK, Work
<1>17. TypeOK'
  BY <1>4, <1>5, <1>6, <1>12, <1>13, <1>14, <1>16 DEF TypeOK, Inv
<1>18. ParkedIffWaiting'
  BY <1>1, <1>2, <1>8, <1>9, <1>11, <1>13 DEF Inv, ParkedIffWaiting, Claimable
<1>19. DeadLetterIffBuried'
  BY <1>1, <1>2, <1>5, <1>8, <1>9, <1>11 DEF Inv, DeadLetterIffBuried, Claimable
<1>20. GrantKept'
  <2> SUFFICES ASSUME NEW v \in Workers,
                      work'[v].job # NoJob,
                      now < work'[v].since + PolicyOf(jobs'[work'[v].job].kind).lease
               PROVE  /\ Owns(v)'
                      /\ jobs'[work'[v].job].lease =
                           work'[v].since + PolicyOf(jobs'[work'[v].job].kind).lease
    BY <1>14 DEF GrantKept
  <2>1. CASE go /\ v = w
    <3>1. work'[v] = [job |-> pick, base |-> cursors[SourceOf(pick)], since |-> t]
      BY <1>15, <2>1 DEF Inv, TypeOK
    <3> QED
      BY <1>9, <1>11, <2>1, <3>1 DEF Owns
  <2>2. CASE ~(go /\ v = w)
    <3> DEFINE j == work[v].job
    <3>1. work'[v] = work[v]
      BY <1>15, <2>2 DEF Inv, TypeOK
    <3>2. j \in JobId /\ work[v].since \in Nat /\ now \in Nat
      BY <3>1 DEF Inv, TypeOK, Work
    <3>3. jobs'[j].kind = jobs[j].kind
      BY <1>2, <1>9, <1>10, <1>11, <3>2
    <3>4. Owns(v) /\ jobs[j].lease = work[v].since + PolicyOf(jobs[j].kind).lease
      BY <3>1, <3>2, <3>3 DEF Inv, GrantKept
    <3>5. jobs[j].lease \in Nat /\ now < jobs[j].lease
      BY <3>1, <3>2, <3>3, <3>4 DEF Inv, TypeOK, Job
    <3>6. jobs[j].status = "running" /\ j \notin ExpiredLeases(t)
      BY <1>7, <3>2, <3>4, <3>5 DEF Owns, ExpiredLeases
    <3>7. K[j] = jobs[j] /\ j # pick
      BY <1>2, <1>8, <3>2, <3>6 DEF Claimable
    <3> QED
      BY <1>11, <3>1, <3>2, <3>3, <3>4, <3>7 DEF Owns
  <2> QED
    BY <2>1, <2>2
<1>21. WorkIsEnqueued'
  <2>1. \A j \in JobId : jobs[j].status # "absent" => jobs'[j].status # "absent"
    BY <1>2, <1>9, <1>11 DEF Claimable
  <2>2. jobs'[pick].status # "absent"
    BY <1>9, <1>11
  <2>3. \A v \in Workers : work'[v] = work[v] \/ work'[v].job = pick
    BY <1>15 DEF Inv, TypeOK
  <2> QED
    BY <2>1, <2>2, <2>3 DEF Inv, TypeOK, Work, WorkIsEnqueued
<1>22. Inv'
  BY <1>12, <1>17, <1>18, <1>19, <1>20, <1>21 DEF Inv
<1>23. Orderly
  <2>1. NothingStarts
    BY <1>2, <1>8, <1>9, <1>11 DEF NothingStarts, Active, Claimable
  <2>2. HoldersStay
    <3> SUFFICES ASSUME NEW v \in Workers, work'[v].job # NoJob, Owns(v)'
                 PROVE  \/ work'[v] = work[v] /\ Owns(v)
                        \/ work'[v].base = cursors[SourceOf(work'[v].job)]
      BY <1>14 DEF HoldersStay
    <3>1. CASE go /\ v = w
      BY <1>15, <3>1 DEF Inv, TypeOK
    <3>2. CASE ~(go /\ v = w)
      <4>1. work'[v] = work[v] /\ work[v].job \in JobId
        BY <1>15, <3>2 DEF Inv, TypeOK, Work
      <4>2. work[v].job # pick
        BY <1>1, <1>9, <1>11, <3>2, <4>1 DEF Owns
      <4> QED
        BY <1>2, <1>11, <4>1, <4>2 DEF Owns, Claimable
    <3> QED
      BY <3>1, <3>2
  <2>3. HolderMovesCursor
    BY <1>14 DEF HolderMovesCursor
  <2> QED
    BY <2>1, <2>2, <2>3 DEF Orderly
<1> QED
  BY <1>22, <1>23

\* Enqueueing adds claimable rows and changes no other.
LEMMA EnqueueInv ==
  ASSUME Inv, NEW kind \in {"schedule", "priority"}, NEW ids, Enqueue(kind, ids),
         UNCHANGED <<circuits, cursors, deadLetters, human, work, allowed, now>>
  PROVE  Inv' /\ HoldersStay
<1>1. \A j \in JobId : \/ jobs'[j] = jobs[j]
                       \/ /\ jobs[j].status = "absent"
                          /\ RowOK(jobs'[j]) /\ jobs'[j].status = "pending"
  BY JobIdType, NewJobOK DEF Enqueue
<1>2. jobs' = [j \in JobId |-> jobs'[j]]
  BY DEF Enqueue
<1>3. jobs' \in [JobId -> Job] /\ RunningIffOwned' /\ ClaimableHasBudget'
  <2>1. \A j \in JobId : RowOK(jobs'[j])
    BY <1>1, InvRows
  <2> QED
    BY <1>2, <2>1, RowsTogether
<1>4. TypeOK'
  BY <1>3 DEF Inv, TypeOK
<1>5. ParkedIffWaiting'
  BY <1>1 DEF Inv, ParkedIffWaiting
<1>6. DeadLetterIffBuried'
  BY <1>1 DEF Inv, DeadLetterIffBuried
<1>7. GrantKept'
  <2> SUFFICES ASSUME NEW v \in Workers,
                      work[v].job # NoJob,
                      now < work[v].since + PolicyOf(jobs'[work[v].job].kind).lease
               PROVE  /\ Owns(v)'
                      /\ jobs'[work[v].job].lease =
                           work[v].since + PolicyOf(jobs'[work[v].job].kind).lease
    BY DEF GrantKept
  <2>1. work[v].job \in JobId
    BY DEF Inv, TypeOK, Work
  <2>2. jobs'[work[v].job] = jobs[work[v].job]
    BY <1>1, <2>1 DEF Inv, WorkIsEnqueued
  <2> QED
    BY <2>1, <2>2 DEF Inv, GrantKept, Owns
<1>8. WorkIsEnqueued'
  BY <1>1 DEF Inv, TypeOK, Work, WorkIsEnqueued
<1>9. HoldersStay
  BY <1>1 DEF HoldersStay, Owns, Inv, TypeOK, Work
<1> QED
  BY <1>3, <1>4, <1>5, <1>6, <1>7, <1>8, <1>9 DEF Inv

\* A report changes the row of the reporting worker's job, which is running,
\* and lets go of it.
ReportEffect(w, j) ==
  /\ j = work[w].job /\ j # NoJob /\ Owns(w) /\ Release(w)
  /\ jobs' = [i \in JobId |-> jobs'[i]]
  /\ \A i \in JobId \ {j} : jobs'[i] = jobs[i]
  /\ RowOK(jobs'[j]) /\ jobs'[j].kind = jobs[j].kind
  /\ jobs'[j].status \notin {"running", "absent"}
  /\ circuits' \in [Sources -> Circuit]
  /\ cursors' \in [Sources -> Nat]
  /\ \A s \in Sources : cursors'[s] # cursors[s] => /\ s = SourceOf(j)
                                                   /\ cursors'[s] = cursors[s] + 1
  /\ human' \in [JobId -> Human]
  /\ \A i \in JobId \ {j} : human'[i].state = human[i].state
  /\ human'[j].state = "waiting" <=> jobs'[j].status = "awaiting_human_checkpoint"
  /\ jobs'[j].status = "dead_lettered" => deadLetters' = deadLetters \cup {j}
  /\ jobs'[j].status # "dead_lettered" => deadLetters' = deadLetters
  /\ UNCHANGED <<allowed, now>>

\* A step with the effect of a report keeps the invariant.
LEMMA ReportInv ==
  ASSUME Inv, NEW w \in Workers, NEW j, ReportEffect(w, j)
  PROVE  Inv' /\ Orderly
<1> USE DEF ReportEffect
<1>1. j \in JobId
  BY DEF Inv, TypeOK, Work
<1>2. \A i \in JobId : RowOK(jobs'[i])
  BY InvRows
<1>3. jobs' \in [JobId -> Job] /\ RunningIffOwned' /\ ClaimableHasBudget'
  BY <1>2, RowsTogether
<1>4. \A v \in Workers : work'[v] = IF v = w THEN Idle ELSE work[v]
  BY DEF Release, Inv, TypeOK
<1>5. work' \in [Workers -> Work]
  BY DEF Release, Inv, TypeOK, Work, Idle
<1>6. TypeOK'
  BY <1>1, <1>3, <1>5 DEF Inv, TypeOK
<1>7. ParkedIffWaiting'
  BY <1>1 DEF Inv, ParkedIffWaiting
<1>8. DeadLetterIffBuried'
  BY <1>1 DEF Inv, DeadLetterIffBuried, Owns
<1>9. GrantKept'
  <2>1. now' \in Nat /\ now <= now'
    BY DEF Inv, TypeOK
  <2>2. \A i \in JobId : jobs'[i].kind = jobs[i].kind
    OBVIOUS
  <2>3. ASSUME NEW v \in Workers
        PROVE  \/ work'[v].job = NoJob
               \/ /\ work'[v] = work[v]
                  /\ (Owns(v) /\ now < jobs[work[v].job].lease)
                       => jobs'[work[v].job] = jobs[work[v].job]
    <3>1. CASE v = w
      BY <1>4, <3>1 DEF Idle
    <3>2. CASE v # w /\ work[v].job # NoJob
      <4>1. work[v].job \in JobId
        BY <3>2 DEF Inv, TypeOK, Work
      <4>2. Owns(v) => work[v].job # j
        BY <3>2 DEF Owns
      <4> QED
        BY <1>4, <3>2, <4>1, <4>2
    <3>3. CASE v # w /\ work[v].job = NoJob
      BY <1>4, <3>3
    <3> QED
      BY <3>1, <3>2, <3>3
  <2> QED
    BY <2>1, <2>2, <2>3, GrantFrame
<1>10. WorkIsEnqueued'
  <2> SUFFICES ASSUME NEW v \in Workers, work'[v].job # NoJob
               PROVE  jobs'[work'[v].job].status # "absent"
    BY DEF WorkIsEnqueued
  <2>1. work'[v] = work[v] /\ work[v].job \in JobId
    BY <1>4 DEF Idle, Inv, TypeOK, Work
  <2> QED
    BY <2>1 DEF Inv, WorkIsEnqueued
<1>11. NothingStarts
  BY DEF NothingStarts, Owns, Active
<1>12. HoldersStay
  <2> SUFFICES ASSUME NEW v \in Workers, work'[v].job # NoJob, Owns(v)'
               PROVE  work'[v] = work[v] /\ Owns(v)
    BY DEF HoldersStay
  <2>1. work'[v] = work[v] /\ work[v].job \in JobId
    BY <1>4 DEF Idle, Inv, TypeOK, Work
  <2>2. work[v].job # j
    BY <2>1 DEF Owns
  <2> QED
    BY <2>1, <2>2 DEF Owns
<1>13. HolderMovesCursor
  <2>1. work'[w].job = NoJob
    BY <1>4 DEF Idle
  <2> QED
    BY <2>1 DEF HolderMovesCursor
<1> QED
  BY <1>3, <1>6, <1>7, <1>8, <1>9, <1>10, <1>11, <1>12, <1>13 DEF Inv, Orderly

\* A completion ends the job it reports on.
LEMMA CompleteJobInv ==
  ASSUME Inv, NEW w \in Workers, NEW t \in TxTimes, CompleteJob(w, t)
  PROVE  Inv' /\ Orderly
<1> PICK j : j = work[w].job
  OBVIOUS
<1>1. j \in JobId /\ j # NoJob /\ Owns(w) /\ Release(w)
  BY DEF CompleteJob, Inv, TypeOK, Work
<1>2. PICK status \in {"succeeded", "not_modified"} :
        jobs' = [jobs EXCEPT ![j] = CompletedRow(jobs[j], status)]
  BY DEF CompleteJob
<1>3. /\ jobs' = [i \in JobId |-> jobs'[i]]
      /\ \A i \in JobId \ {j} : jobs'[i] = jobs[i]
      /\ jobs'[j] = CompletedRow(jobs[j], status)
  BY <1>1, <1>2 DEF Inv, TypeOK
<1>4. RowOK(jobs'[j]) /\ jobs'[j].kind = jobs[j].kind /\ jobs'[j].status = status
  BY <1>1, <1>3, InvRows, ReleasedRowOK
<1>5. SourceOf(j) \in Sources
  BY <1>1, JobIdType
<1>6. /\ circuits' \in [Sources -> Circuit] /\ cursors' \in [Sources -> Nat]
      /\ \A s \in Sources : cursors'[s] # cursors[s] => /\ s = SourceOf(j)
                                                       /\ cursors'[s] = cursors[s] + 1
  BY <1>5, OtherCircuitType DEF CompleteJob, Inv, TypeOK
<1>7. human[j].state # "waiting"
  BY <1>1 DEF Owns, Inv, ParkedIffWaiting
<1>8. UNCHANGED <<deadLetters, human, allowed, now>> /\ human \in [JobId -> Human]
  BY DEF CompleteJob, Inv, TypeOK
<1>9. ReportEffect(w, j)
  BY <1>1, <1>3, <1>4, <1>6, <1>7, <1>8 DEF ReportEffect
<1> QED
  BY <1>9, ReportInv

\* The failure of the job j that worker w holds, everything but the cursors
\* and the checkpoints.
LEMMA RecordFailureOK ==
  ASSUME Inv, NEW w \in Workers, NEW t \in TxTimes, NEW retryable \in BOOLEAN,
         NEW j \in JobId, j = work[w].job, RecordFailure(w, t, retryable)
  PROVE  /\ Release(w)
         /\ jobs' = [i \in JobId |-> jobs'[i]]
         /\ \A i \in JobId \ {j} : jobs'[i] = jobs[i]
         /\ RowOK(jobs'[j]) /\ jobs'[j].kind = jobs[j].kind
         /\ jobs'[j].status \in {"retry_scheduled", "dead_lettered"}
         /\ circuits' \in [Sources -> Circuit]
         /\ jobs'[j].status = "dead_lettered" => deadLetters' = deadLetters \cup {j}
         /\ jobs'[j].status # "dead_lettered" => deadLetters' = deadLetters
<1> DEFINE c == FailCircuit(circuits[SourceOf(j)], 1, PolicyOf(jobs[j].kind), t)
<1>1. SourceOf(j) \in Sources /\ t \in Nat
  BY JobIdType, TxTimesPast DEF Inv, TypeOK
<1>2. c \in Circuit
  BY <1>1, FailCircuitType, PolicyType DEF Inv, TypeOK
<1>3. /\ jobs' = [jobs EXCEPT ![j] = FailedJob(jobs[j], c, t, retryable)]
      /\ circuits' = [circuits EXCEPT ![SourceOf(j)] = c]
      /\ deadLetters' = IF retryable /\ MayRetry(jobs[j]) THEN deadLetters
                        ELSE deadLetters \cup {j}
      /\ Release(w)
  BY DEF RecordFailure
<1> HIDE DEF c
<1>4. /\ jobs' = [i \in JobId |-> jobs'[i]]
      /\ \A i \in JobId \ {j} : jobs'[i] = jobs[i]
      /\ jobs'[j] = FailedJob(jobs[j], c, t, retryable)
  BY <1>3 DEF Inv, TypeOK
<1>5. /\ RowOK(jobs'[j])
      /\ jobs'[j].kind = jobs[j].kind
      /\ jobs'[j].status = IF retryable /\ MayRetry(jobs[j]) THEN "retry_scheduled"
                           ELSE "dead_lettered"
  <2>1. RowOK(jobs[j])
    BY InvRows
  <2> QED
    BY <1>1, <1>2, <1>4, <2>1, FailedJobOK
<1>6. circuits' \in [Sources -> Circuit]
  BY <1>1, <1>2, <1>3 DEF Inv, TypeOK
<1> QED
  BY <1>3, <1>4, <1>5, <1>6

\* A failure schedules a retry or buries the job, never both.
LEMMA FailureInv ==
  ASSUME Inv, NEW w \in Workers, NEW t \in TxTimes, NEW retryable \in BOOLEAN,
         work[w].job # NoJob, Owns(w), RecordFailure(w, t, retryable),
         cursors' \in [Sources -> Nat],
         \A s \in Sources : cursors'[s] # cursors[s] => /\ s = SourceOf(work[w].job)
                                                      /\ cursors'[s] = cursors[s] + 1,
         UNCHANGED <<human, allowed, now>>
  PROVE  Inv' /\ Orderly
<1> PICK j : j = work[w].job
  OBVIOUS
<1>1. j \in JobId
  BY DEF Inv, TypeOK, Work
<1>2. human[j].state # "waiting" /\ human \in [JobId -> Human]
  BY <1>1 DEF Owns, Inv, ParkedIffWaiting, TypeOK
<1>3. ReportEffect(w, j)
  BY <1>1, <1>2, RecordFailureOK DEF ReportEffect
<1> QED
  BY <1>3, ReportInv

\* A failed attempt keeps the invariant.
LEMMA FailJobInv ==
  ASSUME Inv, NEW w \in Workers, NEW t \in TxTimes,
         FailJob(w, t) \/ FailWithPartialProgress(w, t)
  PROVE  Inv' /\ Orderly
<1>1. PICK retryable \in BOOLEAN : RecordFailure(w, t, retryable)
  BY DEF FailJob, FailWithPartialProgress
<1>2. work[w].job # NoJob /\ Owns(w) /\ UNCHANGED <<human, allowed, now>>
  BY DEF FailJob, FailWithPartialProgress
<1>3. work[w].job \in JobId
  BY <1>2 DEF Inv, TypeOK, Work
<1>4. /\ cursors' \in [Sources -> Nat]
      /\ \A s \in Sources : cursors'[s] # cursors[s] => /\ s = SourceOf(work[w].job)
                                                       /\ cursors'[s] = cursors[s] + 1
  BY <1>3, JobIdType DEF FailJob, FailWithPartialProgress, Inv, TypeOK
<1> QED
  BY <1>1, <1>2, <1>4, FailureInv

\* A pause parks the job together with its checkpoint.
LEMMA PauseForHumanInv ==
  ASSUME Inv, NEW w \in Workers, NEW t \in TxTimes, PauseForHuman(w, t)
  PROVE  Inv' /\ Orderly
<1> PICK j : j = work[w].job
  OBVIOUS
<1>1. j \in JobId /\ j # NoJob /\ Owns(w)
  BY DEF PauseForHuman, Inv, TypeOK, Work
<1>2. UNCHANGED <<cursors, allowed, now>> /\ cursors \in [Sources -> Nat]
  BY DEF PauseForHuman, Inv, TypeOK
<1>3. CASE RecordFailure(w, t, FALSE) /\ UNCHANGED human
  BY <1>1, <1>2, <1>3, FailureInv
<1>4. ASSUME NEW created \in work[w].since..t,
             jobs' = [jobs EXCEPT ![j] = ParkedRow(jobs[j])],
             human' = [human EXCEPT ![j] = [state |-> "waiting",
                                            expires |-> created + CheckpointTtl,
                                            pauses |-> human[j].pauses + 1]],
             Release(w), UNCHANGED <<circuits, deadLetters>>
      PROVE  Inv' /\ Orderly
  <2>1. created + CheckpointTtl \in Nat /\ human[j].pauses + 1 \in Nat
    BY <1>1, <1>4, TxTimesPast, SettingsAssumption DEF Inv, TypeOK, Work, Human
  <2>2. /\ human' \in [JobId -> Human]
        /\ \A i \in JobId \ {j} : human'[i].state = human[i].state
        /\ human'[j].state = "waiting"
    BY <1>1, <1>4, <2>1 DEF Inv, TypeOK, Human, HumanState
  <2>3. /\ jobs' = [i \in JobId |-> jobs'[i]]
        /\ \A i \in JobId \ {j} : jobs'[i] = jobs[i]
        /\ jobs'[j] = ParkedRow(jobs[j])
    BY <1>1, <1>4 DEF Inv, TypeOK
  <2>4. /\ RowOK(jobs'[j]) /\ jobs'[j].kind = jobs[j].kind
        /\ jobs'[j].status = "awaiting_human_checkpoint"
    BY <1>1, <2>3, InvRows, ReleasedRowOK
  <2>5. circuits' \in [Sources -> Circuit]
    BY <1>4 DEF Inv, TypeOK
  <2>6. ReportEffect(w, j)
    BY <1>1, <1>2, <1>4, <2>2, <2>3, <2>4, <2>5 DEF ReportEffect
  <2> QED
    BY <2>6, ReportInv
<1> QED
  BY <1>3, <1>4 DEF PauseForHuman

\* A worker that lets go of its job, changing no row, keeps the invariant.
LEMMA ReleaseInv ==
  ASSUME Inv, NEW w \in Workers, Release(w),
         UNCHANGED <<jobs, circuits, cursors, deadLetters, human, allowed, now>>
  PROVE  Inv' /\ Orderly
<1>1. \A v \in Workers : work'[v] = IF v = w THEN Idle ELSE work[v]
  BY DEF Release, Inv, TypeOK
<1>2. work' \in [Workers -> Work]
  BY DEF Release, Inv, TypeOK, Work, Idle
<1>3. TypeOK'
  BY <1>2 DEF Inv, TypeOK
<1>4. GrantKept' /\ WorkIsEnqueued'
  BY <1>1 DEF Inv, GrantKept, WorkIsEnqueued, Owns, Idle
<1>5. Orderly
  BY <1>1 DEF Orderly, NothingStarts, HoldersStay, HolderMovesCursor, Owns, Idle
<1> QED
  BY <1>3, <1>4, <1>5 DEF Inv, RunningIffOwned, ClaimableHasBudget, ParkedIffWaiting,
                          DeadLetterIffBuried

\* The control plane moves parked jobs only, each with its checkpoint.
ParkedEffect ==
  /\ jobs' = [i \in JobId |-> jobs'[i]]
  /\ \A i \in JobId : \/ jobs'[i] = jobs[i]
                      \/ /\ jobs[i].status = "awaiting_human_checkpoint"
                         /\ jobs'[i].status \in {"cancelled", "pending"}
                         /\ RowOK(jobs'[i]) /\ jobs'[i].kind = jobs[i].kind
  /\ human' \in [JobId -> Human]
  /\ \A i \in JobId :
       human'[i].state = "waiting" <=> jobs'[i].status = "awaiting_human_checkpoint"
  /\ UNCHANGED <<circuits, cursors, deadLetters, work, allowed, now>>

\* A step that only takes parked jobs out of their wait keeps the invariant.
LEMMA ParkedEffectInv ==
  ASSUME Inv, ParkedEffect
  PROVE  Inv' /\ Orderly
<1> USE DEF ParkedEffect
<1>1. \A i \in JobId : RowOK(jobs'[i])
  BY InvRows
<1>2. jobs' \in [JobId -> Job] /\ RunningIffOwned' /\ ClaimableHasBudget'
  BY <1>1, RowsTogether
<1>3. TypeOK'
  BY <1>2 DEF Inv, TypeOK
<1>4. ParkedIffWaiting'
  BY DEF ParkedIffWaiting
<1>5. DeadLetterIffBuried'
  BY DEF Inv, DeadLetterIffBuried
<1>6. GrantKept' /\ WorkIsEnqueued'
  <2>1. ASSUME NEW v \in Workers, work[v].job # NoJob
        PROVE  \/ jobs'[work[v].job] = jobs[work[v].job]
               \/ /\ jobs[work[v].job].status = "awaiting_human_checkpoint"
                  /\ jobs'[work[v].job].status \in {"cancelled", "pending"}
    BY <2>1 DEF Inv, TypeOK, Work
  <2>2. WorkIsEnqueued'
    BY <2>1 DEF Inv, WorkIsEnqueued
  <2>3. now' \in Nat /\ now <= now'
    BY DEF Inv, TypeOK
  <2>4. \A v \in Workers :
          \/ work'[v].job = NoJob
          \/ /\ work'[v] = work[v]
             /\ (Owns(v) /\ now < jobs[work[v].job].lease)
                  => jobs'[work[v].job] = jobs[work[v].job]
    BY <2>1 DEF Owns
  <2>5. GrantKept'
    BY <2>3, <2>4, GrantFrame
  <2> QED
    BY <2>2, <2>5
<1>7. Orderly
  BY DEF Orderly, NothingStarts, HoldersStay, HolderMovesCursor, Owns, Active, Inv, TypeOK, Work
<1> QED
  BY <1>2, <1>3, <1>4, <1>5, <1>6, <1>7 DEF Inv

\* A resumption takes job and checkpoint out of the wait together.
LEMMA ResumeCheckpointInv ==
  ASSUME Inv, NEW j \in JobId, NEW t \in TxTimes, ResumeCheckpoint(j, t)
  PROVE  Inv' /\ Orderly
<1>1. t \in Nat /\ RowOK(jobs[j])
  BY TxTimesPast, InvRows DEF Inv, TypeOK
<1>2. /\ jobs' = [i \in JobId |-> jobs'[i]]
      /\ \A i \in JobId \ {j} : jobs'[i] = jobs[i]
      /\ jobs'[j] = ResumedRow(jobs[j], t)
  BY DEF ResumeCheckpoint, Inv, TypeOK
<1>3. RowOK(jobs'[j]) /\ jobs'[j].status = "pending" /\ jobs'[j].kind = jobs[j].kind
  BY <1>1, <1>2, ResumedRowOK
<1>4. /\ human' \in [JobId -> Human]
      /\ \A i \in JobId : human'[i].state = "waiting" <=>
                           human[i].state = "waiting" /\ i \notin {j}
  BY CloseCheckpointsOK DEF ResumeCheckpoint, Inv, HumanState
<1>5. jobs[j].status = "awaiting_human_checkpoint"
  BY DEF ResumeCheckpoint
<1>6. UNCHANGED <<circuits, cursors, deadLetters, work, allowed, now>>
  BY DEF ResumeCheckpoint
<1>7. ParkedEffect
  BY <1>2, <1>3, <1>4, <1>5, <1>6 DEF ParkedEffect, Inv, ParkedIffWaiting
<1> QED
  BY <1>7, ParkedEffectInv

\* Closing a set of checkpoints cancels exactly the jobs parked on them.
LEMMA CloseInv ==
  ASSUME Inv, NEW ids, NEW state \in HumanState \ {"waiting"},
         \A i \in ids : i \in JobId /\ human[i].state = "waiting",
         jobs' = [i \in JobId |-> IF i \in ids THEN CancelWaitingJob(jobs[i]) ELSE jobs[i]],
         CloseCheckpoints(ids, state),
         UNCHANGED <<circuits, cursors, deadLetters, work, allowed, now>>
  PROVE  Inv' /\ Orderly
<1>1. /\ human' \in [JobId -> Human]
      /\ \A i \in JobId : human'[i].state = "waiting" <=>
                           human[i].state = "waiting" /\ i \notin ids
  BY CloseCheckpointsOK DEF Inv
<1>2. ASSUME NEW i \in ids
      PROVE  /\ jobs[i].status = "awaiting_human_checkpoint"
             /\ jobs'[i].status = "cancelled"
             /\ RowOK(jobs'[i]) /\ jobs'[i].kind = jobs[i].kind
  <2>1. RowOK(jobs[i]) /\ jobs[i].status = "awaiting_human_checkpoint"
    BY <1>2, InvRows DEF Inv, ParkedIffWaiting
  <2>2. jobs'[i] = CancelWaitingJob(jobs[i])
    BY <1>2
  <2> QED
    BY <2>1, <2>2, CancelWaitingJobOK
<1>3. \A i \in JobId \ ids : jobs'[i] = jobs[i]
  OBVIOUS
<1>4. ParkedEffect
  BY <1>1, <1>2, <1>3 DEF ParkedEffect, Inv, ParkedIffWaiting
<1> QED
  BY <1>4, ParkedEffectInv

\* A cancellation keeps the invariant.
LEMMA CancelCheckpointInv ==
  ASSUME Inv, NEW j \in JobId, CancelCheckpoint(j)
  PROVE  Inv' /\ Orderly
<1>1. jobs' = [i \in JobId |-> IF i \in {j} THEN CancelWaitingJob(jobs[i]) ELSE jobs[i]]
  BY DEF CancelCheckpoint, Inv, TypeOK
<1> QED
  BY <1>1, CloseInv DEF CancelCheckpoint, HumanState

\* So does the revocation of an identity.
LEMMA InvalidateInv ==
  ASSUME Inv, NEW s \in Sources, InvalidateCheckpointsForIdentity(s)
  PROVE  Inv' /\ Orderly
<1>1. PICK closing \in SUBSET {j \in JobId : SourceOf(j) = s /\ human[j].state = "waiting"} :
        /\ jobs' = [j \in JobId |-> IF j \in closing THEN CancelWaitingJob(jobs[j]) ELSE jobs[j]]
        /\ CloseCheckpoints(closing, "invalidated")
        /\ UNCHANGED <<circuits, cursors, deadLetters, work, allowed, now>>
  BY DEF InvalidateCheckpointsForIdentity
<1> QED
  BY <1>1, CloseInv DEF HumanState

\* Neither a toggled source nor the clock touches anything the invariant reads.
LEMMA EnvironmentInv ==
  ASSUME Inv, (\E s \in Sources : ToggleExecution(s)) \/ Tick
  PROVE  Inv' /\ Orderly
<1>1. UNCHANGED <<jobs, circuits, cursors, deadLetters, human, work>>
  BY DEF ToggleExecution, Tick
<1>2. allowed' \in [Sources -> BOOLEAN] /\ now' \in Nat /\ now <= now'
  <2>1. now \in Nat /\ allowed \in [Sources -> BOOLEAN]
    BY DEF Inv, TypeOK
  <2>2. CASE \E s \in Sources : ToggleExecution(s)
    <3>1. allowed' \in [Sources -> BOOLEAN]
      BY <2>1, <2>2, Zenon DEF ToggleExecution
    <3> QED
      BY <2>1, <2>2, <3>1 DEF ToggleExecution
  <2>3. CASE Tick
    BY <2>1, <2>3 DEF Tick
  <2> QED
    BY <2>2, <2>3
<1>3. TypeOK'
  BY <1>1, <1>2 DEF Inv, TypeOK
<1>4. GrantKept'
  BY <1>1, <1>2, GrantFrame
<1>5. WorkIsEnqueued'
  BY <1>1 DEF Inv, WorkIsEnqueued
<1>6. Orderly
  BY <1>1 DEF Orderly, NothingStarts, HoldersStay, HolderMovesCursor, Owns
<1> QED
  BY <1>1, <1>3, <1>4, <1>5, <1>6 DEF Inv, RunningIffOwned, ClaimableHasBudget,
                                      ParkedIffWaiting, DeadLetterIffBuried, HasBudget

-----------------------------------------------------------------------------
(* The invariant holds                                                     *)

\* The empty queue satisfies the invariant.
LEMMA InitInv == Init => Inv
<1> SUFFICES ASSUME Init PROVE Inv
  OBVIOUS
<1>1. TypeOK
  BY SettingsAssumption DEF Init, TypeOK, NoRow, Idle, Job, Circuit, Human, HumanState, Work
<1>2. RunningIffOwned /\ ClaimableHasBudget /\ ParkedIffWaiting /\ DeadLetterIffBuried
  BY DEF Init, NoRow, RunningIffOwned, ClaimableHasBudget, ParkedIffWaiting,
         DeadLetterIffBuried, Claimable
<1>3. GrantKept /\ WorkIsEnqueued
  BY DEF Init, Idle, GrantKept, WorkIsEnqueued
<1> QED
  BY <1>1, <1>2, <1>3 DEF Inv

\* The two actions that make a job active.
Enqueueing == \/ \E t \in TxTimes : ScheduleDueJobs(t)
              \/ \E s \in Sources, t \in TxTimes : RequestPriorityRefresh(s, t)

\* Every step keeps the invariant.
LEMMA NextInv ==
  Inv /\ [Next]_vars => Inv' /\ HoldersStay /\ HolderMovesCursor /\ (NothingStarts \/ Enqueueing)
<1> SUFFICES ASSUME Inv, [Next]_vars
             PROVE  Inv' /\ (Orderly \/ (HoldersStay /\ HolderMovesCursor /\ Enqueueing))
  BY DEF Orderly
<1>1. CASE Enqueueing
  <2>1. UNCHANGED cursors
    BY <1>1 DEF Enqueueing, ScheduleDueJobs, RequestPriorityRefresh
  <2>2. Inv' /\ HoldersStay
    BY <1>1, EnqueueInv DEF Enqueueing, ScheduleDueJobs, RequestPriorityRefresh
  <2> QED
    BY <1>1, <2>1, <2>2 DEF HolderMovesCursor
<1>2. ASSUME NEW w \in Workers, Poll(w) PROVE Inv' /\ Orderly
  BY <1>2, PollIdleInv, ClaimNextJobInv DEF Poll
<1>3. ASSUME NEW w \in Workers, Report(w) PROVE Inv' /\ Orderly
  <2>1. ASSUME NEW t \in TxTimes, CompleteJob(w, t) PROVE Inv' /\ Orderly
    BY <2>1, CompleteJobInv
  <2>2. ASSUME NEW t \in TxTimes, FailJob(w, t) \/ FailWithPartialProgress(w, t)
        PROVE  Inv' /\ Orderly
    BY <2>2, FailJobInv
  <2>3. ASSUME NEW t \in TxTimes, PauseForHuman(w, t) PROVE Inv' /\ Orderly
    BY <2>3, PauseForHumanInv
  <2>4. ASSUME NEW t \in TxTimes, LoseLease(w, t) PROVE Inv' /\ Orderly
    BY <2>4, ReleaseInv DEF LoseLease
  <2>5. CASE CrashAndRestart(w)
    BY <2>5, ReleaseInv DEF CrashAndRestart
  <2> QED
    BY <1>3, <2>1, <2>2, <2>3, <2>4, <2>5 DEF Report, ReportTimes
<1>4. ASSUME NEW s \in Sources, InvalidateCheckpointsForIdentity(s) PROVE Inv' /\ Orderly
  BY <1>4, InvalidateInv
<1>5. ASSUME NEW j \in JobId, NEW t \in TxTimes, ResumeCheckpoint(j, t)
      PROVE  Inv' /\ Orderly
  BY <1>5, ResumeCheckpointInv
<1>6. ASSUME NEW j \in JobId, CancelCheckpoint(j) PROVE Inv' /\ Orderly
  BY <1>6, CancelCheckpointInv
<1>7. CASE (\E s \in Sources : ToggleExecution(s)) \/ Tick
  BY <1>7, EnvironmentInv
<1>8. CASE UNCHANGED vars
  BY <1>8 DEF vars, Inv, TypeOK, RunningIffOwned, ClaimableHasBudget, ParkedIffWaiting,
              DeadLetterIffBuried, GrantKept, WorkIsEnqueued, HasBudget, Owns,
              Orderly, NothingStarts, HoldersStay, HolderMovesCursor
<1> QED
  BY <1>1, <1>2, <1>3, <1>4, <1>5, <1>6, <1>7, <1>8 DEF Next, ControlPlane, Enqueueing

\* The invariant the theorems below rest on.
THEOREM Invariance == Spec => []Inv
  BY InitInv, NextInv, PTL DEF Spec

\* The tables keep their column types whatever workers, schedulers and
\* operators do (CollectionJobRecord and its neighbours).
THEOREM TypeCorrect == Spec => []TypeOK
<1>1. Inv => TypeOK
  BY DEF Inv
<1> QED
  BY <1>1, Invariance, PTL

\* The rows of one job agree with each other across the tables: it is owned
\* exactly while it runs, parked exactly while a checkpoint waits, dead-lettered
\* exactly when a dead letter is stored, and claimable only with budget left.
THEOREM RowsAgree ==
  Spec => [](RunningIffOwned /\ ParkedIffWaiting /\ DeadLetterIffBuried /\ ClaimableHasBudget)
<1>1. Inv => RunningIffOwned /\ ParkedIffWaiting /\ DeadLetterIffBuried /\ ClaimableHasBudget
  BY DEF Inv
<1> QED
  BY <1>1, Invariance, PTL

\* No lease is taken from a worker before it expires, whatever the lag between
\* the clocks of the processes that poll.
THEOREM ExclusiveLease == Spec => []LeaseIsExclusive
<1>1. Inv => LeaseIsExclusive
  BY DEF Inv, GrantKept, LeaseIsExclusive
<1> QED
  BY <1>1, Invariance, PTL

-----------------------------------------------------------------------------
(* Without priority refreshes a source has one flight at a time            *)

OneHolder == Inv /\ SingleFlight /\ HolderIsCurrent

\* The scheduler looks at every active status before it enqueues, one slot for
\* each source, so it never adds a second active job.
LEMMA ScheduleKeepsSingleFlight ==
  ASSUME SingleFlight, NEW t \in TxTimes, ScheduleDueJobs(t)
  PROVE  SingleFlight'
<1> DEFINE slot == SlotFor(t, Interval)
           due == {s \in Sources : allowed[s] /\ ~HasActiveJob(s)}
<1>1. ASSUME NEW j \in JobId, jobs'[j].status \in Active
      PROVE  jobs[j].status \in Active \/ (SourceOf(j) \in due /\ SlotOf(j) = slot)
  BY <1>1 DEF ScheduleDueJobs, Enqueue, SourceOf, SlotOf
<1>2. ASSUME NEW j \in JobId, jobs[j].status \in Active
      PROVE  SourceOf(j) \notin due
  BY <1>2 DEF HasActiveJob
<1>3. \A j, k \in JobId : SourceOf(j) = SourceOf(k) /\ SlotOf(j) = SlotOf(k) => j = k
  BY DEF JobId, SourceOf, SlotOf
<1> HIDE DEF due, slot
<1> QED
  BY <1>1, <1>2, <1>3 DEF SingleFlight

\* No step gives a source a second holder, so the holder works from its cursor.
LEMMA OneHolderNext ==
  ASSUME ~PriorityRefresh, OneHolder, [Next]_vars
  PROVE  OneHolder'
<1>1. Inv' /\ HoldersStay /\ HolderMovesCursor /\ (NothingStarts \/ Enqueueing)
  BY NextInv DEF OneHolder
<1>2. SingleFlight'
  <2>1. CASE NothingStarts
    BY <2>1 DEF NothingStarts, OneHolder, SingleFlight
  <2>2. CASE Enqueueing
    BY <2>2, ScheduleKeepsSingleFlight DEF Enqueueing, RequestPriorityRefresh, OneHolder
  <2> QED
    BY <1>1, <2>1, <2>2
<1>3. HolderIsCurrent'
  <2> SUFFICES ASSUME NEW v \in Workers, work'[v].job # NoJob, Owns(v)'
               PROVE  work'[v].base = cursors'[SourceOf(work'[v].job)]
    BY DEF HolderIsCurrent
  <2>1. CASE work'[v].base = cursors[SourceOf(work'[v].job)] /\ UNCHANGED cursors
    BY <2>1
  <2>2. CASE work'[v] = work[v] /\ Owns(v)
    <3> DEFINE k == work[v].job
    <3>1. k \in JobId /\ SourceOf(k) \in Sources
      BY <2>2, JobIdType DEF OneHolder, Inv, TypeOK, Work
    <3>2. work[v].base = cursors[SourceOf(k)]
      BY <2>2 DEF OneHolder, HolderIsCurrent
    <3>3. ASSUME cursors'[SourceOf(k)] # cursors[SourceOf(k)]
          PROVE  FALSE
      <4> PICK w \in Workers : /\ work[w].job # NoJob /\ Owns(w)
                               /\ SourceOf(work[w].job) = SourceOf(k)
                               /\ jobs'[work[w].job].status # "running"
        BY <1>1, <3>1, <3>3 DEF HolderMovesCursor
      <4>1. work[w].job \in JobId
        BY DEF OneHolder, Inv, TypeOK, Work
      <4>2. work[w].job = k
        BY <2>2, <3>1, <4>1 DEF OneHolder, SingleFlight, Owns, Active
      <4> QED
        BY <2>2, <4>2 DEF Owns
    <3> QED
      BY <2>2, <3>2, <3>3
  <2> QED
    BY <1>1, <2>1, <2>2 DEF HoldersStay
<1> QED
  BY <1>1, <1>2, <1>3 DEF OneHolder

\* Without priority refreshes this holds in every behaviour.
LEMMA OneHolderInvariance == ~PriorityRefresh => (Spec => []OneHolder)
<1> SUFFICES ASSUME ~PriorityRefresh PROVE Spec => []OneHolder
  OBVIOUS
<1>1. Init => OneHolder
  <2>1. Init => SingleFlight
    BY DEF Init, SingleFlight, NoRow, Active, Claimable
  <2>2. Init => HolderIsCurrent
    BY DEF Init, HolderIsCurrent, Idle
  <2> QED
    BY <2>1, <2>2, InitInv DEF OneHolder
<1>2. OneHolder /\ [Next]_vars => OneHolder'
  BY OneHolderNext
<1> QED
  BY <1>1, <1>2, PTL DEF Spec

\* When the scheduler is the only one to enqueue, has_active_job does what it is
\* for: a source never has two active jobs.
THEOREM OneFlight == ~PriorityRefresh => (Spec => []SingleFlight)
<1> SUFFICES ASSUME ~PriorityRefresh PROVE Spec => []SingleFlight
  OBVIOUS
<1>1. OneHolder => SingleFlight
  BY DEF OneHolder
<1> QED
  BY <1>1, OneHolderInvariance, PTL

\* Then no collection overwrites progress it has not read either.
THEOREM CursorsAreSerial == ~PriorityRefresh => (Spec => NoLostUpdate)
<1> SUFFICES ASSUME ~PriorityRefresh PROVE Spec => NoLostUpdate
  OBVIOUS
<1>1. ASSUME OneHolder, [Next]_vars
      PROVE  [\A s \in Sources :
                cursors'[s] # cursors[s] =>
                  /\ cursors'[s] = cursors[s] + 1
                  /\ \E w \in Workers : /\ work[w].job # NoJob
                                        /\ SourceOf(work[w].job) = s
                                        /\ work[w].base = cursors[s]
                                        /\ work'[w].job = NoJob]_vars
  <2>1. HolderMovesCursor
    BY <1>1, NextInv DEF OneHolder
  <2> QED
    BY <1>1, <2>1 DEF HolderMovesCursor, OneHolder, HolderIsCurrent
<1> QED
  BY <1>1, OneHolderInvariance, PTL DEF Spec, NoLostUpdate

=============================================================================
