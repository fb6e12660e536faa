------------------------------ MODULE Backfill ------------------------------
(***************************************************************************)
(* Historical backfills of one source (cip.modules.source_portfolio): the  *)
(* partitions an operator requests, the workers that collect them, the     *)
(* catalog status that pauses and resumes them, and the backfill state of  *)
(* the source's health row.                                                *)
(*                                                                         *)
(* Partitions carry no lease: a worker is known to hold one only by the    *)
(* row's state. A worker's transactions read what they do not lock: the    *)
(* claim its source's catalog status, a failure report its partition, and  *)
(* all of them the health row, whose backfill state is left out of the     *)
(* UPDATE when it equals the value that was read. Each such read is an     *)
(* action of its own, and others may commit before the write. The          *)
(* operators' transactions are single steps: they are taken not to overlap *)
(* one another.                                                            *)
(***************************************************************************)
EXTENDS Integers, FiniteSets

CONSTANTS
  Partitions,     \* partition keys an operator may request
  Workers,        \* worker processes
  NoPartition,    \* a worker that holds none
  MaxAttempts     \* MAX_BACKFILL_ATTEMPTS

ASSUME BackfillAssumption ==
  /\ IsFiniteSet(Partitions)
  /\ NoPartition \notin Partitions
  /\ MaxAttempts \in Nat \ {0}

VARIABLES
  status,     \* source_portfolio.status of the source
  parts,      \* backfill_partitions, by partition key
  health,     \* source_health.current_backfill_state, "none" for NULL
  work,       \* where each worker is in run_backfill_once, and what it has read
  raced       \* history: a transaction has committed on a value that had changed since

vars == <<status, parts, health, work, raced>>

Claimable == {"pending", "failed"}
Cancellable == {"pending", "running", "paused", "failed"}
BackfillState == Cancellable \cup {"completed", "cancelled"}

\* created: the batch a partition was requested in, 0 before.
Partition == [state : BackfillState \cup {"absent"}, attempts : Nat, created : Nat]
Idle == [at |-> "idle", part |-> NoPartition, health |-> "none"]

Init ==
  /\ status = "executable"
  /\ parts = [p \in Partitions |-> [state |-> "absent", attempts |-> 0, created |-> 0]]
  /\ health = "none"
  /\ work = [w \in Workers |-> Idle]
  /\ raced = FALSE

Existing == {p \in Partitions : parts[p].state # "absent"}
InState(S) == {p \in Partitions : parts[p].state \in S}

\* _transition_partitions
Transition(from, target) ==
  parts' = [p \in Partitions |-> IF parts[p].state \in from
                                   THEN [parts[p] EXCEPT !.state = target] ELSE parts[p]]

\* Faulty: a spelling that is not a BackfillState.
HealthMisspelt(rows) == "canceled"

\* Faulty: the health row takes the state a completion has just written.
HealthOfLast(rows) == "completed"

\* _refresh_backfill_health: the first of these states that a partition is in.
Precedence == <<"running", "pending", "failed", "paused", "cancelled", "completed">>

HealthOf(rows) ==
  LET found == {i \in 1..6 : \E p \in Partitions : rows[p].state = Precedence[i]} IN
  IF found = {} THEN "none"
  ELSE Precedence[CHOOSE i \in found : \A j \in found : i <= j]

-----------------------------------------------------------------------------
(* The control plane                                                       *)

\* request_backfill: a partition that exists is returned as it is.
RequestBackfill ==
  /\ status = "executable"
  /\ \E ids \in (SUBSET Partitions) \ {{}} :
       parts' = [p \in Partitions |->
                   IF p \in ids \ Existing
                     THEN [state |-> "pending", attempts |-> 0,
                           created |-> Cardinality(Existing) + 1]
                     ELSE parts[p]]
  /\ health' = "pending"
  /\ UNCHANGED <<status, work, raced>>

CancelBackfill ==
  /\ Transition(Cancellable, "cancelled")
  /\ health' = IF InState(Cancellable) # {} THEN "cancelled" ELSE HealthOf(parts)
  /\ UNCHANGED <<status, work, raced>>

PausePending ==
  /\ Transition({"pending", "running"}, "paused")
  /\ health' = IF InState({"pending", "running"}) # {} THEN "paused" ELSE health

\* Faulty: a resumption only looks at failed partitions.
ResumeFailed ==
  /\ Transition({"failed"}, "pending")
  /\ health' = "pending"

ResumePaused ==
  /\ Transition({"paused"}, "pending")
  /\ health' = IF InState({"paused"}) # {} THEN "pending" ELSE HealthOf(parts)

\* pause_source, disable_source: whatever the status was before.
SuspendSource ==
  /\ status' \in {"paused", "disabled"}
  /\ PausePending
  /\ UNCHANGED <<work, raced>>

\* resume_source from any status, enable_source from disabled.
ResumeSource ==
  /\ status' = "executable"
  /\ ResumePaused
  /\ UNCHANGED <<work, raced>>

-----------------------------------------------------------------------------
(* The worker                                                              *)

Goes(w, at, part) ==
  work' = [work EXCEPT ![w] = [at |-> at, part |-> part, health |-> "none"]]

\* get_health_record: the row the transaction goes on to write.
LoadsHealth(w, from, to) ==
  /\ work[w].at = from
  /\ work' = [work EXCEPT ![w] = [at |-> to, part |-> @.part, health |-> health]]
  /\ UNCHANGED <<status, parts, health, raced>>

\* set_backfill_health: a column that equals what was loaded is not written.
SetHealth(w, state) == health' = IF work[w].health = state THEN health ELSE state

\* What was read is no longer what is committed.
Raced(stale) == raced' = (raced \/ stale)

\* source_execution_allowed reads the status the claim will test ...
CheckSource(w) ==
  /\ work[w].at = "idle"
  /\ status = "executable"
  /\ Goes(w, "eligible", NoPartition)
  /\ UNCHANGED <<status, parts, health, raced>>

\* ... and refreshes the freshness: the health row is locked from its flush on,
\* so that claims and completions commit one after the other.
LoadForClaim(w) == LoadsHealth(w, "eligible", "claiming")

\* Faulty: off by one.
UnspentOrLast == {p \in InState(Claimable) : parts[p].attempts <= MaxAttempts}

Unspent == {p \in InState(Claimable) : parts[p].attempts < MaxAttempts}

\* A failure report that waits for the health row may have locked its partition.
MayBeLocked == {p \in Partitions : \E w \in Workers : work[w].at = "reporting" /\ work[w].part = p}

\* claim_backfill_partition: the oldest partition that has attempts left. SKIP
\* LOCKED passes over those another open transaction holds.
ClaimPartition(w) ==
  /\ work[w].at = "claiming"
  /\ \E p \in Unspent :
       /\ \A q \in Unspent \ MayBeLocked : parts[p].created <= parts[q].created
       /\ parts' = [parts EXCEPT ![p].state = "running", ![p].attempts = @ + 1]
       /\ Goes(w, "collecting", p)
  /\ SetHealth(w, "running")
  /\ Raced(status # "executable" \/ work[w].health # health)
  /\ UNCHANGED status

ClaimNothing(w) ==
  /\ work[w].at = "claiming"
  /\ Unspent \subseteq MayBeLocked
  /\ Goes(w, "idle", NoPartition)
  /\ UNCHANGED <<status, parts, health, raced>>

\* Faulty: a report is taken whatever became of the partition.
StillHeld(p) == TRUE

StillRunning(p) == parts[p].state = "running"

\* record_collection_success, before anything of the partition is read.
LoadForCompletion(w) == LoadsHealth(w, "collecting", "completing")

\* _complete_backfill_success, from the flush that locks the health row on.
CompletePartition(w) ==
  /\ work[w].at = "completing"
  /\ StillRunning(work[w].part)
  /\ parts' = [parts EXCEPT ![work[w].part].state = "completed"]
  /\ SetHealth(w, HealthOf(parts'))
  /\ Raced(work[w].health # health)
  /\ Goes(w, "idle", NoPartition)
  /\ UNCHANGED status

\* fail_backfill_partition reads the row without a lock ...
CheckFailure(w) ==
  /\ work[w].at = "collecting"
  /\ StillRunning(work[w].part)
  /\ Goes(w, "failing", work[w].part)
  /\ UNCHANGED <<status, parts, health, raced>>

LoadForFailure(w) == LoadsHealth(w, "failing", "reporting")

\* ... and writes it, by its id alone.
WriteFailure(w) ==
  /\ work[w].at = "reporting"
  /\ \E retryable \in BOOLEAN :
       parts' = [parts EXCEPT ![work[w].part].state = "failed",
                              ![work[w].part].attempts = IF retryable THEN @ ELSE MaxAttempts]
  /\ SetHealth(w, "failed")
  /\ Raced(parts[work[w].part].state # "running" \/ work[w].health # health)
  /\ Goes(w, "idle", NoPartition)
  /\ UNCHANGED status

\* A report on a partition that no longer runs raises an error nobody catches;
\* so does a crash. The transaction is rolled back and the process restarts.
ProcessEnds(w) ==
  /\ work[w].at # "idle"
  /\ Goes(w, "idle", NoPartition)
  /\ UNCHANGED <<status, parts, health, raced>>

Next ==
  \/ RequestBackfill \/ CancelBackfill \/ SuspendSource \/ ResumeSource
  \/ \E w \in Workers :
       \/ CheckSource(w) \/ LoadForClaim(w) \/ ClaimPartition(w) \/ ClaimNothing(w)
       \/ LoadForCompletion(w) \/ CompletePartition(w)
       \/ CheckFailure(w) \/ LoadForFailure(w) \/ WriteFailure(w)
       \/ ProcessEnds(w)

Spec == Init /\ [][Next]_vars

-----------------------------------------------------------------------------
(* Properties                                                              *)

\* Every variable holds a value of its column's type.
TypeOK ==
  /\ status \in {"executable", "paused", "disabled"}
  /\ parts \in [Partitions -> Partition]
  /\ health \in BackfillState \cup {"none"}
  /\ work \in [Workers -> [at : {"idle", "eligible", "claiming", "collecting", "completing",
                                 "failing", "reporting"},
                           part : Partitions \cup {NoPartition},
                           health : BackfillState \cup {"none"}]]
  /\ raced \in BOOLEAN

\* A run is charged to its partition, is never refunded by a pause, a
\* resumption, a second request or a late report, and the budget bounds the runs.
RunsAreBudgeted ==
  [][\A p \in Partitions :
       /\ parts'[p].attempts >= parts[p].attempts
       /\ parts'[p].attempts <= MaxAttempts
       /\ (parts[p].state # "running" /\ parts'[p].state = "running")
            => parts'[p].attempts > parts[p].attempts]_vars

\* The health row reports a completed backfill only when every partition that
\* was ever requested is completed, however requests, claims, cancellations and
\* reports interleave, as long as none commits on a value that has changed since
\* it was read: a report that read "failed" leaves a later "completed" standing.
CompletedMeansCompleted ==
  ~raced /\ health = "completed" =>
    Existing # {} /\ \A p \in Existing : parts[p].state = "completed"

\* While the source may execute no partition is left paused, in whatever order
\* it was paused, disabled, resumed and enabled, also when a worker claimed on a
\* status read before.
NoneLeftPaused == status = "executable" => InState({"paused"}) = {}

\* A backfill state is only reported when there is a partition, and the state
\* that is reported is the state of one of them, as long as nothing commits on a
\* value that has changed since it was read.
HealthIsFaithful == ~raced /\ health # "none" => InState({health}) # {}

\* A cancelled partition stays cancelled (BackfillState.is_terminal).
CancelledIsFinal ==
  [][\A p \in Partitions : parts[p].state = "cancelled" => parts'[p].state = "cancelled"]_vars

Lifecycle == INSTANCE BackfillLifecycle WITH
  life <- [p \in Partitions |-> [state |-> parts[p].state, attempts |-> parts[p].attempts]]

\* Partitions follow the documented state machine, five attempts at most; a
\* report that commits on a partition that has moved on may only fail it.
FollowsLifecycle == Lifecycle!Spec
=============================================================================
