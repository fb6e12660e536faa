# Formal models of the cyber intelligence platform

TLA+ modules, TLC configurations and TLAPS proofs for the parts of `cip` whose
correctness depends on the order of things: leases, retries, circuit breakers,
cursors, human checkpoints and historical backfills; evidence that arrives in
any order and the rows that are made of it; research plans and the rows that
open a conditional provider, both under requests that overlap. Everything is
translated from the Python source; paths below are relative to the repository.

`CO` stands for `src/cip/modules/collection_orchestration` and `SP` for
`src/cip/modules/source_portfolio`.

## The system

The platform collects public data through provider adapters, stores raw
observations and projects them into read models. It is one PostgreSQL database
and three kinds of process: a scheduler (`run_scheduler_forever`), any number of
workers (`run_worker_forever`) and the HTTP control plane. They share no memory;
every operation is a function that takes a SQLAlchemy session and runs in one
transaction (`session_scope` commits or rolls back as a whole).

| Component | State it keeps | Operations | What is hard | What makes it correct |
| --- | --- | --- | --- | --- |
| Collection queue (`CO`) | `collection_jobs`, `collection_circuits`, `collection_checkpoints` (cursors), `collection_dead_letters` | schedule, request a priority refresh, claim, complete, fail, fail with partial progress, recover leases | workers crash, are slow or answer late; several workers poll one queue; clocks lag | a lease is exclusive; one active job per source; no lost cursor update; budgets respected; every job settles |
| Human checkpoints (`CO`) | `collection_human_checkpoints` | pause, resume, cancel, expire, invalidate | four ways out of one wait race each other and the worker | parked exactly while waiting |
| Historical backfills (`SP`) | `backfill_partitions`, `source_health.current_backfill_state` | request, claim, complete, fail, pause, resume, cancel | no lease; reads that lock nothing; health kept in two places | documented state machine; five attempts; health tells the truth |
| Source catalog and execution gate (`SP`) | `source_portfolio.status` | sync, pause, resume, disable, enable, reconcile | status read and acted on in different transactions | no work for a source that may not execute |
| Source health (`SP`) | `source_health` | success, failure, freshness refresh | stored answers that grow stale; a quota nobody refills | the gate reopens when its reason is gone |
| Evidence projections (corporate changes, incidents, relationships, passive exposure, threat telemetry, corporate graph, procurement, public footprint, vulnerability applicability) | for each subject the snapshots ever delivered and one row that is read | deliver a page of records: insert the new snapshots, rebuild the row from all of them or move it forward | records arrive late, again and on two workers; revisions, supersession and expiry; nothing is locked | the row is what its evidence says; no verdict without standing evidence; no evidence that closes a subject |
| Research plans (`research_orchestration`) | `research_plans` and its revisions, decisions, steps, attempts | create or replace terms, decide, add and evaluate steps, begin, start and complete attempts | requests read, decide and write without a lock; idempotent replays; budgets counted at the time | decisions explain the state; a finished plan stays so; attempts only under authority, once per key |
| Provider onboarding (`provider_onboarding`) | one row per provider, and its profile in a file of every process | synchronise, start, record a checkpoint, register a secret, verify, revoke | operators in any order and at once; processes with different files | no secret in use that was not verified; a blocked provider is closed |
| Conditional integrations (`conditional_integrations`) | dossier with revisions, pause and kill switch | submit a dossier, decide on the control, evaluate an execution | replayed and overlapping decisions | the last decision made is the one in force; an allowed execution was earned |
| Delegated identities (`source_governance`) | identity rows, session files | register, establish, reuse, revoke | files and rows change in two steps, driven by a browser | revoked material stays gone (not modelled) |
| Everything else | read models | upserts of normalised records, pure scoring and parsing | data, not control | not modelled |

How they interact: the scheduler and the control plane insert jobs; a worker's
poll expires human checkpoints, recovers expired leases and claims one job in
one transaction, then asks the execution gate; the adapter runs outside any
transaction; the report writes observations, cursor, job, circuit and health in
one transaction. An idle poll is followed by one attempt to run a backfill
partition. Pausing or disabling a source changes both the gate's answer and the
partitions. The projections of a collection are written in the transaction of
its report, so two workers can be inside the projection of one subject at once.
An attempt of a research plan asks the same gates a collection does; what these
answer is one bit of `ResearchPlan` and the subject of `ProviderAccess`.

## Modules

| Module | What it is |
| --- | --- |
| `CollectionQueue` | the queue, its workers, circuits, cursors and human checkpoints; properties |
| `JobLifecycle` | what the queue promises about one job: leases it may lose, rests that cost nothing, an end that is final; `CollectionQueue` implements it |
| `Backfill` | the partitions of one source, its status and its backfill health; properties |
| `BackfillLifecycle` | the state machine of `docs/lots/LOT_10_SOURCE_PORTFOLIO_RUNTIME.md` with its budget, and the one exception a race may make |
| `SourceRecords` | what the evidence of all domains has in common: revisions, targets, expiry, attribution |
| `ChangeClaims`, `IncidentClaims`, `RelationshipEvidence`, `PassiveObservations`, `ThreatIndicators`, `GraphEdges` | per domain, what a refresh makes of the stored evidence |
| `AdvancedProjections` | rows that a delivery moves forward: procurement, public footprint, applicability |
| `ClaimProjection` | workers that deliver batches to one subject; composes the domains above; properties |
| `ResearchPlan` | one plan, its decisions, steps and attempts under overlapping requests; properties |
| `ProviderOnboarding` | what profiles and operators make of the onboarding row of one provider |
| `ConditionalProvider` | what dossier, control and onboarding state say of an execution |
| `ProviderAccess` | overlapping requests on these rows; composes the two modules above; properties |
| `CollectionQueueProofs`, `CollectionQueueLifecycleProofs`, `BackfillProofs`, `ClaimProjectionProofs`, `ResearchPlanProofs`, `ProviderAccessProofs` | theorems |
| `MCCollectionQueue`, `MCBackfill`, `MCClaimProjection`, `MCResearchPlan`, `MCProviderAccess` | settings, pools of inputs and symmetry for TLC |

An operator whose comment begins with "Faulty" is a plausible bug in the
definition that follows it. No specification uses it; `PROJECT.json` names the
property that catches it when it replaces the real one.

### CollectionQueue

One action is one transaction. A job is identified by its idempotency key
(source, adapter, slot; every source has one adapter), so the unique index is
the domain of `jobs`. What a worker holds between its two transactions is
`work[w]`: the job, the cursor version it was given, and the clock reading of
its claim.

| Variable or action | Code |
| --- | --- |
| `jobs`, `circuits`, `cursors`, `deadLetters`, `human` | `CO/infrastructure/models.py` |
| `ScheduleDueJobs` | `schedule_due_jobs`, over the schedules of allowed sources |
| `RequestPriorityRefresh` | `SP/application/priority.py` |
| `PollIdle`, `ClaimNextJob` | the first transaction of `run_worker_once`: `expire_human_checkpoints`, `recover_expired_leases`, the claim scan, the execution gate and `cancel_claimed_job` |
| `CompleteJob` | `_complete_success`, `complete_job` |
| `FailJob`, `FailWithPartialProgress` | `_record_failure`, `_record_partial_failure` |
| `PauseForHuman` | `_record_human_checkpoint`, `pause_claimed_job_for_human` |
| `LoseLease` | `LeaseLostError` |
| `CrashAndRestart` | a worker process that ends before its report commits |
| `ResumeCheckpoint`, `CancelCheckpoint`, `InvalidateCheckpointsForIdentity` | `repository_human_checkpoints.py` |
| `ToggleExecution` | whatever changes the answer of `source_execution_allowed` |
| `Tick` | the wall clock |

Details the model keeps because properties depend on them:

- The recovery query has no ORDER BY, and the order decides which failure opens
  the circuit: `RecoveryOrders` ranges over all of them.
- Sessions run with autoflush off. A second failure of a source without a
  circuit row inserts the row again and aborts the poll: `CircuitInsertedTwice`.
- The scan postpones rows behind an open circuit, half-opens a circuit that is
  due, and dead-letters a row without budget, for every row it passes before
  the one it takes (`PassedBefore`); rows of one slot come in any order.
- A transaction reads its clock before it opens. `ClockLag` bounds how far
  behind the state it finds that reading may be.
- A failure report is accepted after the lease has expired, as long as nobody
  recovered it; a completion or a pause is not.
- A checkpoint that has expired when it is stored becomes a failure that must
  not be retried.

Abstracted: observations and projections (written in the transaction of
`CompleteJob`, they have no state of their own here), error texts, audit rows,
the correlation token of a resumption. The cursor is a version number. A poll
is atomic: the job and circuit rows it changes are locked. SKIP LOCKED makes
two polls that overlap see disjoint rows, which is one poll after the other,
except that the second may find less; the model's next poll finds the rest.

`Lifecycle` reads a row as a job of `JobLifecycle`: its phase is its status
with the three kinds of waiting and the three of ending each taken together,
and the leases it has left to lose are `LeasesLeft`, the attempts its policy
allows less those spent, where a job under lease, parked or resumed has not lost
the attempt it is in. A job's budget is that of the policy of its kind, one of
`Budgets`.

Not modelled: `heartbeat_job`, which no worker calls; several schedulers (one
runs; what two could do is what `RequestPriorityRefresh` does).

### Backfill

One source. Partitions have no lease: the row's state alone says that somebody
runs it. A worker's transactions read what they do not lock: a claim the
catalog status, a failure report its partition, and all of them the health row.
Each such read is an action of its own (`CheckSource`, `LoadForClaim`,
`LoadForCompletion`, `CheckFailure`, `LoadForFailure`), what was read is kept in
`work`, and any other transaction may commit before the write
(`ClaimPartition`, `CompletePartition`, `WriteFailure`). The ORM leaves
`current_backfill_state` out of the UPDATE when the value to write is the one it
loaded (`SetHealth`): a claim that read "running", or a failure report that read
"failed", leaves standing what another worker committed meanwhile.

| Variable or action | Code |
| --- | --- |
| `status` | `source_portfolio.status` |
| `parts` | `backfill_partitions`; `created` is the batch, for ORDER BY created_at |
| `health` | `source_health.current_backfill_state` |
| `work` | where the worker is in `run_backfill_once`, its partition, the health it loaded |
| `raced` | history: a transaction committed on a value that had changed since it read it |
| `RequestBackfill`, `CancelBackfill` | `SP/application/backfill.py` |
| `SuspendSource` | `pause_source`, `disable_source` with `pause_pending_backfills` |
| `ResumeSource` | `resume_source`, `enable_source` with `resume_paused_backfills` |
| `CheckSource`, `LoadForClaim` | `source_execution_allowed`, whose `refresh_freshness` loads the health row |
| `ClaimPartition`, `ClaimNothing` | `claim_backfill_partition` |
| `LoadForCompletion`, `CompletePartition` | `record_collection_success`, `_complete_backfill_success` |
| `CheckFailure`, `LoadForFailure`, `WriteFailure` | `fail_backfill_partition` |
| `ProcessEnds` | a crash, or the `SourcePortfolioStateError` of a report on a partition that no longer runs, which nobody catches |

A claim passes over a row only when a failure report that is under way may have
locked it (`MayBeLocked`, SKIP LOCKED); otherwise the oldest partition goes
first. A success report flushes, and so locks, the health row before it reads
the partition; what other workers and operators write of partitions they write
with that row, so what follows the flush is one action.

What holds whatever overlaps: `NoneLeftPaused`, `RunsAreBudgeted`, and
`FollowsLifecycle`, where a failure report that commits on a partition that has
moved on fails it and sets `raced`. What the code loses to such a commit is
stated of histories without one (`~raced`): that a completed backfill is
complete, that the health row is faithful, that a cancelled partition stays so.

Operators' transactions are single steps: that one of them reads, another
transaction commits and the first then writes is listed under the hazards and
assumed away here. Sources whose lifecycle is controlled by target
reconciliation (`activation_requires`) are left out: no shipped one supports
backfills. Cursors, records written and error codes are abstracted.

### ClaimProjection

One subject of one domain; `domain` is chosen once, so a run checks all of
them. `ChangeClaims` and its siblings are pure: `Reconciled(S, t)` is what a
refresh at `t` makes of the evidence `S`, `Reconcilable(S)` whether it raises.

| Variable or action | Code |
| --- | --- |
| `stored` | `corporate_change_claim_snapshots`, `incident_claim_snapshots`, ... : snapshots, recognised by their digest |
| `row` | the event, incident, relationship, asset, indicator or edge row (`head`); for an advanced row `head` is the procedure or resource and `tail` the contract, statement or assessment |
| `tx` | the open transaction of each worker: batch, evidence and row it found, what it computed |
| `Begin` | the `persist_*` function of the domain up to its flush: row read or created, new snapshots inserted |
| `Refresh`, `Refuse` | the evidence read back and reconciled, or the error that rolls the batch back |
| `Commit` | the flush of the changed columns and the commit |
| `Crash` | a worker or connection that ends: rollback |
| `Tick` | the wall clock |

What the model keeps of the database: READ COMMITTED, so a statement sees what
is committed when it runs and the transaction's own rows; autoflush off with an
explicit flush between insertion and refresh; the ORM writes the columns whose
value changed since they were loaded (`Written`), so overlapping refreshes can
mix; an INSERT of a key that another transaction holds waits and then starts
over (`InsertsCollide`). A snapshot is a record of a few fields: its source
record, modification time, type, attribution, expiry, group, and the key it
supersedes. Versions of a page are recognised by page and content, publications
by notice and content (`SameVersion`): content that comes back is the version
that is stored, which keeps the time it was first delivered at and does not show
again. Of two publications of one time the one with the greater revision key
shows (`order`).

Overlapping deliveries do damage a row: nothing in the code prevents it. The
properties of the state are therefore stated for histories without such an
overlap (`~raced`), and `SolitaryDeliveryRepairs` says that in the rebuilt
domains the next delivery that meets no other one repairs the row, whatever
overlaps made of it.

### ResearchPlan

One plan. A request is two actions: the first reads the committed rows and
computes what it will write, the second commits. Requests that write nothing
(refused, or replayed) are not actions.

| Variable or action | Code (`src/cip/modules/research_orchestration/infrastructure`) |
| --- | --- |
| `plan`, `decisions`, `steps`, `attempts` | `models.py`; `plan.revision` is the revision key with the content it was hashed from |
| `gate` | the steps whose source governance, onboarding, control and quota allow; of an approved ingestion path a fixed choice (`Sourced`) |
| `Upsert` | `persist_research_plan` |
| `Decide` | `apply_research_plan_decision` and the transitions of `plan_control.py` |
| `CreateStep` | `persist_research_step` |
| `EvaluateStep` | `evaluate_and_persist_step_decision`, `usage.py` |
| `CreateAttempt`, `MarkStarted`, `CompleteAttempt` | `attempt_persistence.py` |
| `Commit`, `Rollback` | the session dependency of the API |
| `SourceChanges`, `Tick` | the other gates; the wall clock |

A decision carries the clock reading its request began with (`at`, the code's
`decided_at`). The list is in the order of commits, which no row keeps: readers
sort by `decided_at`. `DecisionsExplainState` therefore only says that some
recorded decision made the state, and, until a request writes over a plan it had
not read, that one of the newest did: of two decisions that overlap, the one
that began first may commit last, and then the newest does not explain the
state.

`Collides` keeps the unique keys of the plan, its steps and its attempts.
Whether the key of a revision or a decision was used before is not kept;
`Rollback` may end any request, so such refusals are among the behaviours.
`CompleteAttempt` reads the attempt and writes it later like every request.

### ProviderAccess

One conditional provider. Every onboarding request, a read included, first
brings the row in line with the profile in the catalog file of its process;
`Synced` is that, and every action of the section "Onboarding" begins with it.
A request that is refused rolls its synchronisation back, so it is no action.

| Variable or action | Code |
| --- | --- |
| `onboarding` | `provider_onboarding` |
| `approval` | `conditional_provider_approvals`, with the dossier of its revision key |
| `control` | `conditional_provider_runtime_controls` |
| `records` | history of audit rows, control decisions and verifications; forgotten once a request raced |
| `SyncCatalog` | `ensure_provider_catalog` in front of a read, or of a request on another provider |
| `Start`, `RecordCheckpoint`, `RegisterSecret`, `Verify`, `Revoke` | `provider_onboarding/application/service.py` |
| `SubmitDossier` | `persist_provider_approval` |
| `DecideControl` | `apply_persisted_control_decision` |
| `EvaluateEligibility` | `evaluate_and_audit_conditional_execution`, which creates the control row |
| `Commit`, `Rollback` | the session dependency of the API |

`Written` and `Merged` are again the changed columns: a verification that
overlaps a registration writes the state alone, two dossiers mix their columns.
A profile that no longer names a stored secret leaves a row that cannot be read
(`Readable`); the request of another provider can commit such a row.

What an overlap can do here, and no property denies: a verification connects a
provider whose reference was replaced meanwhile; a kill switch activated by a
request that read it active is lost to a request that clears it
(`docs/lots/LOT_22_CONDITIONAL_INTEGRATIONS.md:242` says that it blocks at
once); a dossier mixes two submissions. In `ResearchPlan`, a plan that was
cancelled is resumed by a decision that read it paused. In `ClaimProjection`,
an older publication overwrites a newer one
(`docs/lots/LOT_11_PROCUREMENT_CONTRACT_HISTORY.md:110` says it does not). They
are listed as hazards, with what the properties still guarantee.

## Runs

| Run | Expect | Bounds | What it shows |
| --- | --- | --- | --- |
| `queue_scheduled` | pass | one source, two workers, two slots, three attempts, `ClockLag` 1, no pause | leases, cursors and circuits under clock readings older than the state, with the scheduler as the only producer |
| `queue_priority` | pass | one source, two workers, a scheduled job with three attempts beside a priority job with one, one pause each | two active jobs of one source under two policies: two leases expire in one poll and are recovered in either order, one job is parked beside the other; nine properties, the refinement of `JobLifecycle` among them |
| `queue_liveness` | pass | two slots, two attempts, one pause, fairness | every job settles, and a source has one active job at a time through retries, pauses and resumptions |
| `queue_concurrent` | violation | scheduled and priority jobs, two attempts, no pause | two workers collect from one source at once |
| `queue_recovery` | violation | as `queue_concurrent`, fairness | two expired leases that are never recovered |
| `backfill` | pass | two partitions, two workers, three attempts, every overlap with the workers' transactions | budget, health, pauses and the refinement of `BackfillLifecycle` |
| `backfill_cancelled` | violation | two partitions, two attempts | a cancelled partition that becomes failed |
| `backfill_health` | violation | two partitions, two attempts, histories that are not raced | a pending backfill that does not exist |
| `claims` | pass | nine domains, two workers, pools of three to five snapshots, two clock values | rows follow their evidence in every order of delivery; verdicts are earned; late revisions change nothing; overlaps are repaired |
| `research` | pass | two clients, one automated step, two keys, two terms, two decisions | some decision explains the state, one of the newest unless a request raced; steps reflect attempts, attempts are authorised and permanent, under overlapping requests |
| `research_budget` | violation | one client, two steps, terms with room for one | a step evaluated again returns the budget it used |
| `access` | pass | two clients, one secret name, two references, three profiles, two dossiers | secrets in use were verified, a blocked provider is closed, allowed executions were earned, the next request repairs an overlap |

Why the bounds are enough. The queue's properties relate at most two workers
and one source: sources share no row, so one source is every source, and the
second worker is the one that recovers, claims and overtakes. Two slots give a
job with a successor, and with priority refreshes two active jobs. Three
attempts let a job reach the cap of its doubled delay; a circuit that opens on
the second failure opens, half-opens, reopens and closes within them. `Horizon`
bounds only the slots for which jobs are created; time then runs until no
deadline is left (`DeadlineAhead`), since nothing depends on it afterwards.
`MaxPauses` bounds how often a job is parked. Clock lag and pauses are split
over two runs, each with two jobs of one source; no property is about both. `ScanLimit` is the limit of the
claim statement, which two rows never reach. In `Backfill` nothing relates more
than two partitions and two workers: one partition is claimed or requested while
the other is run, reported on or paused; three attempts leave one between the
first and the last.

In `ClaimProjection` a race is two transactions, so two workers are enough.
Every pool has a record that is revised and a second record; where the domain
knows them, two records of a source that name each other, a second source and an
expiry at the last clock value; for the advanced domains, two versions of one
time, one without a date, and content that comes back. A page carries one snapshot, or two that name
each other. In `ResearchPlan` and `ProviderAccess`
two requests are an overlap, and a third one after them finds what they left.
Two terms, or three profiles, are one that allows and one that does not, in
both directions. Two decisions let a plan be approved and then paused, completed
or cancelled while the other client holds an older reading. `CrossRow = FALSE`
in `access` lets only requests on the same row overlap: all that a request
takes from another row is that controls and evaluations need a dossier, and a
dossier once there stays, so requests on different rows commute (the theorems do
not assume it). Once a request has raced, `records` is reset, which no property
reads from then on.

Symmetry: worker ids, partition keys, clients, idempotency keys and secret
references are only compared for equality, and no property of the symmetric
runs names one of them. `queue_liveness`, `queue_concurrent`, `queue_recovery`
and `research_budget` use none. Deadlock is checked in `access` and the runs of `Backfill`. It is not
elsewhere: those systems may rest, the queue when every job has settled at the
horizon, a subject at the horizon
when it is told nothing new, a plan whose attempts are complete.

Fairness (`FairSpec`): workers poll in an endless loop, an adapter call ends
because its transports have timeouts (or its process dies and a new one is
started), and the clock runs. No fairness on the scheduler, the operator or the
human: a parked job settles because its checkpoint expires.

## Findings

1. `queue_concurrent`: `request_priority_refresh` never asks `has_active_job`,
   so a source can be collected twice at once and the second completion
   overwrites the cursor of the first. `docs/ARCHITECTURE.md:213` says
   duplicate concurrent work is prevented.
2. `queue_recovery`: two expired leases of a source without a circuit row abort
   every poll of every worker on a duplicate insert. It needs two jobs of one
   source, that is finding 1, but then blocks the queue of all sources.
   `docs/PROJECT_DELIVERY_PLAN.md:102` names interruption recovery.
   Theorems locate both: without priority refreshes neither happens
   (`CollectionIsExclusive`, `RecoveryNeverAborts`), and with them a source whose
   first failure is on record is past the second one (`CircuitRowsStay`).
3. `backfill_cancelled`: a failure report reads without a lock and overwrites a
   cancellation that commits in between. `SP/domain/models.py:59` makes
   cancelled terminal. It needs that commit (`CancelledStays`), and no other
   operation does it (`LateReports`).
4. `backfill_health`: requesting a partition that exists sets the health row to
   pending whatever the partition's state.
   `docs/lots/LOT_10_VALIDATION_REPORT.md:60` promises a faithful state.
   No overlap is needed, and as long as no transaction commits on a value that
   has changed since it read it no other operation makes the row unfaithful
   (`RepeatsMislead`); overlaps mislead it in other ways.
5. `research_budget`: evaluating a step writes the result over whatever state it
   was in, a completed step included, and usage counts completed steps by that
   state: evaluating a completed step once more gives its share of `max_steps`
   back, and one step more than the terms allow is attempted to the end
   (`research_orchestration/infrastructure/decision_persistence.py:68`). No
   overlap is needed. `docs/lots/LOT_23_VALIDATION_REPORT.md:118` says that
   over-budget state fails closed. Evaluations are the only way to lose a
   completed step (`EvaluationsReopen`), and without it the budget holds
   (`BudgetHolds`).

## What is proved

For every number of sources, workers, partitions, clients and steps, every
policy, interval, pool, bound and clock lag, from the named assumptions of the
modules: `FiniteAssumption` and `SettingsAssumption` (the validation in
`RetryPolicy` and `SourceSchedule`), `BackfillAssumption`, `DomainAssumption`
and `BatchAssumption` (batches are finite, an advanced domain delivers one
record at a time, two revisions of a record differ in their time),
`PlanAssumption` and `AccessAssumption` (types of the inputs).

`CollectionQueueProofs`:

- `Invariance`: `Inv`, the conjunction of `TypeOK`, `RunningIffOwned`,
  `ClaimableHasBudget`, `ParkedIffWaiting`, `DeadLetterIffBuried`, `GrantKept`
  (as long as the lease a worker was granted has not run out its row is still
  its own and carries that lease) and `WorkIsEnqueued`. The properties are not
  inductive one by one: that a recovery does not take a held job needs
  `GrantKept`, and that the claim scan buries nothing needs `ClaimableHasBudget`.
- `TypeCorrect`, `RowsAgree` (`ParkedIffWaiting`, `DeadLetterIffBuried`,
  `ClaimableHasBudget`), `ExclusiveLease`: its conjuncts as properties.
- `OneFlight` (without priority refreshes): `SingleFlight`.
- `CursorsAreSerial` (without priority refreshes): `NoLostUpdate`, from
  `OneHolder` = `Inv`, `SingleFlight` and `HolderIsCurrent` (whoever holds the
  source's running job works from the stored cursor).

The proofs go row by row: lemmas say what recovery, the scan, a claim and a
report make of one job row, and each action lemma only cites those.

`CollectionQueueLifecycleProofs` rests on one more lemma about steps,
`NextSteps`: whatever a transaction does, every job row makes at most one of
seven moves (`RowStep`: created, granted, paused, resumed, retried, postponed,
closed), every circuit fails, is probed or is closed by a completion that moves
its cursor, and a row starts to run only behind a circuit that lets it. What a
poll does to a row in recovery and then in the scan composes to one such move.

- `CountedInvariance`: `Counted` is `Inv` with `KindsInUse` (jobs are of the
  kinds the producers make), `CircuitsInOrder` (a closed circuit has no time to
  reopen at, an opened one has reached the threshold of a policy in use) and
  `AttemptsCounted`.
- `AttemptsAreBounded`: `AttemptsCounted`. It is what makes `LeasesLeft` a
  positive number wherever `JobLifecycle` requeues or leases.
- `TerminalStays` (`TerminalIsFinal`), `OpenCircuitHolds`
  (`OpenCircuitBlocksClaims`): from the moves above.
- `QueueRefinesLifecycle`: `ImplementsLifecycle`, with priority refreshes too;
  each of the moves is a move of `JobLifecycle` or leaves `life` as it is.
- `SuccessCloses`: `OnlySuccessClosesCircuit` under `ThresholdsAlike`: no
  threshold in use exceeds another by two or more. `register_circuit_failure`
  takes the threshold from the job that fails, so a failure under a more
  tolerant policy can find an open circuit below its own threshold, and closes
  it. The hypothesis is what the proof needs and no more: with thresholds 1 and
  2 TLC finds the property kept, with 1 and 3 violated. The schedules under
  `policies/` use 2 and 3 and a priority refresh the default 3
  (`CO/domain/models.py:45`), and without priority refreshes one policy is in
  use, so the code as deployed satisfies it.
- `CollectionIsExclusive`, `RecoveryNeverAborts` (without priority refreshes),
  `CircuitRowsStay`: what findings 1 and 2 depend on.

`BackfillProofs`:

- `Invariance`: `TypeOK`, budgets, `BusyHolds` (a worker that collects or
  reports holds a partition that was requested), `NoneLeftPaused`,
  `CompletedMeansCompleted`. The last needs the others: what a completion writes
  is recomputed from rows that are known to exist.
- `TypeCorrect`, `BoundedRuns` and the part of `HealthAndPauses` that says
  `NoneLeftPaused`: whatever commits inside a worker's transaction. The other
  part, `CompletedMeansCompleted`, is about histories that are not raced.
- `ImplementsLifecycle`: `FollowsLifecycle`. Every step maps to a step of
  `BackfillLifecycle` or a stutter; a step that is not one of the documented
  moves is the failure report of a worker whose partition has moved on, and
  that step sets `raced`.
- `CancelledStays`: `CancelledIsFinal` as long as nothing raced. With races,
  `LateReports`: a completed or cancelled partition leaves its state only through
  `WriteFailure` of a worker that was already reporting on it.
- `RepeatsMislead`: a step that makes `HealthIsFaithful`, which is about
  histories that are not raced, false is a request for partitions that all
  exist, none of them pending. Every other operation writes a state it has just
  given to a partition, or recomputes it from the rows.

`ClaimProjectionProofs`:

- `Inv` is `TypeOK`, `WorkInv` (what a refreshed transaction computed is made of
  the evidence it read, which holds what it found stored and what it brings),
  `StoredInv` (evidence exists only with its row), `EvidenceIsReconcilable`,
  `RowIsRebuilt` and `RowShowsNewest`. The last three need `WorkInv`: that a
  commit leaves them true depends on what its refresh saw, two steps before.
- `TypeCorrect`, `RowsFollowTheEvidence`, `AdvancedRowsShowNewest`: invariants.
- `EarnedVerdicts`: from `RowIsRebuilt`, by what each domain's status rules say
  of the evidence they are given.
- `LateRevisionsAreInert`: `Newest` of the evidence with a late batch is
  `Newest` without it.
- `RepairedByTheNext`: `SolitaryDeliveryRepairs`.

`ResearchPlanProofs`:

- `Inv` has the types, what each request in flight holds (`PlanRequest`,
  `StepRequest`: a fresh one still carries what the rows say), `Carried` (a
  running step has a running attempt that no completion in flight is about to
  end without touching the step), and the explained and faithful history.
- `Invariance`, `TypeCorrect`, `DecisionsExplain` (`DecisionsExplainState`; its
  first half through every overlap, its second from `Timely`: until something
  races, a decision in flight is no older than those recorded), `SerialHistory` (`HistoryIsFaithful`),
  `StepsVouchedFor` (`StepsReflectAttempts`), `FinalStaysFinal`
  (`TerminalIsFinal`), `AuthorizedAttempts`, `PermanentAttempts`.
- `EvaluationsReopen`: a completed step becomes anything else only by the commit
  of a request that evaluated it. `BudgetHolds`: as long as none does,
  `BudgetFailsClosed` holds, whatever else overlaps. It needs `Vouched`, which is
  inductive with `Inv`: a completion in flight that will leave the step alone
  found a completed attempt of it, so every attempted step is counted.

`ProviderAccessProofs`:

- `Inv` has the types of rows and requests, `Exact` (a fresh request writes
  exactly the row it computed, although it writes single columns), `Covered`
  (as long as nothing raced, every secret in use is one the records hold),
  `BlockedIsClosed` and `RecordsExplainRows`.
- `Invariance`, `TypeCorrect`, `VerifiedSecrets` (`SecretsAreVerified`),
  `BlockedProvidersAreClosed`, `RecordsExplain`, `EarnedEligibility`,
  `SolitaryRepair` (`SolitaryRequestRepairs`).

Only model-checked: `EveryJobSettles`, since liveness and ENABLED are out of the
prover's reach. `NoConcurrentCollection`, `CancelledIsFinal` and
`BudgetFailsClosed` are violated by the code and proved under the stated
hypotheses only; `ExpiredLeaseIsRecovered` is a liveness property. Induction over data is
out of reach as well; the one recursive definition, the cost of a set of steps
(`CostOf`), is a recursive function no proof looks into. No module declares a
RECURSIVE operator.

## Not modelled

Of the modelled components:

- Queue: `heartbeat_job`; several schedulers; what a report writes besides.
- Source health: quotas, freshness and cost windows, numbers and dates that
  providers report; the catalog's synchronisation and target reconciliation.
- Backfills: the operators' transactions split where they read and write.
- Evidence projections: names and their scores, service mappings, parties, graph
  nodes and organisation identities, versions' predecessors, queries. They
  transform data and have no state the rows above depend on. Vulnerability
  knowledge merges records by alias besides rebuilding rows, and is left out
  whole.
- Research plans: results and source selection (pure), the rows that record an
  evaluation, the closed list of queries of persisted search. `in_progress` is
  a state the code knows and never writes; so does the model.
- Onboarding and conditional providers: the gates of an evaluation that read
  policies, portfolio, capability, health, quota, cost and the dates of a
  dossier (the model's `Allowed` is what is left, so the code allows less); the
  provider's kind, keys of revisions that collide, and the refusal of a control
  decision that is old or already recorded, all of which only refuse requests
  the model admits; `expires_at`, which is never
  set; browser and federated login.

Not at all: source governance and delegated identities (a session is a file
beside a row, driven by a browser), adapters, opportunity scoring, organisation
resolution, professional context, product analytics, the web interface, settings
and migrations: the notes in `PROJECT.json` give the reason for each. Most
transform data within one transaction and keep no protocol of their own.

What a continuation would gain most from: the operators' backfill transactions
split in two, with whose run a report ends; the source gate over health, quota
and freshness composed with the claims of the queue in place of
`ToggleExecution`; delegated identities with their files; proofs that the
projections of each domain refine one abstract row.
