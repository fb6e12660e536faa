---------------------------- MODULE BackfillProofs ----------------------------
(***************************************************************************)
(* Proofs about backfills, for any set of partitions and workers, any      *)
(* budget, and whatever commits inside the workers' transactions. What     *)
(* holds only while nothing commits on a value that has changed since it   *)
(* was read says so: ~raced.                                               *)
(***************************************************************************)
EXTENDS Backfill, FiniteSetTheorems, TLAPS

-----------------------------------------------------------------------------
(* The health a set of rows has                                            *)

\* A row is in the state HealthOf names, which no state of a higher rank
\* outdoes: "completed" comes last.
LEMMA HealthOfRows ==
  ASSUME NEW rows, \A p \in Partitions : rows[p].state \in BackfillState \cup {"absent"}
  PROVE  /\ HealthOf(rows) \in BackfillState \cup {"none"}
         /\ HealthOf(rows) = "completed" =>
              /\ \E p \in Partitions : rows[p].state = "completed"
              /\ \A p \in Partitions : rows[p].state \in {"completed", "absent"}
<1> DEFINE found == {i \in 1..6 : \E p \in Partitions : rows[p].state = Precedence[i]}
           first == CHOOSE i \in found : \A j \in found : i <= j
<1>1. CASE found = {}
  BY <1>1 DEF HealthOf
<1>2. CASE found # {}
  <2>1. \E i \in found : \A j \in found : i <= j
    <3>1. CASE 1 \in found
      BY <3>1
    <3>2. CASE 1 \notin found /\ 2 \in found
      BY <3>2
    <3>3. CASE 1 \notin found /\ 2 \notin found /\ 3 \in found
      BY <3>3
    <3>4. CASE 1 \notin found /\ 2 \notin found /\ 3 \notin found /\ 4 \in found
      BY <3>4
    <3>5. CASE 1 \notin found /\ 2 \notin found /\ 3 \notin found /\ 4 \notin found
      BY <1>2, <3>5
    <3> QED
      BY <3>1, <3>2, <3>3, <3>4, <3>5
  <2>2. first \in found /\ \A j \in found : first <= j
    BY <2>1
  <2>3. HealthOf(rows) = Precedence[first]
    BY <1>2 DEF HealthOf
  <2>8. first \in {1, 2, 3, 4, 5, 6}
    BY <2>2
  <2>9. /\ Precedence[1] = "running" /\ Precedence[2] = "pending" /\ Precedence[3] = "failed"
        /\ Precedence[4] = "paused" /\ Precedence[5] = "cancelled"
        /\ Precedence[6] = "completed"
    BY DEF Precedence
  <2>4. Precedence[first] \in BackfillState
    BY <2>8, <2>9 DEF BackfillState, Cancellable
  <2>5. ASSUME Precedence[first] = "completed"
        PROVE  /\ \E p \in Partitions : rows[p].state = "completed"
               /\ \A p \in Partitions : rows[p].state \in {"completed", "absent"}
    <3>1. first = 6
      BY <2>8, <2>9, <2>5
    <3>2. \A j \in 1..5 : j \notin found
      BY <2>2, <3>1
    <3>3. \A p \in Partitions : \A j \in 1..5 : rows[p].state # Precedence[j]
      BY <3>2
    <3>4. \A p \in Partitions : rows[p].state \in {"completed", "absent"}
      BY <3>3 DEF Precedence, BackfillState, Cancellable
    <3> QED
      BY <2>2, <2>5, <3>4
  <2> QED
    BY <2>3, <2>4, <2>5
<1> QED
  BY <1>1, <1>2

-----------------------------------------------------------------------------
(* Types, budget and the pause invariant                                   *)

Budgeted == \A p \in Partitions :
              /\ parts[p].attempts <= MaxAttempts
              /\ parts[p].state = "absent" => parts[p].attempts = 0
Busy == {"collecting", "completing", "failing", "reporting"}
BusyHolds == \A w \in Workers : work[w].at \in Busy => work[w].part \in Existing

Inv == TypeOK /\ Budgeted /\ BusyHolds /\ NoneLeftPaused /\ CompletedMeansCompleted

USE DEF Partition, BackfillState, Cancellable, Claimable, Busy

\* No partition exists initially.
LEMMA InitInv == Init => Inv
<1> SUFFICES ASSUME Init PROVE Inv
  OBVIOUS
<1>1. TypeOK
  BY DEF Init, TypeOK, Idle
<1>2. Budgeted /\ BusyHolds /\ NoneLeftPaused /\ CompletedMeansCompleted
  BY BackfillAssumption DEF Init, Budgeted, BusyHolds, NoneLeftPaused, InState,
     CompletedMeansCompleted, Idle
<1> QED
  BY <1>1, <1>2 DEF Inv

\* A bulk transition keeps every row well typed and charges nothing.
LEMMA TransitionRows ==
  ASSUME TypeOK, NEW from, NEW target \in BackfillState, Transition(from, target)
  PROVE  /\ parts' \in [Partitions -> Partition]
         /\ \A p \in Partitions :
              /\ parts'[p].attempts = parts[p].attempts
              /\ parts'[p].state = IF parts[p].state \in from THEN target ELSE parts[p].state
         /\ InState(from) = {} => parts' = parts
<1>1. parts \in [Partitions -> Partition]
  BY DEF TypeOK
<1>2. /\ parts' \in [Partitions -> Partition]
      /\ \A p \in Partitions :
           /\ parts'[p].attempts = parts[p].attempts
           /\ parts'[p].state = IF parts[p].state \in from THEN target ELSE parts[p].state
  BY <1>1 DEF Transition
<1>3. ASSUME InState(from) = {} PROVE parts' = parts
  <2>1. \A p \in Partitions : parts[p].state \notin from
    BY <1>3 DEF InState
  <2>2. \A p \in Partitions : parts'[p] = parts[p]
    BY <2>1 DEF Transition
  <2> QED
    BY <1>1, <1>2, <2>2
<1> QED
  BY <1>2, <1>3

\* A request creates pending rows and reports a pending backfill.
LEMMA RequestInv == Inv /\ RequestBackfill => Inv'
<1> SUFFICES ASSUME Inv, RequestBackfill PROVE Inv'
  OBVIOUS
<1>1. parts \in [Partitions -> Partition]
  BY DEF Inv, TypeOK
<1>2. PICK ids \in (SUBSET Partitions) \ {{}} :
        parts' = [p \in Partitions |->
                    IF p \in ids \ Existing
                      THEN [state |-> "pending", attempts |-> 0,
                            created |-> Cardinality(Existing) + 1]
                      ELSE parts[p]]
  BY DEF RequestBackfill
<1>3. Cardinality(Existing) + 1 \in Nat
  <2>1. IsFiniteSet(Existing)
    BY BackfillAssumption, FS_Subset DEF Existing
  <2> QED
    BY <2>1, FS_CardinalityType
<1>4. /\ parts' \in [Partitions -> Partition]
      /\ \A p \in Partitions : \/ parts'[p] = parts[p]
                               \/ parts'[p].state = "pending" /\ parts'[p].attempts = 0
  BY <1>1, <1>2, <1>3
<1>5. TypeOK' /\ BusyHolds'
  BY <1>4 DEF Inv, TypeOK, BusyHolds, Existing, RequestBackfill
<1>6. Budgeted'
  BY <1>4, BackfillAssumption DEF Inv, Budgeted
<1>7. NoneLeftPaused' /\ CompletedMeansCompleted'
  BY <1>4 DEF Inv, NoneLeftPaused, CompletedMeansCompleted, InState, RequestBackfill
<1> QED
  BY <1>5, <1>6, <1>7 DEF Inv

\* A cancellation, when there was nothing to cancel, recomputes the health.
LEMMA CancelInv == Inv /\ CancelBackfill => Inv'
<1> SUFFICES ASSUME Inv, CancelBackfill PROVE Inv'
  OBVIOUS
<1>1. /\ parts' \in [Partitions -> Partition]
      /\ \A p \in Partitions :
           /\ parts'[p].attempts = parts[p].attempts
           /\ parts'[p].state = IF parts[p].state \in Cancellable THEN "cancelled"
                                ELSE parts[p].state
      /\ InState(Cancellable) = {} => parts' = parts
  BY TransitionRows DEF Inv, CancelBackfill
<1>2. \A p \in Partitions : parts[p].state \in BackfillState \cup {"absent"}
  BY DEF Inv, TypeOK
<1>3. TypeOK' /\ BusyHolds'
  BY <1>1, <1>2, HealthOfRows DEF Inv, TypeOK, BusyHolds, Existing, CancelBackfill
<1>4. Budgeted' /\ NoneLeftPaused'
  BY <1>1, <1>2 DEF Inv, Budgeted, NoneLeftPaused, InState, CancelBackfill
<1>5. CompletedMeansCompleted'
  <2> SUFFICES ASSUME ~raced', health' = "completed"
               PROVE  Existing' # {} /\ \A p \in Existing' : parts'[p].state = "completed"
    BY DEF CompletedMeansCompleted
  <2>1. InState(Cancellable) = {} /\ HealthOf(parts) = "completed"
    BY DEF CancelBackfill
  <2>2. parts' = parts
    BY <1>1, <2>1
  <2> QED
    BY <1>2, <2>1, <2>2, HealthOfRows DEF Existing
<1> QED
  BY <1>3, <1>4, <1>5 DEF Inv

\* A pause takes the source out of execution.
LEMMA SuspendInv == Inv /\ SuspendSource => Inv'
<1> SUFFICES ASSUME Inv, SuspendSource PROVE Inv'
  OBVIOUS
<1>1. /\ parts' \in [Partitions -> Partition]
      /\ \A p \in Partitions :
           /\ parts'[p].attempts = parts[p].attempts
           /\ parts'[p].state = IF parts[p].state \in {"pending", "running"} THEN "paused"
                                ELSE parts[p].state
      /\ InState({"pending", "running"}) = {} => parts' = parts
  BY TransitionRows DEF Inv, SuspendSource, PausePending
<1>2. TypeOK' /\ BusyHolds' /\ Budgeted' /\ NoneLeftPaused'
  BY <1>1 DEF Inv, TypeOK, BusyHolds, Existing, Budgeted, NoneLeftPaused, SuspendSource,
     PausePending
<1>3. CompletedMeansCompleted'
  <2> SUFFICES ASSUME ~raced', health' = "completed"
               PROVE  Existing' # {} /\ \A p \in Existing' : parts'[p].state = "completed"
    BY DEF CompletedMeansCompleted
  <2>1. InState({"pending", "running"}) = {} /\ health = "completed"
    BY DEF SuspendSource, PausePending
  <2> QED
    BY <1>1, <2>1 DEF Inv, CompletedMeansCompleted, Existing, SuspendSource
<1> QED
  BY <1>2, <1>3 DEF Inv

\* A resumption leaves no row paused.
LEMMA ResumeInv == Inv /\ ResumeSource => Inv'
<1> SUFFICES ASSUME Inv, ResumeSource PROVE Inv'
  OBVIOUS
<1>1. /\ parts' \in [Partitions -> Partition]
      /\ \A p \in Partitions :
           /\ parts'[p].attempts = parts[p].attempts
           /\ parts'[p].state = IF parts[p].state \in {"paused"} THEN "pending"
                                ELSE parts[p].state
      /\ InState({"paused"}) = {} => parts' = parts
  BY TransitionRows DEF Inv, ResumeSource, ResumePaused
<1>2. \A p \in Partitions : parts[p].state \in BackfillState \cup {"absent"}
  BY DEF Inv, TypeOK
<1>3. TypeOK' /\ BusyHolds'
  BY <1>1, <1>2, HealthOfRows DEF Inv, TypeOK, BusyHolds, Existing, ResumeSource, ResumePaused
<1>4. Budgeted' /\ NoneLeftPaused'
  BY <1>1 DEF Inv, Budgeted, NoneLeftPaused, InState
<1>5. CompletedMeansCompleted'
  <2> SUFFICES ASSUME ~raced', health' = "completed"
               PROVE  Existing' # {} /\ \A p \in Existing' : parts'[p].state = "completed"
    BY DEF CompletedMeansCompleted
  <2>1. InState({"paused"}) = {} /\ HealthOf(parts) = "completed"
    BY DEF ResumeSource, ResumePaused
  <2>2. parts' = parts
    BY <1>1, <2>1
  <2> QED
    BY <1>2, <2>1, <2>2, HealthOfRows DEF Existing
<1> QED
  BY <1>3, <1>4, <1>5 DEF Inv

\* A step of a worker that touches no row changes only what the worker does.
LEMMA WorkerMovesInv ==
  ASSUME Inv, NEW w \in Workers,
         NEW step \in [at : {"idle", "eligible", "claiming"} \cup Busy,
                      part : Partitions \cup {NoPartition},
                      health : BackfillState \cup {"none"}],
         step.at \in Busy => step.part \in Existing,
         work' = [work EXCEPT ![w] = step], UNCHANGED <<status, parts, health, raced>>
  PROVE  Inv'
<1>1. TypeOK' /\ BusyHolds'
  BY DEF Inv, TypeOK, BusyHolds, Existing
<1>2. Budgeted' /\ NoneLeftPaused' /\ CompletedMeansCompleted'
  BY DEF Inv, Budgeted, NoneLeftPaused, CompletedMeansCompleted, InState, Existing
<1> QED
  BY <1>1, <1>2 DEF Inv

\* Reading the health row is such a step.
LEMMA LoadsInv ==
  ASSUME Inv, NEW w \in Workers,
         NEW from \in {"eligible", "collecting", "failing"},
         NEW to \in {"claiming", "completing", "reporting"},
         to \in Busy => from \in Busy,
         LoadsHealth(w, from, to)
  PROVE  Inv'
<1> DEFINE step == [at |-> to, part |-> work[w].part, health |-> health]
<1>1. work[w] \in [at : {"idle", "eligible", "claiming"} \cup Busy,
                   part : Partitions \cup {NoPartition}, health : BackfillState \cup {"none"}]
  BY DEF Inv, TypeOK
<1>2. work' = [work EXCEPT ![w] = step]
  BY DEF LoadsHealth
<1>3. step \in [at : {"idle", "eligible", "claiming"} \cup Busy,
                part : Partitions \cup {NoPartition}, health : BackfillState \cup {"none"}]
  BY <1>1 DEF Inv, TypeOK
<1>4. step.at \in Busy => step.part \in Existing
  BY DEF LoadsHealth, Inv, BusyHolds
<1> QED
  BY <1>2, <1>3, <1>4, WorkerMovesInv DEF LoadsHealth

\* So are the other steps that only move a worker.
LEMMA GoesInv ==
  ASSUME Inv, NEW w \in Workers,
         NEW at \in {"idle", "eligible", "failing"}, NEW part \in Partitions \cup {NoPartition},
         at = "failing" => part \in Existing,
         Goes(w, at, part), UNCHANGED <<status, parts, health, raced>>
  PROVE  Inv'
<1> DEFINE step == [at |-> at, part |-> part, health |-> "none"]
<1>1. /\ step \in [at : {"idle", "eligible", "claiming"} \cup Busy,
                   part : Partitions \cup {NoPartition}, health : BackfillState \cup {"none"}]
      /\ step.at \in Busy => step.part \in Existing
  OBVIOUS
<1> QED
  BY <1>1, WorkerMovesInv DEF Goes

\* What a worker writes into the health row, and when it is what it means to.
LEMMA SetHealthWrites ==
  ASSUME NEW w \in Workers, NEW state, SetHealth(w, state)
  PROVE  /\ health' \in {health, state}
         /\ work[w].health = health => health' = state
  BY DEF SetHealth

\* A claim is charged.
LEMMA ClaimInv == \A w \in Workers : Inv /\ ClaimPartition(w) => Inv'
<1> SUFFICES ASSUME Inv, NEW w \in Workers, ClaimPartition(w) PROVE Inv'
  OBVIOUS
<1>1. parts \in [Partitions -> Partition]
  BY DEF Inv, TypeOK
<1>2. PICK p \in Unspent :
        /\ parts' = [parts EXCEPT ![p].state = "running", ![p].attempts = @ + 1]
        /\ Goes(w, "collecting", p)
  BY DEF ClaimPartition
<1>3. p \in Partitions /\ parts[p].attempts < MaxAttempts
  BY <1>2 DEF Unspent, InState
<1>4. /\ parts' \in [Partitions -> Partition]
      /\ parts'[p].state = "running" /\ parts'[p].attempts = parts[p].attempts + 1
      /\ \A q \in Partitions \ {p} : parts'[q] = parts[q]
  BY <1>1, <1>2, <1>3
<1>5. health' \in {health, "running"} /\ (~raced' => health' = "running")
  BY SetHealthWrites DEF ClaimPartition, Raced
<1>6. TypeOK' /\ BusyHolds'
  BY <1>2, <1>3, <1>4, <1>5 DEF Inv, TypeOK, BusyHolds, Existing, Goes, ClaimPartition, Raced
<1>7. Budgeted'
  BY <1>1, <1>3, <1>4, BackfillAssumption DEF Inv, Budgeted
<1>8. NoneLeftPaused' /\ CompletedMeansCompleted'
  BY <1>3, <1>4, <1>5 DEF Inv, NoneLeftPaused, CompletedMeansCompleted, InState, ClaimPartition
<1> QED
  BY <1>6, <1>7, <1>8 DEF Inv

\* A completion recomputes the health from all the rows.
LEMMA CompleteInv == \A w \in Workers : Inv /\ CompletePartition(w) => Inv'
<1> SUFFICES ASSUME Inv, NEW w \in Workers, CompletePartition(w) PROVE Inv'
  OBVIOUS
<1> DEFINE p == work[w].part
<1>1. parts \in [Partitions -> Partition] /\ p \in Partitions
  BY DEF Inv, TypeOK, BusyHolds, Existing, CompletePartition
<1>2. /\ parts' \in [Partitions -> Partition]
      /\ parts'[p].state = "completed" /\ parts'[p].attempts = parts[p].attempts
      /\ \A q \in Partitions \ {p} : parts'[q] = parts[q]
  BY <1>1 DEF CompletePartition
<1>3. \A q \in Partitions : parts'[q].state \in BackfillState \cup {"absent"}
  BY <1>2
<1>4. /\ health' \in {health, HealthOf(parts')}
      /\ ~raced' => health' = HealthOf(parts')
  BY SetHealthWrites DEF CompletePartition, Raced
<1>5. TypeOK' /\ BusyHolds'
  <2>1. health' \in BackfillState \cup {"none"}
    BY <1>3, <1>4, HealthOfRows DEF Inv, TypeOK
  <2> QED
    BY <1>2, <2>1 DEF Inv, TypeOK, BusyHolds, Existing, Goes, CompletePartition, Raced
<1>6. Budgeted' /\ NoneLeftPaused'
  BY <1>1, <1>2 DEF Inv, Budgeted, NoneLeftPaused, InState, CompletePartition
<1>7. CompletedMeansCompleted'
  BY <1>3, <1>4, HealthOfRows DEF CompletedMeansCompleted, Existing
<1> QED
  BY <1>5, <1>6, <1>7 DEF Inv

\* A failure charges at most the whole budget.
LEMMA FailureInv == \A w \in Workers : Inv /\ WriteFailure(w) => Inv'
<1> SUFFICES ASSUME Inv, NEW w \in Workers, WriteFailure(w) PROVE Inv'
  OBVIOUS
<1> DEFINE p == work[w].part
<1>1. parts \in [Partitions -> Partition] /\ p \in Partitions
  BY DEF Inv, TypeOK, BusyHolds, Existing, WriteFailure
<1>2. /\ parts' \in [Partitions -> Partition]
      /\ parts'[p].state = "failed"
      /\ parts'[p].attempts \in {parts[p].attempts, MaxAttempts}
      /\ \A q \in Partitions \ {p} : parts'[q] = parts[q]
  BY <1>1, BackfillAssumption DEF WriteFailure
<1>3. health' \in {health, "failed"} /\ (~raced' => health' = "failed")
  BY SetHealthWrites DEF WriteFailure, Raced
<1>4. TypeOK' /\ BusyHolds'
  <2>1. raced' \in BOOLEAN
    BY DEF WriteFailure, Raced
  <2>2. work' \in [Workers -> [at : {"idle", "eligible", "claiming"} \cup Busy,
                              part : Partitions \cup {NoPartition},
                              health : BackfillState \cup {"none"}]]
    BY DEF Inv, TypeOK, Goes, WriteFailure
  <2>3. TypeOK'
    BY <1>2, <1>3, <2>1, <2>2 DEF Inv, TypeOK, WriteFailure
  <2>4. BusyHolds'
    BY <1>2 DEF Inv, TypeOK, BusyHolds, Existing, Goes, WriteFailure
  <2> QED
    BY <2>3, <2>4
<1>5. Budgeted'
  <2>1. parts[p].attempts <= MaxAttempts /\ parts[p].state # "absent"
    BY <1>1 DEF Inv, Budgeted, BusyHolds, Existing, WriteFailure
  <2> QED
    BY <1>1, <1>2, <2>1, BackfillAssumption DEF Inv, Budgeted
<1>6. NoneLeftPaused' /\ CompletedMeansCompleted'
  BY <1>1, <1>2, <1>3 DEF Inv, NoneLeftPaused, CompletedMeansCompleted, InState, WriteFailure
<1> QED
  BY <1>4, <1>5, <1>6 DEF Inv

\* Every step keeps the invariant.
LEMMA NextInv == Inv /\ [Next]_vars => Inv'
<1> SUFFICES ASSUME Inv, [Next]_vars PROVE Inv'
  OBVIOUS
<1>1. ASSUME RequestBackfill \/ CancelBackfill \/ SuspendSource \/ ResumeSource PROVE Inv'
  BY <1>1, RequestInv, CancelInv, SuspendInv, ResumeInv
<1>2. ASSUME NEW w \in Workers,
             ClaimPartition(w) \/ CompletePartition(w) \/ WriteFailure(w)
      PROVE  Inv'
  BY <1>2, ClaimInv, CompleteInv, FailureInv
<1>3. ASSUME NEW w \in Workers, CheckSource(w) \/ ClaimNothing(w) \/ ProcessEnds(w)
      PROVE  Inv'
  BY <1>3, GoesInv DEF CheckSource, ClaimNothing, ProcessEnds
<1>4. ASSUME NEW w \in Workers, CheckFailure(w) PROVE Inv'
  <2>1. work[w].part \in Existing /\ work[w].part \in Partitions
    BY <1>4 DEF Inv, BusyHolds, Existing, CheckFailure
  <2> QED
    BY <1>4, <2>1, GoesInv DEF CheckFailure
<1>6. ASSUME NEW w \in Workers, LoadForClaim(w) \/ LoadForCompletion(w) \/ LoadForFailure(w)
      PROVE  Inv'
  BY <1>6, LoadsInv DEF LoadForClaim, LoadForCompletion, LoadForFailure
<1>5. CASE UNCHANGED vars
  BY <1>5 DEF vars, Inv, TypeOK, Budgeted, BusyHolds, NoneLeftPaused,
     CompletedMeansCompleted, InState, Existing
<1> QED
  BY <1>1, <1>2, <1>3, <1>4, <1>5, <1>6 DEF Next

\* The invariant holds in every behaviour.
THEOREM Invariance == Spec => []Inv
  BY InitInv, NextInv, PTL DEF Spec

\* Every column keeps its type.
THEOREM TypeCorrect == Spec => []TypeOK
<1>1. Inv => TypeOK
  BY DEF Inv
<1> QED
  BY <1>1, Invariance, PTL

\* A source that may execute has no paused partition, whatever commits inside
\* a worker's transaction. A completed backfill is reported only when all
\* partitions are completed, in the histories in which nothing commits on a
\* value that has changed since it was read; in others it can be reported
\* beside a failed partition. For any number of workers and partitions.
THEOREM HealthAndPauses == Spec => [](CompletedMeansCompleted /\ NoneLeftPaused)
<1>1. Inv => CompletedMeansCompleted /\ NoneLeftPaused
  BY DEF Inv
<1> QED
  BY <1>1, Invariance, PTL

\* The steps of a worker that touch neither the partitions nor the health row.
TouchesNoRow(w) ==
  \/ CheckSource(w) \/ LoadForClaim(w) \/ LoadForCompletion(w) \/ LoadForFailure(w)
  \/ ClaimNothing(w) \/ CheckFailure(w) \/ ProcessEnds(w)

\* They leave the health row and the history alone as well.
LEMMA Untouched ==
  ASSUME NEW w \in Workers, TouchesNoRow(w)
  PROVE  parts' = parts /\ health' = health /\ raced' = raced
  BY DEF TouchesNoRow, CheckSource, LoadForClaim, LoadForCompletion, LoadForFailure, LoadsHealth,
     ClaimNothing, CheckFailure, ProcessEnds

\* What a step may do to the rows, whatever overlaps with it.
LEMMA ChargedStep ==
  Inv /\ [Next]_vars =>
    \A p \in Partitions :
      /\ parts'[p].attempts >= parts[p].attempts
      /\ parts'[p].attempts <= MaxAttempts
      /\ (parts[p].state # "running" /\ parts'[p].state = "running")
           => parts'[p].attempts > parts[p].attempts
<1> SUFFICES ASSUME Inv, [Next]_vars, NEW p \in Partitions
             PROVE  /\ parts'[p].attempts >= parts[p].attempts
                    /\ parts'[p].attempts <= MaxAttempts
                    /\ (parts[p].state # "running" /\ parts'[p].state = "running")
                         => parts'[p].attempts > parts[p].attempts
  OBVIOUS
<1>1. parts \in [Partitions -> Partition] /\ parts[p].attempts \in Nat
  BY DEF Inv, TypeOK
<1>2. parts'[p].attempts <= MaxAttempts
  BY NextInv DEF Inv, Budgeted
<1>3. CASE RequestBackfill
  <2>1. \/ parts'[p] = parts[p]
        \/ parts[p].state = "absent" /\ parts'[p].state = "pending"
    BY <1>1, <1>3 DEF RequestBackfill, Existing
  <2>2. parts[p].state = "absent" => parts[p].attempts = 0
    BY DEF Inv, Budgeted
  <2>3. parts'[p].attempts \in Nat
    BY NextInv DEF Inv, TypeOK
  <2> QED
    BY <1>1, <1>2, <2>1, <2>2, <2>3
<1>4. CASE CancelBackfill \/ SuspendSource \/ ResumeSource
  <2>1. \/ parts'[p] = parts[p]
        \/ /\ parts'[p].attempts = parts[p].attempts
           /\ parts'[p].state # "running"
    BY <1>1, <1>4 DEF CancelBackfill, SuspendSource, ResumeSource, PausePending, ResumePaused,
       Transition
  <2> QED
    BY <1>1, <1>2, <2>1
<1>5. ASSUME NEW w \in Workers, ClaimPartition(w)
      PROVE  \/ parts'[p] = parts[p]
             \/ parts'[p].attempts = parts[p].attempts + 1
  BY <1>1, <1>5 DEF ClaimPartition, Unspent, InState
<1>6. ASSUME NEW w \in Workers, CompletePartition(w)
      PROVE  \/ parts'[p] = parts[p]
             \/ /\ parts'[p].attempts = parts[p].attempts
                /\ parts'[p].state = "completed"
  BY <1>1, <1>6 DEF CompletePartition
<1>7. ASSUME NEW w \in Workers, WriteFailure(w)
      PROVE  \/ parts'[p] = parts[p]
             \/ /\ parts'[p].attempts \in {parts[p].attempts, MaxAttempts}
                /\ parts'[p].state = "failed"
  BY <1>1, <1>7 DEF WriteFailure
<1>8. ASSUME NEW w \in Workers, TouchesNoRow(w)
      PROVE  parts'[p] = parts[p]
  BY <1>8, Untouched
<1>9. CASE UNCHANGED vars
  BY <1>1, <1>2, <1>9 DEF vars
<1>10. parts[p].attempts <= MaxAttempts
  BY DEF Inv, Budgeted
<1>11. MaxAttempts \in Nat
  BY BackfillAssumption
<1> QED
  BY <1>1, <1>2, <1>3, <1>4, <1>5, <1>6, <1>7, <1>8, <1>9, <1>10, <1>11
     DEF Next, TouchesNoRow

\* A partition is run at most MaxAttempts times: every run is charged and no
\* charge is ever taken back.
THEOREM BoundedRuns == Spec => RunsAreBudgeted
<1>1. Inv /\ [Next]_vars =>
        [\A p \in Partitions :
           /\ parts'[p].attempts >= parts[p].attempts
           /\ parts'[p].attempts <= MaxAttempts
           /\ (parts[p].state # "running" /\ parts'[p].state = "running")
                => parts'[p].attempts > parts[p].attempts]_vars
  BY ChargedStep
<1> QED
  BY <1>1, Invariance, PTL DEF Spec, RunsAreBudgeted

-----------------------------------------------------------------------------
(* The documented state machine                                            *)

Rows == [p \in Partitions |-> [state |-> parts[p].state, attempts |-> parts[p].attempts]]

\* A history that is raced stays raced.
LEMMA RacedStays == Inv /\ [Next]_vars => raced' \in {raced, TRUE}
<1> SUFFICES ASSUME Inv, [Next]_vars PROVE raced' \in {raced, TRUE}
  OBVIOUS
<1>1. raced \in BOOLEAN
  BY DEF Inv, TypeOK
<1>2. ASSUME NEW stale, Raced(stale) PROVE raced' \in {raced, TRUE}
  <2>1. CASE raced = TRUE
    BY <1>2, <2>1 DEF Raced
  <2>2. CASE raced = FALSE
    BY <1>2, <2>2 DEF Raced
  <2> QED
    BY <1>1, <2>1, <2>2
<1>3. CASE RequestBackfill \/ CancelBackfill \/ SuspendSource \/ ResumeSource
  BY <1>3 DEF RequestBackfill, CancelBackfill, SuspendSource, ResumeSource
<1>4. ASSUME NEW w \in Workers, ClaimPartition(w) \/ CompletePartition(w) \/ WriteFailure(w)
      PROVE  raced' \in {raced, TRUE}
  BY <1>2, <1>4 DEF ClaimPartition, CompletePartition, WriteFailure
<1>5. ASSUME NEW w \in Workers, TouchesNoRow(w) PROVE raced' \in {raced, TRUE}
  BY <1>5, Untouched
<1>6. CASE UNCHANGED vars
  BY <1>6 DEF vars
<1> QED
  BY <1>3, <1>4, <1>5, <1>6 DEF Next, TouchesNoRow

\* A failure report meets a partition that runs, or a partition that has moved on
\* since it was read.
LEMMA FailureStep ==
  ASSUME Inv, NEW w \in Workers, WriteFailure(w), NEW p \in Partitions
  PROVE  \/ parts'[p] = parts[p]
         \/ /\ parts'[p].state = "failed"
            /\ parts'[p].attempts \in {parts[p].attempts, MaxAttempts}
            /\ \/ parts[p].state = "running"
               \/ raced' /\ parts[p].state # "absent"
<1>1. parts \in [Partitions -> Partition]
  BY DEF Inv, TypeOK
<1>2. CASE p # work[w].part
  BY <1>1, <1>2 DEF WriteFailure
<1>3. CASE p = work[w].part
  <2>1. /\ parts'[p].state = "failed"
        /\ parts'[p].attempts \in {parts[p].attempts, MaxAttempts}
    BY <1>1, <1>3 DEF WriteFailure
  <2>2. parts[p].state # "absent"
    BY <1>3 DEF Inv, BusyHolds, Existing, WriteFailure
  <2>3. parts[p].state = "running" \/ raced'
    BY <1>3 DEF WriteFailure, Raced
  <2> QED
    BY <2>1, <2>2, <2>3
<1> QED
  BY <1>2, <1>3

\* Each row makes one documented move at most, or is overwritten by a failure.
LEMMA LifecycleStep == Inv /\ [Next]_vars => [Lifecycle!Next]_<<Rows, raced>>
<1> SUFFICES ASSUME Inv, [Next]_vars, NEW p \in Partitions
             PROVE  \/ Rows'[p] = Rows[p]
                    \/ Lifecycle!Moves(Rows[p], Rows'[p])
                    \/ raced' /\ Lifecycle!Overwritten(Rows[p], Rows'[p])
  BY RacedStays DEF Lifecycle!Next, Rows
<1>0. /\ Rows[p] = [state |-> parts[p].state, attempts |-> parts[p].attempts]
      /\ Rows'[p] = [state |-> parts'[p].state, attempts |-> parts'[p].attempts]
  BY DEF Rows
<1>1. parts \in [Partitions -> Partition] /\ parts[p].attempts \in Nat
  BY DEF Inv, TypeOK
<1>2. CASE parts'[p] = parts[p]
  BY <1>0, <1>2
<1>3. CASE RequestBackfill
  <2>1. \/ parts'[p] = parts[p]
        \/ /\ parts[p].state = "absent" /\ parts'[p].state = "pending"
           /\ parts'[p].attempts = 0
    BY <1>1, <1>3 DEF RequestBackfill, Existing
  <2> QED
    BY <1>0, <1>2, <2>1 DEF Lifecycle!Moves, Inv, Budgeted
<1>4. CASE CancelBackfill \/ SuspendSource \/ ResumeSource
  <2>1. \/ parts'[p] = parts[p]
        \/ /\ parts'[p].attempts = parts[p].attempts
           /\ \/ parts[p].state \in Cancellable /\ parts'[p].state = "cancelled"
              \/ parts[p].state \in {"pending", "running"} /\ parts'[p].state = "paused"
              \/ parts[p].state = "paused" /\ parts'[p].state = "pending"
    BY <1>1, <1>4 DEF CancelBackfill, SuspendSource, ResumeSource, PausePending, ResumePaused,
       Transition
  <2> QED
    BY <1>0, <1>2, <2>1 DEF Lifecycle!Moves
<1>5. ASSUME NEW w \in Workers, ClaimPartition(w)
      PROVE  \/ parts'[p] = parts[p]
             \/ /\ parts[p].state \in {"pending", "failed"} /\ parts'[p].state = "running"
                /\ parts[p].attempts < MaxAttempts
                /\ parts'[p].attempts = parts[p].attempts + 1
  BY <1>1, <1>5 DEF ClaimPartition, Unspent, InState
<1>6. ASSUME NEW w \in Workers, CompletePartition(w)
      PROVE  \/ parts'[p] = parts[p]
             \/ /\ parts[p].state = "running" /\ parts'[p].state = "completed"
                /\ parts'[p].attempts = parts[p].attempts
  BY <1>1, <1>6 DEF CompletePartition, StillRunning
<1>7. ASSUME NEW w \in Workers, WriteFailure(w)
      PROVE  \/ parts'[p] = parts[p]
             \/ /\ parts'[p].state = "failed"
                /\ parts'[p].attempts \in {parts[p].attempts, MaxAttempts}
                /\ \/ parts[p].state = "running"
                   \/ raced' /\ parts[p].state # "absent"
  BY <1>7, FailureStep
<1>8. ASSUME NEW w \in Workers, TouchesNoRow(w)
      PROVE  parts'[p] = parts[p]
  BY <1>8, Untouched
<1>9. CASE \/ /\ parts[p].state \in {"pending", "failed"} /\ parts'[p].state = "running"
              /\ parts[p].attempts < MaxAttempts
              /\ parts'[p].attempts = parts[p].attempts + 1
           \/ /\ parts[p].state = "running" /\ parts'[p].state = "completed"
              /\ parts'[p].attempts = parts[p].attempts
           \/ /\ parts[p].state = "running" /\ parts'[p].state = "failed"
              /\ parts'[p].attempts \in {parts[p].attempts, MaxAttempts}
  BY <1>0, <1>9 DEF Lifecycle!Moves
<1>10. CASE /\ parts'[p].state = "failed"
            /\ parts'[p].attempts \in {parts[p].attempts, MaxAttempts}
            /\ raced' /\ parts[p].state # "absent"
  BY <1>0, <1>10 DEF Lifecycle!Overwritten
<1>11. CASE UNCHANGED vars
  BY <1>2, <1>11 DEF vars
<1> QED
  BY <1>2, <1>3, <1>4, <1>5, <1>6, <1>7, <1>8, <1>9, <1>10, <1>11 DEF Next, TouchesNoRow

\* The code implements the documented state machine, with its one exception,
\* for any number of partitions and workers.
THEOREM ImplementsLifecycle == Spec => FollowsLifecycle
<1>1. Init => Lifecycle!Init
  BY DEF Init, Lifecycle!Init
<1>2. Inv /\ [Next]_vars => [Lifecycle!Next]_<<Rows, raced>>
  BY LifecycleStep
<1> QED
  BY <1>1, <1>2, Invariance, PTL DEF Spec, FollowsLifecycle, Lifecycle!Spec, Rows

-----------------------------------------------------------------------------
(* What becomes of a cancelled or completed partition                      *)

\* As long as nothing commits on a value that has changed since it was read, a
\* cancelled partition stays cancelled.
CancelledStaysUnraced ==
  [][~raced' => \A p \in Partitions :
                  parts[p].state = "cancelled" => parts'[p].state = "cancelled"]_vars

\* Without such commits a cancellation is final, as BackfillState.is_terminal
\* says: the run that shows a cancelled partition turn into a failed one needs a
\* commit between the two halves of a failure report.
THEOREM CancelledStays == Spec => CancelledStaysUnraced
<1>1. Inv /\ [Next]_vars =>
        (~raced' => \A p \in Partitions :
                      parts[p].state = "cancelled" => parts'[p].state = "cancelled")
  <2> SUFFICES ASSUME [Lifecycle!Next]_<<Rows, raced>>, ~raced', NEW p \in Partitions,
                      parts[p].state = "cancelled"
               PROVE  parts'[p].state = "cancelled"
    BY LifecycleStep
  <2>1. /\ Rows[p] = [state |-> parts[p].state, attempts |-> parts[p].attempts]
        /\ Rows'[p] = [state |-> parts'[p].state, attempts |-> parts'[p].attempts]
    BY DEF Rows
  <2>2. ~Lifecycle!Moves(Rows[p], Rows'[p])
    BY <2>1 DEF Lifecycle!Moves
  <2>3. Rows'[p] = Rows[p]
    BY <2>2 DEF Lifecycle!Next, Rows
  <2> QED
    BY <2>1, <2>3
<1>2. Inv /\ [Next]_vars =>
        [~raced' => \A p \in Partitions :
                      parts[p].state = "cancelled" => parts'[p].state = "cancelled"]_vars
  BY <1>1
<1> QED
  BY <1>2, Invariance, PTL DEF Spec, CancelledStaysUnraced

\* A failure report that was already under way for this partition.
LateReport(p) ==
  /\ \E w \in Workers : work[w].at = "reporting" /\ work[w].part = p
  /\ parts'[p].state = "failed"

\* A partition that ended leaves its state by a late failure report only.
OnlyLateReportsReopen ==
  [][\A p \in Partitions :
       parts[p].state \in {"cancelled", "completed"} /\ parts'[p].state # parts[p].state
         => LateReport(p)]_vars

\* fail_backfill_partition is the one operation that takes a
\* partition out of a terminal state: no request, claim, pause, resumption or
\* completion does, whatever commits between their reads and their writes.
THEOREM LateReports == Spec => OnlyLateReportsReopen
<1>1. ASSUME Inv, [Next]_vars, NEW p \in Partitions,
             parts[p].state \in {"cancelled", "completed"}, parts'[p].state # parts[p].state
      PROVE  LateReport(p)
  <2>1. parts \in [Partitions -> Partition]
    BY <1>1 DEF Inv, TypeOK
  <2>2. ~RequestBackfill
    BY <1>1, <2>1 DEF RequestBackfill, Existing
  <2>3. ~(CancelBackfill \/ SuspendSource \/ ResumeSource)
    BY <1>1, <2>1 DEF CancelBackfill, SuspendSource, ResumeSource, PausePending, ResumePaused,
       Transition
  <2>4. ASSUME NEW w \in Workers PROVE ~(ClaimPartition(w) \/ CompletePartition(w))
    BY <1>1, <2>1 DEF ClaimPartition, Unspent, InState, CompletePartition, StillRunning
  <2>5. ASSUME NEW w \in Workers PROVE ~TouchesNoRow(w)
    BY <1>1, Untouched
  <2>6. ASSUME NEW w \in Workers, WriteFailure(w) PROVE LateReport(p)
    <3>1. work[w].part = p
      BY <1>1, <2>1, <2>6 DEF WriteFailure
    <3> QED
      BY <2>1, <2>6, <3>1 DEF WriteFailure, LateReport
  <2>7. ~UNCHANGED vars
    BY <1>1 DEF vars
  <2> QED
    BY <1>1, <2>2, <2>3, <2>4, <2>5, <2>6, <2>7 DEF Next, TouchesNoRow
<1>2. Inv /\ [Next]_vars =>
        [\A p \in Partitions :
           parts[p].state \in {"cancelled", "completed"} /\ parts'[p].state # parts[p].state
             => LateReport(p)]_vars
  BY <1>1
<1> QED
  BY <1>2, Invariance, PTL DEF Spec, OnlyLateReportsReopen

-----------------------------------------------------------------------------
(* How the health row comes to report a state no partition is in, when     *)
(* nothing commits on a value that has changed since it was read           *)

\* A request for nothing but partitions that exist, none of them pending.
RepeatedRequest ==
  /\ RequestBackfill
  /\ parts' = parts
  /\ Existing # {} /\ InState({"pending"}) = {}

\* In an unraced history only such a request breaks the faithfulness of the
\* health row: HealthIsFaithful speaks of no other.
OnlyRepeatsMislead ==
  [][HealthIsFaithful => HealthIsFaithful' \/ RepeatedRequest]_vars

\* The state HealthOf names is the state of a row.
LEMMA HealthOfSome ==
  ASSUME NEW rows, \A p \in Partitions : rows[p].state \in BackfillState \cup {"absent"},
         HealthOf(rows) # "none"
  PROVE  \E p \in Partitions : rows[p].state = HealthOf(rows)
<1> DEFINE found == {i \in 1..6 : \E p \in Partitions : rows[p].state = Precedence[i]}
           first == CHOOSE i \in found : \A j \in found : i <= j
<1>1. found # {}
  BY DEF HealthOf
<1>2. \E i \in found : \A j \in found : i <= j
  <2>1. CASE 1 \in found
    BY <2>1
  <2>2. CASE 1 \notin found /\ 2 \in found
    BY <2>2
  <2>3. CASE 1 \notin found /\ 2 \notin found /\ 3 \in found
    BY <2>3
  <2>4. CASE 1 \notin found /\ 2 \notin found /\ 3 \notin found /\ 4 \in found
    BY <2>4
  <2>5. CASE 1 \notin found /\ 2 \notin found /\ 3 \notin found /\ 4 \notin found
    BY <1>1, <2>5
  <2> QED
    BY <2>1, <2>2, <2>3, <2>4, <2>5
<1>3. first \in found
  BY <1>2
<1>4. HealthOf(rows) = Precedence[first]
  BY <1>1 DEF HealthOf
<1> QED
  BY <1>3, <1>4

\* Every other operation writes a state it has just given to a partition, or
\* recomputes the state from the rows: the run that shows the health row report
\* a pending backfill without a pending partition has found the only way when
\* transactions run one after the other. When they overlap there is another: a
\* claim that read "running" leaves a "pending" that was committed since.
THEOREM RepeatsMislead == Spec => OnlyRepeatsMislead
<1>1. ASSUME Inv, [Next]_vars, HealthIsFaithful PROVE HealthIsFaithful' \/ RepeatedRequest
  <2>0. parts \in [Partitions -> Partition] /\ Inv'
    BY <1>1, NextInv DEF Inv, TypeOK
  <2>1. /\ \A p \in Partitions : parts[p].state \in BackfillState \cup {"absent"}
        /\ \A p \in Partitions : parts'[p].state \in BackfillState \cup {"absent"}
    BY <2>0 DEF Inv, TypeOK
  <2>2. ASSUME parts' = parts, health' \in {health, HealthOf(parts)} PROVE HealthIsFaithful'
    BY <1>1, <2>1, <2>2, RacedStays, HealthOfSome DEF HealthIsFaithful, InState
  <2>3. ASSUME NEW p \in Partitions, parts'[p].state = health' PROVE HealthIsFaithful'
    BY <2>3 DEF HealthIsFaithful, InState
  <2>4. CASE RequestBackfill
    <3>1. PICK ids \in (SUBSET Partitions) \ {{}} :
            parts' = [p \in Partitions |->
                        IF p \in ids \ Existing
                          THEN [state |-> "pending", attempts |-> 0,
                                created |-> Cardinality(Existing) + 1]
                          ELSE parts[p]]
      BY <2>4 DEF RequestBackfill
    <3>2. CASE ids \subseteq Existing
      <4>1. parts' = parts
        BY <2>0, <3>1, <3>2
      <4>2. Existing # {}
        BY <3>2
      <4>3. ASSUME NEW p \in InState({"pending"}) PROVE HealthIsFaithful'
        <5>1. p \in Partitions /\ parts'[p].state = "pending"
          BY <4>1, <4>3 DEF InState
        <5> QED
          BY <2>3, <2>4, <5>1 DEF RequestBackfill
      <4> QED
        BY <2>4, <4>1, <4>2, <4>3 DEF RepeatedRequest
    <3>3. ASSUME NEW p \in ids \ Existing PROVE HealthIsFaithful'
      <4>1. p \in Partitions /\ parts'[p].state = "pending"
        BY <3>1, <3>3
      <4> QED
        BY <2>3, <2>4, <4>1 DEF RequestBackfill
    <3> QED
      BY <3>2, <3>3
  <2>5. ASSUME NEW from, NEW target, Transition(from, target), InState(from) # {},
               health' = target
        PROVE  HealthIsFaithful'
    <3>1. PICK p \in Partitions : parts[p].state \in from
      BY <2>5 DEF InState
    <3>2. parts'[p].state = target
      BY <2>0, <2>5, <3>1 DEF Transition
    <3> QED
      BY <2>3, <2>5, <3>2
  <2>6. CASE CancelBackfill
    <3>1. Transition(Cancellable, "cancelled")
      BY <2>6 DEF CancelBackfill
    <3>2. CASE InState(Cancellable) # {}
      BY <2>5, <2>6, <3>1, <3>2 DEF CancelBackfill
    <3>3. CASE InState(Cancellable) = {}
      <4>1. parts' = parts
        BY <1>1, <3>1, <3>3, TransitionRows DEF Inv
      <4> QED
        BY <2>2, <2>6, <3>3, <4>1 DEF CancelBackfill
    <3> QED
      BY <3>2, <3>3
  <2>7. CASE SuspendSource
    <3>1. Transition({"pending", "running"}, "paused")
      BY <2>7 DEF SuspendSource, PausePending
    <3>2. CASE InState({"pending", "running"}) # {}
      BY <2>5, <2>7, <3>1, <3>2 DEF SuspendSource, PausePending
    <3>3. CASE InState({"pending", "running"}) = {}
      BY <1>1, <2>2, <2>7, <3>1, <3>3, TransitionRows DEF SuspendSource, PausePending, Inv
    <3> QED
      BY <3>2, <3>3
  <2>8. CASE ResumeSource
    <3>1. Transition({"paused"}, "pending")
      BY <2>8 DEF ResumeSource, ResumePaused
    <3>2. CASE InState({"paused"}) # {}
      BY <2>5, <2>8, <3>1, <3>2 DEF ResumeSource, ResumePaused
    <3>3. CASE InState({"paused"}) = {}
      BY <1>1, <2>2, <2>8, <3>1, <3>3, TransitionRows DEF ResumeSource, ResumePaused, Inv
    <3> QED
      BY <3>2, <3>3
  <2>9. ASSUME NEW w \in Workers, ClaimPartition(w) PROVE HealthIsFaithful'
    <3>1. PICK p \in Partitions : parts'[p].state = "running"
      BY <2>0, <2>9 DEF ClaimPartition, Unspent, InState
    <3>2. ~raced' => health' = "running"
      BY <2>9, SetHealthWrites DEF ClaimPartition, Raced
    <3> QED
      BY <3>1, <3>2 DEF HealthIsFaithful, InState
  <2>10. ASSUME NEW w \in Workers, CompletePartition(w) PROVE HealthIsFaithful'
    <3>1. ~raced' => health' = HealthOf(parts')
      BY <2>10, SetHealthWrites DEF CompletePartition, Raced
    <3> QED
      BY <2>1, <3>1, HealthOfSome DEF HealthIsFaithful, InState
  <2>11. ASSUME NEW w \in Workers, WriteFailure(w) PROVE HealthIsFaithful'
    <3>1. work[w].part \in Partitions
      BY <1>1, <2>11 DEF Inv, BusyHolds, Existing, WriteFailure
    <3>2. parts'[work[w].part].state = "failed"
      BY <2>0, <2>11, <3>1 DEF WriteFailure
    <3>3. ~raced' => health' = "failed"
      BY <2>11, SetHealthWrites DEF WriteFailure, Raced
    <3> QED
      BY <3>1, <3>2, <3>3 DEF HealthIsFaithful, InState
  <2>12. ASSUME NEW w \in Workers, TouchesNoRow(w) PROVE HealthIsFaithful'
    BY <2>2, <2>12, Untouched
  <2>13. CASE UNCHANGED vars
    BY <2>2, <2>13 DEF vars
  <2> QED
    BY <1>1, <2>4, <2>6, <2>7, <2>8, <2>9, <2>10, <2>11, <2>12, <2>13
       DEF Next, TouchesNoRow
<1>2. Inv /\ [Next]_vars => [HealthIsFaithful => HealthIsFaithful' \/ RepeatedRequest]_vars
  BY <1>1
<1> QED
  BY <1>2, Invariance, PTL DEF Spec, OnlyRepeatsMislead
=============================================================================
