-------------------------- MODULE BackfillLifecycle --------------------------
(***************************************************************************)
(* The state machine docs/lots/LOT_10_SOURCE_PORTFOLIO_RUNTIME.md promises *)
(* for a partition of a historical backfill, with the five-attempt budget, *)
(* and the one exception to it: a failure report may be written over a     *)
(* partition that has moved on, in a history that is then called raced.    *)
(***************************************************************************)
EXTENDS Naturals

CONSTANTS
  Partitions,
  MaxAttempts

VARIABLES
  life,   \* per partition: its state and the attempts charged to it
  raced   \* whether something was committed on a value that had changed since it was read

Init ==
  /\ life = [p \in Partitions |-> [state |-> "absent", attempts |-> 0]]
  /\ raced = FALSE

Moves(a, b) ==
  \/ /\ <<a.state, b.state>> \in
          {<<"absent", "pending">>, <<"running", "completed">>, <<"running", "failed">>,
           <<"paused", "pending">>}
          \cup ({"pending", "running"} \X {"paused"})
          \cup ({"pending", "running", "paused", "failed"} \X {"cancelled"})
     /\ b.attempts = a.attempts
  \/ \* an error that must not be retried spends the budget
     /\ a.state = "running" /\ b = [state |-> "failed", attempts |-> MaxAttempts]
  \/ \* every run is charged
     /\ a.state \in {"pending", "failed"}
     /\ a.attempts < MaxAttempts
     /\ b = [state |-> "running", attempts |-> a.attempts + 1]

Overwritten(a, b) ==
  /\ a.state # "absent"
  /\ b.state = "failed"
  /\ b.attempts \in {a.attempts, MaxAttempts}

Next ==
  /\ raced' \in {raced, TRUE}
  /\ \A p \in Partitions :
       \/ life'[p] = life[p]
       \/ Moves(life[p], life'[p])
       \/ raced' /\ Overwritten(life[p], life'[p])

Spec == Init /\ [][Next]_<<life, raced>>
=============================================================================
