---------------------------- MODULE JobLifecycle ----------------------------
(***************************************************************************)
(* What the queue promises about one job: it is enqueued once, with a      *)
(* budget of leases it may lose, alternates between waiting and being      *)
(* leased, may be parked on a human at no cost, and ends for good, with    *)
(* the loss of its last lease at the latest.                               *)
(***************************************************************************)
EXTENDS Naturals

CONSTANTS
  Ids,      \* jobs
  Budgets   \* the numbers of leases a job may be allowed to lose

VARIABLE life   \* the phase of each job, and the leases it has left to lose

Init == life = [i \in Ids |-> [phase |-> "absent", left |-> 0]]

Becomes(b, phase, left) == b = [phase |-> phase, left |-> left]

Enqueued(a, b) == a.phase = "absent" /\ \E budget \in Budgets : Becomes(b, "queued", budget)
Leased(a, b) == a.phase = "queued" /\ Becomes(b, "leased", a.left)
Parked(a, b) == a.phase = "leased" /\ Becomes(b, "parked", a.left)
Unparked(a, b) == a.phase = "parked" /\ Becomes(b, "queued", a.left)
Requeued(a, b) == /\ a.phase = "leased"
                  /\ a.left > 1
                  /\ Becomes(b, "queued", a.left - 1)
Ended(a, b) == a.phase \in {"queued", "leased", "parked"} /\ Becomes(b, "done", 0)

Moves(a, b) == \/ Enqueued(a, b) \/ Leased(a, b) \/ Parked(a, b)
               \/ Unparked(a, b) \/ Requeued(a, b) \/ Ended(a, b)

\* One transaction may move several jobs, each by one step.
Next == \A i \in Ids : life'[i] = life[i] \/ Moves(life[i], life'[i])

Spec == Init /\ [][Next]_life
=============================================================================
