\* Two partitions, two workers; others may commit inside the workers' transactions.
CONSTANTS
  Partitions = {p1, p2}
  Workers = {w1, w2}
  NoPartition = NoPartition
  MaxAttempts = 3
SPECIFICATION Spec
SYMMETRY AnySymmetry
INVARIANTS
  TypeOK
  CompletedMeansCompleted
  NoneLeftPaused
PROPERTIES
  RunsAreBudgeted
  FollowsLifecycle
