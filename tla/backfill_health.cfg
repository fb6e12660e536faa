\* Histories in which nothing commits on a value that has changed since it was read.
CONSTANTS
  Partitions = {p1, p2}
  Workers = {w1, w2}
  NoPartition = NoPartition
  MaxAttempts = 2
SPECIFICATION Spec
SYMMETRY AnySymmetry
INVARIANTS
  HealthIsFaithful
