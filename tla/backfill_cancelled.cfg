\* Others may commit between a report's read and its write.
CONSTANTS
  Partitions = {p1, p2}
  Workers = {w1, w2}
  NoPartition = NoPartition
  MaxAttempts = 2
SPECIFICATION Spec
SYMMETRY AnySymmetry
PROPERTIES
  CancelledIsFinal
