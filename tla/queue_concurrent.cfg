\* A priority refresh beside a scheduled job: both are collected at once.
CONSTANTS
  Sources = {s1}
  Workers = {w1, w2}
  NoWorker = NoWorker
  NoJob = NoJob
  Interval = 2
  Minute = 1
  SchedulePolicy <- TwoAttempts
  PriorityPolicy <- TwoAttempts
  PriorityRefresh = TRUE
  CheckpointTtl = 1
  ScanLimit = 20
  ClockLag = 0
  Horizon = 1
  MaxPauses = 0
SPECIFICATION Spec
CHECK_DEADLOCK FALSE
INVARIANTS
  NoConcurrentCollection
