\* One source fed by the scheduler alone, under crashes, pauses and toggling.
CONSTANTS
  Sources = {s1}
  Workers = {w1, w2}
  NoWorker = NoWorker
  NoJob = NoJob
  Interval = 1
  Minute = 1
  SchedulePolicy <- TwoAttempts
  PriorityPolicy <- TwoAttempts
  PriorityRefresh = FALSE
  CheckpointTtl = 1
  ScanLimit = 20
  ClockLag = 0
  Horizon = 1
  MaxPauses = 1
SPECIFICATION FairSpec
CHECK_DEADLOCK FALSE
INVARIANTS
  SingleFlight
PROPERTIES
  EveryJobSettles
