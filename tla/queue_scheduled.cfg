\* One source fed by the scheduler alone, two workers whose clocks lag behind.
CONSTANTS
  Sources = {s1}
  Workers = {w1, w2}
  NoWorker = NoWorker
  NoJob = NoJob
  Interval = 1
  Minute = 1
  SchedulePolicy <- ThreeAttempts
  PriorityPolicy <- ThreeAttempts
  PriorityRefresh = FALSE
  CheckpointTtl = 1
  ScanLimit = 20
  ClockLag = 1
  Horizon = 1
  MaxPauses = 0
SPECIFICATION Spec
SYMMETRY WorkerSymmetry
CHECK_DEADLOCK FALSE
INVARIANTS
  LeaseIsExclusive
PROPERTIES
  NoLostUpdate
  OpenCircuitBlocksClaims
