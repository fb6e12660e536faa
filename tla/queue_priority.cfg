\* A scheduled and a priority job of one source side by side, under two policies:
\* two leases expire in one poll, one job waits while the other runs.
CONSTANTS
  Sources = {s1}
  Workers = {w1, w2}
  NoWorker = NoWorker
  NoJob = NoJob
  Interval = 2
  Minute = 1
  SchedulePolicy <- ThreeAttempts
  PriorityPolicy <- OneAttempt
  PriorityRefresh = TRUE
  CheckpointTtl = 1
  ScanLimit = 20
  ClockLag = 0
  Horizon = 1
  MaxPauses = 1
SPECIFICATION Spec
SYMMETRY WorkerSymmetry
CHECK_DEADLOCK FALSE
INVARIANTS
  TypeOK
  LeaseIsExclusive
  ParkedIffWaiting
  DeadLetterIffBuried
  AttemptsCounted
  ClaimableHasBudget
PROPERTIES
  TerminalIsFinal
  OnlySuccessClosesCircuit
  ImplementsLifecycle
