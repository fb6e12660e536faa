\* Overlapping requests on a plan with one automated step, attempted twice.
CONSTANTS
  Clients = {c1, c2}
  Steps = {"adapter"}
  Mode <- Modes
  Cost <- Costs
  Terms <- BothTerms
  Reasons = {"r"}
  Keys = {k1, k2}
  MaxDecisions = 2
  Horizon = 1
SPECIFICATION Spec
SYMMETRY AnySymmetry
CHECK_DEADLOCK FALSE
INVARIANTS
  TypeOK
  DecisionsExplainState
  HistoryIsFaithful
  StepsReflectAttempts
PROPERTIES
  TerminalIsFinal
  AttemptsAreAuthorized
  AttemptsArePermanent
