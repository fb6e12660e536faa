\* One request after another, terms with room for one of two steps.
CONSTANTS
  Clients = {c1}
  Steps = {"adapter", "link"}
  Mode <- Modes
  Cost <- Costs
  Terms <- WideTerms
  Reasons = {"r"}
  Keys = {k1}
  MaxDecisions = 2
  Horizon = 1
SPECIFICATION Spec
CHECK_DEADLOCK FALSE
PROPERTIES
  BudgetFailsClosed
