\* Two workers deliver to one subject, in every domain; claims expire at 1.
CONSTANTS
  Workers = {w1, w2}
  Domains <- AllDomains
  Batches <- Deliveries
  Horizon = 1
SPECIFICATION Spec
SYMMETRY WorkerSymmetry
CHECK_DEADLOCK FALSE
INVARIANTS
  TypeOK
  EvidenceIsReconcilable
  RowIsRebuilt
  RowShowsNewest
  VerdictsAreEarned
PROPERTIES
  LateRevisionIsInert
  SolitaryDeliveryRepairs
