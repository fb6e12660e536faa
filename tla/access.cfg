\* Two overlapping requests on one provider.
CONSTANTS
  Names = {n1}
  Refs = {r1, r2}
  Methods = {"api", "export"}
  Unconnected = {"export"}
  Scopes = {"read"}
  Clients = {c1, c2}
  Profiles <- TheProfiles
  Checkpoints = {"awaiting_user_action"}
  Dossiers <- TheDossiers
  CrossRow = FALSE
SPECIFICATION Spec
SYMMETRY AnySymmetry
INVARIANTS
  TypeOK
  SecretsAreVerified
  BlockedIsClosed
  RecordsExplainRows
  EligibilityIsEarned
PROPERTIES
  SolitaryRequestRepairs
