------------------------ MODULE RelationshipEvidence ------------------------
(* Relationship intelligence: the evidence for one business relationship     *)
(* and what its row says (cip.modules.relationship_intelligence).            *)
EXTENDS SourceRecords

IncumbentRoles == {"provider", "supplier", "integrator", "auditor", "insurer", "mssp_mdr",
                   "cloud_hosting_provider", "technology_vendor", "subcontractor"}

\* until = 0: no end of validity
IsHistorical(c, t) ==
  c.historicalOnly \/ c.class = "historical" \/ (c.until # 0 /\ c.until <= t)
IsCurrent(c, t) ==
  c.active /\ c.type = "assertion" /\ ~IsStale(c, t) /\ ~IsHistorical(c, t) /\ c.from <= t
SupportsActive(c, t) == c.class \in {"observed", "contracted"} /\ IsCurrent(c, t)
IsContract(c, t) == c.class = "contracted" /\ IsCurrent(c, t)

OfType(C, type) == {c \in C : c.active /\ c.type = type}
Assertions(C) == OfType(C, "assertion")
RolesConflict(C) == Count({c.role : c \in Assertions(C)}) > 1

Effective(S) ==
  LET latest == Newest(S)
  IN  {c \in latest : c.rec \notin Targets(latest)}

RelationshipStatus(C, t) ==
  LET A == Assertions(C)
      current == {c \in A : IsCurrent(c, t)}
      ofClass(class) == {c \in current : c.class = class}
  IN  IF RolesConflict(C) THEN "under_review"
      ELSE IF OfType(C, "dispute") # {} /\ current # {} THEN "disputed"
      ELSE IF \E c \in current : SupportsActive(c, t) THEN "active"
      ELSE IF ofClass("claimed") # {} THEN "claimed"
      ELSE IF ofClass("inferred") # {} THEN "inferred"
      ELSE IF A # {} /\ \A c \in A : IsStale(c, t) THEN "stale"
      ELSE IF A # {} /\ \A c \in A : IsHistorical(c, t) THEN "historical"
      ELSE IF OfType(C, "retraction") # {} THEN "retracted"
      ELSE IF OfType(C, "correction") # {} THEN "corrected"
      ELSE IF OfType(C, "dispute") # {} THEN "disputed"
      ELSE "under_review"

\* Inactive evidence attributes an organisation only when nothing is active.
OrganizationLink(C, end) ==
  LET active == {c \in C : c.active}
      considered == IF active # {} THEN active ELSE C
      exact == {c \in considered : c[end].link = "exact"}
  IN  Attribution({c[end].org : c \in exact}, {c[end].link : c \in considered})

\* One organisation cannot stand at both ends: both go to review.
Ends(C) ==
  LET source == OrganizationLink(C, "from_end")
      target == OrganizationLink(C, "to_end")
      review == [org |-> Nothing, link |-> "review_required"]
  IN  IF source.org # Nothing /\ source.org = target.org
        THEN <<review, review>> ELSE <<source, target>>

\* While the status is active, every assertion has one role: the preferred one.
ContractBackedCurrent(C, t) ==
  /\ RelationshipStatus(C, t) = "active"
  /\ \E c \in Assertions(C) : IsContract(c, t) /\ c.role \in IncumbentRoles

ReconciledRelationship(C, t) ==
  [status |-> RelationshipStatus(C, t),
   org |-> Ends(C)[1].org, link |-> Ends(C)[1].link,
   org2 |-> Ends(C)[2].org, link2 |-> Ends(C)[2].link,
   claims |-> Count(C), independent |-> Count(Groups(Assertions(C))),
   contract |-> \E c \in Assertions(C) : IsContract(c, t),
   incumbent |-> ContractBackedCurrent(C, t),
   conflict |-> RolesConflict(C)]

Reconcilable(S) == Effective(S) # {}
Reconciled(S, t) == ReconciledRelationship(Effective(S), t)
=============================================================================
