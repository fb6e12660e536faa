--------------------------- MODULE IncidentClaims ---------------------------
(* Incident intelligence: the claims about one incident and what its row     *)
(* says of them (cip.modules.incident_intelligence).  Supersession of one    *)
(* record by another is stored with the claim and read by nothing.           *)
EXTENDS SourceRecords

OfficialTypes == {"company_confirmation", "regulator_notice", "cert_notice"}
Negative == {"denial", "correction", "retraction"}

Positive(C) == {c \in C : c.active /\ c.type \notin Negative}
Official(C) == {c \in Positive(C) : c.type \in OfficialTypes}
OfType(C, type) == {c \in C : c.active /\ c.type = type}

\* Faulty: every revision counts.
EffectiveEver(S) == S

Effective(S) == Newest(S)

IncidentStatus(C) ==
  IF Official(C) # {} THEN "confirmed"
  ELSE IF Positive(C) # {}
    THEN IF \A c \in Positive(C) : c.type = "attacker_allegation" THEN "alleged" ELSE "reported"
  ELSE IF OfType(C, "denial") # {} THEN "denied"
  ELSE IF OfType(C, "retraction") # {} THEN "retracted"
  ELSE "under_review"

OrganizationLink(C) == Attribution(ExactOrganizations(C), {c.link : c \in C})

ReconciledIncident(C) ==
  [status |-> IncidentStatus(C),
   org |-> OrganizationLink(C).org, link |-> OrganizationLink(C).link,
   claims |-> Count(C), independent |-> Count(Groups(Positive(C))),
   official |-> Official(C) # {},
   denial |-> OfType(C, "denial") # {}, retraction |-> OfType(C, "retraction") # {}]

Reconcilable(S) == Effective(S) # {}
Reconciled(S, t) == ReconciledIncident(Effective(S))
=============================================================================
