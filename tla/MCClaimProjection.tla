-------------------------- MODULE MCClaimProjection --------------------------
(* Instances of ClaimProjection for TLC: small pools of snapshots.           *)
EXTENDS ClaimProjection, TLC

S1 == <<"s1", "r1">>
S2 == <<"s1", "r2">>
S3 == <<"s2", "r1">>

WithTarget(c, key) == [c EXCEPT !.target = key]

ChangeClaim(rec, at, type, official, expires, org, group) ==
  [rec |-> rec, at |-> at, type |-> type, official |-> official, active |-> TRUE,
   expires |-> expires, org |-> org, group |-> group, target |-> Nothing,
   link |-> IF org = Nothing THEN "unresolved" ELSE "exact"]
\* A confirmation that expires, its retraction, a speculation it supersedes and
\* that supersedes it back, and a syndicated report of another organisation.
ChangePool ==
  LET confirmed == ChangeClaim(S1, 1, "confirmation", TRUE, 1, "o1", "g1")
      retracted == ChangeClaim(S1, 2, "retraction", TRUE, 0, Nothing, "g1")
      speculated == WithTarget(ChangeClaim(S2, 1, "speculation", FALSE, 0, Nothing, "g2"), "r1")
      report == ChangeClaim(S3, 1, "report", FALSE, 0, "o2", "g2")
  IN  {confirmed, WithTarget(retracted, "r2"), speculated, report}

IncidentClaim(rec, at, type, org, group) ==
  [rec |-> rec, at |-> at, type |-> type, active |-> TRUE, org |-> org, group |-> group,
   target |-> Nothing, link |-> IF org = Nothing THEN "unresolved" ELSE "exact"]
IncidentPool ==
  {IncidentClaim(S1, 1, "attacker_allegation", Nothing, "g1"),
   IncidentClaim(S2, 1, "cert_notice", "o1", "g2"),
   WithTarget(IncidentClaim(S2, 2, "denial", Nothing, "g2"), "r1"),
   IncidentClaim(S3, 1, "media_report", "o2", "g1")}

Link(org) == [org |-> org, link |-> IF org = Nothing THEN "candidate" ELSE "exact"]
\* A relation whose publisher calls it past is historical whatever its class.
Past(c) == [c EXCEPT !.historicalOnly = TRUE]
Relation(rec, at, type, role, class, expires, until, org1, org2) ==
  [rec |-> rec, at |-> at, type |-> type, role |-> role, class |-> class, active |-> TRUE,
   historicalOnly |-> FALSE, from |-> 0, expires |-> expires, until |-> until, group |-> rec[1], target |-> Nothing,
   from_end |-> Link(org1), to_end |-> Link(org2)]
RelationshipPool ==
  {Relation(S1, 1, "assertion", "provider", "contracted", 0, 1, "o1", "o2"),
   WithTarget(Relation(S1, 2, "dispute", "provider", "claimed", 0, 0, "o1", "o2"), "r2"),
   WithTarget(Relation(S2, 1, "assertion", "provider", "contracted", 1, 0, "o1", "o2"), "r1"),
   Past(Relation(S3, 1, "assertion", "customer", "observed", 0, 0, "o2", "o1"))}

Observation(rec, at, state, expires, org, risk) ==
  [rec |-> rec, at |-> at, state |-> state, expires |-> expires, org |-> org, risk |-> risk,
   active |-> state \in {"current", "corrected"}, group |-> rec[1], target |-> Nothing,
   link |-> IF org = Nothing THEN "unresolved" ELSE "exact"]
PassivePool ==
  {Observation(S1, 1, "current", 1, "o1", FALSE),
   WithTarget(Observation(S1, 2, "corrected", 0, "o2", FALSE), "r2"),
   WithTarget(Observation(S2, 1, "current", 0, "o1", FALSE), "r1"),
   Observation(S3, 2, "current", 0, "o1", TRUE)}

Indicator(rec, at, state, rank, active) ==
  [rec |-> rec, at |-> at, state |-> state, rank |-> rank, active |-> active,
   group |-> rec[1], target |-> Nothing]
ThreatPool ==
  {Indicator(S1, 1, "malicious", 1, TRUE), Indicator(S1, 2, "retracted", 1, FALSE),
   Indicator(S2, 1, "suspicious", 2, TRUE), Indicator(S2, 2, "benign", 0, TRUE)}

Edge(rec, at, type, review, from, until, expires, target) ==
  [rec |-> rec, at |-> at, type |-> type, review |-> review, expires |-> expires,
   from |-> from, until |-> until, active |-> TRUE, suppressed |-> FALSE, target |-> target]
GraphPool ==
  {Edge(S1, 1, "assertion", "auto_confirmed", 0, 0, 1, Nothing),
   Edge(S1, 3, "retraction", "auto_confirmed", 0, 0, 0, "r2"),
   Edge(S2, 2, "assertion", "confirmed", 0, 1, 0, "r1"),
   Edge(S3, 4, "assertion", "review_required", 1, 0, 0, Nothing)}

\* Two publications of one time, one of them without a date, one of another buyer
\* and about no contract, and a record that returns to its first content.
Publication(rec, at, order, content, buyer, status, dated, says) ==
  [rec |-> rec, at |-> at, order |-> order, content |-> content, buyer |-> buyer,
   status |-> status, dated |-> dated, says |-> says]
ProcurementPool ==
  {Publication(S1, 1, 1, "p1", "b1", "open", TRUE, "c1"),
   Publication(S2, 1, 2, "p2", "b1", "closed", FALSE, "c2"),
   Publication(S3, 2, 3, "p3", "b2", "closed", TRUE, "none"),
   Publication(S1, 3, 4, "p1", "b1", "open", TRUE, "c1")}
\* A page that goes and comes back with its first content, elsewhere another.
FootprintPool ==
  {[rec |-> S1, at |-> 1, access |-> "public", content |-> "p1", says |-> "c1"],
   [rec |-> S1, at |-> 2, access |-> "gone", content |-> "p2", says |-> "none"],
   [rec |-> S2, at |-> 3, access |-> "public", content |-> "p3", says |-> "c3"],
   [rec |-> S1, at |-> 4, access |-> "public", content |-> "p1", says |-> "c1"]}
AssessmentPool ==
  {[rec |-> S1, at |-> 1, says |-> "affected"], [rec |-> S1, at |-> 2, says |-> "unknown"],
   [rec |-> S2, at |-> 3, says |-> "withdrawn"]}

Singles(P) == {{c} : c \in P}
\* One page of a source may carry two records at once, each naming the other.
Pages(P) ==
  Singles(P) \cup {B \in SUBSET P : /\ Cardinality(B) = 2
                                    /\ \A c \in B : \E d \in B : c.target = d.rec[2]}
Deliveries ==
  [change |-> Pages(ChangePool), incident |-> Singles(IncidentPool),
   relationship |-> Pages(RelationshipPool), passive |-> Pages(PassivePool),
   threat |-> Singles(ThreatPool), graph |-> Singles(GraphPool),
   procurement |-> Singles(ProcurementPool), footprint |-> Singles(FootprintPool),
   applicability |-> Singles(AssessmentPool)]

AllDomains == DOMAIN Deliveries
WorkerSymmetry == Permutations(Workers)
=============================================================================
