---------------------------- MODULE ChangeClaims ----------------------------
(* Corporate changes: the claims about one change event and what the event  *)
(* row says of them (cip.modules.corporate_changes).                        *)
EXTENDS SourceRecords

Positive == {"confirmation", "report", "speculation"}

IsOfficial(c) == c.active /\ c.type = "confirmation" /\ c.official

OfType(S, type) == {c \in S : c.active /\ c.type = type}

\* Faulty: supersession is ignored.
EffectiveUnlessRevised(S) == Newest(S)

\* A record superseded by a newest revision of its own source no longer counts.
Effective(S) ==
  LET latest == Newest(S)
  IN  {c \in latest : c.rec \notin Targets(latest)}

EventStatus(C, t) ==
  LET positive == {c \in C : c.active /\ c.type \in Positive}
      fresh == {c \in positive : ~IsStale(c, t)}
  IN  IF \E c \in fresh : IsOfficial(c) THEN "confirmed"
      ELSE IF OfType(C, "dispute") # {} /\ fresh # {} THEN "disputed"
      ELSE IF fresh # {}
        THEN IF \A c \in fresh : c.type = "speculation" THEN "speculative" ELSE "reported"
      ELSE IF positive # {} THEN "stale"
      ELSE IF OfType(C, "retraction") # {} THEN "retracted"
      ELSE IF OfType(C, "correction") # {} THEN "corrected"
      ELSE IF OfType(C, "dispute") # {} THEN "disputed"
      ELSE "under_review"

OrganizationLink(C) == Attribution(ExactOrganizations(C), {c.link : c \in C})

\* What one event row shows of the claims that count.
ReconciledEvent(C, t) ==
  [status |-> EventStatus(C, t),
   org |-> OrganizationLink(C).org, link |-> OrganizationLink(C).link,
   claims |-> Count(C),
   independent |-> Count(Groups({c \in C : c.active /\ c.type \in Positive})),
   official |-> \E c \in C : IsOfficial(c),
   dispute |-> OfType(C, "dispute") # {},
   retraction |-> OfType(C, "retraction") # {}]

\* The refresh takes the first reconciled event: with none it fails.
Reconcilable(S) == Effective(S) # {}
Reconciled(S, t) == ReconciledEvent(Effective(S), t)
=============================================================================
