------------------------ MODULE PassiveObservations ------------------------
(* Passive exposure: the observations of one public asset and what its row   *)
(* says (cip.modules.passive_exposure).  Here `at` is the place of a          *)
(* snapshot by the times it was modified, published and observed, in this     *)
(* order of importance.                                                       *)
EXTENDS SourceRecords

Conflicting == {"current", "corrected", "retracted", "deleted"}
StatePriority == [deleted |-> 90, retracted |-> 85, corrected |-> 80, expired |-> 70,
                  current |-> 60, historical |-> 40, unknown |-> 10]

\* The record a snapshot supersedes; superseding oneself is no supersession.
Target(c) == <<SourceOf(c), c.target>>
Supersedes(c) == c.target # Nothing /\ Target(c) # c.rec

\* Following the supersessions among the newest revisions leads back.
Cyclic(H) ==
  \E X \in SUBSET H : /\ X # {}
                      /\ \A c \in X : Supersedes(c) /\ \E d \in X : d.rec = Target(c)

Effective(S) ==
  LET history == Newest(S)
  IN  {c \in history : ~\E d \in history : Supersedes(d) /\ Target(d) = c.rec}

IsActive(c, t) == c.active /\ ~IsStale(c, t)

\* The latest revision, and of two as late the one with the stronger state.
Selected(S) ==
  CHOOSE c \in S : \A d \in S : \/ d.at < c.at
                                \/ d.at = c.at /\ StatePriority[d.state] <= StatePriority[c.state]

ReconciledState(current, active) ==
  LET state == Selected(IF active # {} THEN active ELSE current).state
  IN  IF state = "current" /\ active = {} THEN "expired" ELSE state

\* An exact organisation needs a single linked one and no attribution risk.
OrganizationLink(active) ==
  LET linked == {c \in active : c.org # Nothing /\ c.link # "rejected"}
      orgs == {c.org : c \in linked}
      exact == {c.org : c \in {d \in linked : d.link = "exact"}}
      risky == \E c \in active : c.risk
  IN  IF Count(exact) = 1 /\ Count(orgs) = 1 /\ ~risky
        THEN [org |-> CHOOSE o \in exact : TRUE, link |-> "exact", candidates |-> {}]
      ELSE IF orgs # {}
        THEN [org |-> Nothing, candidates |-> orgs,
              link |-> IF risky \/ Count(orgs) > 1 THEN "review_required" ELSE "candidate"]
      ELSE [org |-> Nothing, link |-> "unresolved", candidates |-> {}]

\* States and sources are those of the whole history, never of what is left.
ReconciledAsset(S, t) ==
  LET current == Effective(S)
      active == {c \in current : IsActive(c, t)}
      link == OrganizationLink(active)
  IN [status |-> ReconciledState(current, active),
      org |-> link.org, link |-> link.link, candidates |-> link.candidates,
      sources |-> Count({SourceOf(c) : c \in S}), independent |-> Count(Groups(active)),
      active |-> active # {},
      conflict |-> Count({c.state : c \in S} \cap Conflicting) > 1]

Reconcilable(S) == Effective(S) # {} /\ ~Cyclic(Newest(S))
Reconciled(S, t) == ReconciledAsset(S, t)
=============================================================================
