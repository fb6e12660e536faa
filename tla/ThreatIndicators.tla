-------------------------- MODULE ThreatIndicators --------------------------
(* Threat telemetry: the snapshots of one indicator and what its row says    *)
(* (cip.modules.threat_telemetry).  Supersession and expiry are stored and   *)
(* play no part in the reconciliation.                                       *)
EXTENDS SourceRecords

Conflicting == {"malicious", "suspicious", "benign", "retracted"}
StatePriority == [benign |-> 90, retracted |-> 85, sinkholed |-> 80, malicious |-> 70,
                  suspicious |-> 60, shared_infrastructure |-> 50, historical |-> 40,
                  expired |-> 30, unknown |-> 10]

Effective(S) == Newest(S)

\* Source precedence decides, then recency, then the safer state.
Outranks(c, d) ==
  \/ c.rank > d.rank
  \/ c.rank = d.rank /\ c.at > d.at
  \/ c.rank = d.rank /\ c.at = d.at /\ StatePriority[c.state] >= StatePriority[d.state]
Selected(C) == CHOOSE c \in C : \A d \in C : Outranks(c, d)

Detections(C) == {c \in C : c.active /\ c.state \in {"malicious", "suspicious"}}

ReconciledIndicator(C) ==
  [status |-> Selected(C).state,
   claims |-> Count({SourceOf(c) : c \in C}),
   independent |-> Count(Groups(Detections(C))),
   active |-> \E c \in C : c.active,
   conflict |-> Count({c.state : c \in C} \cap Conflicting) > 1]

Reconcilable(S) == Effective(S) # {}
Reconciled(S, t) == ReconciledIndicator(Effective(S))
=============================================================================
