----------------------------- MODULE GraphEdges -----------------------------
(* Corporate graph: the snapshots of one edge and what its row says          *)
(* (cip.modules.corporate_graph).  Unlike the other domains, a record is     *)
(* superseded by every snapshot that ever said so, revised since or not, and *)
(* an edge with nothing left falls back on its latest snapshot.              *)
EXTENDS SourceRecords

Latest(S) == {c \in S : \A d \in S : d.at <= c.at}

Effective(S) ==
  LET left == {c \in Newest(S) : c.rec \notin Targets(S)}
  IN  IF left # {} THEN left ELSE {CHOOSE c \in Latest(S) : TRUE}

\* until = 0: no end of validity
IsCurrent(c, t) ==
  /\ c.active /\ ~c.suppressed
  /\ c.type \notin {"retraction", "dispute"}
  /\ c.review # "rejected"
  /\ c.from <= t /\ (c.until = 0 \/ t < c.until)
  /\ ~IsStale(c, t)

ReviewState(B) ==
  LET states == {c.review : c \in B}
  IN  IF "review_required" \in states THEN "review_required"
      ELSE IF states = {"rejected"} THEN "rejected"
      ELSE IF "confirmed" \in states THEN "confirmed"
      ELSE IF "auto_confirmed" \in states THEN "auto_confirmed"
      ELSE "unreviewed"

ReconciledEdge(C, t) ==
  LET current == {c \in C : IsCurrent(c, t)}
      basis == IF current # {} THEN current ELSE {CHOOSE c \in Latest(C) : TRUE}
  IN [status |-> ReviewState(basis), current |-> current # {},
      suppressed |-> current = {} /\ \A c \in basis : c.suppressed,
      claims |-> Count({SourceOf(c) : c \in basis})]

Reconcilable(S) == Effective(S) # {}
Reconciled(S, t) == ReconciledEdge(Effective(S), t)
=============================================================================
