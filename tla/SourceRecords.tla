--------------------------- MODULE SourceRecords ---------------------------
(***************************************************************************)
(* What the evidence-backed projections have in common.  Each domain keeps *)
(* every snapshot a source ever published and shows one row per subject.   *)
(* A snapshot names the source record it revises (`rec`, the pair          *)
(* <<source, key>>), the time the source modified it (`at`, which tells    *)
(* two revisions of one record apart) and possibly the key of a record of  *)
(* the same source that it supersedes (`target`).                          *)
(***************************************************************************)
EXTENDS Integers, FiniteSets

Nothing == "none"      \* None, of any type

\* Every revision counts until the record is revised by a later one.
Newest(S) == {c \in S : \A d \in S : d.rec = c.rec => d.at <= c.at}

SourceOf(c) == c.rec[1]
Targets(S) == {<<SourceOf(c), c.target>> : c \in {d \in S : d.target # Nothing}}

Count(S) == Cardinality(S)
Groups(S) == {c.group : c \in S}

\* expires = 0: no expiry
IsStale(c, t) == c.expires # 0 /\ c.expires <= t

\* The link of a set of (organisation, status) attributions: one exact
\* organisation, a conflict, or the strongest status without an organisation.
Strongest(statuses) ==
  CHOOSE s \in statuses : \A r \in statuses :
    LET priority == [rejected |-> 0, unresolved |-> 1, candidate |-> 2,
                     review_required |-> 3, exact |-> 4]
    IN  priority[r] <= priority[s]

Attribution(exact, statuses) ==
  IF Count(exact) > 1 THEN [org |-> Nothing, link |-> "review_required"]
  ELSE IF Count(exact) = 1 THEN [org |-> CHOOSE o \in exact : TRUE, link |-> "exact"]
  ELSE [org |-> Nothing, link |-> Strongest(statuses)]

ExactOrganizations(S) == {c.org : c \in {d \in S : d.active /\ d.link = "exact"}}
=============================================================================
