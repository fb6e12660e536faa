--------------------------- MODULE ClaimProjection ---------------------------
(***************************************************************************)
(* How collected evidence becomes the row an analyst reads.                *)
(*                                                                         *)
(* A worker delivers a batch inside one transaction: it reads or creates   *)
(* the row of the subject, inserts the snapshots that are new (a key       *)
(* recognises the others), reads the evidence back and rewrites the row    *)
(* from it, or, in the domains of AdvancedProjections, moves the row       *)
(* forward.  Nothing is locked and the row has no version: READ COMMITTED, *)
(* and the ORM writes the columns whose value changed since it loaded the  *)
(* row.  One subject of one domain; the other domains only share the code. *)
(***************************************************************************)
EXTENDS SourceRecords

CONSTANTS
  Workers,    \* worker processes
  Domains,    \* the domains to check, one at a time
  Batches,    \* bound: for each domain, the sets of snapshots sources deliver
  Horizon     \* bound: the last clock value

Change == INSTANCE ChangeClaims
Incident == INSTANCE IncidentClaims
Relationship == INSTANCE RelationshipEvidence
Passive == INSTANCE PassiveObservations
Threat == INSTANCE ThreatIndicators
Graph == INSTANCE GraphEdges
Advanced == INSTANCE AdvancedProjections

RebuiltDomains == {"change", "incident", "relationship", "passive", "threat", "graph"}
AdvancedDomains == {"procurement", "footprint", "applicability"}

ASSUME DomainAssumption ==
  /\ Domains \subseteq RebuiltDomains \cup AdvancedDomains
  /\ Horizon \in Nat

ASSUME BatchAssumption ==
  \A d \in Domains :
    /\ \A B \in Batches[d] : /\ IsFiniteSet(B)
                             /\ d \in AdvancedDomains => \E c \in B : B = {c}
    /\ \A c \in UNION Batches[d] : /\ c.at \in Nat \ {0}
                                   /\ c.rec = <<c.rec[1], c.rec[2]>> /\ c.rec[2] # Nothing
                                   \* Every assessment says something.
                                   /\ d = "applicability" => c.says # "none"
                                   /\ d = "procurement" => c.order \in Nat \ {0}
    \* Two revisions of one record differ in their modification time.
    /\ \A c, e \in UNION Batches[d] : c.rec = e.rec /\ c.at = e.at => c = e
    \* The key of a revision orders the publications of one time.
    /\ d = "procurement" =>
         \A c, e \in UNION Batches[d] : c.at < e.at => c.order < e.order

VARIABLES
  domain,   \* the domain of the subject; never changes
  stored,   \* the committed snapshots of the subject
  row,      \* its committed projection
  tx,       \* the transaction each worker has open
  raced,    \* history: a transaction committed over what it had not read
  now       \* wall-clock time

vars == <<domain, stored, row, tx, raced, now>>

-----------------------------------------------------------------------------
(* What a refresh makes of the evidence, by domain *)

Reconcilable(d, S) ==
  CASE d = "change" -> Change!Reconcilable(S)
    [] d = "incident" -> Incident!Reconcilable(S)
    [] d = "relationship" -> Relationship!Reconcilable(S)
    [] d = "passive" -> Passive!Reconcilable(S)
    [] d = "threat" -> Threat!Reconcilable(S)
    [] d = "graph" -> Graph!Reconcilable(S)
    [] OTHER -> TRUE

Reconciled(d, S, t) ==
  CASE d = "change" -> Change!Reconciled(S, t)
    [] d = "incident" -> Incident!Reconciled(S, t)
    [] d = "relationship" -> Relationship!Reconciled(S, t)
    [] d = "passive" -> Passive!Reconciled(S, t)
    [] d = "threat" -> Threat!Reconciled(S, t)
    [] d = "graph" -> Graph!Reconciled(S, t)

\* The columns of a subject that has no row yet.
NoFields == [f \in {} |-> 0]
Absent == [exists |-> FALSE, updated |-> 0, head |-> NoFields, tail |-> NoFields]

\* A version that comes back, with content there was before, is the one that is
\* stored: it keeps the time of its first delivery.
SameVersion(d, c, e) ==
  CASE d = "procurement" -> c.rec = e.rec /\ c.content = e.content
    [] d = "footprint" -> c.content = e.content
    [] OTHER -> c = e

New(d, S, B) == {c \in B : ~\E e \in S : SameVersion(d, c, e)}

VersionOf(d, S, c) ==
  IF New(d, S, {c}) = {} THEN CHOOSE e \in S : SameVersion(d, c, e) ELSE c

\* The head of an advanced row is its subject as c describes it, the tail what
\* the stored version of c says.
AdvancedHead(d, r, c) ==
  CASE d = "procurement" ->
         IF r.exists THEN Advanced!ProcedureAfter(r.head, c) ELSE Advanced!NewProcedure(c)
    [] d = "footprint" ->
         IF r.exists THEN Advanced!ResourceAfter(r.head, c) ELSE Advanced!NewResource(c)
    [] d = "applicability" -> NoFields

AdvancedTail(d, r, v) ==
  LET shown == IF r.exists THEN r.tail ELSE Advanced!Unshown
  IN CASE d = "procurement" -> Advanced!ContractAfter(shown, v)
       [] d = "footprint" -> Advanced!StatementAfter(shown, v)
       [] d = "applicability" -> Advanced!AssessmentAfter(shown, v)

Acceptable(d, r, c) == d = "procurement" /\ r.exists => Advanced!SameBuyer(r.head, c)

-----------------------------------------------------------------------------
(* Delivering a batch *)

Idle == [phase |-> "idle", batch |-> {}, base |-> {}, loaded |-> Absent,
         view |-> {}, result |-> Absent, at |-> 0]

Init ==
  /\ domain \in Domains
  /\ stored = {}
  /\ row = Absent
  /\ tx = [w \in Workers |-> Idle]
  /\ raced = FALSE
  /\ now = 0

Open(w) == tx[w].phase # "idle"

\* An INSERT of the same key by another transaction blocks until that one ends,
\* and then fails: such a delivery starts over after it.
InsertsCollide(B) ==
  \E v \in Workers :
    Open(v) /\ \/ ~tx[v].loaded.exists
               \/ \E c \in New(domain, stored, B), e \in tx[v].batch : SameVersion(domain, c, e)

\* The row is read or created, the new snapshots are inserted.
Begin(w, B) ==
  /\ ~Open(w)
  /\ ~InsertsCollide(B)
  /\ \A c \in B : Acceptable(domain, row, c)
  /\ tx' = [tx EXCEPT ![w] = [phase |-> "inserted", batch |-> B, base |-> stored,
                              loaded |-> row, view |-> {}, result |-> Absent, at |-> now]]
  /\ UNCHANGED <<domain, stored, row, raced, now>>

\* Faulty: without the flush before it, the read misses the transaction's own rows.
EvidenceWithoutOwn(w) == IF stored = {} THEN tx[w].batch ELSE stored

\* What a statement of the transaction reads: its own rows and the committed ones.
Evidence(w) == stored \cup New(domain, tx[w].base, tx[w].batch)

Delivered(w) == CHOOSE c \in tx[w].batch : TRUE
Version(w) == VersionOf(domain, tx[w].base, Delivered(w))

\* Faulty: a delivery without a new snapshot does not touch the row.
RowFromNew(w, S) ==
  IF tx[w].loaded.exists /\ tx[w].batch \subseteq tx[w].base THEN tx[w].loaded
  ELSE [exists |-> TRUE, updated |-> tx[w].at,
        head |-> IF domain \in RebuiltDomains THEN Reconciled(domain, S, tx[w].at)
                 ELSE AdvancedHead(domain, tx[w].loaded, Delivered(w)),
        tail |-> IF domain \in RebuiltDomains THEN NoFields
                 ELSE AdvancedTail(domain, tx[w].loaded, Version(w))]

\* What the transaction will leave in the row: rebuilt, or moved forward.
RowFrom(w, S) ==
  [exists |-> TRUE, updated |-> tx[w].at,
   head |-> IF domain \in RebuiltDomains THEN Reconciled(domain, S, tx[w].at)
            ELSE AdvancedHead(domain, tx[w].loaded, Delivered(w)),
   tail |-> IF domain \in RebuiltDomains THEN NoFields
            ELSE AdvancedTail(domain, tx[w].loaded, Version(w))]

\* The evidence is read back and reconciled, in memory.
Refresh(w) ==
  /\ tx[w].phase = "inserted"
  /\ Reconcilable(domain, Evidence(w))
  /\ tx' = [tx EXCEPT ![w] = [phase |-> "refreshed", batch |-> tx[w].batch, base |-> tx[w].base,
                              loaded |-> tx[w].loaded, view |-> Evidence(w),
                              result |-> RowFrom(w, Evidence(w)), at |-> tx[w].at]]
  /\ UNCHANGED <<domain, stored, row, raced, now>>

\* An unreconcilable evidence raises and the whole batch is rolled back.
Refuse(w) ==
  /\ tx[w].phase = "inserted"
  /\ ~Reconcilable(domain, Evidence(w))
  /\ tx' = [tx EXCEPT ![w] = Idle]
  /\ UNCHANGED <<domain, stored, row, raced, now>>

\* Only the columns that changed since they were loaded are written.
Written(db, loaded, new) ==
  [f \in DOMAIN new |-> IF f \in DOMAIN loaded /\ new[f] = loaded[f] THEN db[f] ELSE new[f]]

Flushed(db, loaded, new) ==
  IF db = loaded THEN new
  ELSE [exists |-> TRUE,
        updated |-> IF new.updated = loaded.updated THEN db.updated ELSE new.updated,
        head |-> Written(db.head, loaded.head, new.head),
        tail |-> Written(db.tail, loaded.tail, new.tail)]

\* Nothing was committed on the subject since the transaction began.
Solitary(w) == tx[w].base = stored /\ tx[w].loaded = row

\* Faulty: a snapshot replaces the ones stored before it.
CommitReplacing(w) ==
  /\ tx[w].phase = "refreshed"
  /\ stored' = tx[w].batch
  /\ row' = Flushed(row, tx[w].loaded, tx[w].result)
  /\ raced' = (raced \/ ~Solitary(w))
  /\ tx' = [tx EXCEPT ![w] = Idle]
  /\ UNCHANGED <<domain, now>>

Commit(w) ==
  /\ tx[w].phase = "refreshed"
  /\ stored' = stored \cup New(domain, tx[w].base, tx[w].batch)
  /\ row' = Flushed(row, tx[w].loaded, tx[w].result)
  /\ raced' = (raced \/ ~Solitary(w))
  /\ tx' = [tx EXCEPT ![w] = Idle]
  /\ UNCHANGED <<domain, now>>

\* The worker or its connection dies: the database rolls back.
Crash(w) ==
  /\ Open(w)
  /\ tx' = [tx EXCEPT ![w] = Idle]
  /\ UNCHANGED <<domain, stored, row, raced, now>>

Tick ==
  /\ now < Horizon
  /\ now' = now + 1
  /\ UNCHANGED <<domain, stored, row, tx, raced>>

Next ==
  \/ \E w \in Workers : \/ \E B \in Batches[domain] : Begin(w, B)
                        \/ Refresh(w)
                        \/ Refuse(w)
                        \/ Commit(w)
                        \/ Crash(w)
  \/ Tick

Spec == Init /\ [][Next]_vars

-----------------------------------------------------------------------------
(* Properties *)

\* Types of the subject's state and of the open transactions.
TypeOK ==
  /\ domain \in Domains
  /\ stored \subseteq UNION Batches[domain]
  /\ row.exists \in BOOLEAN /\ row.updated \in 0..Horizon
  /\ \A w \in Workers :
       /\ tx[w].phase \in {"idle", "inserted", "refreshed"}
       /\ tx[w].batch \in Batches[domain] \cup {{}}
       /\ tx[w].base \subseteq stored
       /\ tx[w].view \subseteq stored \cup tx[w].batch
       /\ tx[w].at \in 0..now
  /\ raced \in BOOLEAN
  /\ now \in 0..Horizon

\* A sequence of deliveries, in whatever order and however often repeated, never
\* stores evidence that the next refresh cannot reconcile: the subject would be
\* closed to every later batch, of every source, for good.
EvidenceIsReconcilable ==
  ~raced /\ stored # {} => Reconcilable(domain, stored)

\* The row of a rebuilt domain is what all its evidence reconciles to, as of its
\* last refresh: nothing delivered is missing from it and nothing else is in it.
RowIsRebuilt ==
  ~raced /\ domain \in RebuiltDomains /\ row.exists
    => row.head = Reconciled(domain, stored, row.updated)

\* What an advanced row says is what the most recent version stored of it says,
\* whatever the order of delivery.
Rank(d, c) == IF d = "procurement" THEN c.order ELSE c.at
RowShowsNewest ==
  ~raced /\ domain \in AdvancedDomains /\ row.exists =>
    LET said == {c \in stored : c.says # "none"}
    IN  IF said = {} THEN row.tail = Advanced!Unshown
        ELSE \E c \in said : /\ \A d \in said : Rank(domain, d) <= Rank(domain, c)
                             /\ row.tail = [at |-> Rank(domain, c), shows |-> c.says]

\* A verdict an analyst acts on is earned by a snapshot that still stands: the
\* newest of its record, not withdrawn, not expired at the last refresh.
Standing == {c \in Newest(stored) : c.active}
Withdrawn(c) == \E d \in Newest(stored) : d.target = c.rec[2] /\ SourceOf(d) = SourceOf(c)
VerdictsAreEarned ==
  ~raced /\ row.exists =>
    /\ domain = "incident" /\ row.head.status = "confirmed" =>
         \E c \in Standing : c.type \in Incident!OfficialTypes
    /\ domain = "incident" /\ row.head.status = "reported" =>
         \E c \in Standing : c.type # "attacker_allegation"
    /\ domain = "change" /\ row.head.status = "confirmed" =>
         \E c \in Standing : Change!IsOfficial(c) /\ ~Withdrawn(c) /\ ~IsStale(c, row.updated)
    /\ domain = "relationship" /\ row.head.incumbent =>
         /\ \E c \in Standing : /\ c.class = "contracted" /\ ~Withdrawn(c)
                                /\ ~IsStale(c, row.updated)
                                /\ ~Relationship!IsHistorical(c, row.updated)
         /\ \A c \in Standing : c.type = "dispute" => Withdrawn(c)
    /\ domain = "passive" /\ row.head.link = "exact" =>
         \A c \in Standing : \/ c.org \in {row.head.org, Nothing} \/ c.link = "rejected"
                             \/ Withdrawn(c) \/ IsStale(c, row.updated)

\* Every snapshot of the batch is older than a stored revision of its record.
Late(B) == \A c \in B : \E d \in stored : d.rec = c.rec /\ d.at > c.at
LatestOnly == {"change", "incident", "relationship", "threat"}

\* A revision that arrives after a later one of its record changes nothing but
\* what the passing of time changes.
LateRevisionIsInert ==
  [][\A w \in Workers :
       Commit(w) /\ Solitary(w) /\ domain \in LatestOnly /\ Late(tx[w].batch)
         => row'.head = Reconciled(domain, stored, tx[w].at)]_vars

\* Whatever races have done to a row, the next delivery that meets no other one
\* makes it what all the evidence says.
SolitaryDeliveryRepairs ==
  [][\A w \in Workers :
       Commit(w) /\ Solitary(w) /\ domain \in RebuiltDomains
         => row'.head = Reconciled(domain, stored', row'.updated)]_vars
=============================================================================
