----------------------- MODULE ClaimProjectionProofs -----------------------
(* Proofs about ClaimProjection, for any workers, domains and batches.      *)
EXTENDS ClaimProjection, FiniteSetTheorems, TLAPS

\* What a refreshed transaction has computed, from evidence that holds all it
\* had found stored and all it brings.
Shown(w) ==
  /\ tx[w].base \cup New(domain, tx[w].base, tx[w].batch) \subseteq tx[w].view
  /\ tx[w].view \subseteq stored \cup New(domain, tx[w].base, tx[w].batch)
  /\ Reconcilable(domain, tx[w].view)
  /\ tx[w].result = RowFrom(w, tx[w].view)

\* A transaction works on the evidence there was when it began, and later.
WorkInv ==
  /\ tx = [w \in Workers |-> tx[w]]
  /\ \A w \in Workers : /\ Open(w) => tx[w].batch \in Batches[domain]
                        /\ tx[w].phase = "refreshed" => Shown(w)

\* A subject has a row as soon as it has evidence.
StoredInv == IsFiniteSet(stored) /\ (~raced /\ ~row.exists => stored = {})

Inv == TypeOK /\ WorkInv /\ StoredInv /\ EvidenceIsReconcilable /\ RowIsRebuilt /\ RowShowsNewest

\* A transaction that does not move keeps what it has computed.
LEMMA ShownKept ==
  ASSUME NEW w \in Workers, tx'[w] = tx[w], domain' = domain,
         stored \subseteq stored', Shown(w)
  PROVE  Shown(w)'
  BY DEF Shown, RowFrom, Version, Delivered

\* What is new of a batch is part of it; only publications and versions of a
\* public resource come back under another time.
LEMMA NewFacts ==
  ASSUME NEW d \in RebuiltDomains \cup AdvancedDomains, NEW S, NEW B
  PROVE  /\ New(d, S, B) \subseteq B
         /\ d \in RebuiltDomains => S \cup New(d, S, B) = S \cup B
  BY DEF New, SameVersion, RebuiltDomains

\* Delivering one snapshot leaves its version stored.
LEMMA VersionStored ==
  ASSUME NEW d, NEW S, NEW c
  PROVE  /\ S \cup New(d, S, {c}) = S \cup {VersionOf(d, S, c)}
         /\ VersionOf(d, S, c) \in S \cup {c}
  <1>1. CASE New(d, S, {c}) = {}
    <2>1. PICK e \in S : SameVersion(d, c, e) BY <1>1 DEF New
    <2>2. VersionOf(d, S, c) \in S BY <1>1, <2>1 DEF VersionOf
    <2> QED BY <1>1, <2>2
  <1>2. CASE New(d, S, {c}) # {}
    <2>1. VersionOf(d, S, c) = c /\ New(d, S, {c}) = {c} BY <1>2 DEF VersionOf, New
    <2> QED BY <2>1
  <1> QED BY <1>1, <1>2

LEMMA DomainFact == TypeOK => domain \in RebuiltDomains \cup AdvancedDomains
  BY DomainAssumption DEF TypeOK

LEMMA IdleFields == /\ Idle.phase = "idle" /\ Idle.batch = {} /\ Idle.base = {}
                    /\ Idle.view = {} /\ Idle.at = 0
  BY DEF Idle

LEMMA InitInv == Init => Inv
  <1> SUFFICES ASSUME Init PROVE Inv OBVIOUS
  <1>0. \A w \in Workers : tx[w] = Idle BY DEF Init
  <1>1. TypeOK
    <2>1. row.exists \in BOOLEAN /\ row.updated = 0 BY DEF Init, Absent
    <2>2. domain \in Domains /\ stored = {} /\ raced = FALSE /\ now = 0 BY DEF Init
    <2>3. ASSUME NEW w \in Workers
          PROVE  /\ tx[w].phase = "idle" /\ tx[w].batch = {} /\ tx[w].base = {}
                 /\ tx[w].view = {} /\ tx[w].at = 0
      BY <1>0, IdleFields
    <2>4. ASSUME NEW w \in Workers
          PROVE  /\ tx[w].phase \in {"idle", "inserted", "refreshed"}
                 /\ tx[w].batch \in Batches[domain] \cup {{}}
                 /\ tx[w].base \subseteq stored
                 /\ tx[w].view \subseteq stored \cup tx[w].batch
                 /\ tx[w].at \in 0..now
      BY <2>2, <2>3
    <2>5. row.updated \in 0..Horizon /\ now \in 0..Horizon
      BY <2>1, <2>2, DomainAssumption
    <2> QED BY <2>1, <2>2, <2>4, <2>5 DEF TypeOK
  <1>2. WorkInv BY <1>0, IdleFields DEF Init, WorkInv, Open
  <1>3. StoredInv BY FS_EmptySet DEF Init, StoredInv
  <1>4. EvidenceIsReconcilable /\ RowIsRebuilt /\ RowShowsNewest
    BY DEF Init, Absent, EvidenceIsReconcilable, RowIsRebuilt, RowShowsNewest
  <1> QED BY <1>1, <1>2, <1>3, <1>4 DEF Inv

-----------------------------------------------------------------------------
(* Steps that commit nothing *)

Quiet(w) ==
  UNCHANGED <<domain, stored, row, raced, now>> /\ (tx' = [tx EXCEPT ![w] = Idle])

\* A transaction that ends without a commit leaves everything as it was.
LEMMA QuietStep == ASSUME Inv, NEW w \in Workers, Quiet(w) PROVE Inv'
  <1> USE DEF Inv
  <1>1. TypeOK' BY DEF TypeOK, WorkInv, Quiet, Idle
  <1>2. WorkInv'
    <2>1. \A v \in Workers : tx'[v].phase = "refreshed" => tx'[v] = tx[v]
      BY DEF WorkInv, Quiet, Idle
    <2>2. \A v \in Workers : Open(v)' => tx'[v] = tx[v] BY DEF WorkInv, Quiet, Open, Idle
    <2> QED BY <2>1, <2>2, ShownKept DEF WorkInv, Quiet, Open
  <1>3. StoredInv' /\ EvidenceIsReconcilable' /\ RowIsRebuilt'
    BY DEF Quiet, StoredInv, EvidenceIsReconcilable, RowIsRebuilt
  <1>4. RowShowsNewest' BY DEF Quiet, RowShowsNewest
  <1> QED BY <1>1, <1>2, <1>3, <1>4

LEMMA BeginStep ==
  ASSUME Inv, NEW w \in Workers, NEW B \in Batches[domain], Begin(w, B) PROVE Inv'
  <1> USE DEF Inv
  <1>1. TypeOK' BY DEF TypeOK, WorkInv, Begin
  <1>2. WorkInv'
    <2>1. \A v \in Workers : tx'[v].phase = "refreshed" => tx'[v] = tx[v]
      BY DEF WorkInv, Begin
    <2>2. tx'[w].batch = B /\ \A v \in Workers \ {w} : tx'[v] = tx[v]
      BY DEF WorkInv, Begin
    <2> QED BY <2>1, <2>2, ShownKept DEF WorkInv, Begin, Open
  <1>3. StoredInv' /\ EvidenceIsReconcilable' /\ RowIsRebuilt'
    BY DEF Begin, StoredInv, EvidenceIsReconcilable, RowIsRebuilt
  <1>4. RowShowsNewest' BY DEF Begin, RowShowsNewest
  <1> QED BY <1>1, <1>2, <1>3, <1>4

LEMMA RefreshStep == ASSUME Inv, NEW w \in Workers, Refresh(w) PROVE Inv'
  <1> USE DEF Inv
  <1>0. New(domain, tx[w].base, tx[w].batch) \subseteq tx[w].batch BY NewFacts, DomainFact
  <1>1. TypeOK' BY <1>0 DEF TypeOK, WorkInv, Refresh, Evidence
  <1>2. WorkInv'
    <2>1. tx' = [v \in Workers |-> tx'[v]] BY DEF WorkInv, Refresh
    <2>0. \A v \in Workers : tx'[v].batch = tx[v].batch /\ (Open(v)' => Open(v))
      BY DEF WorkInv, Refresh, Open
    <2>2. ASSUME NEW v \in Workers, tx'[v].phase = "refreshed" PROVE Shown(v)'
      <3>1. CASE v = w
        <4>1. tx'[w] = [phase |-> "refreshed", batch |-> tx[w].batch, base |-> tx[w].base,
                        loaded |-> tx[w].loaded, view |-> Evidence(w),
                        result |-> RowFrom(w, Evidence(w)), at |-> tx[w].at]
          BY DEF Refresh, WorkInv
        <4>2. /\ tx'[w].base = tx[w].base /\ tx'[w].batch = tx[w].batch
              /\ tx'[w].loaded = tx[w].loaded /\ tx'[w].at = tx[w].at
              /\ tx'[w].view = Evidence(w) /\ tx'[w].result = RowFrom(w, Evidence(w))
          BY <4>1
        <4>3. domain' = domain /\ Reconcilable(domain, Evidence(w)) BY DEF Refresh
        <4>4. RowFrom(w, tx[w].view)' = RowFrom(w, Evidence(w))
          BY <4>2, <4>3 DEF RowFrom, Version, Delivered
        <4>5. tx[w].base \cup New(domain, tx[w].base, tx[w].batch) \subseteq Evidence(w)
          BY DEF TypeOK, Evidence
        <4>6. Evidence(w) = stored' \cup New(domain, tx[w].base, tx[w].batch)
          BY DEF Evidence, Refresh
        <4> QED BY <3>1, <4>2, <4>3, <4>4, <4>5, <4>6 DEF Shown
      <3>2. CASE v # w
        <4>1. tx'[v] = tx[v] /\ domain' = domain /\ stored' = stored
          BY <3>2 DEF Refresh, WorkInv
        <4>2. Shown(v) BY <2>2, <4>1 DEF WorkInv
        <4> QED BY <4>1, <4>2, ShownKept
      <3> QED BY <3>1, <3>2
    <2> QED BY <2>0, <2>1, <2>2 DEF WorkInv, Refresh
  <1>3. StoredInv' /\ EvidenceIsReconcilable' /\ RowIsRebuilt'
    BY DEF Refresh, StoredInv, EvidenceIsReconcilable, RowIsRebuilt
  <1>4. RowShowsNewest' BY DEF Refresh, RowShowsNewest
  <1> QED BY <1>1, <1>2, <1>3, <1>4

-----------------------------------------------------------------------------
(* Steps that commit *)

\* What a delivery that met no other one leaves behind.
LEMMA SolitaryCommit ==
  ASSUME Inv, NEW w \in Workers, Commit(w), Solitary(w)
  PROVE  /\ stored' = tx[w].view /\ stored' = stored \cup New(domain, stored, tx[w].batch)
         /\ Reconcilable(domain, stored')
         /\ row' = RowFrom(w, stored') /\ row'.exists
         /\ row'.updated = tx[w].at
  <1>0. Shown(w) BY DEF Inv, WorkInv, Commit
  <1>1. tx[w].view = stored \cup New(domain, stored, tx[w].batch)
    BY <1>0 DEF Inv, WorkInv, Shown, Solitary
  <1>2. row' = tx[w].result BY DEF Commit, Solitary, Flushed
  <1>3. tx[w].result = RowFrom(w, tx[w].view) /\ Reconcilable(domain, tx[w].view)
    BY <1>0 DEF Shown
  <1>4. stored' = stored \cup New(domain, stored, tx[w].batch) BY DEF Commit, Solitary
  <1> QED BY <1>1, <1>2, <1>3, <1>4 DEF RowFrom

LEMMA CommitStep == ASSUME Inv, NEW w \in Workers, Commit(w) PROVE Inv'
  <1>0. Inv /\ TypeOK /\ Shown(w) /\ tx[w].batch \in Batches[domain]
    BY DEF Inv, WorkInv, Commit, Open
  <1>a. tx[w].result.exists = TRUE /\ tx[w].result.updated = tx[w].at
    BY <1>0 DEF Shown, RowFrom
  <1>1. TypeOK'
    <2>1. row'.exists \in BOOLEAN /\ row'.updated \in 0..Horizon
      <3>2. tx[w].at \in 0..Horizon BY DomainAssumption DEF Inv, TypeOK
      <3> QED BY <1>0, <1>a, <3>2 DEF Commit, Flushed, TypeOK
    <2>2. stored' \subseteq UNION Batches[domain]
      BY <1>0, NewFacts, DomainFact DEF TypeOK, Commit
    <2> QED BY <2>1, <2>2 DEF Inv, TypeOK, WorkInv, Commit, Idle
  <1>2. WorkInv'
    <2>1. \A v \in Workers : Open(v)' => tx'[v] = tx[v]
      BY IdleFields DEF Inv, WorkInv, Commit, Open
    <2>2. \A v \in Workers : tx'[v].phase = "refreshed" => Open(v)' BY DEF Open
    <2> QED BY <2>1, <2>2, ShownKept DEF Inv, WorkInv, Commit, Open
  <1>3. StoredInv'
    <2>1. IsFiniteSet(tx[w].batch) BY <1>0, BatchAssumption DEF TypeOK
    <2>a. IsFiniteSet(New(domain, tx[w].base, tx[w].batch))
      BY <1>0, <2>1, NewFacts, DomainFact, FS_Subset
    <2>2. IsFiniteSet(stored') BY <2>a, FS_Union DEF Inv, StoredInv, Commit
    <2>3. row'.exists BY <1>a DEF Commit, Flushed
    <2> QED BY <2>2, <2>3 DEF StoredInv
  <1>4. CASE ~Solitary(w)
    <2>1. raced' BY <1>4 DEF Commit
    <2> QED BY <1>1, <1>2, <1>3, <2>1
         DEF Inv, EvidenceIsReconcilable, RowIsRebuilt, RowShowsNewest
  <1>5. CASE Solitary(w)
    <2>1. /\ stored' = stored \cup New(domain, stored, tx[w].batch)
          /\ Reconcilable(domain, stored')
          /\ row' = RowFrom(w, stored') /\ row'.updated = tx[w].at
      BY <1>0, <1>5, SolitaryCommit
    <2>2. domain' = domain /\ (raced' = raced) BY <1>5 DEF Commit, Inv, TypeOK
    <2>3. EvidenceIsReconcilable' BY <2>1, <2>2 DEF EvidenceIsReconcilable
    <2>4. RowIsRebuilt' BY <2>1, <2>2 DEF RowIsRebuilt, RowFrom
    <2>5. RowShowsNewest'
      <3> SUFFICES ASSUME ~raced, domain \in AdvancedDomains PROVE RowShowsNewest'
        BY <2>2 DEF RowShowsNewest
      <3> DEFINE Newest1(said, tail) ==
                   IF said = {} THEN tail = Advanced!Unshown
                   ELSE \E c \in said : /\ \A e \in said : Rank(domain, e) <= Rank(domain, c)
                                        /\ tail = [at |-> Rank(domain, c), shows |-> c.says]
                 said == {c \in stored : c.says # "none"}
                 shown == IF row.exists THEN row.tail ELSE Advanced!Unshown
                 v == Version(w)
      <3>1. /\ stored' = stored \cup {v} /\ v \in UNION Batches[domain]
        <4>1. PICK c \in tx[w].batch : tx[w].batch = {c}
          BY <1>0, BatchAssumption DEF TypeOK
        <4>2. Delivered(w) = c BY <4>1 DEF Delivered
        <4>3. v = VersionOf(domain, stored, c) BY <1>5, <4>2 DEF Version, Solitary
        <4>4. c \in UNION Batches[domain] /\ stored \subseteq UNION Batches[domain]
          BY <1>0, <4>1 DEF TypeOK
        <4> HIDE DEF v
        <4> QED BY <2>1, <4>1, <4>3, <4>4, VersionStored
      <3>2. \A c \in stored \cup {v} : Rank(domain, c) \in Nat \ {0}
        BY <1>0, <3>1, BatchAssumption DEF TypeOK, Rank
      <3>3. Newest1(said, shown)
        BY <1>0 DEF Inv, RowShowsNewest, StoredInv
      <3>4. row'.tail = AdvancedTail(domain, row, v)
        BY <2>1, <1>5 DEF RowFrom, Solitary, RebuiltDomains, AdvancedDomains
      <3>5. row'.tail = IF v.says = "none" THEN shown
                        ELSE IF Rank(domain, v) >= shown.at
                             THEN [at |-> Rank(domain, v), shows |-> v.says] ELSE shown
        <4>1. shown = [at |-> shown.at, shows |-> shown.shows]
          <5>1. CASE said = {} BY <3>3, <5>1 DEF Advanced!Unshown
          <5>2. CASE said # {}
            <6>1. PICK c \in said : shown = [at |-> Rank(domain, c), shows |-> c.says]
              BY <3>3, <5>2
            <6> HIDE DEF shown
            <6> QED BY <6>1
          <5> QED BY <5>1, <5>2
        <4>2. v.says = "none" => domain # "applicability"
          BY <1>0, <3>1, BatchAssumption DEF TypeOK
        <4> HIDE DEF v
        <4> QED BY <3>4, <4>1, <4>2 DEF AdvancedTail, AdvancedDomains, Rank,
              Advanced!ContractAfter, Advanced!StatementAfter, Advanced!AssessmentAfter,
              Advanced!Advance
      <3>6. said' = IF v.says = "none" THEN said ELSE said \cup {v}
        BY <3>1
      <3> HIDE DEF v
      <3>7. Newest1(said', row'.tail)
        <4>1. CASE v.says = "none" BY <3>3, <3>5, <3>6, <4>1
        <4>2. CASE v.says # "none" /\ said = {}
          BY <3>2, <3>3, <3>5, <3>6, <4>2 DEF Advanced!Unshown
        <4>3. CASE v.says # "none" /\ said # {}
          <5>1. PICK c \in said : /\ \A e \in said : Rank(domain, e) <= Rank(domain, c)
                                 /\ shown = [at |-> Rank(domain, c), shows |-> c.says]
            BY <3>3, <4>3
          <5>2. CASE Rank(domain, v) >= Rank(domain, c)
            <6>1. row'.tail = [at |-> Rank(domain, v), shows |-> v.says]
              BY <3>5, <4>3, <5>1, <5>2
            <6>2. \A e \in said \cup {v} : Rank(domain, e) <= Rank(domain, v)
              BY <3>2, <5>1, <5>2
            <6> QED BY <3>6, <4>3, <6>1, <6>2
          <5>3. CASE ~(Rank(domain, v) >= Rank(domain, c))
            <6>1. row'.tail = [at |-> Rank(domain, c), shows |-> c.says]
              BY <3>5, <4>3, <5>1, <5>3
            <6>2. \A e \in said \cup {v} : Rank(domain, e) <= Rank(domain, c)
              BY <3>2, <5>1, <5>3
            <6> QED BY <3>6, <4>3, <6>1, <6>2
          <5> QED BY <5>2, <5>3
        <4> QED BY <4>1, <4>2, <4>3
      <3> QED BY <2>2, <3>7 DEF RowShowsNewest
    <2> QED BY <1>1, <1>2, <1>3, <2>3, <2>4, <2>5 DEF Inv
  <1> QED BY <1>4, <1>5

-----------------------------------------------------------------------------
(* The invariant *)

LEMMA TickStep == ASSUME Inv, Tick \/ UNCHANGED vars PROVE Inv'
  <1> USE DEF Inv
  <1>1. /\ domain' = domain /\ stored' = stored /\ row' = row /\ tx' = tx /\ (raced' = raced)
        /\ now' \in 0..Horizon /\ now' >= now
    BY DomainAssumption DEF Tick, vars, TypeOK
  <1>2. TypeOK' BY <1>1, DomainAssumption DEF TypeOK
  <1>3. WorkInv' BY <1>1, ShownKept DEF WorkInv, Open
  <1>4. StoredInv' /\ EvidenceIsReconcilable' /\ RowIsRebuilt'
    BY <1>1 DEF StoredInv, EvidenceIsReconcilable, RowIsRebuilt
  <1>5. RowShowsNewest' BY <1>1 DEF RowShowsNewest
  <1> QED BY <1>2, <1>3, <1>4, <1>5

LEMMA NextInv == Inv /\ [Next]_vars => Inv'
  <1> SUFFICES ASSUME Inv, [Next]_vars PROVE Inv' OBVIOUS
  <1>1. ASSUME NEW w \in Workers, NEW B \in Batches[domain], Begin(w, B) PROVE Inv'
    BY <1>1, BeginStep
  <1>2. ASSUME NEW w \in Workers, Refresh(w) PROVE Inv' BY <1>2, RefreshStep
  <1>3. ASSUME NEW w \in Workers, Refuse(w) \/ Crash(w) PROVE Inv'
    BY <1>3, QuietStep DEF Refuse, Crash, Quiet
  <1>4. ASSUME NEW w \in Workers, Commit(w) PROVE Inv' BY <1>4, CommitStep
  <1>5. ASSUME Tick \/ UNCHANGED vars PROVE Inv' BY <1>5, TickStep
  <1> QED BY <1>1, <1>2, <1>3, <1>4, <1>5 DEF Next

LEMMA Invariance == Spec => []Inv
  BY InitInv, NextInv, PTL DEF Spec

\* The types of the stored evidence, the row and the open transactions.
THEOREM TypeCorrect == Spec => []TypeOK
<1>1. Inv => TypeOK BY DEF Inv
<1> QED BY <1>1, Invariance, PTL

\* As long as no two deliveries of a subject overlap, in whatever order they
\* come, the refreshed evidence can be reconciled again, and the row of a rebuilt
\* domain is what all of it reconciles to: for any domain, sources and batches.
THEOREM RowsFollowTheEvidence == Spec => [](EvidenceIsReconcilable /\ RowIsRebuilt)
<1>1. Inv => EvidenceIsReconcilable /\ RowIsRebuilt BY DEF Inv
<1> QED BY <1>1, Invariance, PTL

\* As long as no two deliveries of a subject overlap, a contract, a statement or
\* an assessment shows the most recent version stored, in whatever order they come.
THEOREM AdvancedRowsShowNewest == Spec => []RowShowsNewest
<1>1. Inv => RowShowsNewest BY DEF Inv
<1> QED BY <1>1, Invariance, PTL

\* A delivery that meets no other one leaves the row that all the evidence
\* reconciles to, whatever earlier races had made of it.
THEOREM RepairedByTheNext == Spec => SolitaryDeliveryRepairs
<1>1. Inv /\ [Next]_vars =>
        [\A w \in Workers :
           Commit(w) /\ Solitary(w) /\ domain \in RebuiltDomains
             => row'.head = Reconciled(domain, stored', row'.updated)]_vars
  <2> SUFFICES ASSUME Inv, NEW w \in Workers, Commit(w), Solitary(w), domain \in RebuiltDomains
               PROVE  row'.head = Reconciled(domain, stored', row'.updated)
    OBVIOUS
  <2>1. row' = RowFrom(w, stored') /\ row'.updated = tx[w].at BY SolitaryCommit
  <2> QED BY <2>1 DEF RowFrom
<1> QED BY <1>1, Invariance, PTL DEF Spec, SolitaryDeliveryRepairs

-----------------------------------------------------------------------------
(* Late revisions *)

\* Evidence older than a revision of the same record that is already there does
\* not change which revisions are the newest.
LEMMA NewestWithout ==
  ASSUME NEW S, NEW B,
         \A c \in S \cup B : c.at \in Nat,
         \A c \in B : \E d \in S : d.rec = c.rec /\ d.at > c.at
  PROVE  Newest(S \cup B) = Newest(S)
  <1>1. ASSUME NEW c \in Newest(S \cup B) PROVE c \in Newest(S)
    <2>1. c \in S \cup B /\ \A d \in S \cup B : d.rec = c.rec => d.at <= c.at
      BY <1>1 DEF Newest
    <2>2. c \notin B
      <3> SUFFICES ASSUME c \in B PROVE FALSE OBVIOUS
      <3>1. PICK d \in S : d.rec = c.rec /\ d.at > c.at OBVIOUS
      <3> QED BY <2>1, <3>1
    <2> QED BY <2>1, <2>2 DEF Newest
  <1>2. ASSUME NEW c \in Newest(S) PROVE c \in Newest(S \cup B)
    <2>1. c \in S /\ \A d \in S : d.rec = c.rec => d.at <= c.at BY <1>2 DEF Newest
    <2>2. ASSUME NEW b \in B, b.rec = c.rec PROVE b.at <= c.at
      <3>1. PICK d \in S : d.rec = b.rec /\ d.at > b.at OBVIOUS
      <3> QED BY <2>1, <2>2, <3>1
    <2> QED BY <2>1, <2>2 DEF Newest
  <1> QED BY <1>1, <1>2

LEMMA LateIsInert ==
  \A S, T, t : \A d \in LatestOnly :
    Newest(T) = Newest(S) => Reconciled(d, T, t) = Reconciled(d, S, t)
  <1> SUFFICES ASSUME NEW S, NEW T, NEW t, NEW d \in LatestOnly, Newest(T) = Newest(S)
               PROVE  Reconciled(d, T, t) = Reconciled(d, S, t)
    OBVIOUS
  <1>1. Change!Effective(T) = Change!Effective(S)
    BY DEF Change!Effective, Change!Newest, Newest, Change!Targets, Change!SourceOf
  <1>2. Incident!Effective(T) = Incident!Effective(S)
    BY DEF Incident!Effective, Incident!Newest, Newest
  <1>3. Relationship!Effective(T) = Relationship!Effective(S)
    BY DEF Relationship!Effective, Relationship!Newest, Newest
  <1>4. Threat!Effective(T) = Threat!Effective(S)
    BY DEF Threat!Effective, Threat!Newest, Newest
  <1> QED BY <1>1, <1>2, <1>3, <1>4
       DEF LatestOnly, Reconciled, Change!Reconciled, Incident!Reconciled,
           Relationship!Reconciled, Threat!Reconciled

\* A revision of a change, incident, relationship or indicator that is older than
\* one already stored leaves its row as it was reconciled, however late it comes.
THEOREM LateRevisionsAreInert == Spec => LateRevisionIsInert
<1>1. Inv /\ [Next]_vars =>
        [\A w \in Workers :
           Commit(w) /\ Solitary(w) /\ domain \in LatestOnly /\ Late(tx[w].batch)
             => row'.head = Reconciled(domain, stored, tx[w].at)]_vars
  <2> SUFFICES ASSUME Inv, NEW w \in Workers, Commit(w), Solitary(w),
                      domain \in LatestOnly, Late(tx[w].batch)
               PROVE  row'.head = Reconciled(domain, stored, tx[w].at)
    OBVIOUS
  <2>0. New(domain, stored, tx[w].batch) \cup stored = tx[w].batch \cup stored
    BY NewFacts, DomainFact DEF Inv, LatestOnly, RebuiltDomains
  <2>1. stored' = stored \cup tx[w].batch /\ row' = RowFrom(w, stored')
    BY <2>0, SolitaryCommit
  <2>2. row'.head = Reconciled(domain, stored', tx[w].at)
    BY <2>1 DEF RowFrom, LatestOnly, RebuiltDomains
  <2>3. \A c \in stored' : c.at \in Nat
    BY <2>1, BatchAssumption DEF Inv, TypeOK, WorkInv, Commit, Open
  <2>4. Newest(stored \cup tx[w].batch) = Newest(stored)
    BY <2>1, <2>3, NewestWithout DEF Late
  <2>5. Reconciled(domain, stored \cup tx[w].batch, tx[w].at) = Reconciled(domain, stored, tx[w].at)
    BY <2>4, LateIsInert
  <2> QED BY <2>1, <2>2, <2>5
<1> QED BY <1>1, Invariance, PTL DEF Spec, LateRevisionIsInert

-----------------------------------------------------------------------------
(* Verdicts *)

\* Which records a stored snapshot of the same source withdraws.
LEMMA WithdrawnIffTargeted ==
  ASSUME Inv, NEW c \in stored
  PROVE  Withdrawn(c) <=> c.rec \in Targets(Newest(stored))
  <1>1. c.rec = <<c.rec[1], c.rec[2]>> /\ c.rec[2] # Nothing
    BY BatchAssumption DEF Inv, TypeOK
  <1>2. ASSUME Withdrawn(c) PROVE c.rec \in Targets(Newest(stored))
    <2>1. PICK d \in Newest(stored) : d.target = c.rec[2] /\ SourceOf(d) = SourceOf(c)
      BY <1>2 DEF Withdrawn
    <2>2. d.target # Nothing /\ <<SourceOf(d), d.target>> = c.rec BY <1>1, <2>1 DEF SourceOf
    <2> QED BY <2>2 DEF Targets
  <1>3. ASSUME c.rec \in Targets(Newest(stored)) PROVE Withdrawn(c)
    <2>1. PICK d \in Newest(stored) : c.rec = <<SourceOf(d), d.target>> BY <1>3 DEF Targets
    <2>2. c.rec[1] = SourceOf(d) /\ c.rec[2] = d.target BY <2>1
    <2> QED BY <2>2 DEF Withdrawn, SourceOf
  <1> QED BY <1>2, <1>3

LEMMA IncidentVerdicts ==
  ASSUME Inv, ~raced, row.exists, domain = "incident"
  PROVE  /\ row.head.status = "confirmed" =>
              \E c \in Standing : c.type \in Incident!OfficialTypes
         /\ row.head.status = "reported" =>
              \E c \in Standing : c.type # "attacker_allegation"
  <1> DEFINE C == Incident!Effective(stored)
  <1>1. row.head.status = Incident!IncidentStatus(C)
    BY DEF Inv, RowIsRebuilt, RebuiltDomains, Reconciled, Incident!Reconciled,
           Incident!ReconciledIncident
  <1>2. C = Newest(stored) BY DEF Incident!Effective, Incident!Newest, Newest
  <1>3. Incident!Positive(C) \subseteq Standing BY <1>2 DEF Incident!Positive, Standing
  <1>4. row.head.status = "confirmed" => Incident!Official(C) # {}
    BY <1>1 DEF Incident!IncidentStatus
  <1>5. row.head.status = "reported" =>
          \E c \in Incident!Positive(C) : c.type # "attacker_allegation"
    BY <1>1 DEF Incident!IncidentStatus
  <1> QED BY <1>3, <1>4, <1>5 DEF Incident!Official

LEMMA ChangeVerdicts ==
  ASSUME Inv, ~raced, row.exists, domain = "change", row.head.status = "confirmed"
  PROVE  \E c \in Standing : Change!IsOfficial(c) /\ ~Withdrawn(c) /\ ~IsStale(c, row.updated)
  <1> DEFINE C == Change!Effective(stored)
             t == row.updated
  <1>1. Change!EventStatus(C, t) = "confirmed"
    BY DEF Inv, RowIsRebuilt, RebuiltDomains, Reconciled, Change!Reconciled,
           Change!ReconciledEvent
  <1>2. PICK c \in C : Change!IsOfficial(c) /\ ~Change!IsStale(c, t)
    BY <1>1 DEF Change!EventStatus
  <1>3. c \in Newest(stored) /\ c.rec \notin Targets(Newest(stored))
    BY DEF Change!Effective, Change!Newest, Newest, Change!Targets, Targets, Change!SourceOf,
           SourceOf, Change!Nothing, Nothing
  <1>4. c \in stored /\ ~Withdrawn(c) BY <1>3, WithdrawnIffTargeted DEF Newest
  <1>5. c \in Standing /\ ~IsStale(c, t)
    BY <1>2, <1>3 DEF Standing, Change!IsOfficial, Change!IsStale, IsStale
  <1> QED BY <1>2, <1>4, <1>5

LEMMA RelationshipVerdicts ==
  ASSUME Inv, ~raced, row.exists, domain = "relationship", row.head.incumbent
  PROVE  /\ \E c \in Standing : /\ c.class = "contracted" /\ ~Withdrawn(c)
                                /\ ~IsStale(c, row.updated)
                                /\ ~Relationship!IsHistorical(c, row.updated)
         /\ \A c \in Standing : c.type = "dispute" => Withdrawn(c)
  <1> DEFINE C == Relationship!Effective(stored)
             t == row.updated
  <1>1. Relationship!ContractBackedCurrent(C, t)
    BY DEF Inv, RowIsRebuilt, RebuiltDomains, Reconciled, Relationship!Reconciled,
           Relationship!ReconciledRelationship
  <1>2. PICK c \in Relationship!Assertions(C) : Relationship!IsContract(c, t)
    BY <1>1 DEF Relationship!ContractBackedCurrent
  <1>3. \A e \in stored :
          e \in C <=> e \in Newest(stored) /\ e.rec \notin Targets(Newest(stored))
    BY DEF Relationship!Effective, Relationship!Newest, Newest, Relationship!Targets, Targets,
           Relationship!SourceOf, SourceOf, Relationship!Nothing, Nothing
  <1>4. C \subseteq stored BY DEF Relationship!Effective, Relationship!Newest
  <1>5. c \in C /\ c.active /\ c.class = "contracted" /\ Relationship!IsCurrent(c, t)
    BY <1>2 DEF Relationship!Assertions, Relationship!OfType, Relationship!IsContract
  <1>6. c \in Standing /\ ~Withdrawn(c) /\ ~IsStale(c, t) /\ ~Relationship!IsHistorical(c, t)
    BY <1>3, <1>4, <1>5, WithdrawnIffTargeted
    DEF Standing, Relationship!IsCurrent, Relationship!IsStale, IsStale
  <1>7. Relationship!OfType(C, "dispute") = {}
    <2>1. Relationship!RelationshipStatus(C, t) = "active"
      BY <1>1 DEF Relationship!ContractBackedCurrent
    <2> QED BY <1>2, <1>5, <2>1 DEF Relationship!RelationshipStatus
  <1>8. ASSUME NEW e \in Standing, e.type = "dispute", ~Withdrawn(e) PROVE FALSE
    <2>1. e \in stored /\ e \in C
      BY <1>3, <1>8, WithdrawnIffTargeted DEF Standing, Newest
    <2> QED BY <1>7, <1>8, <2>1 DEF Relationship!OfType, Standing
  <1> QED BY <1>5, <1>6, <1>8

LEMMA CountIsCardinality == \A S : Passive!Count(S) = Cardinality(S)
  BY DEF Passive!Count, Passive!Cardinality, Cardinality

LEMMA OrganizationsAreFinite ==
  ASSUME NEW S, IsFiniteSet(S) PROVE IsFiniteSet({c.org : c \in S})
  <1> DEFINE T == {c.org : c \in S}
             f == [c \in S |-> c.org]
  <1>1. f \in Surjection(S, T) BY DEF Surjection
  <1> QED BY <1>1, FS_Surjection

LEMMA PassiveVerdicts ==
  ASSUME Inv, ~raced, row.exists, domain = "passive", row.head.link = "exact"
  PROVE  \A c \in Standing : \/ c.org \in {row.head.org, Nothing} \/ c.link = "rejected"
                             \/ Withdrawn(c) \/ IsStale(c, row.updated)
  <1> DEFINE t == row.updated
             active == {c \in Passive!Effective(stored) : Passive!IsActive(c, t)}
             linked == {c \in active : c.org # Nothing /\ c.link # "rejected"}
             orgs == {c.org : c \in linked}
             exact == {c.org : c \in {d \in linked : d.link = "exact"}}
  <1>1. /\ row.head.link = Passive!OrganizationLink(active).link
        /\ row.head.org = Passive!OrganizationLink(active).org
    <2>1. row.head = Passive!ReconciledAsset(stored, t)
      BY DEF Inv, RowIsRebuilt, RebuiltDomains, Reconciled, Passive!Reconciled
    <2> QED BY <2>1 DEF Passive!ReconciledAsset
  <1>2. /\ Cardinality(exact) = 1 /\ Cardinality(orgs) = 1
        /\ row.head.org = CHOOSE o \in exact : TRUE
    BY <1>1, CountIsCardinality DEF Passive!OrganizationLink, Passive!Nothing, Nothing
  <1>3. linked \subseteq stored
    BY DEF Passive!Effective, Passive!Newest
  <1>4. IsFiniteSet(orgs) /\ exact \subseteq orgs
    <2>1. IsFiniteSet(linked) BY <1>3, FS_Subset DEF Inv, StoredInv
    <2> QED BY <2>1, OrganizationsAreFinite
  <1>5. PICK o : orgs = {o}
    BY <1>2, <1>4, FS_Singleton
  <1>6. exact # {}
    BY <1>2, FS_EmptySet
  <1>7. orgs = {row.head.org}
    <2>1. row.head.org \in exact BY <1>2, <1>6
    <2> QED BY <1>4, <1>5, <2>1
  <1>8. SUFFICES ASSUME NEW c \in Standing, c.org # Nothing, c.link # "rejected",
                        ~Withdrawn(c), ~IsStale(c, t)
                 PROVE  c.org = row.head.org
    OBVIOUS
  <1>9. c \in Newest(stored) /\ c.active BY DEF Standing
  <1>10. c.rec = <<c.rec[1], c.rec[2]>> BY <1>9, BatchAssumption DEF Inv, TypeOK, Newest
  <1>11. c \in Passive!Effective(stored)
    <2> SUFFICES ASSUME NEW d \in Newest(stored), Passive!Supersedes(d), Passive!Target(d) = c.rec
                 PROVE  FALSE
      BY <1>9 DEF Passive!Effective, Passive!Newest, Newest
    <2>1. d.target = c.rec[2] /\ SourceOf(d) = SourceOf(c)
      BY <1>10 DEF Passive!Target, Passive!SourceOf, SourceOf
    <2> QED BY <1>8, <2>1 DEF Withdrawn
  <1>12. c \in linked
    BY <1>8, <1>9, <1>11 DEF Passive!IsActive, Passive!IsStale, IsStale
  <1> QED BY <1>7, <1>12

\* The verdicts a row shows - a confirmed or reported incident, a confirmed change,
\* an incumbent supplier, the owner of an asset - are earned by snapshots that
\* still stand, for any sources and batches, as long as no deliveries overlap.
THEOREM EarnedVerdicts == Spec => []VerdictsAreEarned
<1>1. Inv => VerdictsAreEarned
  <2> SUFFICES ASSUME Inv, ~raced, row.exists PROVE VerdictsAreEarned
    BY DEF VerdictsAreEarned
  <2>1. CASE domain = "incident" BY <2>1, IncidentVerdicts DEF VerdictsAreEarned
  <2>2. CASE domain = "change" BY <2>2, ChangeVerdicts DEF VerdictsAreEarned
  <2>3. CASE domain = "relationship" BY <2>3, RelationshipVerdicts DEF VerdictsAreEarned
  <2>4. CASE domain = "passive" BY <2>4, PassiveVerdicts DEF VerdictsAreEarned
  <2> QED BY <2>1, <2>2, <2>3, <2>4 DEF VerdictsAreEarned
<1> QED BY <1>1, Invariance, PTL
=============================================================================
