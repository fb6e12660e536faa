------------------------ MODULE ProviderAccessProofs ------------------------
(* Proofs about ProviderAccess, for any profiles, secrets, dossiers, clients. *)
EXTENDS ProviderAccess, TLAPS

Kinds == OnboardingKinds \cup ControlKinds \cup {"idle", "dossier"}

\* What a request carries, whose columns fit the row of its kind.
IsRequest(x) ==
  /\ x = [kind |-> x.kind, insert |-> x.insert, columns |-> x.columns, state |-> x.state,
          found |-> x.found, revision |-> x.revision, switches |-> x.switches,
          fresh |-> x.fresh]
  /\ x.kind \in Kinds
  /\ x.fresh \in BOOLEAN
  /\ x.state \in OnboardingStates \cup {Unset}
  /\ x.kind \in OnboardingKinds \/ x.state = Unset
  /\ x.found \in [Names -> Refs \cup {Unset}]
  /\ x.revision \in AnyDossier
  /\ x.switches \in ControlType
  /\ x.kind \in OnboardingKinds => \A row \in RowType : Merged(row, x.columns) \in RowType
  /\ x.kind = "dossier" => \A row \in AnyDossier : Merged(row, x.columns) \in AnyDossier
  /\ x.kind \in ControlKinds =>
       \A row \in ControlType : Merged(row, x.columns) \in ControlType
  /\ x.kind = "evaluate" => \A row \in ControlType : Merged(row, x.columns) = row

Typed ==
  /\ onboarding \in RowType
  /\ approval \in [exists : BOOLEAN, dossier : AnyDossier, revision : AnyDossier]
  /\ control \in [exists : BOOLEAN, switches : ControlType]
  /\ records \in [state : OnboardingStates, switches : ControlType,
                  found : [Names -> Refs \cup {Unset}]]
  /\ tx = [c \in Clients |-> tx[c]]
  /\ \A c \in Clients : IsRequest(tx[c])
  /\ raced \in BOOLEAN

Closed(row) == row.blocked => row.refs = NoSecrets /\ row.state \in {"blocked", "revoked"}

\* The secrets of a row that is connected are among those found.
Covered(row, found) ==
  row.state = "connected" => \A n \in Names : row.refs[n] \in {Unset, found[n]}

\* What the request x makes of the row it read: a synchronisation at most blocks it,
\* the others leave the state they record and no secret they have not found.
Outcome(x, row, new) ==
  /\ Closed(new)
  /\ x.state = Unset =>
       /\ x.kind = "sync"
       /\ new.state \in {row.state, "blocked"}
       /\ new.state = "connected" => new.refs = row.refs
  /\ x.state # Unset =>
       /\ new.state = x.state
       /\ Covered(new, IF x.kind = "verify" THEN x.found ELSE NoSecrets)
  /\ x.kind = "revoke" => new.refs = NoSecrets /\ new.state = "revoked"

\* A request that is still fresh writes what it computed.
Exact(x, row, dossier, switches) ==
  x.fresh =>
    /\ x.kind \in OnboardingKinds => Outcome(x, row, Merged(row, x.columns))
    /\ x.kind = "dossier" => Merged(dossier, x.columns) = x.revision
    /\ x.kind = "control" => Merged(switches, x.columns) = x.switches

Inv ==
  /\ Typed
  /\ \A c \in Clients : Exact(tx[c], onboarding, approval.dossier, control.switches)
  /\ ~raced => Covered(onboarding, records.found)
  /\ BlockedIsClosed
  /\ RecordsExplainRows

-----------------------------------------------------------------------------
(* Facts about rows *)

\* The columns written over the row they were loaded from give the new row, and over
\* any other row a row.
LEMMA MergeRow ==
  ASSUME NEW row \in RowType, NEW loaded \in RowType, NEW synced \in RowType,
         NEW new \in RowType
  PROVE  LET columns == Written(loaded, synced, new)
         IN  Merged(row, columns) \in RowType /\ Merged(loaded, columns) = new
  BY DEF RowType, Written, Merged

LEMMA MergeDossier ==
  ASSUME NEW row \in AnyDossier, NEW loaded \in AnyDossier, NEW new \in AnyDossier
  PROVE  LET columns == Written(loaded, loaded, new)
         IN  Merged(row, columns) \in AnyDossier /\ Merged(loaded, columns) = new
  BY DEF AnyDossier, Written, Merged

LEMMA MergeControl ==
  ASSUME NEW row \in ControlType, NEW loaded \in ControlType, NEW new \in ControlType
  PROVE  LET columns == Written(loaded, loaded, new)
         IN  Merged(row, columns) \in ControlType /\ Merged(loaded, columns) = new
  BY DEF ControlType, Written, Merged

LEMMA MergeNothing ==
  ASSUME NEW row \in ControlType
  PROVE  Merged(row, Idle.columns) = row
  BY DEF ControlType, Merged, Idle

LEMMA SecretTypes == NoSecrets \in [Names -> Refs \cup {Unset}]
  BY DEF NoSecrets

LEMMA AbsentType == Absent \in RowType
  BY SecretTypes DEF Absent, RowType, OnboardingStates, Modes

\* A synchronised row has the columns of its profile, and is closed if that is
\* blocked.
LEMMA SyncedRow ==
  ASSUME NEW row \in RowType, NEW p \in ProfileType
  PROVE  LET synced == Synced(row, p)
         IN  /\ synced \in RowType /\ Closed(synced)
             /\ synced.mode = "none" => synced.names = {}
             /\ row.state = "absent" => synced.refs = NoSecrets
             /\ row.state # "absent" =>
                  /\ synced.state \in {row.state, "blocked"}
                  /\ synced.state = "connected" => synced.refs = row.refs
  <1>1. InitialState(p) \in OnboardingStates
    BY DEF InitialState, OnboardingStates
  <1>2. NewRow(p) \in RowType
    BY <1>1, SecretTypes DEF NewRow, RowType, ProfileType
  <1>3. Refreshed(row, p) \in RowType
    BY SecretTypes DEF Refreshed, RowType, ProfileType, OnboardingStates
  <1>4. Closed(NewRow(p)) /\ Closed(Refreshed(row, p))
    BY DEF Closed, NewRow, Refreshed, InitialState
  <1>5. NewRow(p).mode = p.mode /\ NewRow(p).names = p.names /\ NewRow(p).refs = NoSecrets
    BY DEF NewRow
  <1>6. /\ Refreshed(row, p).mode = p.mode /\ Refreshed(row, p).names = p.names
        /\ Refreshed(row, p).state \in {row.state, "blocked"}
        /\ Refreshed(row, p).state = "connected" => Refreshed(row, p).refs = row.refs
    BY DEF Refreshed
  <1>7. p.mode = "none" => p.names = {} BY DEF ProfileType
  <1> QED BY <1>2, <1>3, <1>4, <1>5, <1>6, <1>7 DEF Synced

\* A row that can be read and whose profile asks for nothing holds nothing.
LEMMA NothingStored ==
  ASSUME NEW row \in RowType, Readable(row), row.names = {}
  PROVE  row.refs = NoSecrets
  BY DEF RowType, Readable, Stored, NoSecrets

-----------------------------------------------------------------------------
(* The invariant *)

LEMMA IdleRequest == IsRequest(Idle) /\ Idle.kind = "idle"
  BY SecretTypes DEF IsRequest, Idle, Kinds, OnboardingKinds, ControlKinds, AnyDossier,
     NoDossier, ApprovalStates, ControlType, Unrestricted

LEMMA InitInv == Init => Inv
  <1> SUFFICES ASSUME Init PROVE Inv OBVIOUS
  <1>1. Typed
    BY IdleRequest, AbsentType, SecretTypes
    DEF Init, Typed, NoApproval, NoControl, NoRecords, AnyDossier, NoDossier, ApprovalStates,
        ControlType, Unrestricted, OnboardingStates
  <1>2. \A c \in Clients : Exact(tx[c], onboarding, approval.dossier, control.switches)
    BY IdleRequest DEF Init, Exact, OnboardingKinds
  <1>3. Covered(onboarding, records.found) /\ BlockedIsClosed
    BY DEF Init, Covered, BlockedIsClosed, Absent
  <1>4. RecordsExplainRows
    BY DEF Init, RecordsExplainRows, Absent, NoApproval, NoControl, NoRecords
  <1> QED BY <1>1, <1>2, <1>3, <1>4 DEF Inv

\* A request that computed what it carries may be opened.
LEMMA OpenStep ==
  ASSUME Inv, NEW c \in Clients, NEW x, Opens(c, x), IsRequest(x),
         Exact(x, onboarding, approval.dossier, control.switches)
  PROVE  Inv'
  <1>1. UNCHANGED <<onboarding, approval, control, records, raced>> BY DEF Opens
  <1>2. \A d \in Clients : tx'[d] \in {x, tx[d]} BY DEF Opens, Inv, Typed
  <1>3. tx' = [d \in Clients |-> tx'[d]] BY DEF Opens, Inv, Typed
  <1>4. Typed' BY <1>1, <1>2, <1>3 DEF Inv, Typed
  <1>5. (\A d \in Clients : Exact(tx[d], onboarding, approval.dossier, control.switches))'
    BY <1>1, <1>2 DEF Inv
  <1>6. /\ (~raced => Covered(onboarding, records.found))'
        /\ BlockedIsClosed' /\ RecordsExplainRows'
    BY <1>1 DEF Inv, BlockedIsClosed, RecordsExplainRows
  <1> QED BY <1>4, <1>5, <1>6 DEF Inv

\* A request on the provider that records its state.
LEMMA OnboardsStep ==
  ASSUME Inv, NEW c \in Clients, NEW kind \in {"operate", "verify", "revoke"},
         NEW synced \in RowType, NEW new \in RowType,
         NEW found \in [Names -> Refs \cup {Unset}],
         Onboards(c, kind, synced, new, found),
         Closed(new), Covered(new, IF kind = "verify" THEN found ELSE NoSecrets),
         kind = "revoke" => new.refs = NoSecrets /\ new.state = "revoked"
  PROVE  Inv'
  <1> DEFINE x == [Idle EXCEPT !.kind = kind, !.insert = (onboarding.state = "absent"),
                     !.columns = Written(onboarding, synced, new), !.state = new.state,
                     !.found = found]
  <1>1. onboarding \in RowType BY DEF Inv, Typed
  <1>2. /\ x = [kind |-> x.kind, insert |-> x.insert, columns |-> x.columns,
                state |-> x.state, found |-> x.found, revision |-> x.revision,
                switches |-> x.switches, fresh |-> x.fresh]
        /\ x.kind = kind /\ x.columns = Written(onboarding, synced, new)
        /\ x.state = new.state /\ x.found = found /\ x.revision = Idle.revision
        /\ x.switches = Idle.switches /\ x.fresh = TRUE
    <2> DEFINE insert == onboarding.state = "absent"
               columns == Written(onboarding, synced, new)
    <2>1. x = [Idle EXCEPT !.kind = kind, !.insert = insert, !.columns = columns,
                 !.state = new.state, !.found = found]
      BY Zenon
    <2> HIDE DEF x, insert, columns
    <2> QED BY <2>1 DEF Idle, columns
  <1>3. /\ kind \in OnboardingKinds /\ kind \notin ControlKinds
        /\ kind \notin {"sync", "dossier", "control", "evaluate", "idle"}
    BY DEF OnboardingKinds, ControlKinds
  <1>4. new.state \in OnboardingStates /\ new.state # Unset
    BY DEF RowType, OnboardingStates, CheckpointStates, Unset
  <1>5. Opens(c, x) BY DEF Onboards
  <1> HIDE DEF x
  <1>6. /\ \A row \in RowType : Merged(row, x.columns) \in RowType
        /\ Merged(onboarding, x.columns) = new
    BY <1>1, <1>2, MergeRow
  <1>7. IsRequest(x)
    BY <1>2, <1>3, <1>4, <1>6, IdleRequest DEF IsRequest, Kinds
  <1>8. Exact(x, onboarding, approval.dossier, control.switches)
    <2>1. Outcome(x, onboarding, new) BY <1>2, <1>3, <1>4 DEF Outcome
    <2> QED BY <1>2, <1>3, <1>6, <2>1 DEF Exact
  <1> QED BY <1>5, <1>7, <1>8, OpenStep

LEMMA SyncStep ==
  ASSUME Inv, NEW c \in Clients, NEW p \in Profiles, SyncCatalog(c, p)
  PROVE  Inv'
  <1> DEFINE synced == Synced(onboarding, p)
             x == [Idle EXCEPT !.kind = "sync", !.insert = (onboarding.state = "absent"),
                     !.columns = Written(onboarding, synced, synced),
                     !.state = IF onboarding.state = "absent" THEN synced.state ELSE Unset]
  <1>1. onboarding \in RowType /\ p \in ProfileType
    BY AccessAssumption DEF Inv, Typed
  <1>2. /\ synced \in RowType /\ Closed(synced)
        /\ onboarding.state = "absent" => synced.refs = NoSecrets
        /\ onboarding.state # "absent" =>
             /\ synced.state \in {onboarding.state, "blocked"}
             /\ synced.state = "connected" => synced.refs = onboarding.refs
    BY <1>1, SyncedRow
  <1>3. synced.state \in OnboardingStates /\ synced.state # Unset
    BY <1>2 DEF RowType, OnboardingStates, CheckpointStates, Unset
  <1> HIDE DEF synced
  <1>4. /\ x = [kind |-> x.kind, insert |-> x.insert, columns |-> x.columns,
                state |-> x.state, found |-> x.found, revision |-> x.revision,
                switches |-> x.switches, fresh |-> x.fresh]
        /\ x.kind = "sync" /\ x.columns = Written(onboarding, synced, synced)
        /\ x.state = IF onboarding.state = "absent" THEN synced.state ELSE Unset
        /\ x.found = Idle.found /\ x.revision = Idle.revision
        /\ x.switches = Idle.switches /\ x.fresh = TRUE
    <2> DEFINE insert == onboarding.state = "absent"
               columns == Written(onboarding, synced, synced)
               state == IF onboarding.state = "absent" THEN synced.state ELSE Unset
    <2>1. x = [Idle EXCEPT !.kind = "sync", !.insert = insert, !.columns = columns,
                 !.state = state, !.found = Idle.found]
      BY DEF Idle
    <2> HIDE DEF x, insert, columns, state
    <2>2. /\ x = [kind |-> x.kind, insert |-> x.insert, columns |-> x.columns,
                 state |-> x.state, found |-> x.found, revision |-> x.revision,
                 switches |-> x.switches, fresh |-> x.fresh]
          /\ x.kind = "sync" /\ x.columns = columns /\ x.state = state
          /\ x.found = Idle.found /\ x.revision = Idle.revision
          /\ x.switches = Idle.switches /\ x.fresh = TRUE
      BY <2>1 DEF Idle
    <2> QED BY <2>2 DEF columns, state
  <1>5. Opens(c, x) BY DEF SyncCatalog, synced
  <1> HIDE DEF x
  <1>6. /\ \A row \in RowType : Merged(row, x.columns) \in RowType
        /\ Merged(onboarding, x.columns) = synced
    BY <1>1, <1>2, <1>4, MergeRow
  <1>7. IsRequest(x)
    BY <1>3, <1>4, <1>6, IdleRequest
    DEF IsRequest, Kinds, OnboardingKinds, ControlKinds
  <1>8. Covered(synced, NoSecrets) \/ onboarding.state # "absent"
    BY <1>2 DEF Covered, NoSecrets
  <1>9. Exact(x, onboarding, approval.dossier, control.switches)
    <2>1. Outcome(x, onboarding, synced)
      BY <1>2, <1>3, <1>4, <1>8 DEF Outcome
    <2> QED BY <1>4, <1>6, <2>1 DEF Exact
  <1> QED BY <1>5, <1>7, <1>9, OpenStep

\* The requests on a provider that is admitted, and its revocation.
LEMMA OnboardingSteps ==
  ASSUME Inv, NEW c \in Clients, NEW p \in Profiles,
         \/ Start(c, p)
         \/ \E state \in Checkpoints : RecordCheckpoint(c, p, state)
         \/ \E n \in Names, r \in Refs : RegisterSecret(c, p, n, r)
         \/ \E available \in SUBSET Refs : Verify(c, p, available)
         \/ Revoke(c, p)
  PROVE  Inv'
  <1> DEFINE synced == Synced(onboarding, p)
  <1>1. /\ synced \in RowType
        /\ synced.mode = "none" => synced.names = {}
    BY AccessAssumption, SyncedRow DEF Inv, Typed
  <1>2. Admitted(synced) /\ synced.mode = "none" => synced.refs = NoSecrets
    BY <1>1, NothingStored DEF Admitted
  <1>3. NoSecrets \in [Names -> Refs \cup {Unset}] BY SecretTypes
  <1> HIDE DEF synced
  <1>4. CASE Start(c, p)
    <2> DEFINE new == Started(synced)
    <2>1. new \in RowType BY <1>1 DEF Started, RowType, OnboardingStates, CheckpointStates
    <2>2. /\ Admitted(synced) /\ new.blocked = synced.blocked /\ new.refs = synced.refs
          /\ new.state = "connected" => synced.mode = "none"
      BY <1>1, <1>4 DEF Start, Started, RowType, synced
    <2>3. Closed(new) /\ Covered(new, NoSecrets)
      BY <1>2, <2>2 DEF Admitted, Closed, Covered, NoSecrets
    <2>4. Onboards(c, "operate", synced, new, NoSecrets) BY <1>4 DEF Start, synced
    <2> HIDE DEF new
    <2> QED BY <1>1, <1>3, <2>1, <2>3, <2>4, OnboardsStep
  <1>5. CASE \E state \in Checkpoints : RecordCheckpoint(c, p, state)
    <2>1. PICK state \in Checkpoints : RecordCheckpoint(c, p, state) BY <1>5
    <2> DEFINE new == [synced EXCEPT !.state = state]
    <2>2. state \in CheckpointStates BY AccessAssumption
    <2>3. new \in RowType /\ new.state = state /\ new.blocked = synced.blocked
      BY <1>1, <2>2 DEF RowType, OnboardingStates
    <2>4. Closed(new) /\ Covered(new, NoSecrets)
      BY <2>1, <2>2, <2>3 DEF RecordCheckpoint, Admitted, Closed, Covered, CheckpointStates,
                              synced
    <2>5. Onboards(c, "operate", synced, new, NoSecrets)
      BY <2>1 DEF RecordCheckpoint, synced
    <2> HIDE DEF new
    <2> QED BY <1>1, <1>3, <2>3, <2>4, <2>5, OnboardsStep
  <1>6. CASE \E n \in Names, r \in Refs : RegisterSecret(c, p, n, r)
    <2>1. PICK n \in Names, r \in Refs : RegisterSecret(c, p, n, r) BY <1>6
    <2> DEFINE new == Registered(synced, n, r)
    <2>2. /\ new \in RowType /\ new.blocked = synced.blocked
          /\ new.state \in {"ready_to_verify", "awaiting_user_action"}
      BY <1>1 DEF RowType, Registered, OnboardingStates, CheckpointStates
    <2>3. Closed(new) /\ Covered(new, NoSecrets)
      BY <2>1, <2>2 DEF RegisterSecret, Admitted, Closed, Covered, synced
    <2>4. Onboards(c, "operate", synced, new, NoSecrets)
      BY <2>1 DEF RegisterSecret, synced
    <2> HIDE DEF new
    <2> QED BY <1>1, <1>3, <2>2, <2>3, <2>4, OnboardsStep
  <1>7. CASE \E available \in SUBSET Refs : Verify(c, p, available)
    <2>1. PICK available \in SUBSET Refs : Verify(c, p, available) BY <1>7
    <2> DEFINE new == Verified(synced, available)
               found == IF new.state = "connected" THEN new.refs ELSE NoSecrets
    <2>2. /\ new \in RowType /\ new.blocked = synced.blocked
      BY <1>1 DEF RowType, Verified, Modes, OnboardingStates, CheckpointStates
    <2>3. Onboards(c, "verify", synced, new, found) BY <2>1 DEF Verify, synced
    <2>4. Admitted(synced) BY <2>1 DEF Verify, synced
    <2> HIDE DEF new
    <2>5. found \in [Names -> Refs \cup {Unset}] BY <1>3, <2>2 DEF RowType
    <2>6. Closed(new) /\ Covered(new, found)
      BY <2>2, <2>4 DEF Admitted, Closed, Covered
    <2> HIDE DEF found
    <2> QED BY <1>1, <2>2, <2>3, <2>5, <2>6, OnboardsStep
  <1>8. CASE Revoke(c, p)
    <2> DEFINE new == Revoked(synced)
    <2>1. new \in RowType /\ new.refs = NoSecrets /\ new.state = "revoked"
      BY <1>1, <1>3 DEF RowType, Revoked, OnboardingStates
    <2>2. Closed(new) /\ Covered(new, NoSecrets) BY <2>1 DEF Closed, Covered
    <2>3. Onboards(c, "revoke", synced, new, NoSecrets) BY <1>8 DEF Revoke, synced
    <2> HIDE DEF new
    <2> QED BY <1>1, <1>3, <2>1, <2>2, <2>3, OnboardsStep
  <1> QED BY <1>4, <1>5, <1>6, <1>7, <1>8

LEMMA DossierStep ==
  ASSUME Inv, NEW c \in Clients, NEW d \in Dossiers, SubmitDossier(c, d)
  PROVE  Inv'
  <1> DEFINE columns == Written(approval.dossier, approval.dossier, d)
             insert == ~approval.exists
             x == [Idle EXCEPT !.kind = "dossier", !.insert = insert, !.columns = columns,
                     !.revision = d]
  <1>1. d \in AnyDossier /\ approval.dossier \in AnyDossier
    BY AccessAssumption DEF DossierType, AnyDossier, Inv, Typed
  <1>2. /\ \A row \in AnyDossier : Merged(row, columns) \in AnyDossier
        /\ Merged(approval.dossier, columns) = d
    BY <1>1, MergeDossier
  <1>3. Opens(c, x) BY DEF SubmitDossier
  <1> HIDE DEF columns, insert
  <1>4. /\ x = [kind |-> x.kind, insert |-> x.insert, columns |-> x.columns,
                state |-> x.state, found |-> x.found, revision |-> x.revision,
                switches |-> x.switches, fresh |-> x.fresh]
        /\ x.kind = "dossier" /\ x.columns = columns /\ x.state = Unset
        /\ x.found = Idle.found /\ x.revision = d /\ x.switches = Idle.switches
        /\ x.fresh = TRUE
    <2>1. x = [Idle EXCEPT !.kind = "dossier", !.insert = insert, !.columns = columns,
                 !.revision = d]
      OBVIOUS
    <2> HIDE DEF x
    <2> QED BY <2>1 DEF Idle
  <1> HIDE DEF x
  <1>5. IsRequest(x)
    BY <1>1, <1>2, <1>4, IdleRequest DEF IsRequest, Kinds, OnboardingKinds, ControlKinds
  <1>6. Exact(x, onboarding, approval.dossier, control.switches)
    BY <1>2, <1>4 DEF Exact, OnboardingKinds
  <1> QED BY <1>3, <1>5, <1>6, OpenStep

LEMMA ControlStep ==
  ASSUME Inv, NEW c \in Clients, NEW action \in ControlActions, DecideControl(c, action)
  PROVE  Inv'
  <1> DEFINE new == ControlAfter(control.switches, action)
             columns == Written(control.switches, control.switches, new)
             insert == ~control.exists
             x == [Idle EXCEPT !.kind = "control", !.insert = insert, !.columns = columns,
                     !.switches = new]
  <1>1. control.switches \in ControlType BY DEF Inv, Typed
  <1>2. new \in ControlType BY <1>1 DEF ControlActions, ControlAfter, ControlType
  <1>3. Opens(c, x) BY DEF DecideControl
  <1> HIDE DEF new
  <1>4. /\ \A row \in ControlType : Merged(row, columns) \in ControlType
        /\ Merged(control.switches, columns) = new
    BY <1>1, <1>2, MergeControl
  <1> HIDE DEF columns, insert
  <1>5. /\ x = [kind |-> x.kind, insert |-> x.insert, columns |-> x.columns,
                state |-> x.state, found |-> x.found, revision |-> x.revision,
                switches |-> x.switches, fresh |-> x.fresh]
        /\ x.kind = "control" /\ x.columns = columns /\ x.state = Unset
        /\ x.found = Idle.found /\ x.revision = Idle.revision /\ x.switches = new
        /\ x.fresh = TRUE
    <2>1. x = [Idle EXCEPT !.kind = "control", !.insert = insert, !.columns = columns,
                 !.switches = new]
      OBVIOUS
    <2> HIDE DEF x
    <2> QED BY <2>1 DEF Idle
  <1> HIDE DEF x
  <1>6. IsRequest(x)
    BY <1>2, <1>4, <1>5, IdleRequest DEF IsRequest, Kinds, OnboardingKinds, ControlKinds
  <1>7. Exact(x, onboarding, approval.dossier, control.switches)
    BY <1>4, <1>5 DEF Exact, OnboardingKinds
  <1> QED BY <1>3, <1>6, <1>7, OpenStep

LEMMA EvaluateStep ==
  ASSUME Inv, NEW c \in Clients, EvaluateEligibility(c)
  PROVE  Inv'
  <1> DEFINE x == [Idle EXCEPT !.kind = "evaluate", !.insert = TRUE]
  <1>1. Opens(c, x) BY DEF EvaluateEligibility
  <1>2. /\ x = [kind |-> x.kind, insert |-> x.insert, columns |-> x.columns,
                state |-> x.state, found |-> x.found, revision |-> x.revision,
                switches |-> x.switches, fresh |-> x.fresh]
        /\ x.kind = "evaluate" /\ x.columns = Idle.columns /\ x.state = Unset
        /\ x.found = Idle.found /\ x.revision = Idle.revision
        /\ x.switches = Idle.switches /\ x.fresh = TRUE
    <2>1. x = [Idle EXCEPT !.kind = "evaluate", !.insert = TRUE]
      OBVIOUS
    <2> HIDE DEF x
    <2> QED BY <2>1 DEF Idle
  <1> HIDE DEF x
  <1>3. \A row \in ControlType : Merged(row, x.columns) = row BY <1>2, MergeNothing
  <1>4. IsRequest(x)
    BY <1>2, <1>3, IdleRequest DEF IsRequest, Kinds, OnboardingKinds, ControlKinds
  <1>5. Exact(x, onboarding, approval.dossier, control.switches)
    BY <1>2 DEF Exact, OnboardingKinds
  <1> QED BY <1>1, <1>4, <1>5, OpenStep

LEMMA RollbackStep ==
  ASSUME Inv, NEW c \in Clients, Rollback(c)
  PROVE  Inv'
  <1>1. UNCHANGED <<onboarding, approval, control, records, raced>> BY DEF Rollback
  <1>2. \A d \in Clients : tx'[d] \in {Idle, tx[d]} BY DEF Rollback, Inv, Typed
  <1>3. tx' = [d \in Clients |-> tx'[d]] BY DEF Rollback, Inv, Typed
  <1>4. Typed' BY <1>1, <1>2, <1>3, IdleRequest DEF Inv, Typed
  <1>5. (\A d \in Clients : Exact(tx[d], onboarding, approval.dossier, control.switches))'
    BY <1>1, <1>2, IdleRequest DEF Inv, Exact, OnboardingKinds
  <1>6. /\ (~raced => Covered(onboarding, records.found))'
        /\ BlockedIsClosed' /\ RecordsExplainRows'
    BY <1>1 DEF Inv, BlockedIsClosed, RecordsExplainRows
  <1> QED BY <1>4, <1>5, <1>6 DEF Inv

\* A request commits: the rows keep their types, the others notice what changed.
LEMMA CommitTypes ==
  ASSUME Inv, NEW c \in Clients, Commit(c)
  PROVE  Typed' /\ (\A d \in Clients :
                       Exact(tx[d], onboarding, approval.dossier, control.switches))'
  <1> DEFINE y == tx[c]
  <1>1. IsRequest(y) BY DEF Inv, Typed
  <1>2. onboarding' \in RowType
    BY <1>1 DEF Commit, OnboardingAfter, IsRequest, Inv, Typed
  <1>3. approval' \in [exists : BOOLEAN, dossier : AnyDossier, revision : AnyDossier]
    BY <1>1 DEF Commit, ApprovalAfter, IsRequest, Inv, Typed
  <1>4. control' \in [exists : BOOLEAN, switches : ControlType]
    BY <1>1 DEF Commit, ControlRowAfter, IsRequest, Inv, Typed
  <1>5. records' \in [state : OnboardingStates, switches : ControlType,
                      found : [Names -> Refs \cup {Unset}]]
    <2>1. NoRecords \in [state : OnboardingStates, switches : ControlType,
                         found : [Names -> Refs \cup {Unset}]]
      BY SecretTypes DEF NoRecords, OnboardingStates, ControlType, Unrestricted
    <2>2. RecordedBy(c) \in [state : OnboardingStates, switches : ControlType,
                             found : [Names -> Refs \cup {Unset}]]
      BY <1>1 DEF RecordedBy, IsRequest, Inv, Typed
    <2> QED BY <2>1, <2>2 DEF Commit
  <1>6. raced' \in BOOLEAN BY <1>1 DEF Commit, IsRequest, Inv, Typed
  <1>7. tx' = [d \in Clients |-> tx'[d]] BY DEF Commit
  <1>8. ASSUME NEW d \in Clients
        PROVE  IsRequest(tx'[d])
               /\ Exact(tx'[d], onboarding', approval'.dossier, control'.switches)
    <2>1. CASE d = c
      <3>1. tx'[d] = Idle BY <2>1 DEF Commit
      <3> QED BY <3>1, IdleRequest DEF Exact, OnboardingKinds
    <2>2. CASE d # c
      <3> DEFINE x == tx[d]
                 z == tx'[d]
                 outdated == Outdated(x)
                 late == x.fresh /\ ~outdated
      <3>1. z = [x EXCEPT !.fresh = late] BY <2>2 DEF Commit
      <3>2. IsRequest(x) BY DEF Inv, Typed
      <3>3. Exact(x, onboarding, approval.dossier, control.switches) BY DEF Inv
      <3>4. late \in BOOLEAN BY <3>2 DEF IsRequest
      <3>5. late => x.fresh /\ ~Outdated(x) OBVIOUS
      <3> HIDE DEF x, z, late, outdated
      <3>6. /\ z = [kind |-> z.kind, insert |-> z.insert, columns |-> z.columns,
                    state |-> z.state, found |-> z.found, revision |-> z.revision,
                    switches |-> z.switches, fresh |-> z.fresh]
            /\ z.kind = x.kind /\ z.columns = x.columns /\ z.state = x.state
            /\ z.found = x.found /\ z.revision = x.revision /\ z.switches = x.switches
            /\ z.fresh = late
        BY <3>1, <3>2 DEF IsRequest
      <3>7. IsRequest(z) BY <3>2, <3>4, <3>6 DEF IsRequest
      <3>8. Exact(z, onboarding', approval'.dossier, control'.switches)
        BY <3>3, <3>5, <3>6 DEF Exact, Outcome, Outdated, ControlKinds
      <3> QED BY <3>7, <3>8 DEF z
    <2> QED BY <2>1, <2>2
  <1>9. Typed' BY <1>2, <1>3, <1>4, <1>5, <1>6, <1>7, <1>8 DEF Typed
  <1> QED BY <1>8, <1>9

\* What a request that raced nobody leaves in the rows.
LEMMA CommitRows ==
  ASSUME Inv, NEW c \in Clients, Commit(c), ~raced'
  PROVE  /\ Covered(onboarding, records.found)'
         /\ BlockedIsClosed' /\ RecordsExplainRows'
  <1> DEFINE x == tx[c]
  <1>1. /\ ~raced /\ x.fresh /\ x.kind # "idle" /\ records' = RecordedBy(c)
        /\ onboarding' = OnboardingAfter(c) /\ approval' = ApprovalAfter(c)
        /\ control' = ControlRowAfter(c)
    BY DEF Commit
  <1>2. IsRequest(x) /\ Exact(x, onboarding, approval.dossier, control.switches)
    BY DEF Inv, Typed
  <1>3. /\ Covered(onboarding, records.found)
        /\ onboarding.blocked => onboarding.refs = NoSecrets
             /\ onboarding.state \in {"blocked", "revoked"}
        /\ onboarding.state \in {records.state, "blocked"}
        /\ control.switches = records.switches
        /\ approval.dossier = approval.revision
    BY <1>1 DEF Inv, BlockedIsClosed, RecordsExplainRows
  <1>4. /\ records'.state = IF x.state = Unset THEN records.state ELSE x.state
        /\ records'.switches = IF x.kind = "control" THEN x.switches ELSE records.switches
        /\ records'.found = IF x.kind \in {"verify", "revoke"} THEN x.found
                            ELSE records.found
    BY <1>1 DEF RecordedBy
  <1>5. CASE x.kind \in OnboardingKinds
    <2>1. Outcome(x, onboarding, onboarding')
      BY <1>1, <1>2, <1>5 DEF Exact, OnboardingAfter
    <2>2. approval' = approval /\ control' = control
      BY <1>1, <1>5 DEF ApprovalAfter, ControlRowAfter, OnboardingKinds, ControlKinds
    <2>3. Covered(onboarding', records'.found)
      BY <1>3, <1>4, <2>1 DEF Outcome, Covered, NoSecrets
    <2>4. BlockedIsClosed' BY <2>1 DEF Outcome, Closed, BlockedIsClosed
    <2>5. RecordsExplainRows'
      BY <1>3, <1>4, <1>5, <2>1, <2>2 DEF Outcome, RecordsExplainRows, OnboardingKinds
    <2> QED BY <2>3, <2>4, <2>5
  <1>6. CASE x.kind \notin OnboardingKinds
    <2>1. onboarding' = onboarding /\ x.state = Unset
      BY <1>1, <1>2, <1>6 DEF OnboardingAfter, IsRequest
    <2>2. records'.state = records.state /\ records'.found = records.found
      BY <1>4, <1>6, <2>1 DEF OnboardingKinds
    <2>3. approval'.dossier = approval'.revision
      BY <1>1, <1>2, <1>3 DEF ApprovalAfter, Exact
    <2>4. control'.switches = records'.switches
      BY <1>1, <1>2, <1>3, <1>4 DEF ControlRowAfter, Exact, IsRequest, ControlKinds, Inv,
                                    Typed
    <2> QED BY <1>3, <2>1, <2>2, <2>3, <2>4 DEF BlockedIsClosed, RecordsExplainRows
  <1> QED BY <1>5, <1>6

LEMMA CommitStep ==
  ASSUME Inv, NEW c \in Clients, Commit(c)
  PROVE  Inv'
  <1>1. CASE raced'
    BY <1>1, CommitTypes DEF Inv, BlockedIsClosed, RecordsExplainRows
  <1>2. CASE ~raced'
    BY <1>2, CommitTypes, CommitRows DEF Inv
  <1> QED BY <1>1, <1>2

LEMMA NextInv == Inv /\ [Next]_vars => Inv'
  <1> SUFFICES ASSUME Inv, [Next]_vars PROVE Inv' OBVIOUS
  <1>1. CASE UNCHANGED vars
    BY <1>1 DEF vars, Inv, Typed, BlockedIsClosed, RecordsExplainRows
  <1>2. CASE Next
    <2>1. PICK c \in Clients :
            \/ \E p \in Profiles :
                 \/ SyncCatalog(c, p)
                 \/ Start(c, p)
                 \/ \E state \in Checkpoints : RecordCheckpoint(c, p, state)
                 \/ \E n \in Names, r \in Refs : RegisterSecret(c, p, n, r)
                 \/ \E available \in SUBSET Refs : Verify(c, p, available)
                 \/ Revoke(c, p)
            \/ \E d \in Dossiers : SubmitDossier(c, d)
            \/ \E action \in ControlActions : DecideControl(c, action)
            \/ EvaluateEligibility(c)
            \/ Commit(c)
            \/ Rollback(c)
      BY <1>2 DEF Next
    <2> QED BY <2>1, SyncStep, OnboardingSteps, DossierStep, ControlStep, EvaluateStep,
               CommitStep, RollbackStep
  <1> QED BY <1>1, <1>2

\* The invariant of the requests: the rows and the requests in flight have their
\* types, every request that is still fresh writes what it computed, and the rows of
\* a history without races are covered by its records.
THEOREM Invariance == Spec => []Inv
  <1>1. Init => Inv BY InitInv
  <1>2. Inv /\ [Next]_vars => Inv' BY NextInv
  <1> QED BY <1>1, <1>2, PTL DEF Spec

-----------------------------------------------------------------------------
(* What the invariant gives *)

LEMMA InvTypes == Inv => TypeOK
  <1> SUFFICES ASSUME Inv PROVE TypeOK OBVIOUS
  <1>1. ASSUME NEW c \in Clients
        PROVE  /\ tx[c].kind \in OnboardingKinds \cup ControlKinds \cup {"idle", "dossier"}
               /\ OnboardingAfter(c) \in RowType
               /\ ControlRowAfter(c).switches \in ControlType
    BY DEF Inv, Typed, IsRequest, Kinds, OnboardingAfter, ControlRowAfter
  <1> QED BY <1>1 DEF TypeOK, Inv, Typed

LEMMA InvSecrets == Inv => SecretsAreVerified
  BY DEF Inv, Covered, SecretsAreVerified, Usable

LEMMA InvEarned == Inv => EligibilityIsEarned
  <1> SUFFICES ASSUME Inv, ~raced, NEW m \in Methods, NEW S \in SUBSET Scopes,
                      Allowed(approval.dossier, control.switches, onboarding.state, m, S)
               PROVE  /\ Covers(approval.revision, m, S)
                      /\ records.switches = Unrestricted
                      /\ m \notin Unconnected =>
                           records.state = "connected" /\ ~onboarding.blocked
    BY DEF EligibilityIsEarned
  <1>1. /\ approval.dossier = approval.revision /\ control.switches = records.switches
        /\ onboarding.state \in {records.state, "blocked"}
    BY DEF Inv, RecordsExplainRows
  <1>2. Covers(approval.revision, m, S) BY <1>1 DEF Allowed
  <1>3. records.switches = Unrestricted
    BY <1>1 DEF Allowed, Unrestricted, ControlType, Inv, Typed
  <1>4. m \notin Unconnected => onboarding.state = "connected"
    BY DEF Allowed, OnboardingReady, OnboardingState
  <1>5. onboarding.state = "connected" => ~onboarding.blocked
    BY DEF Inv, BlockedIsClosed
  <1> QED BY <1>1, <1>2, <1>3, <1>4, <1>5

\* Every request in flight, and every row, keeps its type whatever overlaps.
THEOREM TypeCorrect == Spec => []TypeOK
  BY Invariance, InvTypes, PTL

\* In a history without races a collection is only given secrets that the last
\* verification found, for any number of secrets, references and profiles.
THEOREM VerifiedSecrets == Spec => []SecretsAreVerified
  BY Invariance, InvSecrets, PTL

\* In a history without races a blocked provider holds no secret and is not connected.
THEOREM BlockedProvidersAreClosed == Spec => []BlockedIsClosed
  <1>1. Inv => BlockedIsClosed BY DEF Inv
  <1> QED BY <1>1, Invariance, PTL

\* In a history without races the recorded history explains the three rows.
THEOREM RecordsExplain == Spec => []RecordsExplainRows
  <1>1. Inv => RecordsExplainRows BY DEF Inv
  <1> QED BY <1>1, Invariance, PTL

\* In a history without races an execution that the rows allow was earned, for any
\* access methods and scopes.
THEOREM EarnedEligibility == Spec => []EligibilityIsEarned
  BY Invariance, InvEarned, PTL

\* Also after races, a revocation or a verification that meets no other request leaves
\* no secret in use that it has not found itself.
THEOREM SolitaryRepair == Spec => SolitaryRequestRepairs
  <1> DEFINE Repairs(c) ==
        tx[c].fresh /\ Commit(c) =>
          /\ tx[c].kind = "revoke" =>
               onboarding'.refs = NoSecrets /\ onboarding'.state # "connected"
          /\ tx[c].kind = "verify" =>
               \A n \in Names : Usable(onboarding', n) => onboarding'.refs[n] = tx[c].found[n]
  <1>1. ASSUME Inv, NEW c \in Clients PROVE Repairs(c)
    <2> SUFFICES ASSUME Commit(c), tx[c].fresh, tx[c].kind \in {"revoke", "verify"}
                 PROVE  /\ tx[c].kind = "revoke" =>
                             onboarding'.refs = NoSecrets /\ onboarding'.state # "connected"
                        /\ tx[c].kind = "verify" =>
                             \A n \in Names : Usable(onboarding', n) =>
                                                onboarding'.refs[n] = tx[c].found[n]
      OBVIOUS
    <2>1. Outcome(tx[c], onboarding, onboarding')
      BY <1>1 DEF Inv, Exact, Commit, OnboardingAfter, OnboardingKinds
    <2> QED BY <2>1 DEF Outcome, Covered, Usable
  <1>2. Inv /\ [Next]_vars => [\A c \in Clients : Repairs(c)]_vars BY <1>1
  <1>3. Spec => [][\A c \in Clients : Repairs(c)]_vars BY <1>2, Invariance, PTL DEF Spec
  <1> QED BY <1>3 DEF SolitaryRequestRepairs
=============================================================================
