--------------------------- MODULE ProviderAccess ---------------------------
(***************************************************************************)
(* The rows that open a conditional provider: its onboarding, its approval *)
(* dossier and its runtime control, under requests that overlap.           *)
(*                                                                         *)
(* A request is one transaction that reads the committed rows without      *)
(* locking them and writes the columns whose value it changed.  It is two  *)
(* actions: the first reads and computes what will be written, the second  *)
(* commits it.  Every request on a provider's onboarding, a read included, *)
(* first brings the row in line with the profile in the catalog file of    *)
(* its process; a request that is refused takes that back.                 *)
(***************************************************************************)
EXTENDS ProviderOnboarding, ConditionalProvider

CONSTANTS
  Clients,      \* concurrent requests
  Profiles,     \* the profiles of the provider in the files of the processes
  Checkpoints,  \* bound: the human checkpoints operators record
  Dossiers,     \* bound: the dossiers operators submit
  CrossRow      \* bound: whether requests on different rows overlap; they commute

ASSUME AccessAssumption ==
  /\ Unset \notin Refs
  /\ Profiles \subseteq ProfileType
  /\ Checkpoints \subseteq CheckpointStates
  /\ Dossiers \subseteq DossierType
  /\ Unconnected \subseteq Methods
  /\ CrossRow \in BOOLEAN

VARIABLES
  onboarding,  \* the row of the provider
  approval,    \* its dossier, column by column, and the dossier of its revision key
  control,     \* its pause and kill switch
  records,     \* history: what the last audit row, control decision and verification
               \* say, kept as long as no request raced
  raced,       \* history: a request wrote over a row it had not read
  tx           \* the request each client has in flight

vars == <<onboarding, approval, control, records, raced, tx>>

NoDossier == [state |-> "draft", method |-> "none", scopes |-> {}]
NoApproval == [exists |-> FALSE, dossier |-> NoDossier, revision |-> NoDossier]
NoControl == [exists |-> FALSE, switches |-> Unrestricted]
NoRecords == [state |-> "absent", switches |-> Unrestricted, found |-> NoSecrets]

\* The request a client has in flight: the columns it writes, into a new row or an
\* old one, and what it records.  fresh turns false when the row it read changes.
Idle == [kind |-> "idle", insert |-> FALSE, columns |-> [f \in {} |-> {}], state |-> Unset,
         found |-> NoSecrets, revision |-> NoDossier, switches |-> Unrestricted,
         fresh |-> TRUE]

Init ==
  /\ onboarding = Absent
  /\ approval = NoApproval
  /\ control = NoControl
  /\ records = NoRecords
  /\ tx = [c \in Clients |-> Idle]
  /\ raced = FALSE

OnboardingKinds == {"sync", "operate", "verify", "revoke"}
ControlKinds == {"control", "evaluate"}

\* Requests that write the same row.
SameRow(kind, other) ==
  \E kinds \in {OnboardingKinds, {"dossier"}, ControlKinds} : {kind, other} \subseteq kinds

\* A new request has read the committed rows.
Opens(c, request) ==
  /\ tx[c] = Idle
  /\ \A d \in Clients : tx[d] = Idle \/ CrossRow \/ SameRow(tx[d].kind, request.kind)
  /\ tx' = [tx EXCEPT ![c] = request]
  /\ UNCHANGED <<onboarding, approval, control, records, raced>>

\* Faulty: what the synchronisation changed is not written.
WrittenLast(loaded, synced, new) ==
  [f \in {g \in DOMAIN new : new[g] # synced[g]} |-> new[f]]

\* The columns two flushes write: the second one those it changed since the first.
Written(loaded, synced, new) ==
  [f \in {g \in DOMAIN new : synced[g] # loaded[g] \/ new[g] # synced[g]} |-> new[f]]

\* The columns given, and the others as they are.
Merged(row, columns) ==
  [f \in DOMAIN row |-> IF f \in DOMAIN columns THEN columns[f] ELSE row[f]]

-----------------------------------------------------------------------------
(* Onboarding *)

\* A request on the provider, which turns the synchronised row into the new one.
Onboards(c, kind, synced, new, found) ==
  Opens(c, [Idle EXCEPT !.kind = kind, !.insert = (onboarding.state = "absent"),
              !.columns = Written(onboarding, synced, new), !.state = new.state,
              !.found = found])

\* A read, or a request on another provider; only a new row is recorded.
SyncCatalog(c, p) ==
  LET synced == Synced(onboarding, p)
  IN  /\ synced # onboarding
      /\ Opens(c, [Idle EXCEPT !.kind = "sync", !.insert = (onboarding.state = "absent"),
                     !.columns = Written(onboarding, synced, synced),
                     !.state = IF onboarding.state = "absent" THEN synced.state ELSE Unset])

\* Requests on a blocked provider and on a row that cannot be read are refused.
Admitted(row) == ~row.blocked /\ Readable(row)

Start(c, p) ==
  LET synced == Synced(onboarding, p)
  IN  Admitted(synced) /\ Onboards(c, "operate", synced, Started(synced), NoSecrets)

RecordCheckpoint(c, p, state) ==
  LET synced == Synced(onboarding, p)
  IN  /\ Admitted(synced)
      /\ Onboards(c, "operate", synced, [synced EXCEPT !.state = state], NoSecrets)

RegisterSecret(c, p, n, r) ==
  LET synced == Synced(onboarding, p)
  IN  /\ Admitted(synced)
      /\ synced.mode # "none" /\ n \in synced.names
      /\ Onboards(c, "operate", synced, Registered(synced, n, r), NoSecrets)

Verify(c, p, available) ==
  LET synced == Synced(onboarding, p)
      new == Verified(synced, available)
  IN  /\ Admitted(synced)
      /\ Onboards(c, "verify", synced, new,
                  IF new.state = "connected" THEN new.refs ELSE NoSecrets)

Revoke(c, p) ==
  LET synced == Synced(onboarding, p)
  IN  Onboards(c, "revoke", synced, Revoked(synced), NoSecrets)

-----------------------------------------------------------------------------
(* Approval, control, eligibility *)

\* The dossier of the current revision submitted again writes nothing; one of
\* another kind of provider, which is refused, is none of Dossiers.
SubmitDossier(c, d) ==
  /\ approval.revision # d \/ ~approval.exists
  /\ Opens(c, [Idle EXCEPT !.kind = "dossier", !.insert = ~approval.exists,
                 !.columns = Written(approval.dossier, approval.dossier, d), !.revision = d])

\* A decision made before the control last changed is refused and one recorded
\* before is not applied again: times and keys are not kept, and every request
\* that changes the control is taken for one that is neither.
DecideControl(c, action) ==
  LET new == ControlAfter(control.switches, action)
  IN  /\ approval.exists
      /\ Opens(c, [Idle EXCEPT !.kind = "control", !.insert = ~control.exists,
                     !.columns = Written(control.switches, control.switches, new),
                     !.switches = new])

\* The first evaluation creates the control; the decision itself is only recorded.
EvaluateEligibility(c) ==
  /\ approval.exists /\ ~control.exists
  /\ Opens(c, [Idle EXCEPT !.kind = "evaluate", !.insert = TRUE])

-----------------------------------------------------------------------------
(* The end of a request *)

\* Unique keys: one row per provider.
Collides(c) ==
  /\ tx[c].insert
  /\ \/ tx[c].kind \in OnboardingKinds /\ onboarding.state # "absent"
     \/ tx[c].kind = "dossier" /\ approval.exists
     \/ tx[c].kind \in ControlKinds /\ control.exists

OnboardingAfter(c) ==
  IF tx[c].kind \in OnboardingKinds THEN Merged(onboarding, tx[c].columns) ELSE onboarding

ApprovalAfter(c) ==
  IF tx[c].kind # "dossier" THEN approval
  ELSE [exists |-> TRUE, dossier |-> Merged(approval.dossier, tx[c].columns),
        revision |-> tx[c].revision]

ControlRowAfter(c) ==
  IF tx[c].kind \notin ControlKinds THEN control
  ELSE [exists |-> TRUE, switches |-> Merged(control.switches, tx[c].columns)]

\* Requests that read a row which has changed.
Outdated(request) ==
  \/ request.kind \in OnboardingKinds /\ onboarding' # onboarding
  \/ request.kind = "dossier" /\ approval' # approval
  \/ request.kind \in ControlKinds /\ control' # control

\* A synchronisation records the state of a new row only.
RecordedBy(c) ==
  [state |-> IF tx[c].state = Unset THEN records.state ELSE tx[c].state,
   switches |-> IF tx[c].kind = "control" THEN tx[c].switches ELSE records.switches,
   found |-> IF tx[c].kind \in {"verify", "revoke"} THEN tx[c].found ELSE records.found]

Commit(c) ==
  /\ tx[c].kind # "idle"
  /\ ~Collides(c)
  /\ onboarding' = OnboardingAfter(c)
  /\ approval' = ApprovalAfter(c)
  /\ control' = ControlRowAfter(c)
  /\ raced' = (raced \/ ~tx[c].fresh)
  /\ records' = IF raced' THEN NoRecords ELSE RecordedBy(c)
  /\ tx' = [d \in Clients |-> IF d = c THEN Idle
                              ELSE [tx[d] EXCEPT !.fresh = @ /\ ~Outdated(tx[d])]]

\* The request violates a unique key, fails or loses its connection: rolled back.
Rollback(c) ==
  /\ tx[c].kind # "idle"
  /\ tx' = [tx EXCEPT ![c] = Idle]
  /\ UNCHANGED <<onboarding, approval, control, records, raced>>

\* That a client with a request in flight opens no other is asked before anything is
\* computed; Opens asks it again.
Next ==
  \E c \in Clients :
    \/ /\ tx[c] = Idle
       /\ \/ \E p \in Profiles :
               \/ SyncCatalog(c, p)
               \/ Start(c, p)
               \/ \E state \in Checkpoints : RecordCheckpoint(c, p, state)
               \/ \E n \in Names, r \in Refs : RegisterSecret(c, p, n, r)
               \/ \E available \in SUBSET Refs : Verify(c, p, available)
               \/ Revoke(c, p)
          \/ \E d \in Dossiers : SubmitDossier(c, d)
          \/ \E action \in ControlActions : DecideControl(c, action)
          \/ EvaluateEligibility(c)
    \/ Commit(c)
    \/ Rollback(c)

Spec == Init /\ [][Next]_vars

-----------------------------------------------------------------------------
(* Properties *)

AnyDossier == [state : ApprovalStates, method : Methods \cup {NoDossier.method},
               scopes : SUBSET Scopes]

\* Types of the rows, and of what the requests in flight will make of them.
TypeOK ==
  /\ onboarding \in RowType
  /\ approval \in [exists : BOOLEAN, dossier : AnyDossier, revision : AnyDossier]
  /\ control \in [exists : BOOLEAN, switches : ControlType]
  /\ records \in [state : OnboardingStates, switches : ControlType,
                  found : [Names -> Refs \cup {Unset}]]
  /\ \A c \in Clients :
       /\ tx[c].kind \in OnboardingKinds \cup ControlKinds \cup {"idle", "dossier"}
       /\ OnboardingAfter(c) \in RowType
       /\ ControlRowAfter(c).switches \in ControlType
  /\ raced \in BOOLEAN

\* A collection is only ever given secrets that the last verification found: a
\* reference registered later, or kept through a change of the profile, has to be
\* verified first.
SecretsAreVerified ==
  ~raced => \A n \in Names : Usable(onboarding, n) => onboarding.refs[n] = records.found[n]

\* While the row of a provider says it is blocked it holds no secret and is not
\* connected, whatever was registered and verified before and whoever asks.
BlockedIsClosed ==
  ~raced /\ onboarding.blocked =>
    /\ onboarding.refs = NoSecrets
    /\ onboarding.state \in {"blocked", "revoked"}

\* The recorded history explains the rows: the last control decision is the one in
\* force, the dossier is the one of the current revision, and the onboarding state is
\* the last recorded one, but for the block that a profile brings.
RecordsExplainRows ==
  ~raced => /\ onboarding.state \in {records.state, "blocked"}
            /\ control.switches = records.switches
            /\ approval.dossier = approval.revision

\* An execution that the rows allow was earned: the current revision approves its
\* method and scopes, nobody's last word paused or killed the provider, and a
\* connection it needs was recorded for a provider that is not blocked.
EligibilityIsEarned ==
  ~raced => \A m \in Methods, S \in SUBSET Scopes :
    Allowed(approval.dossier, control.switches, onboarding.state, m, S) =>
      /\ Covers(approval.revision, m, S)
      /\ records.switches = Unrestricted
      /\ m \notin Unconnected => records.state = "connected" /\ ~onboarding.blocked

\* Whatever overlapping requests have done to the row, a revocation that meets no
\* other request leaves no secret in it, and a verification that meets none leaves no
\* usable one it has not found itself.
SolitaryRequestRepairs ==
  [][\A c \in Clients :
       tx[c].fresh /\ Commit(c) =>
         /\ tx[c].kind = "revoke" =>
              onboarding'.refs = NoSecrets /\ onboarding'.state # "connected"
         /\ tx[c].kind = "verify" =>
              \A n \in Names : Usable(onboarding', n) => onboarding'.refs[n] = tx[c].found[n]]_vars
=============================================================================
