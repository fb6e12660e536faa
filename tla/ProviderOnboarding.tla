------------------------- MODULE ProviderOnboarding -------------------------
(***************************************************************************)
(* The onboarding row of one provider: what its profile, the operators and *)
(* a verification make of it.  Texts, links, the actor's notes and the     *)
(* errors of a verification are left out; expires_at is never set.         *)
(***************************************************************************)
CONSTANTS
  Names,   \* the secrets a provider may ask for
  Refs     \* references to secrets in the backends of the deployment

Unset == "unset"
NoSecrets == [n \in Names |-> Unset]
Modes == {"none", "key", "manual"}
CheckpointStates == {"awaiting_user_action", "awaiting_email_verification", "awaiting_mfa",
                     "awaiting_provider_approval"}
OnboardingStates == CheckpointStates \cup
  {"absent", "not_required", "not_configured", "ready_to_verify", "connected", "failed",
   "revoked", "blocked"}

\* A profile of the catalog file.  "key" stands for every mode that asks for secrets.
ProfileType == {p \in [mode : Modes, names : SUBSET Names, blocked : BOOLEAN,
                       automatic : BOOLEAN] :
                  /\ (p.mode = "none") => p.names = {}
                  /\ (p.mode = "key") => p.names # {}
                  /\ ~(p.blocked /\ p.automatic)}
RowType == [state : OnboardingStates, mode : Modes, names : SUBSET Names, blocked : BOOLEAN,
            refs : [Names -> Refs \cup {Unset}]]

\* A provider without a row.
Absent == [state |-> "absent", mode |-> "none", names |-> {}, blocked |-> FALSE,
           refs |-> NoSecrets]

InitialState(p) ==
  IF p.blocked THEN "blocked"
  ELSE IF p.mode # "none" THEN "not_configured"
  ELSE IF p.automatic THEN "connected" ELSE "not_required"

NewRow(p) ==
  [state |-> InitialState(p), mode |-> p.mode, names |-> p.names, blocked |-> p.blocked,
   refs |-> NoSecrets]

\* Faulty: a blocked provider keeps its secrets.
RefreshedKeeping(row, p) ==
  [state |-> IF p.blocked THEN "blocked" ELSE row.state, mode |-> p.mode, names |-> p.names,
   blocked |-> p.blocked, refs |-> row.refs]

\* Faulty: an existing row starts over with its profile.
RefreshedAfresh(row, p) ==
  [state |-> InitialState(p), mode |-> p.mode, names |-> p.names,
   blocked |-> p.blocked, refs |-> IF p.blocked THEN NoSecrets ELSE row.refs]

\* The profile replaces its columns; a blocked one also closes the row.
Refreshed(row, p) ==
  [state |-> IF p.blocked THEN "blocked" ELSE row.state, mode |-> p.mode, names |-> p.names,
   blocked |-> p.blocked, refs |-> IF p.blocked THEN NoSecrets ELSE row.refs]

Synced(row, p) == IF row.state = "absent" THEN NewRow(p) ELSE Refreshed(row, p)

Stored(row) == {n \in Names : row.refs[n] # Unset}

\* A row that holds a secret its profile no longer names cannot be read.
Readable(row) == Stored(row) \subseteq row.names

Started(row) ==
  [row EXCEPT !.state = IF row.mode = "none" THEN "connected" ELSE "awaiting_user_action"]

\* Faulty: a new secret leaves a provider connected.
RegisteredConnected(row, n, r) ==
  [row EXCEPT !.refs[n] = r,
              !.state = IF row.state = "connected" THEN "connected"
                        ELSE IF row.names = Stored(row) \cup {n} THEN "ready_to_verify"
                        ELSE "awaiting_user_action"]

Registered(row, n, r) ==
  [row EXCEPT !.refs[n] = r,
              !.state = IF row.names = Stored(row) \cup {n} THEN "ready_to_verify"
                        ELSE "awaiting_user_action"]

\* Faulty: a state the rest of the code does not know.
VerifiedByName(row, available) ==
  [row EXCEPT !.state = IF row.names \subseteq Stored(row) THEN "verified" ELSE "failed"]

\* available: the references the deployment resolves at the time.
Verified(row, available) ==
  [row EXCEPT !.state =
     CASE row.mode = "none" -> "connected"
       [] row.mode = "manual" -> "awaiting_provider_approval"
       [] row.mode = "key" ->
            IF row.names \subseteq Stored(row) /\ \A n \in Stored(row) : row.refs[n] \in available
            THEN "connected" ELSE "failed"]

\* Allowed of a blocked provider as well.
Revoked(row) == [row EXCEPT !.state = "revoked", !.refs = NoSecrets]

\* A collection is given the secret.
Usable(row, n) == row.state = "connected" /\ Readable(row) /\ row.refs[n] # Unset
=============================================================================
