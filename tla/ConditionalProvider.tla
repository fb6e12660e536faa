------------------------ MODULE ConditionalProvider ------------------------
(***************************************************************************)
(* What the approval dossier, the runtime control and the onboarding state *)
(* of a conditional provider say of an execution.                          *)
(***************************************************************************)
CONSTANTS
  Methods,     \* access methods
  Unconnected, \* those that need no connection: authorized exports, manual imports
  Scopes       \* what a dossier approves: scopes, fields, purposes, categories

ApprovalStates == {"draft", "pending_review", "approved", "expired", "revoked", "paused"}
DossierType == [state : ApprovalStates, method : Methods, scopes : SUBSET Scopes]
ControlType == [paused : BOOLEAN, kill : BOOLEAN]
Unrestricted == [paused |-> FALSE, kill |-> FALSE]

ControlActions == {"pause", "resume", "activate_kill_switch", "clear_kill_switch"}

ControlAfter(control, action) ==
  CASE action = "pause" -> [control EXCEPT !.paused = TRUE]
    [] action = "resume" -> [control EXCEPT !.paused = FALSE]
    [] action = "activate_kill_switch" -> [control EXCEPT !.kill = TRUE]
    [] action = "clear_kill_switch" -> [control EXCEPT !.kill = FALSE]

\* A provider without an onboarding row needs none for an export.
OnboardingState(state, method) ==
  IF state # "absent" THEN state
  ELSE IF method \in Unconnected THEN "not_required" ELSE "not_configured"

OnboardingReady(state, method) ==
  \/ state = "connected"
  \/ state = "not_required" /\ method \in Unconnected

Covers(dossier, method, scopes) ==
  /\ dossier.state = "approved"
  /\ method = dossier.method
  /\ scopes \subseteq dossier.scopes

\* Faulty: the pause is only shown.
AllowedThoughPaused(dossier, control, state, method, scopes) ==
  /\ Covers(dossier, method, scopes)
  /\ OnboardingReady(OnboardingState(state, method), method)
  /\ ~control.kill

\* No gate modelled here blocks: the source's policy, portfolio, capability, quota
\* and cost, and the dates of the dossier, may still do.
Allowed(dossier, control, state, method, scopes) ==
  /\ Covers(dossier, method, scopes)
  /\ OnboardingReady(OnboardingState(state, method), method)
  /\ ~control.kill /\ ~control.paused
=============================================================================
