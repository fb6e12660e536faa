---------------------------- MODULE ResearchPlan ----------------------------
(***************************************************************************)
(* A governed research plan: its terms, the decisions of its analysts, its *)
(* steps and the attempts to carry them out.                               *)
(*                                                                         *)
(* Every request of the API is one transaction that reads the rows it      *)
(* needs without locking them, decides, and writes the columns whose value *)
(* it changed (READ COMMITTED, no version column).  A request is two       *)
(* actions: the first reads the clock and the committed rows, all at once, *)
(* and computes what the request will write; the second commits it.  A     *)
(* request that would write nothing, because it is refused or was already  *)
(* carried out, is not an action.                                          *)
(***************************************************************************)
EXTENDS Integers, Sequences, FiniteSets

CONSTANTS
  Clients,       \* concurrent requests
  Steps,         \* the steps analysts may add to the plan
  Mode,          \* how each step is carried out
  Cost,          \* the estimated cost of each step
  Terms,         \* bound: the terms analysts write into the plan
  Reasons,       \* what identifies a decision besides its type: actor and reason
  Keys,          \* idempotency keys of attempts
  MaxDecisions,  \* bound: the number of decisions asked for
  Horizon        \* bound: the last clock value

TermsType == [approved : SUBSET Steps, scope : SUBSET Steps, maxSteps : Nat,
              maxAutomated : Nat, maxCost : Nat, maxStepCost : Nat, expires : Nat]

ASSUME PlanAssumption ==
  /\ Mode \in [Steps -> {"persisted_search", "manual_link", "automated_adapter",
                         "approved_ingestion"}]
  /\ Cost \in [Steps -> Nat]
  /\ Terms \subseteq TermsType
  /\ "none" \notin Steps \cup Keys
  /\ MaxDecisions \in Nat /\ Horizon \in Nat

VARIABLES
  plan,       \* the row of the plan: state, terms, key of the current revision
  decisions,  \* the decisions recorded, in the order of their commits, which no row keeps
  steps,      \* the state of each step
  attempts,   \* the attempts of each step, by idempotency key
  gate,       \* the steps whose source or path is open: governance, onboarding, quota
  tx,         \* the request each client has in flight
  raced,      \* history: a request wrote over a plan it had not read
  now         \* wall-clock time

vars == <<plan, decisions, steps, attempts, gate, tx, raced, now>>

-----------------------------------------------------------------------------
(* Decisions *)

PlanStates == {"draft", "pending_review", "approved", "in_progress", "paused",
               "completed", "cancelled"}
TerminalStates == {"completed", "cancelled"}

\* From where each decision may be taken, and where it leads.
Sources(type) ==
  CASE type \in {"approve", "reject"} -> {"draft", "pending_review"}
    [] type \in {"pause", "complete"} -> {"approved", "in_progress"}
    [] type = "resume" -> {"paused"}
    [] type = "cancel" -> PlanStates \ TerminalStates

\* Faulty: the state is named after the decision.
NamedTarget(type) ==
  CASE type \in {"approve", "resume"} -> "approved"
    [] type = "reject" -> "rejected"
    [] type = "cancel" -> "cancelled"
    [] type = "pause" -> "paused"
    [] type = "complete" -> "completed"

Target(type) ==
  CASE type \in {"approve", "resume"} -> "approved"
    [] type \in {"reject", "cancel"} -> "cancelled"
    [] type = "pause" -> "paused"
    [] type = "complete" -> "completed"

DecisionTypes == {"approve", "reject", "pause", "resume", "complete", "cancel"}

\* The decision was taken before and its outcome still stands.
Replayed(type, reason) ==
  \E i \in 1..Len(decisions) : /\ decisions[i].type = type
                               /\ decisions[i].reason = reason
                               /\ decisions[i].result = plan.state

-----------------------------------------------------------------------------
(* Eligibility of a step *)

\* What the plan has used: steps that are completed, automated steps whose
\* external action has started, and what these cost.
CompletedSteps == {s \in Steps : steps[s] = "completed"}
AutomatedSteps == {s \in Steps : /\ Mode[s] = "automated_adapter"
                                 /\ \E k \in Keys : attempts[s][k].started}
CostOf[S \in SUBSET Steps] ==
  IF S = {} THEN 0 ELSE LET s == CHOOSE x \in S : TRUE IN Cost[s] + CostOf[S \ {s}]
CostUsed == CostOf[AutomatedSteps]

PlanAllows(s) ==
  /\ plan.state \in {"approved", "in_progress"}
  /\ now < plan.terms.expires
  /\ s \in plan.terms.approved \cap plan.terms.scope

BudgetAllows(s) ==
  /\ Cardinality(CompletedSteps) < plan.terms.maxSteps
  /\ Mode[s] = "automated_adapter" => Cardinality(AutomatedSteps) < plan.terms.maxAutomated
  /\ Cost[s] <= plan.terms.maxStepCost
  /\ CostUsed + Cost[s] <= plan.terms.maxCost

\* A search of what is stored asks nobody for leave; whether an ingestion path is
\* an approved one never changes.
Gated == {s \in Steps : Mode[s] # "persisted_search"}
Sourced == {s \in Gated : Mode[s] # "approved_ingestion"}
RuntimeAllows(s) == s \in Gated => s \in gate

Eligible(s) == PlanAllows(s) /\ BudgetAllows(s) /\ RuntimeAllows(s)

\* The state an evaluation leaves the step in, whatever it was in before.
Evaluated(s) ==
  IF ~Eligible(s) THEN "blocked"
  ELSE IF Mode[s] = "manual_link" THEN "manual_action_required" ELSE "ready"

-----------------------------------------------------------------------------
(* Requests *)

Nothing == "none"
NoTerms == [approved |-> {}, scope |-> {}, maxSteps |-> 0, maxAutomated |-> 0,
            maxCost |-> 0, maxStepCost |-> 0, expires |-> 0]
NoRevision == [state |-> Nothing, terms |-> NoTerms, decided |-> FALSE]
NoPlan == [state |-> Nothing, terms |-> NoTerms, revision |-> NoRevision]
NoAttempt == [state |-> Nothing, started |-> FALSE]

\* The request a client has in flight: what it read of the plan, what it makes
\* of it, and the step and attempt it writes.  fresh turns false when what it
\* read changes.
Idle == [kind |-> "idle", fresh |-> TRUE, loaded |-> NoRevision, plan |-> NoRevision,
         decided |-> <<>>, step |-> Nothing, state |-> Nothing, key |-> Nothing]

Init ==
  /\ plan = NoPlan
  /\ decisions = <<>>
  /\ steps = [s \in Steps |-> Nothing]
  /\ attempts = [s \in Steps |-> [k \in Keys |-> NoAttempt]]
  /\ gate \in SUBSET Gated
  /\ tx = [c \in Clients |-> Idle]
  /\ raced = FALSE
  /\ now = 0

Planned == plan.state # Nothing

\* A new request has read the committed rows.
Opens(c, request) ==
  /\ tx' = [tx EXCEPT ![c] = request]
  /\ UNCHANGED <<plan, decisions, steps, attempts, gate, raced, now>>

\* A request on a step or on an attempt of it, which writes these states.
OfStep(kind, s, k, state) ==
  [Idle EXCEPT !.kind = kind, !.step = s, !.key = k, !.state = state]

\* A revision is recognised by its content, to which a decision adds its own key.
RevisionOf(state, terms, decided) == [state |-> state, terms |-> terms, decided |-> decided]

\* The columns of the plan a request read.
Loaded == RevisionOf(plan.state, plan.terms, FALSE)

\* A column is written only when it changed.
Changed(loaded, new) == IF new = loaded THEN Nothing ELSE new

\* The plan is created, or its terms are replaced while it keeps its state.
Upsert(c, terms) ==
  LET state == IF Planned THEN plan.state ELSE "draft"
      revision == RevisionOf(state, terms, FALSE)
  IN  /\ plan.state \notin TerminalStates
      /\ plan.revision # revision
      /\ Opens(c, [Idle EXCEPT !.kind = "upsert", !.loaded = Loaded, !.plan = revision])

\* The decisions recorded and those in flight.
Asked == Len(decisions) + Cardinality({c \in Clients : tx[c].kind = "decide"})

\* Faulty: where a decision is taken from is not looked at.
DecideAnyway(c, type, reason) ==
  /\ Planned
  /\ ~Replayed(type, reason)
  /\ Asked < MaxDecisions
  /\ Opens(c, [Idle EXCEPT !.kind = "decide", !.loaded = Loaded,
                 !.plan = RevisionOf(Target(type), plan.terms, TRUE),
                 !.decided = <<[type |-> type, reason |-> reason,
                                previous |-> plan.state, result |-> Target(type),
                                at |-> now]>>])

Decide(c, type, reason) ==
  /\ Planned
  /\ plan.state \in Sources(type)
  /\ ~Replayed(type, reason)
  /\ Asked < MaxDecisions
  /\ Opens(c, [Idle EXCEPT !.kind = "decide", !.loaded = Loaded,
                 !.plan = RevisionOf(Target(type), plan.terms, TRUE),
                 !.decided = <<[type |-> type, reason |-> reason,
                                previous |-> plan.state, result |-> Target(type),
                                at |-> now]>>])

CreateStep(c, s) ==
  /\ Planned
  /\ steps[s] = Nothing
  /\ Opens(c, OfStep("step", s, Nothing, "planned"))

EvaluateStep(c, s) ==
  /\ steps[s] \notin {Nothing, Evaluated(s)}
  /\ Opens(c, OfStep("evaluate", s, Nothing, Evaluated(s)))

\* Faulty: a step that was found eligible is not evaluated again.
CreateAttemptOnce(c, s, k) ==
  /\ steps[s] # Nothing
  /\ attempts[s][k] = NoAttempt
  /\ steps[s] \in {"ready", "manual_action_required"}
  /\ Opens(c, OfStep("begin", s, k, IF Mode[s] = "manual_link" THEN Nothing ELSE "running"))

\* The step is evaluated again; an eligible one gets an attempt.
CreateAttempt(c, s, k) ==
  /\ steps[s] # Nothing
  /\ attempts[s][k] = NoAttempt
  /\ \/ /\ Eligible(s)
        /\ Opens(c, OfStep("begin", s, k, IF Mode[s] = "manual_link"
                                           THEN Changed(steps[s], Evaluated(s))
                                           ELSE "running"))
     \/ /\ ~Eligible(s)
        /\ steps[s] # "blocked"
        /\ Opens(c, OfStep("evaluate", s, Nothing, "blocked"))

\* The adapter reports that its call to the provider has begun.
MarkStarted(c, s, k) ==
  /\ Mode[s] = "automated_adapter"
  /\ attempts[s][k] = [state |-> "running", started |-> FALSE]
  /\ Opens(c, OfStep("start", s, k, Nothing))

\* Faulty: the step is left as it is.
CompleteAttemptOnly(c, s, k) ==
  /\ attempts[s][k].state \in {"running", "manual_action_required"}
  /\ Opens(c, OfStep("complete", s, k, Nothing))

CompleteAttempt(c, s, k) ==
  /\ attempts[s][k].state \in {"running", "manual_action_required"}
  /\ Opens(c, OfStep("complete", s, k, Changed(steps[s], "completed")))

-----------------------------------------------------------------------------
(* The end of a request *)

\* Faulty: the key of an attempt is not unique in the database.
CollidesWithRows(c) ==
  \/ tx[c].kind = "upsert" /\ tx[c].loaded.state = Nothing /\ Planned
  \/ tx[c].kind = "step" /\ steps[tx[c].step] # Nothing

\* The unique keys of the plan, its steps and its attempts.  Which keys of revisions
\* and decisions were ever recorded is not kept: a request that records one a
\* second time is among those Rollback ends.
Collides(c) ==
  \/ tx[c].kind = "upsert" /\ tx[c].loaded.state = Nothing /\ Planned
  \/ tx[c].kind = "step" /\ steps[tx[c].step] # Nothing
  \/ tx[c].kind = "begin" /\ attempts[tx[c].step][tx[c].key] # NoAttempt

\* The columns that changed since they were loaded.
Write(db, loaded, new) == [f \in DOMAIN new |-> IF new[f] = loaded[f] THEN db[f] ELSE new[f]]

\* Faulty: the whole row is written back.
PlanOverwritten(c) ==
  IF tx[c].kind \notin {"upsert", "decide"} THEN plan
  ELSE [state |-> tx[c].plan.state, terms |-> tx[c].plan.terms, revision |-> tx[c].plan]

\* Faulty: a decision leaves the revision alone.
PlanAfterDecision(c) ==
  IF tx[c].kind \notin {"upsert", "decide"} THEN plan
  ELSE [state |-> IF tx[c].plan.state = tx[c].loaded.state THEN plan.state
                  ELSE tx[c].plan.state,
        terms |-> Write(plan.terms, tx[c].loaded.terms, tx[c].plan.terms),
        revision |-> IF tx[c].kind = "decide" THEN plan.revision ELSE tx[c].plan]

PlanAfter(c) ==
  LET old == tx[c].loaded
      new == tx[c].plan
  IN  IF tx[c].kind \notin {"upsert", "decide"} THEN plan
      ELSE [state |-> IF new.state = old.state THEN plan.state ELSE new.state,
            terms |-> Write(plan.terms, old.terms, new.terms),
            revision |-> new]

AttemptAfter(c) ==
  LET old == attempts[tx[c].step][tx[c].key]
  IN  CASE tx[c].kind = "begin" ->
             [state |-> IF Mode[tx[c].step] = "manual_link" THEN "manual_action_required"
                        ELSE "running", started |-> FALSE]
        [] tx[c].kind = "start" -> [old EXCEPT !.started = TRUE]
        [] tx[c].kind = "complete" -> [old EXCEPT !.state = "completed"]

\* What the requests of these kinds have read is no longer current.
Outdated(kinds) == [c \in Clients |-> [tx[c] EXCEPT !.fresh = @ /\ tx[c].kind \notin kinds]]

Commit(c) ==
  /\ tx[c].kind # "idle"
  /\ ~Collides(c)
  /\ plan' = PlanAfter(c)
  /\ decisions' = decisions \o tx[c].decided
  /\ steps' = IF tx[c].state = Nothing THEN steps
              ELSE [steps EXCEPT ![tx[c].step] = tx[c].state]
  /\ attempts' = IF tx[c].key = Nothing THEN attempts
                 ELSE [attempts EXCEPT ![tx[c].step][tx[c].key] = AttemptAfter(c)]
  /\ tx' = [Outdated({"begin"} \cup (IF plan' = plan THEN {} ELSE {"upsert", "decide"}))
              EXCEPT ![c] = Idle]
  /\ raced' = (raced \/ (tx[c].kind \in {"upsert", "decide"} /\ ~tx[c].fresh))
  /\ UNCHANGED <<gate, now>>

\* The request violates a unique key, fails or loses its connection: rolled back.
Rollback(c) ==
  /\ tx[c].kind # "idle"
  /\ tx' = [tx EXCEPT ![c] = Idle]
  /\ UNCHANGED <<plan, decisions, steps, attempts, gate, raced, now>>

\* Governance, onboarding, controls or quota change for the source of a step.
SourceChanges(s) ==
  /\ s \in Sourced
  /\ gate' = IF s \in gate THEN gate \ {s} ELSE gate \cup {s}
  /\ tx' = Outdated({"begin"})
  /\ UNCHANGED <<plan, decisions, steps, attempts, raced, now>>

Tick ==
  /\ now < Horizon
  /\ now' = now + 1
  /\ tx' = Outdated({"begin"})
  /\ UNCHANGED <<plan, decisions, steps, attempts, gate, raced>>

\* A client sends one request at a time.
NewRequest(c) ==
  /\ tx[c] = Idle
  /\ \/ \E terms \in Terms : Upsert(c, terms)
     \/ \E type \in DecisionTypes, reason \in Reasons : Decide(c, type, reason)
     \/ \E s \in Steps : CreateStep(c, s) \/ EvaluateStep(c, s)
     \/ \E s \in Steps, k \in Keys : \/ CreateAttempt(c, s, k)
                                     \/ MarkStarted(c, s, k)
                                     \/ CompleteAttempt(c, s, k)

Next ==
  \/ \E c \in Clients : NewRequest(c) \/ Commit(c) \/ Rollback(c)
  \/ \E s \in Steps : SourceChanges(s)
  \/ Tick

Spec == Init /\ [][Next]_vars

-----------------------------------------------------------------------------
(* Properties *)

StepStates == {Nothing, "planned", "ready", "blocked", "manual_action_required",
               "running", "completed"}
AttemptStates == {Nothing, "running", "manual_action_required", "completed"}

\* Types of the rows and of the requests in flight.
TypeOK ==
  /\ plan.state \in PlanStates \cup {Nothing}
  /\ \A i \in 1..Len(decisions) : {decisions[i].previous, decisions[i].result} \subseteq PlanStates
  /\ steps \in [Steps -> StepStates]
  /\ attempts \in [Steps -> [Keys -> [state : AttemptStates, started : BOOLEAN]]]
  /\ gate \subseteq Gated
  /\ \A c \in Clients : /\ tx[c].step \in Steps \cup {Nothing}
                        /\ tx[c].state \in StepStates
                        /\ tx[c].key \in Keys \cup {Nothing}
  /\ raced \in BOOLEAN
  /\ now \in 0..Horizon

\* Decisions are listed by the time their requests began: none is listed before
\* this one.
Newest(i) == \A j \in 1..Len(decisions) : decisions[j].at <= decisions[i].at

\* Whatever overlaps, a plan is a draft until its first decision is recorded and
\* ever after in a state that some recorded decision made it: no revision of its
\* terms moves it.  Until a request writes over a plan it had not read, that
\* decision is one of the newest; two that overlap may commit against the order
\* of their times, and then the newest need not be the one that stands.
DecisionsExplainState ==
  Planned =>
    IF decisions = <<>> THEN plan.state = "draft"
    ELSE \E i \in 1..Len(decisions) : /\ decisions[i].result = plan.state
                                      /\ raced \/ Newest(i)

\* Without overlapping requests the decisions form one path, the current
\* revision is recorded and says what the plan says.
HistoryIsFaithful ==
  ~raced /\ Planned =>
    /\ \A i \in 2..Len(decisions) : decisions[i].previous = decisions[i - 1].result
    /\ plan.revision.state = plan.state /\ plan.revision.terms = plan.terms

\* A step is running only on behalf of an attempt that is, and a completed step
\* has a completed attempt, whatever requests overlapped on either.
StepsReflectAttempts ==
  \A s \in Steps :
    /\ steps[s] = "running" => \E k \in Keys : attempts[s][k].state = "running"
    /\ steps[s] = "completed" => \E k \in Keys : attempts[s][k].state = "completed"

\* Until a request writes over a plan it had not read, a plan that was completed
\* or cancelled is never decided on or revised again.
TerminalIsFinal ==
  [][~raced' /\ plan.state \in TerminalStates => plan' = plan]_vars

\* An attempt that meets no other request begins only under an approved plan
\* that covers its step, has not expired and has budget, with its source open.
AttemptsAreAuthorized ==
  [][\A c \in Clients, s \in Steps, k \in Keys :
       /\ attempts[s][k] = NoAttempt /\ attempts'[s][k] # NoAttempt
       /\ tx[c].fresh /\ Commit(c)
       => Eligible(s)]_vars

\* An attempt is one attempt however often it is asked for: it is not begun
\* again, its call to the provider stays on record and its completion is final.
AttemptsArePermanent ==
  [][\A s \in Steps, k \in Keys :
       /\ attempts[s][k] # NoAttempt => attempts'[s][k] # NoAttempt
       /\ attempts[s][k].started => attempts'[s][k].started
       /\ attempts[s][k].state = "completed" => attempts'[s][k].state = "completed"]_vars

\* "Missing, stale, expired, revoked, paused, out-of-scope, over-budget or
\* capability-missing state fails closed": no more steps are attempted to the
\* end than the terms allow, one request after another.
Attempted == {s \in Steps : \E k \in Keys : attempts[s][k].state = "completed"}
BudgetFailsClosed ==
  [][\A c \in Clients :
       Commit(c) /\ tx[c].kind = "begin" /\ tx[c].fresh
         => Cardinality(Attempted) < plan.terms.maxSteps]_vars
=============================================================================
