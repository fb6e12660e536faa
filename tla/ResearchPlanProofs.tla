------------------------- MODULE ResearchPlanProofs -------------------------
(* Proofs about ResearchPlan, for any clients, steps, terms and keys.       *)
EXTENDS ResearchPlan, FiniteSetTheorems, TLAPS

Kinds == {"idle", "upsert", "decide", "step", "evaluate", "begin", "start", "complete"}
OnPlan == {"upsert", "decide"}
OnStep == {"step", "evaluate"}
OnAttempt == {"begin", "start", "complete"}

RevisionType == [state : PlanStates \cup {Nothing}, terms : TermsType, decided : BOOLEAN]
DecisionType == [type : DecisionTypes, reason : Reasons, previous : PlanStates,
                 result : PlanStates, at : Nat]
RequestType == [kind : Kinds, fresh : BOOLEAN, loaded : RevisionType, plan : RevisionType,
                decided : Seq(DecisionType), step : Steps \cup {Nothing},
                state : StepStates, key : Keys \cup {Nothing}]
AttemptType == [state : AttemptStates, started : BOOLEAN]

\* The types of everything the actions read.
Typed ==
  /\ plan \in [state : PlanStates \cup {Nothing}, terms : TermsType, revision : RevisionType]
  /\ decisions \in Seq(DecisionType)
  /\ steps \in [Steps -> StepStates]
  /\ attempts \in [Steps -> [Keys -> AttemptType]]
  /\ gate \subseteq Gated
  /\ tx \in [Clients -> RequestType]
  /\ raced \in BOOLEAN
  /\ now \in 0..Horizon

\* A request on the plan p writes what it decided on, a legal move from what it read.
PlanRequest(x, p) ==
  /\ x.state = Nothing /\ x.key = Nothing
  /\ x.plan.state \in PlanStates
  /\ x.loaded.state \notin TerminalStates
  /\ x.kind = "upsert" =>
       /\ x.decided = <<>>
       /\ x.loaded.state = Nothing => x.plan.state = "draft"
       /\ x.loaded.state # Nothing => p.state # Nothing /\ x.plan.state = x.loaded.state
  /\ x.kind = "decide" =>
       /\ p.state # Nothing /\ x.loaded.state # x.plan.state
       /\ \E d \in DecisionType : /\ x.decided = <<d>>
                                  /\ d.result = x.plan.state /\ d.previous = x.loaded.state
  /\ x.fresh => x.loaded.state = p.state /\ x.loaded.terms = p.terms

\* A request on a step writes a state that it may have, knows its attempt among
\* at, and if it begins one and is fresh, its step is among the eligible ones E.
StepRequest(x, at, E) ==
  /\ x.decided = <<>> /\ x.step \in Steps
  /\ x.kind \in OnStep => /\ x.key = Nothing
                          /\ x.state \in {"planned", "ready", "blocked",
                                          "manual_action_required"}
  /\ x.kind \in OnAttempt => x.key \in Keys
  /\ x.kind = "begin" =>
       /\ x.state \in {Nothing, "running", "manual_action_required"}
       /\ x.state = "running" => Mode[x.step] # "manual_link"
       /\ x.fresh => x.step \in E
  /\ x.kind \in {"start", "complete"} => at[x.step][x.key].state # Nothing
  /\ x.kind = "start" => x.state = Nothing
  /\ x.kind = "complete" => x.state \in {Nothing, "completed"}

Request(x, p, at, E) ==
  /\ x.kind \in OnPlan => PlanRequest(x, p)
  /\ x.kind \in OnStep \cup OnAttempt => StepRequest(x, at, E)

EligibleSteps == {s \in Steps : Eligible(s)}

\* A completion among the requests T that will leave the state of the step alone.
Quiet(T, s, k) ==
  \E c \in Clients : /\ T[c].kind = "complete" /\ T[c].state = Nothing
                     /\ T[c].step = s /\ T[c].key = k

\* A running step has a running attempt that no such completion is about to end.
Carried(state, of, T, s) ==
  /\ state = "running" => \E k \in Keys : of[k].state = "running" /\ ~Quiet(T, s, k)
  /\ state = "completed" => \E k \in Keys : of[k].state = "completed"

\* A decision makes the state it records, and no other request moves the plan.
LastExplains ==
  Planned => plan.state = IF decisions = <<>> THEN "draft"
                          ELSE decisions[Len(decisions)].result

Inv ==
  /\ Typed
  /\ \A c \in Clients : Request(tx[c], plan, attempts, EligibleSteps)
  /\ \A s \in Steps : Carried(steps[s], attempts[s], tx, s)
  /\ ~Planned => decisions = <<>>
  /\ LastExplains
  /\ HistoryIsFaithful

-----------------------------------------------------------------------------
(* Facts about rows and requests *)

LEMMA NoTermsType == NoTerms \in TermsType
  BY DEF NoTerms, TermsType

LEMMA IdleType == Idle \in RequestType /\ Idle.kind = "idle"
  <1>1. NoRevision \in RevisionType BY NoTermsType DEF NoRevision, RevisionType
  <1> QED BY <1>1 DEF Idle, RequestType, Kinds, Nothing, StepStates

\* Writing the changed columns over a row keeps its type, and over the row they
\* were loaded from gives the new row.
LEMMA WriteTerms ==
  ASSUME NEW db \in TermsType, NEW old \in TermsType, NEW new \in TermsType
  PROVE  Write(db, old, new) \in TermsType /\ Write(old, old, new) = new
  BY DEF Write, TermsType

\* Marking a request outdated changes nothing else of it.
LEMMA MarkRequest ==
  ASSUME NEW x \in RequestType, NEW b \in BOOLEAN
  PROVE  LET y == [x EXCEPT !.fresh = b]
         IN  /\ y \in RequestType /\ y.fresh = b
             /\ y.kind = x.kind /\ y.loaded = x.loaded /\ y.plan = x.plan
             /\ y.decided = x.decided /\ y.step = x.step /\ y.state = x.state
             /\ y.key = x.key
  BY DEF RequestType

\* Eligibility is a matter of the rows, the gate and the clock.
LEMMA EligibleKept ==
  ASSUME UNCHANGED <<plan, steps, attempts, gate, now>>
  PROVE  EligibleSteps' = EligibleSteps
  BY DEF EligibleSteps, Eligible, PlanAllows, BudgetAllows, RuntimeAllows, CompletedSteps,
         AutomatedSteps, CostUsed

LEMMA InitInv == Init => Inv
  <1> SUFFICES ASSUME Init PROVE Inv OBVIOUS
  <1>1. Typed
    <2>1. NoRevision \in RevisionType BY NoTermsType DEF NoRevision, RevisionType
    <2>2. plan \in [state : PlanStates \cup {Nothing}, terms : TermsType, revision : RevisionType]
      BY <2>1, NoTermsType DEF Init, NoPlan
    <2>3. attempts \in [Steps -> [Keys -> AttemptType]] /\ steps \in [Steps -> StepStates]
      BY DEF Init, NoAttempt, AttemptType, AttemptStates, StepStates, Nothing
    <2>4. tx \in [Clients -> RequestType] BY IdleType DEF Init
    <2>5. now \in 0..Horizon BY PlanAssumption DEF Init
    <2>6. decisions \in Seq(DecisionType) BY DEF Init
    <2>7. gate \subseteq Gated /\ raced \in BOOLEAN BY DEF Init
    <2> QED BY <2>2, <2>3, <2>4, <2>5, <2>6, <2>7 DEF Typed
  <1>2. \A c \in Clients : Request(tx[c], plan, attempts, EligibleSteps)
    BY IdleType DEF Init, Request, OnPlan, OnStep, OnAttempt
  <1>3. \A s \in Steps : Carried(steps[s], attempts[s], tx, s) BY DEF Init, Carried, Nothing
  <1>4. ~Planned /\ decisions = <<>> BY DEF Init, Planned, NoPlan
  <1> QED BY <1>1, <1>2, <1>3, <1>4 DEF Inv, LastExplains, HistoryIsFaithful

-----------------------------------------------------------------------------
(* The first half of a request *)

Rows == <<plan, decisions, steps, attempts, gate, raced, now>>

\* A request that is well formed on the rows it read may be in flight.
LEMMA OpenStep ==
  ASSUME Inv, NEW c \in Clients, NEW x \in RequestType, Opens(c, x),
         Request(x, plan, attempts, EligibleSteps),
         x.kind = "complete" /\ x.state = Nothing => steps[x.step] # "running"
  PROVE  Inv'
  <1> USE DEF Inv
  <1>1. UNCHANGED Rows /\ tx' = [tx EXCEPT ![c] = x] BY DEF Opens, Rows
  <1>2. Typed' BY <1>1 DEF Typed, Rows
  <1>3. EligibleSteps' = EligibleSteps BY <1>1, EligibleKept DEF Rows
  <1>4. \A d \in Clients : Request(tx[d], plan, attempts, EligibleSteps)'
    BY <1>1, <1>3 DEF Typed, Rows
  <1>5. ASSUME NEW s \in Steps PROVE Carried(steps[s], attempts[s], tx, s)'
    <2>1. steps[s] = "running" => \A k \in Keys : ~Quiet(tx, s, k) => ~Quiet(tx', s, k)
      BY <1>1 DEF Quiet, Rows, Typed
    <2> QED BY <1>1, <2>1 DEF Carried, Rows
  <1> QED BY <1>1, <1>2, <1>4, <1>5
          DEF Rows, Planned, LastExplains, HistoryIsFaithful

LEMMA UpsertStep ==
  ASSUME Inv, NEW c \in Clients, NEW terms \in Terms, Upsert(c, terms) PROVE Inv'
  <1> DEFINE state == IF Planned THEN plan.state ELSE "draft"
             revision == RevisionOf(state, terms, FALSE)
             x == [Idle EXCEPT !.kind = "upsert", !.loaded = Loaded, !.plan = revision]
  <1>1. plan.state \in PlanStates \cup {Nothing} /\ plan.terms \in TermsType
    BY DEF Inv, Typed
  <1>2. state \in PlanStates /\ terms \in TermsType
    BY <1>1, PlanAssumption DEF PlanStates, Planned
  <1>3. Loaded \in RevisionType /\ revision \in RevisionType
    BY <1>1, <1>2 DEF Loaded, RevisionOf, RevisionType
  <1>4. /\ Loaded.state = plan.state /\ Loaded.terms = plan.terms /\ revision.state = state
    BY DEF Loaded, RevisionOf
  <1> HIDE DEF revision
  <1>5. /\ x \in RequestType /\ x.kind = "upsert" /\ x.loaded = Loaded /\ x.plan = revision
        /\ x.decided = <<>> /\ x.state = Nothing /\ x.key = Nothing
    BY <1>3, IdleType DEF RequestType, Idle, Kinds
  <1>6. Opens(c, x) /\ plan.state \notin TerminalStates BY DEF Upsert, revision
  <1> HIDE DEF x
  <1>7. PlanRequest(x, plan) BY <1>2, <1>4, <1>5, <1>6 DEF PlanRequest, Planned
  <1>8. Request(x, plan, attempts, EligibleSteps)
    BY <1>5, <1>7 DEF Request, OnPlan, OnStep, OnAttempt
  <1> QED BY <1>5, <1>6, <1>8, OpenStep

\* A decision leaves a state that is not final for another one.
LEMMA Moves ==
  ASSUME NEW type \in DecisionTypes
  PROVE  /\ Sources(type) \subseteq PlanStates \ TerminalStates
         /\ Target(type) \in PlanStates /\ Target(type) \notin Sources(type)
  <1> USE DEF Sources, Target, PlanStates, TerminalStates
  <1>1. CASE type \in {"approve", "reject"} BY <1>1
  <1>2. CASE type \in {"pause", "complete"} BY <1>2
  <1>3. CASE type = "resume" BY <1>3
  <1>4. CASE type = "cancel" BY <1>4
  <1> QED BY <1>1, <1>2, <1>3, <1>4 DEF DecisionTypes

LEMMA DecideStep ==
  ASSUME Inv, NEW c \in Clients, NEW type \in DecisionTypes, NEW reason \in Reasons,
         Decide(c, type, reason)
  PROVE  Inv'
  <1> DEFINE d == [type |-> type, reason |-> reason, previous |-> plan.state,
                   result |-> Target(type), at |-> now]
             revision == RevisionOf(Target(type), plan.terms, TRUE)
             x == [Idle EXCEPT !.kind = "decide", !.loaded = Loaded, !.plan = revision,
                               !.decided = <<d>>]
  <1>1. plan.state \in PlanStates \cup {Nothing} /\ plan.terms \in TermsType
    BY DEF Inv, Typed
  <1>2. plan.state \in Sources(type) /\ Planned BY DEF Decide
  <1>3. /\ plan.state \in PlanStates \ TerminalStates /\ Target(type) \in PlanStates
        /\ Target(type) # plan.state
    BY <1>2, Moves
  <1>4. Loaded \in RevisionType /\ revision \in RevisionType
    BY <1>1, <1>3 DEF Loaded, RevisionOf, RevisionType
  <1>5. /\ Loaded.state = plan.state /\ Loaded.terms = plan.terms
        /\ revision.state = Target(type)
    BY DEF Loaded, RevisionOf
  <1>6. d \in DecisionType /\ d.result = Target(type) /\ d.previous = plan.state
    <2>1. now \in Nat BY PlanAssumption DEF Inv, Typed
    <2> QED BY <1>3, <2>1 DEF DecisionType
  <1> HIDE DEF revision, d
  <1>7. /\ x \in RequestType /\ x.kind = "decide" /\ x.loaded = Loaded /\ x.plan = revision
        /\ x.decided = <<d>> /\ x.state = Nothing /\ x.key = Nothing
    <2>1. <<d>> \in Seq(DecisionType) BY <1>6
    <2> DEFINE ds == <<d>>
    <2> HIDE DEF ds
    <2>2. [Idle EXCEPT !.kind = "decide", !.loaded = Loaded, !.plan = revision,
                       !.decided = ds] \in RequestType
      BY <1>4, <2>1, IdleType DEF RequestType, Idle, Kinds, ds
    <2> QED BY <2>2 DEF Idle, ds
  <1>8. Opens(c, x) BY DEF Decide, revision, d
  <1> HIDE DEF x
  <1>9. PlanRequest(x, plan) BY <1>2, <1>3, <1>5, <1>6, <1>7 DEF PlanRequest, Planned
  <1>10. Request(x, plan, attempts, EligibleSteps)
    BY <1>7, <1>9 DEF Request, OnPlan, OnStep, OnAttempt
  <1> QED BY <1>7, <1>8, <1>10, OpenStep

\* A request on a step or an attempt of it.
LEMMA StepOpens ==
  ASSUME Inv, NEW c \in Clients, NEW s \in Steps, NEW kind \in OnStep \cup OnAttempt,
         NEW key \in Keys \cup {Nothing}, NEW state \in StepStates,
         Opens(c, OfStep(kind, s, key, state)),
         kind \in OnStep => /\ key = Nothing
                            /\ state \in {"planned", "ready", "blocked",
                                          "manual_action_required"},
         kind \in OnAttempt => key \in Keys,
         kind = "begin" => /\ state \in {Nothing, "running", "manual_action_required"}
                           /\ state = "running" => Mode[s] # "manual_link"
                           /\ Eligible(s),
         kind \in {"start", "complete"} => attempts[s][key].state # Nothing,
         kind = "start" => state = Nothing,
         kind = "complete" => /\ state \in {Nothing, "completed"}
                              /\ state = Nothing => steps[s] # "running"
  PROVE  Inv'
  <1> DEFINE x == OfStep(kind, s, key, state)
  <1>1. /\ x \in RequestType /\ x.kind = kind /\ x.step = s /\ x.key = key /\ x.state = state
        /\ x.decided = <<>>
    BY IdleType DEF OfStep, RequestType, Idle, Kinds, OnStep, OnAttempt
  <1> HIDE DEF x
  <1>2. StepRequest(x, attempts, EligibleSteps) BY <1>1 DEF StepRequest, EligibleSteps
  <1>3. Request(x, plan, attempts, EligibleSteps)
    BY <1>1, <1>2 DEF Request, OnPlan, OnStep, OnAttempt
  <1>4. Opens(c, x) BY DEF x
  <1> QED BY <1>1, <1>3, <1>4, OpenStep

\* The state an evaluation gives a step.
LEMMA EvaluatedStates ==
  ASSUME NEW s \in Steps
  PROVE  /\ Evaluated(s) \in {"ready", "blocked", "manual_action_required"}
         /\ ~Eligible(s) => Evaluated(s) = "blocked"
         /\ Eligible(s) /\ Mode[s] = "manual_link" => Evaluated(s) = "manual_action_required"
  BY DEF Evaluated

LEMMA StepRequests ==
  ASSUME Inv, NEW c \in Clients, NEW s \in Steps, CreateStep(c, s) \/ EvaluateStep(c, s)
  PROVE  Inv'
  <1> USE DEF OnStep, OnAttempt, StepStates, Nothing
  <1>1. CASE CreateStep(c, s)
    <2>1. Opens(c, OfStep("step", s, Nothing, "planned"))
      BY <1>1 DEF CreateStep
    <2> QED BY <2>1, StepOpens
  <1>2. CASE EvaluateStep(c, s)
    <2>1. Opens(c, OfStep("evaluate", s, Nothing, Evaluated(s)))
      BY <1>2 DEF EvaluateStep
    <2> QED BY <2>1, StepOpens, EvaluatedStates
  <1> QED BY <1>1, <1>2

LEMMA AttemptRequests ==
  ASSUME Inv, NEW c \in Clients, NEW s \in Steps, NEW k \in Keys,
         CreateAttempt(c, s, k) \/ MarkStarted(c, s, k) \/ CompleteAttempt(c, s, k)
  PROVE  Inv'
  <1> USE DEF OnStep, OnAttempt, StepStates, Nothing
  <1>1. CASE CreateAttempt(c, s, k) /\ Eligible(s)
    <2> DEFINE state == IF Mode[s] = "manual_link"
                        THEN Changed(steps[s], Evaluated(s)) ELSE "running"
    <2>1. Opens(c, OfStep("begin", s, k, state))
      BY <1>1 DEF CreateAttempt
    <2>2. /\ state \in {Nothing, "running", "manual_action_required"}
          /\ state = "running" => Mode[s] # "manual_link"
      BY <1>1, EvaluatedStates DEF Changed
    <2> HIDE DEF state
    <2> QED BY <1>1, <2>1, <2>2, StepOpens
  <1>2. CASE CreateAttempt(c, s, k) /\ ~Eligible(s)
    <2>1. Opens(c, OfStep("evaluate", s, Nothing, "blocked"))
      BY <1>2 DEF CreateAttempt
    <2> QED BY <2>1, StepOpens
  <1>3. CASE MarkStarted(c, s, k)
    <2>1. Opens(c, OfStep("start", s, k, Nothing))
      BY <1>3 DEF MarkStarted
    <2>2. attempts[s][k].state # Nothing BY <1>3 DEF MarkStarted
    <2> QED BY <2>1, <2>2, StepOpens
  <1>4. CASE CompleteAttempt(c, s, k)
    <2> DEFINE state == Changed(steps[s], "completed")
    <2>1. Opens(c, OfStep("complete", s, k, state))
      BY <1>4 DEF CompleteAttempt
    <2>2. attempts[s][k].state # Nothing BY <1>4 DEF CompleteAttempt
    <2>3. state \in {Nothing, "completed"} /\ (state = Nothing => steps[s] # "running")
      BY DEF Changed
    <2> HIDE DEF state
    <2> QED BY <2>1, <2>2, <2>3, StepOpens
  <1> QED BY <1>1, <1>2, <1>3, <1>4

-----------------------------------------------------------------------------
(* The second half of a request, and the environment *)

\* A request outdated by others, or ended, is still well formed when the plan
\* was not unmade and no attempt was.
LEMMA OutdatedKept ==
  ASSUME NEW x \in RequestType, NEW b \in BOOLEAN,
         NEW p, NEW q, NEW at, NEW bt, NEW E, NEW F, Request(x, p, at, E),
         p.state # Nothing => q.state # Nothing,
         \A s \in Steps, k \in Keys : at[s][k].state # Nothing => bt[s][k].state # Nothing,
         x.kind \in OnPlan /\ b => x.fresh /\ q.state = p.state /\ q.terms = p.terms,
         x.kind = "begin" => ~b
  PROVE  Request([x EXCEPT !.fresh = b], q, bt, F)
  <1> DEFINE y == [x EXCEPT !.fresh = b]
  <1>1. /\ y.fresh = b /\ y.kind = x.kind /\ y.loaded = x.loaded /\ y.plan = x.plan
        /\ y.decided = x.decided /\ y.step = x.step /\ y.state = x.state /\ y.key = x.key
    BY MarkRequest
  <1> HIDE DEF y
  <1>2. x.kind \in OnPlan => PlanRequest(y, q) BY <1>1 DEF Request, PlanRequest
  <1>3. x.kind \in OnStep \cup OnAttempt => StepRequest(y, bt, F)
    BY <1>1 DEF Request, StepRequest, OnStep, OnAttempt
  <1>4. Request(y, q, bt, F) BY <1>1, <1>2, <1>3 DEF Request
  <1> QED BY <1>4 DEF y

LEMMA RollbackStep == ASSUME Inv, NEW c \in Clients, Rollback(c) PROVE Inv'
  <1> USE DEF Inv
  <1>1. UNCHANGED Rows /\ tx' = [tx EXCEPT ![c] = Idle] BY DEF Rollback, Rows
  <1>2. Typed' BY <1>1, IdleType DEF Typed, Rows
  <1>3. EligibleSteps' = EligibleSteps BY <1>1, EligibleKept DEF Rows
  <1>4. Request(Idle, plan, attempts, EligibleSteps)
    BY IdleType DEF Request, OnPlan, OnStep, OnAttempt
  <1>5. \A d \in Clients : Request(tx[d], plan, attempts, EligibleSteps)'
    BY <1>1, <1>3, <1>4 DEF Typed, Rows
  <1>6. ASSUME NEW s \in Steps PROVE Carried(steps[s], attempts[s], tx, s)'
    <2>1. \A k \in Keys : ~Quiet(tx, s, k) => ~Quiet(tx', s, k)
      BY <1>1, IdleType DEF Quiet, Typed
    <2> QED BY <1>1, <2>1 DEF Carried, Rows
  <1> QED BY <1>1, <1>2, <1>5, <1>6
          DEF Rows, Planned, LastExplains, HistoryIsFaithful

\* The gate and the clock only outdate the attempts that are being begun.
LEMMA EnvironmentStep ==
  ASSUME Inv, UNCHANGED <<plan, decisions, steps, attempts, raced>>,
         tx' = Outdated({"begin"}), gate' \subseteq Gated, now' \in 0..Horizon
  PROVE  Inv'
  <1> USE DEF Inv
  <1>1. ASSUME NEW c \in Clients
        PROVE  /\ Request(tx'[c], plan', attempts', EligibleSteps')
               /\ tx'[c] \in RequestType /\ tx'[c].kind = tx[c].kind
               /\ tx'[c].state = tx[c].state /\ tx'[c].step = tx[c].step
               /\ tx'[c].key = tx[c].key
    <2> DEFINE b == tx[c].fresh /\ tx[c].kind \notin {"begin"}
    <2>1. tx[c] \in RequestType BY DEF Typed
    <2>2. b \in BOOLEAN BY <2>1 DEF RequestType
    <2> DEFINE y == [tx[c] EXCEPT !.fresh = b]
    <2>3. tx'[c] = y BY DEF Outdated
    <2>4. tx[c].kind = "begin" => ~b OBVIOUS
    <2>5. b => tx[c].fresh OBVIOUS
    <2> HIDE DEF b
    <2>6. Request(y, plan', attempts', EligibleSteps')
      BY <2>1, <2>2, <2>4, <2>5, OutdatedKept DEF Request, PlanRequest
    <2>7. /\ y \in RequestType /\ y.kind = tx[c].kind /\ y.state = tx[c].state
          /\ y.step = tx[c].step /\ y.key = tx[c].key
      BY <2>1, <2>2, MarkRequest
    <2> HIDE DEF y
    <2>8. Request(tx'[c], plan', attempts', EligibleSteps') BY <2>3, <2>6, Zenon
    <2> QED BY <2>3, <2>7, <2>8
  <1>2. Typed' BY <1>1 DEF Typed, Outdated
  <1>3. ASSUME NEW s \in Steps PROVE Carried(steps[s], attempts[s], tx, s)'
    <2>1. \A k \in Keys : ~Quiet(tx, s, k) => ~Quiet(tx', s, k)
      BY <1>1 DEF Quiet
    <2> QED BY <2>1 DEF Carried
  <1>4. \A c \in Clients : Request(tx[c], plan, attempts, EligibleSteps)' BY <1>1
  <1> QED BY <1>2, <1>3, <1>4 DEF Planned, LastExplains, HistoryIsFaithful

\* What a commit makes of the plan: it is never unmade, and a request on it
\* leaves the state that it or a request before it decided on.
LEMMA CommitPlan ==
  ASSUME Inv, NEW c \in Clients, Commit(c)
  PROVE  /\ plan' \in [state : PlanStates \cup {Nothing}, terms : TermsType,
                       revision : RevisionType]
         /\ tx[c].kind \notin OnPlan => plan' = plan
         /\ tx[c].kind \in OnPlan => plan'.state \in PlanStates
         /\ tx[c].kind = "decide" => plan'.state = tx[c].plan.state
         /\ tx[c].kind = "upsert" => plan'.state = IF Planned THEN plan.state ELSE "draft"
         /\ tx[c].kind \in OnPlan /\ tx[c].fresh =>
              /\ plan'.revision = tx[c].plan
              /\ plan'.state = tx[c].plan.state /\ plan'.terms = tx[c].plan.terms
         /\ Planned => plan'.state # Nothing
  <1> USE DEF Inv
  <1>1. /\ plan \in [state : PlanStates \cup {Nothing}, terms : TermsType,
                     revision : RevisionType]
        /\ tx[c].loaded \in RevisionType /\ tx[c].plan \in RevisionType
    BY DEF Typed, RequestType
  <1>2. tx[c].kind \in OnPlan => PlanRequest(tx[c], plan) BY DEF Request
  <1>3. ~Collides(c) /\ plan' = PlanAfter(c) BY DEF Commit
  <1>4. CASE tx[c].kind \notin OnPlan BY <1>1, <1>3, <1>4 DEF PlanAfter, OnPlan, Planned
  <1>5. CASE tx[c].kind \in OnPlan
    <2> DEFINE state == IF tx[c].plan.state = tx[c].loaded.state THEN plan.state
                        ELSE tx[c].plan.state
               terms == Write(plan.terms, tx[c].loaded.terms, tx[c].plan.terms)
    <2>1. plan' = [state |-> state, terms |-> terms, revision |-> tx[c].plan]
      BY <1>3, <1>5 DEF PlanAfter, OnPlan
    <2>2. terms \in TermsType BY <1>1, WriteTerms DEF RevisionType
    <2>3. plan.terms = tx[c].loaded.terms => terms = tx[c].plan.terms
      BY <1>1, WriteTerms DEF RevisionType
    <2>4. plan.state \in PlanStates \cup {Nothing} BY <1>1
    <2>5. /\ tx[c].kind = "decide" => state = tx[c].plan.state
          /\ tx[c].kind = "upsert" => state = IF Planned THEN plan.state ELSE "draft"
      BY <1>2, <1>3, <1>5 DEF PlanRequest, Collides, Planned, PlanStates, Nothing
    <2>6. state \in PlanStates
      BY <1>2, <1>5, <2>4, <2>5 DEF OnPlan, PlanRequest, Planned, PlanStates
    <2>7. tx[c].fresh => state = tx[c].plan.state /\ terms = tx[c].plan.terms
      BY <1>2, <1>5, <2>3 DEF PlanRequest
    <2> HIDE DEF state, terms
    <2>8. plan'.state = state /\ plan'.terms = terms /\ plan'.revision = tx[c].plan
      BY <2>1
    <2>9. plan' \in [state : PlanStates \cup {Nothing}, terms : TermsType,
                     revision : RevisionType]
      BY <1>1, <2>1, <2>2, <2>6
    <2>10. Nothing \notin PlanStates BY DEF Nothing, PlanStates
    <2> QED BY <1>5, <2>5, <2>6, <2>7, <2>8, <2>9, <2>10
  <1> QED BY <1>4, <1>5

\* What a commit makes of an attempt: it is begun once, marked, or completed.
LEMMA CommitAttempt ==
  ASSUME Inv, NEW c \in Clients, Commit(c), NEW s \in Steps, NEW k \in Keys
  PROVE  /\ attempts'[s][k] \in AttemptType
         /\ \/ attempts'[s][k] = attempts[s][k]
            \/ /\ tx[c].kind = "begin" /\ attempts[s][k] = NoAttempt
               /\ attempts'[s][k].state = IF Mode[s] = "manual_link"
                                          THEN "manual_action_required" ELSE "running"
            \/ /\ tx[c].kind = "start" /\ attempts'[s][k].state = attempts[s][k].state
               /\ attempts'[s][k].started /\ attempts[s][k].state # Nothing
            \/ /\ tx[c].kind = "complete" /\ attempts'[s][k].state = "completed"
               /\ attempts'[s][k].started = attempts[s][k].started
         /\ ~(tx[c].kind \in OnAttempt /\ tx[c].step = s /\ tx[c].key = k)
              => attempts'[s][k] = attempts[s][k]
         /\ tx[c].kind \in OnAttempt /\ tx[c].step = s /\ tx[c].key = k =>
              /\ tx[c].kind = "begin" => attempts[s][k] = NoAttempt
                                         /\ attempts'[s][k].state = IF Mode[s] = "manual_link"
                                             THEN "manual_action_required" ELSE "running"
              /\ tx[c].kind = "complete" => attempts'[s][k].state = "completed"
              /\ tx[c].kind = "start" => attempts'[s][k].state = attempts[s][k].state
  <1> USE DEF Inv
  <1>1. /\ attempts \in [Steps -> [Keys -> AttemptType]] /\ attempts[s][k] \in AttemptType
        /\ tx[c].kind \in Kinds
    BY DEF Typed, RequestType
  <1>2. /\ tx[c].kind \in OnPlan => tx[c].key = Nothing
        /\ tx[c].kind \in OnStep => tx[c].key = Nothing
        /\ tx[c].kind \in OnAttempt => tx[c].key \in Keys /\ tx[c].step \in Steps
        /\ tx[c].kind \in {"start", "complete"} =>
             attempts[tx[c].step][tx[c].key].state # Nothing
    BY DEF Request, PlanRequest, StepRequest, OnStep, OnAttempt
  <1>3. Nothing \notin Keys BY PlanAssumption DEF Nothing
  <1>4. CASE tx[c].kind \in OnAttempt
    <2>1. attempts' = [attempts EXCEPT ![tx[c].step][tx[c].key] = AttemptAfter(c)]
      BY <1>2, <1>3, <1>4 DEF Commit
    <2>2. CASE tx[c].step = s /\ tx[c].key = k
      <3>1. attempts'[s][k] = AttemptAfter(c) BY <1>1, <2>1, <2>2
      <3>2. CASE tx[c].kind = "begin"
        <4>1. attempts[s][k] = NoAttempt BY <2>2, <3>2 DEF Commit, Collides
        <4>2. AttemptAfter(c) = [state |-> IF Mode[s] = "manual_link"
                                           THEN "manual_action_required" ELSE "running",
                                 started |-> FALSE]
          BY <2>2, <3>2 DEF AttemptAfter
        <4>3. /\ AttemptAfter(c) \in AttemptType
              /\ AttemptAfter(c).state = IF Mode[s] = "manual_link"
                                         THEN "manual_action_required" ELSE "running"
          BY <4>2 DEF AttemptType, AttemptStates
        <4> HIDE DEF NoAttempt
        <4> QED BY <2>2, <3>1, <3>2, <4>1, <4>3 DEF OnAttempt
      <3>3. CASE tx[c].kind = "start"
        <4>1. AttemptAfter(c) = [attempts[s][k] EXCEPT !.started = TRUE]
          BY <2>2, <3>3 DEF AttemptAfter
        <4>2. /\ AttemptAfter(c) \in AttemptType /\ AttemptAfter(c).started
              /\ AttemptAfter(c).state = attempts[s][k].state
          BY <1>1, <4>1 DEF AttemptType
        <4> QED BY <1>2, <2>2, <3>1, <3>3, <4>2 DEF OnAttempt
      <3>4. CASE tx[c].kind = "complete"
        <4>1. AttemptAfter(c) = [attempts[s][k] EXCEPT !.state = "completed"]
          BY <2>2, <3>4 DEF AttemptAfter
        <4>2. /\ AttemptAfter(c) \in AttemptType /\ AttemptAfter(c).state = "completed"
              /\ AttemptAfter(c).started = attempts[s][k].started
          BY <1>1, <4>1 DEF AttemptType, AttemptStates
        <4> QED BY <2>2, <3>1, <3>4, <4>2 DEF OnAttempt
      <3> QED BY <1>4, <3>2, <3>3, <3>4 DEF OnAttempt
    <2>3. CASE ~(tx[c].step = s /\ tx[c].key = k)
      <3>1. attempts'[s][k] = attempts[s][k] BY <1>1, <2>1, <2>3
      <3> QED BY <1>1, <2>3, <3>1
    <2> QED BY <2>2, <2>3
  <1>5. CASE tx[c].kind \notin OnAttempt
    <2>1. tx[c].key = Nothing
      BY <1>1, <1>2, <1>5 DEF Kinds, OnPlan, OnStep, OnAttempt, Commit
    <2>2. attempts' = attempts BY <2>1 DEF Commit
    <2> QED BY <1>1, <1>5, <2>2
  <1> QED BY <1>4, <1>5

\* The other requests in flight stay well formed.
LEMMA CommitRequests ==
  ASSUME Inv, NEW c \in Clients, Commit(c), NEW d \in Clients
  PROVE  /\ tx'[d] \in RequestType
         /\ Request(tx'[d], plan', attempts', EligibleSteps')
         /\ d # c => /\ tx'[d].kind = tx[d].kind /\ tx'[d].state = tx[d].state
                     /\ tx'[d].step = tx[d].step /\ tx'[d].key = tx[d].key
         /\ d = c => tx'[d].kind = "idle"
  <1> USE DEF Inv
  <1> DEFINE kinds == {"begin"} \cup (IF plan' = plan THEN {} ELSE {"upsert", "decide"})
             b == tx[d].fresh /\ tx[d].kind \notin kinds
             y == [tx[d] EXCEPT !.fresh = b]
  <1>1. tx' = [Outdated(kinds) EXCEPT ![c] = Idle] BY DEF Commit
  <1>2. CASE d = c
    <2>1. tx'[d] = Idle BY <1>1, <1>2 DEF Outdated
    <2> QED BY <1>2, <2>1, IdleType DEF Request, OnPlan, OnStep, OnAttempt
  <1>3. CASE d # c
    <2>1. tx[d] \in RequestType BY DEF Typed
    <2>2. b \in BOOLEAN BY <2>1 DEF RequestType
    <2>3. tx'[d] = y BY <1>1, <1>3 DEF Outdated
    <2>4. /\ tx[d].kind = "begin" => ~b
          /\ tx[d].kind \in OnPlan /\ b => tx[d].fresh /\ plan' = plan
      BY DEF OnPlan
    <2>5. plan.state # Nothing => plan'.state # Nothing BY CommitPlan DEF Planned
    <2>6. ASSUME NEW s \in Steps, NEW k \in Keys, attempts[s][k].state # Nothing
          PROVE  attempts'[s][k].state # Nothing
      BY <2>6, CommitAttempt DEF NoAttempt, Nothing
    <2>7. Request(tx[d], plan, attempts, EligibleSteps) OBVIOUS
    <2>8. tx[d].kind \in OnPlan /\ tx[d].fresh =>
            tx[d].loaded.state = plan.state /\ tx[d].loaded.terms = plan.terms
      BY <2>7 DEF Request, PlanRequest
    <2> HIDE DEF b
    <2>9. Request(y, plan', attempts', EligibleSteps')
      BY <2>1, <2>2, <2>4, <2>5, <2>6, <2>7, OutdatedKept
    <2>10. /\ y \in RequestType /\ y.kind = tx[d].kind /\ y.state = tx[d].state
           /\ y.step = tx[d].step /\ y.key = tx[d].key
      BY <2>1, <2>2, MarkRequest
    <2> HIDE DEF y
    <2>11. Request(tx'[d], plan', attempts', EligibleSteps') BY <2>3, <2>9, Zenon
    <2> QED BY <1>3, <2>3, <2>10, <2>11
  <1> QED BY <1>2, <1>3

LEMMA CommitCarried ==
  ASSUME Inv, NEW c \in Clients, Commit(c), NEW s \in Steps
  PROVE  Carried(steps'[s], attempts'[s], tx', s) /\ steps'[s] \in StepStates
  <1> USE DEF Inv
  <1>1. /\ steps \in [Steps -> StepStates] /\ tx[c].state \in StepStates
        /\ tx[c].kind \in Kinds /\ Carried(steps[s], attempts[s], tx, s)
    BY DEF Typed, RequestType
  <1>2. \A k \in Keys : Quiet(tx', s, k) => \E d \in Clients :
          /\ d # c /\ tx[d].kind = "complete" /\ tx[d].state = Nothing
          /\ tx[d].step = s /\ tx[d].key = k
    BY CommitRequests DEF Quiet
  <1>3. \A k \in Keys : ~Quiet(tx, s, k) => ~Quiet(tx', s, k) BY <1>2 DEF Quiet
  <1>4. steps' = IF tx[c].state = Nothing THEN steps
                 ELSE [steps EXCEPT ![tx[c].step] = tx[c].state]
    BY DEF Commit
  <1>5. steps'[s] \in StepStates BY <1>1, <1>4
  <1>6. /\ tx[c].kind \in OnPlan => tx[c].state = Nothing
        /\ tx[c].kind \in OnStep \cup OnAttempt => StepRequest(tx[c], attempts, EligibleSteps)
        /\ tx[c].kind \in OnPlan \cup OnStep \cup OnAttempt
    BY <1>1 DEF Request, PlanRequest, Kinds, OnPlan, OnStep, OnAttempt, Commit
  <1>7. ASSUME steps'[s] = "completed"
        PROVE  \E k \in Keys : attempts'[s][k].state = "completed"
    <2>1. CASE steps[s] = "completed"
      <3>1. PICK k \in Keys : attempts[s][k].state = "completed"
        BY <1>1, <2>1 DEF Carried
      <3>2. attempts'[s][k].state = "completed"
        BY <3>1, CommitAttempt DEF NoAttempt, Nothing
      <3> QED BY <3>2
    <2>2. CASE steps[s] # "completed"
      <3>1. tx[c].step = s /\ tx[c].state = "completed" BY <1>1, <1>4, <1>7, <2>2
      <3>2. tx[c].kind = "complete" /\ tx[c].key \in Keys
        BY <1>6, <3>1 DEF StepRequest, OnStep, OnAttempt, Nothing
      <3>3. attempts'[s][tx[c].key].state = "completed"
        BY <3>1, <3>2, CommitAttempt DEF OnAttempt
      <3> QED BY <3>2, <3>3
    <2> QED BY <2>1, <2>2
  <1>8. ASSUME steps'[s] = "running"
        PROVE  \E k \in Keys : attempts'[s][k].state = "running" /\ ~Quiet(tx', s, k)
    <2>1. CASE tx[c].state = "running" /\ tx[c].step = s
      <3>1. /\ tx[c].kind = "begin" /\ tx[c].key \in Keys /\ Mode[s] # "manual_link"
        BY <1>6, <2>1 DEF StepRequest, OnStep, OnAttempt, Nothing
      <3> DEFINE k == tx[c].key
      <3>2. attempts[s][k] = NoAttempt /\ attempts'[s][k].state = "running"
        BY <2>1, <3>1, CommitAttempt DEF OnAttempt
      <3>3. ~Quiet(tx, s, k)
        <4> SUFFICES ASSUME NEW d \in Clients, tx[d].kind = "complete", tx[d].step = s,
                            tx[d].key = k
                     PROVE  FALSE
          BY DEF Quiet
        <4>1. attempts[tx[d].step][tx[d].key].state # Nothing
          BY DEF Request, StepRequest, OnAttempt
        <4> QED BY <3>2, <4>1 DEF NoAttempt
      <3> QED BY <1>3, <3>1, <3>2, <3>3
    <2>2. CASE ~(tx[c].state = "running" /\ tx[c].step = s)
      <3>1. steps[s] = "running" /\ (tx[c].step = s => tx[c].state = Nothing)
        BY <1>1, <1>4, <1>6, <1>8, <2>2 DEF StepRequest, OnStep, OnAttempt
      <3>2. PICK k \in Keys : attempts[s][k].state = "running" /\ ~Quiet(tx, s, k)
        BY <1>1, <3>1 DEF Carried
      <3>3. ~(tx[c].kind = "complete" /\ tx[c].step = s /\ tx[c].key = k)
        BY <3>1, <3>2 DEF Quiet
      <3>4. attempts'[s][k].state = "running"
        BY <3>2, <3>3, CommitAttempt DEF NoAttempt, Nothing, OnAttempt
      <3> QED BY <1>3, <3>2, <3>4
    <2> QED BY <2>1, <2>2
  <1> QED BY <1>5, <1>7, <1>8 DEF Carried

\* A decision is recorded last, with the state its request read and the one it made.
LEMMA CommitDecided ==
  ASSUME Inv, NEW c \in Clients, Commit(c)
  PROVE  /\ decisions' \in Seq(DecisionType)
         /\ tx[c].kind # "decide" => decisions' = decisions
         /\ tx[c].kind = "decide" =>
              \E d \in DecisionType : /\ decisions' = Append(decisions, d)
                                      /\ d.result = tx[c].plan.state
                                      /\ d.previous = tx[c].loaded.state
  <1> USE DEF Inv
  <1>1. decisions \in Seq(DecisionType) /\ tx[c].kind \in Kinds \ {"idle"}
    BY DEF Typed, RequestType, Commit
  <1>2. decisions' = decisions \o tx[c].decided BY DEF Commit
  <1>3. CASE tx[c].kind = "decide"
    <2>1. PICK d \in DecisionType : /\ tx[c].decided = <<d>>
                                    /\ d.result = tx[c].plan.state
                                    /\ d.previous = tx[c].loaded.state
      BY <1>3 DEF Request, PlanRequest, OnPlan
    <2>2. decisions' = Append(decisions, d) BY <1>1, <1>2, <2>1
    <2> QED BY <1>1, <1>3, <2>1, <2>2
  <1>4. CASE tx[c].kind # "decide"
    <2>1. tx[c].decided = <<>>
      BY <1>1, <1>4 DEF Request, PlanRequest, StepRequest, OnPlan, OnStep, OnAttempt, Kinds
    <2> QED BY <1>1, <1>2, <1>4, <2>1
  <1> QED BY <1>3, <1>4

\* A decision makes the state it records, and no other request moves the plan.
LEMMA CommitExplained ==
  ASSUME Inv, NEW c \in Clients, Commit(c)
  PROVE  LastExplains' /\ (~Planned => decisions = <<>>)'
  <1> USE DEF Inv
  <1>1. CASE tx[c].kind = "decide"
    <2>1. PICK d \in DecisionType : /\ decisions' = Append(decisions, d)
                                    /\ d.result = tx[c].plan.state
      BY <1>1, CommitDecided
    <2>2. decisions \in Seq(DecisionType) BY DEF Typed
    <2>3. decisions' # <<>> /\ decisions'[Len(decisions')] = d BY <2>1, <2>2
    <2>4. plan'.state = d.result /\ plan'.state \in PlanStates
      BY <1>1, <2>1, CommitPlan DEF OnPlan
    <2> QED BY <2>3, <2>4 DEF LastExplains, Planned, PlanStates, Nothing
  <1>2. CASE tx[c].kind = "upsert"
    <2>1. decisions' = decisions BY <1>2, CommitDecided
    <2>2. /\ plan'.state = IF Planned THEN plan.state ELSE "draft"
          /\ plan'.state \in PlanStates
      BY <1>2, CommitPlan DEF OnPlan
    <2> QED BY <2>1, <2>2 DEF LastExplains, Planned, PlanStates, Nothing
  <1>3. CASE tx[c].kind \notin OnPlan
    <2>1. decisions' = decisions /\ plan' = plan
      BY <1>3, CommitDecided, CommitPlan DEF OnPlan
    <2> QED BY <2>1 DEF LastExplains, Planned
  <1> QED BY <1>1, <1>2, <1>3 DEF OnPlan

\* A request that read the current plan continues the path of its decisions.
LEMMA CommitFaithful ==
  ASSUME Inv, NEW c \in Clients, Commit(c)
  PROVE  HistoryIsFaithful'
  <1> USE DEF Inv
  <1> SUFFICES ASSUME ~raced', Planned'
               PROVE  /\ \A i \in 2..Len(decisions') :
                           decisions'[i].previous = decisions'[i - 1].result
                      /\ plan'.revision.state = plan'.state
                      /\ plan'.revision.terms = plan'.terms
    BY DEF HistoryIsFaithful
  <1>1. ~raced /\ (tx[c].kind \in OnPlan => tx[c].fresh) BY DEF Commit, OnPlan
  <1>2. decisions \in Seq(DecisionType) BY DEF Typed
  <1>3. \A i \in 2..Len(decisions) : decisions[i].previous = decisions[i - 1].result
    BY <1>1, <1>2 DEF HistoryIsFaithful
  <1>4. CASE tx[c].kind \in OnPlan
    <2>1. plan'.revision.state = plan'.state /\ plan'.revision.terms = plan'.terms
      BY <1>1, <1>4, CommitPlan
    <2>2. CASE tx[c].kind = "decide"
      <3>1. PICK d \in DecisionType : /\ decisions' = Append(decisions, d)
                                      /\ d.previous = tx[c].loaded.state
        BY <2>2, CommitDecided
      <3>2. d.previous = plan.state /\ Planned
        BY <1>1, <2>2, <3>1 DEF Request, PlanRequest, OnPlan, Planned
      <3>3. decisions # <<>> => d.previous = decisions[Len(decisions)].result
        BY <3>2 DEF LastExplains
      <3>4. ASSUME NEW i \in 2..Len(decisions')
            PROVE  decisions'[i].previous = decisions'[i - 1].result
        <4>1. CASE i \in 2..Len(decisions) BY <1>2, <1>3, <3>1, <4>1
        <4>2. CASE i = Len(decisions) + 1 BY <1>2, <3>1, <3>3, <4>2
        <4> QED BY <1>2, <3>1, <4>1, <4>2
      <3> QED BY <2>1, <3>4
    <2>3. CASE tx[c].kind # "decide"
      <3>1. decisions' = decisions BY <2>3, CommitDecided
      <3> QED BY <1>3, <2>1, <3>1
    <2> QED BY <2>2, <2>3
  <1>5. CASE tx[c].kind \notin OnPlan
    <2>1. decisions' = decisions /\ plan' = plan
      BY <1>5, CommitDecided, CommitPlan DEF OnPlan
    <2> QED BY <1>1, <1>3, <2>1 DEF HistoryIsFaithful, Planned
  <1> QED BY <1>4, <1>5

LEMMA CommitStep == ASSUME Inv, NEW c \in Clients, Commit(c) PROVE Inv'
  <1> USE DEF Inv
  <1>1. Typed'
    <2>1. attempts' \in [Steps -> [Keys -> AttemptType]]
      <3>1. attempts \in [Steps -> [Keys -> AttemptType]] BY DEF Typed
      <3>2. attempts' = attempts
              \/ attempts' = [attempts EXCEPT ![tx[c].step][tx[c].key] = AttemptAfter(c)]
        BY DEF Commit
      <3>3. \A s \in Steps, k \in Keys : attempts'[s][k] \in AttemptType BY CommitAttempt
      <3> QED BY <3>1, <3>2, <3>3
    <2>2. steps' \in [Steps -> StepStates]
      <3>1. steps \in [Steps -> StepStates] BY DEF Typed
      <3>2. steps' = steps \/ steps' = [steps EXCEPT ![tx[c].step] = tx[c].state]
        BY DEF Commit
      <3>3. \A s \in Steps : steps'[s] \in StepStates BY CommitCarried
      <3> QED BY <3>1, <3>2, <3>3
    <2>3. tx' \in [Clients -> RequestType]
      <3>1. tx' = [d \in Clients |-> tx'[d]] BY DEF Commit, Outdated
      <3>2. \A d \in Clients : tx'[d] \in RequestType BY CommitRequests
      <3> QED BY <3>1, <3>2
    <2>4. raced' \in BOOLEAN
      <3>1. tx[c] \in RequestType /\ raced \in BOOLEAN BY DEF Typed
      <3>2. tx[c].fresh \in BOOLEAN BY <3>1 DEF RequestType
      <3> QED BY <3>1, <3>2 DEF Commit
    <2>5. gate' \subseteq Gated /\ now' \in 0..Horizon BY DEF Typed, Commit
    <2> QED BY <2>1, <2>2, <2>3, <2>4, <2>5, CommitPlan, CommitDecided DEF Typed
  <1>2. \A d \in Clients : Request(tx[d], plan, attempts, EligibleSteps)'
    BY CommitRequests
  <1>3. \A s \in Steps : Carried(steps[s], attempts[s], tx, s)' BY CommitCarried
  <1> QED BY <1>1, <1>2, <1>3, CommitExplained, CommitFaithful

-----------------------------------------------------------------------------
(* The invariant *)

LEMMA NextInv == Inv /\ [Next]_vars => Inv'
  <1> SUFFICES ASSUME Inv, [Next]_vars PROVE Inv' OBVIOUS
  <1>1. ASSUME NEW c \in Clients, NEW terms \in Terms, Upsert(c, terms) PROVE Inv'
    BY <1>1, UpsertStep
  <1>2. ASSUME NEW c \in Clients, NEW type \in DecisionTypes, NEW reason \in Reasons,
               Decide(c, type, reason)
        PROVE  Inv'
    BY <1>2, DecideStep
  <1>3. ASSUME NEW c \in Clients, NEW s \in Steps, CreateStep(c, s) \/ EvaluateStep(c, s)
        PROVE  Inv'
    BY <1>3, StepRequests
  <1>4. ASSUME NEW c \in Clients, NEW s \in Steps, NEW k \in Keys,
               CreateAttempt(c, s, k) \/ MarkStarted(c, s, k) \/ CompleteAttempt(c, s, k)
        PROVE  Inv'
    BY <1>4, AttemptRequests
  <1>5. ASSUME NEW c \in Clients, Commit(c) PROVE Inv' BY <1>5, CommitStep
  <1>6. ASSUME NEW c \in Clients, Rollback(c) PROVE Inv' BY <1>6, RollbackStep
  <1>7. ASSUME NEW s \in Steps, SourceChanges(s) PROVE Inv'
    <2>1. gate' \subseteq Gated /\ now' \in 0..Horizon
      BY <1>7 DEF SourceChanges, Sourced, Inv, Typed
    <2> QED BY <1>7, <2>1, EnvironmentStep DEF SourceChanges
  <1>8. CASE Tick
    <2>1. gate' \subseteq Gated /\ now' \in 0..Horizon
      BY <1>8, PlanAssumption DEF Tick, Inv, Typed
    <2> QED BY <1>8, <2>1, EnvironmentStep DEF Tick
  <1>9. CASE UNCHANGED vars
    <2>1. UNCHANGED Rows /\ UNCHANGED tx BY <1>9 DEF vars, Rows
    <2>2. EligibleSteps' = EligibleSteps BY <2>1, EligibleKept DEF Rows
    <2> QED BY <2>1, <2>2
            DEF Inv, Typed, Rows, Planned, LastExplains, HistoryIsFaithful
  <1> QED BY <1>1, <1>2, <1>3, <1>4, <1>5, <1>6, <1>7, <1>8, <1>9 DEF Next, NewRequest

LEMMA Invariance == Spec => []Inv
  BY InitInv, NextInv, PTL DEF Spec

-----------------------------------------------------------------------------
(* Theorems *)

\* Every row and request in flight has its type: whatever overlaps, the rows
\* hold no state that the enumerations of the code do not name.
THEOREM TypeCorrect == Spec => []TypeOK
  <1>1. Inv => TypeOK
    <2> SUFFICES ASSUME Inv PROVE TypeOK OBVIOUS
    <2>1. Typed BY DEF Inv
    <2>2. \A i \in 1..Len(decisions) :
            {decisions[i].previous, decisions[i].result} \subseteq PlanStates
      <3>1. \A i \in 1..Len(decisions) : decisions[i] \in DecisionType
        BY <2>1 DEF Typed
      <3> QED BY <3>1 DEF DecisionType
    <2>3. \A c \in Clients : /\ tx[c].step \in Steps \cup {Nothing}
                             /\ tx[c].state \in StepStates
                             /\ tx[c].key \in Keys \cup {Nothing}
      BY <2>1 DEF Typed, RequestType
    <2> QED BY <2>1, <2>2, <2>3 DEF TypeOK, Typed, AttemptType
  <1> QED BY <1>1, Invariance, PTL

\* The times of the decisions: none lies ahead of the clock, and until a request
\* races, the last one recorded is the newest and a request that is still fresh
\* brings a newer one.
Timely ==
  /\ \A i \in 1..Len(decisions) : decisions[i].at <= now
  /\ \A c \in Clients : tx[c].kind = "decide" => tx[c].decided[1].at <= now
  /\ ~raced => /\ decisions # <<>> => Newest(Len(decisions))
               /\ \A c \in Clients : tx[c].kind = "decide" /\ tx[c].fresh =>
                    \A i \in 1..Len(decisions) : decisions[i].at <= tx[c].decided[1].at

\* The requests in flight are the ones there were, at most outdated or ended.
Fewer == \A c \in Clients : tx'[c].kind = "decide" =>
           /\ tx[c].kind = "decide" /\ tx'[c].decided = tx[c].decided
           /\ tx'[c].fresh => tx[c].fresh

LEMMA TimelyKept ==
  ASSUME Inv, Timely, UNCHANGED <<decisions, raced>>, now' \in {now, now + 1}, Fewer
  PROVE  Timely'
  <1>1. now \in Nat /\ now <= now' BY PlanAssumption DEF Inv, Typed
  <1>2. \A i \in 1..Len(decisions) : decisions[i].at \in Nat
    <2>1. decisions \in Seq(DecisionType) BY DEF Inv, Typed
    <2>2. \A i \in 1..Len(decisions) : decisions[i] \in DecisionType BY <2>1
    <2> QED BY <2>2 DEF DecisionType
  <1>3. \A c \in Clients : tx[c].kind = "decide" => tx[c].decided[1].at \in Nat
    BY DEF Inv, Request, PlanRequest, OnPlan, DecisionType
  <1>4. \A i \in 1..Len(decisions') : decisions'[i].at <= now'
    BY <1>1, <1>2 DEF Timely
  <1>5. ASSUME NEW c \in Clients, tx'[c].kind = "decide" PROVE tx'[c].decided[1].at <= now'
    BY <1>1, <1>3, <1>5 DEF Timely, Fewer
  <1>6. ~raced' => /\ decisions' # <<>> => Newest(Len(decisions))'
                   /\ \A c \in Clients : tx'[c].kind = "decide" /\ tx'[c].fresh =>
                        \A i \in 1..Len(decisions') :
                          decisions'[i].at <= tx'[c].decided[1].at
    BY DEF Timely, Fewer, Newest
  <1> QED BY <1>4, <1>5, <1>6 DEF Timely

\* A request that begins takes the time there is.
LEMMA TimelyOpens ==
  ASSUME Inv, Timely, NEW c \in Clients, NEW x, Opens(c, x),
         x.kind = "decide" => x.decided[1].at = now
  PROVE  Timely'
  <1>1. tx \in [Clients -> RequestType] /\ now \in Nat
    BY PlanAssumption DEF Inv, Typed
  <1>2. UNCHANGED <<decisions, raced, now>> /\ tx' = [tx EXCEPT ![c] = x] BY DEF Opens
  <1>3. tx'[c] = x /\ \A d \in Clients : d # c => tx'[d] = tx[d] BY <1>1, <1>2
  <1>4. \A i \in 1..Len(decisions) : decisions[i].at <= now BY DEF Timely
  <1>5. ASSUME NEW d \in Clients, tx'[d].kind = "decide"
        PROVE  /\ tx'[d].decided[1].at <= now
               /\ ~raced /\ tx'[d].fresh =>
                    \A i \in 1..Len(decisions) : decisions[i].at <= tx'[d].decided[1].at
    <2>1. CASE d = c BY <1>1, <1>3, <1>4, <1>5, <2>1
    <2>2. CASE d # c BY <1>3, <1>5, <2>2 DEF Timely
    <2> QED BY <2>1, <2>2
  <1>6. ~raced /\ decisions # <<>> => Newest(Len(decisions))' BY <1>2 DEF Timely, Newest
  <1> QED BY <1>2, <1>4, <1>5, <1>6 DEF Timely

\* A decision that commits is the newest unless its request raced, and puts the
\* other requests on the plan out of date.
LEMMA TimelyCommit ==
  ASSUME Inv, Timely, NEW c \in Clients, Commit(c)
  PROVE  Timely'
  <1>1. /\ tx \in [Clients -> RequestType] /\ decisions \in Seq(DecisionType) /\ now \in Nat
    BY PlanAssumption DEF Inv, Typed
  <1>2. PICK kinds : /\ tx' = [Outdated(kinds) EXCEPT ![c] = Idle]
                     /\ plan' # plan => "decide" \in kinds
    BY DEF Commit
  <1>3. Fewer
    <2> SUFFICES ASSUME NEW d \in Clients, tx'[d].kind = "decide"
                 PROVE  /\ tx[d].kind = "decide" /\ tx'[d].decided = tx[d].decided
                        /\ tx'[d].fresh => tx[d].fresh
      BY DEF Fewer
    <2>1. d # c BY <1>2, IdleType DEF Outdated
    <2>2. tx'[d] = [tx[d] EXCEPT !.fresh = @ /\ tx[d].kind \notin kinds]
      BY <1>2, <2>1 DEF Outdated
    <2>3. tx[d] \in RequestType BY <1>1
    <2> QED BY <2>2, <2>3 DEF RequestType
  <1>4. now' = now BY DEF Commit
  <1>5. CASE tx[c].kind = "decide"
    <2>1. PICK d \in DecisionType : tx[c].decided = <<d>> /\ d.result = tx[c].plan.state
      BY <1>5 DEF Inv, Request, PlanRequest, OnPlan
    <2>2. decisions' = Append(decisions, d) BY <1>1, <2>1 DEF Commit
    <2>3. d.at <= now /\ \A i \in 1..Len(decisions) : decisions[i].at <= now
      BY <1>5, <2>1 DEF Timely
    <2>4. \A i \in 1..Len(decisions') : decisions'[i].at <= now'
      BY <1>1, <1>4, <2>2, <2>3
    <2>5. \A e \in Clients : tx'[e].kind = "decide" => tx'[e].decided[1].at <= now'
      BY <1>3, <1>4 DEF Timely, Fewer
    <2>6. ASSUME ~raced'
          PROVE  /\ Newest(Len(decisions))'
                 /\ \A e \in Clients : ~(tx'[e].kind = "decide" /\ tx'[e].fresh)
      <3>1. ~raced /\ tx[c].fresh BY <1>5, <2>6 DEF Commit
      <3>2. \A i \in 1..Len(decisions) : decisions[i].at <= d.at
        BY <1>5, <2>1, <3>1 DEF Timely
      <3>3. d.at \in Nat BY DEF DecisionType
      <3>4. Newest(Len(decisions))' BY <1>1, <2>2, <3>2, <3>3 DEF Newest
      <3>5. plan'.state = d.result /\ plan.state # d.result
        BY <1>5, <2>1, <3>1, CommitPlan DEF Inv, Request, PlanRequest, OnPlan
      <3>6. "decide" \in kinds BY <1>2, <3>5
      <3>7. ASSUME NEW e \in Clients, tx'[e].kind = "decide" PROVE ~tx'[e].fresh
        <4>1. e # c BY <1>2, <3>7, IdleType DEF Outdated
        <4>2. tx'[e] = [tx[e] EXCEPT !.fresh = @ /\ tx[e].kind \notin kinds]
          BY <1>2, <4>1 DEF Outdated
        <4>3. tx[e].kind = "decide" BY <1>3, <3>7 DEF Fewer
        <4>4. tx[e] \in RequestType BY <1>1
        <4> QED BY <3>6, <4>2, <4>3, <4>4 DEF RequestType
      <3> QED BY <3>4, <3>7
    <2> QED BY <2>4, <2>5, <2>6 DEF Timely
  <1>6. CASE tx[c].kind # "decide"
    <2>1. decisions' = decisions BY <1>6, CommitDecided
    <2>2. CASE raced' = raced BY <1>3, <1>4, <2>1, <2>2, TimelyKept
    <2>3. CASE raced' # raced
      <3>1. raced' BY <2>3 DEF Commit, Inv, Typed
      <3>2. \A e \in Clients : tx'[e].kind = "decide" => tx'[e].decided[1].at <= now'
        BY <1>3, <1>4 DEF Timely, Fewer
      <3> QED BY <1>4, <2>1, <3>1, <3>2 DEF Timely
    <2> QED BY <2>2, <2>3
  <1> QED BY <1>5, <1>6

LEMMA TimelyNext == Inv /\ Timely /\ [Next]_vars => Timely'
  <1> SUFFICES ASSUME Inv, Timely, [Next]_vars PROVE Timely' OBVIOUS
  <1>0. tx \in [Clients -> RequestType] BY DEF Inv, Typed
  <1>1. ASSUME NEW c \in Clients, NEW terms \in Terms, Upsert(c, terms) PROVE Timely'
    <2> DEFINE x == [Idle EXCEPT !.kind = "upsert", !.loaded = Loaded,
                       !.plan = RevisionOf(IF Planned THEN plan.state ELSE "draft",
                                           terms, FALSE)]
    <2>1. Opens(c, x) BY <1>1 DEF Upsert
    <2>2. x.kind = "upsert" BY DEF Idle
    <2> QED BY <2>1, <2>2, TimelyOpens
  <1>2. ASSUME NEW c \in Clients, NEW type \in DecisionTypes, NEW reason \in Reasons,
               Decide(c, type, reason)
        PROVE  Timely'
    <2> DEFINE x == [Idle EXCEPT !.kind = "decide", !.loaded = Loaded,
                       !.plan = RevisionOf(Target(type), plan.terms, TRUE),
                       !.decided = <<[type |-> type, reason |-> reason,
                                      previous |-> plan.state, result |-> Target(type),
                                      at |-> now]>>]
    <2>1. Opens(c, x) BY <1>2 DEF Decide
    <2>2. x.decided[1].at = now BY DEF Idle
    <2> QED BY <2>1, <2>2, TimelyOpens
  <1>3. ASSUME NEW c \in Clients, NEW s, NEW k, NEW state,
               NEW kind \in OnStep \cup OnAttempt, Opens(c, OfStep(kind, s, k, state))
        PROVE  Timely'
    <2>1. OfStep(kind, s, k, state).kind = kind BY DEF OfStep, Idle
    <2> QED BY <1>3, <2>1, TimelyOpens DEF OnStep, OnAttempt
  <1>4. ASSUME NEW c \in Clients, NEW s \in Steps, CreateStep(c, s) \/ EvaluateStep(c, s)
        PROVE  Timely'
    BY <1>3, <1>4 DEF CreateStep, EvaluateStep, OnStep
  <1>5. ASSUME NEW c \in Clients, NEW s \in Steps, NEW k \in Keys,
               CreateAttempt(c, s, k) \/ MarkStarted(c, s, k) \/ CompleteAttempt(c, s, k)
        PROVE  Timely'
    BY <1>3, <1>5 DEF CreateAttempt, MarkStarted, CompleteAttempt, OnStep, OnAttempt
  <1>6. ASSUME NEW c \in Clients, Rollback(c) PROVE Timely'
    <2>1. /\ tx' = [tx EXCEPT ![c] = Idle] /\ UNCHANGED <<decisions, raced, now>>
      BY <1>6 DEF Rollback
    <2>2. Fewer BY <1>0, <2>1, IdleType DEF Fewer
    <2> QED BY <2>1, <2>2, TimelyKept
  <1>7. ASSUME Tick \/ \E s \in Steps : SourceChanges(s) PROVE Timely'
    <2>1. /\ tx' = Outdated({"begin"}) /\ UNCHANGED <<decisions, raced>>
          /\ now' \in {now, now + 1}
      BY <1>7 DEF Tick, SourceChanges
    <2>2. Fewer
      <3> SUFFICES ASSUME NEW d \in Clients
                   PROVE  /\ tx'[d].kind = tx[d].kind /\ tx'[d].decided = tx[d].decided
                          /\ tx'[d].fresh => tx[d].fresh
        BY DEF Fewer
      <3>1. tx[d] \in RequestType BY <1>0
      <3>2. tx'[d] = [tx[d] EXCEPT !.fresh = @ /\ tx[d].kind \notin {"begin"}]
        BY <2>1 DEF Outdated
      <3> QED BY <3>1, <3>2 DEF RequestType
    <2> QED BY <2>1, <2>2, TimelyKept
  <1>8. CASE UNCHANGED vars
    <2>1. UNCHANGED <<decisions, raced, now, tx>> BY <1>8 DEF vars
    <2> QED BY <2>1, TimelyKept DEF Fewer
  <1> QED BY <1>1, <1>2, <1>4, <1>5, <1>6, <1>7, <1>8, TimelyCommit DEF Next, NewRequest

\* The recorded decisions explain the state of the plan: whatever overlaps, some
\* decision made it, and while no request has written over a plan it had not
\* read, one that no other is listed before did.
THEOREM DecisionsExplain == Spec => []DecisionsExplainState
  <1>1. Init => Timely BY IdleType DEF Init, Timely
  <1>2. Inv /\ Timely => DecisionsExplainState
    <2> SUFFICES ASSUME Inv, Timely, Planned, decisions # <<>>
                 PROVE  \E i \in 1..Len(decisions) : /\ decisions[i].result = plan.state
                                                     /\ raced \/ Newest(i)
      BY DEF DecisionsExplainState, Inv, LastExplains
    <2>1. decisions \in Seq(DecisionType) BY DEF Inv, Typed
    <2>2. Len(decisions) \in 1..Len(decisions) BY <2>1
    <2>3. decisions[Len(decisions)].result = plan.state BY DEF Inv, LastExplains
    <2>4. raced \/ Newest(Len(decisions)) BY DEF Timely
    <2> QED BY <2>2, <2>3, <2>4
  <1> QED BY <1>1, <1>2, TimelyNext, Invariance, PTL DEF Spec

\* Until a request writes over a plan it had not read, the decisions form one
\* path and the current revision is the plan.
THEOREM SerialHistory == Spec => []HistoryIsFaithful
  <1>1. Inv => HistoryIsFaithful BY DEF Inv
  <1> QED BY <1>1, Invariance, PTL

\* The state of a step is vouched for by an attempt of it: completing one of two
\* attempts, in either order of the commits, leaves no step running without one.
THEOREM StepsVouchedFor == Spec => []StepsReflectAttempts
  <1>1. Inv => StepsReflectAttempts BY DEF Inv, Carried, StepsReflectAttempts
  <1> QED BY <1>1, Invariance, PTL

\* A request that read a final plan is refused, so only one that raced moves it.
THEOREM FinalStaysFinal == Spec => TerminalIsFinal
  <1> DEFINE Final == ~raced' /\ plan.state \in TerminalStates => plan' = plan
  <1>1. Inv /\ [Next]_vars => Final
    <2> SUFFICES ASSUME Inv, [Next]_vars, ~raced', plan.state \in TerminalStates
                 PROVE  plan' = plan
      OBVIOUS
    <2>1. CASE \E c \in Clients : Commit(c)
      <3>1. PICK c \in Clients : Commit(c) BY <2>1
      <3>2. tx[c].kind \in OnPlan => tx[c].fresh BY <3>1 DEF Commit, OnPlan
      <3>3. tx[c].kind \notin OnPlan
        BY <3>2 DEF Inv, Request, PlanRequest
      <3> QED BY <3>1, <3>3, CommitPlan
    <2>2. CASE ~\E c \in Clients : Commit(c)
      BY <2>2 DEF Next, NewRequest, vars, Upsert, Decide, CreateStep, EvaluateStep, CreateAttempt,
                  MarkStarted, CompleteAttempt, Opens, Rollback, SourceChanges, Tick
    <2> QED BY <2>1, <2>2
  <1>2. Inv /\ [Next]_vars => [Final]_vars BY <1>1
  <1> QED BY <1>2, Invariance, PTL DEF Spec, TerminalIsFinal

\* The evaluation that precedes an attempt still holds when the attempt is
\* recorded, unless something of what it read has changed in between.
THEOREM AuthorizedAttempts == Spec => AttemptsAreAuthorized
  <1> DEFINE Authorized == \A c \in Clients, s \in Steps, k \in Keys :
               /\ attempts[s][k] = NoAttempt /\ attempts'[s][k] # NoAttempt
               /\ tx[c].fresh /\ Commit(c)
               => Eligible(s)
  <1>1. Inv => Authorized
    <2> SUFFICES ASSUME Inv, NEW c \in Clients, NEW s \in Steps, NEW k \in Keys,
                        Commit(c), tx[c].fresh,
                        attempts[s][k] = NoAttempt, attempts'[s][k] # NoAttempt
                 PROVE  Eligible(s)
      OBVIOUS
    <2>1. /\ tx[c].kind \in OnAttempt /\ tx[c].step = s /\ tx[c].key = k
      BY CommitAttempt
    <2>2. StepRequest(tx[c], attempts, EligibleSteps) BY <2>1 DEF Inv, Request
    <2>3. tx[c].kind = "begin"
      BY <2>1, <2>2 DEF StepRequest, OnAttempt, NoAttempt
    <2> QED BY <2>1, <2>2, <2>3 DEF StepRequest, EligibleSteps
  <1>2. Inv /\ [Next]_vars => [Authorized]_vars BY <1>1
  <1> QED BY <1>2, Invariance, PTL DEF Spec, AttemptsAreAuthorized

\* However many requests ask for one attempt, it is begun once, and nothing
\* undoes that its call was made or that it was completed.
THEOREM PermanentAttempts == Spec => AttemptsArePermanent
  <1> DEFINE Permanent == \A s \in Steps, k \in Keys :
               /\ attempts[s][k] # NoAttempt => attempts'[s][k] # NoAttempt
               /\ attempts[s][k].started => attempts'[s][k].started
               /\ attempts[s][k].state = "completed" => attempts'[s][k].state = "completed"
  <1>1. Inv /\ [Next]_vars => Permanent
    <2> SUFFICES ASSUME Inv, [Next]_vars PROVE Permanent OBVIOUS
    <2>1. CASE \E c \in Clients : Commit(c)
      <3>1. PICK c \in Clients : Commit(c) BY <2>1
      <3> SUFFICES ASSUME NEW s \in Steps, NEW k \in Keys
                   PROVE  /\ attempts[s][k] # NoAttempt => attempts'[s][k] # NoAttempt
                          /\ attempts[s][k].started => attempts'[s][k].started
                          /\ attempts[s][k].state = "completed"
                               => attempts'[s][k].state = "completed"
        OBVIOUS
      <3>2. NoAttempt.state = Nothing /\ ~NoAttempt.started BY DEF NoAttempt
      <3>3. Nothing \notin {"running", "manual_action_required", "completed"} BY DEF Nothing
      <3> QED BY <3>1, <3>2, <3>3, CommitAttempt
    <2>2. CASE ~\E c \in Clients : Commit(c)
      <3>1. attempts' = attempts
        BY <2>2 DEF Next, NewRequest, vars, Upsert, Decide, CreateStep, EvaluateStep, CreateAttempt,
                    MarkStarted, CompleteAttempt, Opens, Rollback, SourceChanges, Tick
      <3> QED BY <3>1
    <2> QED BY <2>1, <2>2
  <1>2. Inv /\ [Next]_vars => [Permanent]_vars BY <1>1
  <1> QED BY <1>2, Invariance, PTL DEF Spec, AttemptsArePermanent

-----------------------------------------------------------------------------
(* What the budget of completed steps rests on *)

\* A step whose completion was recorded is recorded as something else.
Reopens(s) == steps[s] = "completed" /\ steps'[s] # "completed"

\* Only the commit of a request that evaluated the step reopens it.
OnlyEvaluationsReopen ==
  [][\A s \in Steps :
       Reopens(s) => \E c \in Clients : /\ Commit(c) /\ tx[c].step = s
                                       /\ tx[c].kind \in {"evaluate", "begin"}]_vars

\* Rows of steps and attempts change when a request commits.
LEMMA OnlyCommitsWrite ==
  ASSUME [Next]_vars, ~\E c \in Clients : Commit(c)
  PROVE  UNCHANGED <<steps, attempts>>
  BY DEF Next, NewRequest, vars, Upsert, Decide, CreateStep, EvaluateStep, CreateAttempt,
         MarkStarted, CompleteAttempt, Opens, Rollback, SourceChanges, Tick

\* The budget counts completed steps by their current state: a plan gets a
\* completed step back through evaluate_and_persist_step_decision alone, be it
\* the evaluation an operator asks for or the one that precedes an attempt. No
\* decision, revision, start or completion does it, whatever overlaps.
THEOREM EvaluationsReopen == Spec => OnlyEvaluationsReopen
  <1> DEFINE Reopened == \A s \in Steps :
               Reopens(s) => \E c \in Clients : /\ Commit(c) /\ tx[c].step = s
                                               /\ tx[c].kind \in {"evaluate", "begin"}
  <1>1. Inv /\ [Next]_vars => Reopened
    <2> SUFFICES ASSUME Inv, [Next]_vars, NEW s \in Steps, Reopens(s)
                 PROVE  \E c \in Clients : /\ Commit(c) /\ tx[c].step = s
                                           /\ tx[c].kind \in {"evaluate", "begin"}
      OBVIOUS
    <2>1. PICK c \in Clients : Commit(c) BY OnlyCommitsWrite DEF Reopens
    <2>2. steps \in [Steps -> StepStates] /\ tx[c] \in RequestType BY DEF Inv, Typed
    <2>3. tx[c].state # Nothing /\ tx[c].step = s /\ tx[c].state # "completed"
      BY <2>1, <2>2 DEF Commit, Reopens
    <2>4. Request(tx[c], plan, attempts, EligibleSteps) BY DEF Inv
    <2>5. tx[c].kind \notin OnPlan \cup {"idle"}
      BY <2>1, <2>3, <2>4 DEF Request, PlanRequest, Commit
    <2>6. tx[c].kind \in OnStep \cup OnAttempt
      BY <2>2, <2>5 DEF RequestType, Kinds, OnPlan, OnStep, OnAttempt
    <2>7. tx[c].kind \notin {"start", "complete"}
      BY <2>3, <2>4, <2>6 DEF Request, StepRequest
    <2>8. tx[c].kind # "step"
      BY <2>1, <2>3 DEF Commit, Collides, Reopens, Nothing
    <2> QED BY <2>1, <2>3, <2>6, <2>7, <2>8 DEF OnStep, OnAttempt
  <1>2. Inv /\ [Next]_vars => [Reopened]_vars BY <1>1
  <1> QED BY <1>2, Invariance, PTL DEF Spec, OnlyEvaluationsReopen

\* A completion that leaves the step alone found an attempt of it completed.
Vouched == \A c \in Clients :
             tx[c].kind = "complete" /\ tx[c].state = Nothing => tx[c].step \in Attempted

\* An attempted step stays one.
LEMMA AttemptedGrows == Inv /\ [Next]_vars => Attempted \subseteq Attempted'
  <1> SUFFICES ASSUME Inv, [Next]_vars, NEW s \in Steps, NEW k \in Keys,
                      attempts[s][k].state = "completed"
               PROVE  attempts'[s][k].state = "completed"
    BY DEF Attempted
  <1>1. ASSUME NEW c \in Clients, Commit(c) PROVE attempts'[s][k].state = "completed"
    <2>1. NoAttempt.state = Nothing /\ Nothing # "completed" BY DEF NoAttempt, Nothing
    <2> QED BY <1>1, <2>1, CommitAttempt
  <1> QED BY <1>1, OnlyCommitsWrite

\* The rows a completion vouches by are kept.
LEMMA VouchedNext == Inv /\ Vouched /\ [Next]_vars => Vouched'
  <1> SUFFICES ASSUME Inv, Vouched, [Next]_vars, NEW c \in Clients,
                      tx'[c].kind = "complete", tx'[c].state = Nothing
               PROVE  tx'[c].step \in Attempted'
    BY DEF Vouched
  <1>0. tx \in [Clients -> RequestType] BY DEF Inv, Typed
  <1>1. Idle.kind = "idle" BY IdleType
  <1>2. ASSUME tx'[c].kind = tx[c].kind, tx'[c].state = tx[c].state, tx'[c].step = tx[c].step
        PROVE  tx'[c].step \in Attempted'
    BY <1>2, AttemptedGrows DEF Vouched
  <1>3. ASSUME NEW d \in Clients, NEW x, Opens(d, x), x.kind # "complete"
        PROVE  tx'[c].step \in Attempted'
    <2>1. tx' = [tx EXCEPT ![d] = x] BY <1>3 DEF Opens
    <2>2. c # d BY <1>0, <1>3, <2>1
    <2>3. tx'[c] = tx[c] BY <1>0, <2>1, <2>2
    <2> QED BY <1>2, <2>3
  <1>4. ASSUME NEW d \in Clients, NEW s \in Steps, NEW k \in Keys, CompleteAttempt(d, s, k)
        PROVE  tx'[c].step \in Attempted'
    <2> DEFINE x == OfStep("complete", s, k, Changed(steps[s], "completed"))
    <2>1. tx' = [tx EXCEPT ![d] = x] BY <1>4 DEF CompleteAttempt, Opens
    <2>2. CASE c = d
      <3>1. tx'[c] = x BY <1>0, <2>1, <2>2
      <3>2. x.step = s /\ x.state = Changed(steps[s], "completed") BY DEF OfStep, Idle
      <3>3. steps[s] = "completed" BY <3>1, <3>2 DEF Changed, Nothing
      <3>4. s \in Attempted BY <3>3 DEF Inv, Carried, Attempted
      <3> QED BY <3>1, <3>2, <3>4, AttemptedGrows
    <2>3. CASE c # d
      <3>1. tx'[c] = tx[c] BY <1>0, <2>1, <2>3
      <3> QED BY <1>2, <3>1
    <2> QED BY <2>2, <2>3
  <1>5. ASSUME NEW d \in Clients, NEW s \in Steps, NEW k \in Keys \cup {Nothing}, NEW kind,
               NEW state, Opens(d, OfStep(kind, s, k, state)), kind # "complete"
        PROVE  tx'[c].step \in Attempted'
    <2>1. OfStep(kind, s, k, state).kind = kind BY DEF OfStep, Idle
    <2> QED BY <1>3, <1>5, <2>1
  <1>6. ASSUME NEW d \in Clients, NEW terms \in Terms, Upsert(d, terms)
        PROVE  tx'[c].step \in Attempted'
    <2> DEFINE x == [Idle EXCEPT !.kind = "upsert", !.loaded = Loaded,
                       !.plan = RevisionOf(IF Planned THEN plan.state ELSE "draft",
                                           terms, FALSE)]
    <2>1. Opens(d, x) BY <1>6 DEF Upsert
    <2>2. x.kind = "upsert" BY DEF Idle
    <2> QED BY <1>3, <2>1, <2>2
  <1>7. ASSUME NEW d \in Clients, NEW type \in DecisionTypes, NEW reason \in Reasons,
               Decide(d, type, reason)
        PROVE  tx'[c].step \in Attempted'
    <2> DEFINE x == [Idle EXCEPT !.kind = "decide", !.loaded = Loaded,
                       !.plan = RevisionOf(Target(type), plan.terms, TRUE),
                       !.decided = <<[type |-> type, reason |-> reason,
                                      previous |-> plan.state, result |-> Target(type),
                                      at |-> now]>>]
    <2>1. Opens(d, x) BY <1>7 DEF Decide
    <2>2. x.kind = "decide" BY DEF Idle
    <2> QED BY <1>3, <2>1, <2>2
  <1>8. ASSUME NEW d \in Clients, NEW s \in Steps, CreateStep(d, s) \/ EvaluateStep(d, s)
        PROVE  tx'[c].step \in Attempted'
    BY <1>5, <1>8 DEF CreateStep, EvaluateStep
  <1>9. ASSUME NEW d \in Clients, NEW s \in Steps, NEW k \in Keys,
               CreateAttempt(d, s, k) \/ MarkStarted(d, s, k)
        PROVE  tx'[c].step \in Attempted'
    BY <1>5, <1>9 DEF CreateAttempt, MarkStarted
  <1>10. ASSUME NEW kinds, tx' = Outdated(kinds) PROVE tx'[c].step \in Attempted'
    BY <1>0, <1>2, <1>10 DEF Outdated, RequestType
  <1>11. ASSUME NEW d \in Clients, Commit(d) PROVE tx'[c].step \in Attempted'
    <2>1. PICK kinds : tx' = [Outdated(kinds) EXCEPT ![d] = Idle] BY <1>11 DEF Commit
    <2>2. c # d BY <1>1, <2>1 DEF Outdated
    <2>3. tx'[c] = [tx[c] EXCEPT !.fresh = @ /\ tx[c].kind \notin kinds]
      BY <2>1, <2>2 DEF Outdated
    <2> QED BY <1>0, <1>2, <2>3 DEF RequestType
  <1>12. ASSUME NEW d \in Clients, Rollback(d) PROVE tx'[c].step \in Attempted'
    <2>1. tx' = [tx EXCEPT ![d] = Idle] BY <1>12 DEF Rollback
    <2>2. c # d BY <1>0, <1>1, <2>1
    <2> QED BY <1>0, <1>2, <2>1, <2>2
  <1>13. ASSUME Tick \/ \E s \in Steps : SourceChanges(s) PROVE tx'[c].step \in Attempted'
    BY <1>10, <1>13 DEF Tick, SourceChanges
  <1>14. CASE UNCHANGED vars
    BY <1>2, <1>14 DEF vars
  <1> QED
    BY <1>4, <1>6, <1>7, <1>8, <1>9, <1>11, <1>12, <1>13, <1>14 DEF Next, NewRequest

\* While no step is reopened, every attempted step is counted as completed.
LEMMA AttemptedAreCounted ==
  ASSUME Inv, Vouched, [Next]_vars, Attempted \subseteq CompletedSteps,
         ~\E s \in Steps : Reopens(s)
  PROVE  (Attempted \subseteq CompletedSteps)'
  <1> SUFFICES ASSUME NEW s \in Steps, NEW k \in Keys, attempts'[s][k].state = "completed"
               PROVE  steps'[s] = "completed"
    BY DEF Attempted, CompletedSteps
  <1>1. CASE s \in Attempted
    BY <1>1 DEF CompletedSteps, Reopens
  <1>2. CASE s \notin Attempted
    <2>1. attempts[s][k].state # "completed" BY <1>2 DEF Attempted
    <2>2. PICK c \in Clients : Commit(c) BY <2>1, OnlyCommitsWrite
    <2>3. /\ tx[c].kind \in OnAttempt /\ tx[c].step = s /\ tx[c].key = k
      BY <2>1, <2>2, CommitAttempt
    <2>4. tx[c].kind = "complete"
      BY <2>1, <2>2, <2>3, CommitAttempt DEF OnAttempt
    <2>5. tx[c].state # Nothing BY <1>2, <2>3, <2>4 DEF Vouched
    <2>6. StepRequest(tx[c], attempts, EligibleSteps) BY <2>3 DEF Inv, Request
    <2>7. tx[c].state = "completed" BY <2>4, <2>5, <2>6 DEF StepRequest
    <2>8. steps \in [Steps -> StepStates] BY DEF Inv, Typed
    <2> QED BY <2>2, <2>3, <2>5, <2>7, <2>8 DEF Commit
  <1> QED BY <1>1, <1>2

\* Reopening is the only hole in the budget of steps: as long as no completed
\* step is evaluated again, no attempt that meets no other request begins once
\* as many steps were attempted to the end as the terms allow.
THEOREM BudgetHolds ==
  Spec /\ [][~\E s \in Steps : Reopens(s)]_vars => BudgetFailsClosed
  <1> DEFINE Reopening == \E s \in Steps : Reopens(s)
             Counted == Attempted \subseteq CompletedSteps
             Within == \A c \in Clients :
                         Commit(c) /\ tx[c].kind = "begin" /\ tx[c].fresh
                           => Cardinality(Attempted) < plan.terms.maxSteps
  <1>1. Init => Vouched /\ Counted
    BY IdleType DEF Init, Vouched, Attempted, NoAttempt, Nothing
  <1>2. Inv /\ Vouched /\ [Next]_vars => Vouched'
    BY VouchedNext
  <1>3. Inv /\ Vouched /\ Counted /\ [Next]_vars /\ [~Reopening]_vars => Counted'
    <2> SUFFICES ASSUME Inv, Vouched, Counted, [Next]_vars, [~Reopening]_vars PROVE Counted'
      OBVIOUS
    <2>1. ~Reopening BY DEF vars, Reopens
    <2> HIDE DEF Counted
    <2>2. Attempted \subseteq CompletedSteps BY DEF Counted
    <2> QED BY <2>1, <2>2, AttemptedAreCounted DEF Counted
  <1>4. Inv /\ Counted => Within
    <2> SUFFICES ASSUME Inv, Counted, NEW c \in Clients, tx[c].kind = "begin", tx[c].fresh
                 PROVE  Cardinality(Attempted) < plan.terms.maxSteps
      OBVIOUS
    <2>1. StepRequest(tx[c], attempts, EligibleSteps) BY DEF Inv, Request, OnAttempt
    <2>2. Eligible(tx[c].step) BY <2>1 DEF StepRequest, EligibleSteps
    <2>3. Cardinality(CompletedSteps) < plan.terms.maxSteps
      BY <2>2 DEF Eligible, BudgetAllows
    <2>4. CompletedSteps \subseteq Attempted
      BY DEF Inv, Carried, CompletedSteps, Attempted
    <2>5. CompletedSteps = Attempted BY <2>4
    <2> QED BY <2>3, <2>5
  <1>5. Inv /\ Counted => [Within]_vars BY <1>4
  <1> HIDE DEF Counted, Within, Reopening
  <1> QED BY <1>1, <1>2, <1>3, <1>5, Invariance, PTL DEF Spec, BudgetFailsClosed, Within, Reopening
=============================================================================
