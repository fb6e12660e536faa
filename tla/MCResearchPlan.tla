--------------------------- MODULE MCResearchPlan ---------------------------
(* Instances of ResearchPlan for TLC. *)
EXTENDS ResearchPlan, TLC

\* A step that an adapter carries out, and one that an analyst does.
Modes == [s \in Steps |-> IF s = "adapter" THEN "automated_adapter" ELSE "manual_link"]
Costs == [s \in Steps |-> 1]

\* Terms that expire, and terms that name every step but have room for one.
Narrow == [approved |-> {"adapter"}, scope |-> Steps, maxSteps |-> 2, maxAutomated |-> 1,
           maxCost |-> 1, maxStepCost |-> 1, expires |-> 1]
Wide == [approved |-> Steps, scope |-> Steps, maxSteps |-> 1, maxAutomated |-> 1,
         maxCost |-> 2, maxStepCost |-> 1, expires |-> 2]
BothTerms == {Narrow, Wide}
WideTerms == {Wide}

\* Clients are interchangeable, and so are idempotency keys; no property of these
\* runs tells them apart.
AnySymmetry == Permutations(Clients) \cup Permutations(Keys)
=============================================================================
