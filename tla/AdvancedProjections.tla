------------------------ MODULE AdvancedProjections ------------------------
(***************************************************************************)
(* Projections that are not rebuilt from their evidence: a delivery moves  *)
(* the row forward when it is at least as recent as what the row shows.    *)
(* `at` is the effective time of what is shown (for a contract the order   *)
(* of its publication), `shows` what it says; a row that shows nothing yet *)
(* has at = 0.                                                             *)
(***************************************************************************)
EXTENDS Integers

Unshown == [at |-> 0, shows |-> "none"]
\* Faulty: the last delivery wins.
AdvanceAlways(row, at, shows) == [at |-> at, shows |-> shows]

Advance(row, at, shows) ==
  IF at >= row.at THEN [at |-> at, shows |-> shows]
                  ELSE [at |-> row.at, shows |-> row.shows]

-----------------------------------------------------------------------------
(* Procurement history: a procedure, and the contract awarded by it *)

\* A publication without a date counts from its collection, but a procedure
\* that it creates has no date at all (latest = 0).
NewProcedure(p) ==
  [buyer |-> p.buyer, status |-> p.status, latest |-> IF p.dated THEN p.at ELSE 0,
   sources |-> {p.rec[1]}]

ProcedureAfter(row, p) ==
  LET advances == row.latest = 0 \/ p.at >= row.latest
  IN [buyer |-> row.buyer, sources |-> row.sources \cup {p.rec[1]},
      status |-> IF advances THEN p.status ELSE row.status,
      latest |-> IF advances THEN p.at ELSE row.latest]

\* Not every publication is about a contract.  p.order is its place by time and,
\* among publications of one time, by the key of its revision.
ContractAfter(row, p) ==
  IF p.says = "none" THEN [at |-> row.at, shows |-> row.shows]
                     ELSE Advance(row, p.order, p.says)

SameBuyer(row, p) == row.buyer = p.buyer

-----------------------------------------------------------------------------
(* Public footprint: a public resource, and the claim read from its versions *)

NewResource(r) == [access |-> r.access, first |-> r.at, seen |-> r.at]
ResourceAfter(row, r) ==
  [first |-> IF r.at < row.first THEN r.at ELSE row.first,
   access |-> IF r.at >= row.seen THEN r.access ELSE row.access,
   seen |-> IF r.at >= row.seen THEN r.at ELSE row.seen]

\* Not every version carries the claim.
StatementAfter(row, r) ==
  IF r.says = "none" THEN [at |-> row.at, shows |-> row.shows] ELSE Advance(row, r.at, r.says)

-----------------------------------------------------------------------------
(* Vulnerability applicability: the decision on one product of one asset *)

AssessmentAfter(row, a) == Advance(row, a.at, a.says)
=============================================================================
