----------------------------- MODULE MCBackfill -----------------------------
(* Instances of Backfill for TLC. *)
EXTENDS Backfill, TLC

\* Workers are interchangeable, and so are partitions; no property of these
\* runs tells them apart.
AnySymmetry == Permutations(Workers) \cup Permutations(Partitions)
=============================================================================
