------------------------- MODULE MCCollectionQueue -------------------------
(* Instances of CollectionQueue for TLC. *)
EXTENDS CollectionQueue, TLC

\* Two attempts, a circuit that opens on the second failure in a row.
TwoAttempts == [maxAttempts |-> 2, baseDelay |-> 1, maxDelay |-> 2,
                threshold |-> 2, reset |-> 2, lease |-> 1]
\* Three attempts, a doubling delay that reaches its cap.
ThreeAttempts == [maxAttempts |-> 3, baseDelay |-> 1, maxDelay |-> 1,
                  threshold |-> 2, reset |-> 2, lease |-> 1]
\* One attempt, a circuit that opens on the first failure.
OneAttempt == [maxAttempts |-> 1, baseDelay |-> 1, maxDelay |-> 1,
               threshold |-> 1, reset |-> 1, lease |-> 1]

\* Worker ids are interchangeable; no property of these runs tells them apart.
WorkerSymmetry == Permutations(Workers)
=============================================================================
