--------------------------- MODULE MCIdempotency ----------------------------
(* Instances of Idempotency for TLC.                                       *)
EXTENDS Idempotency, TLC

CONSTANTS q1, q2, q3

\* Requests are interchangeable.
Symmetry == Permutations(Requests)
==============================================================================
