---------------------------- MODULE MCAdmission -----------------------------
(* Instances of Admission for TLC.                                         *)
EXTENDS Admission, TLC

CONSTANTS k1, k2, p1

\* Clients are interchangeable.
Symmetry == Permutations(Clients)
==============================================================================
