--------------------------- MODULE MCPurchaseFlow ---------------------------
(* Instances of PurchaseFlow for TLC.                                      *)
EXTENDS PurchaseFlow, TLC

CONSTANTS e1, s1, b1, b2, a1, a2, a3

MCEventOf == [s \in Seats |-> e1]

\* Attempts are interchangeable, and so are booking identifiers.
Symmetry == Permutations(Attempts) \cup Permutations(Bookings)
==============================================================================
