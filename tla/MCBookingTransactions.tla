----------------------- MODULE MCBookingTransactions ------------------------
(* An instance of BookingTransactions for TLC.                             *)
EXTENDS BookingTransactions, TLC

CONSTANTS e1, s1, s2, b1, b2, t1, t2

MCEventOf == [s \in Seats |-> e1]

\* Connections are interchangeable, and so are booking identifiers.
Symmetry == Permutations(Txns) \cup Permutations(Bookings)
==============================================================================
