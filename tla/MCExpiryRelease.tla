-------------------------- MODULE MCExpiryRelease ---------------------------
(* An instance of ExpiryRelease for TLC.                                   *)
EXTENDS ExpiryRelease

CONSTANTS e1, s1, b1, b2

MCEventOf == [s \in Seats |-> e1]

\* The first booking hashes to partition 1, the other to partition 0.
MCPartitionOf == [b \in Bookings |-> IF b = b1 THEN 1 ELSE 0]
==============================================================================
