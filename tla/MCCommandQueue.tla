--------------------------- MODULE MCCommandQueue ---------------------------
(* Instances of CommandQueue for TLC.                                      *)
EXTENDS CommandQueue

CONSTANTS j1, j2, j3, j4, seat, booking, m1, m2

\* Two jobs want the same seat, and two purchase the same booking.
MCTargetOf == [j \in Jobs |-> IF j \in {j1, j2} THEN seat ELSE booking]

\* Booking commands of one event share a partition of their topic; purchase
\* commands are spread by job identifier.
MCPartitionOf == [j \in Jobs |-> CASE j = j3 -> 1 [] j = j4 -> 2 [] OTHER -> 0]

Faults(rebalances, crashes, failures) ==
  [rebalance |-> rebalances, crash |-> crashes, failure |-> failures]

\* The faults of each set of jobs: all of them when one job is alone.
MCMaxFaults ==
  [A \in SUBSET Jobs |->
     CASE A = {j1} -> Faults(1, 1, 1)
       [] A = {j3} -> Faults(2, 1, 1)
       [] A = {j1, j2} -> Faults(0, 1, 0)
       [] A = {j3, j4} -> Faults(1, 0, 1)
       [] OTHER -> Faults(0, 0, 0)]

MCTwoRebalances == [A \in SUBSET Jobs |-> Faults(2, 0, 0)]

MCNoFaults == [A \in SUBSET Jobs |-> Faults(0, 0, 0)]
==============================================================================
