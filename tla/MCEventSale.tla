---------------------------- MODULE MCEventSale -----------------------------
(* Instances of EventSale for TLC.                                         *)
EXTENDS EventSale

CONSTANTS s1, s2, s3, b1, b2, o1, o2, q1, q2, l1

\* Two chunks each; b2 asks for a seat twice.
MCWanted == [b \in Bulks |-> IF b = b1 THEN <<s1, s2, s3>> ELSE <<s3, s2, s2>>]

Scenario(actors, created, failures, crashes) ==
  [actors |-> actors, created |-> created, failures |-> failures, crashes |-> crashes]

MCScenarios ==
  { \* an event is created and read, and a seat sold
    Scenario({o1, q1, l1}, FALSE, 1, 0),
    \* its row is cached while seats change
    Scenario({o1, o2, q1, q2}, TRUE, 1, 1),
    \* one bulk reservation, against other changes and readers, a call fails
    Scenario({b1, o1, q1}, TRUE, 1, 0),
    \* two against each other
    Scenario({b1, b2}, TRUE, 0, 0),
    \* one in which a call fails, or that dies
    Scenario({b2, q1}, TRUE, 1, 1) }
==============================================================================
