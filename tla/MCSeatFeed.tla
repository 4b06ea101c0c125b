----------------------------- MODULE MCSeatFeed -----------------------------
(* Instances of SeatFeed for TLC.                                          *)
EXTENDS SeatFeed

CONSTANTS i1, i2, c1, c2

\* The clients are connected to the first process.
MCInstanceOf == [c \in Clients |-> i1]

\* Nothing may happen but what b says.
Only(b) == [f \in Kinds |-> IF f \in DOMAIN b THEN b[f] ELSE 0]

Listen(b) == [bound |-> Only(b), early |-> {c1}, late |-> {}]

Silence(b) == [bound |-> Only(b), early |-> {}, late |-> {}]

MCScenarios ==
  { \* two changes, one of them by a worker
    Listen([change |-> 1, direct |-> 1]),
    \* a process dies
    Listen([change |-> 2, crash |-> 1]),
    Silence([change |-> 1, invalid |-> 1, crash |-> 1]),
    \* the partition changes hands
    Listen([change |-> 1, rebalance |-> 1]),
    Silence([change |-> 2, rebalance |-> 1]),
    \* a rollback, or a call that fails
    Listen([change |-> 1, silent |-> 1, invalid |-> 1, failure |-> 1]),
    \* a worker's process dies and its calls fail
    Listen([direct |-> 1, crash |-> 1, failure |-> 1]),
    \* a client leaves while messages are on their way, or is too slow
    Listen([change |-> 2, leave |-> 1]),
    \* two clients come and go
    [bound |-> Only([change |-> 1, leave |-> 2]), early |-> {}, late |-> {c1, c2}] }
==============================================================================
