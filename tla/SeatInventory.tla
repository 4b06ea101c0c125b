---------------------------- MODULE SeatInventory ----------------------------
(***************************************************************************)
(* What the booking store promises, with rows, locks and clocks left out:  *)
(* a seat is free or is held by exactly one booking, it may be sold to its *)
(* holder and to nobody else, it becomes free again before anyone else can *)
(* hold it, and a booking that gave its seat up never comes back.          *)
(***************************************************************************)
EXTENDS FiniteSets

CONSTANTS Seats,     \* the seats on sale
          Bookings,  \* the booking identifiers that may ever be used
          Free       \* the holder of a seat that nobody holds

VARIABLES holder,    \* holder[s]: the booking that holds seat s, or Free
          sold,      \* the seats whose holder has bought them
          used       \* the bookings that hold or once held a seat

inventoryVars == <<holder, sold, used>>

Init ==
  /\ holder = [s \in Seats |-> Free]
  /\ sold = {}
  /\ used = {}

\* A fresh booking takes a free seat.
Hold(s, b) ==
  /\ holder[s] = Free
  /\ b \notin used
  /\ holder' = [holder EXCEPT ![s] = b]
  /\ used' = used \cup {b}
  /\ UNCHANGED sold

\* The seat's holder buys it.
Sell(s) ==
  /\ holder[s] # Free
  /\ s \notin sold
  /\ sold' = sold \cup {s}
  /\ UNCHANGED <<holder, used>>

\* The holder gives the seat up: it cancels, it expires or its payment fails.
GiveUp(s) ==
  /\ holder[s] # Free
  /\ holder' = [holder EXCEPT ![s] = Free]
  /\ sold' = sold \ {s}
  /\ UNCHANGED used

Next ==
  \E s \in Seats :
    \/ \E b \in Bookings : Hold(s, b)
    \/ Sell(s)
    \/ GiveUp(s)

Spec == Init /\ [][Next]_inventoryVars
==============================================================================
