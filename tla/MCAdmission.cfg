\* Two clients of one event, and a Redis that comes and goes.
CONSTANTS
  k1 = k1
  k2 = k2
  p1 = p1
  Clients = {k1, k2}
  Processes = {p1}
  SimpleLimit = 1
  SimpleWindow = 2
  EventLimit = 3
  ClientLimit = 2
  Window = 2
  Burst = 1
  MaxLostReplies = 1
SPECIFICATION Spec
SYMMETRY Symmetry
INVARIANTS CountsAdmitted BurstBounded QuietWindowFrees
