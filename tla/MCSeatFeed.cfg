\* Two processes, two changes of a seat; see Scenarios for the rest.
CONSTANTS
  i1 = i1
  i2 = i2
  c1 = c1
  c2 = c2
  Instances = {i1, i2}
  Clients = {c1, c2}
  InstanceOf <- MCInstanceOf
  Messages = {1, 2}
  QueueSize = 2
  RegisterSize = 1
  BufferSize = 1
  NoInstance = NoInstance
  Scenarios <- MCScenarios
SPECIFICATION FairSpec
INVARIANTS TypeOK RegisteredIsOpen NothingSkipped ScreensSettle
PROPERTIES EventsDealtWith GoneClientsLeave
\* The changes are bounded: once they are on the screens nothing is left to do.
CHECK_DEADLOCK FALSE
