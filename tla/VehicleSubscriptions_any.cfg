SPECIFICATION Spec
CONSTANTS
  c0 = c0
  c1 = c1
  p0 = p0
  p1 = p1
  t0 = t0
  t1 = t1
  Client <- TwoClients
  Prop <- TwoProps
  Rate = {1, 2}
  Request <- Requests
  Thread <- TwoThreads
  MAX_CALLS = 3
  NONE = NONE
INVARIANTS
  EventsReachAskers
  HalServesAskers
  ClientsAreForgotten
PROPERTY DeathIsHandled
CHECK_DEADLOCK FALSE
