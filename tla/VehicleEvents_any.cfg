SPECIFICATION Spec
CONSTANTS
  speed = speed
  w0 = w0
  w1 = w1
  Prop <- Speed
  Continuous <- Speed
  Writer <- TwoWriters
  MAX_TIME = 2
  MAX_ELAPSED = 2
  MAX_CALLS = 2
  NULL = NULL
INVARIANTS
  EventsInOrder
  NewestIsStored
PROPERTIES
  EventsAreDelivered
  DestructorReturns
  SeenEventsFire
CHECK_DEADLOCK FALSE
