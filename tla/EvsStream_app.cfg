SPECIFICATION FairSpec
CONSTANTS
  f1 = f1
  f2 = f2
  f3 = f3
  Frame <- ThreeFrames
  NULL = NULL
  Stream = "1.0"
INVARIANTS
  LentInOrder
  DrawsWhatIsHeld
PROPERTIES
  KeepsPromise
  CameraNotStarved
  ShutdownReturns
CHECK_DEADLOCK FALSE
