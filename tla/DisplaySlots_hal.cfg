SPECIFICATION FairSpec
CONSTANTS
  DISPLAY_BUFFER_NUM = 3
  MAX_TAKEN = 1
  MAX_OPENS = 2
  NULL = NULL
  Env <- EnvAll
INVARIANTS
  SlotsInOnePlace
  DisplayForgetsLayer
PROPERTIES
  GetSlotReturns
  PresentedIsShown
CHECK_DEADLOCK FALSE
