SPECIFICATION Spec
CONSTANTS
  s0 = s0
  s1 = s1
  b0 = b0
  b1 = b1
  Stream <- TwoStreams
  Main = s0
  Buffer <- TwoBuffers
  Config <- Sizes
  OmitFrames <- OmitLarge
  Request <- Requests
  MAX_RECOVER_COUNT = 1
  MAX_FRAMES = 2
  MAX_PIPELINES = 1
  MAX_STALLS = 2
  MAX_FAULTS = 1
  NULL = NULL
PROPERTIES
  EveryRequestIsAnswered
  CallsReturn
CHECK_DEADLOCK FALSE
