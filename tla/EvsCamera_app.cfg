SPECIFICATION FairSpec
CONSTANTS
  V4L2_BUFFER_NUM = 3
  MAX_BUFFERS_IN_FLIGHT = 3
  DefaultFrames = 2
  UINT_MOD = 5
  m1 = m1
  m2 = m2
  m3 = m3
  Memory <- MCMemory
  NULL = NULL
  Env <- EnvSteady
INVARIANTS
  QueuedIsLookedUp
  NoAbort
PROPERTIES
  CallsReturn
  StreamResumes
