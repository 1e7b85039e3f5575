SPECIFICATION Spec
CONSTANTS
  V4L2_BUFFER_NUM = 2
  MAX_BUFFERS_IN_FLIGHT = 2
  DefaultFrames = 2
  UINT_MOD = 4
  m1 = m1
  m2 = m2
  m3 = m3
  Memory <- MCMemory
  NULL = NULL
  Env <- EnvLate
INVARIANT NoAbort
CHECK_DEADLOCK FALSE
