SPECIFICATION Spec
CONSTANTS
  c1 = c1
  c2 = c2
  v0 = v0
  v1 = v1
  Client <- TwoClients
  Record <- ThreeRecords
  Group <- OneGroup
  Device <- TwoDevices
  Devices <- RecordDevices
  MAX_LAYERS = 2
  MAX_CAMERAS = 2
  MAX_DISPLAYS = 2
  NULL = NULL
INVARIANTS
  OneDisplayOwner
  OneCameraOwner
  StreamsOwnDevices
SYMMETRY Clients
CHECK_DEADLOCK FALSE
