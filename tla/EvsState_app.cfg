SPECIFICATION FairSpec
CONSTANTS
  NULL = NULL
  Gear <- MCGear
  Signal <- MCSignal
  Cameras <- SomeCameras
  Notified <- GearNotified
  Faults <- AllFaults
  SfAtBoot = FALSE
  MAX_EVENTS = 1
INVARIANTS
  RendererMatchesDisplay
  DrawsDesiredView
  OnlyViewedStreams
PROPERTY ViewFollowsVehicle
CHECK_DEADLOCK FALSE
