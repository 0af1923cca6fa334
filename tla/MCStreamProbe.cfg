SPECIFICATION RunningProbeSpec
CONSTANTS
  Urls <- MCUrls
  Supported <- MCSupported
  Volumes <- MCVolumes
  None = None
  CompletionChecks = 1
CHECK_DEADLOCK FALSE
INVARIANTS
  SuccessMeansPlayed
  CloseFindsPlayerReleased
PROPERTIES
  StopIsHonoured
  ProbeTerminates
