SPECIFICATION Spec
CONSTANTS
  Urls <- MCUrls
  Supported <- MCSupported
  Volumes <- MCVolumes
  None = None
INVARIANTS
  PlaysLastResolution
  VolumeSettled
  DeadStreamReported
PROPERTY
  ContractSpec
