SPECIFICATION GameplaySpec
CONSTANTS
  Urls <- MCUrls
  Supported <- MCSupported
  Volumes <- MCVolumes
  None = None
PROPERTY
  VolumeChangeIsReal
