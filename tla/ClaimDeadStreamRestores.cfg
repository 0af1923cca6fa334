SPECIFICATION FairSpec
CONSTANTS
  Stations <- MCStations
  UnsafeKeys <- MCUnsafeKeys
  Identities <- MCIdentities
  None = None
  Configurations <- MCConfigurations
  Snapshots <- MCSnapshots
  MaxSequence = 2
  MaxShutdowns = 0
PROPERTY
  DeadStreamRestores
