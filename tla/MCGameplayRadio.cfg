SPECIFICATION FairSpec
CONSTANTS
  Stations <- MCStations
  UnsafeKeys <- MCUnsafeKeys
  Identities <- MCIdentities
  None = None
  Configurations <- MCConfigurations
  Snapshots <- MCSnapshots
  MaxSequence = 3
  MaxShutdowns = 1
INVARIANTS
  ControllerMirrorsSink
  StreamMatchesState
  UnchangedIsAccurate
  MutedOnlyUnderStream
  ActiveMeansSuppressed
PROPERTIES
  HandoverSpec
  CallsReturn
