CONSTANTS
  Fault = Fault
  None = None
  Stations <- MCStations
  Volumes <- MCVolumes
  Profiles <- MCProfiles
  DefaultStable = 2
  MaximumStable = 3
  StableSettings <- MCStableSettings
  MaximumSettings <- MCMaximumSettings
  Frames = 6
SPECIFICATION Spec
INVARIANTS
  RecordedExactly
