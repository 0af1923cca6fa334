CONSTANTS
  Files <- MCFiles
  MaxChanges = 1
  Unset = Unset
  Ids = {"classic", "us10"}
  Registries <- MCRegistries
  Builds <- MCBuilds
  Configurable <- MCConfigurable
  AddressIds = {"classic"}
  Stations = {7, 8}
  UnsafeKeys = {8}
  Identities = {}
  None = None
  MinimumLogInterval = 2
  MaximumDecisionLogMessages = 3
  MinimumTransitionInterval = 2
  MaximumTransitionMessages = 8
  MaximumLogBytes = 5
  PrefixBytes = 1
  LogWord = 16
  MessageBytes = 1
  Word = 8
  Frames <- MCFrames
  Configuration <- MCConfiguration
  LogSizes = {0}
  LogsInfo = {TRUE}
  ReportLines = 1
  DosHeader = 1
  CoffEnd = 0
  SectionHeader = 1
  MinimumOptional = 0
  MaximumOptional = 1
  MaximumSections = 2
  MaximumPeOffset = 2
  MaximumFile = 9
SPECIFICATION Spec
CHECK_DEADLOCK FALSE
INVARIANTS
  FingerprintOfOneVersion
  FramesFindEverythingWired
  SectionsApart
PROPERTIES
  TouchedOnlyAsDocumented
  LogsAsDocumented
  LogsCatchUp
