CONSTANTS
  Stations = {}
  UnsafeKeys = {}
  Identities = {"riseFm", "lips106"}
  None = None
  ProfileIds = {"classic", "us10", "unsupported"}
  Kinds <- MCKinds
  SensitiveKeys = {"address", "Address"}
  Uint32Max = 300
  LongMax = 400
  Files <- MCFiles
  MaxFiles = 3
  Mapped = "classic"
SPECIFICATION ArchiveSpec
CHECK_DEADLOCK FALSE
INVARIANTS
  MapAgreesWithComparison
PROPERTIES
  EvidenceNeverErodes
