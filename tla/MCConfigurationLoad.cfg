CONSTANTS
  Stations = {1, 2}
  UnsafeKeys = {}
  Identities = {"riseFm"}
  None = None
  Lines <- MCLines
  Starts <- MCStarts
  ProfileMap <- MCMap
SPECIFICATION Spec
CHECK_DEADLOCK FALSE
INVARIANTS
  OrderNeverDecides
  StartNeedsOptIn
