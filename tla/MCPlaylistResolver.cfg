CONSTANTS
  Absolute <- MCUrls
  Relative = {Bad}
  Unsupported = {Unsafe}
  Numbers <- MCNumbers
  Secure <- MCSecure
  Suffix <- MCSuffix
  Bad = Bad
  None = None
  Contents <- MCContents
  MaximumDepth = 2
  MaximumEntries = 2
SPECIFICATION Spec
CHECK_DEADLOCK FALSE
INVARIANTS
  StaysSecure
  SearchBounded
  SelectionDescribed
PROPERTIES
  ResolutionEnds
