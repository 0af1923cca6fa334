CONSTANTS
  Hosts <- MCHosts
  Lower <- MCLower
  Ports <- MCPorts
  Names <- MCNames
  Queries <- MCQueries
  None = None
  MaximumPath = 3
  Texts <- MCTexts
  References <- MCReferences
  MaximumRedirects = 3
  MaximumBytes = 5
  MaximumRead = 2
SPECIFICATION Spec
CHECK_DEADLOCK FALSE
INVARIANTS
  SecureStaysSecure
  CancelCostsOneExchange
PROPERTIES
  RedirectsResolveLikeRfc
  FetchEnds
