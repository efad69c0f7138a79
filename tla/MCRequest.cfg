SPECIFICATION Spec
CONSTANTS
  BufferRequest = 40
  SizeBuffer = 44
  MaxUnknown = 3
  MaxBodySize = 60
  Elements <- AllElements
  Requests <- AllRequests
INVARIANTS
  CutIndependent
  PayloadExact
  PathResolved
  HeadersReachCgi
  NoStall
CHECK_DEADLOCK FALSE
