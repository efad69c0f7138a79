SPECIFICATION Spec
CONSTANTS
  Names <- Elements
  InternalLoop = 3
  MaxPath = 9
  MaxInternalLoop = 3
  Servers <- TwoServers
  Requests <- SomeRequests
  Files <- Disk
  LineErrors = {400}
  HeaderErrors = {431}
  BodyErrors = {411, 413}
INVARIANTS
  FramingAgrees
  KeepAgrees
  ErrorsStayErrors
PROPERTIES
  DeleteOnlyAllowed
  Answered
