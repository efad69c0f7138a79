\* Both clocks are fair; registrations may fail.
SPECIFICATION ClocksSpec
CONSTANTS
  MaxClients = 1
  MaxInternalLoop = 2
  EventsMax = 3
  MaxBacklog = 1
  Fds = {f1, f2}
  Pids = {p1}
  ServerFd = server
  None = None
  BodyPlaces = {"RAM", "DISK"}
  AddMayFail = TRUE
  PeersMayStall = TRUE
  MaxMoves = 0
PROPERTIES
  RequestEnds
  IdleReclaimed
