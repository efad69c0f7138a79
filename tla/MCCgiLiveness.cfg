\* Only the clock of the CGIs is fair; every pipe is registered.
SPECIFICATION CgiClockSpec
CONSTANTS
  MaxClients = 1
  MaxInternalLoop = 2
  EventsMax = 3
  MaxBacklog = 1
  Fds = {f1, f2}
  Pids = {p1}
  ServerFd = server
  None = None
  BodyPlaces = {"RAM", "DISK"}
  AddMayFail = FALSE
  PeersMayStall = TRUE
  MaxMoves = 0
PROPERTIES
  CgiDecided
