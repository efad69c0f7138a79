\* Two slots and three descriptors, so that a number freed by one connection
\* is taken by another one, or by a pipe, while the batch still has events.
SPECIFICATION MCSpec
CONSTANTS
  MaxClients = 2
  MaxInternalLoop = 2
  EventsMax = 3
  MaxBacklog = 2
  Fds = {f1, f2, f3}
  Pids = {p1}
  ServerFd = server
  None = None
  BodyPlaces = {"DISK"}
  AddMayFail = FALSE
  PeersMayStall = FALSE
  MaxMoves = 7
SYMMETRY Symmetry
INVARIANTS
  SocketAccounting
  JobOwnership
PROPERTIES
  FreedForCause
  KeepsPromise
CHECK_DEADLOCK FALSE
