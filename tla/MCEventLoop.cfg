\* One client slot, everything else unbounded: the kernel reuses both
\* descriptors and the process id.
SPECIFICATION MCSpec
CONSTANTS
  MaxClients = 1
  MaxInternalLoop = 2
  EventsMax = 3
  MaxBacklog = 1
  Fds = {f1, f2}
  Pids = {p1}
  ServerFd = server
  None = None
  BodyPlaces = {"RAM", "DISK", "AUTO_INDEX"}
  AddMayFail = TRUE
  PeersMayStall = TRUE
  MaxMoves = 0
INVARIANTS
  TypeOK
  SlotConservation
  JobOwnership
  PipeMapExact
  InterestFollowsState
  ResponseFileOwned
PROPERTIES
  FreedForCause
  VerdictOnce
  FreshStart
  KeepsPromise
