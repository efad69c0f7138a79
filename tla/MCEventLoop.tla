----------------------------- MODULE MCEventLoop -----------------------------
(***************************************************************************)
(* EventLoop for TLC.                                                      *)
(*                                                                         *)
(* The steps of the outside are taken only where the server can tell the   *)
(* difference.  A step of a peer or of a child is read by epoll_wait and   *)
(* by the handler of the event that names its descriptor, so taken between *)
(* two other handlers it commutes with them up to the next epoll_wait; the *)
(* clock is read by the timeout scans alone.  The bound MaxMoves, if it is *)
(* not 0, limits how many steps of the outside a behaviour has.            *)
(***************************************************************************)
EXTENDS EventLoop, TLC

CONSTANT MaxMoves

VARIABLE moves

mcVars == <<vars, moves>>

AtSocket(f) == pc = "WAIT" \/ batch[f] # {}
AtChild(p) == pc = "WAIT" \/ \E f \in Fds : pipe[f] = p /\ batch[f] # {}

PeerMoves(f) == PeerSends(f) \/ PeerCloses(f) \/ PeerResets(f)
                \/ PeerStalls(f) \/ PeerDrains(f)
ChildMoves(p) == ChildWrites(p) \/ ChildClosesStdout(p) \/ ChildExits(p)

MCOutside ==
  /\ MaxMoves = 0 \/ moves < MaxMoves
  /\ moves' = IF MaxMoves = 0 THEN 0 ELSE moves + 1
  /\ \/ pc = "WAIT" /\ PeerConnects
     \/ \E f \in Fds : AtSocket(f) /\ PeerMoves(f)
     \/ \E p \in Pids : AtChild(p) /\ ChildMoves(p)
     \/ \E s \in Slots : pc = "TIMEOUT_CGI" /\ ClientTimePasses(s)
     \/ \E s \in Slots : pc = "TIMEOUT_CGI" /\ CgiTimePasses(s)

MCInit == Init /\ moves = 0
MCNext == (Server /\ UNCHANGED moves) \/ MCOutside
MCSpec == MCInit /\ [][MCNext]_mcVars

Symmetry == Permutations(Fds) \cup Permutations(Pids)

-----------------------------------------------------------------------------
(***************************************************************************)
(* Fairness.  The server is one thread: whenever it has a next step it     *)
(* takes it.  The clock never stops: MCOutside lets it be seen only when a *)
(* scan is about to read it, so it is strong fairness that says that a job *)
(* or a connection that stays grows old.  Nothing is assumed of peers and  *)
(* of CGI children: they may fall silent for ever.                         *)
(***************************************************************************)
ServerRuns == WF_mcVars(Server /\ UNCHANGED moves)
CgisAge == \A s \in Slots : SF_mcVars(MCOutside /\ CgiTimePasses(s))
ClientsAge == \A s \in Slots : SF_mcVars(MCOutside /\ ClientTimePasses(s))

CgiClockSpec == MCSpec /\ ServerRuns /\ CgisAge
ClocksSpec == CgiClockSpec /\ ClientsAge

\* The loop comes back to epoll_wait: no call of it blocks for ever.  The
\* properties are about what a turning loop does (NeverWaitsForPeer is about
\* the calls that may stop it).
LoopTurns == []<>(pc = "WAIT")

\* Every CGI is decided (finished, failed, found wrong or timed out), even if
\* its child never writes, never exits, or leaves processes behind that keep
\* its pipe open, and even if the timeout of its client never comes
\* (_tryTimeOutCgi, monitorCgi).
CgiDecided ==
  LoopTurns => \A s \in Slots :
    client[s].state = "CGI_RUNING" ~> client[s].state # "CGI_RUNING"

\* Every request ends: with its answer, or with the connection, even if its
\* peer stalls in the middle, a descriptor could not be registered or a CGI is
\* out of the reach of the event loop (_tryTimeOutClients, _freeClient).
RequestEnds ==
  LoopTurns => \A s \in Slots :
    client[s].state # "BEGIN" ~> client[s].state = "BEGIN"

\* An idle connection asks for something or is taken away, and the slot that
\* a failed registration left without a client comes back too.
IdleReclaimed ==
  LoopTurns => \A s \in Slots :
    InUse(s) /\ client[s].state = "BEGIN"
      ~> ~InUse(s) \/ client[s].state # "BEGIN"
=============================================================================
