------------------------------ MODULE EventLoop ------------------------------
(***************************************************************************)
(* The event loop of the server (linker/clsFlow.cpp), the connection state *)
(* machine it drives (linker/clsClient.cpp) and the CGI monitor each       *)
(* connection owns (linker/monitorCgi.hpp), against the kernel objects     *)
(* they use: descriptors, epoll interest, sockets, pipes and children.     *)
(*                                                                         *)
(* One action is one handler: what clsFlow::EventLoop runs for one event   *)
(* of the batch, or one iteration of a timeout scan.  The peers, the CGI   *)
(* children and the clock move between any two of them.  A call that       *)
(* blocks is an action that is not enabled yet: the loop is then stuck in  *)
(* the middle of its batch, exactly as the single thread of the server is. *)
(*                                                                         *)
(* An operator whose comment starts with "Fault:" is not part of the       *)
(* system: it is the definition after it with a bug, and the runs show     *)
(* that the properties tell the two apart.                                 *)
(***************************************************************************)
EXTENDS Naturals, Sequences, FiniteSets

CONSTANTS
  MaxClients,       \* number of client slots (clsFlow::maxClient)
  MaxInternalLoop,  \* MAX_INTERNAL_LOOP of clsClient.hpp
  EventsMax,        \* EVENTS_MAX of clsFlow.hpp: size of one epoll batch
  MaxBacklog,       \* bound: connections waiting in the listen queue
  Fds,              \* descriptor numbers sockets and CGI pipes can get
  Pids,             \* process ids the kernel can give to CGI children
  ServerFd,         \* the listening socket
  None,             \* "-1": no descriptor, no process, no slot
  BodyPlaces,       \* bound: where the bodies of responses come from
  AddMayFail,       \* whether epoll_ctl(EPOLL_CTL_ADD) may fail
  PeersMayStall     \* whether a peer may stop reading what it is sent

Slots == 0 .. MaxClients - 1

ASSUME LoopAssumption ==
  /\ MaxClients \in Nat \ {0}
  /\ MaxInternalLoop \in Nat \ {0, 1}
  /\ EventsMax \in Nat \ {0}
  /\ MaxBacklog \in Nat
  /\ BodyPlaces \subseteq {"RAM", "DISK", "AUTO_INDEX"} /\ BodyPlaces # {}
  /\ AddMayFail \in BOOLEAN
  /\ PeersMayStall \in BOOLEAN
  /\ ServerFd \notin Fds
  /\ None \notin Fds \cup Pids \cup Slots

VARIABLES
  \* the server
  pc,            \* where EventLoop() is
  batch,         \* flags of the events of the batch still to be handled
  available,     \* _clientsAvailable, top of the stack last
  clientIdByFd,  \* _clientIdByFd (None: no entry)
  idByPipe,      \* _IdByPipe (None: no entry)
  client,        \* _clientsArr: the clsClient of each slot
  monitor,       \* the clsMonitorCGI of each slot
  \* the kernel and the outside
  interest,      \* what each descriptor is registered for in epoll
  peer,          \* the peer of each connected socket
  input,         \* sockets with unread bytes
  stalled,       \* sockets whose peer has stopped reading
  backlog,       \* connections waiting to be accepted
  pipe,          \* the child writing into the pipe a descriptor reads
  child,         \* life of each CGI process
  writing,       \* children whose stdout is still open
  output,        \* children with unread output in their pipe
  expired,       \* slots past TIMEOUT_CLIENT since _LastConnection
  cgiExpired     \* slots past CGI_TIMEOUT since the start of their CGI

loopVars == <<pc, batch>>
mapVars == <<available, clientIdByFd, idByPipe>>
sockVars == <<peer, input, stalled>>
procVars == <<pipe, child, writing, output>>
timeVars == <<expired, cgiExpired>>
vars == <<pc, batch, available, clientIdByFd, idByPipe, client, monitor,
          interest, peer, input, stalled, backlog, pipe, child, writing,
          output, expired, cgiExpired>>

-----------------------------------------------------------------------------
Flags == {"IN", "OUT", "ERR", "HUP"}

\* CONNECTION_CLOSED and CGI_START exist only inside a handler.
StableStates == {"BEGIN", "REQUEST_MODE", "START_RESPOND", "CGI_RUNING",
                 "CGI_END", "RESPOND_MODE", "LAST_CHUNKED", "AUTO_INDEX_DONE"}
clinetState == StableStates \cup {"CGI_START", "CONNECTION_CLOSED"}

bodyPlace == BodyPlaces \cup {"NONE"}

eEventProcess == {"RUNINNG", "THE_END", "END_WITH_PARSE", "END_WITH_TIMOUT",
                  "END_UNKNOW"}

\* full: no room is left in the request buffer, recv() is asked for 0 bytes.
\* page: the request configuration was replaced by the default 500 page.
\* fdRespond: the file a response is read from is open.
Client == [state: StableStates, socket: Fds \cup {None}, peerClosed: BOOLEAN,
           counter: 0 .. MaxInternalLoop, full: BOOLEAN, page: BOOLEAN,
           place: bodyPlace, fdRespond: BOOLEAN, event: eEventProcess]

\* A client whose slot is on the stack, after freeRessources().
FreedClient == [state |-> "BEGIN", socket |-> None, peerClosed |-> FALSE,
                counter |-> 0, full |-> FALSE, page |-> FALSE,
                place |-> "NONE", fdRespond |-> FALSE, event |-> "RUNINNG"]

\* stateProcess is RUNINNG exactly while pid is set; stateData is eof.
Monitor == [pid: Pids \cup {None}, pipe: Fds \cup {None}, eof: BOOLEAN]
NoCgi == [pid |-> None, pipe |-> None, eof |-> TRUE]

TypeOK ==
  /\ pc \in {"WAIT", "DISPATCH", "TIMEOUT_CGI", "TIMEOUT_CLIENTS"}
  /\ batch \in [Fds \cup {ServerFd} -> SUBSET Flags]
  /\ available \in Seq(Slots)
  /\ clientIdByFd \in [Fds -> Slots \cup {None}]
  /\ idByPipe \in [Fds -> Slots \cup {None}]
  /\ client \in [Slots -> Client]
  /\ monitor \in [Slots -> Monitor]
  /\ interest \in [Fds -> {"NONE", "IN", "OUT"}]
  /\ peer \in [Fds -> {"none", "open", "fin", "reset", "gone"}]
  /\ input \in SUBSET Fds
  /\ stalled \in SUBSET Fds
  /\ backlog \in 0 .. MaxBacklog
  /\ pipe \in [Fds -> Pids \cup {None}]
  /\ child \in [Pids -> {"none", "running", "done", "failed"}]
  /\ writing \in SUBSET Pids
  /\ output \in SUBSET Pids
  /\ expired \in SUBSET Slots
  /\ cgiExpired \in SUBSET Slots

Init ==
  /\ pc = "WAIT"
  /\ batch = [f \in Fds \cup {ServerFd} |-> {}]
  /\ available = [i \in 1 .. MaxClients |-> i - 1]
  /\ clientIdByFd = [f \in Fds |-> None]
  /\ idByPipe = [f \in Fds |-> None]
  /\ client = [s \in Slots |-> FreedClient]
  /\ monitor = [s \in Slots |-> NoCgi]
  /\ interest = [f \in Fds |-> "NONE"]
  /\ peer = [f \in Fds |-> "none"]
  /\ input = {}
  /\ stalled = {}
  /\ backlog = 0
  /\ pipe = [f \in Fds |-> None]
  /\ child = [p \in Pids |-> "none"]
  /\ writing = {}
  /\ output = {}
  /\ expired = {}
  /\ cgiExpired = {}

FreeFds == {f \in Fds : peer[f] = "none" /\ pipe[f] = None}

-----------------------------------------------------------------------------
(***************************************************************************)
(* epoll_wait: level triggered, so the flags are a function of the state.  *)
(* EPOLLERR and EPOLLHUP are reported whatever the interest is.            *)
(***************************************************************************)
SocketFlags(f) ==
  (IF interest[f] = "IN" /\ (f \in input \/ peer[f] # "open")
      THEN {"IN"} ELSE {})
  \cup (IF interest[f] = "OUT" /\ f \notin stalled THEN {"OUT"} ELSE {})
  \cup (IF peer[f] = "reset" THEN {"ERR", "HUP"} ELSE {})
  \cup (IF peer[f] = "gone" THEN {"HUP"} ELSE {})

PipeFlags(f) ==
  (IF pipe[f] \in output THEN {"IN"} ELSE {})
  \cup (IF pipe[f] \notin writing THEN {"HUP"} ELSE {})

ReadyFlags(f) ==
  IF f = ServerFd THEN IF backlog > 0 THEN {"IN"} ELSE {}
  ELSE IF interest[f] = "NONE" THEN {}
  ELSE IF peer[f] # "none" THEN SocketFlags(f)
  ELSE PipeFlags(f)

Ready == {f \in Fds \cup {ServerFd} : ReadyFlags(f) # {}}

\* clsEpollHandler::tryPollNewClients: at most EventsMax of the ready
\* descriptors; an empty answer after its timeout goes straight to the scans.
Poll ==
  /\ pc = "WAIT"
  /\ \E B \in SUBSET Ready :
       /\ Cardinality(B) <= EventsMax
       /\ B = Ready \/ Cardinality(B) = EventsMax
       /\ batch' = [f \in Fds \cup {ServerFd} |->
                      IF f \in B THEN ReadyFlags(f) ELSE {}]
       /\ pc' = IF B = {} THEN "TIMEOUT_CGI" ELSE "DISPATCH"
  /\ UNCHANGED <<mapVars, client, monitor, interest, sockVars, backlog,
                 procVars, timeVars>>

\* One event of the batch is taken; after the last one the scans start.
Take(f) ==
  /\ pc = "DISPATCH"
  /\ batch[f] # {}
  /\ batch' = [batch EXCEPT ![f] = {}]
  /\ pc' = IF \A g \in Fds \cup {ServerFd} : batch'[g] = {}
             THEN "TIMEOUT_CGI" ELSE "DISPATCH"

-----------------------------------------------------------------------------
(***************************************************************************)
(* What the end of a CGI and the end of a connection are made of.          *)
(***************************************************************************)

\* Fault: the entry of a pipe outlives it.
KeepPipeEntry(f) == UNCHANGED idByPipe

\* clsFlow::_popPipe.
PopPipe(f) == idByPipe' = [g \in Fds |-> IF g = f THEN None ELSE idByPipe[g]]

\* Fault: the pipe is closed, but the child is neither killed nor reaped.
LeaveChild(m) ==
  /\ pipe' = [f \in Fds |-> IF f = m.pipe THEN None ELSE pipe[f]]
  /\ UNCHANGED <<child, writing, output>>

\* clsMonitorCGI::freeCgiRessources: the child is killed and reaped if it
\* still has to be, and the pipe is closed.
FreeCgi(m) ==
  /\ child' = [p \in Pids |-> IF p = m.pid THEN "none" ELSE child[p]]
  /\ pipe' = [f \in Fds |-> IF f = m.pipe THEN None ELSE pipe[f]]
  /\ writing' = writing \ {m.pid}
  /\ output' = output \ {m.pid}

\* Fault: the socket of a client that goes stays open.
LeaveSocketOpen(f) == UNCHANGED sockVars

\* close() on the socket of a client.
CloseSocket(f) ==
  /\ peer' = [g \in Fds |-> IF g = f THEN "none" ELSE peer[g]]
  /\ input' = input \ {f}
  /\ stalled' = stalled \ {f}

\* The kernel drops a closed descriptor from the epoll set.
Unregister(closed) ==
  interest' = [f \in Fds |-> IF f \in closed THEN "NONE" ELSE interest[f]]

\* Fault: the slot does not return to the stack.
ForgetSlot(fd, s) ==
  /\ clientIdByFd' = [clientIdByFd EXCEPT ![fd] = None]
  /\ UNCHANGED available

\* The map entry of a connection goes, and its slot is free again.
GiveBack(fd, s) ==
  /\ clientIdByFd' = [clientIdByFd EXCEPT ![fd] = None]
  /\ available' = Append(available, s)

\* Fault: the connection goes, but its CGI is left to the monitor.
FreeWithoutCgi(fd) ==
  LET s == clientIdByFd[fd]
      f == client[s].socket
  IN
  /\ CloseSocket(f)
  /\ Unregister({f})
  /\ client' = [client EXCEPT ![s] = FreedClient]
  /\ GiveBack(fd, s)
  /\ expired' = expired \ {s}
  /\ UNCHANGED <<idByPipe, monitor, procVars, cgiExpired, backlog>>

(***************************************************************************)
(* clsFlow::_freeClient, with clsClient::freeRessources.  The socket is    *)
(* closed through clsClient::_socket, not through the number of the event. *)
(***************************************************************************)
FreeClient(fd) ==
  LET s == clientIdByFd[fd]
      m == monitor[s]
      f == client[s].socket
  IN
  /\ PopPipe(m.pipe)
  /\ FreeCgi(m)
  /\ monitor' = [monitor EXCEPT ![s] = NoCgi]
  /\ CloseSocket(f)
  /\ Unregister({f, m.pipe})
  /\ client' = [client EXCEPT ![s] = FreedClient]
  /\ GiveBack(fd, s)
  /\ expired' = expired \ {s}
  /\ cgiExpired' = cgiExpired \ {s}
  /\ UNCHANGED backlog


\* Fault: the slot is mapped only after the registration has succeeded.
AcceptMapsLast ==
  /\ Take(ServerFd)
  /\ backlog > 0
  /\ backlog' = backlog - 1
  /\ \E fd \in FreeFds : LET s == available[Len(available)] IN
       /\ available # <<>>
       /\ available' = SubSeq(available, 1, Len(available) - 1)
       /\ \/ /\ clientIdByFd' = [clientIdByFd EXCEPT ![fd] = s]
             /\ peer' = [peer EXCEPT ![fd] = "open"]
             /\ interest' = [interest EXCEPT ![fd] = "IN"]
             /\ client' = [client EXCEPT ![s].socket = fd]
          \/ UNCHANGED <<clientIdByFd, peer, interest, client>>
  /\ UNCHANGED <<idByPipe, input, stalled, expired, monitor, procVars,
                 cgiExpired>>

(***************************************************************************)
(* clsFlow::_newClientProcess and _insertClient.  The slot is taken and    *)
(* mapped before the descriptor is registered: when the registration fails *)
(* both stay taken and the client is never initialised.                    *)
(***************************************************************************)
AcceptClient ==
  /\ Take(ServerFd)
  /\ backlog > 0
  /\ \E fd \in FreeFds :
       /\ backlog' = backlog - 1
       /\ IF available = <<>>
            THEN UNCHANGED <<mapVars, client, interest, sockVars, expired>>
            ELSE LET s == available[Len(available)] IN
                 /\ available' = SubSeq(available, 1, Len(available) - 1)
                 /\ clientIdByFd' = [clientIdByFd EXCEPT ![fd] = s]
                 /\ peer' = [peer EXCEPT ![fd] = "open"]
                 /\ \/ /\ interest' = [interest EXCEPT ![fd] = "IN"]
                       /\ client' = [client EXCEPT ![s].socket = fd]
                       /\ expired' = expired \ {s}
                    \/ /\ AddMayFail
                       /\ UNCHANGED <<interest, client, expired>>
                 /\ UNCHANGED <<idByPipe, input, stalled>>
  /\ UNCHANGED <<monitor, procVars, cgiExpired>>

\* The rest of _newClientProcess: getsockname() on the listener or the fcntl()
\* of changeFileToNonBlocking fails, and the accepted connection is closed
\* before anything is taken for it, even if slots are free.
AcceptDropped ==
  /\ Take(ServerFd)
  /\ backlog > 0
  /\ FreeFds # {}
  /\ backlog' = backlog - 1
  /\ UNCHANGED <<mapVars, client, monitor, interest, sockVars, procVars,
                 timeVars>>

\* accept() fails when no descriptor is left, or the connection is gone.
AcceptFails ==
  /\ Take(ServerFd)
  /\ backlog = 0 \/ FreeFds = {}
  /\ UNCHANGED <<mapVars, client, monitor, interest, sockVars, backlog,
                 procVars, timeVars>>

\* An event for a descriptor neither map knows any more is taken for one of
\* a listening socket: no server owns it, or its flags are swallowed.
UnknownEvent(f) ==
  /\ Take(f)
  /\ clientIdByFd[f] = None
  /\ idByPipe[f] = None
  /\ UNCHANGED <<mapVars, client, monitor, interest, sockVars, backlog,
                 procVars, timeVars>>

-----------------------------------------------------------------------------
(***************************************************************************)
(* Reading a request: ProcessBoth with EPOLLIN.                            *)
(***************************************************************************)

\* HelperFunctions::changeFileToNonBlocking: whether the descriptor has
\* O_NONBLOCK afterwards.  The two options are branches of one test.
changeFileToNonBlocking(closeOnExec) == IF closeOnExec THEN FALSE ELSE TRUE

\* Every call leaves closeOnExec to its default.
NonBlocking == changeFileToNonBlocking(TRUE)

\* What recv() can answer; the set is empty when the call blocks.
RecvAnswers(s) ==
  LET fd == client[s].socket IN
  IF fd = None THEN {"error"}
  ELSE IF client[s].full THEN {"zero"}
  ELSE IF peer[fd] = "reset" THEN {"error"}
  ELSE IF fd \in input THEN {"bytes"}
  ELSE IF peer[fd] # "open" THEN {"eof"}
  ELSE IF NonBlocking THEN {"error"} ELSE {}

\* The client after ProcessRequest.  The first read of a request runs
\* ResetAll; the bytes then leave the request unfinished (maybe with a full
\* buffer), finished, or wrong (answered with an error page or the default).
Received(c, answer) ==
  LET reading == [c EXCEPT !.state = "REQUEST_MODE", !.counter = 0]
  IN CASE answer \in {"error", "zero"} -> {reading}
       [] answer = "eof" -> {[reading EXCEPT !.state = "CONNECTION_CLOSED"]}
       [] answer = "bytes" ->
            {reading, [reading EXCEPT !.full = TRUE],
             [reading EXCEPT !.state = "START_RESPOND", !.full = FALSE],
             [reading EXCEPT !.state = "START_RESPOND", !.full = FALSE,
                             !.page = TRUE]}

-----------------------------------------------------------------------------
\* Fault: the bound on internal redirects is compared too late.
RedirectOnceMore(c, verdict) ==
  IF c.counter > MaxInternalLoop
    THEN {[c EXCEPT !.state = "START_RESPOND", !.counter = 1, !.page = TRUE]}
  ELSE IF verdict = "again"
    THEN {[c EXCEPT !.state = "START_RESPOND", !.counter = @ + 1]}
  ELSE {[c EXCEPT !.state = "RESPOND_MODE", !.place = b, !.counter = 0] :
           b \in BodyPlaces}

(***************************************************************************)
(* Building a response: clsMainProcess::MainProcess, _handleInternal and   *)
(* _initalizeRespondBuffer.  verdict is what the response asks for:        *)
(* "again" (an internal redirect of a CGI or an error that has its own     *)
(* page) or "plain".  At MAX_INTERNAL_LOOP the default 500 page is forced. *)
(***************************************************************************)
InitRespond(c, verdict) ==
  IF c.counter = MaxInternalLoop
    THEN {[c EXCEPT !.state = "START_RESPOND", !.counter = 1, !.page = TRUE,
                    !.event = "RUNINNG"]}
  ELSE IF verdict = "again"
    THEN {[c EXCEPT !.state = "START_RESPOND", !.counter = @ + 1,
                    !.event = "RUNINNG"]}
  ELSE {[c EXCEPT !.state = "RESPOND_MODE", !.place = b, !.counter = 0,
                  !.page = FALSE, !.event = "RUNINNG"] :
           b \in BodyPlaces}

\* Which verdicts the end of a CGI leads to: a timeout is an error with its
\* own page, an abnormal exit is answered at once with a 500.
CgiVerdicts(event) ==
  CASE event = "END_WITH_TIMOUT" -> {"again"}
    [] event = "END_UNKNOW" -> {"plain"}
    [] OTHER -> {"again", "plain"}

\* One call of ProcessRespond, up to the sending.
Responded(c) ==
  CASE c.state = "START_RESPOND" ->
         IF c.page THEN InitRespond(c, "plain")
         ELSE {[c EXCEPT !.state = "CGI_START"]}
              \cup InitRespond(c, "plain") \cup InitRespond(c, "again")
    [] c.state = "CGI_END" ->
         UNION {InitRespond(c, v) : v \in CgiVerdicts(c.event)}
    [] OTHER -> {c}

\* ProcessBoth calls ProcessRespond once more when the first call asks for
\* another response.
RespondedTwice(c) ==
  UNION {IF d.state = "START_RESPOND" THEN Responded(d) ELSE {d} :
           d \in Responded(c)}

\* What _SendRespond puts in the buffer: the next chunk of a file (opened on
\* the first one), the next rows of a listing, or the whole response.
Filled(c) ==
  CASE c.place = "DISK" ->
         {[c EXCEPT !.fdRespond = TRUE],
          [c EXCEPT !.fdRespond = TRUE, !.state = "LAST_CHUNKED"]}
    [] c.place = "AUTO_INDEX" -> {c, [c EXCEPT !.state = "AUTO_INDEX_DONE"]}
    [] OTHER -> {c}

\* Fault: the file of the response is not closed at its end.
LeaveFileOpen(c) ==
  {[c EXCEPT !.state = st, !.place = "NONE"] :
     st \in {"BEGIN", "CONNECTION_CLOSED"}}

\* Fault: the connection goes on in REQUEST_MODE, without ResetAll.
EndedWithoutReset(c) ==
  {[c EXCEPT !.state = "REQUEST_MODE", !.place = "NONE", !.fdRespond = FALSE]}

\* The response went out whole: keep-alive or close, as it announced.
Ended(c) ==
  {[c EXCEPT !.state = st, !.place = "NONE", !.fdRespond = FALSE] :
     st \in IF c.peerClosed THEN {"CONNECTION_CLOSED"}
            ELSE {"BEGIN", "CONNECTION_CLOSED"}}

Closed(c) == [c EXCEPT !.state = "CONNECTION_CLOSED"]

\* What send() leaves: all of the buffer sent, a part of it when the peer
\* resets in the middle of the blocking call, or an error.
Sent(c, answer) ==
  CASE answer = "all" ->
         IF c.place = "RAM" \/ c.state \in {"LAST_CHUNKED", "AUTO_INDEX_DONE"}
           THEN Ended(c) ELSE {c}
    [] answer = "part" ->
         IF c.state = "AUTO_INDEX_DONE" THEN Ended(c) ELSE {c}
    [] answer = "error" -> {IF c.peerClosed THEN Closed(c) ELSE c}

\* What send() can answer; the set is empty when the call blocks.
SendAnswers(fd) ==
  IF peer[fd] = "reset" THEN {"part", "error"}
  ELSE IF peer[fd] = "gone" THEN {"error"}
  ELSE IF fd \notin stalled THEN {"all"}
  ELSE IF NonBlocking THEN {"part", "error"} ELSE {}

\* A response file that cannot be opened: a bare 500, and the end.
OpenFails(c) == c.place = "DISK" /\ ~c.fdRespond

-----------------------------------------------------------------------------
(***************************************************************************)
(* clsFlow::_clientProcess after ProcessBoth: d is the client it left, p   *)
(* the state of the peer after the system calls.                           *)
(***************************************************************************)

\* clsCGI::RunCGI, clsClient::initializeCGI and clsFlow::_pushPipe.
StartCgi(s, d, p, f) ==
  /\ client' = [client EXCEPT ![s] = [d EXCEPT !.state = "CGI_RUNING"]]
  /\ monitor' = [monitor EXCEPT ![s] = [pid |-> p, pipe |-> f, eof |-> FALSE]]
  /\ pipe' = [pipe EXCEPT ![f] = p]
  /\ child' = [child EXCEPT ![p] = "running"]
  /\ writing' = writing \cup {p}
  /\ output' = output \ {p}
  /\ cgiExpired' = cgiExpired \ {s}
  /\ \/ /\ idByPipe' = [idByPipe EXCEPT ![f] = s]
        /\ interest' = [interest EXCEPT ![f] = "IN"]
     \/ /\ AddMayFail
        /\ UNCHANGED <<idByPipe, interest>>
  /\ UNCHANGED <<available, clientIdByFd, expired>>

\* Fault: the interest of a finished connection stays on EPOLLOUT.
SettleStaysOut(s, d) ==
  /\ client' = [client EXCEPT ![s] = d]
  /\ interest' = [f \in Fds |->
                    IF f = d.socket /\ d.state = "START_RESPOND" THEN "OUT"
                    ELSE interest[f]]
  /\ expired' = IF d.state = "BEGIN" THEN expired \ {s} ELSE expired
  /\ UNCHANGED <<mapVars, monitor, procVars, cgiExpired>>

Settle(s, d) ==
  /\ client' = [client EXCEPT ![s] = d]
  /\ interest' = [f \in Fds |->
                    IF f # d.socket THEN interest[f]
                    ELSE IF d.state = "START_RESPOND" THEN "OUT"
                    ELSE IF d.state = "BEGIN" THEN "IN"
                    ELSE interest[f]]
  /\ expired' = IF d.state = "BEGIN" THEN expired \ {s} ELSE expired
  /\ UNCHANGED <<mapVars, monitor, procVars, cgiExpired>>

After(fd, d, sockets) ==
  LET s == clientIdByFd[fd] IN
  \/ /\ d.state = "CONNECTION_CLOSED"
     /\ FreeClient(fd)
  \/ /\ d.state = "CGI_START"
     /\ \E p \in {q \in Pids : child[q] = "none"}, f \in FreeFds :
          StartCgi(s, d, p, f)
     /\ sockets
     /\ UNCHANGED <<backlog>>
  \/ /\ d.state \in StableStates
     /\ Settle(s, d)
     /\ sockets
     /\ UNCHANGED <<backlog>>

\* EPOLLHUP without EPOLLERR marks the client before it is processed.
Marked(fd) ==
  LET c == client[clientIdByFd[fd]]
  IN [c EXCEPT !.peerClosed = @ \/ "HUP" \in batch[fd]]

ClientEvent(fd) ==
  /\ Take(fd)
  /\ clientIdByFd[fd] # None
  /\ "ERR" \notin batch[fd]

\* A system call that reports the pending error of a socket consumes it.
Consume(f) == IF f # None /\ peer[f] = "reset"
                THEN [peer EXCEPT ![f] = "gone"] ELSE peer

ClientReadable(fd) ==
  LET s == clientIdByFd[fd]
      f == client[s].socket
  IN
  /\ ClientEvent(fd)
  /\ "IN" \in batch[fd]
  /\ \E answer \in RecvAnswers(s) : \E d \in Received(Marked(fd), answer) :
       After(fd, d, /\ input' = IF answer = "bytes" THEN input \ {f} ELSE input
                    /\ peer' = IF answer = "error" THEN Consume(f) ELSE peer
                    /\ UNCHANGED stalled)

\* The part of EPOLLOUT that sends nothing: a CGI is started, another
\* response is asked for, or the state has no work for this event.
ClientWritable(fd) ==
  /\ ClientEvent(fd)
  /\ "IN" \notin batch[fd]
  /\ \E d \in IF "OUT" \in batch[fd] THEN RespondedTwice(Marked(fd))
              ELSE {Marked(fd)} :
       /\ d.state # "RESPOND_MODE" \/ "OUT" \notin batch[fd]
       /\ After(fd, d, UNCHANGED sockVars)

\* The part of EPOLLOUT that ends in _SendRespond.
ClientSends(fd) ==
  LET f == client[clientIdByFd[fd]].socket IN
  /\ ClientEvent(fd)
  /\ "IN" \notin batch[fd]
  /\ "OUT" \in batch[fd]
  /\ \E c \in RespondedTwice(Marked(fd)), answer \in SendAnswers(f) :
       /\ c.state = "RESPOND_MODE"
       /\ \E d \in (UNION {Sent(e, answer) : e \in Filled(c)})
                   \cup (IF OpenFails(c) THEN {Closed(c)} ELSE {}) :
            After(fd, d, /\ peer' = IF answer = "error" THEN Consume(f)
                                    ELSE peer
                         /\ UNCHANGED <<input, stalled>>)

\* EPOLLERR on a connected socket: the client is freed at once.
ClientError(fd) ==
  /\ Take(fd)
  /\ clientIdByFd[fd] # None
  /\ "ERR" \in batch[fd]
  /\ FreeClient(fd)

-----------------------------------------------------------------------------
(***************************************************************************)
(* clsClient::monitorCgi, for EPOLLIN and for EPOLLHUP on a pipe, and      *)
(* clsMonitorCGI::getDataFromCgi and freeCgiRessources.                    *)
(***************************************************************************)

\* Fault: the verdict is set, and the monitor goes on with its CGI.
DecideOnly(s, f, event) ==
  /\ client' = [client EXCEPT ![s].state = "CGI_END", ![s].event = event]
  /\ UNCHANGED <<monitor, child, pipe, writing, output, interest, idByPipe>>
  /\ cgiExpired' = cgiExpired \ {s}

\* Fault: the child and the pipe are released, the monitor still names them.
DecideUnreaped(s, f, event) ==
  LET m == monitor[s] IN
  /\ client' = [client EXCEPT ![s].state = "CGI_END", ![s].event = event]
  /\ UNCHANGED monitor
  /\ FreeCgi(m)
  /\ Unregister({m.pipe})
  /\ PopPipe(f)
  /\ cgiExpired' = cgiExpired \ {s}

\* The monitor of slot s gives up its child (killed and reaped if needed)
\* and its pipe; f is the entry _popPipe erases.
EndCgi(s, f, event) ==
  LET m == monitor[s] IN
  /\ client' = [client EXCEPT ![s].state = "CGI_END", ![s].event = event]
  /\ monitor' = [monitor EXCEPT ![s] = NoCgi]
  /\ FreeCgi(m)
  /\ Unregister({m.pipe})
  /\ PopPipe(f)
  /\ cgiExpired' = cgiExpired \ {s}

PipeEvent(f) ==
  /\ Take(f)
  /\ clientIdByFd[f] = None
  /\ idByPipe[f] # None

\* read() returned bytes: ParseCGI takes them, or finds them wrong and the
\* CGI is killed.
PipeData(f) ==
  LET s == idByPipe[f]
      p == monitor[s].pid
  IN
  /\ PipeEvent(f)
  /\ ~monitor[s].eof
  /\ p \in output
  /\ \/ /\ output' \in {output, output \ {p}}
        /\ UNCHANGED <<client, monitor, child, pipe, interest, writing,
                       idByPipe, cgiExpired>>
     \/ EndCgi(s, f, "END_WITH_PARSE")
  /\ UNCHANGED <<available, clientIdByFd, sockVars, backlog, expired>>

\* read() returned 0, now or earlier: waitpid() tells whether the child is
\* still there, and only its end settles the CGI.
PipeEof(f) ==
  LET s == idByPipe[f]
      p == monitor[s].pid
  IN
  /\ PipeEvent(f)
  /\ monitor[s].eof \/ (p \notin output /\ p \notin writing)
  /\ \/ /\ child[p] = "running"
        /\ monitor' = [monitor EXCEPT ![s].eof = TRUE]
        /\ UNCHANGED <<client, child, pipe, interest, writing, output,
                       idByPipe, cgiExpired>>
     \/ /\ child[p] = "done"
        /\ \E event \in {"THE_END", "END_WITH_PARSE"} : EndCgi(s, f, event)
     \/ /\ child[p] = "failed"
        /\ EndCgi(s, f, "END_UNKNOW")
  /\ UNCHANGED <<available, clientIdByFd, sockVars, backlog, expired>>

-----------------------------------------------------------------------------
\* Fault: the scan may be left out.
SkipCgiScan ==
  /\ pc = "TIMEOUT_CGI"
  /\ pc' = "TIMEOUT_CLIENTS"
  /\ UNCHANGED <<batch, mapVars, client, monitor, interest, sockVars,
                 backlog, procVars, timeVars>>

\* _tryTimeOutCgi: one iteration of the scan, and its end.
TimeoutCgi(f) ==
  LET s == idByPipe[f] IN
  /\ pc = "TIMEOUT_CGI"
  /\ s # None
  /\ s \in cgiExpired
  /\ EndCgi(s, f, "END_WITH_TIMOUT")
  /\ UNCHANGED <<loopVars, available, clientIdByFd, sockVars, backlog, expired>>

TimeoutCgiDone ==
  /\ pc = "TIMEOUT_CGI"
  /\ \A f \in Fds : idByPipe[f] = None \/ idByPipe[f] \notin cgiExpired
  /\ pc' = "TIMEOUT_CLIENTS"
  /\ UNCHANGED <<batch, mapVars, client, monitor, interest, sockVars,
                 backlog, procVars, timeVars>>

\* Fault: the scan frees a client whatever its last activity was.
TimeoutAnyClient(fd) ==
  /\ pc = "TIMEOUT_CLIENTS"
  /\ clientIdByFd[fd] # None
  /\ FreeClient(fd)
  /\ UNCHANGED loopVars

\* Fault: the scan looks at the time of another slot than the one it frees.
TimeoutNeighbour(fd) ==
  /\ pc = "TIMEOUT_CLIENTS"
  /\ clientIdByFd[fd] # None
  /\ expired # {}
  /\ FreeClient(fd)
  /\ UNCHANGED loopVars

\* Fault: the scan may be left out.
SkipClientScan ==
  /\ pc = "TIMEOUT_CLIENTS"
  /\ pc' = "WAIT"
  /\ UNCHANGED <<batch, mapVars, client, monitor, interest, sockVars,
                 backlog, procVars, timeVars>>

\* Fault: the scan leaves idle connections alone.
SkipIdleClients ==
  /\ pc = "TIMEOUT_CLIENTS"
  /\ \A fd \in Fds :
       clientIdByFd[fd] \in expired => client[clientIdByFd[fd]].state = "BEGIN"
  /\ pc' = "WAIT"
  /\ UNCHANGED <<batch, mapVars, client, monitor, interest, sockVars,
                 backlog, procVars, timeVars>>

\* _tryTimeOutClients: one iteration of the scan, and its end.
TimeoutClient(fd) ==
  /\ pc = "TIMEOUT_CLIENTS"
  /\ clientIdByFd[fd] # None
  /\ clientIdByFd[fd] \in expired
  /\ FreeClient(fd)
  /\ UNCHANGED loopVars

TimeoutClientsDone ==
  /\ pc = "TIMEOUT_CLIENTS"
  /\ \A fd \in Fds : clientIdByFd[fd] = None \/ clientIdByFd[fd] \notin expired
  /\ pc' = "WAIT"
  /\ UNCHANGED <<batch, mapVars, client, monitor, interest, sockVars,
                 backlog, procVars, timeVars>>

Server ==
  \/ Poll
  \/ AcceptClient
  \/ AcceptDropped
  \/ AcceptFails
  \/ \E f \in Fds : \/ UnknownEvent(f)
                    \/ ClientReadable(f)
                    \/ ClientWritable(f)
                    \/ ClientSends(f)
                    \/ ClientError(f)
                    \/ PipeData(f)
                    \/ PipeEof(f)
                    \/ TimeoutCgi(f)
                    \/ TimeoutClient(f)
  \/ TimeoutCgiDone
  \/ TimeoutClientsDone

-----------------------------------------------------------------------------
(***************************************************************************)
(* The outside: peers, CGI children, and the clock.                        *)
(***************************************************************************)
serverVars == <<pc, batch, available, clientIdByFd, idByPipe, client,
                monitor, interest>>

PeerConnects ==
  /\ backlog < MaxBacklog
  /\ backlog' = backlog + 1
  /\ UNCHANGED <<serverVars, sockVars, procVars, timeVars>>

PeerSends(f) ==
  /\ peer[f] = "open"
  /\ f \notin input
  /\ input' = input \cup {f}
  /\ UNCHANGED <<serverVars, peer, stalled, backlog, procVars, timeVars>>

PeerCloses(f) ==
  /\ peer[f] = "open"
  /\ peer' = [peer EXCEPT ![f] = "fin"]
  /\ UNCHANGED <<serverVars, input, stalled, backlog, procVars, timeVars>>

PeerResets(f) ==
  /\ peer[f] \in {"open", "fin"}
  /\ peer' = [peer EXCEPT ![f] = "reset"]
  /\ stalled' = stalled \ {f}
  /\ UNCHANGED <<serverVars, input, backlog, procVars, timeVars>>

PeerStalls(f) ==
  /\ PeersMayStall
  /\ peer[f] \in {"open", "fin"}
  /\ f \notin stalled
  /\ stalled' = stalled \cup {f}
  /\ UNCHANGED <<serverVars, peer, input, backlog, procVars, timeVars>>

PeerDrains(f) ==
  /\ f \in stalled
  /\ stalled' = stalled \ {f}
  /\ UNCHANGED <<serverVars, peer, input, backlog, procVars, timeVars>>

ChildWrites(p) ==
  /\ p \in writing
  /\ p \notin output
  /\ output' = output \cup {p}
  /\ UNCHANGED <<serverVars, sockVars, backlog, pipe, child, writing, timeVars>>

\* The child closes its stdout, or the last process it left behind does.
ChildClosesStdout(p) ==
  /\ p \in writing
  /\ writing' = writing \ {p}
  /\ UNCHANGED <<serverVars, sockVars, backlog, pipe, child, output, timeVars>>

\* The child exits; a process it started may go on writing into the pipe.
ChildExits(p) ==
  /\ child[p] = "running"
  /\ \E status \in {"done", "failed"} : child' = [child EXCEPT ![p] = status]
  /\ writing' \in {writing, writing \ {p}}
  /\ UNCHANGED <<serverVars, sockVars, backlog, pipe, output, timeVars>>

ClientTimePasses(s) ==
  /\ \E f \in Fds : clientIdByFd[f] = s
  /\ s \notin expired
  /\ expired' = expired \cup {s}
  /\ UNCHANGED <<serverVars, sockVars, backlog, procVars, cgiExpired>>

CgiTimePasses(s) ==
  /\ monitor[s].pid # None
  /\ s \notin cgiExpired
  /\ cgiExpired' = cgiExpired \cup {s}
  /\ UNCHANGED <<serverVars, sockVars, backlog, procVars, expired>>

Outside ==
  \/ PeerConnects
  \/ \E f \in Fds : \/ PeerSends(f) \/ PeerCloses(f) \/ PeerResets(f)
                    \/ PeerStalls(f) \/ PeerDrains(f)
  \/ \E p \in Pids : ChildWrites(p) \/ ChildClosesStdout(p) \/ ChildExits(p)
  \/ \E s \in Slots : ClientTimePasses(s) \/ CgiTimePasses(s)

Next == Server \/ Outside

Spec == Init /\ [][Next]_vars

-----------------------------------------------------------------------------
(***************************************************************************)
(* Safety.                                                                 *)
(***************************************************************************)
InUse(s) == \E f \in Fds : clientIdByFd[f] = s

\* No slot is lost and none is given twice: every slot is on the stack of
\* free slots exactly once, or is the slot of exactly one connection, whatever
\* order of events, timeouts and failed registrations it went through
\* (_getClient, _freeClient, _insertClient).
SlotConservation ==
  /\ \A i, j \in 1 .. Len(available) :
       available[i] = available[j] => i = j
  /\ \A f, g \in Fds :
       clientIdByFd[f] # None /\ clientIdByFd[f] = clientIdByFd[g] => f = g
  /\ \A s \in Slots :
       InUse(s) <=> ~ \E i \in 1 .. Len(available) : available[i] = s

\* Every open socket is reachable through _clientIdByFd by the slot that
\* will close it, and every slot's _socket is open and its own; only a failed
\* registration leaves a mapped slot without its socket.
SocketAccounting ==
  /\ \A f \in Fds :
       clientIdByFd[f] # None =>
         \/ client[clientIdByFd[f]].socket = f
         \/ AddMayFail /\ client[clientIdByFd[f]].socket = None
  /\ \A s \in Slots :
       LET f == client[s].socket IN
       f # None => clientIdByFd[f] = s /\ peer[f] # "none"
  /\ AddMayFail \/ \A f \in Fds : peer[f] # "none" => clientIdByFd[f] # None

\* No CGI child is orphaned, shared or left as a zombie: a process that has
\* not been reaped belongs to the monitor of exactly one slot, whose
\* connection is alive and waiting for it in CGI_RUNING.
JobOwnership ==
  /\ \A p \in Pids : child[p] # "none" => \E s \in Slots : monitor[s].pid = p
  /\ \A s, t \in Slots :
       monitor[s].pid # None /\ monitor[s].pid = monitor[t].pid => s = t
  /\ \A s \in Slots :
       /\ monitor[s].pid # None <=> client[s].state = "CGI_RUNING"
       /\ monitor[s].pid # None =>
            InUse(s) /\ child[monitor[s].pid] # "none"

\* _IdByPipe is exact although four handlers maintain it and the kernel
\* reuses numbers: an entry names the slot whose monitor reads that pipe, no
\* running CGI is missing from it unless its registration failed, and no pipe
\* stays open without a monitor.
PipeMapExact ==
  /\ \A f \in Fds :
       idByPipe[f] # None => /\ monitor[idByPipe[f]].pipe = f
                             /\ interest[f] = "IN"
  /\ \A s \in Slots :
       LET f == monitor[s].pipe IN
       f # None => /\ pipe[f] = monitor[s].pid
                   /\ idByPipe[f] = s \/ AddMayFail
                   /\ clientIdByFd[f] = None
  /\ \A f \in Fds :
       pipe[f] # None => \E s \in Slots : monitor[s].pipe = f

\* The interest epoll has for a connection follows its state, so that bytes
\* of a pipelined request are never read into the buffers of the response
\* being built from them: only BEGIN and REQUEST_MODE listen for input.
InterestFollowsState ==
  \A s \in Slots :
    LET f == client[s].socket IN
    f # None =>
      interest[f] = IF client[s].state \in {"BEGIN", "REQUEST_MODE"}
                      THEN "IN" ELSE "OUT"

\* The file of a response is open only while that response is being sent: a
\* new request, a failed send or a timeout never starts on top of an open one.
ResponseFileOwned ==
  \A s \in Slots :
    client[s].fdRespond =>
      InUse(s) /\ client[s].state \in {"RESPOND_MODE", "LAST_CHUNKED"}

-----------------------------------------------------------------------------
(***************************************************************************)
(* Action properties.                                                      *)
(***************************************************************************)

\* A connection is taken away from a peer that is still there only when its
\* 60 seconds are over or by its own writable event: in particular not
\* while a CGI works for it, not in the middle of a request, and not by an
\* event of the batch that was meant for an earlier owner of its number.
FreedForCause ==
  [][\A f \in Fds :
       clientIdByFd[f] # None /\ clientIdByFd'[f] = None =>
         \/ peer[f] # "open"
         \/ clientIdByFd[f] \in expired
         \/ /\ "OUT" \in batch[f]
            /\ client[clientIdByFd[f]].state \in
                 {"START_RESPOND", "CGI_END", "RESPOND_MODE"}]_vars

\* A CGI is decided once: its verdict is set by the handler that ends the
\* running child of the same connection, and neither a late event of its
\* pipe nor the timeout scan changes it before the client has read it.
VerdictOnce ==
  [][\A s \in Slots :
       client'[s].state = "CGI_END" =>
         \/ /\ client[s].state = "CGI_RUNING"
            /\ client'[s].socket = client[s].socket
         \/ /\ client[s].state = "CGI_END"
            /\ client'[s].event = client[s].event]_vars

\* A new connection starts with nothing of the earlier owners of its slot and
\* of its number, whatever they died of and whatever events of the same batch
\* came after: _insertClient never overwrites the map entry of a connection
\* that still has one, and finds no CGI in the slot's monitor, no pipe whose
\* output would end in its response, and no half-sent response.
FreshStart ==
  [][\A f \in Fds :
       LET s == clientIdByFd'[f] IN
       s \notin {None, clientIdByFd[f]} =>
         /\ clientIdByFd[f] = None
         /\ idByPipe[f] = None
         /\ \A g \in Fds : idByPipe[g] # s
         /\ monitor[s].pid = None /\ monitor[s].pipe = None
         /\ client[s].state = "BEGIN" /\ client[s].socket = None
         /\ client[s].place = "NONE" /\ ~client[s].fdRespond]_vars

-----------------------------------------------------------------------------
(***************************************************************************)
(* The event loop implements ClientSlots.                                  *)
(***************************************************************************)
PhaseOf(s) ==
  IF ~InUse(s) THEN "free"
  ELSE CASE client[s].state = "BEGIN" -> "idle"
         [] client[s].state = "REQUEST_MODE" -> "reading"
         [] client[s].state = "CGI_RUNING" -> "cgi"
         [] client[s].state = "CGI_END" -> "decided"
         [] OTHER -> "answering"

Promise == INSTANCE ClientSlots WITH
  phase <- [s \in Slots |-> PhaseOf(s)],
  jobs <- {s \in Slots : monitor[s].pid # None}

\* Every step of the event loop is a step of ClientSlots or none of its
\* business: whatever the interleaving of events, fd reuse and timeouts, each
\* slot goes through the phases of one connection at a time.
KeepsPromise == Promise!Spec

-----------------------------------------------------------------------------
(***************************************************************************)
(* What the repository says: the descriptors of the clients are switched   *)
(* "to non blocking" (linker/clsFlow.cpp:268).                             *)
(***************************************************************************)

\* The call a pending event of a client leads to can return without waiting
\* for the peer.
NeverWaitsForPeer ==
  \A f \in Fds :
    LET s == clientIdByFd[f] IN
    s # None /\ pc = "DISPATCH" =>
      /\ "IN" \in batch[f] => RecvAnswers(s) # {}
      /\ "OUT" \in batch[f] /\ client[s].state = "RESPOND_MODE"
           => SendAnswers(f) # {}
=============================================================================
