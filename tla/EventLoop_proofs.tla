--------------------------- MODULE EventLoop_proofs ---------------------------
(***************************************************************************)
(* What EventLoop keeps for every number of slots, descriptors and         *)
(* processes.                                                              *)
(***************************************************************************)
EXTENDS EventLoop, SequenceTheorems, TLAPS

\* A client in the hands of a handler: its state may be one of the two that
\* no handler leaves behind.
Handled(c) ==
  c \in [state: clinetState, socket: Fds \cup {None}, peerClosed: BOOLEAN,
         counter: 0 .. MaxInternalLoop, full: BOOLEAN, page: BOOLEAN,
         place: bodyPlace, fdRespond: BOOLEAN, event: eEventProcess]

\* The part of TypeOK that is not about the position of the loop.
StateOK ==
  /\ available \in Seq(Slots)
  /\ clientIdByFd \in [Fds -> Slots \cup {None}]
  /\ idByPipe \in [Fds -> Slots \cup {None}]
  /\ client \in [Slots -> Client]
  /\ monitor \in [Slots -> Monitor]
  /\ interest \in [Fds -> {"NONE", "IN", "OUT"}]
  /\ peer \in [Fds -> {"none", "open", "fin", "reset", "gone"}]
  /\ input \in SUBSET Fds
  /\ stalled \in SUBSET Fds
  /\ backlog \in 0 .. MaxBacklog
  /\ pipe \in [Fds -> Pids \cup {None}]
  /\ child \in [Pids -> {"none", "running", "done", "failed"}]
  /\ writing \in SUBSET Pids
  /\ output \in SUBSET Pids
  /\ expired \in SUBSET Slots
  /\ cgiExpired \in SUBSET Slots

LoopOK ==
  /\ pc \in {"WAIT", "DISPATCH", "TIMEOUT_CGI", "TIMEOUT_CLIENTS"}
  /\ batch \in [Fds \cup {ServerFd} -> SUBSET Flags]

\* TypeOK in two parts.
LEMMA TypeOKSplit == TypeOK <=> LoopOK /\ StateOK
  BY DEF TypeOK, LoopOK, StateOK

-----------------------------------------------------------------------------
(***************************************************************************)
(* What a handler makes of a client: it stays a client, and keeps its      *)
(* socket.                                                                 *)
(***************************************************************************)
LEMMA MarkedHandled ==
  ASSUME StateOK, NEW fd \in Fds, clientIdByFd[fd] # None
  PROVE  Handled(Marked(fd)) /\ Marked(fd).socket = client[clientIdByFd[fd]].socket
<1> DEFINE c == client[clientIdByFd[fd]]
           closed == c.peerClosed \/ "HUP" \in batch[fd]
<1>1. c \in Client
  BY DEF StateOK
<1>2. Handled(c)
  BY <1>1 DEF Handled, Client, clinetState
<1>3. closed \in BOOLEAN
  OBVIOUS
<1>4. Marked(fd) = [c EXCEPT !.peerClosed = closed]
  BY DEF Marked
<1>5. QED
  BY <1>2, <1>3, <1>4 DEF Handled

LEMMA ReceivedHandled ==
  ASSUME NEW c, Handled(c), NEW answer \in {"error", "zero", "eof", "bytes"},
         NEW d \in Received(c, answer)
  PROVE  Handled(d) /\ d.socket = c.socket
<1>0. 0 \in 0 .. MaxInternalLoop
  BY LoopAssumption
<1> DEFINE reading == [c EXCEPT !.state = "REQUEST_MODE", !.counter = 0]
<1>a. Handled(reading) /\ reading.socket = c.socket
  BY <1>0 DEF Handled, clinetState, StableStates
<1>1. CASE answer \in {"error", "zero"}
  <2>1. d = reading
    BY <1>1 DEF Received
  <2>2. QED
    BY <1>a, <2>1
<1>2. CASE answer = "eof"
  <2>1. d = [reading EXCEPT !.state = "CONNECTION_CLOSED"]
    BY <1>2 DEF Received
  <2> HIDE DEF reading
  <2>2. QED
    BY <1>a, <2>1 DEF Handled, clinetState
<1>3. CASE answer = "bytes"
  <2>1. CASE d = reading
    BY <1>a, <2>1
  <2> HIDE DEF reading
  <2>2. CASE d = [reading EXCEPT !.full = TRUE]
    BY <1>a, <2>2 DEF Handled
  <2>3. CASE d = [reading EXCEPT !.state = "START_RESPOND", !.full = FALSE]
    BY <1>a, <2>3 DEF Handled, clinetState, StableStates
  <2>4. CASE d = [reading EXCEPT !.state = "START_RESPOND", !.full = FALSE,
                                 !.page = TRUE]
    BY <1>a, <2>4 DEF Handled, clinetState, StableStates
  <2>5. QED
    BY <1>3, <2>1, <2>2, <2>3, <2>4 DEF Received, reading
<1>4. QED
  BY <1>1, <1>2, <1>3

LEMMA InitRespondHandled ==
  ASSUME NEW c, Handled(c), NEW verdict \in {"again", "plain"},
         NEW d \in InitRespond(c, verdict)
  PROVE  Handled(d) /\ d.socket = c.socket
<1>0. 0 \in 0 .. MaxInternalLoop /\ 1 \in 0 .. MaxInternalLoop
  BY LoopAssumption
<1>1. CASE c.counter = MaxInternalLoop
  <2>1. d = [c EXCEPT !.state = "START_RESPOND", !.counter = 1, !.page = TRUE,
                      !.event = "RUNINNG"]
    BY <1>1 DEF InitRespond
  <2>2. QED
    BY <1>0, <2>1 DEF Handled, clinetState, StableStates, eEventProcess
<1>2. CASE c.counter # MaxInternalLoop /\ verdict = "again"
  <2>1. d = [c EXCEPT !.state = "START_RESPOND", !.counter = c.counter + 1,
                      !.event = "RUNINNG"]
    BY <1>2 DEF InitRespond
  <2>2. c.counter + 1 \in 0 .. MaxInternalLoop
    BY <1>2, LoopAssumption DEF Handled
  <2>3. QED
    BY <2>1, <2>2 DEF Handled, clinetState, StableStates, eEventProcess
<1>3. CASE c.counter # MaxInternalLoop /\ verdict = "plain"
  <2>1. PICK b \in BodyPlaces :
          d = [c EXCEPT !.state = "RESPOND_MODE", !.place = b, !.counter = 0,
                        !.page = FALSE, !.event = "RUNINNG"]
    BY <1>3 DEF InitRespond
  <2>2. QED
    BY <1>0, <2>1 DEF Handled, clinetState, StableStates, eEventProcess,
                      bodyPlace
<1>4. QED
  BY <1>1, <1>2, <1>3

LEMMA RespondedHandled ==
  ASSUME NEW c, Handled(c), NEW d \in Responded(c)
  PROVE  Handled(d) /\ d.socket = c.socket
<1>1. CASE c.state = "START_RESPOND"
  <2>1. CASE c.page
    BY <1>1, <2>1, InitRespondHandled DEF Responded
  <2>2. CASE ~c.page
    <3>1. \/ d = [c EXCEPT !.state = "CGI_START"]
          \/ d \in InitRespond(c, "plain")
          \/ d \in InitRespond(c, "again")
      BY <1>1, <2>2 DEF Responded
    <3>2. QED
      BY <3>1, InitRespondHandled DEF Handled, clinetState
  <2>3. QED
    BY <2>1, <2>2
<1>2. CASE c.state = "CGI_END"
  <2>1. PICK v \in CgiVerdicts(c.event) : d \in InitRespond(c, v)
    BY <1>2 DEF Responded
  <2>2. v \in {"again", "plain"}
    BY <2>1 DEF CgiVerdicts
  <2>3. QED
    BY <2>1, <2>2, InitRespondHandled
<1>3. CASE c.state \notin {"START_RESPOND", "CGI_END"}
  BY <1>3 DEF Responded
<1>4. QED
  BY <1>1, <1>2, <1>3

LEMMA RespondedTwiceHandled ==
  ASSUME NEW c, Handled(c), NEW d \in RespondedTwice(c)
  PROVE  Handled(d) /\ d.socket = c.socket
<1>1. PICK e \in Responded(c) :
        d \in IF e.state = "START_RESPOND" THEN Responded(e) ELSE {e}
  BY DEF RespondedTwice
<1>2. Handled(e) /\ e.socket = c.socket
  BY RespondedHandled
<1>3. QED
  BY <1>1, <1>2, RespondedHandled

LEMMA FilledHandled ==
  ASSUME NEW c, Handled(c), NEW d \in Filled(c)
  PROVE  Handled(d) /\ d.socket = c.socket
<1>1. \/ d = c
      \/ d = [c EXCEPT !.fdRespond = TRUE]
      \/ d = [c EXCEPT !.fdRespond = TRUE, !.state = "LAST_CHUNKED"]
      \/ d = [c EXCEPT !.state = "AUTO_INDEX_DONE"]
  BY DEF Filled
<1>2. CASE d = [c EXCEPT !.fdRespond = TRUE]
  BY <1>2 DEF Handled
<1>3. CASE d = [c EXCEPT !.fdRespond = TRUE, !.state = "LAST_CHUNKED"]
  BY <1>3 DEF Handled, clinetState, StableStates
<1>4. CASE d = [c EXCEPT !.state = "AUTO_INDEX_DONE"]
  BY <1>4 DEF Handled, clinetState, StableStates
<1>5. QED
  BY <1>1, <1>2, <1>3, <1>4

LEMMA SentHandled ==
  ASSUME NEW c, Handled(c), NEW answer \in {"all", "part", "error"},
         NEW d \in Sent(c, answer)
  PROVE  Handled(d) /\ d.socket = c.socket
<1>1. ASSUME NEW e \in Ended(c)
      PROVE  Handled(e) /\ e.socket = c.socket
  <2>1. PICK st \in {"BEGIN", "CONNECTION_CLOSED"} :
          e = [c EXCEPT !.state = st, !.place = "NONE", !.fdRespond = FALSE]
    BY DEF Ended
  <2>2. QED
    BY <2>1 DEF Handled, clinetState, StableStates, bodyPlace
<1>2. Handled(Closed(c)) /\ Closed(c).socket = c.socket
  BY DEF Closed, Handled, clinetState
<1>3. CASE answer = "all"
  BY <1>1, <1>3 DEF Sent
<1>4. CASE answer = "part"
  BY <1>1, <1>4 DEF Sent
<1>5. CASE answer = "error"
  BY <1>2, <1>5 DEF Sent
<1>6. QED
  BY <1>3, <1>4, <1>5

-----------------------------------------------------------------------------
(***************************************************************************)
(* The three handlers of a client event, seen from outside: what they do   *)
(* to the slot, given the client d they leave.                             *)
(***************************************************************************)

\* The system calls on sockets neither open nor close one, nor revive it.
SocketsKept ==
  /\ peer' \in [Fds -> {"none", "open", "fin", "reset", "gone"}]
  /\ \A f \in Fds : peer'[f] = "none" <=> peer[f] = "none"
  /\ \A f \in Fds : peer[f] \in {"reset", "gone"} => peer'[f] \in {"reset", "gone"}
  /\ input' \in SUBSET Fds
  /\ stalled' \in SUBSET Fds

Leaves(fd, d) ==
  LET s == clientIdByFd[fd] IN
  \/ d.state = "CONNECTION_CLOSED" /\ FreeClient(fd)
  \/ /\ d.state = "CGI_START"
     /\ \E p \in {q \in Pids : child[q] = "none"}, f \in FreeFds :
          StartCgi(s, d, p, f)
     /\ SocketsKept
     /\ backlog' = backlog
  \/ /\ d.state \in StableStates
     /\ Settle(s, d)
     /\ SocketsKept
     /\ backlog' = backlog

\* Where that client comes from.
Read(fd, d) ==
  /\ "IN" \in batch[fd]
  /\ \E answer \in RecvAnswers(clientIdByFd[fd]) : d \in Received(Marked(fd), answer)

Written(fd, d) ==
  d \in IF "OUT" \in batch[fd] THEN RespondedTwice(Marked(fd)) ELSE {Marked(fd)}

Sending(fd, d) ==
  /\ "OUT" \in batch[fd]
  /\ \E c \in RespondedTwice(Marked(fd)) :
       \E answer \in SendAnswers(client[clientIdByFd[fd]].socket) :
         /\ c.state = "RESPOND_MODE"
         /\ d \in (UNION {Sent(e, answer) : e \in Filled(c)})
                  \cup (IF OpenFails(c) THEN {Closed(c)} ELSE {})

HandlerStep(fd) ==
  /\ ClientEvent(fd)
  /\ \E d : /\ Handled(d)
            /\ d.socket = client[clientIdByFd[fd]].socket
            /\ Read(fd, d) \/ Written(fd, d) \/ Sending(fd, d)
            /\ Leaves(fd, d)

LEMMA ConsumeKept ==
  ASSUME StateOK, NEW f
  PROVE  /\ Consume(f) \in [Fds -> {"none", "open", "fin", "reset", "gone"}]
         /\ \A g \in Fds : Consume(f)[g] = "none" <=> peer[g] = "none"
         /\ \A g \in Fds : peer[g] \in {"reset", "gone"} =>
                             Consume(f)[g] \in {"reset", "gone"}
  BY DEF StateOK, Consume

LEMMA ReadableStep ==
  ASSUME StateOK, NEW fd \in Fds, ClientReadable(fd)
  PROVE  HandlerStep(fd)
<1> DEFINE s == clientIdByFd[fd]
           f == client[s].socket
<1>1. ClientEvent(fd) /\ s # None
  BY DEF ClientReadable, ClientEvent
<1>2. PICK answer \in RecvAnswers(s) : \E d \in Received(Marked(fd), answer) :
        After(fd, d, /\ input' = IF answer = "bytes" THEN input \ {f} ELSE input
                     /\ peer' = IF answer = "error" THEN Consume(f) ELSE peer
                     /\ UNCHANGED stalled)
  BY Zenon DEF ClientReadable
<1>3. PICK d \in Received(Marked(fd), answer) :
        After(fd, d, /\ input' = IF answer = "bytes" THEN input \ {f} ELSE input
                     /\ peer' = IF answer = "error" THEN Consume(f) ELSE peer
                     /\ UNCHANGED stalled)
  BY <1>2
<1>4. answer \in {"error", "zero", "eof", "bytes"}
  BY DEF RecvAnswers
<1>5. Handled(d) /\ d.socket = f
  BY <1>1, <1>4, MarkedHandled, ReceivedHandled
<1>6. ASSUME /\ input' = IF answer = "bytes" THEN input \ {f} ELSE input
             /\ peer' = IF answer = "error" THEN Consume(f) ELSE peer
             /\ UNCHANGED stalled
      PROVE  SocketsKept
  BY <1>6, ConsumeKept DEF SocketsKept, StateOK
<1>7. Leaves(fd, d)
  BY <1>3, <1>6 DEF After, Leaves
<1>8. Read(fd, d)
  BY DEF ClientReadable, Read
<1>9. QED
  BY <1>1, <1>5, <1>7, <1>8 DEF HandlerStep

LEMMA WritableStep ==
  ASSUME StateOK, NEW fd \in Fds, ClientWritable(fd)
  PROVE  HandlerStep(fd)
<1>1. ClientEvent(fd) /\ clientIdByFd[fd] # None
  BY DEF ClientWritable, ClientEvent
<1>2. PICK d \in IF "OUT" \in batch[fd] THEN RespondedTwice(Marked(fd))
                 ELSE {Marked(fd)} :
        After(fd, d, UNCHANGED sockVars)
  BY DEF ClientWritable
<1>3. Handled(d) /\ d.socket = client[clientIdByFd[fd]].socket
  BY <1>1, MarkedHandled, RespondedTwiceHandled
<1>4. ASSUME UNCHANGED sockVars PROVE SocketsKept
  BY <1>4 DEF SocketsKept, StateOK, sockVars
<1>5. Leaves(fd, d)
  BY <1>2, <1>4 DEF After, Leaves
<1>6. Written(fd, d)
  BY DEF Written
<1>7. QED
  BY <1>1, <1>3, <1>5, <1>6 DEF HandlerStep

LEMMA SendsStep ==
  ASSUME StateOK, NEW fd \in Fds, ClientSends(fd)
  PROVE  HandlerStep(fd)
<1> DEFINE f == client[clientIdByFd[fd]].socket
<1>1. ClientEvent(fd) /\ clientIdByFd[fd] # None
  BY DEF ClientSends, ClientEvent
<1>2. PICK c \in RespondedTwice(Marked(fd)), answer \in SendAnswers(f) :
        /\ c.state = "RESPOND_MODE"
        /\ \E d \in (UNION {Sent(e, answer) : e \in Filled(c)})
                    \cup (IF OpenFails(c) THEN {Closed(c)} ELSE {}) :
             After(fd, d, /\ peer' = IF answer = "error" THEN Consume(f) ELSE peer
                          /\ UNCHANGED <<input, stalled>>)
  BY DEF ClientSends
<1>3. PICK d \in (UNION {Sent(e, answer) : e \in Filled(c)})
                 \cup (IF OpenFails(c) THEN {Closed(c)} ELSE {}) :
        After(fd, d, /\ peer' = IF answer = "error" THEN Consume(f) ELSE peer
                     /\ UNCHANGED <<input, stalled>>)
  BY <1>2
<1>4. answer \in {"all", "part", "error"}
  BY DEF SendAnswers
<1>5. Handled(c) /\ c.socket = f
  BY <1>1, MarkedHandled, RespondedTwiceHandled
<1>6. Handled(d) /\ d.socket = f
  <2>1. CASE d \in UNION {Sent(e, answer) : e \in Filled(c)}
    <3>1. PICK e \in Filled(c) : d \in Sent(e, answer)
      BY <2>1
    <3>2. QED
      BY <1>4, <1>5, <3>1, FilledHandled, SentHandled
  <2>2. CASE d = Closed(c)
    BY <1>5, <2>2 DEF Closed, Handled, clinetState
  <2> DEFINE ends == UNION {Sent(e, answer) : e \in Filled(c)}
             fails == IF OpenFails(c) THEN {Closed(c)} ELSE {}
  <2>3. d \in ends \cup fails
    OBVIOUS
  <2>4. d \in fails => d = Closed(c)
    OBVIOUS
  <2> HIDE DEF ends, fails
  <2>5. d \in ends \/ d = Closed(c)
    BY <2>3, <2>4
  <2>6. QED
    BY <2>1, <2>2, <2>5 DEF ends
<1>7. ASSUME /\ peer' = IF answer = "error" THEN Consume(f) ELSE peer
             /\ UNCHANGED <<input, stalled>>
      PROVE  SocketsKept
  BY <1>7, ConsumeKept DEF SocketsKept, StateOK
<1>8. Leaves(fd, d)
  BY <1>3, <1>7 DEF After, Leaves
<1>9. Sending(fd, d)
  BY <1>2, <1>3 DEF ClientSends, Sending
<1>10. QED
  BY <1>1, <1>6, <1>8, <1>9 DEF HandlerStep

-----------------------------------------------------------------------------
(***************************************************************************)
(* Every handler keeps the types.                                          *)
(***************************************************************************)
LEMMA FreedClientType == FreedClient \in Client
  BY LoopAssumption DEF FreedClient, Client, StableStates, bodyPlace,
                        eEventProcess

LEMMA NoCgiType == NoCgi \in Monitor
  BY DEF NoCgi, Monitor

LEMMA FreeCgiType ==
  ASSUME StateOK, NEW m, FreeCgi(m)
  PROVE  /\ child' \in [Pids -> {"none", "running", "done", "failed"}]
         /\ pipe' \in [Fds -> Pids \cup {None}]
         /\ writing' \in SUBSET Pids
         /\ output' \in SUBSET Pids
  BY DEF FreeCgi, StateOK

LEMMA FreeClientType ==
  ASSUME StateOK, NEW fd \in Fds, clientIdByFd[fd] # None, FreeClient(fd)
  PROVE  StateOK'
<1> DEFINE s == clientIdByFd[fd]
           m == monitor[s]
           f == client[s].socket
<1>0. s \in Slots
  BY DEF StateOK
<1>1. available' \in Seq(Slots) /\ clientIdByFd' \in [Fds -> Slots \cup {None}]
  BY <1>0 DEF FreeClient, GiveBack, StateOK
<1>2. idByPipe' \in [Fds -> Slots \cup {None}]
  BY DEF FreeClient, PopPipe, StateOK
<1>3. client' \in [Slots -> Client] /\ monitor' \in [Slots -> Monitor]
  BY <1>0, FreedClientType, NoCgiType DEF FreeClient, StateOK
<1>4. interest' \in [Fds -> {"NONE", "IN", "OUT"}]
  BY DEF FreeClient, Unregister, StateOK
<1>5. /\ peer' \in [Fds -> {"none", "open", "fin", "reset", "gone"}]
      /\ input' \in SUBSET Fds
      /\ stalled' \in SUBSET Fds
  BY DEF FreeClient, CloseSocket, StateOK
<1>6. /\ child' \in [Pids -> {"none", "running", "done", "failed"}]
      /\ pipe' \in [Fds -> Pids \cup {None}]
      /\ writing' \in SUBSET Pids
      /\ output' \in SUBSET Pids
  BY FreeCgiType DEF FreeClient
<1>7. /\ backlog' \in 0 .. MaxBacklog
      /\ expired' \in SUBSET Slots
      /\ cgiExpired' \in SUBSET Slots
  BY DEF FreeClient, StateOK
<1>8. QED
  BY <1>1, <1>2, <1>3, <1>4, <1>5, <1>6, <1>7 DEF StateOK

LEMMA StartCgiType ==
  ASSUME StateOK, NEW s \in Slots, NEW d, Handled(d), NEW p \in Pids,
         NEW f \in Fds, StartCgi(s, d, p, f), SocketsKept, backlog' = backlog
  PROVE  StateOK'
<1>1. client' \in [Slots -> Client]
  <2>1. [d EXCEPT !.state = "CGI_RUNING"] \in Client
    BY DEF Handled, Client, StableStates
  <2>2. QED
    BY <2>1 DEF StartCgi, StateOK
<1>2. monitor' \in [Slots -> Monitor]
  BY DEF StartCgi, StateOK, Monitor
<1>3. /\ pipe' \in [Fds -> Pids \cup {None}]
      /\ child' \in [Pids -> {"none", "running", "done", "failed"}]
      /\ writing' \in SUBSET Pids
      /\ output' \in SUBSET Pids
      /\ cgiExpired' \in SUBSET Slots
  BY DEF StartCgi, StateOK
<1>4. /\ idByPipe' \in [Fds -> Slots \cup {None}]
      /\ interest' \in [Fds -> {"NONE", "IN", "OUT"}]
  <2>1. /\ [idByPipe EXCEPT ![f] = s] \in [Fds -> Slots \cup {None}]
        /\ [interest EXCEPT ![f] = "IN"] \in [Fds -> {"NONE", "IN", "OUT"}]
        /\ idByPipe \in [Fds -> Slots \cup {None}]
        /\ interest \in [Fds -> {"NONE", "IN", "OUT"}]
    BY DEF StateOK
  <2>2. \/ idByPipe' = [idByPipe EXCEPT ![f] = s]
           /\ interest' = [interest EXCEPT ![f] = "IN"]
        \/ idByPipe' = idByPipe /\ interest' = interest
    BY DEF StartCgi
  <2>3. QED
    BY <2>1, <2>2
<1>5. UNCHANGED <<available, clientIdByFd, expired>>
  BY DEF StartCgi
<1>6. QED
  BY <1>1, <1>2, <1>3, <1>4, <1>5 DEF StateOK, SocketsKept

LEMMA SettleType ==
  ASSUME StateOK, NEW s \in Slots, NEW d, Handled(d), d.state \in StableStates,
         Settle(s, d), SocketsKept, backlog' = backlog
  PROVE  StateOK'
<1>1. client' \in [Slots -> Client]
  <2>1. d \in Client
    BY DEF Handled, Client
  <2>2. QED
    BY <2>1 DEF Settle, StateOK
<1>2. interest' \in [Fds -> {"NONE", "IN", "OUT"}]
  BY DEF Settle, StateOK
<1>3. expired' \in SUBSET Slots
  BY DEF Settle, StateOK
<1>4. UNCHANGED <<mapVars, monitor, procVars, cgiExpired>>
  BY DEF Settle
<1>5. QED
  BY <1>1, <1>2, <1>3, <1>4 DEF StateOK, SocketsKept, mapVars, procVars

LEMMA HandlerType ==
  ASSUME StateOK, NEW fd \in Fds, HandlerStep(fd)
  PROVE  StateOK'
<1>1. clientIdByFd[fd] # None /\ clientIdByFd[fd] \in Slots
  BY DEF StateOK, HandlerStep, ClientEvent
<1>2. PICK d : Handled(d) /\ Leaves(fd, d)
  BY DEF HandlerStep
<1>3. CASE FreeClient(fd)
  BY <1>1, <1>3, FreeClientType
<1>4. CASE ~FreeClient(fd)
  BY <1>1, <1>2, <1>4, StartCgiType, SettleType DEF Leaves, FreeFds
<1>5. QED
  BY <1>3, <1>4

LEMMA EndCgiType ==
  ASSUME StateOK, NEW s \in Slots, NEW f \in Fds, NEW event \in eEventProcess,
         EndCgi(s, f, event),
         UNCHANGED <<available, clientIdByFd, sockVars, backlog, expired>>
  PROVE  StateOK'
<1>1. client' \in [Slots -> Client]
  <2>0. client[s] \in Client
    BY DEF StateOK
  <2>1. [client[s] EXCEPT !.state = "CGI_END", !.event = event] \in Client
    BY <2>0 DEF Client, StableStates
  <2>2. client' = [client EXCEPT ![s] =
                     [client[s] EXCEPT !.state = "CGI_END", !.event = event]]
    BY DEF EndCgi, StateOK
  <2>3. QED
    BY <2>1, <2>2 DEF StateOK
<1>2. monitor' \in [Slots -> Monitor]
  BY NoCgiType DEF EndCgi, StateOK
<1>3. /\ child' \in [Pids -> {"none", "running", "done", "failed"}]
      /\ pipe' \in [Fds -> Pids \cup {None}]
      /\ writing' \in SUBSET Pids
      /\ output' \in SUBSET Pids
  BY FreeCgiType DEF EndCgi
<1>4. /\ interest' \in [Fds -> {"NONE", "IN", "OUT"}]
      /\ idByPipe' \in [Fds -> Slots \cup {None}]
      /\ cgiExpired' \in SUBSET Slots
  BY DEF EndCgi, Unregister, PopPipe, StateOK
<1>5. QED
  BY <1>1, <1>2, <1>3, <1>4 DEF StateOK, sockVars

LEMMA AcceptType ==
  ASSUME StateOK, AcceptClient
  PROVE  StateOK'
<1>1. PICK fd \in FreeFds :
        /\ backlog' = backlog - 1
        /\ IF available = <<>>
             THEN UNCHANGED <<mapVars, client, interest, sockVars, expired>>
             ELSE LET s == available[Len(available)] IN
                  /\ available' = SubSeq(available, 1, Len(available) - 1)
                  /\ clientIdByFd' = [clientIdByFd EXCEPT ![fd] = s]
                  /\ peer' = [peer EXCEPT ![fd] = "open"]
                  /\ \/ /\ interest' = [interest EXCEPT ![fd] = "IN"]
                        /\ client' = [client EXCEPT ![s].socket = fd]
                        /\ expired' = expired \ {s}
                     \/ /\ AddMayFail
                        /\ UNCHANGED <<interest, client, expired>>
                  /\ UNCHANGED <<idByPipe, input, stalled>>
  BY DEF AcceptClient
<1>2. UNCHANGED <<monitor, procVars, cgiExpired>> /\ backlog > 0 /\ fd \in Fds
  BY DEF AcceptClient, FreeFds
<1>3. backlog' \in 0 .. MaxBacklog
  BY <1>1, <1>2, LoopAssumption DEF StateOK
<1>4. CASE available = <<>>
  BY <1>1, <1>2, <1>3, <1>4 DEF StateOK, mapVars, sockVars, procVars
<1>5. CASE available # <<>>
  <2> DEFINE s == available[Len(available)]
  <2>0. available \in Seq(Slots) /\ Len(available) \in Nat \ {0}
    BY <1>5 DEF StateOK
  <2>1. s \in Slots /\ available' \in Seq(Slots)
    BY <1>1, <1>5, <2>0
  <2>2. client' \in [Slots -> Client]
    <3>0. client[s] \in Client
      BY <2>1 DEF StateOK
    <3>1. [client[s] EXCEPT !.socket = fd] \in Client
      BY <1>2, <3>0 DEF Client
    <3>2. [client EXCEPT ![s].socket = fd]
            = [client EXCEPT ![s] = [client[s] EXCEPT !.socket = fd]]
      BY <2>1 DEF StateOK
    <3>3. \/ client' = [client EXCEPT ![s].socket = fd]
          \/ client' = client
      BY <1>1, <1>5
    <3>4. [client EXCEPT ![s] = [client[s] EXCEPT !.socket = fd]]
            \in [Slots -> Client]
      BY <2>1, <3>1 DEF StateOK
    <3>5. QED
      BY <3>2, <3>3, <3>4 DEF StateOK
  <2>3. /\ clientIdByFd' \in [Fds -> Slots \cup {None}]
        /\ peer' \in [Fds -> {"none", "open", "fin", "reset", "gone"}]
        /\ interest' \in [Fds -> {"NONE", "IN", "OUT"}]
        /\ expired' \in SUBSET Slots
        /\ UNCHANGED <<idByPipe, input, stalled>>
    BY <1>1, <1>2, <1>5, <2>1 DEF StateOK
  <2>4. QED
    BY <1>2, <1>3, <2>1, <2>2, <2>3 DEF StateOK, procVars
<1>6. QED
  BY <1>4, <1>5

LEMMA TakeType ==
  ASSUME LoopOK, NEW f \in Fds \cup {ServerFd}, Take(f)
  PROVE  LoopOK'
  BY DEF LoopOK, Take

LEMMA ReadyFlagsType ==
  ASSUME NEW f
  PROVE  ReadyFlags(f) \in SUBSET Flags
  BY DEF ReadyFlags, SocketFlags, PipeFlags, Flags

LEMMA ServerType ==
  ASSUME TypeOK, Server
  PROVE  TypeOK'
<1> USE TypeOKSplit
<1>0. LoopOK /\ StateOK
  OBVIOUS
<1>1. CASE Poll
  <2>1. LoopOK'
    BY <1>1, <1>0, ReadyFlagsType DEF Poll, LoopOK
  <2>2. StateOK'
    BY <1>1, <1>0 DEF Poll, StateOK, mapVars, sockVars, procVars, timeVars
  <2>3. QED
    BY <2>1, <2>2 DEF TypeOK, LoopOK, StateOK
<1>2. CASE AcceptClient
  <2>1. LoopOK' /\ StateOK'
    BY <1>0, <1>2, TakeType, AcceptType DEF AcceptClient
  <2>2. QED
    BY <2>1 DEF TypeOK, LoopOK, StateOK
<1>3. CASE AcceptFails
  <2>1. LoopOK'
    BY <1>0, <1>3, TakeType DEF AcceptFails
  <2>2. StateOK'
    BY <1>0, <1>3 DEF AcceptFails, StateOK, mapVars, sockVars, procVars, timeVars
  <2>3. QED
    BY <2>1, <2>2 DEF TypeOK, LoopOK, StateOK
<1>4. ASSUME NEW f \in Fds, UnknownEvent(f)
      PROVE  TypeOK'
  <2>1. LoopOK'
    BY <1>0, <1>4, TakeType DEF UnknownEvent
  <2>2. StateOK'
    BY <1>0, <1>4 DEF UnknownEvent, StateOK, mapVars, sockVars, procVars, timeVars
  <2>3. QED
    BY <2>1, <2>2 DEF TypeOK, LoopOK, StateOK
<1>5. ASSUME NEW f \in Fds,
             ClientReadable(f) \/ ClientWritable(f) \/ ClientSends(f)
      PROVE  TypeOK'
  <2>1. HandlerStep(f)
    BY <1>0, <1>5, ReadableStep, WritableStep, SendsStep
  <2>2. LoopOK'
    BY <1>0, <2>1, TakeType DEF HandlerStep, ClientEvent
  <2>3. StateOK'
    BY <1>0, <2>1, HandlerType
  <2>4. QED
    BY <2>2, <2>3 DEF TypeOK, LoopOK, StateOK
<1>6. ASSUME NEW f \in Fds, ClientError(f)
      PROVE  TypeOK'
  <2>1. LoopOK' /\ StateOK'
    BY <1>0, <1>6, TakeType, FreeClientType DEF ClientError
  <2>2. QED
    BY <2>1 DEF TypeOK, LoopOK, StateOK
<1>7. ASSUME NEW f \in Fds, PipeData(f)
      PROVE  TypeOK'
  <2> DEFINE s == idByPipe[f]
  <2>1. LoopOK' /\ s \in Slots
    BY <1>0, <1>7, TakeType DEF PipeData, PipeEvent, StateOK
  <2>2. UNCHANGED <<available, clientIdByFd, sockVars, backlog, expired>>
    BY <1>7 DEF PipeData
  <2>3. CASE EndCgi(s, f, "END_WITH_PARSE")
    <3>1. StateOK'
      BY <1>0, <2>1, <2>2, <2>3, EndCgiType DEF eEventProcess
    <3>2. QED
      BY <2>1, <3>1 DEF TypeOK, LoopOK, StateOK
  <2>4. CASE ~EndCgi(s, f, "END_WITH_PARSE")
    <3>1. /\ output' \in SUBSET Pids
          /\ UNCHANGED <<client, monitor, child, pipe, interest, writing,
                         idByPipe, cgiExpired>>
      BY <1>0, <1>7, <2>4 DEF PipeData, StateOK
    <3>2. StateOK'
      BY <1>0, <2>2, <3>1 DEF StateOK, sockVars
    <3>3. QED
      BY <2>1, <3>2 DEF TypeOK, LoopOK, StateOK
  <2>5. QED
    BY <2>3, <2>4
<1>8. ASSUME NEW f \in Fds, PipeEof(f)
      PROVE  TypeOK'
  <2> DEFINE s == idByPipe[f]
  <2>1. LoopOK' /\ s \in Slots
    BY <1>0, <1>8, TakeType DEF PipeEof, PipeEvent, StateOK
  <2>2. UNCHANGED <<available, clientIdByFd, sockVars, backlog, expired>>
    BY <1>8 DEF PipeEof
  <2>3. CASE \E event \in eEventProcess : EndCgi(s, f, event)
    <3>1. StateOK'
      BY <1>0, <2>1, <2>2, <2>3, EndCgiType
    <3>2. QED
      BY <2>1, <3>1 DEF TypeOK, LoopOK, StateOK
  <2>4. CASE ~ \E event \in eEventProcess : EndCgi(s, f, event)
    <3>1. /\ monitor' = [monitor EXCEPT ![s].eof = TRUE]
          /\ UNCHANGED <<client, child, pipe, interest, writing, output,
                         idByPipe, cgiExpired>>
      BY <1>8, <2>4 DEF PipeEof, eEventProcess
    <3>2. monitor' \in [Slots -> Monitor]
      <4>1. monitor[s] \in Monitor
        BY <1>0, <2>1 DEF StateOK
      <4>2. [monitor[s] EXCEPT !.eof = TRUE] \in Monitor
        BY <4>1 DEF Monitor
      <4>3. QED
        BY <1>0, <2>1, <3>1, <4>2 DEF StateOK
    <3>3. StateOK'
      BY <1>0, <2>2, <3>1, <3>2 DEF StateOK, sockVars
    <3>4. QED
      BY <2>1, <3>3 DEF TypeOK, LoopOK, StateOK
  <2>5. QED
    BY <2>3, <2>4
<1>9. ASSUME NEW f \in Fds, TimeoutCgi(f)
      PROVE  TypeOK'
  <2>1. StateOK'
    BY <1>0, <1>9, EndCgiType DEF TimeoutCgi, StateOK, eEventProcess
  <2>2. LoopOK'
    BY <1>0, <1>9 DEF TimeoutCgi, loopVars, LoopOK
  <2>3. QED
    BY <2>1, <2>2 DEF TypeOK, LoopOK, StateOK
<1>10. ASSUME NEW f \in Fds, TimeoutClient(f)
       PROVE  TypeOK'
  <2>1. StateOK'
    BY <1>0, <1>10, FreeClientType DEF TimeoutClient
  <2>2. LoopOK'
    BY <1>0, <1>10 DEF TimeoutClient, loopVars, LoopOK
  <2>3. QED
    BY <2>1, <2>2 DEF TypeOK, LoopOK, StateOK
<1>11. CASE TimeoutCgiDone \/ TimeoutClientsDone
  BY <1>0, <1>11 DEF TimeoutCgiDone, TimeoutClientsDone, TypeOK, LoopOK, StateOK,
                     mapVars, sockVars, procVars, timeVars
<1>12. CASE AcceptDropped
  <2>1. LoopOK'
    BY <1>0, <1>12, TakeType DEF AcceptDropped
  <2>2. backlog' \in 0 .. MaxBacklog
    BY <1>0, <1>12, LoopAssumption DEF AcceptDropped, StateOK
  <2>3. StateOK'
    BY <1>0, <1>12, <2>2 DEF AcceptDropped, StateOK, mapVars, sockVars, procVars, timeVars
  <2>4. QED
    BY <2>1, <2>3 DEF TypeOK, LoopOK, StateOK
<1>13. QED
  BY <1>1, <1>2, <1>3, <1>4, <1>5, <1>6, <1>7, <1>8, <1>9, <1>10, <1>11, <1>12
     DEF Server

LEMMA OutsideType ==
  ASSUME TypeOK, Outside
  PROVE  TypeOK'
<1> USE DEF TypeOK, serverVars, sockVars, procVars, timeVars
<1>1. CASE PeerConnects
  BY <1>1, LoopAssumption DEF PeerConnects
<1>2. ASSUME NEW f \in Fds,
             \/ PeerSends(f) \/ PeerCloses(f) \/ PeerResets(f)
             \/ PeerStalls(f) \/ PeerDrains(f)
      PROVE  TypeOK'
  BY <1>2 DEF PeerSends, PeerCloses, PeerResets, PeerStalls, PeerDrains
<1>3. ASSUME NEW p \in Pids,
             ChildWrites(p) \/ ChildClosesStdout(p) \/ ChildExits(p)
      PROVE  TypeOK'
  BY <1>3 DEF ChildWrites, ChildClosesStdout, ChildExits
<1>4. ASSUME NEW s \in Slots, ClientTimePasses(s) \/ CgiTimePasses(s)
      PROVE  TypeOK'
  BY <1>4 DEF ClientTimePasses, CgiTimePasses
<1>5. QED
  BY <1>1, <1>2, <1>3, <1>4 DEF Outside

LEMMA InitType == Init => TypeOK
<1> SUFFICES ASSUME Init PROVE TypeOK
  OBVIOUS
<1>1. available \in Seq(Slots)
  <2>1. available \in [1 .. MaxClients -> Slots]
    BY LoopAssumption DEF Init, Slots
  <2>2. QED
    BY <2>1, SeqDef, LoopAssumption
<1>2. client \in [Slots -> Client] /\ monitor \in [Slots -> Monitor]
  BY FreedClientType, NoCgiType DEF Init
<1>3. QED
  BY <1>1, <1>2, LoopAssumption DEF Init, TypeOK

\* The state stays within its types: in particular the count of internal
\* redirects never passes MAX_INTERNAL_LOOP, and no handler leaves a client
\* in one of the two states that exist only inside a handler
\* (clsClient::ProcessBoth, clsFlow::_clientProcess).
THEOREM TypeCorrect == Spec => []TypeOK
<1>1. TypeOK /\ [Next]_vars => TypeOK'
  <2> SUFFICES ASSUME TypeOK, [Next]_vars PROVE TypeOK'
    OBVIOUS
  <2>1. CASE Server
    BY <2>1, ServerType
  <2>2. CASE Outside
    BY <2>2, OutsideType
  <2>3. CASE UNCHANGED vars
    BY <2>3 DEF vars, TypeOK
  <2>4. QED
    BY <2>1, <2>2, <2>3 DEF Next
<1>2. QED
  BY InitType, <1>1, PTL DEF Spec

-----------------------------------------------------------------------------
(***************************************************************************)
(* Slots and sockets.  SlotConservation is not inductive: that a new       *)
(* connection does not hide an old one behind the same number needs        *)
(* MappedOpen, which needs SocketAccounting, because _freeClient erases    *)
(* the number of its event and closes the socket of its client.            *)
(***************************************************************************)
MappedOpen == \A f \in Fds : clientIdByFd[f] # None => peer[f] # "none"

SlotInv == SlotConservation /\ SocketAccounting /\ MappedOpen

\* The sockets of the clients, and what is open, are as they were.
Untouched ==
  /\ UNCHANGED <<available, clientIdByFd>>
  /\ \A s \in Slots : client'[s].socket = client[s].socket
  /\ \A f \in Fds : peer'[f] = "none" <=> peer[f] = "none"

LEMMA UntouchedSlots ==
  ASSUME TypeOK, SlotInv, Untouched
  PROVE  SlotInv'
<1>1. SlotConservation'
  BY DEF SlotInv, SlotConservation, InUse, Untouched
<1>2. MappedOpen'
  BY DEF SlotInv, MappedOpen, Untouched
<1>3. SocketAccounting'
  <2>1. \A f \in Fds : clientIdByFd[f] \in Slots \cup {None}
    BY DEF TypeOK
  <2>2. \A s \in Slots : client[s].socket \in Fds \cup {None}
    BY DEF TypeOK, Client
  <2>3. \A f \in Fds :
          clientIdByFd'[f] # None =>
            \/ client'[clientIdByFd'[f]].socket = f
            \/ AddMayFail /\ client'[clientIdByFd'[f]].socket = None
    BY <2>1 DEF SlotInv, SocketAccounting, Untouched
  <2>4. \A s \in Slots :
          client'[s].socket # None =>
            clientIdByFd'[client'[s].socket] = s /\ peer'[client'[s].socket] # "none"
    BY <2>2 DEF SlotInv, SocketAccounting, Untouched
  <2>5. AddMayFail \/ \A f \in Fds : peer'[f] # "none" => clientIdByFd'[f] # None
    BY DEF SlotInv, SocketAccounting, Untouched
  <2>6. QED
    BY <2>3, <2>4, <2>5 DEF SocketAccounting
<1>4. QED
  BY <1>1, <1>2, <1>3 DEF SlotInv

LEMMA FreeClientSlots ==
  ASSUME TypeOK, SlotInv, NEW fd \in Fds, clientIdByFd[fd] # None,
         FreeClient(fd)
  PROVE  SlotInv'
<1> DEFINE s == clientIdByFd[fd]
           f == client[s].socket
           n == Len(available)
<1>0. s \in Slots /\ available \in Seq(Slots) /\ n \in Nat
  BY DEF TypeOK
<1>1. f = fd \/ (AddMayFail /\ f = None)
  BY DEF SlotInv, SocketAccounting
<1>2. /\ clientIdByFd' = [clientIdByFd EXCEPT ![fd] = None]
      /\ available' = Append(available, s)
      /\ client' = [client EXCEPT ![s] = FreedClient]
      /\ peer' = [g \in Fds |-> IF g = f THEN "none" ELSE peer[g]]
  BY DEF FreeClient, GiveBack, CloseSocket
<1>3. /\ clientIdByFd' \in [Fds -> Slots \cup {None}]
      /\ \A g \in Fds : clientIdByFd'[g] = IF g = fd THEN None ELSE clientIdByFd[g]
  BY <1>2 DEF TypeOK
<1>4. \A g \in Fds : g # fd => clientIdByFd[g] # s
  BY <1>0 DEF SlotInv, SlotConservation
<1>5. /\ Len(available') = n + 1
      /\ \A i \in 1 .. n : available'[i] = available[i]
      /\ available'[n + 1] = s
  BY <1>0, <1>2, AppendProperties
<1>6. \A t \in Slots : InUse(t)' <=> InUse(t) /\ t # s
  BY <1>0, <1>3, <1>4, LoopAssumption DEF InUse
<1>7. SlotConservation'
  <2>1. \A i \in 1 .. n : available[i] # s
    BY <1>0 DEF SlotInv, SlotConservation, InUse
  <2>2. \A i, j \in 1 .. Len(available') : available'[i] = available'[j] => i = j
    BY <1>0, <1>5, <2>1 DEF SlotInv, SlotConservation
  <2>3. \A g, h \in Fds :
          clientIdByFd'[g] # None /\ clientIdByFd'[g] = clientIdByFd'[h] => g = h
    BY <1>3 DEF SlotInv, SlotConservation
  <2>4. \A t \in Slots :
          InUse(t)' <=> ~ \E i \in 1 .. Len(available') : available'[i] = t
    <3> SUFFICES ASSUME NEW t \in Slots
                 PROVE  InUse(t)' <=>
                          ~ \E i \in 1 .. Len(available') : available'[i] = t
      OBVIOUS
    <3>1. CASE t = s
      <4>1. \E i \in 1 .. Len(available') : available'[i] = s
        BY <1>0, <1>5
      <4>2. QED
        BY <1>6, <3>1, <4>1
    <3>2. CASE t # s
      <4>1. (\E i \in 1 .. Len(available') : available'[i] = t)
              <=> \E i \in 1 .. n : available[i] = t
        BY <1>0, <1>5, <3>2
      <4>2. QED
        BY <1>6, <3>2, <4>1 DEF SlotInv, SlotConservation
    <3>3. QED
      BY <3>1, <3>2
  <2>5. QED
    BY <2>2, <2>3, <2>4 DEF SlotConservation
<1>8. MappedOpen'
  BY <1>1, <1>2, <1>3, LoopAssumption DEF SlotInv, MappedOpen
<1>9. SocketAccounting'
  <2>1. \A t \in Slots : client'[t] = IF t = s THEN FreedClient ELSE client[t]
    BY <1>0, <1>2 DEF TypeOK
  <2>2. FreedClient.socket = None
    BY DEF FreedClient
  <2>3. \A g \in Fds :
          clientIdByFd'[g] # None =>
            \/ client'[clientIdByFd'[g]].socket = g
            \/ AddMayFail /\ client'[clientIdByFd'[g]].socket = None
    BY <1>3, <1>4, <2>1 DEF SlotInv, SocketAccounting
  <2>4. \A t \in Slots :
          client'[t].socket # None =>
            clientIdByFd'[client'[t].socket] = t /\ peer'[client'[t].socket] # "none"
    <3> SUFFICES ASSUME NEW t \in Slots, client'[t].socket # None
                 PROVE  /\ clientIdByFd'[client'[t].socket] = t
                        /\ peer'[client'[t].socket] # "none"
      OBVIOUS
    <3> DEFINE g == client[t].socket
    <3>1. t # s /\ client'[t].socket = g
      BY <2>1, <2>2
    <3>2. g \in Fds /\ clientIdByFd[g] = t /\ peer[g] # "none"
      BY <3>1 DEF SlotInv, SocketAccounting, TypeOK, Client
    <3>3. g # fd
      BY <3>1, <3>2
    <3>4. QED
      BY <1>1, <1>2, <1>3, <3>1, <3>2, <3>3
  <2>5. AddMayFail \/ \A g \in Fds : peer'[g] # "none" => clientIdByFd'[g] # None
    BY <1>1, <1>2, <1>3 DEF SlotInv, SocketAccounting
  <2>6. QED
    BY <2>3, <2>4, <2>5 DEF SocketAccounting
<1>10. QED
  BY <1>7, <1>8, <1>9 DEF SlotInv

\* The length SubSeqProperties gives for a stack without its top.
LEMMA PopLength ==
  ASSUME NEW n \in Nat \ {0}
  PROVE  (IF 1 <= n - 1 THEN (n - 1) - 1 + 1 ELSE 0) = n - 1
<1>1. CASE n = 1
  BY <1>1
<1>2. CASE n # 1
  <2>1. 1 <= n - 1 /\ (n - 1) - 1 + 1 = n - 1
    BY <1>2
  <2>2. QED
    BY <2>1
<1>3. QED
  BY <1>1, <1>2

LEMMA AcceptSlots ==
  ASSUME TypeOK, SlotInv, AcceptClient
  PROVE  SlotInv'
<1>0. PICK fd \in FreeFds :
        IF available = <<>>
          THEN UNCHANGED <<mapVars, client, interest, sockVars, expired>>
          ELSE LET s == available[Len(available)] IN
               /\ available' = SubSeq(available, 1, Len(available) - 1)
               /\ clientIdByFd' = [clientIdByFd EXCEPT ![fd] = s]
               /\ peer' = [peer EXCEPT ![fd] = "open"]
               /\ \/ /\ interest' = [interest EXCEPT ![fd] = "IN"]
                     /\ client' = [client EXCEPT ![s].socket = fd]
                     /\ expired' = expired \ {s}
                  \/ /\ AddMayFail
                     /\ UNCHANGED <<interest, client, expired>>
               /\ UNCHANGED <<idByPipe, input, stalled>>
  BY DEF AcceptClient
<1>1. CASE available = <<>>
  <2>1. Untouched
    BY <1>0, <1>1 DEF Untouched, mapVars, sockVars
  <2>2. QED
    BY <2>1, UntouchedSlots
<1>2. CASE available # <<>>
  <2> DEFINE n == Len(available)
             s == available[n]
  <2>1. available \in Seq(Slots) /\ n \in Nat \ {0} /\ s \in Slots
    <3>1. available \in Seq(Slots)
      BY DEF TypeOK
    <3>2. n \in Nat \ {0}
      BY <1>2, <3>1
    <3>3. QED
      BY <3>1, <3>2
  <2>2. fd \in Fds /\ peer[fd] = "none" /\ clientIdByFd[fd] = None
    BY DEF FreeFds, SlotInv, MappedOpen
  <2>3. \A t \in Slots : client[t].socket # fd
    <3> SUFFICES ASSUME NEW t \in Slots, client[t].socket = fd PROVE FALSE
      OBVIOUS
    <3>1. fd # None
      BY <2>2, LoopAssumption
    <3>2. peer[fd] # "none"
      BY <3>1 DEF SlotInv, SocketAccounting
    <3>3. QED
      BY <2>2, <3>2
  <2>4. \A g \in Fds : clientIdByFd[g] # s
    BY <2>1 DEF SlotInv, SlotConservation, InUse
  <2>5. \A t \in Slots : client[t].socket \in Fds \cup {None}
    BY DEF TypeOK, Client
  <2>6. client[s].socket = None
    <3>1. ASSUME client[s].socket # None PROVE FALSE
      BY <2>1, <2>4, <2>5, <3>1 DEF SlotInv, SocketAccounting
    <3>2. QED
      BY <3>1
  <2>7. /\ \A g \in Fds : clientIdByFd'[g] = IF g = fd THEN s ELSE clientIdByFd[g]
        /\ \A g \in Fds : peer'[g] = IF g = fd THEN "open" ELSE peer[g]
    BY <1>0, <1>2, <2>2 DEF TypeOK
  <2>8. /\ Len(available') = n - 1
        /\ \A i \in 1 .. n - 1 : available'[i] = available[i]
    <3>1. available' = SubSeq(available, 1, n - 1)
      BY <1>0, <1>2
    <3>2. /\ 1 \in Int /\ n - 1 \in Int
          /\ \A i \in 1 .. n - 1 : available[i] \in Slots
      BY <2>1
    <3>3. /\ Len(available') = IF 1 <= n - 1 THEN (n - 1) - 1 + 1 ELSE 0
          /\ \A i \in 1 .. (n - 1) - 1 + 1 : available'[i] = available[1 + i - 1]
      BY <3>1, <3>2, SubSeqProperties
    <3>4. Len(available') = n - 1
      BY <2>1, <3>3, PopLength
    <3>5. ASSUME NEW i \in 1 .. n - 1
          PROVE  available'[i] = available[i]
      <4>1. i \in 1 .. (n - 1) - 1 + 1 /\ 1 + i - 1 = i
        BY <2>1
      <4>2. QED
        BY <3>3, <4>1
    <3>6. QED
      BY <3>4, <3>5
  <2>9. s # None
    BY <2>1, LoopAssumption
  <2>10. SlotConservation'
    <3>1. \A i, j \in 1 .. Len(available') : available'[i] = available'[j] => i = j
      BY <2>1, <2>8 DEF SlotInv, SlotConservation
    <3>2. \A g, h \in Fds :
            clientIdByFd'[g] # None /\ clientIdByFd'[g] = clientIdByFd'[h] => g = h
      BY <2>4, <2>7 DEF SlotInv, SlotConservation
    <3>3. ASSUME NEW t \in Slots
          PROVE  InUse(t)' <=> ~ \E i \in 1 .. Len(available') : available'[i] = t
      <4>1. InUse(t)' <=> InUse(t) \/ t = s
        BY <2>2, <2>7, <2>9, LoopAssumption DEF InUse
      <4>2. (\E i \in 1 .. n : available[i] = t)
              <=> (\E i \in 1 .. n - 1 : available[i] = t) \/ t = s
        BY <2>1
      <4>3. ~ \E i \in 1 .. n - 1 : available[i] = s
        BY <2>1 DEF SlotInv, SlotConservation
      <4>4. QED
        BY <2>8, <4>1, <4>2, <4>3 DEF SlotInv, SlotConservation
    <3>4. QED
      BY <3>1, <3>2, <3>3 DEF SlotConservation
  <2>11. MappedOpen'
    BY <2>7 DEF SlotInv, MappedOpen
  <2>12. \/ \A t \in Slots :
              client'[t].socket = IF t = s THEN fd ELSE client[t].socket
         \/ AddMayFail /\ client' = client
    BY <1>0, <1>2, <2>1 DEF TypeOK, Client
  <2>13. SocketAccounting'
    <3>1. \A g \in Fds :
            clientIdByFd'[g] # None =>
              \/ client'[clientIdByFd'[g]].socket = g
              \/ AddMayFail /\ client'[clientIdByFd'[g]].socket = None
      <4> SUFFICES ASSUME NEW g \in Fds, clientIdByFd'[g] # None
                   PROVE  \/ client'[clientIdByFd'[g]].socket = g
                          \/ AddMayFail /\ client'[clientIdByFd'[g]].socket = None
        OBVIOUS
      <4>1. clientIdByFd[g] \in Slots \cup {None}
        BY DEF TypeOK
      <4>2. CASE g = fd
        BY <2>1, <2>6, <2>7, <2>12, <4>2
      <4>3. CASE g # fd
        BY <2>4, <2>7, <2>12, <4>1, <4>3 DEF SlotInv, SocketAccounting
      <4>4. QED
        BY <4>2, <4>3
    <3>2. ASSUME NEW t \in Slots, client'[t].socket # None
          PROVE  /\ clientIdByFd'[client'[t].socket] = t
                 /\ peer'[client'[t].socket] # "none"
      <4>1. CASE client'[t].socket = client[t].socket
        BY <2>3, <2>5, <2>7, <3>2, <4>1 DEF SlotInv, SocketAccounting
      <4>2. CASE t = s /\ client'[t].socket = fd
        BY <2>2, <2>7, <4>2
      <4>3. QED
        BY <2>12, <4>1, <4>2
    <3>3. AddMayFail \/ \A g \in Fds : peer'[g] # "none" => clientIdByFd'[g] # None
      BY <2>7, <2>9 DEF SlotInv, SocketAccounting
    <3>4. QED
      BY <3>1, <3>2, <3>3 DEF SocketAccounting
  <2>14. QED
    BY <2>10, <2>11, <2>13 DEF SlotInv
<1>3. QED
  BY <1>1, <1>2

\* A handler that keeps the connection does not touch its socket either.
LEMMA HandlerSlots ==
  ASSUME TypeOK, SlotInv, NEW fd \in Fds, HandlerStep(fd)
  PROVE  SlotInv'
<1>1. /\ clientIdByFd[fd] # None
      /\ clientIdByFd[fd] \in Slots
  BY DEF HandlerStep, ClientEvent, TypeOK
<1>2. PICK d : /\ Handled(d)
               /\ d.socket = client[clientIdByFd[fd]].socket
               /\ Leaves(fd, d)
  BY DEF HandlerStep
<1>3. CASE FreeClient(fd)
  BY <1>1, <1>3, FreeClientSlots
<1>4. CASE ~FreeClient(fd)
  <2> DEFINE s == clientIdByFd[fd]
  <2>1. UNCHANGED <<available, clientIdByFd>> /\ SocketsKept
    BY <1>2, <1>4 DEF Leaves, StartCgi, Settle, mapVars
  <2>2. \/ client' = [client EXCEPT ![s] = d]
        \/ client' = [client EXCEPT ![s] = [d EXCEPT !.state = "CGI_RUNING"]]
    BY <1>2, <1>4 DEF Leaves, StartCgi, Settle
  <2>3. [d EXCEPT !.state = "CGI_RUNING"].socket = d.socket
    BY <1>2 DEF Handled
  <2>4. \A t \in Slots : client'[t].socket = client[t].socket
    BY <1>1, <1>2, <2>2, <2>3 DEF TypeOK
  <2>5. QED
    BY <2>1, <2>4, UntouchedSlots DEF Untouched, SocketsKept
<1>5. QED
  BY <1>3, <1>4

LEMMA EndCgiSlots ==
  ASSUME TypeOK, SlotInv, NEW s \in Slots, NEW f, NEW event,
         EndCgi(s, f, event), UNCHANGED <<available, clientIdByFd, sockVars>>
  PROVE  SlotInv'
<1>1. \A t \in Slots : client'[t].socket = client[t].socket
  BY DEF EndCgi, TypeOK, Client
<1>2. QED
  BY <1>1, UntouchedSlots DEF Untouched, sockVars

LEMMA ServerSlots ==
  ASSUME TypeOK, SlotInv, Server
  PROVE  SlotInv'
<1>1. CASE AcceptClient
  BY <1>1, AcceptSlots
<1>2. ASSUME NEW f \in Fds,
             ClientReadable(f) \/ ClientWritable(f) \/ ClientSends(f)
      PROVE  SlotInv'
  BY <1>2, TypeOKSplit, ReadableStep, WritableStep, SendsStep, HandlerSlots
<1>3. ASSUME NEW f \in Fds, ClientError(f) \/ TimeoutClient(f)
      PROVE  SlotInv'
  BY <1>3, FreeClientSlots DEF ClientError, TimeoutClient
<1>4. ASSUME NEW f \in Fds, PipeData(f) \/ PipeEof(f)
      PROVE  SlotInv'
  <2>1. idByPipe[f] \in Slots
    BY <1>4 DEF PipeData, PipeEof, PipeEvent, TypeOK
  <2>2. UNCHANGED <<available, clientIdByFd, sockVars>>
    BY <1>4 DEF PipeData, PipeEof
  <2>3. CASE \E event \in eEventProcess : EndCgi(idByPipe[f], f, event)
    BY <2>1, <2>2, <2>3, EndCgiSlots
  <2>4. CASE ~ \E event \in eEventProcess : EndCgi(idByPipe[f], f, event)
    <3>1. UNCHANGED client
      BY <1>4, <2>4 DEF PipeData, PipeEof, eEventProcess
    <3>2. QED
      BY <2>2, <3>1, UntouchedSlots DEF Untouched, sockVars
  <2>5. QED
    BY <2>3, <2>4
<1>5. ASSUME NEW f \in Fds, TimeoutCgi(f)
      PROVE  SlotInv'
  BY <1>5, EndCgiSlots DEF TimeoutCgi, TypeOK
<1>6. CASE \/ Poll \/ AcceptFails \/ AcceptDropped \/ TimeoutCgiDone
           \/ TimeoutClientsDone \/ \E f \in Fds : UnknownEvent(f)
  <2>1. UNCHANGED <<mapVars, client, sockVars>>
    BY <1>6 DEF Poll, AcceptFails, AcceptDropped, TimeoutCgiDone,
                TimeoutClientsDone, UnknownEvent
  <2>2. QED
    BY <2>1, UntouchedSlots DEF Untouched, mapVars, sockVars
<1>7. QED
  BY <1>1, <1>2, <1>3, <1>4, <1>5, <1>6 DEF Server

LEMMA OutsideSlots ==
  ASSUME TypeOK, SlotInv, Outside
  PROVE  SlotInv'
<1>1. UNCHANGED <<available, clientIdByFd, client>>
  BY DEF Outside, serverVars, PeerConnects, PeerSends, PeerCloses, PeerResets,
         PeerStalls, PeerDrains, ChildWrites, ChildClosesStdout, ChildExits,
         ClientTimePasses, CgiTimePasses
<1>2. \A f \in Fds : peer'[f] = "none" <=> peer[f] = "none"
  BY DEF Outside, sockVars, PeerConnects, PeerSends, PeerCloses, PeerResets,
         PeerStalls, PeerDrains, ChildWrites, ChildClosesStdout, ChildExits,
         ClientTimePasses, CgiTimePasses, TypeOK
<1>3. QED
  BY <1>1, <1>2, UntouchedSlots DEF Untouched

LEMMA InitSlots == Init => SlotInv
  BY LoopAssumption DEF Init, SlotInv, SlotConservation, SocketAccounting,
                        MappedOpen, InUse, FreedClient, Slots

LEMMA SlotInvInductive == Spec => []SlotInv
<1>1. TypeOK /\ SlotInv /\ [Next]_vars => SlotInv'
  <2> SUFFICES ASSUME TypeOK, SlotInv, [Next]_vars PROVE SlotInv'
    OBVIOUS
  <2>1. CASE Server
    BY <2>1, ServerSlots
  <2>2. CASE Outside
    BY <2>2, OutsideSlots
  <2>3. CASE UNCHANGED vars
    BY <2>3, UntouchedSlots DEF vars, Untouched
  <2>4. QED
    BY <2>1, <2>2, <2>3 DEF Next
<1>2. QED
  BY InitSlots, TypeCorrect, <1>1, PTL DEF Spec

\* No sequence of accepts, closes, errors, timeouts and failed registrations
\* loses a slot or gives one to two connections (clsFlow::_getClient,
\* _insertClient, _freeClient), whatever the number of slots.
THEOREM SlotsConserved == Spec => []SlotConservation
<1>1. SlotInv => SlotConservation
  BY DEF SlotInv
<1>2. QED
  BY SlotInvInductive, <1>1, PTL

\* The socket _freeClient closes is always the one of the connection it
\* erases, and without a failed registration no socket is ever left open.
THEOREM SocketsAccounted == Spec => []SocketAccounting
<1>1. SlotInv => SocketAccounting
  BY DEF SlotInv
<1>2. QED
  BY SlotInvInductive, <1>1, PTL
=============================================================================
