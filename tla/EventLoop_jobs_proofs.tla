------------------------ MODULE EventLoop_jobs_proofs ------------------------
(***************************************************************************)
(* The CGI jobs of EventLoop: who owns a child and its pipe, which events  *)
(* a connection can be given, and that the loop implements ClientSlots,    *)
(* for every number of slots, descriptors and processes.                   *)
(***************************************************************************)
EXTENDS EventLoop_proofs

Listening == {"BEGIN", "REQUEST_MODE"}
Answering == {"START_RESPOND", "CGI_END", "RESPOND_MODE"}

\* An open file is the one of the response that is being sent.
Sane(c) ==
  c.fdRespond => c.place = "DISK" /\ c.state \in {"RESPOND_MODE", "LAST_CHUNKED"}

\* A slot that is on the stack holds nothing; a connection that was not
\* registered never gets past its request.
ClientsOK ==
  /\ \A s \in Slots : Sane(client[s])
  /\ \A s \in Slots : client[s].socket = None => client[s].state \in Listening
  /\ \A s \in Slots : ~InUse(s) => client[s] = FreedClient /\ monitor[s] = NoCgi

\* What is left of the batch: an event for a number that was a pipe when it
\* was polled may meet a connection, but only one that still listens.
BatchOK ==
  /\ pc # "DISPATCH" => \A f \in Fds \cup {ServerFd} : batch[f] = {}
  /\ \A f \in Fds : clientIdByFd[f] # None /\ "IN" \in batch[f] =>
                      client[clientIdByFd[f]].state \in Listening
  /\ \A f \in Fds : "ERR" \in batch[f] => peer[f] \in {"reset", "gone"}

Paired == \A s \in Slots : monitor[s].pid = None <=> monitor[s].pipe = None

Owned == JobOwnership /\ PipeMapExact /\ InterestFollowsState

JobInv == ClientsOK /\ Paired /\ Owned

LoopInv == SlotInv /\ JobInv /\ BatchOK

-----------------------------------------------------------------------------
(***************************************************************************)
(* What a handler makes of a client: it reads a request, has nothing to    *)
(* do, or goes on with the response.                                       *)
(***************************************************************************)
Reads(fd, d) ==
  LET c == client[clientIdByFd[fd]] IN
  /\ c.state \in Listening
  /\ d.state \in {"REQUEST_MODE", "START_RESPOND", "CONNECTION_CLOSED"}
  /\ d.state # "REQUEST_MODE" => c.socket # None
  /\ d.state = "CONNECTION_CLOSED" => peer[c.socket] # "open"

Rests(c, d) == d.state = c.state /\ d.event = c.event

Responds(c, d) ==
  /\ c.state \in Answering
  /\ d.state \in {"START_RESPOND", "CGI_START", "RESPOND_MODE", "LAST_CHUNKED",
                  "AUTO_INDEX_DONE", "BEGIN", "CONNECTION_CLOSED"}

Follows(fd, d) ==
  /\ d.state # "CONNECTION_CLOSED" => Sane(d)
  /\ \/ Reads(fd, d)
     \/ Rests(client[clientIdByFd[fd]], d)
     \/ "OUT" \in batch[fd] /\ Responds(client[clientIdByFd[fd]], d)

LEMMA MarkedKeeps ==
  ASSUME StateOK, NEW fd \in Fds, clientIdByFd[fd] # None
  PROVE  LET c == client[clientIdByFd[fd]] IN
         /\ Handled(Marked(fd))
         /\ Marked(fd).state = c.state /\ Marked(fd).event = c.event
         /\ Marked(fd).fdRespond = c.fdRespond /\ Marked(fd).place = c.place
<1>1. Handled(Marked(fd))
  BY MarkedHandled
<1>2. client[clientIdByFd[fd]] \in Client
  BY DEF StateOK
<1>3. QED
  BY <1>1, <1>2 DEF Marked, Client

LEMMA ReadFollows ==
  ASSUME TypeOK, LoopInv, NEW fd \in Fds, clientIdByFd[fd] # None,
         NEW d, Read(fd, d)
  PROVE  Follows(fd, d)
<1> DEFINE s == clientIdByFd[fd]
           c == Marked(fd)
<1>1. StateOK /\ s \in Slots
  BY DEF TypeOK, StateOK
<1>2. Handled(c) /\ c.state = client[s].state /\ c.fdRespond = client[s].fdRespond
  BY <1>1, MarkedKeeps
<1>3. "IN" \in batch[fd]
  BY DEF Read
<1>4. client[s].state \in Listening
  BY <1>3 DEF LoopInv, BatchOK
<1>5. c.fdRespond = FALSE
  <2>1. client[s].fdRespond \in BOOLEAN
    BY <1>1 DEF StateOK, Client
  <2>2. QED
    BY <1>1, <1>2, <1>4, <2>1 DEF LoopInv, JobInv, ClientsOK, Sane, Listening
<1>6. PICK answer \in RecvAnswers(s) : d \in Received(c, answer)
  BY DEF Read
<1>7. answer = "eof" => client[s].socket # None /\ peer[client[s].socket] # "open"
  BY <1>6 DEF RecvAnswers
<1>8. answer = "bytes" => client[s].socket # None
  BY <1>6 DEF RecvAnswers
<1>9. answer \in {"error", "zero", "eof", "bytes"}
  BY DEF RecvAnswers
<1> DEFINE reading == [c EXCEPT !.state = "REQUEST_MODE", !.counter = 0]
<1>10. /\ reading.state = "REQUEST_MODE" /\ reading.fdRespond = FALSE
       /\ Handled(reading)
  <2>1. 0 \in 0 .. MaxInternalLoop
    BY LoopAssumption
  <2>2. QED
    BY <1>2, <1>5, <2>1 DEF Handled, clinetState, StableStates
<1>11. CASE answer \in {"error", "zero"}
  <2>1. d = reading
    BY <1>6, <1>11 DEF Received
  <2> HIDE DEF reading
  <2>2. QED
    BY <1>4, <1>10, <2>1 DEF Follows, Reads, Sane
<1>12. CASE answer = "eof"
  <2>1. d = [reading EXCEPT !.state = "CONNECTION_CLOSED"]
    BY <1>6, <1>12 DEF Received
  <2> HIDE DEF reading
  <2>2. d.state = "CONNECTION_CLOSED" /\ d.fdRespond = FALSE
    BY <1>10, <2>1 DEF Handled
  <2>3. QED
    BY <1>4, <1>7, <1>12, <2>2 DEF Follows, Reads, Sane
<1>13. CASE answer = "bytes"
  <2>1. \/ d = reading
        \/ d = [reading EXCEPT !.full = TRUE]
        \/ d = [reading EXCEPT !.state = "START_RESPOND", !.full = FALSE]
        \/ d = [reading EXCEPT !.state = "START_RESPOND", !.full = FALSE,
                               !.page = TRUE]
    BY <1>6, <1>13 DEF Received
  <2> HIDE DEF reading
  <2>2. d.state \in {"REQUEST_MODE", "START_RESPOND"} /\ d.fdRespond = FALSE
    BY <1>10, <2>1 DEF Handled
  <2>3. QED
    BY <1>4, <1>8, <1>13, <2>2 DEF Follows, Reads, Sane
<1>14. QED
  BY <1>9, <1>11, <1>12, <1>13

\* The response a client goes on with, after one call and after two.
LEMMA InitRespondMakes ==
  ASSUME NEW c, Handled(c), NEW verdict \in {"again", "plain"},
         NEW d \in InitRespond(c, verdict)
  PROVE  d.state \in {"START_RESPOND", "RESPOND_MODE"} /\ d.fdRespond = c.fdRespond
  BY DEF InitRespond, Handled

LEMMA RespondedMakes ==
  ASSUME NEW c, Handled(c), c.state \in {"START_RESPOND", "CGI_END"},
         NEW d \in Responded(c)
  PROVE  /\ d.state \in {"START_RESPOND", "CGI_START", "RESPOND_MODE"}
         /\ d.fdRespond = c.fdRespond
<1>1. CASE c.state = "START_RESPOND"
  <2>1. \/ d = [c EXCEPT !.state = "CGI_START"]
        \/ d \in InitRespond(c, "plain")
        \/ d \in InitRespond(c, "again")
    BY <1>1 DEF Responded
  <2>2. CASE d = [c EXCEPT !.state = "CGI_START"]
    BY <2>2 DEF Handled
  <2>3. QED
    BY <2>1, <2>2, InitRespondMakes
<1>2. CASE c.state = "CGI_END"
  <2>1. PICK v \in CgiVerdicts(c.event) : d \in InitRespond(c, v)
    BY <1>2 DEF Responded
  <2>2. v \in {"again", "plain"}
    BY <2>1 DEF CgiVerdicts
  <2>3. QED
    BY <2>1, <2>2, InitRespondMakes
<1>3. QED
  BY <1>1, <1>2

LEMMA RespondedTwiceMakes ==
  ASSUME NEW c, Handled(c), NEW d \in RespondedTwice(c)
  PROVE  /\ c.state \notin {"START_RESPOND", "CGI_END"} => d = c
         /\ c.state \in {"START_RESPOND", "CGI_END"} =>
              /\ d.state \in {"START_RESPOND", "CGI_START", "RESPOND_MODE"}
              /\ d.fdRespond = c.fdRespond
<1>1. PICK e \in Responded(c) :
        d \in IF e.state = "START_RESPOND" THEN Responded(e) ELSE {e}
  BY DEF RespondedTwice
<1>2. CASE c.state \notin {"START_RESPOND", "CGI_END"}
  <2>1. e = c
    BY <1>1, <1>2 DEF Responded
  <2>2. QED
    BY <1>1, <1>2, <2>1
<1>3. CASE c.state \in {"START_RESPOND", "CGI_END"}
  <2>1. Handled(e)
    BY RespondedHandled
  <2>2. /\ e.state \in {"START_RESPOND", "CGI_START", "RESPOND_MODE"}
        /\ e.fdRespond = c.fdRespond
    BY <1>3, RespondedMakes
  <2>3. CASE e.state = "START_RESPOND"
    BY <1>1, <1>3, <2>1, <2>2, <2>3, RespondedMakes
  <2>4. CASE e.state # "START_RESPOND"
    <3>1. d = e
      BY <1>1, <2>4
    <3>2. QED
      BY <1>3, <2>2, <3>1
  <2>5. QED
    BY <2>3, <2>4
<1>4. QED
  BY <1>2, <1>3

LEMMA WrittenFollows ==
  ASSUME TypeOK, LoopInv, NEW fd \in Fds, clientIdByFd[fd] # None,
         NEW d, Written(fd, d)
  PROVE  Follows(fd, d)
<1> DEFINE s == clientIdByFd[fd]
           c == Marked(fd)
<1>1. StateOK /\ s \in Slots
  BY DEF TypeOK, StateOK
<1>2. /\ Handled(c) /\ c.state = client[s].state /\ c.event = client[s].event
      /\ c.fdRespond = client[s].fdRespond /\ c.place = client[s].place
  BY <1>1, MarkedKeeps
<1>3. Sane(c)
  BY <1>1, <1>2 DEF LoopInv, JobInv, ClientsOK, Sane
<1>4. CASE d = c
  BY <1>2, <1>3, <1>4 DEF Follows, Rests
<1>5. CASE d # c
  <2>1. "OUT" \in batch[fd] /\ d \in RespondedTwice(c)
    BY <1>5 DEF Written
  <2>2. /\ c.state \in {"START_RESPOND", "CGI_END"}
        /\ d.state \in {"START_RESPOND", "CGI_START", "RESPOND_MODE"}
        /\ d.fdRespond = c.fdRespond
    BY <1>2, <1>5, <2>1, RespondedTwiceMakes
  <2>3. Sane(d)
    BY <1>3, <2>2 DEF Sane
  <2>4. QED
    BY <1>2, <2>1, <2>2, <2>3 DEF Follows, Responds, Answering
<1>6. QED
  BY <1>4, <1>5

\* The client that sends.
LEMMA SentMakes ==
  ASSUME NEW c, Handled(c), c.state = "RESPOND_MODE", Sane(c),
         NEW answer \in {"all", "part", "error"},
         NEW e \in Filled(c), NEW d \in Sent(e, answer)
  PROVE  /\ d.state # "CONNECTION_CLOSED" => Sane(d)
         /\ d.state \in {"RESPOND_MODE", "LAST_CHUNKED", "AUTO_INDEX_DONE",
                         "BEGIN", "CONNECTION_CLOSED"}
<1>1. /\ Handled(e) /\ Sane(e)
      /\ e.state \in {"RESPOND_MODE", "LAST_CHUNKED", "AUTO_INDEX_DONE"}
  <2>1. Handled(e)
    BY FilledHandled
  <2>2. CASE c.place = "DISK"
    <3>1. \/ e = [c EXCEPT !.fdRespond = TRUE]
          \/ e = [c EXCEPT !.fdRespond = TRUE, !.state = "LAST_CHUNKED"]
      BY <2>2 DEF Filled
    <3>2. QED
      BY <2>1, <2>2, <3>1 DEF Handled, Sane
  <2>3. CASE c.place # "DISK"
    <3>1. e = c \/ e = [c EXCEPT !.state = "AUTO_INDEX_DONE"]
      BY <2>3 DEF Filled
    <3>2. QED
      BY <2>1, <2>3, <3>1 DEF Handled, Sane
  <2>4. QED
    BY <2>2, <2>3
<1>2. ASSUME NEW x \in Ended(e)
      PROVE  x.fdRespond = FALSE /\ x.state \in {"BEGIN", "CONNECTION_CLOSED"}
  <2>1. PICK st \in {"BEGIN", "CONNECTION_CLOSED"} :
          x = [e EXCEPT !.state = st, !.place = "NONE", !.fdRespond = FALSE]
    BY DEF Ended
  <2>2. QED
    BY <1>1, <2>1 DEF Handled
<1>3. \/ d \in Ended(e) \/ d = e
      \/ answer = "error" /\ d = Closed(e)
  BY DEF Sent
<1>4. CASE d \in Ended(e)
  BY <1>2, <1>4 DEF Sane
<1>5. CASE d = e
  BY <1>1, <1>5
<1>6. CASE d = Closed(e)
  BY <1>1, <1>6 DEF Closed, Handled
<1>7. QED
  BY <1>3, <1>4, <1>5, <1>6

LEMMA SendingFollows ==
  ASSUME TypeOK, LoopInv, NEW fd \in Fds, clientIdByFd[fd] # None,
         NEW d, Sending(fd, d)
  PROVE  Follows(fd, d)
<1> DEFINE s == clientIdByFd[fd]
           m == Marked(fd)
<1>1. StateOK /\ s \in Slots
  BY DEF TypeOK, StateOK
<1>2. /\ Handled(m) /\ m.state = client[s].state
      /\ m.fdRespond = client[s].fdRespond /\ m.place = client[s].place
  BY <1>1, MarkedKeeps
<1>3. Sane(m)
  BY <1>1, <1>2 DEF LoopInv, JobInv, ClientsOK, Sane
<1>4. "OUT" \in batch[fd]
  BY DEF Sending
<1> DEFINE ends(c, answer) == UNION {Sent(e, answer) : e \in Filled(c)}
           fails(c) == IF OpenFails(c) THEN {Closed(c)} ELSE {}
<1>5. PICK c \in RespondedTwice(m), answer \in SendAnswers(client[s].socket) :
        c.state = "RESPOND_MODE" /\ d \in ends(c, answer) \cup fails(c)
  BY DEF Sending
<1>6. Handled(c) /\ Sane(c)
  <2>1. Handled(c)
    BY <1>2, RespondedTwiceHandled
  <2>2. CASE m.state \in {"START_RESPOND", "CGI_END"}
    <3>1. c.fdRespond = m.fdRespond
      BY <1>2, <2>2, RespondedTwiceMakes
    <3>2. m.fdRespond = FALSE
      BY <1>2, <1>3, <2>2 DEF Sane, Handled
    <3>3. QED
      BY <2>1, <3>1, <3>2 DEF Sane
  <2>3. CASE m.state \notin {"START_RESPOND", "CGI_END"}
    BY <1>2, <1>3, <2>3, RespondedTwiceMakes
  <2>4. QED
    BY <2>1, <2>2, <2>3
<1>7. m.state \in Answering
  BY <1>2, <1>5, RespondedTwiceMakes DEF Answering
<1>8. answer \in {"all", "part", "error"}
  BY DEF SendAnswers
<1>9. /\ d.state # "CONNECTION_CLOSED" => Sane(d)
      /\ d.state \in {"RESPOND_MODE", "LAST_CHUNKED", "AUTO_INDEX_DONE",
                      "BEGIN", "CONNECTION_CLOSED"}
  <2>1. CASE d \in ends(c, answer)
    <3>1. PICK e \in Filled(c) : d \in Sent(e, answer)
      BY <2>1
    <3>2. QED
      BY <1>5, <1>6, <1>8, <3>1, SentMakes
  <2>2. CASE d \in fails(c)
    <3>1. d = Closed(c)
      BY <2>2
    <3>2. d.state = "CONNECTION_CLOSED"
      BY <1>6, <3>1 DEF Closed, Handled
    <3>3. QED
      BY <3>2
  <2>3. QED
    BY <1>5, <2>1, <2>2
<1>10. QED
  BY <1>2, <1>4, <1>7, <1>9 DEF Follows, Responds

LEMMA HandlerFollows ==
  ASSUME TypeOK, LoopInv, NEW fd \in Fds, HandlerStep(fd)
  PROVE  /\ ClientEvent(fd) /\ clientIdByFd[fd] # None
         /\ \E d : /\ Handled(d)
                   /\ d.socket = client[clientIdByFd[fd]].socket
                   /\ Follows(fd, d)
                   /\ Leaves(fd, d)
<1>1. ClientEvent(fd) /\ clientIdByFd[fd] # None
  BY DEF HandlerStep, ClientEvent
<1>2. PICK d : /\ Handled(d)
               /\ d.socket = client[clientIdByFd[fd]].socket
               /\ Read(fd, d) \/ Written(fd, d) \/ Sending(fd, d)
               /\ Leaves(fd, d)
  BY DEF HandlerStep
<1>3. Follows(fd, d)
  BY <1>1, <1>2, ReadFollows, WrittenFollows, SendingFollows
<1>4. QED
  BY <1>1, <1>2, <1>3

-----------------------------------------------------------------------------
(***************************************************************************)
(* Every handler keeps JobInv.  Numbers are what could be confused: Apart  *)
(* says which ones cannot be the same.                                     *)
(***************************************************************************)
Apart ==
  /\ \A t, u \in Slots :
       monitor[t].pipe # None /\ monitor[t].pipe = monitor[u].pipe => t = u
  /\ \A t, u \in Slots :
       client[t].socket # None => client[t].socket # monitor[u].pipe
  /\ \A t, u \in Slots :
       client[t].socket # None /\ client[t].socket = client[u].socket => t = u
  /\ \A t \in Slots, f \in Fds :
       clientIdByFd[f] # None => monitor[t].pipe # f
  /\ \A t \in Slots, f \in FreeFds :
       monitor[t].pipe # f /\ client[t].socket # f /\ clientIdByFd[f] = None
  /\ \A f \in FreeFds : idByPipe[f] = None

LEMMA NumbersApart ==
  ASSUME TypeOK, SlotInv, JobInv
  PROVE  Apart
<1>0. \A t \in Slots : /\ client[t].socket \in Fds \cup {None}
                      /\ monitor[t].pipe \in Fds \cup {None}
                      /\ monitor[t].pid \in Pids \cup {None}
  BY DEF TypeOK, Client, Monitor
<1>1. \A t \in Slots : client[t].socket # None =>
                        clientIdByFd[client[t].socket] = t /\ peer[client[t].socket] # "none"
  BY DEF SlotInv, SocketAccounting
<1>2. \A t \in Slots : monitor[t].pipe # None =>
                        /\ pipe[monitor[t].pipe] = monitor[t].pid
                        /\ clientIdByFd[monitor[t].pipe] = None
                        /\ monitor[t].pid # None
  BY DEF JobInv, Owned, PipeMapExact, Paired
<1>3. \A t, u \in Slots :
        monitor[t].pid # None /\ monitor[t].pid = monitor[u].pid => t = u
  BY DEF JobInv, Owned, JobOwnership
<1>4. \A f \in Fds : clientIdByFd[f] # None => peer[f] # "none"
  BY DEF SlotInv, MappedOpen
<1>a. \A f \in Fds : idByPipe[f] # None =>
                      idByPipe[f] \in Slots /\ monitor[idByPipe[f]].pipe = f
  BY DEF JobInv, Owned, PipeMapExact, TypeOK
<1>5. None \notin Fds \cup Pids \cup Slots
  BY LoopAssumption
<1>6. \A f \in FreeFds : f \in Fds /\ peer[f] = "none" /\ pipe[f] = None
  BY DEF FreeFds
<1>7. \A t, u \in Slots :
        monitor[t].pipe # None /\ monitor[t].pipe = monitor[u].pipe => t = u
  BY <1>2, <1>3
<1>8. \A t, u \in Slots :
        client[t].socket # None => client[t].socket # monitor[u].pipe
  BY <1>1, <1>2, <1>5
<1>9. \A t, u \in Slots :
        client[t].socket # None /\ client[t].socket = client[u].socket => t = u
  BY <1>1
<1>10. \A t \in Slots, f \in Fds : clientIdByFd[f] # None => monitor[t].pipe # f
  BY <1>2, <1>5
<1>11. \A t \in Slots, f \in FreeFds :
         monitor[t].pipe # f /\ client[t].socket # f /\ clientIdByFd[f] = None
  <2> SUFFICES ASSUME NEW t \in Slots, NEW f \in FreeFds
               PROVE  monitor[t].pipe # f /\ client[t].socket # f /\ clientIdByFd[f] = None
    OBVIOUS
  <2>1. f \in Fds /\ f # None /\ peer[f] = "none" /\ pipe[f] = None
    BY <1>5, <1>6
  <2>2. clientIdByFd[f] = None
    BY <1>4, <2>1
  <2>3. monitor[t].pipe # f
    BY <1>2, <2>1
  <2>4. client[t].socket # f
    BY <1>1, <2>1
  <2>5. QED
    BY <2>2, <2>3, <2>4
<1>12. \A f \in FreeFds : idByPipe[f] = None
  <2> SUFFICES ASSUME NEW f \in FreeFds, idByPipe[f] # None PROVE FALSE
    OBVIOUS
  <2>1. f \in Fds
    BY <1>6
  <2>2. idByPipe[f] \in Slots /\ monitor[idByPipe[f]].pipe = f
    BY <1>a, <2>1
  <2>3. QED
    BY <1>11, <2>2
<1>13. QED
  BY <1>7, <1>8, <1>9, <1>10, <1>11, <1>12 DEF Apart

\* The connection goes, with its job: no other slot sees its numbers.
LEMMA FreeClientJobs ==
  ASSUME TypeOK, SlotInv, JobInv, NEW fd \in Fds, clientIdByFd[fd] # None,
         FreeClient(fd)
  PROVE  JobInv'
<1> DEFINE s == clientIdByFd[fd]
           m == monitor[s]
           f == client[s].socket
<1>0. /\ s \in Slots /\ Apart /\ None \notin Fds \cup Pids \cup Slots
      /\ (f = fd \/ f = None)
  BY LoopAssumption, NumbersApart DEF TypeOK, SlotInv, SocketAccounting
<1>1. /\ \A t \in Slots : client'[t] = IF t = s THEN FreedClient ELSE client[t]
      /\ \A t \in Slots : monitor'[t] = IF t = s THEN NoCgi ELSE monitor[t]
  BY DEF FreeClient, TypeOK
<1>2. /\ \A g \in Fds : clientIdByFd'[g] = IF g = fd THEN None ELSE clientIdByFd[g]
      /\ \A g \in Fds : idByPipe'[g] = IF g = m.pipe THEN None ELSE idByPipe[g]
      /\ \A g \in Fds : interest'[g] = IF g \in {f, m.pipe} THEN "NONE" ELSE interest[g]
      /\ \A g \in Fds : pipe'[g] = IF g = m.pipe THEN None ELSE pipe[g]
      /\ \A p \in Pids : child'[p] = IF p = m.pid THEN "none" ELSE child[p]
  BY DEF FreeClient, GiveBack, PopPipe, Unregister, FreeCgi, TypeOK
<1>3. \A t \in Slots : InUse(t)' <=> InUse(t) /\ t # s
  <2>1. \A g \in Fds : g # fd => clientIdByFd[g] # s
    BY <1>0 DEF SlotInv, SlotConservation
  <2>2. QED
    BY <1>0, <1>2, <2>1 DEF InUse
<1>4. /\ FreedClient.state = "BEGIN" /\ FreedClient.socket = None
      /\ FreedClient.fdRespond = FALSE
      /\ NoCgi.pid = None /\ NoCgi.pipe = None
  BY DEF FreedClient, NoCgi
<1>5. \A t \in Slots : /\ monitor[t].pid \in Pids \cup {None}
                      /\ monitor[t].pipe \in Fds \cup {None}
                      /\ client[t].socket \in Fds \cup {None}
  BY DEF TypeOK, Monitor, Client
<1>6. ClientsOK'
  <2>1. Sane(FreedClient)
    BY <1>4 DEF Sane
  <2>2. QED
    BY <1>1, <1>3, <1>4, <2>1 DEF JobInv, ClientsOK, Listening
<1>7. Paired'
  BY <1>1, <1>4 DEF JobInv, Paired
<1>8. JobOwnership'
  <2>1. ASSUME NEW p \in Pids, child'[p] # "none"
        PROVE  \E t \in Slots : monitor'[t].pid = p
    <3>1. p # m.pid /\ child[p] # "none"
      BY <1>2, <2>1
    <3>2. PICK t \in Slots : monitor[t].pid = p
      BY <3>1 DEF JobInv, Owned, JobOwnership
    <3>3. QED
      BY <1>1, <3>1, <3>2
  <2>2. \A t, u \in Slots :
          monitor'[t].pid # None /\ monitor'[t].pid = monitor'[u].pid => t = u
    BY <1>1, <1>4 DEF JobInv, Owned, JobOwnership
  <2>3. \A t \in Slots : monitor'[t].pid # None <=> client'[t].state = "CGI_RUNING"
    BY <1>1, <1>4 DEF JobInv, Owned, JobOwnership
  <2>4. ASSUME NEW t \in Slots, monitor'[t].pid # None
        PROVE  InUse(t)' /\ child'[monitor'[t].pid] # "none"
    <3>1. t # s /\ monitor'[t] = monitor[t]
      BY <1>1, <1>4, <2>4
    <3>2. InUse(t) /\ child[monitor[t].pid] # "none" /\ monitor[t].pid # m.pid
      BY <1>0, <2>4, <3>1 DEF JobInv, Owned, JobOwnership
    <3>3. QED
      BY <1>2, <1>3, <1>5, <2>4, <3>1, <3>2
  <2>5. QED
    BY <2>1, <2>2, <2>3, <2>4 DEF JobOwnership
<1>9. PipeMapExact'
  <2>1. ASSUME NEW g \in Fds, idByPipe'[g] # None
        PROVE  monitor'[idByPipe'[g]].pipe = g /\ interest'[g] = "IN"
    <3>1. g # m.pipe /\ idByPipe'[g] = idByPipe[g]
      BY <1>2, <2>1
    <3>2. /\ idByPipe[g] \in Slots /\ monitor[idByPipe[g]].pipe = g
          /\ interest[g] = "IN"
      BY <2>1, <3>1 DEF JobInv, Owned, PipeMapExact, TypeOK
    <3>3. idByPipe[g] # s /\ g # f
      BY <1>0, <3>1, <3>2 DEF Apart
    <3>4. QED
      BY <1>1, <1>2, <3>1, <3>2, <3>3
  <2>2. ASSUME NEW t \in Slots, monitor'[t].pipe # None
        PROVE  /\ pipe'[monitor'[t].pipe] = monitor'[t].pid
               /\ idByPipe'[monitor'[t].pipe] = t \/ AddMayFail
               /\ clientIdByFd'[monitor'[t].pipe] = None
    <3>1. t # s /\ monitor'[t] = monitor[t]
      BY <1>1, <1>4, <2>2
    <3>2. monitor[t].pipe # m.pipe /\ monitor[t].pipe \in Fds
      BY <1>0, <1>5, <2>2, <3>1 DEF Apart
    <3>3. QED
      BY <1>2, <2>2, <3>1, <3>2 DEF JobInv, Owned, PipeMapExact
  <2>3. ASSUME NEW g \in Fds, pipe'[g] # None
        PROVE  \E t \in Slots : monitor'[t].pipe = g
    <3>1. g # m.pipe /\ pipe[g] # None
      BY <1>2, <2>3
    <3>2. PICK t \in Slots : monitor[t].pipe = g
      BY <3>1 DEF JobInv, Owned, PipeMapExact
    <3>3. QED
      BY <1>1, <3>1, <3>2
  <2>4. QED
    BY <2>1, <2>2, <2>3 DEF PipeMapExact
<1>10. InterestFollowsState'
  <2> SUFFICES ASSUME NEW t \in Slots, client'[t].socket # None
               PROVE  interest'[client'[t].socket] =
                        IF client'[t].state \in {"BEGIN", "REQUEST_MODE"}
                          THEN "IN" ELSE "OUT"
    BY DEF InterestFollowsState
  <2>1. t # s /\ client'[t] = client[t]
    BY <1>1, <1>4
  <2>2. client[t].socket \notin {f, m.pipe} /\ client[t].socket \in Fds
    BY <1>0, <1>5, <2>1 DEF Apart
  <2>3. QED
    BY <1>2, <2>1, <2>2 DEF JobInv, Owned, InterestFollowsState
<1>11. QED
  BY <1>6, <1>7, <1>8, <1>9, <1>10 DEF JobInv, Owned

\* The state of one client changes, and with it what its socket is for.
Fits(s, d) ==
  LET c == client[s] IN
  /\ Sane(d)
  /\ d.state = "CGI_RUNING" <=> c.state = "CGI_RUNING"
  /\ d.socket = None => d.state \in Listening
  /\ d.state \in {"BEGIN", "START_RESPOND"}
       \/ (d.state \in Listening <=> c.state \in Listening)

LEMMA SettleJobs ==
  ASSUME TypeOK, SlotInv, JobInv, NEW s \in Slots, InUse(s),
         NEW d, d.socket = client[s].socket, Fits(s, d), Settle(s, d)
  PROVE  JobInv'
<1>1. \A t \in Slots : client'[t] = IF t = s THEN d ELSE client[t]
  BY DEF Settle, TypeOK
<1>2. /\ UNCHANGED <<clientIdByFd, idByPipe, monitor, pipe, child>>
      /\ \A g \in Fds : interest'[g] = IF g # d.socket THEN interest[g]
                                      ELSE IF d.state = "START_RESPOND" THEN "OUT"
                                      ELSE IF d.state = "BEGIN" THEN "IN"
                                      ELSE interest[g]
  BY DEF Settle, mapVars, procVars
<1>3. \A t \in Slots : InUse(t)' <=> InUse(t)
  BY <1>2 DEF InUse
<1>4. Apart /\ \A t \in Slots : client[t].socket \in Fds \cup {None}
  BY NumbersApart DEF TypeOK, Client
<1>5. ClientsOK'
  BY <1>1, <1>2, <1>3 DEF JobInv, ClientsOK, Fits
<1>6. Paired' /\ JobOwnership'
  BY <1>1, <1>2, <1>3 DEF JobInv, Owned, Paired, JobOwnership, Fits
<1>7. PipeMapExact'
  <2>1. ASSUME NEW g \in Fds, idByPipe[g] # None
        PROVE  interest'[g] = "IN"
    <3>1. /\ idByPipe[g] \in Slots /\ monitor[idByPipe[g]].pipe = g
          /\ interest[g] = "IN"
      BY <2>1 DEF JobInv, Owned, PipeMapExact, TypeOK
    <3>2. g # d.socket
      BY <1>4, <3>1, LoopAssumption DEF Apart
    <3>3. QED
      BY <1>2, <3>1, <3>2
  <2>2. QED
    BY <1>2, <2>1 DEF JobInv, Owned, PipeMapExact
<1>8. InterestFollowsState'
  <2> SUFFICES ASSUME NEW t \in Slots, client'[t].socket # None
               PROVE  interest'[client'[t].socket] =
                        IF client'[t].state \in {"BEGIN", "REQUEST_MODE"}
                          THEN "IN" ELSE "OUT"
    BY DEF InterestFollowsState
  <2>1. interest[client[t].socket] =
          IF client[t].state \in {"BEGIN", "REQUEST_MODE"} THEN "IN" ELSE "OUT"
    BY <1>1 DEF JobInv, Owned, InterestFollowsState
  <2>2. CASE t = s
    BY <1>1, <1>2, <1>4, <2>1, <2>2 DEF Fits, Listening
  <2>3. CASE t # s
    <3>1. client[t].socket # d.socket /\ client[t].socket \in Fds
      BY <1>1, <1>4, <2>3 DEF Apart
    <3>2. QED
      BY <1>1, <1>2, <2>1, <2>3, <3>1
  <2>4. QED
    BY <2>2, <2>3
<1>9. QED
  BY <1>5, <1>6, <1>7, <1>8 DEF JobInv, Owned

\* A child and a pipe that nobody has are given to a client that had none.
LEMMA StartCgiJobs ==
  ASSUME TypeOK, SlotInv, JobInv, NEW s \in Slots, InUse(s),
         NEW d, Handled(d), d.socket = client[s].socket, Sane(d),
         d.state = "CGI_START", client[s].state \in Answering,
         NEW p \in Pids, child[p] = "none", NEW f \in FreeFds,
         StartCgi(s, d, p, f)
  PROVE  JobInv'
<1> DEFINE e == [d EXCEPT !.state = "CGI_RUNING"]
           m == [pid |-> p, pipe |-> f, eof |-> FALSE]
<1>0. /\ f \in Fds /\ Apart /\ None \notin Fds \cup Pids \cup Slots
      /\ \A t \in Slots : client[t].socket \in Fds \cup {None}
  BY NumbersApart, LoopAssumption DEF FreeFds, TypeOK, Client
<1>1. e.state = "CGI_RUNING" /\ e.socket = client[s].socket /\ e.fdRespond = FALSE
  BY DEF Handled, Sane
<1>2. /\ \A t \in Slots : client'[t] = IF t = s THEN e ELSE client[t]
      /\ \A t \in Slots : monitor'[t] = IF t = s THEN m ELSE monitor[t]
      /\ \A g \in Fds : pipe'[g] = IF g = f THEN p ELSE pipe[g]
      /\ \A q \in Pids : child'[q] = IF q = p THEN "running" ELSE child[q]
      /\ clientIdByFd' = clientIdByFd
  BY <1>0 DEF StartCgi, TypeOK
<1>3. \/ \A g \in Fds : /\ idByPipe'[g] = IF g = f THEN s ELSE idByPipe[g]
                        /\ interest'[g] = IF g = f THEN "IN" ELSE interest[g]
      \/ AddMayFail /\ idByPipe' = idByPipe /\ interest' = interest
  BY <1>0 DEF StartCgi, TypeOK
<1>4. monitor[s].pid = None /\ monitor[s].pipe = None
  BY DEF JobInv, Owned, JobOwnership, Paired, Answering
<1>5. \A t \in Slots : monitor[t].pid # p
  BY <1>0 DEF JobInv, Owned, JobOwnership
<1>6. \A t \in Slots : monitor[t].pid # None => monitor[t].pid \in Pids
  BY DEF TypeOK, Monitor
<1>7. \A t \in Slots : InUse(t)' <=> InUse(t)
  BY <1>2 DEF InUse
<1>8. ClientsOK'
  <2>1. client[s].socket # None
    BY DEF JobInv, ClientsOK, Listening, Answering
  <2>2. Sane(e)
    BY <1>1 DEF Sane
  <2> HIDE DEF e, m
  <2>3. QED
    BY <1>1, <1>2, <1>7, <2>1, <2>2 DEF JobInv, ClientsOK
<1>9. Paired'
  BY <1>0, <1>2 DEF JobInv, Paired
<1> HIDE DEF e
<1>10. JobOwnership'
  <2>1. ASSUME NEW q \in Pids, child'[q] # "none"
        PROVE  \E t \in Slots : monitor'[t].pid = q
    <3>1. CASE q = p
      BY <1>2, <3>1
    <3>2. CASE q # p
      <4>1. PICK t \in Slots : monitor[t].pid = q
        BY <1>2, <2>1, <3>2 DEF JobInv, Owned, JobOwnership
      <4>2. t # s
        BY <1>0, <1>4, <4>1
      <4>3. QED
        BY <1>2, <4>1, <4>2
    <3>3. QED
      BY <3>1, <3>2
  <2>2. \A t, u \in Slots :
          monitor'[t].pid # None /\ monitor'[t].pid = monitor'[u].pid => t = u
    BY <1>2, <1>5 DEF JobInv, Owned, JobOwnership
  <2>3. \A t \in Slots : monitor'[t].pid # None <=> client'[t].state = "CGI_RUNING"
    BY <1>0, <1>1, <1>2 DEF JobInv, Owned, JobOwnership
  <2>4. \A t \in Slots : monitor'[t].pid # None =>
                          InUse(t)' /\ child'[monitor'[t].pid] # "none"
    BY <1>2, <1>6, <1>7 DEF JobInv, Owned, JobOwnership
  <2>5. QED
    BY <2>1, <2>2, <2>3, <2>4 DEF JobOwnership
<1>11. PipeMapExact'
  <2>1. ASSUME NEW g \in Fds, idByPipe'[g] # None
        PROVE  monitor'[idByPipe'[g]].pipe = g /\ interest'[g] = "IN"
    <3>1. CASE g = f
      <4>1. idByPipe[f] = None
        BY <1>0 DEF Apart
      <4>2. idByPipe'[f] = s /\ interest'[f] = "IN"
        BY <1>0, <1>3, <2>1, <3>1, <4>1
      <4>3. QED
        BY <1>2, <3>1, <4>2
    <3>2. CASE g # f
      <4>1. idByPipe'[g] = idByPipe[g] /\ interest'[g] = interest[g]
        BY <1>3, <3>2
      <4>2. /\ idByPipe[g] \in Slots /\ monitor[idByPipe[g]].pipe = g
            /\ interest[g] = "IN"
        BY <2>1, <4>1 DEF JobInv, Owned, PipeMapExact, TypeOK
      <4>3. idByPipe[g] # s
        BY <1>0, <1>4, <4>2
      <4>4. QED
        BY <1>2, <4>1, <4>2, <4>3
    <3>3. QED
      BY <3>1, <3>2
  <2>2. ASSUME NEW t \in Slots, monitor'[t].pipe # None
        PROVE  /\ pipe'[monitor'[t].pipe] = monitor'[t].pid
               /\ idByPipe'[monitor'[t].pipe] = t \/ AddMayFail
               /\ clientIdByFd'[monitor'[t].pipe] = None
    <3>1. CASE t = s
      <4>1. clientIdByFd[f] = None
        BY <1>0 DEF Apart
      <4>2. QED
        BY <1>0, <1>2, <1>3, <3>1, <4>1
    <3>2. CASE t # s
      <4>1. monitor'[t] = monitor[t] /\ monitor[t].pipe # f /\ monitor[t].pipe \in Fds
        BY <1>0, <1>2, <2>2, <3>2 DEF Apart, TypeOK, Monitor
      <4>2. QED
        BY <1>2, <1>3, <2>2, <4>1 DEF JobInv, Owned, PipeMapExact
    <3>3. QED
      BY <3>1, <3>2
  <2>3. ASSUME NEW g \in Fds, pipe'[g] # None
        PROVE  \E t \in Slots : monitor'[t].pipe = g
    <3>1. CASE g = f
      BY <1>2, <3>1
    <3>2. CASE g # f
      <4>1. PICK t \in Slots : monitor[t].pipe = g
        BY <1>2, <2>3, <3>2 DEF JobInv, Owned, PipeMapExact
      <4>2. t # s
        BY <1>0, <1>4, <4>1
      <4>3. QED
        BY <1>2, <4>1, <4>2
    <3>3. QED
      BY <3>1, <3>2
  <2>4. QED
    BY <2>1, <2>2, <2>3 DEF PipeMapExact
<1>12. InterestFollowsState'
  <2> SUFFICES ASSUME NEW t \in Slots, client'[t].socket # None
               PROVE  interest'[client'[t].socket] =
                        IF client'[t].state \in {"BEGIN", "REQUEST_MODE"}
                          THEN "IN" ELSE "OUT"
    BY DEF InterestFollowsState
  <2>1. client'[t].socket = client[t].socket
    BY <1>1, <1>2
  <2>2. client[t].socket # f /\ client[t].socket \in Fds
    BY <1>0, <2>1 DEF Apart
  <2>3. interest'[client[t].socket] = interest[client[t].socket]
    BY <1>3, <2>2
  <2>4. interest[client[t].socket] =
          IF client[t].state \in {"BEGIN", "REQUEST_MODE"} THEN "IN" ELSE "OUT"
    BY <2>1 DEF JobInv, Owned, InterestFollowsState
  <2>5. QED
    BY <1>1, <1>2, <2>1, <2>3, <2>4 DEF Answering
<1>13. QED
  BY <1>8, <1>9, <1>10, <1>11, <1>12 DEF JobInv, Owned

LEMMA FollowsFits ==
  ASSUME TypeOK, JobInv, NEW fd \in Fds, clientIdByFd[fd] # None, NEW d,
         d.socket = client[clientIdByFd[fd]].socket, Follows(fd, d),
         d.state \in StableStates
  PROVE  Fits(clientIdByFd[fd], d)
<1> DEFINE c == client[clientIdByFd[fd]]
<1>1. /\ clientIdByFd[fd] \in Slots
      /\ d.state # "CONNECTION_CLOSED" /\ d.state # "CGI_START"
  BY DEF TypeOK, StableStates
<1>2. c.socket = None => c.state \in Listening
  BY <1>1 DEF JobInv, ClientsOK
<1>3. Sane(d)
  BY <1>1 DEF Follows
<1>4. CASE Reads(fd, d)
  BY <1>1, <1>3, <1>4 DEF Reads, Fits, Listening
<1>5. CASE Rests(c, d)
  BY <1>2, <1>3, <1>5 DEF Rests, Fits
<1>6. CASE Responds(c, d)
  BY <1>1, <1>2, <1>3, <1>6 DEF Responds, Fits, Listening, Answering
<1>7. QED
  BY <1>4, <1>5, <1>6 DEF Follows

LEMMA HandlerJobs ==
  ASSUME TypeOK, LoopInv, NEW fd \in Fds, HandlerStep(fd)
  PROVE  JobInv'
<1> DEFINE s == clientIdByFd[fd]
<1>1. PICK d : /\ Handled(d)
               /\ d.socket = client[s].socket
               /\ Follows(fd, d)
               /\ Leaves(fd, d)
  BY HandlerFollows
<1>2. s # None /\ s \in Slots /\ InUse(s) /\ SlotInv /\ JobInv
  BY HandlerFollows DEF TypeOK, InUse, LoopInv
<1>3. CASE FreeClient(fd)
  BY <1>2, <1>3, FreeClientJobs
<1>4. ASSUME d.state = "CGI_START",
             NEW p \in Pids, child[p] = "none", NEW f \in FreeFds,
             StartCgi(s, d, p, f)
      PROVE  JobInv'
  <2>1. ~Reads(fd, d)
    BY <1>4 DEF Reads
  <2>2. ~Rests(client[s], d)
    <3>1. client[s].state \in StableStates
      BY <1>2 DEF TypeOK, Client
    <3>2. QED
      BY <1>4, <3>1 DEF Rests, StableStates
  <2>3. client[s].state \in Answering /\ Sane(d)
    BY <1>1, <1>4, <2>1, <2>2 DEF Follows, Responds
  <2>4. QED
    BY <1>1, <1>2, <1>4, <2>3, StartCgiJobs
<1>5. CASE d.state \in StableStates /\ Settle(s, d)
  BY <1>1, <1>2, <1>5, FollowsFits, SettleJobs
<1>6. QED
  BY <1>1, <1>3, <1>4, <1>5 DEF Leaves

\* The job ends and the connection goes on: the entry that is erased is the one
\* of the pipe that is closed.
LEMMA EndCgiJobs ==
  ASSUME TypeOK, SlotInv, JobInv, NEW f \in Fds, idByPipe[f] # None,
         NEW event, EndCgi(idByPipe[f], f, event), UNCHANGED clientIdByFd
  PROVE  JobInv'
<1> DEFINE s == idByPipe[f]
           m == monitor[s]
           e == [client[s] EXCEPT !.state = "CGI_END", !.event = event]
<1>0. /\ s \in Slots /\ Apart /\ None \notin Fds \cup Pids \cup Slots
      /\ m.pipe = f /\ m.pid # None /\ client[s].state = "CGI_RUNING"
  <2>1. s \in Slots /\ m.pipe = f
    BY DEF TypeOK, JobInv, Owned, PipeMapExact
  <2>2. QED
    BY <2>1, NumbersApart, LoopAssumption DEF JobInv, Owned, JobOwnership, Paired
<1>1. /\ e.state = "CGI_END" /\ e.socket = client[s].socket
      /\ e.fdRespond = client[s].fdRespond
  BY <1>0 DEF TypeOK, Client
<1>2. /\ \A t \in Slots : client'[t] = IF t = s THEN e ELSE client[t]
      /\ \A t \in Slots : monitor'[t] = IF t = s THEN NoCgi ELSE monitor[t]
      /\ \A g \in Fds : idByPipe'[g] = IF g = f THEN None ELSE idByPipe[g]
      /\ \A g \in Fds : interest'[g] = IF g = f THEN "NONE" ELSE interest[g]
      /\ \A g \in Fds : pipe'[g] = IF g = f THEN None ELSE pipe[g]
      /\ \A p \in Pids : child'[p] = IF p = m.pid THEN "none" ELSE child[p]
      /\ clientIdByFd' = clientIdByFd
  BY <1>0 DEF EndCgi, PopPipe, Unregister, FreeCgi, TypeOK
<1>3. NoCgi.pid = None /\ NoCgi.pipe = None
  BY DEF NoCgi
<1>4. \A t \in Slots : /\ monitor[t].pid \in Pids \cup {None}
                      /\ monitor[t].pipe \in Fds \cup {None}
                      /\ client[t].socket \in Fds \cup {None}
  BY DEF TypeOK, Monitor, Client
<1>5. \A t \in Slots : InUse(t)' <=> InUse(t)
  BY <1>2 DEF InUse
<1> HIDE DEF e
<1>6. ClientsOK'
  <2>1. Sane(e)
    <3>1. client[s].fdRespond = FALSE
      BY <1>0 DEF JobInv, ClientsOK, Sane, TypeOK, Client
    <3>2. QED
      BY <1>1, <3>1 DEF Sane
  <2>2. InUse(s) /\ client[s].socket # None
    BY <1>0 DEF JobInv, Owned, JobOwnership, ClientsOK, Listening
  <2>3. QED
    BY <1>1, <1>2, <1>5, <2>1, <2>2 DEF JobInv, ClientsOK
<1>7. Paired'
  BY <1>2, <1>3 DEF JobInv, Paired
<1>8. JobOwnership'
  <2>1. ASSUME NEW p \in Pids, child'[p] # "none"
        PROVE  \E t \in Slots : monitor'[t].pid = p
    <3>1. p # m.pid /\ child[p] # "none"
      BY <1>2, <2>1
    <3>2. PICK t \in Slots : monitor[t].pid = p
      BY <3>1 DEF JobInv, Owned, JobOwnership
    <3>3. QED
      BY <1>2, <3>1, <3>2
  <2>2. \A t, u \in Slots :
          monitor'[t].pid # None /\ monitor'[t].pid = monitor'[u].pid => t = u
    BY <1>2, <1>3 DEF JobInv, Owned, JobOwnership
  <2>3. \A t \in Slots : monitor'[t].pid # None <=> client'[t].state = "CGI_RUNING"
    BY <1>1, <1>2, <1>3 DEF JobInv, Owned, JobOwnership
  <2>4. ASSUME NEW t \in Slots, monitor'[t].pid # None
        PROVE  InUse(t)' /\ child'[monitor'[t].pid] # "none"
    <3>1. t # s /\ monitor'[t] = monitor[t]
      BY <1>2, <1>3, <2>4
    <3>2. InUse(t) /\ child[monitor[t].pid] # "none" /\ monitor[t].pid # m.pid
      BY <1>0, <2>4, <3>1 DEF JobInv, Owned, JobOwnership
    <3>3. QED
      BY <1>2, <1>4, <1>5, <2>4, <3>1, <3>2
  <2>5. QED
    BY <2>1, <2>2, <2>3, <2>4 DEF JobOwnership
<1>9. PipeMapExact'
  <2>1. ASSUME NEW g \in Fds, idByPipe'[g] # None
        PROVE  monitor'[idByPipe'[g]].pipe = g /\ interest'[g] = "IN"
    <3>1. g # f /\ idByPipe'[g] = idByPipe[g]
      BY <1>2, <2>1
    <3>2. /\ idByPipe[g] \in Slots /\ monitor[idByPipe[g]].pipe = g
          /\ interest[g] = "IN"
      BY <2>1, <3>1 DEF JobInv, Owned, PipeMapExact, TypeOK
    <3>3. idByPipe[g] # s
      BY <1>0, <3>1, <3>2
    <3>4. QED
      BY <1>2, <3>1, <3>2, <3>3
  <2>2. ASSUME NEW t \in Slots, monitor'[t].pipe # None
        PROVE  /\ pipe'[monitor'[t].pipe] = monitor'[t].pid
               /\ idByPipe'[monitor'[t].pipe] = t \/ AddMayFail
               /\ clientIdByFd'[monitor'[t].pipe] = None
    <3>1. t # s /\ monitor'[t] = monitor[t]
      BY <1>2, <1>3, <2>2
    <3>2. monitor[t].pipe # f /\ monitor[t].pipe \in Fds
      BY <1>0, <1>4, <2>2, <3>1 DEF Apart
    <3>3. QED
      BY <1>2, <2>2, <3>1, <3>2 DEF JobInv, Owned, PipeMapExact
  <2>3. ASSUME NEW g \in Fds, pipe'[g] # None
        PROVE  \E t \in Slots : monitor'[t].pipe = g
    <3>1. g # f /\ pipe[g] # None
      BY <1>2, <2>3
    <3>2. PICK t \in Slots : monitor[t].pipe = g
      BY <3>1 DEF JobInv, Owned, PipeMapExact
    <3>3. QED
      BY <1>0, <1>2, <3>1, <3>2
  <2>4. QED
    BY <2>1, <2>2, <2>3 DEF PipeMapExact
<1>10. InterestFollowsState'
  <2> SUFFICES ASSUME NEW t \in Slots, client'[t].socket # None
               PROVE  interest'[client'[t].socket] =
                        IF client'[t].state \in {"BEGIN", "REQUEST_MODE"}
                          THEN "IN" ELSE "OUT"
    BY DEF InterestFollowsState
  <2>1. client'[t].socket = client[t].socket
    BY <1>1, <1>2
  <2>2. client[t].socket # f /\ client[t].socket \in Fds
    BY <1>0, <1>4, <2>1 DEF Apart
  <2>3. interest[client[t].socket] =
          IF client[t].state \in {"BEGIN", "REQUEST_MODE"} THEN "IN" ELSE "OUT"
    BY <2>1 DEF JobInv, Owned, InterestFollowsState
  <2>4. QED
    BY <1>0, <1>1, <1>2, <2>1, <2>2, <2>3
<1>11. QED
  BY <1>6, <1>7, <1>8, <1>9, <1>10 DEF JobInv, Owned

\* A connection is refused, or gets a free number and a free slot.
Accepts(fd, s) ==
  /\ ~InUse(s)
  /\ \A g \in Fds : clientIdByFd'[g] = IF g = fd THEN s ELSE clientIdByFd[g]
  /\ \A g \in Fds : peer'[g] = IF g = fd THEN "open" ELSE peer[g]
  /\ \/ /\ \A g \in Fds : interest'[g] = IF g = fd THEN "IN" ELSE interest[g]
        /\ \A t \in Slots : client'[t] = IF t = s THEN [client[s] EXCEPT !.socket = fd]
                                                ELSE client[t]
     \/ AddMayFail /\ UNCHANGED <<interest, client>>

LEMMA AcceptTakes ==
  ASSUME TypeOK, SlotInv, AcceptClient
  PROVE  /\ UNCHANGED <<idByPipe, monitor, procVars>>
         /\ Take(ServerFd)
         /\ \/ available = <<>> /\ UNCHANGED <<clientIdByFd, client, interest, peer>>
            \/ \E fd \in FreeFds, s \in Slots : Accepts(fd, s)
<1>1. PICK fd \in FreeFds :
        IF available = <<>>
          THEN UNCHANGED <<mapVars, client, interest, sockVars, expired>>
          ELSE LET s == available[Len(available)] IN
               /\ available' = SubSeq(available, 1, Len(available) - 1)
               /\ clientIdByFd' = [clientIdByFd EXCEPT ![fd] = s]
               /\ peer' = [peer EXCEPT ![fd] = "open"]
               /\ \/ /\ interest' = [interest EXCEPT ![fd] = "IN"]
                     /\ client' = [client EXCEPT ![s].socket = fd]
                     /\ expired' = expired \ {s}
                  \/ /\ AddMayFail
                     /\ UNCHANGED <<interest, client, expired>>
               /\ UNCHANGED <<idByPipe, input, stalled>>
  BY DEF AcceptClient
<1>2. Take(ServerFd) /\ UNCHANGED <<monitor, procVars>>
  BY DEF AcceptClient
<1>3. CASE available = <<>>
  BY <1>1, <1>2, <1>3 DEF mapVars, sockVars
<1>4. CASE available # <<>>
  <2> DEFINE s == available[Len(available)]
  <2>1. available \in Seq(Slots)
    BY DEF TypeOK
  <2>2. Len(available) \in 1 .. Len(available)
    BY <1>4, <2>1
  <2>3. s \in Slots
    BY <2>1, <2>2
  <2>4. ~InUse(s)
    BY <2>2, <2>3 DEF SlotInv, SlotConservation
  <2>5. /\ \A g \in Fds : clientIdByFd'[g] = IF g = fd THEN s ELSE clientIdByFd[g]
        /\ \A g \in Fds : peer'[g] = IF g = fd THEN "open" ELSE peer[g]
    BY <1>1, <1>4 DEF FreeFds, TypeOK
  <2>6. \/ /\ \A g \in Fds : interest'[g] = IF g = fd THEN "IN" ELSE interest[g]
           /\ \A t \in Slots : client'[t] = IF t = s THEN [client[s] EXCEPT !.socket = fd]
                                                   ELSE client[t]
        \/ AddMayFail /\ UNCHANGED <<interest, client>>
    BY <1>1, <1>4, <2>3 DEF FreeFds, TypeOK
  <2>7. Accepts(fd, s)
    BY <2>4, <2>5, <2>6 DEF Accepts
  <2>8. idByPipe' = idByPipe
    BY <1>1, <1>4
  <2>9. QED
    BY <1>2, <2>3, <2>7, <2>8
<1>5. QED
  BY <1>3, <1>4

\* Nothing of what JobInv is about changes, but for whether a pipe is at its end
\* and how a child ended.
JobsKept ==
  /\ UNCHANGED <<clientIdByFd, client, idByPipe, interest, pipe>>
  /\ \A t \in Slots : monitor'[t].pid = monitor[t].pid /\ monitor'[t].pipe = monitor[t].pipe
  /\ \A t \in Slots : monitor[t] = NoCgi => monitor'[t] = NoCgi
  /\ \A p \in Pids : child'[p] = "none" <=> child[p] = "none"

LEMMA JobsKeptJobs ==
  ASSUME TypeOK, JobInv, JobsKept
  PROVE  JobInv'
<1>0. \A t \in Slots : monitor[t].pid \in Pids \cup {None}
  BY DEF TypeOK, Monitor
<1>1. \A t \in Slots : InUse(t)' <=> InUse(t)
  BY DEF InUse, JobsKept
<1>2. ClientsOK' /\ Paired'
  BY <1>1 DEF JobInv, ClientsOK, Paired, JobsKept
<1>3. JobOwnership'
  BY <1>0, <1>1 DEF JobInv, Owned, JobOwnership, JobsKept
<1>4. PipeMapExact'
  <2>1. \A g \in Fds : idByPipe[g] # None => idByPipe[g] \in Slots
    BY DEF TypeOK
  <2>2. QED
    BY <2>1 DEF JobInv, Owned, PipeMapExact, JobsKept
<1>5. InterestFollowsState'
  BY DEF JobInv, Owned, InterestFollowsState, JobsKept
<1>6. QED
  BY <1>2, <1>3, <1>4, <1>5 DEF JobInv, Owned

LEMMA AcceptJobs ==
  ASSUME TypeOK, SlotInv, JobInv, AcceptClient
  PROVE  JobInv'
<1>1. UNCHANGED <<idByPipe, monitor, pipe, child>>
  BY AcceptTakes DEF procVars
<1>2. CASE UNCHANGED <<clientIdByFd, client, interest, peer>>
  <2>1. JobsKept
    BY <1>1, <1>2 DEF JobsKept
  <2>2. QED
    BY <2>1, JobsKeptJobs
<1>3. ASSUME NEW fd \in FreeFds, NEW s \in Slots, Accepts(fd, s)
      PROVE  JobInv'
  <2>0. /\ fd \in Fds /\ Apart /\ None \notin Fds \cup Pids \cup Slots
        /\ \A t \in Slots : /\ client[t].socket \in Fds \cup {None}
                            /\ monitor[t].pipe \in Fds \cup {None}
    BY NumbersApart, LoopAssumption DEF FreeFds, TypeOK, Client, Monitor
  <2>1. /\ \A g \in Fds : clientIdByFd'[g] = IF g = fd THEN s ELSE clientIdByFd[g]
        /\ client[s] = FreedClient /\ monitor[s] = NoCgi
    BY <1>3 DEF Accepts, JobInv, ClientsOK
  <2> DEFINE c == [client[s] EXCEPT !.socket = fd]
  <2>2. /\ c.state = "BEGIN" /\ c.socket = fd /\ c.fdRespond = FALSE
        /\ client[s].state = "BEGIN" /\ client[s].socket = None
        /\ monitor[s].pid = None /\ monitor[s].pipe = None
    BY <2>1 DEF FreedClient, NoCgi
  <2>3. \/ /\ \A g \in Fds : interest'[g] = IF g = fd THEN "IN" ELSE interest[g]
           /\ \A t \in Slots : client'[t] = IF t = s THEN c ELSE client[t]
        \/ AddMayFail /\ UNCHANGED <<interest, client>>
    BY <1>3 DEF Accepts
  <2>4. \A t \in Slots : InUse(t)' <=> InUse(t) \/ t = s
    BY <2>0, <2>1 DEF InUse, Apart
  <2> HIDE DEF c
  <2>5. /\ \A t \in Slots : client'[t].state = client[t].state
        /\ \A t \in Slots : client'[t].fdRespond = client[t].fdRespond
        /\ \A t \in Slots : client'[t].place = client[t].place
        /\ \A t \in Slots : client'[t].socket \in {client[t].socket, fd}
        /\ \A t \in Slots : client'[t].socket = fd => t = s
        /\ \A t \in Slots : t # s => client'[t] = client[t]
    <3>1. c.place = client[s].place /\ c.fdRespond = client[s].fdRespond
      BY <2>1 DEF c, FreedClient
    <3>2. QED
      BY <2>0, <2>2, <2>3, <3>1 DEF Apart
  <2>6. ClientsOK'
    BY <2>0, <1>1, <2>4, <2>5 DEF JobInv, ClientsOK, Sane
  <2>7. Paired' /\ JobOwnership'
    BY <1>1, <2>4, <2>5 DEF JobInv, Owned, Paired, JobOwnership
  <2>8. PipeMapExact'
    <3>1. ASSUME NEW g \in Fds, idByPipe[g] # None
          PROVE  interest'[g] = "IN"
      <4>1. g # fd /\ interest[g] = "IN"
        BY <2>0, <3>1 DEF Apart, JobInv, Owned, PipeMapExact
      <4>2. QED
        BY <2>3, <4>1
    <3>2. ASSUME NEW t \in Slots, monitor[t].pipe # None
          PROVE  clientIdByFd'[monitor[t].pipe] = None
      <4>1. monitor[t].pipe # fd /\ monitor[t].pipe \in Fds
        BY <2>0, <3>2 DEF Apart
      <4>2. QED
        BY <2>1, <3>2, <4>1 DEF JobInv, Owned, PipeMapExact
    <3>3. QED
      BY <1>1, <3>1, <3>2 DEF JobInv, Owned, PipeMapExact
  <2>9. InterestFollowsState'
    <3> SUFFICES ASSUME NEW t \in Slots, client'[t].socket # None
                 PROVE  interest'[client'[t].socket] =
                          IF client'[t].state \in {"BEGIN", "REQUEST_MODE"}
                            THEN "IN" ELSE "OUT"
      BY DEF InterestFollowsState
    <3>1. CASE client'[t].socket = fd
      <4>1. t = s
        BY <2>5, <3>1
      <4>2. interest'[fd] = "IN"
        BY <2>0, <2>2, <2>3, <3>1, <4>1
      <4>3. QED
        BY <2>2, <2>5, <3>1, <4>1, <4>2
    <3>2. CASE client'[t].socket # fd
      <4>1. client'[t].socket = client[t].socket /\ client[t].socket \in Fds
        BY <2>0, <2>5, <3>2
      <4>2. interest'[client[t].socket] = interest[client[t].socket]
        BY <2>3, <3>2, <4>1
      <4>3. QED
        BY <2>5, <4>1, <4>2 DEF JobInv, Owned, InterestFollowsState
    <3>3. QED
      BY <3>1, <3>2
  <2>10. QED
    BY <2>6, <2>7, <2>8, <2>9 DEF JobInv, Owned
<1>4. QED
  BY <1>2, <1>3, AcceptTakes

\* The other steps of the server and the steps of the outside.
LEMMA ServerJobs ==
  ASSUME TypeOK, LoopInv, Server
  PROVE  JobInv'
<1>0. SlotInv /\ JobInv
  BY DEF LoopInv
<1>1. CASE AcceptClient
  BY <1>0, <1>1, AcceptJobs
<1>2. ASSUME NEW f \in Fds,
             ClientReadable(f) \/ ClientWritable(f) \/ ClientSends(f)
      PROVE  JobInv'
  BY <1>2, TypeOKSplit, ReadableStep, WritableStep, SendsStep, HandlerJobs
<1>3. ASSUME NEW f \in Fds, ClientError(f) \/ TimeoutClient(f)
      PROVE  JobInv'
  BY <1>0, <1>3, FreeClientJobs DEF ClientError, TimeoutClient
<1>4. ASSUME NEW f \in Fds, NEW event, EndCgi(idByPipe[f], f, event),
             idByPipe[f] # None, UNCHANGED clientIdByFd
      PROVE  JobInv'
  BY <1>0, <1>4, EndCgiJobs
<1>5. ASSUME NEW f \in Fds, PipeData(f), ~ \E event : EndCgi(idByPipe[f], f, event)
      PROVE  JobsKept
  BY <1>5 DEF PipeData, JobsKept
<1>6. ASSUME NEW f \in Fds, PipeEof(f), ~ \E event : EndCgi(idByPipe[f], f, event)
      PROVE  JobsKept
  <2>1. idByPipe[f] \in Slots
    BY <1>6 DEF PipeEof, PipeEvent, TypeOK
  <2>2. monitor' = [monitor EXCEPT ![idByPipe[f]].eof = TRUE]
    BY <1>6 DEF PipeEof
  <2>3. ASSUME NEW t \in Slots
        PROVE  /\ monitor'[t].pid = monitor[t].pid /\ monitor'[t].pipe = monitor[t].pipe
               /\ monitor[t] = NoCgi => monitor'[t] = NoCgi
    <3>1. monitor[t] \in Monitor
      BY DEF TypeOK
    <3>2. monitor'[t] = IF t = idByPipe[f] THEN [monitor[t] EXCEPT !.eof = TRUE]
                        ELSE monitor[t]
      BY <2>1, <2>2 DEF TypeOK
    <3>3. monitor[idByPipe[f]].pipe = f /\ f # None
      BY <1>0, <1>6, LoopAssumption DEF PipeEof, PipeEvent, JobInv, Owned, PipeMapExact
    <3>4. monitor[t] = NoCgi => monitor'[t] = NoCgi
      BY <3>2, <3>3 DEF NoCgi
    <3>5. monitor'[t].pid = monitor[t].pid /\ monitor'[t].pipe = monitor[t].pipe
      BY <3>1, <3>2 DEF Monitor
    <3>6. QED
      BY <3>4, <3>5
  <2>4. UNCHANGED <<clientIdByFd, client, idByPipe, interest, pipe, child>>
    BY <1>6 DEF PipeEof
  <2>5. QED
    BY <2>3, <2>4 DEF JobsKept
<1>7. ASSUME NEW f \in Fds, PipeData(f) \/ PipeEof(f) \/ TimeoutCgi(f)
      PROVE  JobInv'
  <2>1. idByPipe[f] # None /\ UNCHANGED clientIdByFd
    BY <1>7 DEF PipeData, PipeEof, PipeEvent, TimeoutCgi
  <2>2. CASE \E event : EndCgi(idByPipe[f], f, event)
    BY <1>4, <2>1, <2>2
  <2>3. CASE ~ \E event : EndCgi(idByPipe[f], f, event)
    <3>1. ~TimeoutCgi(f)
      BY <2>3 DEF TimeoutCgi
    <3>2. QED
      BY <1>0, <1>5, <1>6, <1>7, <2>3, <3>1, JobsKeptJobs
  <2>4. QED
    BY <2>2, <2>3
<1>8. CASE \/ Poll \/ AcceptFails \/ AcceptDropped \/ TimeoutCgiDone
           \/ TimeoutClientsDone \/ \E f \in Fds : UnknownEvent(f)
  <2>1. JobsKept
    BY <1>8 DEF Poll, AcceptFails, AcceptDropped, TimeoutCgiDone,
                TimeoutClientsDone, UnknownEvent, JobsKept, mapVars, procVars
  <2>2. QED
    BY <1>0, <2>1, JobsKeptJobs
<1>9. QED
  BY <1>1, <1>2, <1>3, <1>7, <1>8 DEF Server

LEMMA OutsideKeepsJobs ==
  ASSUME TypeOK, Outside
  PROVE  JobsKept /\ UNCHANGED <<pc, batch>>
<1> USE DEF JobsKept, serverVars, procVars, TypeOK
<1>1. CASE PeerConnects
  BY <1>1 DEF PeerConnects
<1>2. ASSUME NEW f \in Fds, \/ PeerSends(f) \/ PeerCloses(f) \/ PeerResets(f)
                            \/ PeerStalls(f) \/ PeerDrains(f)
      PROVE  JobsKept /\ UNCHANGED <<pc, batch>>
  BY <1>2 DEF PeerSends, PeerCloses, PeerResets, PeerStalls, PeerDrains
<1>3. ASSUME NEW p \in Pids, ChildWrites(p) \/ ChildClosesStdout(p)
      PROVE  JobsKept /\ UNCHANGED <<pc, batch>>
  BY <1>3 DEF ChildWrites, ChildClosesStdout
<1>4. ASSUME NEW p \in Pids, ChildExits(p)
      PROVE  JobsKept /\ UNCHANGED <<pc, batch>>
  <2>1. \A q \in Pids : child'[q] = "none" <=> child[q] = "none"
    BY <1>4 DEF ChildExits
  <2>2. QED
    BY <1>4, <2>1 DEF ChildExits
<1>5. ASSUME NEW s \in Slots, ClientTimePasses(s) \/ CgiTimePasses(s)
      PROVE  JobsKept /\ UNCHANGED <<pc, batch>>
  BY <1>5 DEF ClientTimePasses, CgiTimePasses
<1>6. QED
  BY <1>1, <1>2, <1>3, <1>4, <1>5 DEF Outside

-----------------------------------------------------------------------------
(***************************************************************************)
(* The rest of the batch stays true of the connections it names.           *)
(***************************************************************************)

\* A number with an event left has the connection it had, no further than it
\* was, or a new one; and a dead socket stays dead.
Holds(f) ==
  /\ clientIdByFd'[f] # None /\ "IN" \in batch'[f] =>
       client'[clientIdByFd'[f]].state \in Listening
  /\ "ERR" \in batch'[f] => peer'[f] \in {"reset", "gone"}

LEMMA TakeTakes ==
  ASSUME TypeOK, NEW f \in Fds \cup {ServerFd}, Take(f)
  PROVE  /\ \A g \in Fds : batch'[g] = IF g = f THEN {} ELSE batch[g]
         /\ pc' # "DISPATCH" => \A g \in Fds \cup {ServerFd} : batch'[g] = {}
         /\ pc = "DISPATCH"
  BY DEF Take, TypeOK

LEMMA HandlerBatch ==
  ASSUME TypeOK, LoopInv, NEW fd \in Fds, clientIdByFd[fd] # None, Take(fd),
         \A t \in Slots : t # clientIdByFd[fd] => client'[t] = client[t],
         \A g \in Fds : g # fd => clientIdByFd'[g] = clientIdByFd[g],
         \A g \in Fds : g # fd /\ peer[g] \in {"reset", "gone"} =>
                           peer'[g] \in {"reset", "gone"}
  PROVE  BatchOK'
<1>1. ASSUME NEW g \in Fds PROVE Holds(g)
  <2>1. CASE g = fd
    BY <2>1, TakeTakes DEF Holds
  <2>2. CASE g # fd
    <3>1. batch'[g] = batch[g] /\ clientIdByFd'[g] = clientIdByFd[g]
      BY <2>2, TakeTakes
    <3>2. clientIdByFd[g] # None =>
            clientIdByFd[g] \in Slots /\ clientIdByFd[g] # clientIdByFd[fd]
      BY <2>2 DEF TypeOK, LoopInv, SlotInv, SlotConservation
    <3>3. clientIdByFd[g] # None => client'[clientIdByFd[g]] = client[clientIdByFd[g]]
      BY <3>2
    <3>4. "ERR" \in batch'[g] => peer'[g] \in {"reset", "gone"}
      BY <2>2, <3>1 DEF LoopInv, BatchOK
    <3>5. QED
      BY <3>1, <3>3, <3>4 DEF Holds, LoopInv, BatchOK
  <2>3. QED
    BY <2>1, <2>2
<1>2. QED
  BY <1>1, TakeTakes DEF BatchOK, Holds

LEMMA FreeClientBatch ==
  ASSUME TypeOK, LoopInv, NEW fd \in Fds, clientIdByFd[fd] # None, Take(fd),
         FreeClient(fd)
  PROVE  BatchOK'
<1> DEFINE f == client[clientIdByFd[fd]].socket
<1>1. f = fd \/ f = None
  BY DEF LoopInv, SlotInv, SocketAccounting
<1>2. /\ client' = [client EXCEPT ![clientIdByFd[fd]] = FreedClient]
      /\ clientIdByFd' = [clientIdByFd EXCEPT ![fd] = None]
      /\ peer' = [g \in Fds |-> IF g = f THEN "none" ELSE peer[g]]
  BY DEF FreeClient, GiveBack, CloseSocket
<1>3. \A t \in Slots : t # clientIdByFd[fd] => client'[t] = client[t]
  BY <1>2 DEF TypeOK
<1>4. \A g \in Fds : g # fd => clientIdByFd'[g] = clientIdByFd[g] /\ peer'[g] = peer[g]
  BY <1>1, <1>2, LoopAssumption DEF TypeOK
<1>5. QED
  BY <1>3, <1>4, HandlerBatch

LEMMA PollBatch ==
  ASSUME TypeOK, LoopInv, Poll
  PROVE  BatchOK'
<1>1. PICK B \in SUBSET Ready :
        /\ batch' = [f \in Fds \cup {ServerFd} |-> IF f \in B THEN ReadyFlags(f) ELSE {}]
        /\ pc' = IF B = {} THEN "TIMEOUT_CGI" ELSE "DISPATCH"
  BY DEF Poll
<1>2. UNCHANGED <<clientIdByFd, client, peer>>
  BY DEF Poll, mapVars, sockVars
<1>3. ASSUME NEW f \in Fds, batch'[f] # {} PROVE Holds(f)
  <2>1. batch'[f] = ReadyFlags(f)
    BY <1>1, <1>3
  <2>2. batch'[f] = IF peer[f] # "none" THEN SocketFlags(f) ELSE PipeFlags(f)
    BY <1>3, <2>1, LoopAssumption DEF ReadyFlags
  <2>3. "ERR" \in batch'[f] => peer[f] \in {"reset", "gone"}
    BY <2>2 DEF SocketFlags, PipeFlags
  <2>4. ASSUME clientIdByFd[f] # None, "IN" \in batch'[f]
        PROVE  client[clientIdByFd[f]].state \in Listening
    <3> DEFINE s == clientIdByFd[f]
    <3>1. s \in Slots /\ peer[f] # "none"
      BY <2>4 DEF LoopInv, SlotInv, MappedOpen, TypeOK
    <3>2. interest[f] = "IN"
      BY <2>2, <2>4, <3>1 DEF SocketFlags
    <3>3. client[s].socket = f \/ client[s].socket = None
      BY <2>4 DEF LoopInv, SlotInv, SocketAccounting
    <3>4. CASE client[s].socket = None
      BY <3>1, <3>4 DEF LoopInv, JobInv, ClientsOK
    <3>5. CASE client[s].socket = f
      <4>1. f # None
        BY LoopAssumption
      <4>2. interest[f] = IF client[s].state \in {"BEGIN", "REQUEST_MODE"}
                            THEN "IN" ELSE "OUT"
        BY <3>1, <3>5, <4>1 DEF LoopInv, JobInv, Owned, InterestFollowsState
      <4>3. QED
        BY <3>2, <4>2 DEF Listening
    <3>6. QED
      BY <3>3, <3>4, <3>5
  <2>5. QED
    BY <1>2, <2>3, <2>4 DEF Holds
<1>4. pc' # "DISPATCH" => \A f \in Fds \cup {ServerFd} : batch'[f] = {}
  BY <1>1
<1>5. QED
  BY <1>3, <1>4 DEF BatchOK, Holds

\* The batch shrinks, and the connections of its numbers are as they were.
LEMMA ShrinkBatch ==
  ASSUME TypeOK, LoopInv,
         \A f \in Fds : batch'[f] = batch[f] \/ batch'[f] = {},
         pc' # "DISPATCH" => \A f \in Fds \cup {ServerFd} : batch'[f] = {},
         UNCHANGED clientIdByFd,
         \A t \in Slots : client[t].state \in Listening => client'[t].state \in Listening,
         \A f \in Fds : peer[f] \in {"reset", "gone"} => peer'[f] \in {"reset", "gone"}
  PROVE  BatchOK'
<1>1. ASSUME NEW f \in Fds PROVE Holds(f)
  <2>1. clientIdByFd[f] # None => clientIdByFd[f] \in Slots
    BY DEF TypeOK
  <2>2. CASE batch'[f] = {}
    BY <2>2 DEF Holds
  <2>3. CASE batch'[f] = batch[f]
    BY <2>1, <2>3 DEF Holds, LoopInv, BatchOK
  <2>4. QED
    BY <2>2, <2>3
<1>2. QED
  BY <1>1 DEF BatchOK, Holds

LEMMA AcceptBatch ==
  ASSUME TypeOK, LoopInv, AcceptClient
  PROVE  BatchOK'
<1>0. SlotInv /\ JobInv /\ Take(ServerFd) /\ ServerFd \notin Fds
  BY AcceptTakes, LoopAssumption DEF LoopInv
<1>1. /\ \A g \in Fds : batch'[g] = batch[g]
      /\ pc' # "DISPATCH" => \A g \in Fds \cup {ServerFd} : batch'[g] = {}
  BY <1>0, TakeTakes
<1>2. CASE UNCHANGED <<clientIdByFd, client, peer>>
  BY <1>1, <1>2, ShrinkBatch
<1>3. ASSUME NEW fd \in FreeFds, NEW s \in Slots, Accepts(fd, s)
      PROVE  BatchOK'
  <2>1. client[s] = FreedClient /\ fd \in Fds /\ peer[fd] = "none"
    BY <1>0, <1>3 DEF Accepts, JobInv, ClientsOK, FreeFds
  <2>2. /\ \A g \in Fds : clientIdByFd'[g] = IF g = fd THEN s ELSE clientIdByFd[g]
        /\ \A g \in Fds : peer'[g] = IF g = fd THEN "open" ELSE peer[g]
    BY <1>3 DEF Accepts
  <2>3. \A t \in Slots : client'[t].state = client[t].state
    <3>1. [client[s] EXCEPT !.socket = fd].state = client[s].state
      BY <2>1 DEF FreedClient
    <3>2. QED
      BY <1>3, <3>1 DEF Accepts
  <2>4. client[s].state \in Listening
    BY <2>1 DEF FreedClient, Listening
  <2>5. ASSUME NEW g \in Fds PROVE Holds(g)
    <3>1. CASE g = fd
      <4>1. "ERR" \notin batch[g]
        BY <2>1, <3>1 DEF LoopInv, BatchOK
      <4>2. QED
        BY <1>1, <2>2, <2>3, <2>4, <3>1, <4>1 DEF Holds
    <3>2. CASE g # fd
      <4>1. clientIdByFd[g] # None => clientIdByFd[g] \in Slots
        BY DEF TypeOK
      <4>2. QED
        BY <1>1, <2>2, <2>3, <3>2, <4>1 DEF Holds, LoopInv, BatchOK
    <3>3. QED
      BY <3>1, <3>2
  <2>6. QED
    BY <1>1, <2>5 DEF BatchOK, Holds
<1>4. QED
  BY <1>0, <1>2, <1>3, AcceptTakes

LEMMA EndCgiBatch ==
  ASSUME TypeOK, LoopInv, NEW f \in Fds, idByPipe[f] # None,
         NEW event, EndCgi(idByPipe[f], f, event),
         UNCHANGED <<clientIdByFd, peer>>,
         Take(f) \/ UNCHANGED loopVars
  PROVE  BatchOK'
<1> DEFINE s == idByPipe[f]
<1>1. s \in Slots /\ client[s].state = "CGI_RUNING"
  <2>1. s \in Slots /\ monitor[s].pipe = f /\ f # None
    BY LoopAssumption DEF TypeOK, LoopInv, JobInv, Owned, PipeMapExact
  <2>2. QED
    BY <2>1 DEF LoopInv, JobInv, Owned, JobOwnership, Paired
<1>2. \A t \in Slots : t # s => client'[t] = client[t]
  BY <1>1 DEF EndCgi, TypeOK
<1>3. \A t \in Slots : client[t].state \in Listening => client'[t].state \in Listening
  BY <1>1, <1>2 DEF Listening
<1>4. \A g \in Fds : batch'[g] = batch[g] \/ batch'[g] = {}
  BY TakeTakes DEF loopVars
<1>5. pc' # "DISPATCH" => \A g \in Fds \cup {ServerFd} : batch'[g] = {}
  BY TakeTakes DEF loopVars, LoopInv, BatchOK
<1>6. QED
  BY <1>3, <1>4, <1>5, ShrinkBatch

LEMMA ServerBatch ==
  ASSUME TypeOK, LoopInv, Server
  PROVE  BatchOK'
<1>1. CASE AcceptClient
  BY <1>1, AcceptBatch
<1>2. ASSUME NEW f \in Fds,
             ClientReadable(f) \/ ClientWritable(f) \/ ClientSends(f)
      PROVE  BatchOK'
  <2> DEFINE s == clientIdByFd[f]
  <2>1. HandlerStep(f)
    BY <1>2, TypeOKSplit, ReadableStep, WritableStep, SendsStep
  <2>2. Take(f) /\ s # None /\ s \in Slots
    BY <2>1 DEF HandlerStep, ClientEvent, TypeOK
  <2>3. CASE FreeClient(f)
    BY <2>2, <2>3, FreeClientBatch
  <2>4. CASE ~FreeClient(f)
    <3>1. UNCHANGED clientIdByFd /\ SocketsKept
      BY <2>1, <2>4 DEF HandlerStep, Leaves, StartCgi, Settle, mapVars
    <3>2. \A t \in Slots : t # s => client'[t] = client[t]
      BY <2>1, <2>2, <2>4 DEF HandlerStep, Leaves, StartCgi, Settle, TypeOK
    <3>3. QED
      BY <2>2, <3>1, <3>2, HandlerBatch DEF SocketsKept
  <2>5. QED
    BY <2>3, <2>4
<1>3. ASSUME NEW f \in Fds, ClientError(f)
      PROVE  BatchOK'
  BY <1>3, FreeClientBatch DEF ClientError
<1>4. ASSUME NEW f \in Fds, TimeoutClient(f)
      PROVE  BatchOK'
  <2>1. \A g \in Fds \cup {ServerFd} : batch'[g] = {}
    BY <1>4 DEF TimeoutClient, loopVars, LoopInv, BatchOK
  <2>2. QED
    BY <2>1 DEF BatchOK
<1>5. ASSUME NEW f \in Fds, PipeData(f) \/ PipeEof(f) \/ TimeoutCgi(f)
      PROVE  BatchOK'
  <2>1. /\ idByPipe[f] # None /\ UNCHANGED <<clientIdByFd, peer>>
        /\ Take(f) \/ UNCHANGED loopVars
    BY <1>5 DEF PipeData, PipeEof, PipeEvent, TimeoutCgi, sockVars
  <2>2. CASE \E event : EndCgi(idByPipe[f], f, event)
    BY <2>1, <2>2, EndCgiBatch
  <2>3. CASE ~ \E event : EndCgi(idByPipe[f], f, event)
    <3>1. UNCHANGED client /\ Take(f)
      BY <1>5, <2>3 DEF PipeData, PipeEof, PipeEvent, TimeoutCgi
    <3>2. QED
      BY <2>1, <3>1, TakeTakes, ShrinkBatch
  <2>4. QED
    BY <2>2, <2>3
<1>6. CASE Poll
  BY <1>6, PollBatch
<1>7. CASE AcceptFails \/ AcceptDropped \/ \E f \in Fds : UnknownEvent(f)
  <2>1. PICK f \in Fds \cup {ServerFd} : Take(f)
    BY <1>7 DEF AcceptFails, AcceptDropped, UnknownEvent
  <2>2. UNCHANGED <<clientIdByFd, client, peer>>
    BY <1>7 DEF AcceptFails, AcceptDropped, UnknownEvent, mapVars, sockVars
  <2>3. QED
    BY <2>1, <2>2, TakeTakes, ShrinkBatch
<1>8. CASE TimeoutCgiDone \/ TimeoutClientsDone
  <2>1. \A g \in Fds \cup {ServerFd} : batch'[g] = {}
    BY <1>8 DEF TimeoutCgiDone, TimeoutClientsDone, LoopInv, BatchOK
  <2>2. QED
    BY <2>1 DEF BatchOK
<1>9. QED
  BY <1>1, <1>2, <1>3, <1>4, <1>5, <1>6, <1>7, <1>8 DEF Server

LEMMA OutsideBatch ==
  ASSUME TypeOK, LoopInv, Outside
  PROVE  BatchOK'
<1>1. JobsKept /\ UNCHANGED <<pc, batch>>
  BY OutsideKeepsJobs
<1>2. \A f \in Fds : peer[f] \in {"reset", "gone"} => peer'[f] \in {"reset", "gone"}
  BY DEF Outside, sockVars, PeerConnects, PeerSends, PeerCloses, PeerResets,
         PeerStalls, PeerDrains, ChildWrites, ChildClosesStdout, ChildExits,
         ClientTimePasses, CgiTimePasses, TypeOK
<1>3. QED
  BY <1>1, <1>2, ShrinkBatch DEF JobsKept, LoopInv, BatchOK

LEMMA InitLoop == Init => LoopInv
<1> SUFFICES ASSUME Init PROVE LoopInv
  OBVIOUS
<1>1. SlotInv
  BY InitSlots
<1>2. /\ FreedClient.state = "BEGIN" /\ FreedClient.socket = None
      /\ FreedClient.fdRespond = FALSE
      /\ NoCgi.pid = None /\ NoCgi.pipe = None
  BY DEF FreedClient, NoCgi
<1>3. /\ \A s \in Slots : client[s] = FreedClient
      /\ \A s \in Slots : monitor[s] = NoCgi
  BY DEF Init
<1>4. ClientsOK /\ Paired
  BY <1>2, <1>3 DEF ClientsOK, Paired, Sane, Listening
<1>5. JobOwnership
  BY <1>2, <1>3 DEF Init, JobOwnership
<1>6. PipeMapExact /\ InterestFollowsState
  BY <1>2, <1>3 DEF Init, PipeMapExact, InterestFollowsState
<1>7. BatchOK
  BY DEF Init, BatchOK
<1>8. QED
  BY <1>1, <1>4, <1>5, <1>6, <1>7 DEF LoopInv, JobInv, Owned

LEMMA LoopInvInductive == Spec => []LoopInv
<1>1. TypeOK /\ LoopInv /\ [Next]_vars => LoopInv'
  <2> SUFFICES ASSUME TypeOK, LoopInv, [Next]_vars PROVE LoopInv'
    OBVIOUS
  <2>0. SlotInv /\ JobInv
    BY DEF LoopInv
  <2>1. CASE Server
    BY <2>0, <2>1, ServerSlots, ServerJobs, ServerBatch DEF LoopInv
  <2>2. CASE Outside
    BY <2>0, <2>2, OutsideSlots, OutsideKeepsJobs, JobsKeptJobs, OutsideBatch
       DEF LoopInv
  <2>3. CASE UNCHANGED vars
    <3>1. SlotInv'
      BY <2>0, <2>3, UntouchedSlots DEF vars, Untouched
    <3>2. JobInv'
      BY <2>0, <2>3, JobsKeptJobs DEF vars, JobsKept
    <3>3. BatchOK'
      BY <2>3 DEF vars, LoopInv, BatchOK
    <3>4. QED
      BY <3>1, <3>2, <3>3 DEF LoopInv
  <2>4. QED
    BY <2>1, <2>2, <2>3 DEF Next
<1>2. QED
  BY InitLoop, TypeCorrect, <1>1, PTL DEF Spec

\* Every child that has not been reaped is the job of exactly one connection
\* that waits for it, whatever order the events of the batch, the timeouts and
\* the ends of the children come in (clsMonitorCGI, clsFlow::_clientProcess).
THEOREM JobsOwned == Spec => []JobOwnership
<1>1. LoopInv => JobOwnership
  BY DEF LoopInv, JobInv, Owned
<1>2. QED
  BY LoopInvInductive, <1>1, PTL

\* No entry of _IdByPipe ever names a number that was closed and given to
\* something else (clsFlow::_pushPipe, _popPipe).
THEOREM PipeMapIsExact == Spec => []PipeMapExact
<1>1. LoopInv => PipeMapExact
  BY DEF LoopInv, JobInv, Owned
<1>2. QED
  BY LoopInvInductive, <1>1, PTL

\* What epoll watches a connection for is what its state needs, after every
\* handler (clsFlow::_clientProcess).
THEOREM InterestFollows == Spec => []InterestFollowsState
<1>1. LoopInv => InterestFollowsState
  BY DEF LoopInv, JobInv, Owned
<1>2. QED
  BY LoopInvInductive, <1>1, PTL

\* No response is begun on top of the open file of another one
\* (clsClient::_SendRespond, freeRessources).
THEOREM ResponseFilesOwned == Spec => []ResponseFileOwned
<1>1. LoopInv => ResponseFileOwned
  <2> SUFFICES ASSUME LoopInv, NEW s \in Slots, client[s].fdRespond
               PROVE  InUse(s) /\ client[s].state \in {"RESPOND_MODE", "LAST_CHUNKED"}
    BY DEF ResponseFileOwned
  <2>1. client[s] # FreedClient
    BY DEF FreedClient
  <2>2. QED
    BY <2>1 DEF LoopInv, JobInv, ClientsOK, Sane
<1>2. QED
  BY LoopInvInductive, <1>1, PTL

-----------------------------------------------------------------------------
(***************************************************************************)
(* Seen from the slots, a step of the loop is one of five things that      *)
(* happen to one of them, or nothing.                                      *)
(***************************************************************************)
Same(t) ==
  /\ client'[t].state = client[t].state
  /\ client'[t].event = client[t].event
  /\ client'[t].socket = client[t].socket
  /\ monitor'[t].pid = monitor[t].pid
  /\ InUse(t)' <=> InUse(t)

Opened(s) ==
  /\ ~InUse(s) /\ InUse(s)'
  /\ client[s].state = "BEGIN" /\ client'[s].state = "BEGIN"
  /\ monitor[s].pid = None /\ monitor'[s].pid = None

Gone(s) ==
  /\ InUse(s) /\ ~InUse(s)'
  /\ client'[s].state = "BEGIN" /\ monitor'[s].pid = None

Reading(c, d) ==
  c.state \in Listening /\ d.state \in {"REQUEST_MODE", "START_RESPOND"}

Progresses(s) ==
  /\ InUse(s) /\ InUse(s)'
  /\ monitor'[s].pid = monitor[s].pid
  /\ client'[s].state \in StableStates
  /\ \/ Reading(client[s], client'[s])
     \/ Rests(client[s], client'[s])
     \/ Responds(client[s], client'[s])
  /\ client'[s].socket = client[s].socket

Begun(s) ==
  /\ InUse(s) /\ InUse(s)'
  /\ client[s].state \in Answering /\ client'[s].state = "CGI_RUNING"
  /\ monitor[s].pid = None /\ monitor'[s].pid # None

Decides(s) ==
  /\ InUse(s) /\ InUse(s)'
  /\ client[s].state = "CGI_RUNING" /\ client'[s].state = "CGI_END"
  /\ client'[s].socket = client[s].socket
  /\ monitor[s].pid # None /\ monitor'[s].pid = None

Happens(s) ==
  /\ \A t \in Slots : t # s => Same(t)
  /\ Opened(s) \/ Gone(s) \/ Progresses(s) \/ Begun(s) \/ Decides(s)

Quiet == \A t \in Slots : Same(t)

LEMMA KeptQuiet ==
  ASSUME JobsKept
  PROVE  Quiet
  BY DEF JobsKept, Quiet, Same, InUse

LEMMA FreeClientHappens ==
  ASSUME TypeOK, LoopInv, NEW fd \in Fds, clientIdByFd[fd] # None,
         FreeClient(fd)
  PROVE  \E s \in Slots : Happens(s)
<1>0. PICK s \in Slots : s = clientIdByFd[fd]
  BY DEF TypeOK
<1>1. InUse(s) /\ None \notin Slots
  BY <1>0, LoopAssumption DEF InUse
<1>2. /\ \A t \in Slots : client'[t] = IF t = s THEN FreedClient ELSE client[t]
      /\ \A t \in Slots : monitor'[t] = IF t = s THEN NoCgi ELSE monitor[t]
      /\ \A g \in Fds : clientIdByFd'[g] = IF g = fd THEN None ELSE clientIdByFd[g]
  BY <1>0 DEF FreeClient, GiveBack, TypeOK
<1>3. \A g \in Fds : g # fd => clientIdByFd[g] # s
  BY <1>0 DEF LoopInv, SlotInv, SlotConservation
<1>4. ~InUse(s)' /\ \A t \in Slots : t # s => (InUse(t)' <=> InUse(t))
  <2>1. ~InUse(s)'
    BY <1>1, <1>2, <1>3 DEF InUse
  <2>2. ASSUME NEW t \in Slots, t # s
        PROVE  InUse(t)' <=> InUse(t)
    <3>1. \A g \in Fds : clientIdByFd'[g] = t <=> clientIdByFd[g] = t
      BY <1>0, <1>1, <1>2, <2>2
    <3>2. QED
      BY <3>1 DEF InUse
  <2>3. QED
    BY <2>1, <2>2
<1>5. FreedClient.state = "BEGIN" /\ NoCgi.pid = None
  BY DEF FreedClient, NoCgi
<1>6. Gone(s)
  BY <1>1, <1>2, <1>4, <1>5 DEF Gone
<1>7. \A t \in Slots : t # s => Same(t)
  BY <1>2, <1>4 DEF Same
<1>8. QED
  BY <1>1, <1>6, <1>7 DEF Happens

LEMMA HandlerHappens ==
  ASSUME TypeOK, LoopInv, NEW fd \in Fds, HandlerStep(fd)
  PROVE  \E s \in Slots : Happens(s)
<1>0. PICK s \in Slots : s = clientIdByFd[fd] /\ s # None
  BY HandlerFollows DEF TypeOK
<1>1. PICK d : /\ Handled(d)
               /\ d.socket = client[s].socket
               /\ Follows(fd, d)
               /\ Leaves(fd, d)
  BY <1>0, HandlerFollows
<1>2. InUse(s) /\ client[s].state \in StableStates
  BY <1>0 DEF TypeOK, Client, InUse
<1>3. CASE FreeClient(fd)
  BY <1>0, <1>3, FreeClientHappens
<1>4. ASSUME UNCHANGED clientIdByFd
      PROVE  \A t \in Slots : InUse(t)' <=> InUse(t)
  BY <1>4 DEF InUse
<1>5. ASSUME d.state = "CGI_START",
             NEW p \in Pids, child[p] = "none", NEW f \in FreeFds,
             StartCgi(s, d, p, f)
      PROVE  Happens(s)
  <2>1. client[s].state \in Answering
    BY <1>0, <1>1, <1>2, <1>5 DEF Follows, Reads, Rests, Responds, StableStates
  <2>2. /\ \A t \in Slots : t # s => client'[t] = client[t] /\ monitor'[t] = monitor[t]
        /\ client'[s].state = "CGI_RUNING" /\ monitor'[s].pid = p
        /\ clientIdByFd' = clientIdByFd
    BY <1>1, <1>2, <1>5 DEF StartCgi, TypeOK, Handled
  <2>3. p # None /\ monitor[s].pid = None
    BY <1>2, <2>1, LoopAssumption
       DEF LoopInv, JobInv, Owned, JobOwnership, Answering
  <2>4. Begun(s)
    BY <1>2, <1>4, <2>1, <2>2, <2>3 DEF Begun
  <2>5. \A t \in Slots : t # s => Same(t)
    BY <1>4, <2>2 DEF Same
  <2>6. QED
    BY <2>4, <2>5 DEF Happens
<1>6. CASE d.state \in StableStates /\ Settle(s, d)
  <2>1. /\ \A t \in Slots : t # s => client'[t] = client[t]
        /\ client'[s] = d /\ monitor' = monitor /\ clientIdByFd' = clientIdByFd
    BY <1>2, <1>6 DEF Settle, mapVars, TypeOK
  <2>2. Reads(fd, d) => Reading(client[s], d)
    BY <1>0, <1>6 DEF Reads, Reading, StableStates
  <2>3. Progresses(s)
    BY <1>0, <1>1, <1>2, <1>4, <1>6, <2>1, <2>2 DEF Progresses, Follows
  <2>4. \A t \in Slots : t # s => Same(t)
    BY <1>4, <2>1 DEF Same
  <2>5. QED
    BY <1>2, <2>3, <2>4 DEF Happens
<1>7. QED
  BY <1>0, <1>1, <1>3, <1>5, <1>6 DEF Leaves

LEMMA EndCgiHappens ==
  ASSUME TypeOK, LoopInv, NEW f \in Fds, idByPipe[f] # None,
         NEW event, EndCgi(idByPipe[f], f, event), UNCHANGED clientIdByFd
  PROVE  \E s \in Slots : Happens(s)
<1>0. PICK s \in Slots : s = idByPipe[f]
  BY DEF TypeOK
<1>1. monitor[s].pid # None /\ client[s].state = "CGI_RUNING" /\ InUse(s)
  <2>1. monitor[s].pipe = f /\ f # None
    BY <1>0, LoopAssumption DEF TypeOK, LoopInv, JobInv, Owned, PipeMapExact
  <2>2. QED
    BY <2>1 DEF LoopInv, JobInv, Owned, JobOwnership, Paired
<1>2. /\ \A t \in Slots : t # s => client'[t] = client[t] /\ monitor'[t] = monitor[t]
      /\ client'[s].state = "CGI_END" /\ client'[s].socket = client[s].socket
      /\ monitor'[s] = NoCgi
  BY <1>0, <1>1 DEF EndCgi, TypeOK, Client
<1>3. \A t \in Slots : InUse(t)' <=> InUse(t)
  BY DEF InUse
<1>4. Decides(s)
  <2>1. InUse(s)'
    BY <1>1, <1>3
  <2>2. monitor'[s].pid = None
    BY <1>2 DEF NoCgi
  <2>3. QED
    BY <1>1, <1>2, <2>1, <2>2 DEF Decides
<1>5. \A t \in Slots : t # s => Same(t)
  BY <1>2, <1>3 DEF Same
<1>6. QED
  BY <1>1, <1>4, <1>5 DEF Happens

LEMMA AcceptHappens ==
  ASSUME TypeOK, LoopInv, AcceptClient
  PROVE  Quiet \/ \E s \in Slots : Happens(s)
<1>0. SlotInv /\ JobInv /\ Apart
  BY NumbersApart DEF LoopInv
<1>1. UNCHANGED monitor
  BY <1>0, AcceptTakes
<1>2. CASE UNCHANGED <<clientIdByFd, client>>
  BY <1>1, <1>2 DEF Quiet, Same, InUse
<1>3. ASSUME NEW fd \in FreeFds, NEW s \in Slots, Accepts(fd, s)
      PROVE  Happens(s)
  <2>1. /\ client[s] = FreedClient /\ monitor[s] = NoCgi
        /\ fd \in Fds /\ clientIdByFd[fd] = None /\ None \notin Slots
    BY <1>0, <1>3, LoopAssumption DEF Accepts, JobInv, ClientsOK, FreeFds, Apart
  <2>2. \A g \in Fds : clientIdByFd'[g] = IF g = fd THEN s ELSE clientIdByFd[g]
    BY <1>3 DEF Accepts
  <2>3. InUse(s)' /\ \A t \in Slots : t # s => (InUse(t)' <=> InUse(t))
    BY <2>1, <2>2 DEF InUse
  <2>4. client[s].state = "BEGIN" /\ [client[s] EXCEPT !.socket = fd].state = "BEGIN"
    BY <2>1 DEF FreedClient
  <2>5. client'[s].state = "BEGIN" /\ \A t \in Slots : t # s => client'[t] = client[t]
    BY <1>3, <2>4 DEF Accepts
  <2>6. Opened(s)
    BY <1>1, <1>3, <2>1, <2>3, <2>4, <2>5 DEF Opened, Accepts, NoCgi
  <2>7. \A t \in Slots : t # s => Same(t)
    BY <1>1, <2>3, <2>5 DEF Same
  <2>8. QED
    BY <2>6, <2>7 DEF Happens
<1>4. QED
  BY <1>0, <1>2, <1>3, AcceptTakes

LEMMA StepHappens ==
  ASSUME TypeOK, LoopInv, [Next]_vars
  PROVE  Quiet \/ \E s \in Slots : Happens(s)
<1>1. CASE AcceptClient
  BY <1>1, AcceptHappens
<1>2. ASSUME NEW f \in Fds,
             ClientReadable(f) \/ ClientWritable(f) \/ ClientSends(f)
      PROVE  \E s \in Slots : Happens(s)
  BY <1>2, TypeOKSplit, ReadableStep, WritableStep, SendsStep, HandlerHappens
<1>3. ASSUME NEW f \in Fds, ClientError(f) \/ TimeoutClient(f)
      PROVE  \E s \in Slots : Happens(s)
  BY <1>3, FreeClientHappens DEF ClientError, TimeoutClient
<1>4. ASSUME NEW f \in Fds, PipeData(f) \/ PipeEof(f) \/ TimeoutCgi(f)
      PROVE  Quiet \/ \E s \in Slots : Happens(s)
  <2>1. idByPipe[f] # None /\ UNCHANGED clientIdByFd
    BY <1>4 DEF PipeData, PipeEof, PipeEvent, TimeoutCgi
  <2>2. CASE \E event : EndCgi(idByPipe[f], f, event)
    BY <2>1, <2>2, EndCgiHappens
  <2>3. CASE ~ \E event : EndCgi(idByPipe[f], f, event)
    <3>1. client' = client /\ (monitor' = monitor
                                  \/ monitor' = [monitor EXCEPT ![idByPipe[f]].eof = TRUE])
      BY <1>4, <2>3 DEF PipeData, PipeEof, TimeoutCgi
    <3>2. ASSUME NEW t \in Slots PROVE monitor'[t].pid = monitor[t].pid
      BY <3>1 DEF TypeOK, Monitor
    <3>3. QED
      BY <2>1, <3>1, <3>2 DEF Quiet, Same, InUse
  <2>4. QED
    BY <2>2, <2>3
<1>5. CASE \/ Poll \/ AcceptFails \/ AcceptDropped \/ TimeoutCgiDone
           \/ TimeoutClientsDone \/ \E f \in Fds : UnknownEvent(f)
  BY <1>5, KeptQuiet
     DEF Poll, AcceptFails, AcceptDropped, TimeoutCgiDone, TimeoutClientsDone,
         UnknownEvent, JobsKept, mapVars, procVars
<1>6. CASE Outside
  BY <1>6, OutsideKeepsJobs, KeptQuiet
<1>7. CASE UNCHANGED vars
  BY <1>7, KeptQuiet DEF vars, JobsKept
<1>8. QED
  BY <1>1, <1>2, <1>3, <1>4, <1>5, <1>6, <1>7 DEF Next, Server

-----------------------------------------------------------------------------
(***************************************************************************)
(* The action properties and the refinement.                               *)
(***************************************************************************)
\* A CGI is decided by the end of its own job, once (clsClient::monitorCgi,
\* clsFlow::_tryTimeOutCgi): no later event and no timeout changes the verdict.
THEOREM VerdictsOnce == Spec => VerdictOnce
<1>1. TypeOK /\ LoopInv /\ [Next]_vars =>
        \A s \in Slots :
          client'[s].state = "CGI_END" =>
            \/ /\ client[s].state = "CGI_RUNING"
               /\ client'[s].socket = client[s].socket
            \/ /\ client[s].state = "CGI_END"
               /\ client'[s].event = client[s].event
  <2> SUFFICES ASSUME TypeOK, LoopInv, [Next]_vars, NEW s \in Slots,
                      client'[s].state = "CGI_END"
               PROVE  \/ /\ client[s].state = "CGI_RUNING"
                         /\ client'[s].socket = client[s].socket
                      \/ /\ client[s].state = "CGI_END"
                         /\ client'[s].event = client[s].event
    OBVIOUS
  <2>1. CASE Same(s)
    BY <2>1 DEF Same
  <2>2. CASE ~Same(s)
    <3>1. Happens(s)
      BY <2>2, StepHappens DEF Quiet, Happens
    <3>2. QED
      BY <3>1 DEF Happens, Opened, Gone, Progresses, Begun, Decides, Reading, Rests,
                  Responds
  <2>3. QED
    BY <2>1, <2>2
<1>2. QED
  BY TypeCorrect, LoopInvInductive, <1>1, PTL DEF Spec, VerdictOnce

\* A handler closes a connection only for a reason.
LEMMA HandlerCause ==
  ASSUME TypeOK, LoopInv, NEW fd \in Fds, HandlerStep(fd),
         clientIdByFd'[fd] = None
  PROVE  \/ peer[fd] # "open"
         \/ /\ "OUT" \in batch[fd]
            /\ client[clientIdByFd[fd]].state \in Answering
<1>1. PICK d : Follows(fd, d) /\ Leaves(fd, d)
  BY HandlerFollows
<1>2. PICK s \in Slots : s = clientIdByFd[fd] /\ s # None
  BY HandlerFollows DEF TypeOK
<1>3. d.state = "CONNECTION_CLOSED"
  BY <1>1, <1>2 DEF Leaves, StartCgi, Settle, mapVars
<1>4. client[s].state # "CONNECTION_CLOSED"
  BY DEF TypeOK, Client, StableStates
<1>5. client[s].socket = fd \/ client[s].socket = None
  BY <1>2 DEF LoopInv, SlotInv, SocketAccounting
<1>6. QED
  BY <1>1, <1>2, <1>3, <1>4, <1>5 DEF Follows, Reads, Rests, Responds

\* No connection is taken away from a peer that is there for an event that was
\* meant for an earlier owner of its number (clsFlow::EventLoop, _freeClient).
THEOREM FreedOnlyForCause == Spec => FreedForCause
<1>1. TypeOK /\ LoopInv /\ [Next]_vars =>
        \A f \in Fds :
          clientIdByFd[f] # None /\ clientIdByFd'[f] = None =>
            \/ peer[f] # "open"
            \/ clientIdByFd[f] \in expired
            \/ /\ "OUT" \in batch[f]
               /\ client[clientIdByFd[f]].state \in
                    {"START_RESPOND", "CGI_END", "RESPOND_MODE"}
  <2> SUFFICES ASSUME TypeOK, LoopInv, [Next]_vars, NEW f \in Fds,
                      clientIdByFd[f] # None, clientIdByFd'[f] = None
               PROVE  \/ peer[f] # "open"
                      \/ clientIdByFd[f] \in expired
                      \/ "OUT" \in batch[f]
                           /\ client[clientIdByFd[f]].state \in Answering
    BY DEF Answering
  <2>1. ASSUME NEW fd \in Fds, FreeClient(fd)
        PROVE  fd = f
    <3>1. clientIdByFd' = [clientIdByFd EXCEPT ![fd] = None]
      BY <2>1 DEF FreeClient, GiveBack
    <3>2. QED
      BY <3>1 DEF TypeOK
  <2>2. ASSUME NEW fd \in Fds,
               ClientReadable(fd) \/ ClientWritable(fd) \/ ClientSends(fd)
        PROVE  fd = f /\ HandlerStep(f)
    <3>1. HandlerStep(fd)
      BY <2>2, TypeOKSplit, ReadableStep, WritableStep, SendsStep
    <3>2. FreeClient(fd)
      BY <3>1 DEF HandlerStep, Leaves, StartCgi, Settle, mapVars
    <3>3. QED
      BY <2>1, <3>1, <3>2
  <2>3. CASE \E fd \in Fds : ClientReadable(fd) \/ ClientWritable(fd) \/ ClientSends(fd)
    BY <2>2, <2>3, HandlerCause
  <2>4. CASE \E fd \in Fds : ClientError(fd)
    <3>1. "ERR" \in batch[f]
      BY <2>1, <2>4 DEF ClientError
    <3>2. QED
      BY <3>1 DEF LoopInv, BatchOK
  <2>5. CASE \E fd \in Fds : TimeoutClient(fd)
    BY <2>1, <2>5 DEF TimeoutClient
  <2>6. ~AcceptClient
    <3>1. ASSUME AcceptClient PROVE FALSE
      <4>1. SlotInv
        BY DEF LoopInv
      <4>2. PICK fd \in FreeFds, s \in Slots : Accepts(fd, s)
        BY <3>1, <4>1, AcceptTakes
      <4>3. clientIdByFd'[f] = IF f = fd THEN s ELSE clientIdByFd[f]
        BY <4>2 DEF Accepts
      <4>4. QED
        BY <4>3, LoopAssumption
    <3>2. QED
      BY <3>1
  <2>7. ~(UNCHANGED clientIdByFd)
    OBVIOUS
  <2>8. ~Outside
    BY <2>7, OutsideKeepsJobs DEF JobsKept
  <2>9. QED
    BY <2>3, <2>4, <2>5, <2>6, <2>7, <2>8
       DEF Next, Server, vars, mapVars, Poll, AcceptFails, AcceptDropped, UnknownEvent,
           PipeData, PipeEof, TimeoutCgi, TimeoutCgiDone, TimeoutClientsDone
<1>2. QED
  BY TypeCorrect, LoopInvInductive, <1>1, PTL DEF Spec, FreedForCause

\* A new connection finds nothing of an earlier one in its slot or under its
\* number (clsFlow::_insertClient, _freeClient).
THEOREM StartsFresh == Spec => FreshStart
<1>1. TypeOK /\ LoopInv /\ [Next]_vars =>
        \A f \in Fds :
          LET s == clientIdByFd'[f] IN
          s \notin {None, clientIdByFd[f]} =>
            /\ clientIdByFd[f] = None
            /\ idByPipe[f] = None
            /\ \A g \in Fds : idByPipe[g] # s
            /\ monitor[s].pid = None /\ monitor[s].pipe = None
            /\ client[s].state = "BEGIN" /\ client[s].socket = None
            /\ client[s].place = "NONE" /\ ~client[s].fdRespond
  <2> SUFFICES ASSUME TypeOK, LoopInv, [Next]_vars, NEW f \in Fds,
                      clientIdByFd'[f] \notin {None, clientIdByFd[f]}
               PROVE  LET s == clientIdByFd'[f] IN
                      /\ clientIdByFd[f] = None
                      /\ idByPipe[f] = None
                      /\ \A g \in Fds : idByPipe[g] # s
                      /\ monitor[s].pid = None /\ monitor[s].pipe = None
                      /\ client[s].state = "BEGIN" /\ client[s].socket = None
                      /\ client[s].place = "NONE" /\ ~client[s].fdRespond
    OBVIOUS
  <2>1. ~(UNCHANGED clientIdByFd)
    OBVIOUS
  <2>2. ASSUME NEW fd \in Fds PROVE ~FreeClient(fd)
    <3>1. ASSUME FreeClient(fd) PROVE FALSE
      <4>1. clientIdByFd' = [clientIdByFd EXCEPT ![fd] = None]
        BY <3>1 DEF FreeClient, GiveBack
      <4>2. QED
        BY <4>1 DEF TypeOK
    <3>2. QED
      BY <3>1
  <2>3. ASSUME NEW fd \in Fds
        PROVE  ~(ClientReadable(fd) \/ ClientWritable(fd) \/ ClientSends(fd))
    <3>1. ~HandlerStep(fd)
      BY <2>1, <2>2 DEF HandlerStep, Leaves, StartCgi, Settle, mapVars
    <3>2. QED
      BY <3>1, TypeOKSplit, ReadableStep, WritableStep, SendsStep
  <2>4. AcceptClient
    <3>1. ~Outside
      BY <2>1, OutsideKeepsJobs DEF JobsKept
    <3>2. QED
      BY <2>1, <2>2, <2>3, <3>1
         DEF Next, Server, vars, mapVars, Poll, AcceptFails, AcceptDropped, UnknownEvent,
             ClientError, PipeData, PipeEof, TimeoutCgi, TimeoutCgiDone, TimeoutClient,
             TimeoutClientsDone
  <2>5. SlotInv /\ JobInv /\ Apart
    BY NumbersApart DEF LoopInv
  <2>6. PICK fd \in FreeFds, s \in Slots : Accepts(fd, s)
    BY <2>1, <2>4, <2>5, AcceptTakes
  <2>7. fd = f /\ clientIdByFd'[f] = s /\ ~InUse(s)
    BY <2>6 DEF Accepts
  <2>8. clientIdByFd[f] = None /\ idByPipe[f] = None
    BY <2>5, <2>6, <2>7 DEF Apart
  <2>9. client[s] = FreedClient /\ monitor[s] = NoCgi
    BY <2>5, <2>7 DEF JobInv, ClientsOK
  <2>10. \A g \in Fds : idByPipe[g] # s
    <3>1. \A g \in Fds : idByPipe[g] # None => monitor[idByPipe[g]].pipe = g
      BY <2>5 DEF JobInv, Owned, PipeMapExact
    <3>2. None \notin Fds \cup Slots
      BY LoopAssumption
    <3>3. QED
      BY <2>9, <3>1, <3>2 DEF NoCgi
  <2>11. QED
    BY <2>7, <2>8, <2>9, <2>10 DEF FreedClient, NoCgi
<1>2. QED
  BY TypeCorrect, LoopInvInductive, <1>1, PTL DEF Spec, FreshStart

\* What the slots of ClientSlots are here.
phases == [s \in Slots |-> PhaseOf(s)]
working == {s \in Slots : monitor[s].pid # None}

LEMMA PhaseFacts ==
  ASSUME NEW s \in Slots
  PROVE  /\ ~InUse(s) => PhaseOf(s) = "free"
         /\ InUse(s) /\ client[s].state = "BEGIN" => PhaseOf(s) = "idle"
         /\ InUse(s) /\ client[s].state = "REQUEST_MODE" => PhaseOf(s) = "reading"
         /\ InUse(s) /\ client[s].state = "CGI_RUNING" => PhaseOf(s) = "cgi"
         /\ InUse(s) /\ client[s].state = "CGI_END" => PhaseOf(s) = "decided"
         /\ InUse(s) /\ client[s].state \in StableStates
              /\ client[s].state \notin {"BEGIN", "REQUEST_MODE", "CGI_RUNING", "CGI_END"}
              => PhaseOf(s) = "answering"
         /\ InUse(s) => PhaseOf(s) # "free" /\ PhaseOf(s) \in Promise!Phases
  BY DEF PhaseOf, Promise!Phases

\* A slot that something happens to makes one move, the others none.
LEMMA OneMoves ==
  ASSUME NEW s \in Slots, Happens(s)
  PROVE  phases' = [phases EXCEPT ![s] = PhaseOf(s)']
<1>1. ASSUME NEW t \in Slots, t # s PROVE PhaseOf(t)' = PhaseOf(t)
  BY <1>1 DEF Happens, Same, PhaseOf
<1>2. QED
  BY <1>1 DEF phases

LEMMA OneWorks ==
  ASSUME NEW s \in Slots, Happens(s)
  PROVE  /\ monitor'[s].pid = None => working' = working \ {s}
         /\ monitor'[s].pid # None => working' = working \cup {s}
         /\ monitor'[s].pid = monitor[s].pid => working' = working
<1>1. ASSUME NEW t \in Slots, t # s PROVE monitor'[t].pid = monitor[t].pid
  BY <1>1 DEF Happens, Same
<1>2. QED
  BY <1>1 DEF working

LEMMA HappensPromised ==
  ASSUME TypeOK, LoopInv, NEW s \in Slots, Happens(s)
  PROVE  [Promise!Next]_<<phases, working>>
<1> DEFINE c == client[s]
           d == client'[s]
<1>1. phases[s] = PhaseOf(s)
  BY DEF phases
<1>2. phases' = [phases EXCEPT ![s] = PhaseOf(s)']
  BY OneMoves
<1>3. c.state \in StableStates
  BY DEF TypeOK, Client
<1>4. CASE Opened(s)
  <2>1. PhaseOf(s) = "free" /\ PhaseOf(s)' = "idle"
    BY <1>4 DEF Opened, PhaseOf
  <2>2. working' = working
    BY <1>4, OneWorks DEF Opened
  <2>3. Promise!Connect(s)
    BY <1>1, <1>2, <2>1, <2>2 DEF Promise!Connect, Promise!Move, phases, working
  <2>4. QED
    BY <2>3 DEF Promise!Next
<1>5. CASE Gone(s)
  <2>1. PhaseOf(s) \in Promise!Phases \ {"free"} /\ PhaseOf(s)' = "free"
    BY <1>5, PhaseFacts DEF Gone, PhaseOf
  <2>2. working' = working \ {s}
    BY <1>5, OneWorks DEF Gone
  <2>3. Promise!Close(s)
    BY <1>1, <1>2, <2>1, <2>2 DEF Promise!Close, Promise!Move, phases, working
  <2>4. QED
    BY <2>3 DEF Promise!Next
<1>6. CASE Begun(s)
  <2>1. PhaseOf(s) \in {"answering", "decided"} /\ PhaseOf(s)' = "cgi"
    BY <1>6 DEF Begun, PhaseOf, Answering
  <2>2. working' = working \cup {s} /\ s \notin working
    BY <1>6, OneWorks DEF Begun, working
  <2>3. Promise!Start(s)
    BY <1>1, <1>2, <2>1, <2>2 DEF Promise!Start, Promise!Move, phases, working
  <2>4. QED
    BY <2>3 DEF Promise!Next
<1>7. CASE Decides(s)
  <2>1. PhaseOf(s) = "cgi" /\ PhaseOf(s)' = "decided"
    BY <1>7 DEF Decides, PhaseOf
  <2>2. working' = working \ {s}
    BY <1>7, OneWorks DEF Decides
  <2>3. Promise!Decide(s)
    BY <1>1, <1>2, <2>1, <2>2 DEF Promise!Decide, Promise!Move, phases, working
  <2>4. QED
    BY <2>3 DEF Promise!Next
<1>8. CASE Progresses(s)
  <2>0. InUse(s) /\ InUse(s)' /\ working' = working
    BY <1>8, OneWorks DEF Progresses
  <2>1. CASE Reading(c, d)
    <3>1. PhaseOf(s) \in {"idle", "reading"}
      BY <2>0, <2>1 DEF Reading, Listening, PhaseOf
    <3>2. CASE d.state = "REQUEST_MODE"
      <4>1. PhaseOf(s)' = "reading"
        BY <2>0, <3>2 DEF PhaseOf
      <4>2. Promise!Read(s)
        BY <1>1, <1>2, <2>0, <3>1, <4>1 DEF Promise!Read, Promise!Move, phases, working
      <4>3. QED
        BY <4>2 DEF Promise!Next
    <3>3. CASE d.state = "START_RESPOND"
      <4>1. PhaseOf(s)' = "answering"
        BY <2>0, <3>3 DEF PhaseOf
      <4>2. Promise!Ask(s)
        BY <1>1, <1>2, <2>0, <3>1, <4>1 DEF Promise!Ask, Promise!Move, phases, working
      <4>3. QED
        BY <4>2 DEF Promise!Next
    <3>4. QED
      BY <2>1, <3>2, <3>3 DEF Reading
  <2>2. CASE Rests(c, d)
    <3>1. PhaseOf(s)' = PhaseOf(s)
      BY <2>0, <2>2 DEF Rests, PhaseOf
    <3>2. phases' = phases
      BY <1>2, <3>1 DEF phases
    <3>3. QED
      BY <2>0, <3>2
  <2>3. CASE Responds(c, d)
    <3>1. PhaseOf(s) \in {"answering", "decided"}
      BY <2>0, <2>3 DEF Responds, Answering, PhaseOf
    <3>2. CASE d.state = "BEGIN"
      <4>1. PhaseOf(s)' = "idle"
        BY <2>0, <3>2 DEF PhaseOf
      <4>2. Promise!Finish(s)
        BY <1>1, <1>2, <2>0, <3>1, <4>1 DEF Promise!Finish, Promise!Move, phases, working
      <4>3. QED
        BY <4>2 DEF Promise!Next
    <3>3. CASE d.state # "BEGIN"
      <4>1. PhaseOf(s)' = "answering"
        BY <1>8, <2>0, <2>3, <3>3 DEF PhaseOf, Responds, Progresses, StableStates
      <4>2. Promise!Answer(s)
        BY <1>1, <1>2, <2>0, <3>1, <4>1 DEF Promise!Answer, Promise!Move, phases, working
      <4>3. QED
        BY <4>2 DEF Promise!Next
    <3>4. QED
      BY <3>2, <3>3
  <2>4. QED
    BY <1>8, <2>1, <2>2, <2>3 DEF Progresses
<1>9. QED
  BY <1>4, <1>5, <1>6, <1>7, <1>8 DEF Happens

\* The loop implements ClientSlots: each slot goes through the phases of one
\* connection at a time, with at most one job, in every interleaving of
\* events, timeouts, numbers that are given again and failing calls.
THEOREM SlotsPromised == Spec => KeepsPromise
<1>1. Init => Promise!Init
  <2> SUFFICES ASSUME Init PROVE Promise!Init
    OBVIOUS
  <2>1. \A s \in Slots : PhaseOf(s) = "free" /\ monitor[s].pid = None
    BY LoopAssumption DEF Init, PhaseOf, InUse, NoCgi
  <2>2. QED
    BY <2>1 DEF Promise!Init
<1>2. TypeOK /\ LoopInv /\ [Next]_vars => [Promise!Next]_<<phases, working>>
  <2> SUFFICES ASSUME TypeOK, LoopInv, [Next]_vars
               PROVE  [Promise!Next]_<<phases, working>>
    OBVIOUS
  <2>1. CASE Quiet
    <3>1. \A t \in Slots : PhaseOf(t)' = PhaseOf(t)
      BY <2>1 DEF Quiet, Same, PhaseOf
    <3>2. \A t \in Slots : monitor'[t].pid = monitor[t].pid
      BY <2>1 DEF Quiet, Same
    <3>3. UNCHANGED <<phases, working>>
      BY <3>1, <3>2 DEF phases, working
    <3>4. QED
      BY <3>3
  <2>2. CASE \E s \in Slots : Happens(s)
    BY <2>2, HappensPromised
  <2>3. QED
    BY <2>1, <2>2, StepHappens
<1>3. QED
  <2>1. TypeOK /\ LoopInv /\ [Next]_vars =>
          [Promise!Next]_<<[s \in Slots |-> PhaseOf(s)],
                           {s \in Slots : monitor[s].pid # None}>>
    BY <1>2 DEF phases, working
  <2>2. QED
    BY TypeCorrect, LoopInvInductive, <1>1, <2>1, PTL
       DEF Spec, KeepsPromise, Promise!Spec
=============================================================================
