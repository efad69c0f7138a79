---------------------------- MODULE Startup_proofs ----------------------------
(***************************************************************************)
(* What Startup keeps for every configuration file, whatever calls fail:   *)
(* the sockets the loop begins with are owned, watched, and of the first   *)
(* block that asked for their address and could have it.                   *)
(***************************************************************************)
EXTENDS Startup, SequenceTheorems, TLAPS

\* A sequence, of whatever.
IsSeq(s) == s \in Seq({s[i] : i \in DOMAIN s})

\* All that the sockets need of a server: its listens are in an order.
HasListens(s) == "listens" \in DOMAIN s /\ IsSeq(s.listens)

ReadInv ==
  /\ IsSeq(servers)
  /\ \A b \in DOMAIN servers : HasListens(servers[b])
  /\ HasListens(server)

Reading == {"file", "server", "location", "ready", "refused"}
Making == {"build", "register", "running"}

NothingYet ==
  /\ todo = {} /\ allServers = NoServers
  /\ open = {} /\ watched = {} /\ unbuilt = {} /\ unwatched = {} /\ end = {}

\* The listens whose turn has not come, and the sockets that were made.
Pending == IF phase = "build" THEN todo ELSE {}
Made == open \cup unwatched

\* A listen that has had its turn has its socket, or was refused one, or another
\* one before it has the address.
Answered(sock) ==
  \/ sock \in Made \cup unbuilt
  \/ \E other \in Made : Earlier(other, sock) /\ Address(other) = Address(sock)

Turns ==
  /\ Pending \subseteq Listens
  /\ Made \cup unbuilt \subseteq Listens \ Pending
  /\ Made \cap unbuilt = {}
  /\ open \cap unwatched = {}
  /\ \A sock, other \in Made : Address(sock) = Address(other) => sock = other
  /\ \A sock \in Listens \ Pending : Answered(sock)
  /\ \A sock \in Listens \ Pending : \A other \in Pending : Earlier(sock, other)

Owned ==
  /\ open = UNION {allServers[b] : b \in DOMAIN allServers}
  /\ \A b \in DOMAIN allServers : \A sock \in allServers[b] : sock[1] = b

SocketInv ==
  /\ phase \in Reading \cup Making \cup {"past", "stopped"}
  /\ phase \in Reading => NothingYet
  /\ phase \in Making => Turns /\ Owned
  /\ phase = "build" => watched = {} /\ unwatched = {}
  /\ phase = "register" => /\ todo \cup watched = open /\ todo \cap watched = {}
                           /\ \A sock \in Made : sock[1] \in end
  /\ phase = "running" => /\ watched = open
                          /\ \A sock \in Made : sock[1] \in DOMAIN allServers
  /\ phase \in {"build", "running"} => \A b \in DOMAIN allServers : allServers[b] # {}

StartInv == ReadInv /\ SocketInv

-----------------------------------------------------------------------------
(***************************************************************************)
(* Sequences and records.                                                  *)
(***************************************************************************)
LEMMA AppendIsSeq ==
  ASSUME NEW s, NEW e, IsSeq(s)
  PROVE  /\ IsSeq(Append(s, e))
         /\ DOMAIN Append(s, e) = DOMAIN s \cup {Len(s) + 1}
         /\ \A i \in DOMAIN s : Append(s, e)[i] = s[i]
         /\ Append(s, e)[Len(s) + 1] = e
<1> DEFINE T == {s[i] : i \in DOMAIN s} \cup {e}
           a == Append(s, e)
<1>1. s \in Seq(T) /\ e \in T
  BY DEF IsSeq
<1>2. a \in Seq(T) /\ Len(a) = Len(s) + 1 /\ DOMAIN a = 1 .. Len(s) + 1 /\ DOMAIN s = 1 .. Len(s)
  BY <1>1
<1>3. \A i \in 1 .. Len(s) : a[i] = s[i]
  BY <1>1
<1>4. a[Len(s) + 1] = e
  BY <1>1
<1>5. Len(s) \in Nat
  BY <1>1
<1>6. IsSeq(a)
  <2> DEFINE R == {a[i] : i \in DOMAIN a}
  <2>1. PICK n \in Nat : n = Len(s) + 1
    BY <1>5
  <2>2. a \in [1 .. n -> T]
    BY <1>2, <2>1, LenProperties
  <2>3. a \in [1 .. n -> R]
    BY <2>2
  <2>4. ASSUME NEW S, NEW f \in [1 .. n -> S]
        PROVE  f \in Seq(S)
    OBVIOUS
  <2>5. a \in Seq(R)
    BY ONLY <2>3, <2>4
  <2> QED BY <2>5 DEF IsSeq
<1> QED BY <1>2, <1>3, <1>4, <1>5, <1>6

\* A server that has no block yet.
LEMMA NewHasListens == HasListens(NewServer)
<1>1. NewServer.listens = << >> /\ "listens" \in DOMAIN NewServer
  BY DEF NewServer
<1>2. IsSeq(<< >>)
  BY DEF IsSeq
<1> QED BY <1>1, <1>2 DEF HasListens

-----------------------------------------------------------------------------
(***************************************************************************)
(* Reading the file.                                                       *)
(***************************************************************************)
\* A step of the reader that does not end a block keeps the servers.
SameServers == servers' = servers /\ HasListens(server')

LEMMA ServerSteps ==
  ASSUME ReadInv, ServerDirective \/ OpenServer \/ CloseLocation
  PROVE  SameServers /\ phase \in Reading /\ phase' \in Reading
<1> USE DEF Reading, SameServers
<1>0. HasListens(server)
  BY DEF ReadInv
<1>1. ASSUME NEW name, NEW r, NEW s, InServer(name), SetServer(r, s), HasListens(s)
      PROVE  SameServers /\ phase \in Reading /\ phase' \in Reading
  BY <1>1, <1>0 DEF InServer, SetServer, Refuse
<1>2. CASE Listen
  <2>1. PICK r : /\ SetServer(r, [server EXCEPT !.listens = Append(@, r.val)])
                 /\ InServer("listen")
    BY <1>2 DEF Listen
  <2> DEFINE s == [server EXCEPT !.listens = Append(@, r.val)]
  <2>2. IsSeq(Append(server.listens, r.val))
    BY <1>0, AppendIsSeq DEF HasListens
  <2>3. s.listens = Append(server.listens, r.val) /\ "listens" \in DOMAIN s
    BY <1>0 DEF HasListens
  <2>4. HasListens(s)
    BY <2>2, <2>3 DEF HasListens
  <2> QED BY <2>1, <2>4, <1>1
<1>3. CASE Root
  <2>1. PICK r : SetServer(r, [server EXCEPT !.root = r.val]) /\ InServer("root")
    BY <1>3 DEF Root
  <2>2. HasListens([server EXCEPT !.root = r.val])
    BY <1>0 DEF HasListens
  <2> QED BY <2>1, <2>2, <1>1
<1>4. CASE Index
  <2>1. PICK r : SetServer(r, [server EXCEPT !.index = r.val]) /\ InServer("index")
    BY <1>4 DEF Index
  <2>2. HasListens([server EXCEPT !.index = r.val])
    BY <1>0 DEF HasListens
  <2> QED BY <2>1, <2>2, <1>1
<1>5. CASE BodySize
  <2>1. PICK r : /\ SetServer(r, [server EXCEPT !.max = r.val])
                 /\ InServer("client_max_body_size")
    BY <1>5 DEF BodySize
  <2>2. HasListens([server EXCEPT !.max = r.val])
    BY <1>0 DEF HasListens
  <2> QED BY <2>1, <2>2, <1>1
<1>6. CASE AutoIndex
  <2>1. PICK r : /\ SetServer(r, [server EXCEPT !.autoindex = r.val])
                 /\ InServer("autoindex")
    BY <1>6 DEF AutoIndex
  <2>2. HasListens([server EXCEPT !.autoindex = r.val])
    BY <1>0 DEF HasListens
  <2> QED BY <2>1, <2>2, <1>1
<1>7. CASE Return
  <2>1. PICK r : /\ SetServer(r, [server EXCEPT !.return = r.val,
                                                !.flags = @ \cup {"return"}])
                 /\ InServer("return")
    BY <1>7 DEF Return
  <2>2. HasListens([server EXCEPT !.return = r.val, !.flags = @ \cup {"return"}])
    BY <1>0 DEF HasListens
  <2> QED BY <2>1, <2>2, <1>1
<1>8. CASE ErrorPage
  <2>1. PICK r : /\ SetServer(r, [server EXCEPT !.pages = r.val])
                 /\ InServer("error_page")
    BY <1>8 DEF ErrorPage
  <2>2. HasListens([server EXCEPT !.pages = r.val])
    BY <1>0 DEF HasListens
  <2> QED BY <2>1, <2>2, <1>1
<1>9. CASE OpenLocation
  BY <1>9, <1>0 DEF OpenLocation, InServer, Refuse
<1>10. CASE UnknownInServer
  BY <1>10, <1>0 DEF UnknownInServer, Refuse
<1>11. CASE OpenServer
  BY <1>11, <1>0, NewHasListens DEF OpenServer, Refuse
<1>12. CASE CloseLocation
  <2>1. HasListens([server EXCEPT !.exact = Append(@, location)])
    BY <1>0 DEF HasListens
  <2>2. HasListens([server EXCEPT !.prefix = Append(@, location)])
    BY <1>0 DEF HasListens
  <2> QED BY <1>12, <1>0, <2>1, <2>2 DEF CloseLocation, Refuse
<1> QED BY <1>2, <1>3, <1>4, <1>5, <1>6, <1>7, <1>8, <1>9, <1>10, <1>11, <1>12
        DEF ServerDirective

LEMMA LocationSteps ==
  ASSUME ReadInv, LocationDirective
  PROVE  SameServers /\ phase \in Reading /\ phase' \in Reading
<1>1. HasListens(server)
  BY DEF ReadInv
<1>2. ASSUME NEW name, NEW r, NEW l, InLocation(name), SetLocation(r, l)
      PROVE  SameServers /\ phase \in Reading /\ phase' \in Reading
  BY <1>1, <1>2 DEF InLocation, SetLocation, Refuse, Reading, SameServers
<1>3. CASE UnknownInLocation
  BY <1>1, <1>3 DEF UnknownInLocation, Refuse, Reading, SameServers
<1> QED BY <1>2, <1>3
        DEF LocationDirective, LocationRoot, LocationAlias, LocationIndex,
            LocationAutoIndex, LocationMethods, LocationBodySize, LocationReturn,
            UploadStore, UploadLocation, CgiPass, LocationErrorPage

\* Whatever the file says, the servers stay in an order, and so do their listens.
LEMMA ReadingKeepsOrder ==
  ASSUME ReadInv, ConfigNext
  PROVE  ReadInv' /\ phase \in Reading /\ phase' \in Reading
<1>1. CASE ServerDirective \/ OpenServer \/ CloseLocation
  BY <1>1, ServerSteps DEF SameServers, ReadInv
<1>2. CASE LocationDirective
  BY <1>2, LocationSteps DEF SameServers, ReadInv
<1>3. CASE CloseServer
  <2>1. CASE Refuse /\ phase = "server"
    BY <2>1 DEF Refuse, ReadInv, Reading
  <2>2. CASE servers' = Append(servers, server) /\ server' = server
    <3>1. \A b \in DOMAIN servers' : HasListens(servers'[b])
      BY <2>2, AppendIsSeq DEF ReadInv
    <3>2. IsSeq(servers')
      BY <2>2, AppendIsSeq DEF ReadInv
    <3>3. phase = "server" /\ phase' \in Reading
      BY <1>3 DEF CloseServer, Refuse, Reading
    <3> QED BY <2>2, <3>1, <3>2, <3>3 DEF ReadInv, Reading
  <2> QED BY <1>3, <2>1, <2>2 DEF CloseServer
<1>4. CASE EndOfFile
  <2>1. CASE Refuse /\ phase = "file"
    BY <2>1 DEF Refuse, ReadInv, Reading
  <2>2. CASE servers' = [k \in DOMAIN servers |-> InitUri(servers[k])] /\ server' = server
    <3>1. \A k \in DOMAIN servers : HasListens(InitUri(servers[k]))
      BY DEF ReadInv, HasListens, InitUri
    <3>2. IsSeq(servers')
      <4>1. servers \in Seq({servers[i] : i \in DOMAIN servers})
        BY DEF ReadInv, IsSeq
      <4>2. DOMAIN servers = 1 .. Len(servers) /\ Len(servers) \in Nat
        BY <4>1
      <4> DEFINE R == {servers'[i] : i \in DOMAIN servers'}
      <4>3. servers' \in [1 .. Len(servers) -> R]
        BY <2>2, <4>2
      <4>4. servers' \in Seq(R)
        BY <4>2, <4>3
      <4> QED BY <4>4 DEF IsSeq
    <3>3. phase = "file" /\ phase' \in Reading
      BY <1>4 DEF EndOfFile, Refuse, Reading
    <3> QED BY <2>2, <3>1, <3>2, <3>3 DEF ReadInv, Reading
  <2> QED BY <1>4, <2>1, <2>2 DEF EndOfFile
<1> QED BY <1>1, <1>2, <1>3, <1>4 DEF ConfigNext

-----------------------------------------------------------------------------
(***************************************************************************)
(* Making and registering the sockets.                                     *)
(***************************************************************************)
LEMMA InitStart == Init => StartInv
<1> SUFFICES ASSUME Init PROVE StartInv
  OBVIOUS
<1>1. IsSeq(servers) /\ DOMAIN servers = {}
  <2>1. servers = << >>
    BY DEF Init, ConfigInit
  <2>2. IsSeq(<< >>) /\ DOMAIN << >> = {}
    BY DEF IsSeq
  <2> QED BY <2>1, <2>2
<1>2. ReadInv
  BY <1>1, NewHasListens DEF ReadInv, Init, ConfigInit
<1>3. SocketInv
  BY DEF Init, ConfigInit, SocketInv, NothingYet, Reading, Making
<1> QED BY <1>2, <1>3 DEF StartInv

\* The files do not change any more.
LEMMA SocketStepsKeepFile ==
  ASSUME ReadInv, UNCHANGED <<servers, server>>
  PROVE  /\ ReadInv'
         /\ Listens' = Listens
         /\ \A sock : Address(sock)' = Address(sock)
BY DEF ReadInv, Listens, Blocks, Address

LEMMA BeginStart ==
  ASSUME StartInv, Begin
  PROVE  StartInv'
<1>1. ReadInv' /\ Listens' = Listens /\ \A sock : Address(sock)' = Address(sock)
  BY SocketStepsKeepFile DEF StartInv, Begin, fileVars
<1>2. NothingYet
  BY DEF StartInv, SocketInv, Begin, Reading
<1>3. /\ phase' = "build" /\ todo' = Listens /\ open' = {} /\ unwatched' = {}
      /\ watched' = {} /\ unbuilt' = {} /\ allServers' = NoServers
  BY <1>2 DEF Begin, NothingYet
<1>4. DOMAIN allServers' = {}
  BY <1>3 DEF NoServers
<1>5. Turns'
  BY <1>1, <1>3 DEF Turns, Pending, Made
<1>6. Owned' /\ \A b \in DOMAIN allServers' : allServers'[b] # {}
  BY <1>3, <1>4 DEF Owned
<1> QED BY <1>1, <1>3, <1>5, <1>6 DEF StartInv, SocketInv, Reading, Making

\* A listen comes to its turn.
LEMMA TurnComes ==
  ASSUME StartInv, phase = "build", NEW sock, Comes(sock)
  PROVE  /\ sock \in Listens /\ sock \notin Made \cup unbuilt
         /\ Pending = todo /\ todo' = todo \ {sock}
         /\ \A other \in Listens \ todo : Earlier(other, sock)
         /\ \A other \in todo \ {sock} : Earlier(sock, other)
         /\ Turns /\ Owned /\ watched = {} /\ unwatched = {}
         /\ \A b \in DOMAIN allServers : allServers[b] # {}
BY DEF StartInv, SocketInv, Making, Turns, Pending, Comes

LEMMA BuildStart ==
  ASSUME StartInv, NEW sock \in todo, Build(sock)
  PROVE  StartInv'
<1>0. phase = "build" /\ Comes(sock) /\ phase' = "build"
  BY DEF Build, configVars
<1>1. ReadInv' /\ Listens' = Listens /\ \A x : Address(x)' = Address(x)
  BY SocketStepsKeepFile DEF StartInv, Build, configVars
<1>2. /\ open' = open \cup {sock} /\ unbuilt' = unbuilt /\ unwatched' = {} /\ watched' = {}
      /\ Made' = Made \cup {sock} /\ Pending' = todo' /\ Made = open
  BY <1>0, TurnComes DEF Build, Made, Pending
<1>3. \A other \in open : Address(other) # Address(sock)
  BY DEF Build
<1>4. Turns'
  <2>1. Pending' \subseteq Listens'
    BY <1>0, <1>1, <1>2, TurnComes DEF Turns
  <2>2. Made' \cup unbuilt' \subseteq Listens' \ Pending'
    BY <1>0, <1>1, <1>2, TurnComes DEF Turns
  <2>3. Made' \cap unbuilt' = {} /\ open' \cap unwatched' = {}
    BY <1>0, <1>2, TurnComes DEF Turns
  <2>4. \A x, y \in Made' : Address(x)' = Address(y)' => x = y
    BY <1>0, <1>1, <1>2, <1>3, TurnComes DEF Turns
  <2>5. \A x \in Listens' \ Pending' : Answered(x)'
    <3>1. SUFFICES ASSUME NEW x \in Listens, x \notin todo \ {sock}
                   PROVE  \/ x \in Made' \cup unbuilt'
                          \/ \E y \in Made' : Earlier(y, x) /\ Address(y) = Address(x)
      BY <1>0, <1>1, <1>2, TurnComes DEF Answered
    <3>2. CASE x = sock
      BY <3>2, <1>2
    <3>3. CASE x # sock
      <4>1. Answered(x)
        BY <1>0, <3>1, <3>3, TurnComes DEF Turns
      <4> QED BY <4>1, <1>2 DEF Answered
    <3> QED BY <3>2, <3>3
  <2>6. \A x \in Listens' \ Pending' : \A y \in Pending' : Earlier(x, y)
    BY <1>0, <1>1, <1>2, TurnComes DEF Turns
  <2> QED BY <2>1, <2>2, <2>3, <2>4, <2>5, <2>6 DEF Turns, Answered
<1>5. /\ DOMAIN allServers' = DOMAIN allServers \cup {sock[1]}
      /\ allServers'[sock[1]] = SocketsOf(sock[1]) \cup {sock}
      /\ \A b \in DOMAIN allServers \ {sock[1]} : allServers'[b] = allServers[b]
  BY DEF Build, Of
<1>6. Owned'
  <2>1. \A b \in DOMAIN allServers' : \A x \in allServers'[b] : x[1] = b
    BY <1>0, <1>5, TurnComes DEF Owned, SocketsOf
  <2>2. open' = UNION {allServers'[b] : b \in DOMAIN allServers'}
    <3>1. open = UNION {allServers[b] : b \in DOMAIN allServers}
      BY <1>0, TurnComes DEF Owned
    <3>2. \A x \in open : \E b \in DOMAIN allServers' : x \in allServers'[b]
      BY <3>1, <1>5 DEF SocketsOf
    <3>3. \A b \in DOMAIN allServers' : allServers'[b] \subseteq open'
      BY <3>1, <1>2, <1>5 DEF SocketsOf
    <3>4. sock \in allServers'[sock[1]] /\ sock[1] \in DOMAIN allServers'
      BY <1>5
    <3> QED BY <3>2, <3>3, <3>4, <1>2
  <2> QED BY <2>1, <2>2 DEF Owned
<1>7. \A b \in DOMAIN allServers' : allServers'[b] # {}
  BY <1>0, <1>5, TurnComes
<1> QED BY <1>0, <1>1, <1>2, <1>4, <1>6, <1>7 DEF StartInv, SocketInv, Making, Reading

LEMMA RefusedStart ==
  ASSUME StartInv, NEW sock \in todo, InUse(sock) \/ BuildFails(sock)
  PROVE  StartInv'
<1>0. phase = "build" /\ Comes(sock) /\ phase' = "build"
  BY DEF InUse, BuildFails, configVars
<1>1. ReadInv' /\ Listens' = Listens /\ \A x : Address(x)' = Address(x)
  BY SocketStepsKeepFile DEF StartInv, InUse, BuildFails, configVars
<1>2. /\ open' = open /\ unwatched' = {} /\ watched' = {} /\ allServers' = allServers
      /\ Made' = Made /\ Pending' = todo' /\ Made = open
      /\ \/ unbuilt' = unbuilt /\ \E other \in open : Address(other) = Address(sock)
         \/ unbuilt' = unbuilt \cup {sock}
  BY <1>0, TurnComes DEF InUse, BuildFails, Made, Pending
<1>3. Turns'
  <2>1. Pending' \subseteq Listens'
    BY <1>0, <1>1, <1>2, TurnComes DEF Turns
  <2>2. Made' \cup unbuilt' \subseteq Listens' \ Pending'
    BY <1>0, <1>1, <1>2, TurnComes DEF Turns
  <2>3. Made' \cap unbuilt' = {} /\ open' \cap unwatched' = {}
    BY <1>0, <1>2, TurnComes DEF Turns
  <2>4. \A x, y \in Made' : Address(x)' = Address(y)' => x = y
    BY <1>0, <1>1, <1>2, TurnComes DEF Turns
  <2>5. \A x \in Listens' \ Pending' : Answered(x)'
    <3>1. SUFFICES ASSUME NEW x \in Listens, x \notin todo \ {sock}
                   PROVE  \/ x \in Made' \cup unbuilt'
                          \/ \E y \in Made' : Earlier(y, x) /\ Address(y) = Address(x)
      BY <1>0, <1>1, <1>2, TurnComes DEF Answered
    <3>2. CASE x = sock
      <4>1. CASE unbuilt' = unbuilt \cup {sock}
        BY <3>2, <4>1
      <4>2. ASSUME NEW other \in open, Address(other) = Address(sock)
            PROVE  \E y \in Made' : Earlier(y, x) /\ Address(y) = Address(x)
        <5>1. other \in Listens \ todo
          BY <1>0, TurnComes DEF Turns, Made
        <5> QED BY <5>1, <1>0, <1>2, <3>2, <4>2, TurnComes
      <4> QED BY <4>1, <4>2, <1>2
    <3>3. CASE x # sock
      <4>1. Answered(x)
        BY <1>0, <3>1, <3>3, TurnComes DEF Turns
      <4> QED BY <4>1, <1>2 DEF Answered
    <3> QED BY <3>2, <3>3
  <2>6. \A x \in Listens' \ Pending' : \A y \in Pending' : Earlier(x, y)
    BY <1>0, <1>1, <1>2, TurnComes DEF Turns
  <2> QED BY <2>1, <2>2, <2>3, <2>4, <2>5, <2>6 DEF Turns, Answered
<1>4. Owned' /\ \A b \in DOMAIN allServers' : allServers'[b] # {}
  BY <1>0, <1>2, TurnComes DEF Owned
<1> QED BY <1>0, <1>1, <1>2, <1>3, <1>4 DEF StartInv, SocketInv, Making, Reading

\* When all have come, nothing of their answers changes.
LEMMA TurnsStay ==
  ASSUME Turns, Pending = {}, Pending' = {}, Made' = Made, unbuilt' = unbuilt,
         open' \cap unwatched' = {}, Listens' = Listens,
         \A sock : Address(sock)' = Address(sock)
  PROVE  Turns'
<1>1. \A x \in Listens : Answered(x)
  BY DEF Turns
<1>2. \A x \in Listens' : Answered(x)'
  <2>1. SUFFICES ASSUME NEW x \in Listens
                 PROVE  \/ x \in Made \cup unbuilt
                        \/ \E y \in Made : Earlier(y, x) /\ Address(y) = Address(x)
    BY DEF Answered
  <2> QED BY <1>1 DEF Answered
<1> QED BY <1>2 DEF Turns

LEMMA BuiltStart ==
  ASSUME StartInv, Built
  PROVE  StartInv'
<1>1. ReadInv' /\ Listens' = Listens /\ \A x : Address(x)' = Address(x)
  BY SocketStepsKeepFile DEF StartInv, Built, fileVars
<1>2. Turns /\ Owned /\ watched = {} /\ unwatched = {} /\ Pending = {}
  BY DEF StartInv, SocketInv, Making, Built, Pending
<1>3. Turns'
  BY <1>1, <1>2, TurnsStay DEF Turns, Built, Pending, Made
<1>4. Owned'
  BY <1>2 DEF Owned, Built
<1>5. \A sock \in Made' : sock[1] \in end'
  BY <1>2 DEF Owned, Built, Made
<1> QED BY <1>1, <1>2, <1>3, <1>4, <1>5 DEF StartInv, SocketInv, Making, Reading, Built

LEMMA RegisterStart ==
  ASSUME StartInv, NEW sock \in todo, Register(sock)
  PROVE  StartInv'
<1>1. ReadInv' /\ Listens' = Listens /\ \A x : Address(x)' = Address(x)
  BY SocketStepsKeepFile DEF StartInv, Register, configVars
<1>2. /\ phase = "register" /\ phase' = "register" /\ Turns /\ Owned
      /\ todo \cup watched = open /\ todo \cap watched = {}
      /\ \A x \in Made : x[1] \in end
  BY DEF StartInv, SocketInv, Making, Register, AtWork, configVars
<1>3. Turns'
  BY <1>1, <1>2, TurnsStay DEF Turns, Register, Pending, Made
<1>4. Owned'
  BY <1>2 DEF Owned, Register
<1>5. /\ todo' \cup watched' = open' /\ todo' \cap watched' = {}
      /\ \A x \in Made' : x[1] \in end'
  BY <1>2 DEF Register, Comes, Made
<1> QED BY <1>1, <1>2, <1>3, <1>4, <1>5 DEF StartInv, SocketInv, Making, Reading

LEMMA RegisterFailsStart ==
  ASSUME StartInv, NEW sock \in todo, RegisterFails(sock)
  PROVE  StartInv'
<1>1. ReadInv' /\ Listens' = Listens /\ \A x : Address(x)' = Address(x)
  BY SocketStepsKeepFile DEF StartInv, RegisterFails, configVars
<1>2. /\ phase = "register" /\ phase' = "register" /\ Turns /\ Owned
      /\ todo \cup watched = open /\ todo \cap watched = {}
      /\ \A x \in Made : x[1] \in end
  BY DEF StartInv, SocketInv, Making, RegisterFails, AtWork, configVars
<1>3. /\ open' = open \ {sock} /\ unwatched' = unwatched \cup {sock} /\ sock \in open
      /\ Made' = Made /\ Pending = {} /\ Pending' = {} /\ unbuilt' = unbuilt
      /\ watched' = watched /\ todo' = todo \ {sock} /\ end' = end
  BY <1>2 DEF RegisterFails, RemoveSocket, Made, Pending, Comes
<1>4. Turns'
  <2>1. open' \cap unwatched' = {}
    BY <1>2, <1>3 DEF Turns
  <2> QED BY <1>1, <1>2, <1>3, <2>1, TurnsStay
<1>5. Owned'
  <2>1. PICK b \in DOMAIN allServers : sock \in allServers[b]
    BY <1>2, <1>3 DEF Owned
  <2>2. sock[1] = b
    BY <2>1, <1>2 DEF Owned
  <2>3. /\ DOMAIN allServers' = DOMAIN allServers
        /\ allServers'[b] = allServers[b] \ {sock}
        /\ \A c \in DOMAIN allServers \ {b} : allServers'[c] = allServers[c]
    BY <2>1, <2>2 DEF RegisterFails
  <2>4. \A c \in DOMAIN allServers' : \A x \in allServers'[c] : x[1] = c
    BY <2>3, <1>2 DEF Owned
  <2>5. \A c \in DOMAIN allServers \ {b} : sock \notin allServers[c]
    BY <2>2, <1>2 DEF Owned
  <2>6. open' = UNION {allServers'[c] : c \in DOMAIN allServers'}
    <3>1. open = UNION {allServers[c] : c \in DOMAIN allServers}
      BY <1>2 DEF Owned
    <3>2. \A x \in open' : \E c \in DOMAIN allServers' : x \in allServers'[c]
      BY <3>1, <2>3, <1>3
    <3>3. \A c \in DOMAIN allServers' : allServers'[c] \subseteq open'
      BY <3>1, <2>1, <2>3, <2>5, <1>3
    <3> QED BY <3>2, <3>3
  <2> QED BY <2>4, <2>6 DEF Owned
<1>6. /\ todo' \cup watched' = open' /\ todo' \cap watched' = {}
      /\ \A x \in Made' : x[1] \in end'
  BY <1>2, <1>3
<1> QED BY <1>1, <1>2, <1>4, <1>5, <1>6 DEF StartInv, SocketInv, Making, Reading

\* A server that goes has no socket that could be forgotten.
LEMMA EraseStart ==
  ASSUME StartInv, NEW b \in DOMAIN allServers, Erase(b)
  PROVE  StartInv'
<1>1. ReadInv' /\ Listens' = Listens /\ \A x : Address(x)' = Address(x)
  BY SocketStepsKeepFile DEF StartInv, Erase, fileVars
<1>2. /\ phase = "register" /\ Turns /\ Owned /\ Pending = {}
      /\ todo \cup watched = open /\ todo \cap watched = {}
      /\ \A x \in Made : x[1] \in end
  BY DEF StartInv, SocketInv, Making, Erase, Pending
<1>3. /\ phase' \in {"stopped", "register"} /\ Pending' = {} /\ Made' = Made
      /\ UNCHANGED <<todo, open, watched, unbuilt, unwatched, end>>
      /\ DOMAIN allServers' = DOMAIN allServers \ {b}
      /\ \A c \in DOMAIN allServers' : allServers'[c] = allServers[c]
      /\ allServers[b] = {}
  BY DEF Erase, Pending, Made
<1>4. Turns'
  BY <1>1, <1>2, <1>3, TurnsStay DEF Turns
<1>5. Owned'
  <2>1. UNION {allServers'[c] : c \in DOMAIN allServers'}
          = UNION {allServers[c] : c \in DOMAIN allServers}
    BY <1>3
  <2> QED BY <2>1, <1>2, <1>3 DEF Owned
<1> QED BY <1>1, <1>2, <1>3, <1>4, <1>5 DEF StartInv, SocketInv, Making, Reading

LEMMA RegisteredStart ==
  ASSUME StartInv, Registered
  PROVE  StartInv'
<1>1. ReadInv' /\ Listens' = Listens /\ \A x : Address(x)' = Address(x)
  BY SocketStepsKeepFile DEF StartInv, Registered, fileVars
<1>2. /\ phase = "register" /\ Turns /\ Owned /\ watched = open /\ Pending = {}
      /\ \A x \in Made : x[1] \in end
      /\ \A b \in DOMAIN allServers : allServers[b] # {}
  BY DEF StartInv, SocketInv, Making, Registered, AtWork, Pending
<1>3. /\ phase' \in {"past", "running"} /\ Pending' = {} /\ Made' = Made
      /\ phase' = "running" => DOMAIN allServers = end
      /\ UNCHANGED startVars
  BY DEF Registered, Pending, Made, startVars
<1>4. Turns'
  BY <1>1, <1>2, <1>3, TurnsStay DEF Turns, Made, startVars
<1>5. Owned'
  BY <1>2, <1>3 DEF Owned, startVars
<1> QED BY <1>1, <1>2, <1>3, <1>4, <1>5
        DEF StartInv, SocketInv, Making, Reading, startVars

\* Past the last server, the loop does not begin any more.
LEMMA PastStart ==
  ASSUME StartInv, WalkPast \/ Abort
  PROVE  StartInv'
<1>1. ReadInv'
  BY SocketStepsKeepFile DEF StartInv, WalkPast, Abort, fileVars
<1>2. phase' \in {"past", "stopped"}
  BY DEF WalkPast, Abort
<1> QED BY <1>1, <1>2 DEF StartInv, SocketInv, Making, Reading

-----------------------------------------------------------------------------
LEMMA StartInvInductive == StartInv /\ [Next]_vars => StartInv'
<1> SUFFICES ASSUME StartInv, [Next]_vars PROVE StartInv'
  OBVIOUS
<1>1. CASE ConfigNext /\ UNCHANGED startVars
  <2>1. ReadInv' /\ phase \in Reading /\ phase' \in Reading
    BY <1>1, ReadingKeepsOrder DEF StartInv
  <2>2. NothingYet'
    BY <1>1, <2>1 DEF StartInv, SocketInv, NothingYet, startVars
  <2> QED BY <2>1, <2>2 DEF StartInv, SocketInv, Reading, Making
<1>2. CASE Begin
  BY <1>2, BeginStart
<1>3. CASE Built
  BY <1>3, BuiltStart
<1>4. CASE Registered
  BY <1>4, RegisteredStart
<1>10. CASE WalkPast \/ Abort
  BY <1>10, PastStart
<1>11. ASSUME NEW b \in DOMAIN allServers, Erase(b) PROVE StartInv'
  BY <1>11, EraseStart
<1>5. ASSUME NEW sock \in todo, Build(sock) PROVE StartInv'
  BY <1>5, BuildStart
<1>6. ASSUME NEW sock \in todo, InUse(sock) \/ BuildFails(sock) PROVE StartInv'
  BY <1>6, RefusedStart
<1>7. ASSUME NEW sock \in todo, Register(sock) PROVE StartInv'
  BY <1>7, RegisterStart
<1>8. ASSUME NEW sock \in todo, RegisterFails(sock) PROVE StartInv'
  BY <1>8, RegisterFailsStart
<1>9. CASE UNCHANGED vars
  <2>1. ReadInv' /\ Listens' = Listens /\ \A x : Address(x)' = Address(x)
    BY <1>9, SocketStepsKeepFile DEF StartInv, vars, configVars
  <2>2. ASSUME Turns PROVE Turns'
    <3>1. \A x \in Listens : Answered(x) <=> Answered(x)'
      BY <1>9, <2>1 DEF Answered, Made, vars, startVars
    <3> QED BY <1>9, <2>1, <2>2, <3>1 DEF Turns, Pending, Made, vars, configVars, startVars
  <2>3. ASSUME Owned PROVE Owned'
    BY <1>9, <2>3 DEF Owned, vars, startVars
  <2>4. ASSUME NothingYet PROVE NothingYet'
    BY <1>9, <2>4 DEF NothingYet, vars, startVars
  <2>5. UNCHANGED <<phase, todo, allServers, open, watched, unbuilt, unwatched, end>>
    BY <1>9 DEF vars, configVars, startVars
  <2>6. SocketInv
    BY DEF StartInv
  <2>7. SocketInv'
    <3>1. Made' = Made
      BY <2>5 DEF Made
    <3> QED BY <2>2, <2>3, <2>4, <2>5, <2>6, <3>1 DEF SocketInv
  <2> QED BY <2>1, <2>7 DEF StartInv
<1> QED BY <1>1, <1>2, <1>3, <1>4, <1>5, <1>6, <1>7, <1>8, <1>9, <1>10, <1>11 DEF Next

LEMMA OrderIsStrict ==
  ASSUME ReadInv, NEW x \in Listens, NEW y \in Listens
  PROVE  ~(Earlier(x, y) /\ Earlier(y, x))
<1>1. DOMAIN servers \subseteq Int
  BY LenProperties DEF ReadInv, IsSeq
<1>2. \A b \in DOMAIN servers : DOMAIN servers[b].listens \subseteq Int
  <2> SUFFICES ASSUME NEW b \in DOMAIN servers
               PROVE  DOMAIN servers[b].listens \subseteq Int
    OBVIOUS
  <2>1. servers[b].listens \in Seq({servers[b].listens[i] : i \in DOMAIN servers[b].listens})
    BY DEF ReadInv, HasListens, IsSeq
  <2>2. /\ DOMAIN servers[b].listens = 1 .. Len(servers[b].listens)
        /\ Len(servers[b].listens) \in Nat
    BY <2>1, LenProperties
  <2> QED BY <2>2
<1>3. /\ x[1] \in Int /\ x[2] \in Int
      /\ y[1] \in Int /\ y[2] \in Int
  BY <1>1, <1>2 DEF Listens, Blocks
<1> QED BY <1>3 DEF Earlier

LEMMA StartInvOwns == StartInv => ListenersOwned
<1> SUFFICES ASSUME StartInv, phase = "running" PROVE ListenersOwned
  BY DEF ListenersOwned
<1>1. /\ Turns /\ Owned /\ Pending = {} /\ watched = open
      /\ \A b \in DOMAIN allServers : allServers[b] # {}
      /\ \A x \in open \cup unwatched : x[1] \in DOMAIN allServers
  BY DEF StartInv, SocketInv, Making, Pending, Made
<1>2. ASSUME NEW x \in Listens, x \in Made, NEW y \in Listens,
             Earlier(y, x), Address(y) = Address(x)
      PROVE  y \in unbuilt
  <2>1. ~Earlier(x, x) /\ ~Earlier(x, y)
    BY <1>2, OrderIsStrict DEF StartInv
  <2>2. y \notin Made
    BY <1>1, <1>2, <2>1 DEF Turns
  <2>3. ASSUME NEW z \in Made, Earlier(z, y), Address(z) = Address(y)
        PROVE  FALSE
    <3>1. z = x
      BY <1>1, <1>2, <2>3 DEF Turns
    <3> QED BY <3>1, <2>1, <2>3
  <2>4. Answered(y)
    BY <1>1 DEF Turns
  <2> QED BY <2>2, <2>3, <2>4 DEF Answered
<1>3. ASSUME NEW x \in Listens, x \notin Made \cup unbuilt
      PROVE  \E y \in Listens : Earlier(y, x) /\ Address(y) = Address(x) /\ y \notin unbuilt
  BY <1>1, <1>3 DEF Turns, Answered
<1>4. ASSUME NEW x \in Listens
      PROVE  x \in open <=>
               /\ x \notin unbuilt \cup unwatched
               /\ \A y \in Listens :
                    Earlier(y, x) /\ Address(y) = Address(x) => y \in unbuilt
  BY <1>1, <1>2, <1>3 DEF Turns, Made
<1> QED BY <1>1, <1>4 DEF ListenersOwned, Owned

\* When the loop begins, every open listening socket is watched and is of exactly
\* one server, no block has lost all of its sockets, and an address is served by
\* the first block that asked for it and could have it (clsFlow::_createServers,
\* _registerServersSockets): for every file, whatever socket(), bind(), listen()
\* and epoll_ctl() refuse.  The walk past the end after an erasure, and what it
\* closes, is part of the model; the invariant holds because it never comes to
\* the loop.
THEOREM ListenersAreOwned == Spec => []ListenersOwned
<1>1. Init => StartInv
  BY InitStart
<1>2. StartInv /\ [Next]_vars => StartInv'
  BY StartInvInductive
<1>3. StartInv => ListenersOwned
  BY StartInvOwns
<1> QED BY <1>1, <1>2, <1>3, PTL DEF Spec
=============================================================================
