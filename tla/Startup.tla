------------------------------ MODULE Startup -------------------------------
(***************************************************************************)
(* From the configuration file to the loop: Configuration, the listening   *)
(* sockets of every block (clsFlow::_createServers, clsServerSock) and     *)
(* their registration (clsFlow::_registerServersSockets).  A socket is the *)
(* block and the place of the listen directive it is made for.             *)
(***************************************************************************)
EXTENDS Configuration

CONSTANT MayFail   \* whether socket(), bind(), listen() and epoll_ctl() may fail

ASSUME FailAssumption == MayFail \in BOOLEAN

VARIABLES
  todo,       \* the sockets that are still to be made or registered
  allServers, \* _allServers: of each block that has a server, its _Sockets
  open,       \* the sockets that are open
  watched,    \* the ones that epoll watches
  unbuilt,    \* the ones that the system refused, for another reason than its address
  unwatched,  \* the ones that epoll refused
  end         \* the servers that were before end() when the registration began

startVars == <<todo, allServers, open, watched, unbuilt, unwatched, end>>
fileVars == <<tokens, pos, servers, server, location>>
vars == <<configVars, startVars>>

Address(sock) == servers[sock[1]].listens[sock[2]]
Blocks == DOMAIN servers
NoServers == [b \in {} |-> {}]
SocketsOf(b) == IF b \in DOMAIN allServers THEN allServers[b] ELSE {}
Of(b, socks) == [c \in DOMAIN allServers \cup {b} |-> IF c = b THEN socks ELSE allServers[c]]

\* The listens of all blocks, and their order: by blocks, then by directives.
Listens == UNION {{<<b, k>> : k \in DOMAIN servers[b].listens} : b \in Blocks}
Earlier(sock, other) ==
  sock[1] < other[1] \/ (sock[1] = other[1] /\ sock[2] < other[2])

\* The loops over the blocks and their sockets come to sock.
Comes(sock) ==
  /\ sock \in todo
  /\ \A other \in todo \ {sock} : Earlier(sock, other)
  /\ todo' = todo \ {sock}

-----------------------------------------------------------------------------
\* The blocks were read: _createBlocksServers is over.
Begin ==
  /\ phase = "ready"
  /\ phase' = "build" /\ todo' = Listens
  /\ UNCHANGED <<fileVars, allServers, open, watched, unbuilt, unwatched, end>>

\* _buildSingleSocket: an address that is listened to already is refused.  A
\* socket that fails is closed and only said.
Build(sock) ==
  /\ phase = "build" /\ Comes(sock)
  /\ \A other \in open : Address(other) # Address(sock)
  /\ open' = open \cup {sock}
  /\ allServers' = Of(sock[1], SocketsOf(sock[1]) \cup {sock})
  /\ UNCHANGED <<configVars, watched, unbuilt, unwatched, end>>
InUse(sock) ==
  /\ phase = "build" /\ Comes(sock)
  /\ \E other \in open : Address(other) = Address(sock)
  /\ UNCHANGED <<configVars, allServers, open, watched, unbuilt, unwatched, end>>
BuildFails(sock) ==
  /\ phase = "build" /\ Comes(sock) /\ MayFail
  /\ unbuilt' = unbuilt \cup {sock}
  /\ UNCHANGED <<configVars, allServers, open, watched, unwatched, end>>

\* buildSockets throws for a block without a socket, which is left out; without
\* any block the program ends.  The end of the walk that follows is taken here.
Built ==
  /\ phase = "build" /\ todo = {}
  /\ phase' = IF DOMAIN allServers = {} THEN "stopped" ELSE "register"
  /\ todo' = open /\ end' = DOMAIN allServers
  /\ UNCHANGED <<fileVars, allServers, open, watched, unbuilt, unwatched>>

\* addServerSockets: the server at work still has a socket that epoll took or that
\* has not come.
AtWork == phase = "register" /\ \A b \in DOMAIN allServers : allServers[b] # {}

Register(sock) ==
  /\ AtWork /\ Comes(sock)
  /\ watched' = watched \cup {sock}
  /\ UNCHANGED <<configVars, allServers, open, unbuilt, unwatched, end>>

\* Fault: a socket that cannot be registered is forgotten, and stays open.
ForgetSocket(sock) == open' = open

RemoveSocket(sock) == open' = open \ {sock}

RegisterFails(sock) ==
  /\ AtWork /\ Comes(sock) /\ MayFail
  /\ unwatched' = unwatched \cup {sock}
  /\ allServers' = [allServers EXCEPT ![sock[1]] = @ \ {sock}]
  /\ RemoveSocket(sock)
  /\ UNCHANGED <<configVars, watched, unbuilt, end>>

\* A server that lost all of its sockets is erased, the others move up, and the
\* walk goes on with the next one; without any server the program ends.
Erase(b) ==
  /\ phase = "register" /\ allServers[b] = {}
  /\ allServers' = [c \in DOMAIN allServers \ {b} |-> allServers[c]]
  /\ phase' = IF DOMAIN allServers = {b} THEN "stopped" ELSE "register"
  /\ UNCHANGED <<fileVars, todo, open, watched, unbuilt, unwatched, end>>

\* Every server has had its turn.  The walk is over when the last one was the last
\* one before end; after an erasure it is not, and goes past them.
Registered ==
  /\ AtWork /\ todo = {}
  /\ phase' = IF DOMAIN allServers = end THEN "running" ELSE "past"
  /\ UNCHANGED <<fileVars, startVars>>

\* Behind the last server is a destroyed one, with a set that was freed.  What is
\* found in it are sockets of servers: those that are open are watched already, so
\* that epoll refuses all of them and they are closed.  erase() then drops the last
\* server instead, and leaves the walk where it is.
WalkPast ==
  /\ phase = "past"
  /\ \E found \in SUBSET open : open' = open \ found /\ watched' = watched \ found
  /\ LET left == DOMAIN allServers \ {Max(DOMAIN allServers)}
     IN /\ allServers' = [c \in left |-> allServers[c]]
        /\ phase' = IF left = {} THEN "stopped" ELSE "past"
  /\ UNCHANGED <<fileVars, todo, unbuilt, unwatched, end>>

\* Or the freed set is freed again, and the program is aborted.
Abort ==
  /\ phase = "past"
  /\ phase' = "stopped"
  /\ UNCHANGED <<fileVars, startVars>>

-----------------------------------------------------------------------------
Init ==
  /\ ConfigInit
  /\ todo = {} /\ allServers = NoServers
  /\ open = {} /\ watched = {} /\ unbuilt = {} /\ unwatched = {} /\ end = {}

Next ==
  \/ ConfigNext /\ UNCHANGED startVars
  \/ Begin \/ Built \/ Registered \/ WalkPast \/ Abort
  \/ \E b \in DOMAIN allServers : Erase(b)
  \/ \E sock \in todo :
       Build(sock) \/ InUse(sock) \/ BuildFails(sock) \/ Register(sock) \/ RegisterFails(sock)

\* One thread reads the file and makes the sockets.
Spec == Init /\ [][Next]_vars /\ WF_vars(Next)

-----------------------------------------------------------------------------
(***************************************************************************)
(* What a file means, without reading it from left to right: statements,   *)
(* the depth they are at, and the ones that count for a block.             *)
(***************************************************************************)
\* The words up to ";", "{" or "}", and which of them ends the statement.
Statements ==
  LET step(acc, t) ==
        IF t.type = "WORD" THEN [acc EXCEPT !.words = Append(@, t.value)]
        ELSE [done |-> Append(acc.done, [words |-> acc.words, end |-> t.type]), words |-> <<>>]
      all == FoldLeft(step, [done |-> <<>>, words |-> <<>>],
                      SelectSeq(tokens, LAMBDA t : t.type # "nl"))
  IN IF all.words = <<>> THEN all.done
     ELSE Append(all.done, [words |-> all.words, end |-> "EOF"])

Depth(st, i) == Cardinality({k \in 1 .. i - 1 : st[k].end = "{"})
                  - Cardinality({k \in 1 .. i - 1 : st[k].end = "}"})
Closes(s) == s.words = <<>> /\ s.end = "}"
Named(s, names) == s.words # <<>> /\ s.words[1] \in names /\ s.end = ";"
WellFormed(st) ==
  /\ Depth(st, Len(st) + 1) = 0
  /\ \A i \in DOMAIN st :
       CASE Depth(st, i) = 0 -> st[i].words = <<"server">> /\ st[i].end = "{"
         [] Depth(st, i) = 1 -> \/ Closes(st[i]) \/ Named(st[i], ServerNames \ {"location"})
                                \/ st[i].end = "{" /\ Len(st[i].words) \in {2, 3}
                                     /\ st[i].words[1] = "location"
         [] Depth(st, i) = 2 -> Closes(st[i]) \/ Named(st[i], LocationNames)
         [] OTHER -> FALSE

\* The block that begins with the i-th statement, and the arguments of the
\* statements of a name in it.
Body(st, i) == {k \in i + 1 .. Len(st) : /\ Depth(st, k) = Depth(st, i) + 1
                                         /\ \A j \in i + 1 .. k : Depth(st, j) > Depth(st, i)}
Given(st, i, name) ==
  LET at == SetToSortSeq({k \in Body(st, i) : st[k].end = ";" /\ st[k].words[1] = name}, <)
  IN [k \in DOMAIN at |-> Tail(st[at[k]].words)]
LastOr(args, default) == IF args = <<>> THEN default ELSE Last(args)

\* Where a path leads; nothing is above "/".
Leads(path) ==
  LET step(segs, s) == IF s \in {"", "."} THEN segs
                       ELSE IF s = ".." THEN IF segs = <<>> THEN segs ELSE Front(segs)
                       ELSE Append(segs, s)
  IN Path(path.abs, FoldLeft(step, <<>>, path.segs))

\* A relative path that comes back to where it began goes on from "/".
Climbs(path) == ~path.abs /\ \E n \in 1 .. Len(path.segs) :
                  Leads(Path(FALSE, SubSeq(path.segs, 1, n))).segs = <<>>
                    /\ path.segs[n] = ".."
Directory(args) == PathOf[args[1]]

\* The pages of a block: of two for one code, the last one.
PagesOf(args) ==
  LET codes(a) == {Number[w] : w \in Range(Front(a)) \cap DOMAIN Number}
      answer(a) == LET w == Range(Front(a)) \cap DOMAIN Answer
                   IN IF w = {} THEN -1 ELSE Answer[CHOOSE x \in w : TRUE]
      with(c) == Max({k \in DOMAIN args : c \in codes(args[k])})
      page(a) == [uri |-> Last(a), response |-> Response(Last(a), answer(a))]
  IN [c \in UNION {codes(a) : a \in Range(args)} |-> page(args[with(c)])]

\* The number of a size in its unit, if it is a number of the program; a size
\* without digits is 0.
SizeMeant(args, max) ==
  IF args = <<>> THEN max = -1
  ELSE LET size == SizeOf[args[1][1]]
       IN size.num * size.unit < Wide \div 2 => max = size.num * size.unit

\* The location of the i-th statement, in the server of the s-th.
SameLocation(st, s, i, l) ==
  LET own(name) == Given(st, i, name)
      of(name) == Given(st, s, name)
      before == {k \in Body(st, s) : k < i /\ st[k].words # <<>> /\ st[k].words[1] = "autoindex"}
      roots == IF own("root") \o own("alias") = <<>> THEN of("root") ELSE own("root")
      pages == IF DOMAIN PagesOf(own("error_page")) = {} THEN of("error_page")
               ELSE own("error_page")
  IN /\ l.uri = Last(st[i].words)
     /\ l.match = IF st[i].words[2] = "=" THEN "EXACT" ELSE "PREFIX"
     /\ Len(own("root")) + Len(own("alias")) <= 1
     /\ (roots # <<>> /\ ~Climbs(Directory(Last(roots)))) =>
          Leads(l.root) = Leads(Directory(Last(roots)))
     /\ own("alias") # <<>> => l.root = NoPath /\ (Climbs(Directory(own("alias")[1]))
                                 \/ Leads(l.alias) = Leads(Directory(own("alias")[1])))
     /\ l.index = LastOr(own("index"), LastOr(of("index"), <<"index.html">>))
     /\ l.autoindex = LastOr(own("autoindex"), IF before = {} THEN <<"any">>
                                               ELSE Tail(st[Max(before)].words))[1]
     /\ l.methods = Range(LastOr(own("allow_methods"), <<>>))
     /\ SizeMeant(own("client_max_body_size"), l.max)
     /\ own("return") = <<>> <=> l.return = NoReturn
     /\ l.pages = PagesOf(pages)
     /\ [k \in DOMAIN l.cgi |-> <<l.cgi[k].ext, l.cgi[k].bin>>] = own("cgi_pass")
     /\ <<l.store>> = LastOr(own("upload_store"), <<"">>)
     /\ own("upload_store") # <<>> => Len(own("upload_location")) = 1 /\ l.place # ""

\* An accepted file is a sequence of complete statements in complete blocks, and
\* every location is what they say, in whatever order they come: its own
\* directives, or those of its server.  Two exceptions are the code's: autoindex is only taken
\* from a server that has said it before the location, and a directory whose path
\* comes back to its start is looked for from "/".
MeansWhatItSays ==
  phase = "ready" =>
    LET st == Statements
        blocks == SetToSortSeq({i \in DOMAIN st : Depth(st, i) = 0}, <)
        opens(s, match) ==
          SetToSortSeq({k \in Body(st, s) : /\ st[k].end = "{"
                                            /\ (st[k].words[2] = "=") = (match = "EXACT")}, <)
        same(s, b, match, locations) ==
          /\ DOMAIN locations = DOMAIN opens(s, match)
          /\ \A k \in DOMAIN locations : SameLocation(st, s, opens(s, match)[k], locations[k])
          /\ \A j, k \in DOMAIN locations : locations[j].uri = locations[k].uri => j = k
    IN /\ WellFormed(st) /\ Len(blocks) = Len(servers)
       /\ \A b \in Blocks :
            /\ [k \in DOMAIN servers[b].listens |-> <<servers[b].listens[k]>>]
                 = Given(st, blocks[b], "listen")
            /\ same(blocks[b], b, "EXACT", servers[b].exact)
            /\ same(blocks[b], b, "PREFIX", servers[b].prefix)

\* When the loop begins, every open listening socket is watched and is of exactly
\* one server; no block that got a socket has lost all of them, for once a server
\* was erased the loop never begins; and an address is served by the first block
\* that asked for it and could have it, or by none when epoll refused its socket.
ListenersOwned ==
  phase = "running" =>
    /\ open = watched
    /\ open = UNION {allServers[b] : b \in DOMAIN allServers}
    /\ \A b \in DOMAIN allServers : allServers[b] # {} /\ \A sock \in allServers[b] : sock[1] = b
    /\ \A sock \in open \cup unwatched : sock[1] \in DOMAIN allServers
    /\ \A sock \in Listens :
         sock \in open <=>
           /\ sock \notin unbuilt \cup unwatched
           /\ \A other \in Listens :
                Earlier(other, sock) /\ Address(other) = Address(sock) => other \in unbuilt

\* Reading the file comes to its end, and the program runs or says why not: no
\* sequence of tokens keeps the parser at one place.
Decided == <>(phase \in {"running", "refused", "stopped"})
=============================================================================
