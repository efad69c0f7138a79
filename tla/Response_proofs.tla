--------------------------- MODULE Response_proofs ---------------------------
(***************************************************************************)
(* Proofs about Routing and Response.                                      *)
(***************************************************************************)
EXTENDS Response, Induction, SequenceTheorems

FailCodes == {403, 404, 414, 500}
Routeds == [handler: Handlers, ok: BOOLEAN, code: Statuses]

\* A handler for which no error page was finalised, and the code of a failure.
Outcome(r) ==
  /\ r \in Routeds
  /\ r.handler.status = 0
  /\ IF r.ok THEN r.code = 0 ELSE r.code \in FailCodes

\* What a redirection comes to: its handler was reset.
Redirecteds == {r \in Routeds : Outcome(r) /\ r.handler.method = "GET"}

\* What the handler of a DELETE is left with: the path of the URI of the client.
Place(h, loc, uri) ==
  h.method = "DELETE" /\ ~h.cgi => h.path \in {<<>>, createPhysicalPath(loc, uri)}

\* What the handler h of a request for uri comes to.
RoutedAs(r, h, loc, uri) ==
  /\ Outcome(r)
  /\ r.handler.method \in {h.method, "GET"}
  /\ r.ok => Place(r.handler, loc, uri)

\* Nothing of an earlier request is left to mistake.
Fresh(h) ==
  h.method = "GET" /\ h.status = 0 /\ h.path = <<>> /\ h.script = <<>>

LEMMA StatusRange ==
  ASSUME NEW n \in Int, n >= -1, n <= 999
  PROVE  n \in Statuses
<1>1. PICK low \in Int : low = -32768
  OBVIOUS
<1>2. Statuses = low .. 32767
  BY <1>1 DEF Statuses
<1>3. low <= n /\ n <= 32767
  BY <1>1
<1>4. QED
  BY <1>2, <1>3

LEMMA StatusesAreIntegers == Statuses \subseteq Int
<1>1. PICK low \in Int : low = -32768
  OBVIOUS
<1>2. Statuses = low .. 32767
  BY <1>1 DEF Statuses
<1>3. QED
  BY <1>2

LEMMA KnownStatuses ==
  {-1, 0, 200, 201, 204, 301, 302, 303, 307, 308} \cup {403, 404, 413, 414, 500, 502, 503, 504}
    \subseteq Statuses
<1> SUFFICES ASSUME NEW n \in {-1, 0, 200, 201, 204, 301, 302, 303, 307, 308}
                                \cup {403, 404, 413, 414, 500, 502, 503, 504}
             PROVE  n \in Statuses
  OBVIOUS
<1>1. n \in Int /\ n >= -1 /\ n <= 999
  OBVIOUS
<1>2. QED
  BY <1>1, StatusRange

-----------------------------------------------------------------------------
(***************************************************************************)
(* The invariant.                                                          *)
(***************************************************************************)
Texts == Paths \cup {Default, Text, CgiBody}
Responses ==
  [mod: SUBSET Mods, status: Statuses, keep: BOOLEAN, file: Texts, body: Texts,
   redirect: [uri: Paths, code: Statuses],
   head: [status: Statuses, keep: BOOLEAN, framing: {"none", "length", "chunked"}]]

Typed == TypeOK /\ response \in Responses

PageCode(s, code) == \E c \in DOMAIN s.pages : s.pages[c].response = code

Away == {301, 302, 303, 307, 308}

\* A handler that was routed for an error does not lead to a success.
Erroneous(s, h) ==
  \/ h.status >= 300
  \/ PageCode(s, h.status)
  \/ h.status = 0 /\ h.ret.code \in Away

Errors == phase \in {"start", "cgi", "send"} /\ refused >= 400 => Erroneous(server, handler)

\* What DELETE will remove.
Own(s, h, uri) ==
  h.method = "DELETE" /\ h.status = 0 /\ h.ret.code = NoCode /\ ~h.cgi =>
    \E l \in findBestLocation(s, uri) :
      /\ "DELETE" \in l.methods
      /\ h.path \in {<<>>, createPhysicalPath(l, uri)}

Deletes ==
  /\ phase # "idle" => Own(server, handler, request.uri)
  /\ phase # "idle" /\ handler.method = "DELETE" =>
       request.method = "DELETE" /\ refused = 0

\* A slot that was not refused yet, and one that waits for a request.
Before ==
  /\ phase \in {"idle", "head", "body"} => refused = 0
  /\ phase = "idle" => Fresh(handler)

IInv == Typed /\ Before /\ Errors /\ Deletes /\ FramingAgrees /\ KeepAgrees /\ ErrorsStayErrors

-----------------------------------------------------------------------------
(***************************************************************************)
(* The helpers of the routing keep paths and handlers what they are.       *)
(***************************************************************************)
LEMMA SubPath ==
  ASSUME NEW s \in Paths, NEW m \in 1 .. Len(s) + 1, NEW n \in 0 .. Len(s)
  PROVE  SubSeq(s, m, n) \in Paths
<1>1. \A i \in m .. n : s[i] \in Names
  BY DEF Paths
<1>2. m \in Int /\ n \in Int
  BY DEF Paths
<1>3. SubSeq(s, m, n) \in Seq(Names)
  BY <1>1, <1>2, SubSeqProperties
<1>4. QED
  BY <1>3 DEF Paths

LEMMA EmptyPath == <<>> \in Paths
  BY DEF Paths

LEMMA Joined ==
  ASSUME NEW s \in Paths, NEW t \in Paths
  PROVE  /\ s \o t \in Paths /\ Len(s \o t) = Len(s) + Len(t) /\ Len(s) \in Nat
         /\ SubSeq(s \o t, 1, Len(s)) = s
<1>1. PICK u : u = s \o t
  OBVIOUS
<1>2. s \in Seq(Names) /\ t \in Seq(Names) /\ Len(s) \in Nat /\ Len(t) \in Nat
  BY DEF Paths
<1>3. u \in Seq(Names) /\ Len(u) = Len(s) + Len(t) /\ \A i \in 1 .. Len(s) : u[i] = s[i]
  BY <1>1, <1>2, ConcatProperties
<1>4. PICK m \in Nat : m = Len(s)
  BY <1>2
<1>5. PICK v : v = SubSeq(u, 1, m)
  OBVIOUS
<1>6. v \in Seq(Names) /\ Len(v) = m /\ \A i \in 1 .. m : v[i] = u[i]
  <2>1. \A i \in 1 .. m : u[i] \in Names
    BY <1>2, <1>3, <1>4
  <2>2. QED
    BY <1>4, <1>5, <2>1, SubSeqProperties
<1>7. v = s
  BY <1>2, <1>3, <1>4, <1>6, SeqEqual
<1>8. QED
  BY <1>1, <1>2, <1>3, <1>4, <1>5, <1>7 DEF Paths

LEMMA PhysicalPath ==
  ASSUME NEW loc \in Locations, NEW uri \in Paths
  PROVE  createPhysicalPath(loc, uri) \in Paths
<1> DEFINE aliased == loc.alias # <<>>
           base == IF aliased THEN loc.alias ELSE loc.root
           rest == IF aliased /\ Len(uri) >= Len(loc.uri)
                     THEN SubSeq(uri, Len(loc.uri) + 1, Len(uri)) ELSE uri
           bare == base # <<>> /\ rest # <<>> /\ Last(base) # "/" /\ Head(rest) # "/"
           double == base # <<>> /\ rest # <<>> /\ Last(base) = "/" /\ Head(rest) = "/"
           front == IF bare /\ ~aliased THEN Append(base, "/") ELSE base
           back == IF double THEN Tail(rest) ELSE rest
<1>1. loc.alias \in Paths /\ loc.root \in Paths /\ loc.uri \in Paths
  BY DEF Locations
<1>2. base \in Paths
  BY <1>1
<1>3. rest \in Paths
  <2>1. CASE aliased /\ Len(uri) >= Len(loc.uri)
    <3>1. Len(uri) \in Nat /\ Len(loc.uri) \in Nat
      BY <1>1 DEF Paths
    <3>2. Len(loc.uri) + 1 \in 1 .. Len(uri) + 1 /\ Len(uri) \in 0 .. Len(uri)
      BY <2>1, <3>1
    <3>3. QED
      BY <2>1, <3>2, SubPath
  <2>2. CASE ~(aliased /\ Len(uri) >= Len(loc.uri))
    BY <2>2
  <2>3. QED
    BY <2>1, <2>2
<1> HIDE DEF aliased, base, rest
<1>4. front \in Paths
  BY <1>2, RoutingAssumption DEF Paths
<1>5. back \in Paths
  BY <1>3 DEF Paths
<1>6. createPhysicalPath(loc, uri) = front \o back
  BY DEF createPhysicalPath, aliased, base, rest
<1> HIDE DEF front, back
<1>7. QED
  BY <1>4, <1>5, <1>6 DEF Paths

LEMMA ResetTyped ==
  ASSUME NEW h \in Handlers
  PROVE  ResetHandler(h) \in Handlers /\ Fresh(ResetHandler(h))
<1>1. NoReturn \in Returns
  BY EmptyPath, KnownStatuses DEF NoReturn, Returns, NoCode
<1>2. NewHandler \in Handlers
  <2>1. 0 \in Statuses /\ "GET" \in Methods
    BY KnownStatuses DEF Methods
  <2>2. QED
    BY <1>1, <2>1, EmptyPath DEF NewHandler, Handlers
<1>3. h.uri \in Paths /\ h.ret \in Returns /\ h.size \in {"file", "big"}
  BY DEF Handlers
<1>4. ResetHandler(h) \in Handlers
  BY <1>2, <1>3 DEF ResetHandler, Handlers
<1>5. QED
  BY <1>2, <1>4 DEF ResetHandler, Handlers, NewHandler, Fresh

LEMMA BestTyped ==
  ASSUME NEW s, IsServer(s), NEW uri, NEW l \in findBestLocation(s, uri)
  PROVE  l \in Locations /\ ReturnOf(s, l) \in Returns
<1>1. l \in s.locations
  BY DEF findBestLocation
<1>2. l \in Locations
  BY <1>1 DEF IsServer
<1>3. QED
  BY <1>2 DEF IsServer, ReturnOf, Locations

\* A script is found, or nothing changes.
LEMMA Extracted ==
  ASSUME NEW h \in Handlers, NEW uri \in Paths, NEW extensions, NEW m,
         m = ExtractCgiMetadata(h, uri, extensions)
  PROVE  /\ m \in Handlers
         /\ m.status = h.status /\ m.method = h.method /\ m.path = h.path
         /\ m = h \/ m.cgi
<1> DEFINE ends == {i \in DOMAIN uri :
                      uri[i] \in extensions /\ (i = Len(uri) \/ uri[i + 1] = "/")}
<1>1. CASE ends = {}
  BY <1>1 DEF ExtractCgiMetadata
<1>2. CASE ends # {}
  <2>1. ends \subseteq 1 .. Len(uri) /\ Len(uri) \in Nat
    BY DEF Paths
  <2>2. \E n \in ends : \A i \in ends : n <= i
    <3>1. ends \subseteq Nat
      BY <2>1
    <3> HIDE DEF ends
    <3>2. QED
      BY <1>2, <3>1, LeastNumber
  <2>3. Min(ends) \in ends
    BY <2>2 DEF Min
  <2>4. PICK k \in 1 .. Len(uri) : k = Min(ends)
    BY <2>1, <2>3
  <2>5. SubSeq(uri, 1, k) \in Paths
    <3>1. 1 \in 1 .. Len(uri) + 1 /\ k \in 0 .. Len(uri)
      BY <2>1
    <3>2. QED
      BY <3>1, SubPath
  <2>6. SubSeq(uri, k + 1, Len(uri)) \in Paths
    <3>1. k + 1 \in 1 .. Len(uri) + 1 /\ Len(uri) \in 0 .. Len(uri)
      BY <2>1
    <3>2. QED
      BY <3>1, SubPath
  <2>7. m = [h EXCEPT !.cgi = TRUE, !.script = SubSeq(uri, 1, k),
                      !.info = SubSeq(uri, k + 1, Len(uri))]
    BY <1>2, <2>4 DEF ExtractCgiMetadata
  <2>8. QED
    BY <2>5, <2>6, <2>7 DEF Handlers
<1>3. QED
  BY <1>1, <1>2

LEMMA CgiHandled ==
  ASSUME NEW disk, NEW loc \in Locations, NEW h \in Handlers, NEW uri \in Paths,
         NEW c, c = handleCgi(disk, loc, h, uri), h.status = 0,
         h.script = <<>> \/ h.cgi, Place(h, loc, uri)
  PROVE  RoutedAs(c, h, loc, uri)
<1> DEFINE m == ExtractCgiMetadata(h, uri, loc.cgi)
           path == createPhysicalPath(loc, m.script)
           found == [m EXCEPT !.path = path]
           kind == checkPath(disk, path)
<1>1. m \in Handlers /\ m.status = 0 /\ m.method = h.method /\ (m = h \/ m.cgi)
  BY Extracted
<1>2. Place(m, loc, uri) /\ (m.script = <<>> \/ m.cgi)
  BY <1>1 DEF Place
<1>3. m.script \in Paths
  BY <1>1 DEF Handlers
<1>4. path \in Paths
  BY <1>3, PhysicalPath
<1>5. c = IF m.script = <<>> THEN Passed(m)
          ELSE IF TooLong(path) THEN Routed(m, FALSE, 414)
          ELSE IF kind \in {"none", "other"} THEN Routed(found, FALSE, 404)
          ELSE IF kind = "dir" THEN Routed(found, FALSE, 403)
          ELSE Passed(found)
  BY DEF handleCgi
<1> HIDE DEF m, path, kind
<1>6. found \in Handlers /\ found.status = 0 /\ found.method = h.method
  BY <1>1, <1>4 DEF Handlers
<1>7. m.script # <<>> => Place(found, loc, uri)
  BY <1>1, <1>2 DEF Place, Handlers
<1> HIDE DEF found
<1>8. {0, 403, 404, 414} \subseteq Statuses /\ {403, 404, 414} \subseteq FailCodes
  BY KnownStatuses DEF FailCodes
<1>9. QED
  BY <1>1, <1>2, <1>5, <1>6, <1>7, <1>8 DEF RoutedAs, Outcome, Routeds, Routed, Passed

LEMMA FileHandled ==
  ASSUME NEW disk, NEW loc \in Locations, NEW h \in Handlers, NEW uri \in Paths,
         NEW r, r = validateAndFinalizePhysicalPath(disk, loc, h, uri), h.status = 0
  PROVE  RoutedAs(r, h, loc, uri)
<1> DEFINE path == createPhysicalPath(loc, uri)
           kind == checkPath(disk, path)
           sized == [h EXCEPT !.path = path,
                              !.size = IF kind = "big" THEN "big" ELSE "file"]
           moved == [sized EXCEPT !.ret = [code |-> 301, value |-> Append(uri, "/")]]
<1>1. path \in Paths
  BY PhysicalPath
<1>2. r = IF TooLong(path) THEN Routed(h, FALSE, 414)
          ELSE IF kind \in {"none", "other"} THEN Routed(sized, FALSE, 404)
          ELSE IF kind = "dir" THEN Passed(moved)
          ELSE IF h.method = "GET" /\ kind = "denied" THEN Routed(sized, FALSE, 403)
          ELSE Passed(sized)
  BY DEF validateAndFinalizePhysicalPath
<1> HIDE DEF kind
<1>3. sized \in Handlers /\ sized.status = 0 /\ sized.method = h.method
        /\ sized.path = path
  BY <1>1 DEF Handlers
<1>4. Append(uri, "/") \in Paths
  BY RoutingAssumption DEF Paths
<1>5. PICK ret \in Returns : ret = [code |-> 301, value |-> Append(uri, "/")]
  <2>1. PICK code \in Statuses : code = 301
    BY KnownStatuses
  <2>2. PICK there \in Paths : there = Append(uri, "/")
    BY <1>4
  <2>3. [code |-> code, value |-> there] \in Returns
    BY DEF Returns
  <2>4. QED
    BY <2>1, <2>2, <2>3
<1> HIDE DEF sized
<1>6. moved \in Handlers /\ moved.status = 0 /\ moved.method = h.method
        /\ moved.path = path
  <2>1. moved = [sized EXCEPT !.ret = ret]
    BY <1>5
  <2>2. moved \in Handlers
    BY <1>3, <2>1 DEF Handlers
  <2>3. moved.status = sized.status /\ moved.method = sized.method
          /\ moved.path = sized.path
    BY <1>3, <2>1 DEF Handlers
  <2> HIDE DEF moved
  <2>4. QED
    BY <1>3, <2>2, <2>3
<1> HIDE DEF moved
<1>7. Place(sized, loc, uri) /\ Place(moved, loc, uri)
  BY <1>3, <1>6 DEF Place
<1>8. {0, 403, 404, 414} \subseteq Statuses /\ {403, 404, 414} \subseteq FailCodes
  BY KnownStatuses DEF FailCodes
<1>9. QED
  BY <1>2, <1>3, <1>6, <1>7, <1>8 DEF RoutedAs, Outcome, Routeds, Routed, Passed

-----------------------------------------------------------------------------
(***************************************************************************)
(* Directories.                                                            *)
(***************************************************************************)
\* After some index files: the answer of one of them, or a handler whose path,
\* cut as the listing will cut it, is empty or the one of the directory.
Turned(x, h, base) ==
  /\ x.r \in Routeds /\ x.r.handler.status = 0
  /\ x.r.handler.method \in {h.method, "GET"}
  /\ x.done => x.r \in Redirecteds
  /\ x.cut = 0 \/ x.cut = Len(base)
  /\ x.r.handler.method = "DELETE" /\ ~x.done /\ x.cut # 0 =>
       /\ Len(x.r.handler.path) >= x.cut
       /\ SubSeq(x.r.handler.path, 1, x.cut) = base

TurnRecords == [r: Routeds, cut: Nat, done: BOOLEAN]

LEMMA IndexTried ==
  ASSUME NEW disk, NEW loc \in Locations, NEW h \in Handlers, NEW uri \in Paths,
         NEW redirected \in [Turns -> Redirecteds],
         NEW x \in TurnRecords, Turned(x, h, createPhysicalPath(loc, uri)),
         NEW index \in [uri: Paths, relative: BOOLEAN],
         NEW y, y = TryIndex(disk, loc, uri, redirected, x, index)
  PROVE  y \in TurnRecords /\ Turned(y, h, createPhysicalPath(loc, uri))
<1> DEFINE g == x.r.handler
           base == createPhysicalPath(loc, uri)
           path == base \o index.uri
           joined == [g EXCEPT !.path = path]
           alone == redirected[[handler |-> g, uri |-> index.uri]]
           tried == redirected[[handler |-> joined, uri |-> uri \o index.uri]]
<1>1. g \in Handlers /\ g.status = 0 /\ g.method \in {h.method, "GET"}
  BY DEF Turned, TurnRecords, Routeds
<1>2. base \in Paths /\ index.uri \in Paths
  BY PhysicalPath
<1>3. path \in Paths /\ Len(path) = Len(base) + Len(index.uri) /\ Len(base) \in Nat
        /\ SubSeq(path, 1, Len(base)) = base /\ Len(index.uri) \in Nat
  <2> HIDE DEF base
  <2>1. QED
    BY <1>2, Joined
<1>4. uri \o index.uri \in Paths
  BY <1>2, Joined
<1>5. y = IF x.done THEN x
          ELSE IF ~index.relative THEN [x EXCEPT !.r = alone, !.done = TRUE]
          ELSE IF TooLong(base) THEN x
          ELSE IF ~IsFile(checkPath(disk, joined.path))
            THEN [x EXCEPT !.r = Routed(joined, FALSE, 0), !.cut = Len(base)]
          ELSE [x EXCEPT !.r = tried, !.cut = Len(base), !.done = tried.ok]
  BY DEF TryIndex
<1>6. joined \in Handlers /\ joined.status = 0 /\ joined.method = g.method
        /\ joined.path = path
  <2> HIDE DEF g, path
  <2>1. QED
    BY <1>1, <1>3 DEF Handlers
<1>7. alone \in Redirecteds
  BY <1>1, <1>2 DEF Turns
<1>8. tried \in Redirecteds
  BY <1>4, <1>6 DEF Turns
<1> HIDE DEF g, base, path, joined, alone, tried
<1>9. CASE x.done
  BY <1>5, <1>9
<1>10. CASE ~x.done /\ ~index.relative
  <2>1. y = [x EXCEPT !.r = alone, !.done = TRUE]
    BY <1>5, <1>10
  <2>2. alone \in Routeds /\ alone.handler.status = 0 /\ alone.handler.method = "GET"
    BY <1>7 DEF Redirecteds, Outcome
  <2>3. y.r = alone /\ y.done /\ y.cut = x.cut /\ y \in TurnRecords
    BY <2>1, <2>2 DEF TurnRecords
  <2>4. QED
    BY <1>7, <2>2, <2>3 DEF Turned
<1>11. CASE ~x.done /\ index.relative /\ TooLong(base)
  BY <1>5, <1>11
<1>12. CASE ~x.done /\ index.relative /\ ~TooLong(base)
              /\ ~IsFile(checkPath(disk, joined.path))
  <2>1. y = [x EXCEPT !.r = Routed(joined, FALSE, 0), !.cut = Len(base)]
    BY <1>5, <1>12
  <2>2. Routed(joined, FALSE, 0) \in Routeds /\ Routed(joined, FALSE, 0).handler = joined
    BY <1>6, KnownStatuses DEF Routed, Routeds
  <2>3. y.r.handler = joined /\ ~y.done /\ y.cut = Len(base) /\ y \in TurnRecords
    BY <1>3, <1>12, <2>1, <2>2 DEF TurnRecords
  <2>4. y.r \in Routeds
    BY <2>3 DEF TurnRecords
  <2>5. Len(path) >= Len(base)
    BY <1>3
  <2>6. QED
    BY <1>1, <1>3, <1>6, <2>3, <2>4, <2>5 DEF Turned, base
<1>13. CASE ~x.done /\ index.relative /\ ~TooLong(base)
              /\ IsFile(checkPath(disk, joined.path))
  <2>1. y = [x EXCEPT !.r = tried, !.cut = Len(base), !.done = tried.ok]
    BY <1>5, <1>13
  <2>2. tried \in Routeds /\ tried.handler.status = 0 /\ tried.handler.method = "GET"
    BY <1>8 DEF Redirecteds, Outcome
  <2>3. y.r = tried /\ y.cut = Len(base) /\ y \in TurnRecords
    BY <1>3, <2>1, <2>2 DEF TurnRecords, Routeds
  <2>4. QED
    BY <1>8, <2>2, <2>3 DEF Turned, base
<1>14. QED
  BY <1>9, <1>10, <1>11, <1>12, <1>13

\* After the last index file.
Listed(h, cut) ==
  [h EXCEPT !.autoindex = TRUE, !.path = SubSeq(@, 1, Min({cut, Len(@)}))]
Ended(x, loc) ==
  IF x.done THEN x.r
  ELSE IF loc.autoindex THEN Passed(Listed(x.r.handler, x.cut))
  ELSE Routed(x.r.handler, FALSE, 403)

\* The index files are tried one after the other, and end somewhere.
LEMMA IndexesTried ==
  ASSUME NEW disk, NEW loc \in Locations, NEW h \in Handlers, NEW uri \in Paths,
         NEW redirected \in [Turns -> Redirecteds], h.status = 0
  PROVE  \E x \in TurnRecords :
           /\ Turned(x, h, createPhysicalPath(loc, uri))
           /\ handleDirectory(disk, loc, h, uri, redirected) = Ended(x, loc)
<1> DEFINE base == createPhysicalPath(loc, uri)
           N == Len(loc.index)
           S == {x \in TurnRecords : Turned(x, h, base)}
           b == [r |-> Routed(h, FALSE, 0), cut |-> 0, done |-> FALSE]
           Try(x, i) == TryIndex(disk, loc, uri, redirected, x, loc.index[i])
           g == [i \in 1 .. N |-> [x \in S |-> Try(x, i)]]
           F(f) == [i \in 0 .. N |-> IF i = 0 THEN b ELSE Try(f[i - 1], i)]
<1>1. loc.index \in Seq([uri: Paths, relative: BOOLEAN])
  BY DEF Locations
<1>2. N \in Nat /\ \A i \in 1 .. N : loc.index[i] \in [uri: Paths, relative: BOOLEAN]
  <2>1. N \in Nat
    BY <1>1
  <2>2. \A i \in 1 .. N : loc.index[i] \in [uri: Paths, relative: BOOLEAN]
    BY <1>1, ElementOfSeq
  <2>3. QED
    BY <2>1, <2>2
<1>3. b \in S
  <2>1. b.r \in Routeds /\ b.r.handler = h /\ b.cut = 0 /\ ~b.done
    BY KnownStatuses DEF Routed, Routeds
  <2>2. b \in TurnRecords
    BY <2>1 DEF TurnRecords
  <2> HIDE DEF b
  <2>3. Turned(b, h, base)
    BY <2>1 DEF Turned
  <2>4. QED
    BY <2>2, <2>3
<1>4. ASSUME NEW i \in 1 .. N, NEW x \in S PROVE Try(x, i) \in S
  <2>1. loc.index[i] \in [uri: Paths, relative: BOOLEAN]
    BY <1>2
  <2>2. x \in TurnRecords /\ Turned(x, h, createPhysicalPath(loc, uri))
    OBVIOUS
  <2>3. Try(x, i) \in TurnRecords /\ Turned(Try(x, i), h, createPhysicalPath(loc, uri))
    <3>1. PICK index \in [uri: Paths, relative: BOOLEAN] : index = loc.index[i]
      BY <2>1
    <3>2. PICK y : y = TryIndex(disk, loc, uri, redirected, x, index)
      OBVIOUS
    <3>3. y \in TurnRecords /\ Turned(y, h, createPhysicalPath(loc, uri))
      BY <2>2, <3>2, IndexTried
    <3>4. QED
      BY <3>1, <3>2, <3>3
  <2>4. QED
    BY <2>3
<1> HIDE DEF N, S, b, Try
<1>5. g \in [1 .. N -> [S -> S]]
  BY <1>4
<1>6. \A i \in 1 .. N : \A x \in S : g[i][x] = Try(x, i)
  OBVIOUS
<1> HIDE DEF g
<1>7. PICK f \in [0 .. N -> S] : Iterates(f, b, g, N)
  BY <1>2, <1>3, <1>5, IteratesExist
<1>8. \A i \in 1 .. N : i \in 0 .. N /\ i - 1 \in 0 .. N /\ i # 0
  BY <1>2
<1>9. \A i \in 1 .. N : f[i] = Try(f[i - 1], i)
  BY <1>6, <1>7, <1>8 DEF Iterates
<1>10. f = F(f)
  <2>1. \A i \in 0 .. N : i = 0 \/ i \in 1 .. N
    BY <1>2
  <2>2. \A i \in 0 .. N : f[i] = F(f)[i]
    BY <1>7, <1>9, <2>1 DEF Iterates
  <2>3. QED
    BY <2>2
<1>11. ASSUME NEW t, t = F(t) PROVE t[N] = f[N]
  <2> DEFINE T == {i \in 0 .. N : t[i] = f[i]}
  <2>1. 0 \in T
    BY <1>2, <1>7, <1>11 DEF Iterates
  <2>2. ASSUME NEW i \in 1 .. N, i - 1 \in T PROVE i \in T
    <3>1. t[i] = Try(t[i - 1], i)
      BY <1>8, <1>11
    <3>2. QED
      BY <1>8, <1>9, <2>2, <3>1
  <2> HIDE DEF T, F
  <2>3. 0 .. N \subseteq T
    BY <1>2, <2>1, <2>2, NumbersUpTo
  <2>4. QED
    BY <1>2, <2>3 DEF T
<1>12. PICK x : x = (CHOOSE t : t = F(t))[N]
  OBVIOUS
<1>13. handleDirectory(disk, loc, h, uri, redirected) = Ended(x, loc)
  BY <1>12 DEF handleDirectory, N, b, Try, Ended, Listed
<1> HIDE DEF F
<1>14. x = f[N]
  BY <1>10, <1>11, <1>12
<1>15. x \in S
  BY <1>2, <1>7, <1>14
<1>16. x \in TurnRecords /\ Turned(x, h, createPhysicalPath(loc, uri))
  BY <1>15 DEF S
<1>17. QED
  BY <1>13, <1>16

LEMMA DirectoryHandled ==
  ASSUME NEW disk, NEW loc \in Locations, NEW h \in Handlers, NEW uri \in Paths,
         NEW redirected \in [Turns -> Redirecteds], h.status = 0,
         NEW r, r = handleDirectory(disk, loc, h, uri, redirected)
  PROVE  RoutedAs(r, h, loc, uri)
<1>1. PICK x \in TurnRecords :
        /\ Turned(x, h, createPhysicalPath(loc, uri))
        /\ handleDirectory(disk, loc, h, uri, redirected) = Ended(x, loc)
  BY IndexesTried
<1>2. PICK g \in Handlers : g = x.r.handler
  BY DEF TurnRecords, Routeds
<1>3. g.status = 0 /\ g.method \in {h.method, "GET"}
  BY <1>1, <1>2 DEF Turned
<1>4. CASE x.done
  <2>1. r \in Redirecteds
    BY <1>1, <1>4 DEF Turned, Ended
  <2>2. Outcome(r) /\ r.handler.method = "GET"
    BY <2>1 DEF Redirecteds
  <2>3. QED
    BY <2>2 DEF RoutedAs, Place
<1>5. CASE ~x.done /\ ~loc.autoindex
  <2>1. r = Routed(g, FALSE, 403)
    BY <1>1, <1>2, <1>5 DEF Ended
  <2>2. QED
    BY <1>3, <2>1, KnownStatuses DEF RoutedAs, Outcome, Routed, Routeds, FailCodes
<1>6. CASE ~x.done /\ loc.autoindex
  <2> DEFINE n == Min({x.cut, Len(g.path)})
             listed == [g EXCEPT !.autoindex = TRUE, !.path = SubSeq(@, 1, n)]
  <2>1. g.path \in Paths /\ Len(g.path) \in Nat /\ x.cut \in Nat
    BY DEF Handlers, Paths, TurnRecords
  <2>2. n \in Nat /\ n <= Len(g.path) /\ (x.cut <= Len(g.path) => n = x.cut)
    <3>1. PICK k \in Nat : k = IF x.cut <= Len(g.path) THEN x.cut ELSE Len(g.path)
      BY <2>1
    <3>2. \A j \in {x.cut, Len(g.path)} : k <= j
      BY <2>1, <3>1
    <3>3. n = k
      <4>1. k \in {x.cut, Len(g.path)}
        BY <3>1
      <4>2. n \in {x.cut, Len(g.path)} /\ \A j \in {x.cut, Len(g.path)} : n <= j
        BY <3>2, <4>1 DEF Min
      <4>3. n <= k /\ k <= n /\ n \in Nat
        BY <2>1, <3>2, <4>1, <4>2
      <4>4. QED
        BY <4>3
    <3>4. QED
      BY <2>1, <3>1, <3>2, <3>3
  <2>3. r = Passed(listed)
    BY <1>1, <1>2, <1>6 DEF Ended, Listed
  <2> HIDE DEF n
  <2>4. SubSeq(g.path, 1, n) \in Paths
    <3>1. 1 \in 1 .. Len(g.path) + 1 /\ n \in 0 .. Len(g.path)
      BY <2>1, <2>2
    <3>2. QED
      BY <2>1, <3>1, SubPath
  <2>5. listed \in Handlers /\ listed.status = 0 /\ listed.method = g.method
          /\ listed.cgi = g.cgi /\ listed.path = SubSeq(g.path, 1, n)
    BY <1>3, <2>4 DEF Handlers
  <2> HIDE DEF listed
  <2>6. Outcome(r) /\ r.handler = listed
    BY <2>3, <2>5, KnownStatuses DEF Outcome, Passed, Routed, Routeds
  <2>7. listed.method = "DELETE" =>
          listed.path \in {<<>>, createPhysicalPath(loc, uri)}
    <3>1. CASE x.cut = 0
      <4>1. n = 0
        BY <2>1, <2>2, <3>1
      <4>2. SubSeq(g.path, 1, 0) = <<>>
        OBVIOUS
      <4>3. QED
        BY <2>5, <4>1, <4>2
    <3>2. CASE x.cut # 0 /\ g.method = "DELETE"
      <4>1. Len(g.path) >= x.cut
              /\ SubSeq(g.path, 1, x.cut) = createPhysicalPath(loc, uri)
        BY <1>1, <1>2, <1>6, <3>2 DEF Turned
      <4>2. n = x.cut
        BY <2>1, <2>2, <4>1
      <4>3. QED
        BY <2>5, <4>1, <4>2
    <3>3. QED
      BY <2>5, <3>1, <3>2
  <2>8. QED
    BY <1>3, <2>5, <2>6, <2>7 DEF RoutedAs, Place
<1>7. QED
  BY <1>4, <1>5, <1>6

LEMMA PathHandled ==
  ASSUME NEW disk, NEW loc \in Locations, NEW h \in Handlers, NEW uri \in Paths,
         NEW redirected \in [Turns -> Redirecteds], h.status = 0,
         h.script = <<>> \/ h.cgi, Place(h, loc, uri),
         NEW r, r = handlePath(disk, loc, h, uri, redirected)
  PROVE  RoutedAs(r, h, loc, uri)
<1>1. PICK c : c = handleCgi(disk, loc, h, uri)
  OBVIOUS
<1>2. RoutedAs(c, h, loc, uri)
  BY <1>1, CgiHandled
<1>3. CASE ~c.ok \/ c.handler.script # <<>>
  BY <1>1, <1>2, <1>3 DEF handlePath
<1>4. CASE ~(~c.ok \/ c.handler.script # <<>>)
  <2>1. PICK g \in Handlers : g = c.handler
    BY <1>2 DEF RoutedAs, Outcome, Routeds
  <2>2. g.status = 0 /\ g.method \in {h.method, "GET"}
    BY <1>2, <2>1 DEF RoutedAs, Outcome
  <2>3. r = IF Last(uri) = "/" THEN handleDirectory(disk, loc, g, uri, redirected)
            ELSE validateAndFinalizePhysicalPath(disk, loc, g, uri)
    BY <1>1, <1>4, <2>1 DEF handlePath
  <2>4. RoutedAs(r, g, loc, uri)
    BY <2>2, <2>3, DirectoryHandled, FileHandled
  <2>5. QED
    BY <2>2, <2>4 DEF RoutedAs
<1>5. QED
  BY <1>3, <1>4

-----------------------------------------------------------------------------
(***************************************************************************)
(* Redirections: a turn with n of them left, from those with n - 1.        *)
(***************************************************************************)
LEMMA RedirectionTyped ==
  ASSUME NEW g \in Handlers, g.status = 0, g.method = "GET"
  PROVE  /\ Passed(g) \in Redirecteds
         /\ \A code \in FailCodes : Routed(g, FALSE, code) \in Redirecteds
<1>1. FailCodes \subseteq Statuses /\ 0 \in Statuses
  BY KnownStatuses DEF FailCodes
<1>2. ASSUME NEW ok \in BOOLEAN, NEW code \in Statuses,
             IF ok THEN code = 0 ELSE code \in FailCodes
      PROVE  Routed(g, ok, code) \in Redirecteds
  <2>1. PICK r \in Routeds : r = Routed(g, ok, code)
    BY DEF Routed, Routeds
  <2>2. r.handler = g /\ r.ok = ok /\ r.code = code
    BY <2>1 DEF Routed
  <2>3. Outcome(r)
    BY <1>2, <2>2 DEF Outcome
  <2>4. QED
    BY <2>1, <2>2, <2>3 DEF Redirecteds
<1>3. QED
  BY <1>1, <1>2 DEF Passed

LEMMA RedirectionFailed ==
  ASSUME NEW g \in Handlers, g.status = 0, g.method = "GET", NEW code \in FailCodes
  PROVE  Routed(g, FALSE, code) \in Redirecteds
  BY RedirectionTyped

LEMMA RedirectionHandled ==
  ASSUME NEW s, IsServer(s), NEW disk, NEW turn \in Turns,
         NEW redirected \in [Turns -> Redirecteds]
  PROVE  Redirection(s, disk, turn, redirected) \in Redirecteds
<1> DEFINE clean == ResetHandler(turn.handler)
           locs == findBestLocation(s, turn.uri)
           loc == CHOOSE l \in locs : TRUE
           there == [clean EXCEPT !.ret = ReturnOf(s, loc)]
           r == handlePath(disk, loc, there, turn.uri, redirected)
<1>1. turn.handler \in Handlers /\ turn.uri \in Paths
  BY DEF Turns
<1>2. clean \in Handlers /\ clean.method = "GET" /\ Fresh(clean)
  BY <1>1, ResetTyped DEF Fresh
<1>3. Redirection(s, disk, turn, redirected) =
        IF locs = {} THEN Routed(clean, FALSE, 404)
        ELSE IF there.ret.code # NoCode THEN Passed(there)
        ELSE Redirected(r, turn.uri)
  BY DEF Redirection
<1> HIDE DEF clean, locs
<1>4. CASE locs = {}
  <2>1. Routed(clean, FALSE, 404) \in Redirecteds
    <3>1. clean.status = 0 /\ 404 \in FailCodes
      BY <1>2 DEF FailCodes, Fresh
    <3>2. QED
      BY <1>2, <3>1, RedirectionFailed DEF Routed
  <2>2. QED
    BY <1>3, <1>4, <2>1
<1>5. CASE locs # {}
  <2>1. loc \in locs
    BY <1>5
  <2>2. loc \in Locations /\ ReturnOf(s, loc) \in Returns
    BY <2>1, BestTyped DEF locs
  <2> HIDE DEF loc
  <2>3. there \in Handlers /\ there.method = "GET" /\ Fresh(there)
    BY <1>2, <2>2 DEF Handlers, Fresh
  <2> HIDE DEF there, r
  <2>4. CASE there.ret.code # NoCode
    <3>1. Passed(there) \in Redirecteds
      BY <2>3, RedirectionTyped DEF Fresh
    <3>2. QED
      BY <1>3, <1>5, <2>4, <3>1
  <2>5. CASE there.ret.code = NoCode
    <3>1. there.status = 0 /\ there.script = <<>> /\ Place(there, loc, turn.uri)
      BY <2>3 DEF Fresh, Place
    <3>2. RoutedAs(r, there, loc, turn.uri)
      BY <1>1, <2>2, <2>3, <3>1, PathHandled DEF r
    <3>3. Outcome(r) /\ r.handler.method = "GET"
      BY <2>3, <3>2 DEF RoutedAs
    <3>4. r \in Routeds /\ r.handler \in Handlers /\ r.code \in Statuses
      BY <3>3 DEF Outcome, Routeds
    <3>5. PICK g \in Handlers : g = [r.handler EXCEPT !.uri = turn.uri, !.error = r.code]
      BY <1>1, <3>4 DEF Handlers
    <3>6. g.status = 0 /\ g.method = "GET"
      BY <3>3, <3>4, <3>5 DEF Handlers, Outcome
    <3>7. CASE r.ok
      <4>1. Redirection(s, disk, turn, redirected) = Passed(g)
        BY <1>3, <1>5, <2>5, <3>5, <3>7 DEF Redirected
      <4>2. QED
        BY <3>6, <4>1, RedirectionTyped
    <3>8. CASE ~r.ok
      <4>1. Redirection(s, disk, turn, redirected) = r
        BY <1>3, <1>5, <2>5, <3>8 DEF Redirected
      <4>2. QED
        BY <3>3, <3>4, <4>1 DEF Redirecteds
    <3>9. QED
      BY <3>7, <3>8
  <2>6. QED
    BY <2>4, <2>5
<1>6. QED
  BY <1>4, <1>5

LEMMA AllRedirections ==
  ASSUME NEW s, IsServer(s), NEW disk
  PROVE  Redirections(s, disk) \in [Turns -> Redirecteds]
<1> DEFINE N == InternalLoop + 1
           S == [Turns -> Redirecteds]
           b == [turn \in Turns |-> Routed(ResetHandler(turn.handler), FALSE, 500)]
           More(u) == [turn \in Turns |-> Redirection(s, disk, turn, u)]
           Same(n) == [u \in S |-> More(u)]
           g == [n \in 1 .. N |-> Same(n)]
           F(f) == [n \in 0 .. N |->
                      [turn \in Turns |->
                         IF n = 0 THEN Routed(ResetHandler(turn.handler), FALSE, 500)
                         ELSE Redirection(s, disk, turn, f[n - 1])]]
<1>1. N \in Nat
  BY RoutingAssumption
<1>2. b \in S
  <2>1. ASSUME NEW turn \in Turns
        PROVE  Routed(ResetHandler(turn.handler), FALSE, 500) \in Redirecteds
    <3>1. turn.handler \in Handlers
      BY DEF Turns
    <3>2. PICK clean \in Handlers : clean = ResetHandler(turn.handler)
      BY <3>1, ResetTyped
    <3>3. clean.method = "GET" /\ Fresh(clean)
      BY <3>1, <3>2, ResetTyped DEF Fresh
    <3>4. QED
      <4>1. clean.status = 0 /\ 500 \in FailCodes
        BY <3>3 DEF FailCodes, Fresh
      <4>2. Routed(clean, FALSE, 500) \in Redirecteds
        <5>1. clean \in Handlers /\ clean.method = "GET"
          BY <3>3
        <5>2. QED
          BY ONLY <4>1, <5>1, RedirectionFailed DEF Routed
      <4>3. QED
        BY <3>2, <4>2
  <2>2. QED
    BY <2>1
<1>3. \A u \in S : More(u) \in S
  BY RedirectionHandled
<1>4. \A f : \A n \in 0 .. N :
        F(f)[n] = IF n = 0 THEN b ELSE More(f[n - 1])
  OBVIOUS
<1>5. Redirections(s, disk) = (CHOOSE f : f = F(f))[N]
  BY DEF Redirections
<1>6. \A f : F(f) = [n \in 0 .. N |-> F(f)[n]]
  OBVIOUS
<1> HIDE DEF N, S, b, More, F
<1>7. g \in [1 .. N -> [S -> S]]
  BY <1>3
<1>8. \A n \in 1 .. N : \A u \in S : g[n][u] = More(u)
  OBVIOUS
<1> HIDE DEF g
<1>9. PICK f \in [0 .. N -> S] : Iterates(f, b, g, N)
  BY <1>1, <1>2, <1>7, IteratesExist
<1>10. \A n \in 1 .. N : n \in 0 .. N /\ n - 1 \in 0 .. N /\ n # 0
  BY <1>1
<1>11. \A n \in 1 .. N : f[n] = More(f[n - 1])
  BY <1>8, <1>9, <1>10 DEF Iterates
<1>12. f = F(f)
  <2>1. \A n \in 0 .. N : n = 0 \/ n \in 1 .. N
    BY <1>1
  <2>2. \A n \in 0 .. N : f[n] = F(f)[n]
    BY <1>4, <1>9, <1>11, <2>1 DEF Iterates
  <2>3. QED
    BY <1>6, <2>2
<1>13. ASSUME NEW t, t = F(t) PROVE t[N] = f[N]
  <2> DEFINE T == {n \in 0 .. N : t[n] = f[n]}
  <2>1. 0 \in T
    BY <1>1, <1>4, <1>9, <1>13 DEF Iterates
  <2>2. ASSUME NEW n \in 1 .. N, n - 1 \in T PROVE n \in T
    <3>1. t[n] = More(t[n - 1])
      BY <1>4, <1>10, <1>13
    <3>2. QED
      BY <1>10, <1>11, <2>2, <3>1
  <2> HIDE DEF T
  <2>3. 0 .. N \subseteq T
    BY <1>1, <2>1, <2>2, NumbersUpTo
  <2>4. QED
    BY <1>1, <2>3 DEF T
<1>14. Redirections(s, disk) = f[N]
  BY <1>5, <1>12, <1>13
<1>15. f[N] \in S
  BY <1>1, <1>9
<1>16. QED
  BY <1>14, <1>15 DEF S

-----------------------------------------------------------------------------
(***************************************************************************)
(* Requests and error pages.                                               *)
(***************************************************************************)
\* What a request for uri, with this method, comes to.  Only a POST fails
\* without a code.
Answerable(s, r, uri, method) ==
  /\ r \in Routeds
  /\ r.handler.status = 0 /\ r.handler.method \in {method, "GET"}
  /\ ~r.ok => (r.code \in FailCodes /\ r.handler.error = r.code) \/ method = "POST"
  /\ r.handler.error = 0 \/ r.ok => Own(s, r.handler, uri)

LEMMA FailCode ==
  ASSUME NEW code \in FailCodes
  PROVE  code \in Statuses /\ code # 0 /\ code >= 300 /\ code >= 400
  BY KnownStatuses DEF FailCodes

LEMMA Refusal ==
  ASSUME NEW s, NEW h \in Handlers, h.status = 0, NEW uri, NEW method,
         h.method \in {method, "GET"}, NEW code \in FailCodes, NEW r, r = Routed([h EXCEPT !.error = code], FALSE, code)
  PROVE  Answerable(s, r, uri, method)
<1>1. code \in Statuses /\ code # 0
  BY FailCode
<1>2. PICK g \in Handlers : g = [h EXCEPT !.error = code]
  BY <1>1 DEF Handlers
<1>3. g.status = 0 /\ g.error = code /\ g.method \in {method, "GET"}
  BY <1>2 DEF Handlers
<1>4. r \in Routeds /\ r.handler = g /\ ~r.ok /\ r.code = code
  BY <1>1, <1>2 DEF Routed, Routeds
<1>5. QED
  BY <1>1, <1>3, <1>4 DEF Answerable

LEMMA RequestProcessed ==
  ASSUME NEW s, IsServer(s), NEW disk, NEW h \in Handlers, Fresh(h),
         NEW uri \in Paths, NEW method \in Methods,
         NEW r, r = processRequest(s, disk, h, uri, method)
  PROVE  Answerable(s, r, uri, method)
<1> DEFINE locs == findBestLocation(s, uri)
           loc == CHOOSE l \in locs : TRUE
           known == [h EXCEPT !.method = method, !.ret = ReturnOf(s, loc)]
           cgi == ExtractCgiMetadata(known, uri, loc.cgi)
           stored == [known EXCEPT !.store = loc.store, !.path = uri]
           sent == [cgi EXCEPT !.uri = uri]
           gone == handlePath(disk, loc, sent, uri, Redirections(s, disk))
<1>1. r = IF locs = {} THEN Routed([h EXCEPT !.error = 404], FALSE, 404)
          ELSE IF ~isMethodAllowed(method, loc)
            THEN Routed([h EXCEPT !.error = 403], FALSE, 403)
          ELSE IF known.ret.code # NoCode THEN Passed(known)
          ELSE IF method = "POST" /\ cgi.script = <<>>
            THEN IF loc.store THEN Passed(stored) ELSE Routed(known, FALSE, 0)
          ELSE Reported(gone)
  BY DEF processRequest
<1>2. {403, 404} \subseteq FailCodes /\ 0 \in Statuses /\ h.status = 0
        /\ h.method \in {method, "GET"}
  BY KnownStatuses DEF FailCodes, Fresh
<1>3. CASE locs = {}
  <2>1. r = Routed([h EXCEPT !.error = 404], FALSE, 404) /\ 404 \in FailCodes
    BY <1>1, <1>2, <1>3
  <2>2. QED
    BY <1>2, <2>1, Refusal DEF Routed
<1>4. CASE locs # {}
  <2>1. loc \in locs
    BY <1>4
  <2>2. loc \in Locations /\ ReturnOf(s, loc) \in Returns
    BY <2>1, BestTyped DEF locs
  <2> HIDE DEF locs, loc
  <2>3. known \in Handlers /\ known.method = method /\ known.status = 0
          /\ known.path = <<>> /\ known.script = <<>>
    BY <2>2 DEF Handlers, Fresh
  <2> HIDE DEF known
  <2>4. cgi \in Handlers /\ cgi.status = 0 /\ cgi.method = method
          /\ cgi.path = <<>> /\ (cgi.script = <<>> \/ cgi.cgi)
    BY <2>3, Extracted
  <2>5. CASE ~isMethodAllowed(method, loc)
    <3>1. r = Routed([h EXCEPT !.error = 403], FALSE, 403)
      BY <1>1, <1>4, <2>5 DEF Routed
    <3>2. 403 \in FailCodes
      BY <1>2
    <3>3. QED
      BY <1>2, <3>1, <3>2, Refusal DEF Routed
  <2>6. CASE isMethodAllowed(method, loc) /\ known.ret.code # NoCode
    <3>1. r = Passed(known)
      BY <1>1, <1>4, <2>6
    <3>2. r \in Routeds /\ r.handler = known /\ r.ok
      BY <1>2, <2>3, <3>1 DEF Passed, Routed, Routeds
    <3>3. Own(s, known, uri)
      BY <2>6 DEF Own
    <3>4. QED
      BY <2>3, <3>2, <3>3 DEF Answerable
  <2>7. CASE isMethodAllowed(method, loc) /\ known.ret.code = NoCode
             /\ method = "POST" /\ cgi.script = <<>>
    <3>1. stored \in Handlers /\ stored.status = 0 /\ stored.method = method
      BY <2>2, <2>3 DEF Handlers, Locations
    <3> HIDE DEF stored
    <3>2. r = IF loc.store THEN Passed(stored) ELSE Routed(known, FALSE, 0)
      BY <1>1, <1>4, <2>7
    <3>3. r \in Routeds /\ r.handler \in {stored, known}
      BY <1>2, <2>3, <3>1, <3>2 DEF Passed, Routed, Routeds
    <3>4. r.handler.status = 0 /\ r.handler.method = method
      BY <2>3, <3>1, <3>3
    <3>5. Own(s, r.handler, uri)
      BY <2>7, <3>4 DEF Own
    <3>6. QED
      BY <2>7, <3>3, <3>4, <3>5 DEF Answerable
  <2>8. CASE isMethodAllowed(method, loc) /\ known.ret.code = NoCode
             /\ ~(method = "POST" /\ cgi.script = <<>>)
    <3>1. sent \in Handlers /\ sent.status = 0 /\ sent.method = method
            /\ sent.path = <<>> /\ (sent.script = <<>> \/ sent.cgi)
      BY <2>4 DEF Handlers
    <3> HIDE DEF cgi, sent
    <3>2. Place(sent, loc, uri)
      BY <3>1 DEF Place
    <3>3. Redirections(s, disk) \in [Turns -> Redirecteds]
      BY AllRedirections
    <3>4. RoutedAs(gone, sent, loc, uri)
      BY <2>2, <3>1, <3>2, <3>3, PathHandled
    <3> HIDE DEF gone
    <3>5. r = Reported(gone)
      BY <1>1, <1>4, <2>8
    <3>6. CASE ~gone.ok
      <4>1. gone.code \in FailCodes /\ gone.handler \in Handlers /\ gone.handler.status = 0
              /\ gone.handler.method \in {method, "GET"}
        BY <3>1, <3>4, <3>6 DEF RoutedAs, Outcome, Routeds
      <4>2. r = Routed([gone.handler EXCEPT !.error = gone.code], FALSE, gone.code)
        BY <3>5, <3>6 DEF Reported
      <4>3. QED
        BY <4>1, <4>2, Refusal DEF Routed
    <3>7. CASE gone.ok
      <4>1. r = gone
        BY <3>5, <3>7 DEF Reported
      <4>2. r \in Routeds /\ r.handler.status = 0 /\ r.handler.method \in {method, "GET"}
              /\ Place(r.handler, loc, uri) /\ r.ok
        BY <3>1, <3>4, <3>7, <4>1 DEF RoutedAs, Outcome
      <4>3. Own(s, r.handler, uri)
        <5>1. CASE r.handler.method = "DELETE" /\ ~r.handler.cgi
          <6>1. method = "DELETE"
            BY <4>2, <5>1
          <6>2. "DELETE" \in loc.methods
            BY <2>8, <6>1 DEF isMethodAllowed
          <6>3. r.handler.path \in {<<>>, createPhysicalPath(loc, uri)}
            BY <4>2, <5>1 DEF Place
          <6>4. QED
            BY <2>1, <6>2, <6>3 DEF Own, locs
        <5>2. CASE ~(r.handler.method = "DELETE" /\ ~r.handler.cgi)
          BY <5>2 DEF Own
        <5>3. QED
          BY <5>1, <5>2
      <4>4. QED
        BY <4>2, <4>3 DEF Answerable
    <3>8. QED
      BY <3>6, <3>7
  <2>9. QED
    BY <2>5, <2>6, <2>7, <2>8
<1>5. QED
  BY <1>3, <1>4

\* The page of an error: the handler that serves it stays erroneous.
LEMMA PageFound ==
  ASSUME NEW s, IsServer(s), NEW disk, NEW h \in Handlers, h.status = 0,
         h.method = "GET", NEW code \in Statuses,
         NEW g, g = OrDefault(generateErrorPath(s, disk, h, code))
  PROVE  /\ g \in Handlers
         /\ g.method = "GET"
         /\ code >= 400 => Erroneous(s, g)
<1> DEFINE r == generateErrorPath(s, disk, h, code)
           page == s.pages[code]
           away == [h EXCEPT !.ret = [code |-> page.response, value |-> page.uri]]
           moved == internalRedirect(s, disk, h, page.uri)
           Final(x, c) == [x EXCEPT !.status = c]
<1>1. r = IF code \notin DOMAIN s.pages
            THEN Routed(finalizeErrorState(h, code, NoCode), FALSE, code)
          ELSE IF page.relative THEN Passed(away)
          ELSE PageRouted(moved, code, page.response)
  BY DEF generateErrorPath
<1>2. SUFFICES /\ r.handler \in Handlers /\ r.handler.method = "GET"
               /\ code >= 400 => Erroneous(s, r.handler)
  <2>1. g = r.handler \/ g = [r.handler EXCEPT !.default = TRUE]
    BY DEF OrDefault
  <2> HIDE DEF r
  <2>2. ASSUME r.handler \in Handlers PROVE
          /\ g \in Handlers /\ g.method = r.handler.method
          /\ g.status = r.handler.status /\ g.ret = r.handler.ret
    BY <2>1, <2>2 DEF Handlers
  <2>3. QED
    BY <2>2 DEF Erroneous
<1>3. ASSUME NEW x \in Handlers, NEW c \in Statuses
      PROVE  /\ Final(x, c) \in Handlers /\ Final(x, c).method = x.method
             /\ Final(x, c).status = c
  BY DEF Handlers
<1>4. CASE code \notin DOMAIN s.pages
  <2>1. finalizeErrorState(h, code, NoCode) = Final(h, code)
    BY DEF finalizeErrorState
  <2>2. r.handler = Final(h, code)
    BY <1>1, <1>4, <2>1 DEF Routed
  <2> HIDE DEF Final, r
  <2>3. r.handler \in Handlers /\ r.handler.method = "GET" /\ r.handler.status = code
    BY <1>3, <2>2
  <2>4. code >= 400 => code >= 300
    BY StatusesAreIntegers
  <2>5. QED
    BY <2>3, <2>4 DEF Erroneous
<1>5. CASE code \in DOMAIN s.pages /\ page.relative
  <2>1. IsPage(page)
    BY <1>5 DEF IsServer
  <2>2. page.uri \in Paths /\ page.response \in Away /\ page.response \in Statuses
    BY <1>5, <2>1 DEF IsPage, Away
  <2>3. [code |-> page.response, value |-> page.uri] \in Returns
    BY <2>2 DEF Returns
  <2>4. r.handler = away
    BY <1>1, <1>5 DEF Passed, Routed
  <2> HIDE DEF page, r
  <2>5. away \in Handlers /\ away.method = "GET" /\ away.status = 0
          /\ away.ret.code = page.response
    BY <2>3 DEF Handlers
  <2>6. QED
    BY <2>2, <2>4, <2>5 DEF Erroneous
<1>6. CASE code \in DOMAIN s.pages /\ ~page.relative
  <2>1. IsPage(page)
    BY <1>6 DEF IsServer
  <2>2. page.uri \in Paths /\ page.response \in Statuses
    BY <2>1 DEF IsPage
  <2>3. moved \in Redirecteds
    <3>1. Redirections(s, disk) \in [Turns -> Redirecteds]
      BY AllRedirections
    <3>2. [handler |-> h, uri |-> page.uri] \in Turns
      BY <2>2 DEF Turns
    <3>3. QED
      BY <3>1, <3>2 DEF internalRedirect
  <2> HIDE DEF moved
  <2>4. moved.handler \in Handlers /\ moved.handler.method = "GET"
          /\ (~moved.ok => moved.code \in FailCodes)
    BY <2>3 DEF Redirecteds, Routeds, Outcome
  <2> DEFINE plain == IF moved.ok THEN code ELSE moved.code
             c == IF page.response # NoCode THEN page.response ELSE plain
  <2>5. r.handler = Final(moved.handler, c)
    BY <1>1, <1>6 DEF PageRouted, Routed, finalizeErrorState
  <2>6. plain \in Statuses /\ (code >= 400 => plain >= 300)
    <3>1. CASE moved.ok
      <4>1. plain = code
        BY <3>1
      <4>2. code >= 400 => code >= 300
        BY StatusesAreIntegers
      <4> HIDE DEF plain
      <4>3. QED
        BY <4>1, <4>2
    <3>2. CASE ~moved.ok
      BY <2>4, <3>2, FailCode
    <3>3. QED
      BY <3>1, <3>2
  <2>7. c \in Statuses
    BY <2>2, <2>6
  <2>8. code >= 400 => c >= 300 \/ PageCode(s, c)
    BY <1>6, <2>6 DEF PageCode
  <2> HIDE DEF c, r, Final
  <2>9. r.handler \in Handlers /\ r.handler.method = "GET" /\ r.handler.status = c
    BY <1>3, <2>4, <2>5, <2>7
  <2>10. QED
    BY <2>8, <2>9 DEF Erroneous
<1>7. QED
  BY <1>4, <1>5, <1>6

-----------------------------------------------------------------------------
(***************************************************************************)
(* The heads of answers.                                                   *)
(***************************************************************************)
Framed(r) ==
  r.head.framing = "chunked" <=> bodyPlace(r) \in {"DISK", "AUTO_INDEX"}

LEMMA CodesTyped ==
  {0, 200, 201, 204, 403, 404, 500} \cup Away \subseteq Statuses
  BY KnownStatuses DEF Away

\* q is r but for its head.
SameBut(q, r) ==
  q.mod = r.mod /\ q.status = r.status /\ q.file = r.file /\ q.redirect = r.redirect

LEMMA Bodies ==
  /\ \A p \in Paths : p # CgiBody
  /\ Default # CgiBody /\ Text # CgiBody /\ <<>> # CgiBody
<1>1. ASSUME NEW p \in Paths PROVE p # CgiBody
  <2> SUFFICES ASSUME p = CgiBody PROVE FALSE
    OBVIOUS
  <2>1. Len(p) = 1 /\ p[1] = "output"
    BY DEF CgiBody
  <2>2. p[1] \in Names
    <3>1. p \in Seq(Names) /\ 1 \in 1 .. Len(p)
      BY <2>1 DEF Paths
    <3>2. QED
      BY ONLY <3>1, ElementOfSeq
  <2>3. QED
    BY <2>1, <2>2, ResponseAssumption
<1>2. Default[1] # CgiBody[1] /\ Text[1] # CgiBody[1]
  BY DEF Default, CgiBody, Text
<1>3. QED
  BY <1>1, <1>2, EmptyPath

LEMMA PageHeadMade ==
  ASSUME NEW r \in Responses, NEW status \in Statuses, NEW keeps \in BOOLEAN,
         NEW chunked \in BOOLEAN, NEW q, q = PageHead(r, status, keeps, chunked)
  PROVE  /\ q \in Responses /\ SameBut(q, r) /\ q.body = r.body
         /\ q.head.status = status
         /\ q.head.keep = q.keep
         /\ status # 404 => q.keep = keeps
         /\ q.head.framing = "chunked" <=> chunked
         /\ q.head.framing # "none"
<1> DEFINE keep == keeps \/ status = 404
           framing == IF chunked THEN "chunked" ELSE "length"
           head == [status |-> status, keep |-> keep, framing |-> framing]
<1>1. keep \in BOOLEAN /\ framing \in {"length", "chunked"}
        /\ (framing = "chunked" <=> chunked) /\ (status # 404 => keep = keeps)
  OBVIOUS
<1> HIDE DEF keep, framing
<1>2. head \in [status: Statuses, keep: BOOLEAN, framing: {"none", "length", "chunked"}]
  BY <1>1
<1>3. q = [r EXCEPT !.keep = keep, !.head = head]
  BY DEF PageHead, keep, framing
<1>4. head.status = status /\ head.keep = keep /\ head.framing = framing
        /\ head.framing # "none"
  BY <1>1
<1> HIDE DEF head
<1>5. q \in Responses /\ SameBut(q, r) /\ q.body = r.body
  BY <1>1, <1>2, <1>3 DEF Responses, SameBut
<1>6. q.head = head /\ q.keep = keep
  BY <1>3 DEF Responses
<1>7. QED
  BY <1>1, <1>4, <1>5, <1>6

\* The page of a listing that could not be begun: see BrokenListing.
Broken(q, r) ==
  /\ q.head.status = 500 /\ "AUTOINDEX" \in r.mod /\ r.mod \ {"ERROR"} \subseteq q.mod
  /\ q.head.framing = "length" /\ q.body = Default

\* What answers an error, from r.
Paged(q, r, keeps) ==
  /\ q \in Responses /\ q.redirect = r.redirect /\ q.body # CgiBody
  /\ q.mod \subseteq r.mod \cup {"CHUNK", "AUTOINDEX"} /\ "ERROR" \notin q.mod
  /\ q.head.keep = q.keep
  /\ q.head.status # 404 => q.keep = keeps
  /\ q.head.status \in {r.status, 404, 500}
  /\ "INTERNALRE" \in r.mod \/ q.mod \subseteq r.mod
  /\ "AUTOINDEX" \notin r.mod => Framed(q)
  /\ "AUTOINDEX" \in r.mod => Broken(q, r)

LEMMA DefaultPageMade ==
  ASSUME NEW r \in Responses, "ERROR" \notin r.mod, NEW status \in {r.status, 404, 500},
         NEW keeps \in BOOLEAN, NEW q, q = DefaultPage(r, status, keeps),
         "AUTOINDEX" \in r.mod => status = 500
  PROVE  Paged(q, r, keeps)
<1> DEFINE page == [r EXCEPT !.file = <<>>, !.body = Default]
<1>1. page \in Responses /\ page.mod = r.mod /\ page.file = <<>> /\ page.body = Default
        /\ page.redirect = r.redirect
  BY EmptyPath DEF Responses, Texts
<1>2. status \in Statuses
  <2>1. r.status \in Statuses
    BY DEF Responses
  <2>2. QED
    BY <2>1, CodesTyped
<1>3. PICK no \in BOOLEAN : ~no /\ q = PageHead(page, status, keeps, no)
  BY DEF DefaultPage
<1> HIDE DEF page
<1>4. /\ q \in Responses /\ SameBut(q, page) /\ q.body = page.body
      /\ q.head.status = status
      /\ q.head.keep = q.keep
      /\ status # 404 => q.keep = keeps
      /\ ~(q.head.framing = "chunked") /\ q.head.framing # "none"
  BY <1>1, <1>2, <1>3, PageHeadMade
<1>5. q.mod = r.mod /\ q.file = <<>> /\ q.redirect = r.redirect /\ q.body = Default
  BY <1>1, <1>4 DEF SameBut
<1>6. "AUTOINDEX" \notin r.mod => Framed(q)
  BY <1>4, <1>5 DEF Framed, bodyPlace
<1>7. q.body # CgiBody
  BY <1>5, Bodies
<1>8. ASSUME "AUTOINDEX" \in r.mod PROVE Broken(q, r)
  <2>1. r.mod \ {"ERROR"} \subseteq q.mod
    BY <1>5
  <2>2. q.head.framing = "length"
    BY <1>4 DEF Responses
  <2>3. QED
    BY <1>4, <1>5, <1>8, <2>1, <2>2 DEF Broken
<1>9. QED
  BY <1>4, <1>5, <1>6, <1>7, <1>8 DEF Paged

LEMMA AutoIndexMade ==
  ASSUME NEW r \in Responses, NEW io \in Outcomes, NEW q, q = InitialAutoIndex(r, io)
  PROVE  /\ q \in Responses /\ q.file = r.file /\ q.body = r.body
         /\ q.redirect = r.redirect /\ q.head = r.head
         /\ q.mod = r.mod \cup {"CHUNK", "AUTOINDEX"}
                      \cup (IF io = "done" THEN {} ELSE {"ERROR"})
         /\ q.status = IF io = "done" THEN r.status ELSE IF io = "fails" THEN 404 ELSE 500
<1> DEFINE listing == [r EXCEPT !.mod = @ \cup {"CHUNK", "AUTOINDEX"}]
           code == IF io = "fails" THEN 404 ELSE 500
           coded == [listing EXCEPT !.status = code]
<1>1. listing \in Responses /\ listing.file = r.file /\ listing.body = r.body
        /\ listing.redirect = r.redirect /\ listing.head = r.head
        /\ listing.mod = r.mod \cup {"CHUNK", "AUTOINDEX"} /\ listing.status = r.status
  BY DEF Responses, Mods
<1>2. q = IF io = "done" THEN listing ELSE [coded EXCEPT !.mod = @ \cup {"ERROR"}]
  BY DEF InitialAutoIndex, With
<1>3. code \in Statuses
  BY CodesTyped
<1> HIDE DEF listing, code
<1>4. CASE io = "done"
  BY <1>1, <1>2, <1>4
<1>5. CASE io # "done"
  <2>1. coded \in Responses /\ coded.file = r.file /\ coded.body = r.body
          /\ coded.redirect = r.redirect /\ coded.head = r.head
          /\ coded.mod = r.mod \cup {"CHUNK", "AUTOINDEX"} /\ coded.status = code
    BY <1>1, <1>3 DEF Responses
  <2> HIDE DEF coded
  <2>2. q \in Responses /\ q.file = r.file /\ q.body = r.body
          /\ q.redirect = r.redirect /\ q.head = r.head
          /\ q.mod = coded.mod \cup {"ERROR"} /\ q.status = code
    BY <1>2, <1>5, <2>1 DEF Responses, Mods
  <2>3. q.mod = r.mod \cup {"CHUNK", "AUTOINDEX"} \cup {"ERROR"}
    BY <2>1, <2>2
  <2>4. QED
    BY <1>5, <2>2, <2>3 DEF code
<1>6. QED
  BY <1>4, <1>5

LEMMA ResponseErrorMade ==
  ASSUME NEW r \in Responses, {"ERROR", "AUTOINDEX"} \cap r.mod = {},
         r.body = <<>>, NEW h \in Handlers, NEW keeps \in BOOLEAN,
         NEW io \in Outcomes, NEW q, q = ResponseError(r, h, keeps, io)
  PROVE  Paged(q, r, keeps)
<1>1. q = IF h.path = <<>> THEN DefaultPage(r, r.status, keeps)
          ELSE IF h.size = "big"
            THEN PageHead([r EXCEPT !.file = h.path], r.status, keeps, TRUE)
          ELSE IF io = "done"
            THEN PageHead([r EXCEPT !.file = <<>>, !.body = h.path], r.status, keeps, FALSE)
          ELSE DefaultPage(r, 500, keeps)
  BY DEF ResponseError
<1>2. h.path \in Paths
  BY DEF Handlers
<1>3. r.status \in Statuses
  BY DEF Responses
<1>4. CASE h.path = <<>> \/ (h.size # "big" /\ io # "done")
  <2>1. PICK status \in {r.status, 404, 500} : q = DefaultPage(r, status, keeps)
    <3>1. CASE h.path = <<>>
      BY <1>1, <3>1
    <3>2. CASE h.path # <<>>
      BY <1>1, <1>4, <3>2
    <3>3. QED
      BY <3>1, <3>2
  <2>2. QED
    BY <2>1, DefaultPageMade
<1>5. CASE h.path # <<>> /\ h.size = "big"
  <2>1. PICK page : page = [r EXCEPT !.file = h.path]
    OBVIOUS
  <2>2. page \in Responses /\ page.mod = r.mod /\ page.file = h.path
          /\ page.body = <<>> /\ page.redirect = r.redirect
    BY <1>2, <2>1 DEF Responses, Texts
  <2>3. PICK yes \in BOOLEAN : yes /\ q = PageHead(page, r.status, keeps, yes)
    BY <1>1, <1>5, <2>1
  <2>4. /\ q \in Responses /\ SameBut(q, page) /\ q.body = page.body
        /\ q.head.status = r.status
        /\ q.head.keep = q.keep
        /\ r.status # 404 => q.keep = keeps
        /\ q.head.framing = "chunked" <=> yes
    <3>1. PICK status \in Statuses : status = r.status
      BY <1>3
    <3>2. page \in Responses /\ q = PageHead(page, status, keeps, yes)
      BY <2>2, <2>3, <3>1
    <3>3. /\ q \in Responses /\ SameBut(q, page) /\ q.body = page.body
          /\ q.head.status = status
          /\ q.head.keep = q.keep
          /\ status # 404 => q.keep = keeps
          /\ q.head.framing = "chunked" <=> yes
      BY <3>2, PageHeadMade
    <3>4. QED
      BY <3>1, <3>3
  <2>5. q.mod = r.mod /\ q.file = h.path /\ q.redirect = r.redirect /\ q.body = <<>>
    BY <2>2, <2>4 DEF SameBut
  <2>6. Framed(q)
    BY <1>5, <2>3, <2>4, <2>5 DEF Framed, bodyPlace
  <2>7. q.body # CgiBody
    BY <2>5, Bodies
  <2>8. QED
    BY <2>4, <2>5, <2>6, <2>7 DEF Paged
<1>6. CASE h.path # <<>> /\ h.size # "big" /\ io = "done"
  <2>1. PICK page : page = [r EXCEPT !.file = <<>>, !.body = h.path]
    OBVIOUS
  <2>2. page \in Responses /\ page.mod = r.mod /\ page.file = <<>>
          /\ page.body = h.path /\ page.redirect = r.redirect
    BY <1>2, <2>1, EmptyPath DEF Responses, Texts
  <2>3. PICK no \in BOOLEAN : ~no /\ q = PageHead(page, r.status, keeps, no)
    BY <1>1, <1>6, <2>1
  <2>4. /\ q \in Responses /\ SameBut(q, page) /\ q.body = page.body
        /\ q.head.status = r.status
        /\ q.head.keep = q.keep
        /\ r.status # 404 => q.keep = keeps
        /\ ~(q.head.framing = "chunked")
    BY <1>3, <2>2, <2>3, PageHeadMade
  <2>5. q.mod = r.mod /\ q.file = <<>> /\ q.redirect = r.redirect /\ q.body = h.path
    BY <2>2, <2>4 DEF SameBut
  <2>6. Framed(q)
    BY <2>4, <2>5 DEF Framed, bodyPlace
  <2>7. q.body # CgiBody
    BY <1>2, <2>5, Bodies
  <2>8. QED
    BY <2>4, <2>5, <2>6, <2>7 DEF Paged
<1>7. QED
  BY <1>4, <1>5, <1>6

\* An error that is answered: the page it was routed to, or a 500.
LEMMA ErrorMade ==
  ASSUME NEW r \in Responses, "ERROR" \in r.mod,
         \/ r.status = 500
         \/ r.mod = {"ERROR", "INTERNALRE"} /\ r.body = <<>>,
         NEW h \in Handlers, NEW keeps \in BOOLEAN, NEW io \in Outcomes,
         NEW q, q = ErrorRespnseHandling(r, h, keeps, io)
  PROVE  Paged(q, r, keeps)
<1> DEFINE calm == [r EXCEPT !.mod = @ \ {"ERROR"}]
           listing == InitialAutoIndex(calm, io)
           broken == [listing EXCEPT !.mod = @ \ {"AUTOINDEX", "ERROR"}]
           bare == [listing EXCEPT !.file = <<>>]
<1>1. calm \in Responses /\ calm.mod = r.mod \ {"ERROR"} /\ calm.status = r.status
        /\ calm.body = r.body /\ calm.redirect = r.redirect
  BY DEF Responses
<1>2. q = IF h.default \/ r.status = 500 THEN DefaultPage(calm, r.status, keeps)
          ELSE IF ~h.autoindex THEN ResponseError(calm, h, keeps, io)
          ELSE IF io = "done" THEN PageHead(bare, r.status, keeps, TRUE)
          ELSE DefaultPage(broken, broken.status, keeps)
  <2>1. AnswersNow(r)
    BY DEF AnswersNow
  <2>2. QED
    BY <2>1 DEF ErrorRespnseHandling
<1>3. Paged(q, calm, keeps) => Paged(q, r, keeps)
  <2> HIDE DEF calm
  <2>1. calm.mod \subseteq r.mod /\ calm.mod \ {"ERROR"} = r.mod \ {"ERROR"}
    BY <1>1
  <2>2. /\ Broken(q, calm) => Broken(q, r)
        /\ "INTERNALRE" \in calm.mod => "INTERNALRE" \in r.mod
        /\ "AUTOINDEX" \in r.mod => "AUTOINDEX" \in calm.mod
    BY <1>1, <2>1 DEF Broken
  <2>3. q.mod \subseteq calm.mod \cup {"CHUNK", "AUTOINDEX"} =>
          q.mod \subseteq r.mod \cup {"CHUNK", "AUTOINDEX"}
    BY <2>1
  <2>4. q.mod \subseteq calm.mod => q.mod \subseteq r.mod
    BY <2>1
  <2>5. QED
    BY <1>1, <2>1, <2>2, <2>3, <2>4 DEF Paged
<1> HIDE DEF calm
<1>4. CASE h.default \/ r.status = 500
  <2>1. PICK status \in {calm.status, 404, 500} :
          status = r.status /\ q = DefaultPage(calm, status, keeps)
    BY <1>1, <1>2, <1>4
  <2>2. "ERROR" \notin calm.mod /\ ("AUTOINDEX" \in calm.mod => status = 500)
    BY <1>1, <2>1
  <2>3. Paged(q, calm, keeps)
    BY <1>1, <2>1, <2>2, DefaultPageMade
  <2>4. QED
    BY <1>3, <2>3
<1>5. CASE ~(h.default \/ r.status = 500) /\ ~h.autoindex
  <2>1. calm.body = <<>> /\ {"ERROR", "AUTOINDEX"} \cap calm.mod = {}
    BY <1>1, <1>5
  <2>2. q = ResponseError(calm, h, keeps, io)
    BY <1>2, <1>5
  <2>3. Paged(q, calm, keeps)
    BY <1>1, <2>1, <2>2, ResponseErrorMade
  <2>4. QED
    BY <1>3, <2>3
<1>6. CASE ~(h.default \/ r.status = 500) /\ h.autoindex
  <2>1. r.mod = {"ERROR", "INTERNALRE"} /\ calm.body = <<>> /\ r.body = <<>>
    BY <1>1, <1>6
  <2>2. /\ listing \in Responses /\ listing.body = <<>>
        /\ listing.redirect = r.redirect
        /\ listing.mod = calm.mod \cup {"CHUNK", "AUTOINDEX"}
                           \cup (IF io = "done" THEN {} ELSE {"ERROR"})
        /\ listing.status = IF io = "done" THEN r.status
                            ELSE IF io = "fails" THEN 404 ELSE 500
    BY <1>1, <2>1, AutoIndexMade
  <2> HIDE DEF listing
  <2>3. CASE io = "done"
    <3>1. bare \in Responses /\ bare.mod = listing.mod /\ bare.body = <<>>
            /\ bare.redirect = r.redirect
      BY <2>2, EmptyPath DEF Responses, Texts
    <3>2. PICK yes \in BOOLEAN : yes /\ q = PageHead(bare, r.status, keeps, yes)
      BY <1>2, <1>6, <2>3
    <3>3. PICK status \in Statuses : status = r.status
      BY DEF Responses
    <3> HIDE DEF bare
    <3>4. /\ q \in Responses /\ SameBut(q, bare) /\ q.body = bare.body
          /\ q.head.status = status
          /\ q.head.keep = q.keep
          /\ status # 404 => q.keep = keeps
          /\ q.head.framing = "chunked" <=> yes
      <4>1. bare \in Responses /\ q = PageHead(bare, status, keeps, yes)
        BY <3>1, <3>2, <3>3
      <4>2. QED
        BY <4>1, PageHeadMade
    <3>5. q.mod = listing.mod /\ q.redirect = r.redirect /\ q.body = <<>>
      BY <3>1, <3>4 DEF SameBut
    <3>6. q.mod = (r.mod \ {"ERROR"}) \cup {"CHUNK", "AUTOINDEX"}
      <4>1. listing.mod = calm.mod \cup {"CHUNK", "AUTOINDEX"}
        BY <2>2, <2>3
      <4>2. QED
        BY <1>1, <3>5, <4>1
    <3>7. Framed(q)
      <4>1. "AUTOINDEX" \in q.mod /\ q.head.framing = "chunked"
        BY <3>2, <3>4, <3>6
      <4>2. QED
        BY <4>1 DEF Framed, bodyPlace
    <3>8. q.body # CgiBody
      BY <3>5, Bodies
    <3>9. q.mod \subseteq r.mod \cup {"CHUNK", "AUTOINDEX"} /\ "ERROR" \notin q.mod
      BY <3>6
    <3>10. QED
      BY <2>1, <3>3, <3>4, <3>5, <3>7, <3>8, <3>9 DEF Paged
  <2>4. CASE io # "done"
    <3>1. broken \in Responses /\ broken.mod = listing.mod \ {"AUTOINDEX", "ERROR"}
            /\ broken.redirect = r.redirect /\ broken.status \in {404, 500}
      BY <2>2, <2>4 DEF Responses
    <3>2. PICK status \in {broken.status, 404, 500} :
            status = broken.status /\ q = DefaultPage(broken, status, keeps)
      BY <1>2, <1>6, <2>4
    <3> HIDE DEF broken
    <3>3. "ERROR" \notin broken.mod /\ "AUTOINDEX" \notin broken.mod
      BY <3>1
    <3>4. Paged(q, broken, keeps)
      BY <3>1, <3>2, <3>3, DefaultPageMade
    <3>5. broken.mod \subseteq r.mod \cup {"CHUNK"}
      BY <1>1, <2>2, <3>1
    <3>6. q.mod \subseteq r.mod \cup {"CHUNK", "AUTOINDEX"} /\ "ERROR" \notin q.mod
      BY <3>4, <3>5 DEF Paged
    <3>7. Framed(q)
      BY <3>3, <3>4 DEF Paged
    <3>8. q.head.status \in {404, 500} /\ q.redirect = r.redirect
      BY <3>1, <3>4 DEF Paged
    <3>9. QED
      BY <2>1, <3>4, <3>6, <3>7, <3>8 DEF Paged
  <2>5. QED
    BY <2>3, <2>4
<1>7. QED
  BY <1>4, <1>5, <1>6

\* What InitialHeaders makes of r: a head, or the end of the connection.
Headed(q, r, closing) ==
  /\ q \in Responses /\ SameBut(q, r)
  /\ \/ q.head = r.head
     \/ /\ q.head.status = r.status /\ q.keep = ~closing /\ q.head.keep = q.keep
        /\ q.head.framing = "chunked" <=> "CHUNK" \in r.mod

LEMMA HeadersMade ==
  ASSUME NEW r \in Responses, NEW h, NEW closing \in BOOLEAN,
         NEW q, q = InitialHeaders(r, h, closing)
  PROVE  Headed(q, r, closing)
<1> DEFINE away == "REDIRECTION" \in r.mod
           moved == r.status \in {301, 302, 303, 307, 308}
           framing == IF "CHUNK" \in r.mod THEN "chunked"
                      ELSE IF "DELETE" \in r.mod THEN "none" ELSE "length"
           body == IF away /\ ~moved THEN Text ELSE r.body
           no == ~closing
           head == [status |-> r.status, keep |-> no, framing |-> framing]
           ended == away /\ r.status = 444 /\ h.ret.value = <<>>
<1>1. CASE ended
  <2>1. q = [r EXCEPT !.keep = FALSE]
    BY <1>1 DEF InitialHeaders
  <2>2. q \in Responses /\ SameBut(q, r) /\ q.head = r.head
    BY <2>1 DEF Responses, SameBut
  <2>3. QED
    BY <2>2 DEF Headed
<1>2. CASE ~ended
  <2>1. q = [r EXCEPT !.keep = no, !.body = body, !.head = head]
    BY <1>2 DEF InitialHeaders
  <2>2. no \in BOOLEAN /\ framing \in {"none", "length", "chunked"}
          /\ (framing = "chunked" <=> "CHUNK" \in r.mod)
    OBVIOUS
  <2>3. r.status \in Statuses
    BY DEF Responses
  <2>4. body \in Texts
    BY DEF Responses, Texts
  <2> HIDE DEF no, framing, body
  <2>5. head \in [status: Statuses, keep: BOOLEAN, framing: {"none", "length", "chunked"}]
          /\ head.status = r.status /\ head.keep = no /\ head.framing = framing
    BY <2>2, <2>3
  <2> HIDE DEF head
  <2>6. q \in Responses /\ SameBut(q, r)
    BY <2>1, <2>2, <2>4, <2>5 DEF Responses, SameBut
  <2>7. q.head = head /\ q.keep = no
    BY <2>1 DEF Responses
  <2>8. q.keep = ~closing
    BY <2>7 DEF no
  <2>9. QED
    BY <2>2, <2>5, <2>6, <2>7, <2>8 DEF Headed
<1>3. QED
  BY <1>1, <1>2

\* What a part makes of a new response r, before its head.
Parted(q, r) ==
  /\ q \in Responses /\ q.redirect = NoRedirect /\ q.head = NoHead
  /\ r.mod \subseteq q.mod /\ q.mod \subseteq r.mod \cup {"CHUNK", "AUTOINDEX", "ERROR"}
  /\ "AUTOINDEX" \in q.mod => "GET" \in r.mod
  /\ "ERROR" \notin q.mod =>
       /\ q.status = r.status
       /\ "CHUNK" \in q.mod <=> "AUTOINDEX" \in q.mod \/ q.file # <<>>

\* Nothing is in it but the part and the status it starts from.
New(r) ==
  /\ r \in Responses /\ r.redirect = NoRedirect /\ r.head = NoHead
  /\ r.file = <<>> /\ r.body = <<>>

LEMMA ListingParted ==
  ASSUME NEW r, New(r), r.mod = {"GET"}, NEW io \in Outcomes,
         NEW q, q = InitialAutoIndex(r, io)
  PROVE  Parted(q, r)
<1>1. /\ q \in Responses /\ q.file = r.file /\ q.redirect = r.redirect /\ q.head = r.head
      /\ q.mod = r.mod \cup {"CHUNK", "AUTOINDEX"}
                   \cup (IF io = "done" THEN {} ELSE {"ERROR"})
      /\ q.status = IF io = "done" THEN r.status ELSE IF io = "fails" THEN 404 ELSE 500
  BY AutoIndexMade DEF New
<1>2. "ERROR" \notin q.mod => io = "done"
  BY <1>1
<1>3. QED
  BY <1>1, <1>2 DEF Parted, New

LEMMA FileParted ==
  ASSUME NEW r, New(r), r.mod = {"GET"}, NEW h \in Handlers, NEW io \in Outcomes,
         NEW q, q = StoredInFileOrStr(r, h, io)
  PROVE  Parted(q, r)
<1>1. h.path \in Paths
  BY DEF Handlers
<1>2. CASE h.path = <<>>
  <2>1. q = [r EXCEPT !.file = <<>>]
    BY <1>2 DEF StoredInFileOrStr
  <2>2. q \in Responses /\ q.redirect = r.redirect /\ q.head = r.head
          /\ q.mod = r.mod /\ q.status = r.status /\ q.file = <<>>
    BY <2>1, EmptyPath DEF New, Responses, Texts
  <2>3. QED
    BY <2>2 DEF Parted, New
<1>3. CASE h.path # <<>> /\ h.size = "big"
  <2>1. q = [[r EXCEPT !.file = h.path] EXCEPT !.mod = @ \cup {"CHUNK"}]
    BY <1>3 DEF StoredInFileOrStr, With
  <2>2. q \in Responses /\ q.redirect = r.redirect /\ q.head = r.head
          /\ q.mod = r.mod \cup {"CHUNK"} /\ q.status = r.status /\ q.file = h.path
    <3>1. PICK p : p = [r EXCEPT !.file = h.path]
      OBVIOUS
    <3>2. p \in Responses /\ p.redirect = r.redirect /\ p.head = r.head
            /\ p.mod = r.mod /\ p.status = r.status /\ p.file = h.path
      BY <1>1, <3>1 DEF New, Responses, Texts
    <3>3. q = [p EXCEPT !.mod = @ \cup {"CHUNK"}]
      BY <2>1, <3>1
    <3>4. q \in Responses /\ q.redirect = p.redirect /\ q.head = p.head
            /\ q.mod = p.mod \cup {"CHUNK"} /\ q.status = p.status /\ q.file = p.file
      BY <3>2, <3>3 DEF Responses, Mods
    <3>5. QED
      BY <3>2, <3>4
  <2>3. QED
    BY <1>3, <2>2 DEF Parted, New
<1>4. CASE h.path # <<>> /\ h.size # "big" /\ io # "done"
  <2> DEFINE same == [r EXCEPT !.file = h.path]
             coded == [r EXCEPT !.file = h.path, !.status = 500]
  <2>1. PICK p \in {same, coded} : q = [p EXCEPT !.mod = @ \cup {"ERROR"}]
    BY <1>4 DEF StoredInFileOrStr, With, Outcomes
  <2>2. p \in Responses /\ p.redirect = r.redirect /\ p.head = r.head /\ p.mod = r.mod
    <3>1. 500 \in Statuses /\ r \in Responses /\ h.path \in Texts
      BY <1>1, CodesTyped DEF New, Texts
    <3>2. CASE p = same
      BY <3>1, <3>2 DEF Responses
    <3>3. CASE p = coded
      <4>1. p = [same EXCEPT !.status = 500]
        BY <3>3 DEF Responses
      <4>2. same \in Responses /\ same.redirect = r.redirect /\ same.head = r.head
              /\ same.mod = r.mod
        BY <3>1 DEF Responses
      <4> HIDE DEF same, coded
      <4>3. QED
        BY <3>1, <4>1, <4>2 DEF Responses
    <3>4. QED
      BY <3>2, <3>3
  <2> HIDE DEF same, coded
  <2>3. q \in Responses /\ q.redirect = r.redirect /\ q.head = r.head
          /\ q.mod = r.mod \cup {"ERROR"}
    BY <2>1, <2>2 DEF Responses, Mods
  <2>4. QED
    BY <2>3 DEF Parted, New
<1>5. CASE h.path # <<>> /\ h.size # "big" /\ io = "done"
  <2>1. q = [r EXCEPT !.file = <<>>, !.body = h.path]
    BY <1>5 DEF StoredInFileOrStr
  <2>2. q \in Responses /\ q.redirect = r.redirect /\ q.head = r.head
          /\ q.mod = r.mod /\ q.status = r.status /\ q.file = <<>>
    BY <1>1, <2>1, EmptyPath DEF New, Responses, Texts
  <2>3. QED
    BY <2>2 DEF Parted, New
<1>6. QED
  BY <1>2, <1>3, <1>4, <1>5

LEMMA DeleteParted ==
  ASSUME NEW r, New(r), r.mod = {"DELETE"}, NEW io \in Outcomes,
         NEW q, q = DeleteResource(r, io)
  PROVE  Parted(q, r)
<1>1. CASE io = "done"
  BY <1>1 DEF DeleteResource, Parted, New
<1>2. CASE io # "done"
  <2>1. q = [[r EXCEPT !.status = 403] EXCEPT !.mod = @ \cup {"ERROR"}]
    BY <1>2 DEF DeleteResource, With
  <2>2. q \in Responses /\ q.redirect = r.redirect /\ q.head = r.head
          /\ q.mod = r.mod \cup {"ERROR"}
    <3>1. PICK p : p = [r EXCEPT !.status = 403]
      OBVIOUS
    <3>2. p \in Responses /\ p.redirect = r.redirect /\ p.head = r.head /\ p.mod = r.mod
      BY <3>1, CodesTyped DEF New, Responses
    <3>3. q = [p EXCEPT !.mod = @ \cup {"ERROR"}]
      BY <2>1, <3>1
    <3>4. QED
      BY <3>2, <3>3 DEF Responses, Mods
  <2>3. QED
    BY <2>2 DEF Parted, New
<1>3. QED
  BY <1>1, <1>2

-----------------------------------------------------------------------------
(***************************************************************************)
(* An answer made by one turn: q, from the handler h.                      *)
(***************************************************************************)
Begun(h) == [NewResponse EXCEPT !.mod = Part(h).mod, !.status = Part(h).status]

Ready(q) == "ERROR" \notin q.mod /\ q.head # NoHead

Framing(q, h) ==
  \/ Framed(q) /\ ~(q.head.status = 500 /\ {"GET", "AUTOINDEX"} \subseteq q.mod)
  \/ /\ q.head.status = 500 /\ {"GET", "AUTOINDEX"} \subseteq q.mod
     /\ q.head.framing = "length" /\ q.body = Default
     /\ h.autoindex /\ h.status = 0

Keeping(q, h, closing, keeps) ==
  /\ q.keep = q.head.keep
  /\ closing /\ q.head.status < 300 /\ h.status = 0 => ~q.keep
  /\ "REDIRECTION" \notin q.mod /\ q.head.status \in 400 .. 599
       /\ q.head.status # 404 => q.keep = keeps /\ q.body # CgiBody

Failing(s, q, h) ==
  Erroneous(s, h) =>
    \/ q.head.status >= 300
    \/ PageCode(s, h.status) /\ h.status \in {0, q.head.status}

Removing(q, h) ==
  "DELETE" \in q.mod => h.method = "DELETE" /\ h.status = 0 /\ h.ret.code = NoCode

Replied(s, q, h, closing, keeps) ==
  /\ q \in Responses /\ q.redirect = NoRedirect
  /\ Removing(q, h)
  /\ Ready(q) => Framing(q, h) /\ Keeping(q, h, closing, keeps) /\ Failing(s, q, h)

LEMMA NewTyped == New(NewResponse) /\ NewResponse \in Responses
<1>1. NoHead \in [status: Statuses, keep: BOOLEAN, framing: {"none", "length", "chunked"}]
  BY CodesTyped DEF NoHead
<1>2. NoRedirect \in [uri: Paths, code: Statuses]
  BY EmptyPath, CodesTyped DEF NoRedirect
<1>3. <<>> \in Texts /\ 0 \in Statuses
  BY EmptyPath, CodesTyped DEF Texts
<1>4. NewResponse \in Responses
  BY <1>1, <1>2, <1>3 DEF NewResponse, Responses
<1>5. QED
  BY <1>4 DEF New, NewResponse

LEMMA BegunNew ==
  ASSUME NEW h \in Handlers
  PROVE  /\ New(Begun(h)) /\ Begun(h).mod = Part(h).mod /\ Begun(h).status = Part(h).status
         /\ Part(h).status \in Statuses
<1>1. Part(h).mod \in SUBSET Mods /\ Part(h).status \in Statuses
  <2>1. h.status \in Statuses /\ h.ret.code \in Statuses /\ h.method \in Methods
    BY DEF Handlers, Returns
  <2>2. 200 \in Statuses /\ 201 \in Statuses /\ 204 \in Statuses
    BY CodesTyped
  <2>3. QED
    BY <2>1, <2>2 DEF Part, Mods, Methods
<1>2. New(NewResponse)
  BY NewTyped
<1>3. QED
  BY <1>1, <1>2 DEF Begun, New, Responses

LEMMA ErrorReplied ==
  ASSUME NEW s, NEW h \in Handlers, h.status # 0, NEW closing \in BOOLEAN,
         NEW keeps \in BOOLEAN, NEW io \in Outcomes,
         NEW q, q = MakeResponse(Begun(h), h, closing, keeps, io)
  PROVE  Replied(s, q, h, closing, keeps)
<1>1. PICK r : r = Begun(h)
  OBVIOUS
<1>2. New(r) /\ r.mod = {"ERROR", "INTERNALRE"} /\ r.status = h.status
  BY <1>1, BegunNew DEF Part
<1>3. q = ErrorRespnseHandling(r, h, keeps, io)
  BY <1>1, <1>2 DEF MakeResponse
<1>4. Paged(q, r, keeps)
  BY <1>2, <1>3, ErrorMade DEF New
<1>5. q.mod \subseteq {"ERROR", "INTERNALRE", "CHUNK", "AUTOINDEX"}
  BY <1>2, <1>4 DEF Paged
<1>6. q \in Responses /\ q.redirect = NoRedirect /\ q.body # CgiBody
  BY <1>2, <1>4 DEF Paged, New
<1>7. Framing(q, h)
  BY <1>2, <1>4 DEF Framing, Paged, Broken
<1>8. Keeping(q, h, closing, keeps)
  BY <1>4, <1>6 DEF Keeping, Paged
<1>9. Failing(s, q, h)
  BY <1>2, <1>4 DEF Failing, Paged, Erroneous
<1>10. Removing(q, h)
  BY <1>5 DEF Removing
<1>11. QED
  BY <1>6, <1>7, <1>8, <1>9, <1>10 DEF Replied

LEMMA RedirectionReplied ==
  ASSUME NEW s, NEW h \in Handlers, h.status = 0, h.ret.code # NoCode,
         NEW closing \in BOOLEAN, NEW keeps \in BOOLEAN, NEW io \in Outcomes,
         NEW q, q = MakeResponse(Begun(h), h, closing, keeps, io)
  PROVE  Replied(s, q, h, closing, keeps)
<1>1. PICK r : r = Begun(h)
  OBVIOUS
<1>2. New(r) /\ r.mod = {"REDIRECTION"} /\ r.status = h.ret.code
  BY <1>1, BegunNew DEF Part
<1>3. q = InitialHeaders(r, h, closing)
  BY <1>1, <1>2 DEF MakeResponse
<1>4. Headed(q, r, closing)
  BY <1>2, <1>3, HeadersMade DEF New
<1>5. q \in Responses /\ q.mod = {"REDIRECTION"} /\ q.file = <<>>
        /\ q.redirect = NoRedirect
  BY <1>2, <1>4 DEF Headed, SameBut, New
<1>6. q.head # NoHead =>
        /\ q.head.status = h.ret.code /\ q.keep = ~closing /\ q.head.keep = q.keep
        /\ ~(q.head.framing = "chunked")
  BY <1>2, <1>4 DEF Headed, New
<1>7. Ready(q) => Framing(q, h)
  BY <1>5, <1>6 DEF Ready, Framing, Framed, bodyPlace
<1>8. Ready(q) => Keeping(q, h, closing, keeps)
  BY <1>5, <1>6 DEF Ready, Keeping
<1>9. Ready(q) => Failing(s, q, h)
  <2>1. h.ret.code \in Away => h.ret.code >= 300
    BY DEF Away
  <2>2. QED
    BY <1>6, <2>1 DEF Ready, Failing, Erroneous
<1>10. Removing(q, h)
  BY <1>5 DEF Removing
<1>11. QED
  BY <1>5, <1>7, <1>8, <1>9, <1>10 DEF Replied

\* The status a success starts from, and its one part.
Plainly(r) ==
  /\ New(r) /\ r.status \in {200, 201, 204}
  /\ \E m \in {"GET", "DELETE", "UPLOAD"} : r.mod = {m}

\* After its part, an answer gets its head, or is an error.
LEMMA PartReplied ==
  ASSUME NEW s, NEW h \in Handlers, h.status = 0, h.ret.code = NoCode,
         NEW closing \in BOOLEAN, NEW keeps \in BOOLEAN, NEW io \in Outcomes,
         NEW r, Plainly(r), Removing(r, h), NEW made, Parted(made, r),
         "AUTOINDEX" \in made.mod => h.autoindex,
         NEW q, q = IF "ERROR" \in made.mod THEN ErrorRespnseHandling(made, h, keeps, io)
                    ELSE InitialHeaders(made, h, closing)
  PROVE  Replied(s, q, h, closing, keeps)
<1>1. made \in Responses /\ made.redirect = NoRedirect /\ made.head = NoHead
        /\ {"REDIRECTION", "INTERNALRE", "ERROR"} \cap r.mod = {}
        /\ {"REDIRECTION", "INTERNALRE"} \cap made.mod = {}
  BY DEF Parted, Plainly
<1>2. "DELETE" \in made.mod => "DELETE" \in r.mod
  BY DEF Parted
<1>3. Failing(s, q, h)
  BY DEF Failing, Erroneous, Away, NoCode
<1>4. CASE "ERROR" \notin made.mod
  <2>1. q = InitialHeaders(made, h, closing)
    BY <1>4
  <2>2. Headed(q, made, closing)
    BY <1>1, <2>1, HeadersMade
  <2>3. q \in Responses /\ q.mod = made.mod /\ q.file = made.file
          /\ q.redirect = NoRedirect
    BY <1>1, <2>2 DEF Headed, SameBut
  <2>4. made.status \in {200, 201, 204}
          /\ ("CHUNK" \in made.mod <=> "AUTOINDEX" \in made.mod \/ made.file # <<>>)
    BY <1>4 DEF Parted, Plainly
  <2>5. q.head # NoHead =>
          /\ q.head.status = made.status /\ q.keep = ~closing /\ q.head.keep = q.keep
          /\ q.head.framing = "chunked" <=> "CHUNK" \in made.mod
    BY <1>1, <2>2 DEF Headed
  <2>6. Ready(q) => Framing(q, h)
    BY <2>3, <2>4, <2>5 DEF Ready, Framing, Framed, bodyPlace
  <2>7. Ready(q) => Keeping(q, h, closing, keeps)
    <3>1. Ready(q) => q.head.status \in {200, 201, 204} /\ q.keep = ~closing
                        /\ q.keep = q.head.keep
      BY <2>4, <2>5 DEF Ready
    <3>2. Ready(q) /\ closing => ~q.keep
      BY <3>1
    <3>3. Ready(q) => q.head.status \notin 400 .. 599
      BY ONLY <3>1
    <3>4. QED
      BY <3>1, <3>2, <3>3 DEF Keeping
  <2>8. Removing(q, h)
    BY <1>2, <2>3 DEF Removing
  <2>9. QED
    BY <1>3, <2>3, <2>6, <2>7, <2>8 DEF Replied
<1>5. CASE "ERROR" \in made.mod /\ made.status # 500
  <2>1. q = made
    BY <1>1, <1>5 DEF ErrorRespnseHandling, AnswersNow
  <2>2. ~Ready(q)
    BY <1>5, <2>1 DEF Ready
  <2>3. Removing(q, h)
    BY <1>2, <2>1 DEF Removing
  <2>4. QED
    BY <1>1, <2>1, <2>2, <2>3 DEF Replied
<1>6. CASE "ERROR" \in made.mod /\ made.status = 500
  <2>1. q = ErrorRespnseHandling(made, h, keeps, io)
    BY <1>6
  <2>2. Paged(q, made, keeps)
    BY <1>1, <1>6, <2>1, ErrorMade
  <2>3. q \in Responses /\ q.redirect = NoRedirect /\ q.body # CgiBody
          /\ q.head.status \in {404, 500} /\ q.head.keep = q.keep
          /\ (q.head.status # 404 => q.keep = keeps)
    BY <1>1, <1>6, <2>2 DEF Paged
  <2>4. Framing(q, h)
    <3>1. CASE "AUTOINDEX" \notin made.mod
      <4>1. Framed(q) /\ q.mod \subseteq made.mod
        BY <1>1, <2>2, <3>1 DEF Paged
      <4>2. QED
        BY <3>1, <4>1 DEF Framing
    <3>2. CASE "AUTOINDEX" \in made.mod
      <4>1. Broken(q, made)
        BY <2>2, <3>2 DEF Paged
      <4>2. "GET" \in r.mod /\ r.mod \subseteq made.mod
        BY <4>1 DEF Broken, Parted
      <4>3. {"GET", "AUTOINDEX"} \subseteq q.mod
        BY <1>1, <3>2, <4>1, <4>2 DEF Broken
      <4>4. QED
        BY <3>2, <4>1, <4>3 DEF Broken, Framing
    <3>3. QED
      BY <3>1, <3>2
  <2>5. Keeping(q, h, closing, keeps)
    BY <2>3 DEF Keeping
  <2>6. Removing(q, h)
    BY <1>2, <2>2 DEF Removing, Paged
  <2>7. QED
    BY <1>3, <2>3, <2>4, <2>5, <2>6 DEF Replied
<1>7. QED
  BY <1>4, <1>5, <1>6

LEMMA PlainReplied ==
  ASSUME NEW s, NEW h \in Handlers, h.status = 0, h.ret.code = NoCode,
         NEW closing \in BOOLEAN, NEW keeps \in BOOLEAN, NEW io \in Outcomes,
         NEW q, q = MakeResponse(Begun(h), h, closing, keeps, io)
  PROVE  Replied(s, q, h, closing, keeps)
<1>1. PICK r : r = Begun(h)
  OBVIOUS
<1>2. h.method \in {"GET", "POST", "DELETE"}
  BY DEF Handlers, Methods
<1>3. /\ h.method = "GET" => r.mod = {"GET"} /\ r.status = 200
      /\ h.method = "DELETE" => r.mod = {"DELETE"} /\ r.status = 204
      /\ h.method = "POST" => r.mod = {"UPLOAD"} /\ r.status = 201
  BY <1>1, BegunNew DEF Part
<1>4. New(r) /\ Plainly(r) /\ Removing(r, h)
  <2>1. New(r)
    BY <1>1, BegunNew
  <2>2. Plainly(r)
    BY <1>2, <1>3, <2>1 DEF Plainly
  <2>3. Removing(r, h)
    BY <1>2, <1>3 DEF Removing
  <2>4. QED
    BY <2>1, <2>2, <2>3
<1>5. PICK made : made = IF "GET" \in r.mod /\ h.autoindex THEN InitialAutoIndex(r, io)
                         ELSE IF "GET" \in r.mod THEN StoredInFileOrStr(r, h, io)
                         ELSE IF "DELETE" \in r.mod THEN DeleteResource(r, io)
                         ELSE IF "UPLOAD" \in r.mod THEN [r EXCEPT !.body = Default]
                         ELSE r
  OBVIOUS
<1>6. q = IF "ERROR" \in made.mod THEN ErrorRespnseHandling(made, h, keeps, io)
          ELSE InitialHeaders(made, h, closing)
  BY <1>1, <1>2, <1>3, <1>5 DEF MakeResponse
<1>7. Parted(made, r)
  <2>1. CASE h.method = "GET" /\ h.autoindex
    BY <1>3, <1>4, <1>5, <2>1, ListingParted
  <2>2. CASE h.method = "GET" /\ ~h.autoindex
    BY <1>3, <1>4, <1>5, <2>2, FileParted
  <2>3. CASE h.method = "DELETE"
    BY <1>3, <1>4, <1>5, <2>3, DeleteParted
  <2>4. CASE h.method = "POST"
    <3>1. r.mod = {"UPLOAD"} /\ made = [r EXCEPT !.body = Default]
      BY <1>3, <1>5, <2>4
    <3>2. made \in Responses /\ made.mod = r.mod /\ made.status = r.status
            /\ made.redirect = r.redirect /\ made.head = r.head /\ made.file = r.file
      BY <1>4, <3>1 DEF New, Responses, Texts
    <3>3. QED
      BY <1>4, <3>1, <3>2 DEF Parted, New
  <2>5. QED
    BY <1>2, <2>1, <2>2, <2>3, <2>4
<1>8. ASSUME ~h.autoindex PROVE "AUTOINDEX" \notin made.mod
  <2>1. made \in {StoredInFileOrStr(r, h, io), DeleteResource(r, io),
                  [r EXCEPT !.body = Default], r}
    BY <1>5, <1>8
  <2>2. r \in Responses /\ "AUTOINDEX" \notin r.mod
    BY <1>2, <1>3, <1>4 DEF New
  <2>3. StoredInFileOrStr(r, h, io).mod \subseteq r.mod \cup {"CHUNK", "ERROR"}
    BY <2>2 DEF StoredInFileOrStr, With, Responses
  <2>4. DeleteResource(r, io).mod \subseteq r.mod \cup {"ERROR"}
    BY <2>2 DEF DeleteResource, With, Responses
  <2>5. [r EXCEPT !.body = Default].mod = r.mod
    BY <2>2 DEF Responses
  <2>6. made.mod \subseteq r.mod \cup {"CHUNK", "ERROR"}
    <3>1. PICK a, b, c : a = StoredInFileOrStr(r, h, io) /\ b = DeleteResource(r, io)
                           /\ c = [r EXCEPT !.body = Default]
      OBVIOUS
    <3>2. made = a \/ made = b \/ made = c \/ made = r
      BY <2>1, <3>1
    <3>3. a.mod \subseteq r.mod \cup {"CHUNK", "ERROR"} /\ b.mod \subseteq r.mod \cup {"ERROR"}
            /\ c.mod = r.mod
      BY <2>3, <2>4, <2>5, <3>1
    <3>4. QED
      BY ONLY <3>2, <3>3
  <2>7. QED
    BY <2>2, <2>6
<1>9. QED
  BY <1>4, <1>6, <1>7, <1>8, PartReplied

LEMMA TurnReplied ==
  ASSUME NEW s, NEW h \in Handlers, NEW closing \in BOOLEAN,
         NEW keeps \in BOOLEAN, NEW io \in Outcomes,
         NEW q, q = MakeResponse(Begun(h), h, closing, keeps, io)
  PROVE  Replied(s, q, h, closing, keeps)
  BY ErrorReplied, RedirectionReplied, PlainReplied

-----------------------------------------------------------------------------
(***************************************************************************)
(* The turn after an error or a redirection.                               *)
(***************************************************************************)
ErrorCodes == LineErrors \cup HeaderErrors \cup BodyErrors
Moves == [uri: Paths, code: {0} \cup ErrorCodes]

LEMMA ErrorCodesTyped ==
  ASSUME NEW code \in ErrorCodes
  PROVE  code \in Statuses /\ code >= 400 /\ code # 0
<1>1. code \in 400 .. 599
  BY ResponseAssumption DEF ErrorCodes
<1>2. PICK n \in Int : n = code /\ 400 <= n /\ n <= 599
  BY <1>1
<1>3. n >= 400 /\ n # 0
  BY <1>2
<1>4. n \in Statuses
  BY <1>2, StatusRange
<1>5. QED
  BY <1>2, <1>3, <1>4

LEMMA ServerTyped == ASSUME Typed PROVE IsServer(server)
  BY ResponseAssumption DEF Typed, TypeOK

LEMMA TurnMade ==
  ASSUME NEW s, s = server, IsServer(s), NEW r \in Routeds, r.handler.status = 0,
         r.handler.method = "GET", r.ok \/ r.code \in Statuses, NEW t, t = Turn(r)
  PROVE  /\ t.handler \in Handlers /\ t.handler.method = "GET"
         /\ t.code \in Statuses
         /\ t.code >= 400 => Erroneous(server, t.handler)
<1>1. PICK h \in Handlers : h = r.handler
  BY DEF Routeds
<1>2. CASE r.ok
  <2>1. t.handler = h /\ t.code = 0
    BY <1>1, <1>2 DEF Turn
  <2>2. QED
    BY <1>1, <2>1, CodesTyped
<1>3. CASE ~r.ok
  <2>1. PICK code \in Statuses : code = r.code
    BY <1>3
  <2>2. PICK g : g = OrDefault(generateErrorPath(server, fs, h, code))
    OBVIOUS
  <2>3. t.handler = g /\ t.code = code
    BY <1>1, <1>3, <2>1, <2>2 DEF Turn
  <2>4. h.status = 0 /\ h.method = "GET" /\ IsServer(server)
    BY <1>1
  <2>5. g \in Handlers /\ g.method = "GET" /\ (code >= 400 => Erroneous(server, g))
    BY <2>2, <2>4, PageFound
  <2>6. QED
    BY <2>3, <2>5
<1>4. QED
  BY <1>2, <1>3

LEMMA Internalised ==
  ASSUME Typed, NEW r \in Responses, r.redirect \in Moves, NEW t, t = Internal(r)
  PROVE  /\ t.handler \in Handlers /\ t.handler.method = "GET"
         /\ t.code \in Statuses
         /\ t.code >= 400 => Erroneous(server, t.handler)
<1>1. IsServer(server) /\ handler \in Handlers
  BY ServerTyped DEF Typed, TypeOK
<1>2. PICK clean \in Handlers : clean = ResetHandler(handler)
  BY <1>1, ResetTyped
<1>3. Fresh(clean)
  BY <1>1, <1>2, ResetTyped
<1>4. CASE Looped
  <2>1. PICK g, h : g = [clean EXCEPT !.default = TRUE] /\ h = [g EXCEPT !.status = 500]
    OBVIOUS
  <2>2. t.handler = h /\ t.code = 500
    BY <1>2, <1>4, <2>1 DEF Internal
  <2>3. h \in Handlers /\ h.method = "GET" /\ h.status = 500
    <3>1. 500 \in Statuses /\ clean.method = "GET"
      BY <1>3, CodesTyped DEF Fresh
    <3>2. g \in Handlers /\ g.method = clean.method
      BY <2>1 DEF Handlers
    <3>3. h \in Handlers /\ h.method = g.method /\ h.status = 500
      <4>1. PICK code \in Statuses : code = 500
        BY <3>1
      <4>2. h = [g EXCEPT !.status = code]
        BY <2>1, <4>1
      <4>3. h \in Handlers /\ h.method = g.method /\ h.status = code
        BY <3>2, <4>2 DEF Handlers
      <4>4. QED
        BY <4>1, <4>3
    <3>4. QED
      BY <3>1, <3>2, <3>3
  <2>4. QED
    BY <2>2, <2>3, CodesTyped DEF Erroneous
<1>5. CASE ~Looped
  <2>1. PICK routed : routed = IF r.redirect = NoRedirect THEN Routed(clean, FALSE, r.status)
               ELSE IF r.redirect.code # 0 THEN Routed(clean, FALSE, r.redirect.code)
               ELSE processRequest(server, fs, clean, r.redirect.uri, "GET")
    OBVIOUS
  <2>2. t = Turn(routed)
    BY <1>2, <1>5, <2>1 DEF Internal
  <2>3. /\ routed \in Routeds /\ routed.handler.status = 0
        /\ routed.handler.method = "GET"
    <3>1. CASE r.redirect = NoRedirect
      <4>1. routed = [handler |-> clean, ok |-> FALSE, code |-> r.status]
        BY <2>1, <3>1 DEF Routed
      <4>2. r.status \in Statuses
        BY DEF Responses
      <4>3. QED
        BY <1>3, <4>1, <4>2 DEF Routeds, Fresh
    <3>2. CASE r.redirect # NoRedirect /\ r.redirect.code # 0
      <4>1. routed = [handler |-> clean, ok |-> FALSE, code |-> r.redirect.code]
        BY <2>1, <3>2 DEF Routed
      <4>2. r.redirect.code \in ErrorCodes
        BY <3>2 DEF Moves
      <4>3. r.redirect.code \in Statuses
        BY <4>2, ErrorCodesTyped
      <4>4. QED
        BY <1>3, <4>1, <4>3 DEF Routeds, Fresh
    <3>3. CASE r.redirect # NoRedirect /\ r.redirect.code = 0
      <4>1. PICK uri \in Paths : uri = r.redirect.uri
        BY DEF Moves
      <4>2. PICK method \in Methods : method = "GET"
        BY DEF Methods
      <4>3. routed = processRequest(server, fs, clean, uri, method)
        BY <2>1, <3>3, <4>1, <4>2
      <4>4. Answerable(server, routed, uri, method)
        BY <1>1, <1>3, <4>3, RequestProcessed
      <4>5. QED
        BY <4>2, <4>4 DEF Answerable
    <3>4. QED
      BY <3>1, <3>2, <3>3
  <2>4. routed.code \in Statuses
    BY <2>3 DEF Routeds
  <2>5. QED
    BY <1>1, <2>2, <2>3, <2>4, TurnMade
<1>6. QED
  BY <1>4, <1>5

\* What may be sent, for what the invariant says of it.
Sent(s, q, h, closing, keeps) ==
  /\ Framing(q, h)
  /\ q.keep = q.head.keep
  /\ closing /\ q.head.status < 300 /\ h.status = 0 /\ q.body # CgiBody => ~q.keep
  /\ "REDIRECTION" \notin q.mod /\ q.head.status \in 400 .. 599
       /\ q.head.status # 404 => q.keep = (keeps /\ q.body # CgiBody)
  /\ q.body # CgiBody => Failing(s, q, h)

Sendable(s, q, h, closing, keeps) ==
  /\ q \in Responses /\ q.redirect \in Moves
  /\ q.redirect = NoRedirect /\ Ready(q) => Sent(s, q, h, closing, keeps)

LEMMA RepliedSendable ==
  ASSUME NEW s, NEW q, NEW h, NEW closing \in BOOLEAN, NEW keeps \in BOOLEAN,
         Replied(s, q, h, closing, keeps)
  PROVE  Sendable(s, q, h, closing, keeps)
<1>1. NoRedirect \in Moves
  BY EmptyPath DEF NoRedirect, Moves
<1>2. q \in Responses /\ q.redirect = NoRedirect
  BY DEF Replied
<1>3. ASSUME Ready(q) PROVE Sent(s, q, h, closing, keeps)
  <2>1. Framing(q, h) /\ Keeping(q, h, closing, keeps) /\ Failing(s, q, h)
    BY <1>3 DEF Replied
  <2>2. "REDIRECTION" \notin q.mod /\ q.head.status \in 400 .. 599
          /\ q.head.status # 404 => q.keep = (keeps /\ q.body # CgiBody)
    BY <2>1 DEF Keeping
  <2>3. QED
    BY <2>1, <2>2 DEF Sent, Keeping
<1>4. QED
  BY <1>1, <1>2, <1>3 DEF Sendable

\* The answer is sent.
LEMMA AnswerTaken ==
  ASSUME IInv, phase \in {"start", "cgi"}, NEW r,
         Sendable(server, r, handler, close, pageKeeps), InitRespond(r), ~Again(r),
         server' = server, request' = request, close' = close,
         fs' \in [DOMAIN Files -> Kinds], pageKeeps' \in BOOLEAN,
         r.head.status # 404 \/ "REDIRECTION" \in r.mod => pageKeeps' = pageKeeps
  PROVE  IInv'
<1>1. response' = r /\ phase' = "send" /\ handler' = handler /\ refused' = refused
        /\ counter' = counter
  BY DEF InitRespond
<1>2. r \in Responses /\ r.redirect = NoRedirect /\ "ERROR" \notin r.mod
  BY DEF Again, Sendable
<1>3. r.head # NoHead => Sent(server, r, handler, close, pageKeeps)
  BY <1>2 DEF Sendable, Ready
<1>4. Typed'
  <2>1. r.mod \subseteq Mods
          /\ r.head \in [status: Statuses, keep: BOOLEAN,
                         framing: {"none", "length", "chunked"}]
    BY <1>2 DEF Responses
  <2>2. QED
    BY <1>1, <1>2, <2>1 DEF IInv, Typed, TypeOK
<1>5. Before'
  BY <1>1 DEF Before
<1>6. Errors'
  BY <1>1 DEF IInv, Errors
<1>7. Deletes'
  BY <1>1 DEF IInv, Deletes
<1>8. FramingAgrees'
  <2>1. r.head # NoHead => Framing(r, handler)
    BY <1>3 DEF Sent
  <2>2. QED
    BY <1>1, <2>1 DEF FramingAgrees, Answer, BrokenListing, Announced, Framing, Framed,
                      bodyPlace
<1>9. KeepAgrees'
  <2>1. SUFFICES ASSUME r.head # NoHead
                 PROVE  /\ r.keep = r.head.keep
                        /\ close /\ r.head.status < 300 /\ handler.status = 0
                             /\ r.body # CgiBody => ~r.keep
                        /\ r.mod \cap {"REDIRECTION"} = {} /\ r.head.status \in 400 .. 599
                             /\ r.head.status # 404 =>
                               r.keep = (pageKeeps' /\ r.body # CgiBody)
    BY <1>1 DEF KeepAgrees, Answer
  <2>2. Sent(server, r, handler, close, pageKeeps)
    BY <1>3, <2>1
  <2>3. r.mod \cap {"REDIRECTION"} = {} => "REDIRECTION" \notin r.mod
    OBVIOUS
  <2>4. QED
    BY <2>2, <2>3 DEF Sent
<1>10. ErrorsStayErrors'
  <2>1. SUFFICES ASSUME r.head # NoHead, refused >= 400, r.body # CgiBody
                 PROVE  \/ r.head.status >= 300
                        \/ \E code \in DOMAIN server.pages :
                             /\ server.pages[code].response = handler.status
                             /\ handler.status \in {0, r.head.status}
    BY <1>1 DEF ErrorsStayErrors, Answer
  <2>2. Erroneous(server, handler)
    BY <2>1 DEF IInv, Errors
  <2>3. Failing(server, r, handler)
    BY <1>3, <2>1 DEF Sent
  <2>4. QED
    BY <2>2, <2>3 DEF Failing, PageCode
<1>11. QED
  BY <1>4, <1>5, <1>6, <1>7, <1>8, <1>9, <1>10 DEF IInv

\* Everything is done again, for an error or a redirection.
LEMMA TurnTaken ==
  ASSUME IInv, NEW r,
         Sendable(server, r, handler, close, pageKeeps), InitRespond(r), Again(r),
         server' = server, request' = request, close' = close,
         fs' \in [DOMAIN Files -> Kinds], pageKeeps' \in BOOLEAN
  PROVE  IInv'
<1>1. PICK t : t = Internal(r)
  OBVIOUS
<1>2. response' = NewResponse /\ phase' = "start" /\ handler' = t.handler
        /\ refused' = t.code /\ counter' = NextCounter
  BY <1>1 DEF InitRespond
<1>3. /\ t.handler \in Handlers /\ t.handler.method = "GET"
      /\ t.code \in Statuses
      /\ t.code >= 400 => Erroneous(server, t.handler)
  BY <1>1, Internalised DEF IInv, Sendable
<1>4. NextCounter \in 0 .. MaxInternalLoop
  BY ResponseAssumption DEF IInv, Typed, TypeOK, NextCounter, Looped
<1>5. Typed'
  <2>1. NewResponse \in Responses
    BY NewTyped
  <2>2. NewResponse.mod \subseteq Mods
          /\ NewResponse.head \in [status: Statuses, keep: BOOLEAN,
                                   framing: {"none", "length", "chunked"}]
    BY <2>1 DEF Responses
  <2>3. QED
    BY <1>2, <1>3, <1>4, <2>1, <2>2 DEF IInv, Typed, TypeOK
<1>6. Before' /\ FramingAgrees' /\ KeepAgrees' /\ ErrorsStayErrors'
  BY <1>2 DEF Before, FramingAgrees, KeepAgrees, ErrorsStayErrors, Answer
<1>7. Errors'
  BY <1>2, <1>3 DEF Errors
<1>8. Deletes'
  BY <1>2, <1>3 DEF Deletes, Own
<1>9. QED
  BY <1>5, <1>6, <1>7, <1>8 DEF IInv

-----------------------------------------------------------------------------
(***************************************************************************)
(* The steps keep the invariant.                                           *)
(***************************************************************************)
LEMMA RefusedInv ==
  ASSUME IInv, NEW h \in Handlers, NEW code \in Statuses, Refuse(h, code),
         request' \in Requests \cup {NoRequest}, close' \in BOOLEAN,
         UNCHANGED <<server, fs, response, pageKeeps, counter>>
  PROVE  IInv'
<1>1. PICK clean \in Handlers : clean = ResetHandler(h)
  BY ResetTyped
<1>2. clean.status = 0 /\ clean.method = "GET"
  BY <1>1, ResetTyped DEF Fresh
<1>3. PICK g : g = OrDefault(generateErrorPath(server, fs, clean, code))
  OBVIOUS
<1>4. handler' = g /\ phase' = "start" /\ refused' = code
  BY <1>1, <1>3 DEF Refuse
<1>5. g \in Handlers /\ g.method = "GET" /\ (code >= 400 => Erroneous(server, g))
  BY <1>2, <1>3, ServerTyped, PageFound DEF IInv
<1>6. Typed'
  BY <1>4, <1>5 DEF IInv, Typed, TypeOK
<1>7. Before' /\ FramingAgrees' /\ KeepAgrees' /\ ErrorsStayErrors'
  BY <1>4 DEF Before, FramingAgrees, KeepAgrees, ErrorsStayErrors, Answer
<1>8. Errors'
  BY <1>4, <1>5 DEF Errors
<1>9. Deletes'
  BY <1>4, <1>5 DEF Deletes, Own
<1>10. QED
  BY <1>6, <1>7, <1>8, <1>9 DEF IInv

\* The slot goes on with the request it has.
LEMMA ContinuedInv ==
  ASSUME IInv, phase \in {"head", "body"}, phase' \in {"body", "start"},
         close' \in BOOLEAN,
         UNCHANGED <<server, fs, request, handler, response, pageKeeps, counter, refused>>
  PROVE  IInv'
<1>1. Typed'
  BY DEF IInv, Typed, TypeOK
<1>2. Before' /\ Errors'
  BY DEF IInv, Before, Errors
<1>3. Deletes'
  BY DEF IInv, Deletes
<1>4. FramingAgrees' /\ KeepAgrees' /\ ErrorsStayErrors'
  BY DEF FramingAgrees, KeepAgrees, ErrorsStayErrors, Answer
<1>5. QED
  BY <1>1, <1>2, <1>3, <1>4 DEF IInv

LEMMA ReadRequestLineInv == ASSUME IInv, ReadRequestLine PROVE IInv'
<1>1. PICK q \in Requests :
        /\ request' = q
        /\ \E h \in {[handler EXCEPT !.error = code] : code \in LineErrors}
               \cup {processRequest(server, fs, handler, q.uri, q.method).handler} :
             \/ h.error # 0 /\ Refuse(h, h.error)
             \/ h.error = 0 /\ handler' = h /\ phase' = "head" /\ refused' = refused
  BY DEF ReadRequestLine
<1>2. phase = "idle" /\ UNCHANGED <<server, fs, close, response, pageKeeps, counter>>
  BY DEF ReadRequestLine
<1>3. handler \in Handlers /\ IsServer(server) /\ Fresh(handler) /\ close \in BOOLEAN
  BY <1>2, ServerTyped DEF IInv, Typed, TypeOK, Before
<1>4. PICK uri \in Paths, method \in Methods : uri = q.uri /\ method = q.method
  BY ResponseAssumption
<1>5. PICK r : r = processRequest(server, fs, handler, uri, method)
  OBVIOUS
<1>6. Answerable(server, r, uri, method)
  BY <1>3, <1>5, RequestProcessed
<1>7. PICK h \in {[handler EXCEPT !.error = code] : code \in LineErrors} \cup {r.handler} :
        \/ h.error # 0 /\ Refuse(h, h.error)
        \/ h.error = 0 /\ handler' = h /\ phase' = "head" /\ refused' = refused
  BY <1>1, <1>4, <1>5
<1>8. h \in Handlers /\ (h.error # 0 \/ h = r.handler)
  <2>1. CASE h = r.handler
    BY <1>6, <2>1 DEF Answerable, Routeds
  <2>2. CASE h \in {[handler EXCEPT !.error = code] : code \in LineErrors}
    <3>1. PICK code \in LineErrors : h = [handler EXCEPT !.error = code]
      BY <2>2
    <3>2. code \in Statuses /\ code # 0
      BY ErrorCodesTyped DEF ErrorCodes
    <3>3. QED
      BY <1>3, <3>1, <3>2 DEF Handlers
  <2>3. QED
    BY <2>1, <2>2
<1>9. CASE h.error # 0 /\ Refuse(h, h.error)
  <2>1. PICK code \in Statuses : code = h.error
    BY <1>8 DEF Handlers
  <2>2. Refuse(h, code)
    BY <1>9, <2>1
  <2>3. QED
    BY <1>1, <1>2, <1>3, <1>8, <2>2, RefusedInv
<1>10. CASE h.error = 0 /\ handler' = h /\ phase' = "head" /\ refused' = refused
  <2>1. h = r.handler
    BY <1>8, <1>10
  <2>2. Own(server, h, uri) /\ h.method \in {method, "GET"}
    BY <1>6, <1>10, <2>1 DEF Answerable
  <2>3. refused = 0
    BY <1>2 DEF IInv, Before
  <2>4. Typed'
    BY <1>1, <1>2, <1>8, <1>10 DEF IInv, Typed, TypeOK
  <2>5. Before' /\ Errors' /\ FramingAgrees' /\ KeepAgrees' /\ ErrorsStayErrors'
    BY <1>10, <2>3
       DEF Before, Errors, FramingAgrees, KeepAgrees, ErrorsStayErrors, Answer
  <2>6. Deletes'
    BY <1>1, <1>2, <1>4, <1>10, <2>2, <2>3 DEF Deletes
  <2>7. QED
    BY <2>4, <2>5, <2>6 DEF IInv
<1>11. QED
  BY <1>7, <1>9, <1>10

LEMMA ReadHeadersInv == ASSUME IInv, ReadHeaders PROVE IInv'
<1>1. phase = "head" /\ UNCHANGED <<server, fs, request, response, pageKeeps, counter>>
  BY DEF ReadHeaders
<1>2. handler \in Handlers /\ request \in Requests \cup {NoRequest} /\ request.close \in BOOLEAN
  <2>1. handler \in Handlers /\ request \in Requests \cup {NoRequest}
    BY DEF IInv, Typed, TypeOK
  <2>2. request \in Requests => request.close \in BOOLEAN
    BY ResponseAssumption
  <2>3. NoRequest.close \in BOOLEAN
    BY DEF NoRequest
  <2>4. QED
    BY <2>1, <2>2, <2>3
<1>3. CASE /\ \E code \in HeaderErrors : Refuse(handler, code)
           /\ close' \in {FALSE, request.close}
  <2>1. PICK code \in HeaderErrors : Refuse(handler, code)
    BY <1>3
  <2>2. code \in Statuses
    BY ErrorCodesTyped DEF ErrorCodes
  <2>3. close' \in BOOLEAN
    BY <1>2, <1>3
  <2>4. QED
    BY <1>1, <1>2, <2>1, <2>2, <2>3, RefusedInv
<1>4. CASE /\ phase' = IF request.method = "POST" THEN "body" ELSE "start"
           /\ close' = request.close
           /\ UNCHANGED <<handler, refused>>
  BY <1>1, <1>2, <1>4, ContinuedInv
<1>5. QED
  BY <1>3, <1>4 DEF ReadHeaders

LEMMA ReadBodyInv == ASSUME IInv, ReadBody PROVE IInv'
<1>1. phase = "body"
        /\ UNCHANGED <<server, fs, request, close, response, pageKeeps, counter>>
  BY DEF ReadBody
<1>2. handler \in Handlers /\ request \in Requests \cup {NoRequest} /\ close \in BOOLEAN
  BY DEF IInv, Typed, TypeOK
<1>3. ASSUME NEW code \in BodyErrors, Refuse(handler, code) PROVE IInv'
  <2>1. code \in Statuses
    BY ErrorCodesTyped DEF ErrorCodes
  <2>2. QED
    BY <1>1, <1>2, <1>3, <2>1, RefusedInv
<1>4. CASE phase' = "start" /\ UNCHANGED <<handler, refused>>
  BY <1>1, <1>2, <1>4, ContinuedInv
<1>5. QED
  BY <1>3, <1>4 DEF ReadBody

\* Taking an answer, whether it is sent or done again.
LEMMA RespondedInv ==
  ASSUME IInv, phase \in {"start", "cgi"}, NEW r,
         Sendable(server, r, handler, close, pageKeeps), InitRespond(r),
         server' = server, request' = request, close' = close,
         fs' \in [DOMAIN Files -> Kinds], pageKeeps' \in BOOLEAN,
         r.head.status # 404 \/ "REDIRECTION" \in r.mod => pageKeeps' = pageKeeps
  PROVE  IInv'
  BY AnswerTaken, TurnTaken

LEMMA DiskKept ==
  ASSUME Typed, NEW r, NEW io PROVE Removed(r, io) \in [DOMAIN Files -> Kinds]
  BY DEF Typed, TypeOK, Removed, Kinds

LEMMA RespondInv == ASSUME IInv, Respond PROVE IInv'
<1>1. PICK begun : begun = Begun(handler)
  OBVIOUS
<1>2. PICK io \in Answers(begun) :
        \E made \in {MakeResponse(begun, handler, close, pageKeeps, io)} :
          /\ InitRespond(made)
          /\ fs' = Removed(made, io)
          /\ pageKeeps' = KeepsAfter(made)
  BY <1>1 DEF Respond, Begun
<1>3. PICK made : /\ made = MakeResponse(begun, handler, close, pageKeeps, io)
                  /\ InitRespond(made)
                  /\ fs' = Removed(made, io)
                  /\ pageKeeps' = KeepsAfter(made)
  BY <1>2
<1>4. phase = "start" /\ UNCHANGED <<server, request, close>>
  BY DEF Respond
<1>5. handler \in Handlers /\ close \in BOOLEAN /\ pageKeeps \in BOOLEAN
  BY DEF IInv, Typed, TypeOK
<1>6. io \in Outcomes
  BY DEF Answers, Outcomes
<1>7. Replied(server, made, handler, close, pageKeeps)
  BY <1>1, <1>3, <1>5, <1>6, TurnReplied
<1>8. Sendable(server, made, handler, close, pageKeeps)
  BY <1>5, <1>7, RepliedSendable
<1>9. fs' \in [DOMAIN Files -> Kinds]
  BY <1>3, DiskKept DEF IInv
<1>10. pageKeeps' \in BOOLEAN
        /\ (made.head.status # 404 \/ "REDIRECTION" \in made.mod => pageKeeps' = pageKeeps)
  BY <1>3, <1>5 DEF KeepsAfter
<1>11. QED
  BY <1>3, <1>4, <1>8, <1>9, <1>10, RespondedInv

\* The answers of a CGI.
LEMMA CgiAnswerSendable ==
  ASSUME NEW s, NEW h, NEW closing \in BOOLEAN, NEW keeps \in BOOLEAN,
         NEW status \in {200, 404, 503}, NEW disk \in BOOLEAN,
         NEW q, q = CgiAnswer(status, disk)
  PROVE  Sendable(s, q, h, closing, keeps)
<1> DEFINE keep == status < 400 \/ status = 404
           framing == IF disk THEN "chunked" ELSE "length"
           file == IF disk THEN CgiBody ELSE <<>>
           head == [status |-> status, keep |-> keep, framing |-> framing]
<1>1. q = [NewResponse EXCEPT !.keep = keep, !.body = CgiBody, !.file = file, !.head = head]
  BY DEF CgiAnswer
<1>2. keep \in BOOLEAN /\ framing \in {"length", "chunked"}
        /\ (framing = "chunked" <=> file # <<>>)
        /\ (status \notin {200, 404} => ~keep)
  BY Bodies
<1>3. file \in Texts /\ CgiBody \in Texts
  BY EmptyPath DEF Texts
<1>4. status \in Statuses
  BY KnownStatuses
<1> HIDE DEF keep, framing, file
<1>5. head \in [status: Statuses, keep: BOOLEAN, framing: {"none", "length", "chunked"}]
        /\ head.status = status /\ head.keep = keep /\ head.framing = framing
  BY <1>2, <1>4
<1> HIDE DEF head
<1>6. q \in Responses
  <2>1. PICK n \in Responses : n = NewResponse
    BY NewTyped
  <2>2. PICK a : a = [n EXCEPT !.keep = keep, !.body = CgiBody]
    OBVIOUS
  <2>3. PICK b : b = [a EXCEPT !.file = file]
    OBVIOUS
  <2>4. q = [b EXCEPT !.head = head]
    BY <1>1, <2>1, <2>2, <2>3
  <2>5. a \in Responses
    BY <1>2, <1>3, <2>2 DEF Responses
  <2>6. b \in Responses
    BY <1>3, <2>3, <2>5 DEF Responses
  <2>7. QED
    BY <1>5, <2>4, <2>6 DEF Responses
<1>7. q.head = head /\ q.keep = keep /\ q.file = file /\ q.body = CgiBody
        /\ q.mod = {} /\ q.redirect = NoRedirect
  BY <1>1, NewTyped DEF Responses, NewResponse
<1>8. Framed(q)
  BY <1>2, <1>5, <1>7 DEF Framed, bodyPlace
<1>9. q.head.status \in 400 .. 599 /\ q.head.status # 404 => ~q.keep
  <2>1. CASE status = 200
    BY <1>5, <1>7, <2>1
  <2>2. CASE status = 404
    BY <1>5, <1>7, <2>2
  <2>3. CASE status = 503
    BY <1>2, <1>7, <2>3
  <2>4. QED
    BY <2>1, <2>2, <2>3
<1>10. q.keep = q.head.keep
  BY <1>5, <1>7
<1>11. Sent(s, q, h, closing, keeps)
  BY <1>6, <1>7, <1>8, <1>9, <1>10 DEF Sent, Framing, Responses
<1>12. NoRedirect \in Moves
  BY EmptyPath DEF NoRedirect, Moves
<1>13. QED
  BY <1>6, <1>7, <1>11, <1>12 DEF Sendable

LEMMA CgiRedirectSendable ==
  ASSUME NEW s, NEW h, NEW closing \in BOOLEAN, NEW keeps \in BOOLEAN,
         NEW q \in CgiRedirects
  PROVE  Sendable(s, q, h, closing, keeps)
<1>1. PICK a \in Requests, code \in LineErrors \cup {0} :
        q = [NewResponse EXCEPT !.redirect = [uri |-> a.uri, code |-> code]]
  BY DEF CgiRedirects
<1>2. a.uri \in Paths
  BY ResponseAssumption
<1>3. code \in {0} \cup ErrorCodes /\ code \in Statuses
  BY ErrorCodesTyped, CodesTyped DEF ErrorCodes
<1>4. PICK move \in Moves : move = [uri |-> a.uri, code |-> code]
  BY <1>2, <1>3 DEF Moves
<1>5. move \in [uri: Paths, code: Statuses]
  BY <1>2, <1>3, <1>4
<1>6. PICK n \in Responses : n = NewResponse
  BY NewTyped
<1>7. n.head = NoHead
  BY <1>6 DEF NewResponse
<1>8. q = [n EXCEPT !.redirect = move]
  BY <1>1, <1>4, <1>6
<1>9. q \in Responses /\ q.redirect = move /\ q.head = NoHead
  BY <1>5, <1>7, <1>8 DEF Responses
<1>10. QED
  BY <1>4, <1>9 DEF Sendable, Ready

\* The error of a CGI is a 500 that is answered, or an error for another turn.
LEMMA CgiErrorSendable ==
  ASSUME IInv, NEW code \in {413, 500, 502, 504}
  PROVE  Sendable(server, CgiError(code), handler, close, pageKeeps)
<1>1. PICK q : q = CgiError(code)
  OBVIOUS
<1>2. handler \in Handlers /\ close \in BOOLEAN /\ pageKeeps \in BOOLEAN
  BY DEF IInv, Typed, TypeOK
<1>3. PICK n \in Responses : n = NewResponse
  BY NewTyped
<1>4. n.redirect = NoRedirect
  BY <1>3 DEF NewResponse
<1>5. PICK r : r = [n EXCEPT !.mod = {"ERROR"}, !.status = code]
  OBVIOUS
<1>6. code \in Statuses
  BY KnownStatuses
<1>7. r \in Responses /\ r.mod = {"ERROR"} /\ r.status = code
        /\ r.redirect = NoRedirect
  BY <1>4, <1>5, <1>6 DEF Responses, Mods
<1>8. q = ErrorRespnseHandling(r, handler, pageKeeps, "done")
  BY <1>1, <1>3, <1>5, <1>7 DEF CgiError, MakeResponse
<1>9. NoRedirect \in Moves
  BY EmptyPath DEF NoRedirect, Moves
<1>10. CASE code # 500
  <2>1. q = r
    BY <1>7, <1>8, <1>10 DEF ErrorRespnseHandling, AnswersNow
  <2>2. QED
    BY <1>1, <1>7, <1>9, <2>1 DEF Sendable, Ready
<1>11. CASE code = 500
  <2>1. PICK io \in Outcomes : io = "done"
    BY DEF Outcomes
  <2>2. Paged(q, r, pageKeeps)
    BY <1>2, <1>7, <1>8, <1>11, <2>1, ErrorMade
  <2>3. q \in Responses /\ q.redirect = NoRedirect /\ q.body # CgiBody
          /\ q.head.keep = q.keep /\ (q.head.status # 404 => q.keep = pageKeeps)
          /\ q.head.status \in {404, 500}
    BY <1>7, <1>11, <2>2 DEF Paged
  <2>4. Framing(q, handler)
    BY <1>7, <2>2 DEF Paged, Broken, Framing
  <2>5. Sent(server, q, handler, close, pageKeeps)
    <3>1. q.head.status >= 300 /\ ~(q.head.status < 300)
      BY <2>3
    <3>2. q.head.status # 404 => q.keep = (pageKeeps /\ q.body # CgiBody)
      BY <1>2, <2>3
    <3>3. QED
      BY <2>3, <2>4, <3>1, <3>2 DEF Sent, Failing
  <2>6. QED
    BY <1>1, <1>9, <2>3, <2>5 DEF Sendable
<1>12. QED
  BY <1>10, <1>11

LEMMA StartCgiInv == ASSUME IInv, StartCgi PROVE IInv'
<1>1. phase = "start" /\ UNCHANGED <<server, fs, request, close, pageKeeps>>
  BY DEF StartCgi
<1>2. CASE phase' = "cgi" /\ UNCHANGED <<handler, response, counter, refused>>
  <2>1. Typed'
    BY <1>1, <1>2 DEF IInv, Typed, TypeOK
  <2>2. Before' /\ FramingAgrees' /\ KeepAgrees' /\ ErrorsStayErrors'
    BY <1>2 DEF Before, FramingAgrees, KeepAgrees, ErrorsStayErrors, Answer
  <2>3. Errors'
    BY <1>1, <1>2 DEF IInv, Errors
  <2>4. Deletes'
    BY <1>1, <1>2 DEF IInv, Deletes
  <2>5. QED
    BY <2>1, <2>2, <2>3, <2>4 DEF IInv
<1>3. CASE InitRespond(CgiError(500))
  <2>1. Sendable(server, CgiError(500), handler, close, pageKeeps)
    BY CgiErrorSendable
  <2>2. PICK r : r = CgiError(500)
    OBVIOUS
  <2>3. Sendable(server, r, handler, close, pageKeeps) /\ InitRespond(r)
    BY <1>3, <2>1, <2>2
  <2>4. fs' \in [DOMAIN Files -> Kinds] /\ pageKeeps' \in BOOLEAN
    BY <1>1 DEF IInv, Typed, TypeOK
  <2>5. QED
    BY <1>1, <2>3, <2>4, RespondedInv
<1>4. QED
  BY <1>2, <1>3 DEF StartCgi

LEMMA EndCgiInv == ASSUME IInv, EndCgi PROVE IInv'
<1>1. phase = "cgi" /\ UNCHANGED <<server, fs, request, close, pageKeeps>>
  BY DEF EndCgi
<1>2. PICK r \in {CgiAnswer(status, disk) : status \in {200, 404, 503}, disk \in BOOLEAN}
                \cup CgiRedirects \cup {CgiError(code) : code \in {413, 500, 502, 504}} :
        InitRespond(r)
  BY DEF EndCgi
<1>3. close \in BOOLEAN /\ pageKeeps \in BOOLEAN
        /\ fs' \in [DOMAIN Files -> Kinds] /\ pageKeeps' \in BOOLEAN
  BY <1>1 DEF IInv, Typed, TypeOK
<1>4. Sendable(server, r, handler, close, pageKeeps)
  <2>1. CASE r \in {CgiAnswer(status, disk) : status \in {200, 404, 503}, disk \in BOOLEAN}
    <3>1. PICK status \in {200, 404, 503}, disk \in BOOLEAN : r = CgiAnswer(status, disk)
      BY <2>1
    <3>2. QED
      BY <1>3, <3>1, CgiAnswerSendable
  <2>2. CASE r \in CgiRedirects
    BY <1>3, <2>2, CgiRedirectSendable
  <2>3. CASE r \in {CgiError(code) : code \in {413, 500, 502, 504}}
    <3>1. PICK code \in {413, 500, 502, 504} : r = CgiError(code)
      BY <2>3
    <3>2. QED
      BY <3>1, CgiErrorSendable
  <2>4. QED
    BY <2>1, <2>2, <2>3
<1>5. QED
  BY <1>1, <1>2, <1>3, <1>4, RespondedInv

LEMMA FinishInv == ASSUME IInv, Finish PROVE IInv'
<1>1. phase' = "idle" /\ request' = NoRequest /\ close' = FALSE
        /\ handler' = ResetHandler(handler) /\ response' = NewResponse
        /\ counter' = 0 /\ refused' = 0 /\ UNCHANGED <<server, fs, pageKeeps>>
  BY DEF Finish
<1>2. PICK clean \in Handlers : clean = ResetHandler(handler)
  BY ResetTyped DEF IInv, Typed, TypeOK
<1>3. Fresh(clean) /\ handler' = clean
  BY <1>1, <1>2, ResetTyped DEF IInv, Typed, TypeOK
<1>4. NewResponse \in Responses /\ NewResponse.mod \subseteq Mods
        /\ NewResponse.head \in [status: Statuses, keep: BOOLEAN,
                                 framing: {"none", "length", "chunked"}]
  BY NewTyped DEF Responses
<1>5. Typed'
  <2>1. 0 \in 0 .. MaxInternalLoop /\ 0 \in Statuses
    BY ResponseAssumption, CodesTyped
  <2>2. QED
    BY <1>1, <1>3, <1>4, <2>1 DEF IInv, Typed, TypeOK
<1>6. Before' /\ Errors' /\ Deletes'
  BY <1>1, <1>3 DEF Before, Errors, Deletes
<1>7. FramingAgrees' /\ KeepAgrees' /\ ErrorsStayErrors'
  BY <1>1 DEF FramingAgrees, KeepAgrees, ErrorsStayErrors, Answer
<1>8. QED
  BY <1>5, <1>6, <1>7 DEF IInv

LEMMA NextInv == ASSUME IInv, [Next]_vars PROVE IInv'
<1>1. CASE ReadRequestLine
  BY <1>1, ReadRequestLineInv
<1>2. CASE ReadHeaders
  BY <1>2, ReadHeadersInv
<1>3. CASE ReadBody
  BY <1>3, ReadBodyInv
<1>4. CASE Respond
  BY <1>4, RespondInv
<1>5. CASE StartCgi
  BY <1>5, StartCgiInv
<1>6. CASE EndCgi
  BY <1>6, EndCgiInv
<1>7. CASE Finish
  BY <1>7, FinishInv
<1>8. CASE UNCHANGED vars
  <2>1. Typed' /\ Before' /\ Errors' /\ Deletes'
    BY <1>8 DEF vars, IInv, Typed, TypeOK, Before, Errors, Deletes
  <2>2. FramingAgrees' /\ KeepAgrees' /\ ErrorsStayErrors'
    BY <1>8 DEF vars, IInv, FramingAgrees, KeepAgrees, ErrorsStayErrors, Answer,
                BrokenListing, Announced, bodyPlace
  <2>3. QED
    BY <2>1, <2>2 DEF IInv
<1>9. QED
  BY <1>1, <1>2, <1>3, <1>4, <1>5, <1>6, <1>7, <1>8 DEF Next, Proceed

LEMMA InitInv == ASSUME Init PROVE IInv
<1>1. NewHandler \in Handlers /\ Fresh(NewHandler)
  <2>1. NoReturn \in Returns
    BY EmptyPath, KnownStatuses DEF NoReturn, Returns, NoCode
  <2>2. 0 \in Statuses /\ "GET" \in Methods
    BY KnownStatuses DEF Methods
  <2>3. QED
    BY <2>1, <2>2, EmptyPath DEF NewHandler, Handlers, Fresh
<1>2. NewResponse \in Responses /\ NewResponse.mod \subseteq Mods
        /\ NewResponse.head \in [status: Statuses, keep: BOOLEAN,
                                 framing: {"none", "length", "chunked"}]
  BY NewTyped DEF Responses
<1>3. Typed
  <2>1. 0 \in 0 .. MaxInternalLoop /\ 0 \in Statuses
    BY ResponseAssumption, CodesTyped
  <2>2. Files \in [DOMAIN Files -> Kinds]
    BY ResponseAssumption
  <2>3. QED
    BY <1>1, <1>2, <2>1, <2>2 DEF Init, Typed, TypeOK
<1>4. Before /\ Errors /\ Deletes
  BY <1>1 DEF Init, Before, Errors, Deletes
<1>5. FramingAgrees /\ KeepAgrees /\ ErrorsStayErrors
  BY DEF Init, FramingAgrees, KeepAgrees, ErrorsStayErrors, Answer
<1>6. QED
  BY <1>3, <1>4, <1>5 DEF IInv

-----------------------------------------------------------------------------
(***************************************************************************)
(* The theorems.                                                           *)
(***************************************************************************)
LEMMA Invariant == Spec => []IInv
<1>1. Init => IInv
  BY InitInv
<1>2. IInv /\ [Next]_vars => IInv'
  BY NextInv
<1>3. QED
  BY <1>1, <1>2, PTL DEF Spec

\* The variables keep their types, whatever the configuration, the requests and
\* what is on disk: a handler is made of paths, methods and codes, and at most
\* MaxInternalLoop turns are counted.
THEOREM ResponseTypeCorrect == Spec => []TypeOK
<1>1. IInv => TypeOK
  BY DEF IInv, Typed
<1>2. QED
  BY <1>1, Invariant, PTL

\* A head announces the body that is sent after it (_InitialHeaders,
\* _HeadersErrorResponse, _HeaderResponseCGI, _initalizeRespondBuffer), but for
\* one answer, which never does: a directory with a listing of its own that
\* opendir() refuses for another reason than ENOENT or ENOTDIR
\* (_InitialAutoIndex) gets a counted page and is sent as a listing.
THEOREM HeadsAnnounceBodies == Spec => []FramingAgrees
<1>1. IInv => FramingAgrees
  BY DEF IInv
<1>2. QED
  BY <1>1, Invariant, PTL

\* The connection ends or not as the head says (_InitialHeaders, ResponseError).
THEOREM HeadsAnnounceEnds == Spec => []KeepAgrees
<1>1. IInv => KeepAgrees
  BY DEF IInv
<1>2. QED
  BY <1>1, Invariant, PTL

\* What was refused is not answered with success, whatever its page leads to,
\* through any number of redirections (_handleInternal, generateErrorPath).
THEOREM ErrorsAreAnswered == Spec => []ErrorsStayErrors
<1>1. IInv => ErrorsStayErrors
  BY DEF IInv
<1>2. QED
  BY <1>1, Invariant, PTL

\* One step of DeleteOnlyAllowed.
OnlyOwnRemoved ==
  fs' # fs =>
    /\ request.method = "DELETE" /\ refused = 0
    /\ \E l \in findBestLocation(server, request.uri) :
         /\ "DELETE" \in l.methods
         /\ \A p \in DOMAIN fs :
              fs'[p] # fs[p] => p = Plain(createPhysicalPath(l, request.uri))

LEMMA RespondRemoves == ASSUME IInv, Respond PROVE OnlyOwnRemoved
<1> SUFFICES ASSUME fs' # fs
             PROVE  /\ request.method = "DELETE" /\ refused = 0
                    /\ \E l \in findBestLocation(server, request.uri) :
                         /\ "DELETE" \in l.methods
                         /\ \A p \in DOMAIN fs :
                              fs'[p] # fs[p] => p = Plain(createPhysicalPath(l, request.uri))
  BY DEF OnlyOwnRemoved
<1>1. PICK begun : begun = Begun(handler)
  OBVIOUS
<1>2. PICK io \in Answers(begun) :
        \E made \in {MakeResponse(begun, handler, close, pageKeeps, io)} :
          /\ InitRespond(made)
          /\ fs' = Removed(made, io)
          /\ pageKeeps' = KeepsAfter(made)
  BY <1>1 DEF Respond, Begun
<1>3. PICK made : /\ made = MakeResponse(begun, handler, close, pageKeeps, io)
                  /\ fs' = Removed(made, io)
  BY <1>2
<1>4. phase = "start" /\ ~handler.cgi
  BY DEF Respond
<1>5. handler \in Handlers /\ close \in BOOLEAN /\ pageKeeps \in BOOLEAN
        /\ fs \in [DOMAIN Files -> Kinds]
  BY DEF IInv, Typed, TypeOK
<1>6. io \in Outcomes
  BY DEF Answers, Outcomes
<1>7. Replied(server, made, handler, close, pageKeeps)
  BY <1>1, <1>3, <1>5, <1>6, TurnReplied
<1>8. "DELETE" \in made.mod /\ io = "done"
        /\ fs' = [fs EXCEPT ![Plain(handler.path)] = "none"]
  BY <1>3 DEF Removed
<1>9. handler.method = "DELETE" /\ handler.status = 0 /\ handler.ret.code = NoCode
  BY <1>7, <1>8 DEF Replied, Removing
<1>10. request.method = "DELETE" /\ refused = 0
  BY <1>4, <1>9 DEF IInv, Deletes
<1>11. PICK l \in findBestLocation(server, request.uri) :
         /\ "DELETE" \in l.methods
         /\ handler.path \in {<<>>, createPhysicalPath(l, request.uri)}
  BY <1>4, <1>9 DEF IInv, Deletes, Own
<1>12. handler.path # <<>>
  <2> SUFFICES ASSUME handler.path = <<>> PROVE FALSE
    OBVIOUS
  <2>1. checkPath(fs, handler.path) = "none"
    BY DEF checkPath
  <2>2. Answers(begun) = {"fails"}
    BY <2>1 DEF Answers
  <2>3. QED
    BY <1>8, <2>2
<1>13. \A p \in DOMAIN fs : fs'[p] # fs[p] => p = Plain(handler.path)
  BY <1>5, <1>8
<1>14. handler.path = createPhysicalPath(l, request.uri)
  BY <1>11, <1>12
<1>15. QED
  BY <1>10, <1>11, <1>13, <1>14

\* remove() is called for a file the client named, where DELETE is allowed
\* (isMethodAllowed, handleDirectory, DeleteResource).
THEOREM DeletesWhatIsNamed == Spec => DeleteOnlyAllowed
<1>1. IInv /\ [Next]_vars => [OnlyOwnRemoved]_vars
  <2> SUFFICES ASSUME IInv, Next PROVE OnlyOwnRemoved
    OBVIOUS
  <2>1. CASE Respond
    BY <2>1, RespondRemoves
  <2>2. CASE ReadRequestLine \/ ReadHeaders \/ ReadBody \/ StartCgi \/ EndCgi \/ Finish
    <3>1. fs' = fs
      <4>1. CASE ReadRequestLine
        BY <4>1 DEF ReadRequestLine
      <4>2. CASE ReadHeaders
        BY <4>2 DEF ReadHeaders
      <4>3. CASE ReadBody
        BY <4>3 DEF ReadBody
      <4>4. CASE StartCgi
        BY <4>4 DEF StartCgi
      <4>5. CASE EndCgi
        BY <4>5 DEF EndCgi
      <4>6. CASE Finish
        BY <4>6 DEF Finish
      <4> QED
        BY <2>2, <4>1, <4>2, <4>3, <4>4, <4>5, <4>6
    <3>2. QED
      BY <3>1 DEF OnlyOwnRemoved
  <2>3. QED
    BY <2>1, <2>2 DEF Next, Proceed
<1>2. Spec => [][OnlyOwnRemoved]_vars
  BY <1>1, Invariant, PTL DEF Spec
<1>3. QED
  BY <1>2, PTL DEF DeleteOnlyAllowed, OnlyOwnRemoved
=============================================================================
