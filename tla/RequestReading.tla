--------------------------- MODULE RequestReading ---------------------------
(***************************************************************************)
(* A client sends a request, the server reads it in pieces: the buffers of *)
(* clsClient::_ReadDataForReq, RequestParsing, the chunks of clsBody that  *)
(* follow the header section, and what a CGI is given of the headers.      *)
(***************************************************************************)
EXTENDS RequestParsing

CONSTANTS
  Elements,   \* what a buffer holds
  Requests    \* what clients send: see Text

\* The words a request is put together with.
Words == {"GE", "POS", "DELE", "T", "TE", " ", "HTTP/", "1.1", "cr", "lf", ":", "0", "1", "2"}
Written == [method : DOMAIN Methods, target : Seq(Elements),
            headers : Seq([key : Seq(Elements), value : Seq(Elements)]),
            chunks : Seq({c \in Seq(Elements) : Len(c) \in {1, 2, 16}}), raw : Seq(Elements)]

ASSUME ReadingAssumption ==
  /\ {BufferRequest, SizeBuffer, MaxUnknown} \subseteq Nat \ {0}
  /\ MaxBodySize \in Nat
  /\ Words \subseteq Elements
  /\ Requests \subseteq Written

VARIABLES
  request,  \* what the client sends
  sent,     \* how many elements of it were received
  parser,   \* RequestParser and the objects it has
  body      \* clsBody and io_chunk

vars == <<request, sent, parser, body>>

-----------------------------------------------------------------------------
(***************************************************************************)
(* A request as a client writes it: method, target, headers and the chunks *)
(* of its body; or raw elements.                                           *)
(***************************************************************************)
Crlf == <<"cr", "lf">>
Cat(seqs) ==
  LET upTo[i \in 0 .. Len(seqs)] == IF i = 0 THEN <<>> ELSE upTo[i - 1] \o seqs[i]
  IN upTo[Len(seqs)]
HeaderText(h) == h.key \o <<":">> \o h.value \o Crlf
SizeText(chunk) == IF Len(chunk) = 16 THEN <<"1", "0">>
                   ELSE <<CASE Len(chunk) = 1 -> "1" [] Len(chunk) = 2 -> "2">>
ChunkText(chunk) == SizeText(chunk) \o Crlf \o chunk \o Crlf

Text(r) ==
  IF r.raw # <<>> THEN r.raw
  ELSE Methods[r.method] \o <<" ">> \o r.target \o <<" ", "HTTP/", "1.1">> \o Crlf
         \o Cat([i \in DOMAIN r.headers |-> HeaderText(r.headers[i])]) \o Crlf
         \o (IF r.method # "POST" THEN <<>>
             ELSE Cat([i \in DOMAIN r.chunks |-> ChunkText(r.chunks[i])])
                    \o <<"0">> \o Crlf \o Crlf)

-----------------------------------------------------------------------------
(***************************************************************************)
(* The chunks of clsBody.  data is io_chunk, cur and trav are its cursors, *)
(* left is what maxBodySize has become; x is a turn of _handleChunk, with  *)
(* totRemoves and how the turn ends.                                       *)
(***************************************************************************)
NewBody == [state |-> "SETTING_VARS", data |-> <<>>, cur |-> 0, trav |-> 0, size |-> 0,
            readsize |-> TRUE, left |-> MaxBodySize, file |-> <<>>, status |-> 0]

FailBody(b, code) == [b EXCEPT !.state = "DONE_WIHTERROR", !.status = code]

\* HelperFunctions::ConvertStrToNum in base 16, of all that is from the size on:
\* strtol() begins with skipping blanks, even the end of a line that has no size,
\* and no digits are zero.
HexValue(e) == CASE e = "0" -> 0 [] e = "1" -> 1 [] e = "2" -> 2
                 [] e = "e" -> 14 [] e = "f" -> 15
Space == Blank \cup {"cr", "lf"}
Value(digits) ==
  LET upTo[i \in 0 .. Len(digits)] ==
        IF i = 0 THEN 0 ELSE 16 * upTo[i - 1] + HexValue(digits[i])
  IN upTo[Len(digits)]
Number(s) ==
  LET first == Min({i \in DOMAIN s : s[i] \notin Space} \cup {Len(s) + 1})
      end == Min({i \in first .. Len(s) : s[i] \notin Hex} \cup {Len(s) + 1})
      digits == SubSeq(s, first, end - 1)
  IN IF digits # <<>> /\ end <= Len(s) /\ s[end] \notin Space THEN -1
     ELSE IF s # <<>> /\ digits = <<>> /\ first = 1 THEN -1
     ELSE Value(digits)

Turn(b, removed, flow) == [b |-> b, removed |-> removed, flow |-> flow]

ReadSizeChunk(b, removed) ==
  LET t == b.trav
      more == t + 1 < Len(b.data)
      size == Number(SubSeq(b.data, b.cur + 1, Len(b.data)))
      line == [b EXCEPT !.trav = t + 2, !.cur = t + 2, !.size = size, !.readsize = FALSE,
                        !.state = IF size = 0 THEN "SECOND_CRLF" ELSE @]
  IN IF b.data[t + 1] # "cr" THEN Turn([b EXCEPT !.trav = t + 1], removed, "go")
     ELSE IF ~more THEN Turn(b, removed, "break")
     ELSE IF b.data[t + 2] # "lf" THEN Turn(FailBody(b, 400), removed, "error")
     ELSE IF size < 0 THEN Turn(FailBody(b, 400), removed + t + 2 - b.cur, "error")
     ELSE Turn(line, removed + t + 2 - b.cur, "go")

HasEnd(b, t) == t + 1 < Len(b.data)

SaveChunkBody(b, removed) ==
  LET n == Min({Len(b.data) - b.trav, b.size})
      t == b.trav + n
      saved == [b EXCEPT !.file = @ \o SubSeq(b.data, b.trav + 1, t),
                         !.trav = t, !.size = @ - n]
      next == [saved EXCEPT !.trav = t + 2, !.cur = t + 2, !.readsize = TRUE]
  IN IF ~HasEnd(b, t) THEN Turn(saved, removed + n, "break")
     ELSE IF SubSeq(b.data, t + 1, t + 2) = Crlf THEN Turn(next, removed + n + 2, "go")
     ELSE Turn(FailBody(saved, 400), removed + n, "error")

\* The limit counts the sizes and the ends of the chunks too, and is not looked
\* at when a turn has to wait for more.
Limited(x) ==
  IF x.flow # "break" /\ MaxBodySize # 0 /\ x.b.left < x.removed
    THEN Turn(FailBody(x.b, 413), x.removed, "error") ELSE x

\* The loop ends with an error, at the end of the data, and at the last chunk.
TakeTurn(x) ==
  IF x.flow # "go" \/ x.b.state = "SECOND_CRLF" \/ x.b.trav >= Len(x.b.data) THEN x
  ELSE Limited(IF x.b.readsize THEN ReadSizeChunk(x.b, x.removed)
               ELSE SaveChunkBody(x.b, x.removed))

\* A turn that goes on takes an element at least.
Turns(b) ==
  LET after[k \in 0 .. Len(b.data)] ==
        IF k = 0 THEN Turn(b, 0, "go") ELSE TakeTurn(after[k - 1])
  IN after

\* Fault: what was stored stays in the buffer.
ShiftNothing(b, removed) == [b EXCEPT !.left = @ - removed]

\* Fault: the cursor of the size line is not moved back with the data.
ShiftOnly(b, removed) ==
  [b EXCEPT !.data = SubSeq(@, removed + 1, Len(@)), !.trav = @ - removed,
            !.left = @ - removed]

\* shiftingData, the cursors and the limit.
Shift(b, removed) ==
  [b EXCEPT !.data = SubSeq(@, removed + 1, Len(@)), !.cur = 0,
            !.trav = @ - removed, !.left = @ - removed]

\* clsBody::_handleChunk; nothing is shifted while the end of the last chunk is
\* awaited.
HandleChunk(b) ==
  LET x == Turns(b)[Len(b.data)]
      end == SubSeq(x.b.data, x.b.cur + 1, Min({x.b.cur + 2, Len(x.b.data)}))
  IN IF x.flow = "error" THEN x.b
     ELSE IF x.b.state # "SECOND_CRLF" THEN Shift(x.b, x.removed)
     ELSE IF Len(end) < 2 THEN x.b
     ELSE IF end = Crlf THEN [x.b EXCEPT !.state = "DONE_GOOD"]
     ELSE FailBody(x.b, 400)

\* RequestParser::ParseBody and clsBody::bodyHandler, as a body begins; one with
\* a length is left to BodyStore.
BeginBody(p, data) ==
  LET coding == p.known["coding"]
      reading == [NewBody EXCEPT !.state = "READING_BODY", !.data = data]
  IN IF ~coding.there /\ ~p.known["length"].there THEN FailBody(NewBody, 411)
     ELSE IF ~coding.there THEN [NewBody EXCEPT !.state = "DONE_GOOD"]
     ELSE IF coding.val # <<"chunked">> THEN FailBody(NewBody, 400)
     ELSE HandleChunk(reading)

-----------------------------------------------------------------------------
(***************************************************************************)
(* The headers of a CGI.                                                   *)
(***************************************************************************)
\* Fault: a value takes the place of the ones linked before it.
LinkFirst(u, i, j) ==
  IF j # i /\ u[i].alone /\ u[j].alone /\ u[i].key = u[j].key
    THEN [u EXCEPT ![i].next = j, ![j].alone = FALSE] ELSE u

\* HeaderTable::linkThisHeader, up to the first empty name: the j-th header
\* joins the chain of the i-th.
LinkPair(u, i, j) ==
  LET last == LastOf(u, i)
  IN IF j # i /\ u[i].alone /\ u[j].alone /\ u[i].key = u[j].key
       THEN [u EXCEPT ![last].next = j, ![j].alone = FALSE] ELSE u

LinkThisHeader(u) ==
  LET empty == {i \in DOMAIN u : u[i].key = <<>>}
      n == IF empty = {} THEN Len(u) ELSE Min(empty) - 1
      pairs == [k \in 1 .. n * n |-> <<((k - 1) \div n) + 1, ((k - 1) % n) + 1>>]
      link(v, ij) == LinkPair(v, ij[1], ij[2])
  IN FoldLeft(link, u, pairs)

\* HelperFunctions::ft_str_copy: a name becomes that of a variable; of a value
\* whose length is about 2^16 nothing is copied.
Uppered(key) == [i \in DOMAIN key |-> CASE key[i] = "a" -> "A" [] key[i] = "-" -> "_"
                                        [] OTHER -> key[i]]
Copied(v) == IF v = Wrapped THEN <<>> ELSE v

\* clsCGI::_ConcatonateValueHeaders: a comma is between the values of a chain.
Chained(u, i) ==
  LET from[k \in 0 .. Len(u)] ==
        IF k = 0 THEN <<>>
        ELSE Copied(u[k].val) \o (IF u[k].next = 0 THEN <<>> ELSE <<",">>) \o from[u[k].next]
  IN from[i]

\* clsCGI::_OtherHeaders: cookies, the coding and the host, then the unknown ones;
\* nothing is between the value of a known one and the chain behind it.
Variable(key, value) == [name |-> Uppered(key), value |-> value]
OtherHeaders(p) ==
  LET u == LinkThisHeader(p.unknown)
      joined(k) == IF ~p.known[k].there THEN <<>>
                   ELSE <<Variable(<<k>>, Copied(p.known[k].val)
                                            \o Chained(u, p.known[k].next))>>
      alone == SelectSeq([i \in DOMAIN u |-> i], LAMBDA i : u[i].alone)
  IN joined("cookie") \o joined("coding") \o joined("host")
       \o [k \in DOMAIN alone |-> Variable(u[alone[k]].key, Chained(u, alone[k]))]

\* clsCGI::_CONTENT_TYPE: the first one, or a pair of quotes without one.
Quotes == <<"quotes">>
ContentType(p) == IF p.known["type"].there THEN Copied(p.known["type"].val) ELSE Quotes

-----------------------------------------------------------------------------
(***************************************************************************)
(* clsClient::_ReadDataForReq and ProcessRequest.                          *)
(***************************************************************************)
Finished(p, b) ==
  \/ p.status # 0 \/ p.state = "COMPLETE"
  \/ b.state \in {"DONE_GOOD", "DONE_WIHTERROR"}
Done == Finished(parser, body)

Init ==
  /\ request \in Requests
  /\ sent = 0
  /\ parser = NewParser
  /\ body = NewBody

InBody == parser.state = "BODY"
Room == IF InBody THEN SizeBuffer - Len(body.data) ELSE BufferRequest - sent
Piece(n) == SubSeq(Text(request), sent + 1, sent + n)

\* What a read begins the body with is behind the header section.
Reached(p, piece) ==
  IF p.status = 0 /\ p.state = "BODY"
    THEN BeginBody(p, SubSeq(piece, Len(piece) - (sent + Len(piece) - p.offset) + 1,
                             Len(piece)))
    ELSE body

RecvHead ==
  /\ ~Done /\ ~InBody
  /\ \E n \in 1 .. Room :
       /\ sent + n <= Len(Text(request))
       /\ sent' = sent + n
       /\ \E p \in {Parse(parser, Piece(n))} :
            /\ parser' = p
            /\ body' = Reached(p, Piece(n))
  /\ UNCHANGED request

RecvBody ==
  /\ ~Done /\ InBody
  /\ \E n \in 1 .. Room :
       /\ sent + n <= Len(Text(request))
       /\ sent' = sent + n
       /\ body' = HandleChunk([body EXCEPT !.data = @ \o Piece(n)])
  /\ UNCHANGED <<request, parser>>

Next == RecvHead \/ RecvBody
Spec == Init /\ [][Next]_vars

-----------------------------------------------------------------------------
(***************************************************************************)
(* Properties.                                                             *)
(***************************************************************************)
TypeOK ==
  /\ request \in Requests /\ sent \in 0 .. Len(Text(request))
  /\ parser.offset <= sent /\ parser.status \in {0, 400, 405, 431, 505}
  /\ body.status \in {0, 400, 411, 413}

\* What is known of a request when it was read.
Outcome(p, b) ==
  [status |-> IF p.status # 0 THEN p.status ELSE b.status, method |-> p.method,
   path |-> Normalised(p.path), query |-> p.query, headers |-> OtherHeaders(p),
   type |-> ContentType(p), connection |-> p.known["connection"].val,
   payload |-> b.file]

\* The same, had the request come in one piece, or as few as the buffer allows.
Whole(r) ==
  LET text == Text(r)
      n == Min({Len(text), BufferRequest})
      p == Parse(NewParser, SubSeq(text, 1, n))
      data == SubSeq(text, p.offset + 1, Len(text))
  IN Outcome(p, IF p.status = 0 /\ p.state = "BODY" THEN BeginBody(p, data) ELSE NewBody)

\* "http://" with its host and port: _parseHost, _parsePort and parseScheme take
\* the end of a read for the end of what they read.
Absolute ==
  LET text == Text(request)
  IN \E i \in 4 .. Len(text) : text[i] = "http:" /\ \A j \in 3 .. i - 1 : text[j] \in Blank

\* What the chunks of a body are, read an element at a time: k.at is what comes
\* next, k.line is what was read of a size line, k.left is what the chunk has
\* left, k.cr whether the first half of an end was right.
NewChunks == [at |-> "size", line |-> <<>>, left |-> 0, cr |-> FALSE, file |-> <<>>, status |-> 0]
Refused(k, code) == [k EXCEPT !.at = "refused", !.status = code]
Over(n) == MaxBodySize # 0 /\ MaxBodySize < n

SizeRead(k, n) ==
  LET size == Number(k.line)
  IN IF Over(n) THEN Refused(k, 413)
     ELSE IF size < 0 THEN Refused(k, 400)
     ELSE [k EXCEPT !.at = IF size = 0 THEN "last" ELSE "data", !.left = size]

\* e is the n-th element behind the header section.
ReadOn(k, e, n) ==
  CASE k.at = "size" -> IF e = "cr" THEN [k EXCEPT !.at = "sizeEnd"]
                        ELSE [k EXCEPT !.line = Append(@, e)]
    [] k.at = "sizeEnd" -> IF e = "lf" THEN SizeRead(k, n) ELSE Refused(k, 400)
    [] k.at = "data" -> IF k.left = 0 THEN [k EXCEPT !.at = "end", !.cr = e = "cr"]
                        ELSE [k EXCEPT !.file = Append(@, e), !.left = @ - 1]
    [] k.at = "end" -> IF k.cr /\ e = "lf"
                         THEN IF Over(n) THEN Refused(k, 413)
                              ELSE [k EXCEPT !.at = "size", !.line = <<>>]
                       ELSE Refused(k, IF Over(n - 2) THEN 413 ELSE 400)
    [] k.at = "last" -> [k EXCEPT !.at = "lastEnd", !.cr = e = "cr"]
    [] k.at = "lastEnd" -> IF k.cr /\ e = "lf" THEN [k EXCEPT !.at = "done"]
                            ELSE Refused(k, 400)
    [] OTHER -> k

Chunks(data) ==
  LET after[n \in 0 .. Len(data)] ==
        IF n = 0 THEN NewChunks ELSE ReadOn(after[n - 1], data[n], n)
  IN after

\* A size line without a size takes what is behind it for its number, when that
\* has come.
NoSize ==
  LET data == SubSeq(Text(request), parser.offset + 1, Len(Text(request)))
      chunks == Chunks(data)
  IN InBody /\ \E n \in DOMAIN data :
                 /\ chunks[n - 1].at = "size" /\ data[n] = "cr"
                 /\ Range(chunks[n - 1].line) \subseteq Space

\* A request means the same wherever the network cut it: in a word, between the
\* digits of a "%", in an end of line, in the size or the end of a chunk.  Where
\* two reads of it differ, one of them would be refused, or take one path, one
\* header or one body for another.
CutIndependent ==
  Done /\ ~Absolute /\ ~NoSize =>
    LET seen == Outcome(parser, body)
        whole == Whole(request)
    IN seen.status = whole.status /\ (seen.status = 0 => seen = whole)

\* The payload of an upload is that of its chunks, without their sizes and ends.
PayloadExact ==
  Done /\ request.raw = <<>> /\ request.method = "POST" /\ parser.status = 0
       /\ body.status = 0 =>
    body.file = Cat(request.chunks)

\* The segments of a path.
Segments(path) ==
  LET cuts == {i \in DOMAIN path : path[i] = "/"} \cup {Len(path) + 1}
      next(i) == Min({k \in cuts : k > i})
      starts == SetToSortSeq(cuts \ {Len(path) + 1}, <)
  IN [k \in DOMAIN starts |-> SubSeq(path, starts[k] + 1, next(starts[k]) - 1)]
Up == <<".", ".">>
Joined(segments) == Cat([i \in DOMAIN segments |-> <<"/">> \o segments[i]])

\* Where a decoded path leads, a segment at a time, when the buffer goes on with
\* behind.  ".", ".." and empty segments are only seen before a slash, be it the one
\* that decoding has left behind the path; and what follows ".." is taken as it is,
\* another ".." or an empty segment too.
Resolve(path, behind) ==
  LET segs == Segments(path \o behind)
      n == Cardinality({i \in DOMAIN path : path[i] = "/"})
      seen(i) == i < Len(segs)
      text(i) == IF i = n THEN Last(Segments(path)) ELSE segs[i]
      step(x, i) ==
        CASE seen(i) /\ segs[i] = <<".">> -> [x EXCEPT !.up = FALSE]
          [] seen(i) /\ ~x.up /\ segs[i] = <<>> -> x
          [] seen(i) /\ ~x.up /\ segs[i] = Up ->
               [up |-> TRUE, to |-> IF x.to = <<>> THEN x.to ELSE Front(x.to)]
          [] OTHER -> [up |-> FALSE, to |-> Append(x.to, text(i))]
      end == FoldLeft(step, [up |-> FALSE, to |-> <<>>], [i \in 1 .. n |-> i])
      dot == seen(n + 1) /\ segs[n + 1] = <<".">>
  IN IF end.up /\ ~dot THEN Append(end.to, <<>>) ELSE end.to

\* Two cursors in one buffer, over what was decoded in place, route a path to where
\* its segments lead, with any mix of encoded dots and slashes.  It is the code's
\* reading of dot segments, by which a path may keep a ".." and lead above its start.
PathResolved ==
  parser.state \in {"KEY", "COMPLETE"} /\ parser.status = 0 /\ ~Absolute =>
    LET path == Decode(parser.path)
        behind == SubSeq(parser.path, Len(path) + 1, Len(parser.path))
    IN Normalised(parser.path) = Joined(Resolve(path, behind))

\* A value as it was meant, and values one after the other.
Stripped(v) ==
  LET inner == {i \in DOMAIN v : v[i] \notin Blank}
  IN IF inner = {} THEN <<>> ELSE SubSeq(v, Min(inner), Max(inner))
Listed(values) == Cat([k \in DOMAIN values |-> IF k = 1 THEN values[k] ELSE <<",">> \o values[k]])

\* Through the chains of two tables, a CGI is given one variable for every name as it
\* was spelled, with all of its values in the order they came: the first two of a
\* known name without a comma, and each unknown header behind one without a name for
\* itself.  Names that differ in case, or in "-" for "_", are variables of one name.
\* Of the type only the first value is given, of Connection nothing.
HeadersReachCgi ==
  Done /\ request.raw = <<>> /\ parser.status = 0 =>
    LET h == request.headers
        given == OtherHeaders(parser)
        known(i) == h[i].key \in {<<k>> : k \in KnownNames}
        apart(i) == ~known(i) /\ \E j \in 1 .. i : h[j].key = <<>>
        group(i) == IF apart(i) THEN <<i>>
                    ELSE SelectSeq([j \in DOMAIN h |-> j],
                                   LAMBDA j : h[j].key = h[i].key /\ ~apart(j))
        values(i) == [k \in DOMAIN group(i) |-> Stripped(h[group(i)[k]].value)]
        firsts == {i \in DOMAIN h : /\ h[i].key \notin {<<"length">>, <<"type">>, <<"connection">>}
                                    /\ group(i)[1] = i}
        variable(i) == Variable(h[i].key, IF known(i) THEN values(i)[1] \o Listed(Tail(values(i)))
                                          ELSE Listed(values(i)))
        types == {i \in DOMAIN h : h[i].key = <<"type">>}
    IN /\ \A v \in Range(given) \cup {variable(i) : i \in firsts} :
            Cardinality({k \in DOMAIN given : given[k] = v})
              = Cardinality({i \in firsts : variable(i) = v})
       /\ ContentType(parser) = IF types = {} THEN Quotes ELSE values(Min(types))[1]

\* Nobody waits for a request that has come, nor for room: the server decides
\* before its buffer is full.  But a request line that fills it is waited for
\* until the timeout, and so are a size line and the end of a last chunk.
NoStall ==
  ~Done /\ (Room = 0 \/ (request.raw = <<>> /\ sent = Len(Text(request)))) =>
    /\ Room = 0
    /\ \/ parser.state \notin {"BODY", "VALUE", "HEADER_LF", "DECISION"}
       \/ InBody /\ (body.state = "SECOND_CRLF" \/ body.readsize)
=============================================================================
