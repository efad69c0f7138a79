--------------------------- MODULE RequestParsing ---------------------------
(***************************************************************************)
(* A request, read in pieces cut anywhere: RequestParser with RequestLine, *)
(* UriParser, Header and HeaderTable, the chunks of clsBody, the           *)
(* normalisation of the path before it is routed, and the variables of the *)
(* headers in the environment of a CGI (clsCGI::_OtherHeaders).            *)
(*                                                                         *)
(* A request is a sequence of elements, each one byte of the buffers: the  *)
(* fixed words (methods, "http://", the version, an address) are two       *)
(* elements, so that they can be cut, a known header name is one.          *)
(***************************************************************************)
EXTENDS Integers, SequencesExt, FiniteSetsExt

CONSTANTS
  BufferRequest,   \* BUFFER_REQUEST
  SizeBuffer,      \* SIZE_BUFFER
  MaxUnknown,      \* SIZE_UNKNOW_HEADER
  MaxBodySize      \* client_max_body_size of the location, 0 for none

Methods == [GET |-> <<"GE", "T">>, POST |-> <<"POS", "T">>, DELETE |-> <<"DELE", "TE">>]
Digits == {"0", "1", "2"}
Hex == Digits \cup {"e", "f"}
Pchars == Hex \cup {"/", "//", "a", ".", "@", ":", "http:"}
Blank == {" ", "tab"}
KnownNames == {"host", "length", "coding", "type", "connection", "cookie"}
KeyChars == KnownNames \cup {"a", "A", "-", "_", "."}
ValueChars == KeyChars \cup Digits \cup {" ", "chunked", ":", "/"}

-----------------------------------------------------------------------------
(***************************************************************************)
(* The parser: state is the one of the object at work, index counts in a   *)
(* word, path and query are raw, known and unknown are the header slots    *)
(* (next is 0 for INVALID_INDEX, alone is Hash # -1).                      *)
(***************************************************************************)
Absent == [there |-> FALSE, val |-> <<>>, next |-> 0]
NewParser ==
  [state |-> "START", method |-> "GET", index |-> 0, skip |-> 0, host |-> <<>>,
   digit |-> FALSE, back |-> "PATH", pct |-> <<>>, path |-> <<>>, query |-> <<>>,
   key |-> <<>>, val |-> <<>>, blanks |-> FALSE, leading |-> FALSE,
   slot |-> "none", known |-> [k \in KnownNames |-> Absent], unknown |-> <<>>,
   last |-> FALSE, offset |-> 0, status |-> 0]

Fail(p, code) == [p EXCEPT !.status = code]
Go(p, st) == [p EXCEPT !.state = st, !.index = 0]

-----------------------------------------------------------------------------
(***************************************************************************)
(* UriParser.                                                              *)
(***************************************************************************)
\* parsePath, parseQuery and parseFragment.
Add(p, e) ==
  CASE p.state = "PATH" -> [p EXCEPT !.path = @ \o (IF e = "//" THEN <<"/", "/">> ELSE <<e>>)]
    [] p.state = "QUERY" -> [p EXCEPT !.query = Append(@, e)]
    [] OTHER -> p
ParsePath(p, e) ==
  IF e \in Blank THEN Go(p, "VERSION")
  ELSE IF e = "?" /\ p.state = "PATH" THEN Go(p, "QUERY")
  ELSE IF e = "#" /\ p.state # "FRAGMENT" THEN Go(p, "FRAGMENT")
  ELSE IF e = "%" THEN [Go(Add(p, e), "PCT") EXCEPT !.back = p.state, !.pct = <<>>]
  ELSE IF e \in Pchars \/ e = "?" THEN Add(p, e) ELSE Fail(p, 400)

ParsePctEncoded(p, e) ==
  LET q == [Add([p EXCEPT !.state = p.back], e) EXCEPT !.pct = Append(p.pct, e)]
  IN IF e \notin Hex THEN Fail(p, 400)
     ELSE IF Len(q.pct) < 2 THEN [q EXCEPT !.state = "PCT"]
     ELSE IF q.pct = <<"0", "0">> THEN Fail(p, 400) ELSE q

\* _parseHost ends with its piece, whatever was to come.  Only an address is
\* accepted: the error of validateIPv4 stays when the name is a valid one.
FinishHost(p, e) ==
  IF p.host # <<"ip1", "ip2">> THEN Fail(p, 400)
  ELSE IF e = ":" THEN [Go(p, "PORT") EXCEPT !.digit = FALSE]
  ELSE Go(p, "PATH")

EndsHost == {":", "/", "//", "?", "#"}
ParseHost(p, e, end) ==
  LET more == [p EXCEPT !.host = Append(@, e), !.state = "HOST"]
      done == FinishHost(p, e)
  IN IF e \in EndsHost
       THEN IF done.status # 0 \/ done.state = "PORT" THEN done ELSE ParsePath(done, e)
     ELSE IF end THEN FinishHost(more, e) ELSE more

\* _parsePort ends with its piece too.
ParsePort(p, e, end) ==
  IF e \in EndsHost \ {":"}
    THEN IF p.digit THEN ParsePath(Go(p, "PATH"), e) ELSE Fail(p, 400)
  ELSE IF e \notin Digits THEN Fail(p, 400)
  ELSE IF end THEN Go(p, "PATH") ELSE [p EXCEPT !.digit = TRUE]

\* parseAuthority looks for an "@" in what it has, but for the last byte.
ParseAuthority(p, piece, i) ==
  LET ats == {k \in i .. Len(piece) - 1 : piece[k] = "@"}
  IN IF ats = {} THEN ParseHost(p, piece[i], i = Len(piece))
     ELSE [Go(p, "HOST") EXCEPT !.skip = Min(ats)]

\* parseScheme; a piece that begins with a slash is a path, even in "http://".
ParseScheme(p, e, first) ==
  IF e \in {"/", "//"} /\ (first \/ p.index = 0) THEN ParsePath(Go(p, "PATH"), e)
  ELSE IF p.index = 0 /\ e = "http:" THEN [p EXCEPT !.index = 1, !.state = "SCHEMA"]
  ELSE IF p.index = 1 /\ e = "//" THEN Go(p, "AUTHORITY")
  ELSE Fail(p, 400)

-----------------------------------------------------------------------------
(***************************************************************************)
(* RequestLine.                                                            *)
(***************************************************************************)
\* A word, an element at a time: what is not as expected is refused with code.
Word(p, e, word, next, code) ==
  IF e # word[p.index + 1] THEN Fail(p, code)
  ELSE IF p.index + 1 = Len(word) THEN Go(p, next)
  ELSE [p EXCEPT !.index = @ + 1]

SelectMethod(p, e) ==
  LET m == {k \in DOMAIN Methods : Methods[k][1] = e}
  IN IF m = {} THEN Fail(p, 405)
     ELSE [p EXCEPT !.method = CHOOSE k \in m : TRUE, !.state = "METHOD", !.index = 1]

ParseVersion(p, e) ==
  IF e \in Blank /\ p.index = 0 THEN p ELSE Word(p, e, <<"HTTP/", "1.1">>, "CR", 505)

-----------------------------------------------------------------------------
(***************************************************************************)
(* Header: the slots.                                                      *)
(***************************************************************************)
\* The end of the chain of the i-th unknown header.
LastOf(unknown, i) ==
  LET last[k \in DOMAIN unknown] ==
        IF unknown[k].next = 0 THEN k ELSE last[unknown[k].next]
  IN last[i]

Slot(p, alone) == [key |-> p.key, val |-> <<>>, next |-> 0, alone |-> alone]

\* makeKnownHeader: the first takes the slot of its name, the next ones are
\* unknown headers at the end of its chain; a second Host or length is refused.
MakeKnownHeader(p, name) ==
  LET n == Len(p.unknown) + 1
      first == p.known[name].next
      tail == IF first = 0 THEN 0 ELSE LastOf(p.unknown, first)
      more == [p EXCEPT !.unknown = Append(@, Slot(p, FALSE)), !.slot = "unknown"]
  IN IF ~p.known[name].there
       THEN [p EXCEPT !.known[name].there = TRUE, !.slot = name]
     ELSE IF name \in {"host", "length"} THEN Fail(p, 400)
     ELSE IF first = 0 THEN [more EXCEPT !.known[name].next = n]
     ELSE [more EXCEPT !.unknown[tail].next = n]

SelectHeaderSlot(p) ==
  IF Len(p.key) = 1 /\ p.key[1] \in KnownNames THEN MakeKnownHeader(p, p.key[1])
  ELSE [p EXCEPT !.unknown = Append(@, Slot(p, TRUE)), !.slot = "unknown"]

\* storeValue: the blanks at the end are cut, to before the beginning of a value
\* that is only blanks, whose length is then about 2^16.
Wrapped == <<"wrapped">>
Trim(v) == SubSeq(v, 1, Max({i \in DOMAIN v : v[i] \notin Blank} \cup {0}))

StoreValue(p) ==
  LET v == IF p.val = <<>> /\ p.blanks THEN Wrapped ELSE Trim(p.val)
  IN IF p.slot = "host" /\ v = <<>> THEN Fail(p, 400)
     ELSE IF p.slot = "unknown"
       THEN [p EXCEPT !.unknown[Len(p.unknown)].val = v]
     ELSE [p EXCEPT !.known[p.slot].val = v]

-----------------------------------------------------------------------------
(***************************************************************************)
(* Header: the lines.                                                      *)
(***************************************************************************)
ParseKey(p, e) ==
  IF Len(p.unknown) >= MaxUnknown THEN Fail(p, 431)
  ELSE IF e = ":"
    THEN [Go(SelectHeaderSlot(p), "VALUE") EXCEPT !.leading = TRUE, !.blanks = FALSE,
                                                  !.val = <<>>]
  ELSE IF e \in KeyChars THEN [p EXCEPT !.key = Append(@, e)] ELSE Fail(p, 400)

ParseValue(p, e) ==
  LET begun == [p EXCEPT !.leading = FALSE]
  IN IF p.leading /\ e \in Blank THEN [p EXCEPT !.blanks = TRUE]
     ELSE IF e = "cr" THEN Go(StoreValue(begun), "HEADER_LF")
     ELSE IF e \in ValueChars THEN [begun EXCEPT !.val = Append(@, e)]
     ELSE Fail(p, 400)

ParseDecision(p, e) ==
  IF e = "cr" THEN [Go(p, "HEADER_LF") EXCEPT !.last = TRUE]
  ELSE ParseKey([Go(p, "KEY") EXCEPT !.key = <<>>], e)

\* The end of a line; the last one ends the request, or begins its body.
ParseLF(p, e) ==
  IF e # "lf" THEN Fail(p, 400)
  ELSE IF ~p.last THEN Go(p, "DECISION")
  ELSE Go(p, IF p.method = "POST" THEN "BODY" ELSE "COMPLETE")

-----------------------------------------------------------------------------
(***************************************************************************)
(* RequestParser::Parse, before the body: the i-th element of a piece.     *)
(***************************************************************************)
Take(p, piece, i) ==
  LET e == piece[i]
      st == p.state
      end == i = Len(piece)
  IN CASE st = "START" -> SelectMethod(p, e)
       [] st = "METHOD" -> Word(p, e, Methods[p.method], "SPACE", 405)
       [] st = "SPACE" -> IF e \in Blank THEN Go(p, "URI") ELSE Fail(p, 405)
       [] st = "URI" -> IF e \in Blank THEN p ELSE ParseScheme(p, e, i = 1)
       [] st = "SCHEMA" -> ParseScheme(p, e, i = 1)
       [] st = "AUTHORITY" -> ParseAuthority(p, piece, i)
       [] st = "HOST" -> IF i <= p.skip THEN p ELSE ParseHost(p, e, end)
       [] st = "PORT" -> ParsePort(p, e, end)
       [] st \in {"PATH", "QUERY", "FRAGMENT"} -> ParsePath(p, e)
       [] st = "PCT" -> ParsePctEncoded(p, e)
       [] st = "VERSION" -> ParseVersion(p, e)
       [] st = "CR" -> Word(p, e, <<"cr">>, "LF", 400)
       [] st = "LF" -> Word(p, e, <<"lf">>, "KEY", 400)
       [] st = "KEY" -> ParseKey(p, e)
       [] st = "VALUE" -> ParseValue(p, e)
       [] st = "HEADER_LF" -> ParseLF(p, e)
       [] st = "DECISION" -> ParseDecision(p, e)

Ended(p) == p.status # 0 \/ p.state \in {"BODY", "COMPLETE"}
InHeaders(p) == p.state \in {"KEY", "VALUE", "HEADER_LF", "DECISION"}

\* Fault: what was read of a word is forgotten between two pieces.
ResumedAnew(p) == [p EXCEPT !.skip = 0, !.index = 0]
Resumed(p) == [p EXCEPT !.skip = 0]

\* The header section has more than its place: a name or a slot.
Begun(p) == p.key # <<>> \/ p.unknown # <<>> \/ \E k \in KnownNames : p.known[k].there

\* An element of a piece, unless the request has ended before it.
Step(p, piece, i) ==
  IF Ended(p) THEN p ELSE [Take(p, piece, i) EXCEPT !.offset = @ + 1]

\* What the parser is after each element of a piece.
Readings(p, piece) ==
  LET read[i \in 0 .. Len(piece)] ==
        IF i = 0 THEN Resumed(p) ELSE Step(read[i - 1], piece, i)
  IN read

\* A piece; a header section that fills the buffer is refused (canRead), once
\* the parser has begun it.
Parse(p, piece) ==
  LET q == Readings(p, piece)[Len(piece)]
  IN IF q.status = 0 /\ InHeaders(q) /\ (InHeaders(p) \/ Begun(q))
          /\ q.offset >= BufferRequest
       THEN Fail(q, 431) ELSE q

-----------------------------------------------------------------------------
(***************************************************************************)
(* The path: PathResolver::percentEncoded and                              *)
(* HelperFunctions::RemoveDotSegmentsDirect.                               *)
(***************************************************************************)
\* What two hexadecimal digits stand for, of those that matter here.
Octet(pair) == CASE pair = <<"2", "e">> -> "."
                 [] pair = <<"2", "f">> -> "/"
                 [] OTHER -> "a"

\* Decoded in place: the buffer behind it keeps what was there.
Decode(raw) ==
  LET from[i \in 1 .. Len(raw) + 1] ==
        IF i > Len(raw) THEN <<>>
        ELSE IF raw[i] = "%" /\ i + 2 <= Len(raw)
          THEN <<Octet(SubSeq(raw, i + 1, i + 2))>> \o from[i + 3]
        ELSE <<raw[i]>> \o from[i + 1]
  IN from[1]

\* Fault: a parent segment does not remove the one before it.
ParentOnly(s, w) == w

\* Where the segment before the w-th byte begins.
Parent(s, w) == IF w = 1 THEN 1 ELSE Max({k \in 2 .. w - 1 : s[k] = "/"} \cup {1})

\* x.s is the buffer, x.r and x.w its two cursors; nothing in the buffer is '\0'.
At(s, k) == IF k <= Len(s) THEN s[k] ELSE "behind"

\* The turn of the byte at r, when it is not one of two slashes or of "/../".
CopyDots(x) ==
  LET s == x.s
      r == x.r
  IN IF At(s, r) = "/" /\ At(s, r + 1) = "." /\ At(s, r + 2) = "/"
       THEN [x EXCEPT !.r = r + 2]
     ELSE IF r = 1 /\ At(s, 1) = "." /\ At(s, 2) = "." /\ At(s, 3) = "/"
       THEN [x EXCEPT !.r = 3, !.w = 1]
     ELSE IF r = 1 /\ At(s, 1) = "." /\ At(s, 2) = "/" THEN [x EXCEPT !.r = 2]
     ELSE [x EXCEPT !.s[x.w] = s[r], !.r = r + 1, !.w = @ + 1]

\* After "/..", the same turn takes what follows, another "/.." too.
RemoveDots(x, len) ==
  LET s == x.s
      r == x.r
  IN IF r > len THEN x
     ELSE IF At(s, r) = "/" /\ At(s, r + 1) = "/" THEN [x EXCEPT !.r = r + 1]
     ELSE IF At(s, r) = "/" /\ At(s, r + 1) = "." /\ At(s, r + 2) = "." /\ At(s, r + 3) = "/"
       THEN CopyDots([x EXCEPT !.r = r + 3, !.w = Parent(s, x.w)])
     ELSE CopyDots(x)

\* The path that is routed, of the raw one: a turn takes a byte at least.
Normalised(raw) ==
  LET d == Decode(raw)
      buffer == d \o SubSeq(raw, Len(d) + 1, Len(raw))
      after[k \in 0 .. Len(d)] ==
        IF k = 0 THEN [s |-> buffer, r |-> 1, w |-> 1] ELSE RemoveDots(after[k - 1], Len(d))
      end == after[Len(d)]
  IN SubSeq(end.s, 1, end.w - 1)
=============================================================================
