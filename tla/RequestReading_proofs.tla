------------------------ MODULE RequestReading_proofs ------------------------
(***************************************************************************)
(* A request means the same wherever it is cut, for every request, every   *)
(* size of the buffers and every limit.                                    *)
(***************************************************************************)
EXTENDS RequestReading, Induction, SequenceTheorems

-----------------------------------------------------------------------------
(***************************************************************************)
(* What the parser holds.                                                  *)
(***************************************************************************)
WordStates == {"START", "METHOD", "SPACE", "VERSION", "CR", "LF"}
HostStates == {"SCHEMA", "AUTHORITY", "HOST", "PORT"}
PathStates == {"PATH", "QUERY", "FRAGMENT"}
HeaderStates == {"KEY", "VALUE", "HEADER_LF", "DECISION"}
ParserStates == WordStates \cup HostStates \cup PathStates \cup HeaderStates
                  \cup {"URI", "PCT", "BODY", "COMPLETE"}
Codes == {0, 400, 405, 431, 505}

PathChars == Pchars \cup {"?", "%"}
Contents == Seq(ValueChars) \cup {Wrapped}
KnownSlots == [there : BOOLEAN, val : Contents, next : Nat]
UnknownSlots == [key : Seq(KeyChars), val : Contents, next : Nat, alone : BOOLEAN]

Parsers ==
  [state : ParserStates, method : DOMAIN Methods, index : Nat, skip : Nat,
   host : Seq(Elements), digit : BOOLEAN, back : PathStates, pct : Seq(Hex),
   path : Seq(PathChars), query : Seq(PathChars), key : Seq(KeyChars),
   val : Seq(ValueChars), blanks : BOOLEAN, leading : BOOLEAN,
   slot : {"none", "unknown"} \cup KnownNames, known : [KnownNames -> KnownSlots],
   unknown : Seq(UnknownSlots), last : BOOLEAN, offset : Nat, status : Codes]

LEMMA WordsTyped ==
  /\ \A m \in DOMAIN Methods : Methods[m] \in Seq(Words) /\ Len(Methods[m]) = 2
  /\ Words \subseteq Elements
<1>1. /\ <<"GE", "T">> \in Seq(Words) /\ <<"POS", "T">> \in Seq(Words)
      /\ <<"DELE", "TE">> \in Seq(Words)
  BY DEF Words
<1>2. DOMAIN Methods = {"GET", "POST", "DELETE"}
  BY DEF Methods
<1>3. /\ Methods["GET"] = <<"GE", "T">> /\ Methods["POST"] = <<"POS", "T">>
      /\ Methods["DELETE"] = <<"DELE", "TE">>
  BY DEF Methods
<1>4. \A m \in DOMAIN Methods : m = "GET" \/ m = "POST" \/ m = "DELETE"
  BY <1>2
<1>5. \A s : s = <<"GE", "T">> \/ s = <<"POS", "T">> \/ s = <<"DELE", "TE">> => Len(s) = 2
  OBVIOUS
<1>6. \A m \in DOMAIN Methods : Methods[m] \in Seq(Words) /\ Len(Methods[m]) = 2
  BY <1>1, <1>3, <1>4, <1>5
<1>7. QED
  BY <1>6, ReadingAssumption

LEMMA NewParserTyped ==
  NewParser \in Parsers
<1>1. /\ <<>> \in Seq(Elements) /\ <<>> \in Seq(Hex) /\ <<>> \in Seq(PathChars)
      /\ <<>> \in Seq(KeyChars) /\ <<>> \in Seq(ValueChars) /\ <<>> \in Seq(UnknownSlots)
  OBVIOUS
<1>2. Absent \in KnownSlots
  BY <1>1 DEF Absent, KnownSlots, Contents
<1>3. [k \in KnownNames |-> Absent] \in [KnownNames -> KnownSlots]
  BY <1>2
<1>4. QED
  BY <1>1, <1>3 DEF NewParser, Parsers, ParserStates, WordStates, PathStates, Codes, Methods

\* A part of the parser at a time.
LEMMA StateTyped ==
  ASSUME NEW p \in Parsers, NEW st \in ParserStates
  PROVE  [p EXCEPT !.state = st] \in Parsers
  BY DEF Parsers

LEMMA GoTyped ==
  ASSUME NEW p \in Parsers, NEW st \in ParserStates
  PROVE  Go(p, st) \in Parsers
  BY DEF Parsers, Go

LEMMA FailTyped ==
  ASSUME NEW p \in Parsers, NEW code \in Codes
  PROVE  Fail(p, code) \in Parsers
  BY DEF Parsers, Fail

LEMMA AddTyped ==
  ASSUME NEW p \in Parsers, NEW e \in PathChars
  PROVE  Add(p, e) \in Parsers
<1>1. "/" \in PathChars
  BY DEF PathChars, Pchars
<1>2. <<"/", "/">> \in Seq(PathChars) /\ <<e>> \in Seq(PathChars)
  BY <1>1
<1>3. PICK added \in Seq(PathChars) : added = IF e = "//" THEN <<"/", "/">> ELSE <<e>>
  BY <1>2
<1>4. p.path \in Seq(PathChars) /\ p.query \in Seq(PathChars)
  BY DEF Parsers
<1>5. p.path \o added \in Seq(PathChars) /\ Append(p.query, e) \in Seq(PathChars)
  BY <1>4
<1>6. Add(p, e) = CASE p.state = "PATH" -> [p EXCEPT !.path = p.path \o added]
                    [] p.state = "QUERY" -> [p EXCEPT !.query = Append(p.query, e)]
                    [] OTHER -> p
  BY <1>3 DEF Add
<1>7. CASE p.state = "PATH"
  <2>1. PICK path \in Seq(PathChars) : path = p.path \o added
    BY <1>5
  <2>2. Add(p, e) = [p EXCEPT !.path = path]
    BY <1>6, <1>7, <2>1
  <2>3. QED
    BY <2>2 DEF Parsers
<1>8. CASE p.state = "QUERY"
  <2>1. PICK query \in Seq(PathChars) : query = Append(p.query, e)
    BY <1>5
  <2>2. Add(p, e) = [p EXCEPT !.query = query]
    BY <1>6, <1>8, <2>1
  <2>3. QED
    BY <2>2 DEF Parsers
<1>9. CASE p.state \notin {"PATH", "QUERY"}
  BY <1>6, <1>9
<1>10. QED
  BY <1>7, <1>8, <1>9

LEMMA PathTyped ==
  ASSUME NEW p \in Parsers, p.state \in PathStates, NEW e \in Elements
  PROVE  ParsePath(p, e) \in Parsers
<1>1. {"VERSION", "QUERY", "FRAGMENT", "PCT"} \subseteq ParserStates
  BY DEF ParserStates, WordStates, PathStates
<1>2. e \in Blank => ParsePath(p, e) = Go(p, "VERSION")
  BY DEF ParsePath
<1>3. CASE e \in Blank
  BY <1>1, <1>2, <1>3, GoTyped
<1>4. CASE e \notin Blank /\ e = "?" /\ p.state = "PATH"
  <2>1. ParsePath(p, e) = Go(p, "QUERY")
    BY <1>4 DEF ParsePath
  <2>2. QED
    BY <1>1, <2>1, GoTyped
<1>5. CASE e \notin Blank /\ ~(e = "?" /\ p.state = "PATH") /\ e = "#" /\ p.state # "FRAGMENT"
  <2>1. ParsePath(p, e) = Go(p, "FRAGMENT")
    BY <1>5 DEF ParsePath
  <2>2. QED
    BY <1>1, <2>1, GoTyped
<1>6. CASE e \notin Blank /\ ~(e = "#" /\ p.state # "FRAGMENT") /\ e = "%"
  <2>1. PICK q \in Parsers : q = Go(Add(p, e), "PCT")
    <3>1. e \in PathChars
      BY <1>6 DEF PathChars
    <3>2. QED
      BY <1>1, <3>1, AddTyped, GoTyped
  <2>2. ParsePath(p, e) = [q EXCEPT !.back = p.state, !.pct = <<>>]
    BY <1>6, <2>1 DEF ParsePath
  <2>3. <<>> \in Seq(Hex)
    OBVIOUS
  <2>4. QED
    BY <2>2, <2>3 DEF Parsers
<1>7. CASE /\ e \notin Blank /\ ~(e = "?" /\ p.state = "PATH")
           /\ ~(e = "#" /\ p.state # "FRAGMENT") /\ e # "%"
  <2>1. ParsePath(p, e) = IF e \in Pchars \/ e = "?" THEN Add(p, e) ELSE Fail(p, 400)
    BY <1>7 DEF ParsePath
  <2>2. CASE e \in Pchars \/ e = "?"
    <3>1. e \in PathChars
      BY <2>2 DEF PathChars
    <3>2. QED
      BY <2>1, <2>2, <3>1, AddTyped
  <2>3. CASE ~(e \in Pchars \/ e = "?")
    <3>1. 400 \in Codes
      BY DEF Codes
    <3>2. QED
      BY <2>1, <2>3, <3>1, FailTyped
  <2>4. QED
    BY <2>2, <2>3
<1>8. QED
  BY <1>3, <1>4, <1>5, <1>6, <1>7

LEMMA PctTyped ==
  ASSUME NEW p \in Parsers, NEW e \in Elements
  PROVE  ParsePctEncoded(p, e) \in Parsers
<1>1. 400 \in Codes /\ "PCT" \in ParserStates /\ p.back \in ParserStates
  BY DEF Codes, ParserStates, Parsers
<1>2. Fail(p, 400) \in Parsers
  BY <1>1, FailTyped
<1>3. CASE e \notin Hex
  BY <1>2, <1>3 DEF ParsePctEncoded
<1>4. CASE e \in Hex
  <2>1. e \in PathChars
    BY <1>4 DEF PathChars, Pchars
  <2>2. PICK r \in Parsers : r = [p EXCEPT !.state = p.back]
    BY <1>1, StateTyped
  <2>3. PICK a \in Parsers : a = Add(r, e)
    BY <2>1, AddTyped
  <2>4. PICK pct \in Seq(Hex) : pct = Append(p.pct, e)
    <3>1. p.pct \in Seq(Hex)
      BY DEF Parsers
    <3>2. QED
      BY <1>4, <3>1, AppendProperties
  <2>5. PICK q \in Parsers : q = [a EXCEPT !.pct = pct]
    BY DEF Parsers
  <2>6. ParsePctEncoded(p, e) = IF Len(q.pct) < 2 THEN [q EXCEPT !.state = "PCT"]
                                ELSE IF q.pct = <<"0", "0">> THEN Fail(p, 400) ELSE q
    BY <1>4, <2>2, <2>3, <2>4, <2>5 DEF ParsePctEncoded
  <2>7. [q EXCEPT !.state = "PCT"] \in Parsers
    BY <1>1, StateTyped
  <2>8. QED
    BY <1>2, <2>6, <2>7
<1>5. QED
  BY <1>3, <1>4

LEMMA SmallestIs ==
  ASSUME NEW S, S \subseteq Nat, S # {}
  PROVE  Min(S) \in S /\ \A y \in S : Min(S) <= y
<1>1. \E x \in S : \A y \in S : x <= y
  BY LeastNumber
<1>2. QED
  BY <1>1 DEF Min

LEMMA FinishTyped ==
  ASSUME NEW p \in Parsers, NEW e \in Elements
  PROVE  FinishHost(p, e) \in Parsers
<1>1. 400 \in Codes /\ "PORT" \in ParserStates /\ "PATH" \in ParserStates
  BY DEF Codes, ParserStates, HostStates, PathStates
<1>2. Fail(p, 400) \in Parsers /\ Go(p, "PORT") \in Parsers /\ Go(p, "PATH") \in Parsers
  BY <1>1, GoTyped, FailTyped
<1>3. [Go(p, "PORT") EXCEPT !.digit = FALSE] \in Parsers
  <2>1. PICK q \in Parsers : q = Go(p, "PORT")
    BY <1>2
  <2>2. [q EXCEPT !.digit = FALSE] \in Parsers
    BY DEF Parsers
  <2>3. QED
    BY <2>1, <2>2
<1>4. QED
  BY <1>2, <1>3 DEF FinishHost

LEMMA HostTyped ==
  ASSUME NEW p \in Parsers, NEW e \in Elements, NEW end \in BOOLEAN
  PROVE  ParseHost(p, e, end) \in Parsers
<1>1. PICK host \in Seq(Elements) : host = Append(p.host, e)
  <2>1. p.host \in Seq(Elements)
    BY DEF Parsers
  <2>2. QED
    BY <2>1, AppendProperties
<1>2. "HOST" \in ParserStates
  BY DEF ParserStates, HostStates
<1>3. PICK more \in Parsers : more = [p EXCEPT !.host = host, !.state = "HOST"]
  BY <1>2 DEF Parsers
<1>4. PICK done \in Parsers : done = FinishHost(p, e)
  BY FinishTyped
<1>5. ParseHost(p, e, end) =
        IF e \in EndsHost
          THEN IF done.status # 0 \/ done.state = "PORT" THEN done ELSE ParsePath(done, e)
        ELSE IF end THEN FinishHost(more, e) ELSE more
  BY <1>1, <1>3, <1>4 DEF ParseHost
<1>6. ~(done.status # 0 \/ done.state = "PORT") => done.state \in PathStates
  <2>1. Fail(p, 400).status # 0
    BY DEF Fail, Parsers
  <2>2. [Go(p, "PORT") EXCEPT !.digit = FALSE].state = "PORT"
    BY DEF Go, Parsers
  <2>3. Go(p, "PATH").state \in PathStates
    BY DEF Go, Parsers, PathStates
  <2>4. QED
    BY <1>4, <2>1, <2>2, <2>3 DEF FinishHost
<1>7. ~(done.status # 0 \/ done.state = "PORT") => ParsePath(done, e) \in Parsers
  BY <1>6, PathTyped
<1>8. FinishHost(more, e) \in Parsers
  BY FinishTyped
<1>9. QED
  BY <1>5, <1>7, <1>8

LEMMA PortTyped ==
  ASSUME NEW p \in Parsers, NEW e \in Elements, NEW end \in BOOLEAN
  PROVE  ParsePort(p, e, end) \in Parsers
<1>1. 400 \in Codes /\ "PATH" \in ParserStates
  BY DEF Codes, ParserStates, PathStates
<1>2. Fail(p, 400) \in Parsers /\ Go(p, "PATH") \in Parsers
  BY <1>1, GoTyped, FailTyped
<1>3. Go(p, "PATH").state \in PathStates
  BY DEF Go, Parsers, PathStates
<1>4. ParsePath(Go(p, "PATH"), e) \in Parsers
  BY <1>2, <1>3, PathTyped
<1>5. [p EXCEPT !.digit = TRUE] \in Parsers
  BY DEF Parsers
<1>6. QED
  BY <1>2, <1>4, <1>5 DEF ParsePort

LEMMA AuthorityTyped ==
  ASSUME NEW p \in Parsers, NEW piece \in Seq(Elements), NEW i \in 1 .. Len(piece)
  PROVE  ParseAuthority(p, piece, i) \in Parsers
<1> DEFINE ats == {k \in i .. Len(piece) - 1 : piece[k] = "@"}
<1>1. "HOST" \in ParserStates
  BY DEF ParserStates, HostStates
<1>2. CASE ats = {}
  <2>1. piece[i] \in Elements /\ (i = Len(piece)) \in BOOLEAN
    OBVIOUS
  <2>2. ParseHost(p, piece[i], i = Len(piece)) \in Parsers
    BY <2>1, HostTyped
  <2>3. QED
    BY <1>2, <2>2 DEF ParseAuthority
<1>3. CASE ats # {}
  <2>1. ats \subseteq Nat
    OBVIOUS
  <2>2. Min(ats) \in Nat
    BY <1>3, <2>1, SmallestIs
  <2>3. PICK q \in Parsers : q = Go(p, "HOST")
    BY <1>1, GoTyped
  <2>4. ParseAuthority(p, piece, i) = [q EXCEPT !.skip = Min(ats)]
    BY <1>3, <2>3 DEF ParseAuthority
  <2> HIDE DEF ats
  <2>5. QED
    BY <2>2, <2>4 DEF Parsers
<1>4. QED
  BY <1>2, <1>3

LEMMA SchemeTyped ==
  ASSUME NEW p \in Parsers, NEW e \in Elements, NEW first \in BOOLEAN
  PROVE  ParseScheme(p, e, first) \in Parsers
<1>1. 400 \in Codes /\ {"PATH", "SCHEMA", "AUTHORITY"} \subseteq ParserStates
  BY DEF Codes, ParserStates, PathStates, HostStates
<1>2. Fail(p, 400) \in Parsers /\ Go(p, "PATH") \in Parsers /\ Go(p, "AUTHORITY") \in Parsers
  BY <1>1, GoTyped, FailTyped
<1>3. Go(p, "PATH").state \in PathStates
  BY DEF Go, Parsers, PathStates
<1>4. ParsePath(Go(p, "PATH"), e) \in Parsers
  BY <1>2, <1>3, PathTyped
<1>5. PICK one \in Nat : one = 1
  OBVIOUS
<1>6. [p EXCEPT !.index = 1, !.state = "SCHEMA"] \in Parsers
  BY <1>1, <1>5 DEF Parsers
<1>7. QED
  BY <1>2, <1>4, <1>6 DEF ParseScheme

\* The words of the first line.
LEMMA WordTyped ==
  ASSUME NEW p \in Parsers, NEW e, NEW word, NEW next \in ParserStates, NEW code \in Codes
  PROVE  Word(p, e, word, next, code) \in Parsers
<1>1. Fail(p, code) \in Parsers /\ Go(p, next) \in Parsers
  BY GoTyped, FailTyped
<1>2. [p EXCEPT !.index = @ + 1] \in Parsers
  <2>1. PICK k \in Nat : k = p.index + 1
    BY DEF Parsers
  <2>2. [p EXCEPT !.index = k] \in Parsers
    BY DEF Parsers
  <2>3. QED
    BY <2>1, <2>2
<1>3. QED
  BY <1>1, <1>2 DEF Word

LEMMA MethodTyped ==
  ASSUME NEW p \in Parsers, NEW e
  PROVE  SelectMethod(p, e) \in Parsers
<1> DEFINE m == {k \in DOMAIN Methods : Methods[k][1] = e}
<1>1. 405 \in Codes /\ "METHOD" \in ParserStates
  BY DEF Codes, ParserStates, WordStates
<1>2. Fail(p, 405) \in Parsers
  BY <1>1, FailTyped
<1>3. CASE m # {}
  <2>1. PICK k \in DOMAIN Methods : k = CHOOSE j \in m : TRUE
    BY <1>3
  <2>2. PICK q \in Parsers : q = [p EXCEPT !.method = k]
    BY DEF Parsers
  <2>3. PICK r \in Parsers : r = [q EXCEPT !.state = "METHOD"]
    BY <1>1, StateTyped
  <2>4. PICK one \in Nat : one = 1
    OBVIOUS
  <2>5. SelectMethod(p, e) = [r EXCEPT !.index = one]
    BY <1>3, <2>1, <2>2, <2>3, <2>4 DEF SelectMethod
  <2>6. QED
    BY <2>5 DEF Parsers
<1>4. CASE m = {}
  BY <1>2, <1>4 DEF SelectMethod
<1>5. QED
  BY <1>3, <1>4

LEMMA VersionTyped ==
  ASSUME NEW p \in Parsers, NEW e
  PROVE  ParseVersion(p, e) \in Parsers
<1>1. 505 \in Codes /\ "CR" \in ParserStates
  BY DEF Codes, ParserStates, WordStates
<1>2. Word(p, e, <<"HTTP/", "1.1">>, "CR", 505) \in Parsers
  BY <1>1, WordTyped
<1>3. QED
  BY <1>2 DEF ParseVersion

\* The slots of the headers.
LEMMA SlotTyped ==
  ASSUME NEW p \in Parsers, NEW alone \in BOOLEAN
  PROVE  Slot(p, alone) \in UnknownSlots
<1>1. <<>> \in Contents
  BY DEF Contents
<1>2. p.key \in Seq(KeyChars)
  BY DEF Parsers
<1>3. QED
  BY <1>1, <1>2 DEF Slot, UnknownSlots

LEMMA SlotAdded ==
  ASSUME NEW p \in Parsers, NEW s \in UnknownSlots
  PROVE  [p EXCEPT !.unknown = Append(@, s), !.slot = "unknown"] \in Parsers
<1>1. p.unknown \in Seq(UnknownSlots)
  BY DEF Parsers
<1>2. PICK u \in Seq(UnknownSlots) : u = Append(p.unknown, s)
  BY <1>1, AppendProperties
<1>3. [p EXCEPT !.unknown = u, !.slot = "unknown"] \in Parsers
  BY DEF Parsers
<1>4. QED
  BY <1>2, <1>3

LEMMA KnownTyped ==
  ASSUME NEW p \in Parsers, NEW name \in KnownNames
  PROVE  MakeKnownHeader(p, name) \in Parsers
<1> DEFINE n == Len(p.unknown) + 1
           first == p.known[name].next
           tail == IF first = 0 THEN 0 ELSE LastOf(p.unknown, first)
           more == [p EXCEPT !.unknown = Append(@, Slot(p, FALSE)), !.slot = "unknown"]
<1>1. more \in Parsers
  BY SlotTyped, SlotAdded
<1>2. n \in Nat
  <2>1. p.unknown \in Seq(UnknownSlots)
    BY DEF Parsers
  <2>2. QED
    BY <2>1
<1>3. 400 \in Codes
  BY DEF Codes
<1>4. Fail(p, 400) \in Parsers
  BY <1>3, FailTyped
<1>5. [p EXCEPT !.known[name].there = TRUE, !.slot = name] \in Parsers
  <2>1. p.known \in [KnownNames -> KnownSlots]
    BY DEF Parsers
  <2>2. [p.known[name] EXCEPT !.there = TRUE] \in KnownSlots
    BY <2>1 DEF KnownSlots
  <2>3. PICK known \in [KnownNames -> KnownSlots] : known = [p.known EXCEPT ![name].there = TRUE]
    BY <2>1, <2>2
  <2>4. [p EXCEPT !.known = known, !.slot = name] \in Parsers
    BY DEF Parsers
  <2>5. QED
    BY <2>3, <2>4
<1>6. PICK m \in Parsers : m = more
  BY <1>1
<1>7. PICK k \in Nat : k = n
  BY <1>2
<1>8. [m EXCEPT !.known[name].next = k] \in Parsers
  <2>1. m.known \in [KnownNames -> KnownSlots]
    BY DEF Parsers
  <2>2. [m.known[name] EXCEPT !.next = k] \in KnownSlots
    BY <2>1 DEF KnownSlots
  <2>3. PICK known \in [KnownNames -> KnownSlots] : known = [m.known EXCEPT ![name].next = k]
    BY <2>1, <2>2
  <2>4. [m EXCEPT !.known = known] \in Parsers
    BY DEF Parsers
  <2>5. QED
    BY <2>3, <2>4
<1>9. PICK t : t = tail
  OBVIOUS
<1>10. [m EXCEPT !.unknown[t].next = k] \in Parsers
  <2>1. m.unknown \in Seq(UnknownSlots)
    BY DEF Parsers
  <2>2. PICK u : u = [m.unknown EXCEPT ![t].next = k]
    OBVIOUS
  <2>3. u \in Seq(UnknownSlots)
    <3>1. CASE t \in 1 .. Len(m.unknown)
      <4>1. m.unknown[t] \in UnknownSlots
        BY <2>1, <3>1, ElementOfSeq
      <4>2. PICK s \in UnknownSlots : s = [m.unknown[t] EXCEPT !.next = k]
        BY <4>1 DEF UnknownSlots
      <4>3. u = [m.unknown EXCEPT ![t] = s]
        BY <2>2, <4>2
      <4>4. QED
        BY <2>1, <3>1, <4>3, ExceptSeq
    <3>2. CASE t \notin 1 .. Len(m.unknown)
      <4>1. u = m.unknown
        BY <2>1, <2>2, <3>2
      <4>2. QED
        BY <2>1, <4>1
    <3>3. QED
      BY <3>1, <3>2
  <2>4. [m EXCEPT !.unknown = u] \in Parsers
    BY <2>3 DEF Parsers
  <2>5. QED
    BY <2>2, <2>4
<1>11. MakeKnownHeader(p, name) =
         IF ~p.known[name].there THEN [p EXCEPT !.known[name].there = TRUE, !.slot = name]
         ELSE IF name \in {"host", "length"} THEN Fail(p, 400)
         ELSE IF first = 0 THEN [m EXCEPT !.known[name].next = k]
         ELSE [m EXCEPT !.unknown[t].next = k]
  BY <1>6, <1>7, <1>9 DEF MakeKnownHeader
<1>12. QED
  BY <1>4, <1>5, <1>8, <1>10, <1>11

LEMMA SelectTyped ==
  ASSUME NEW p \in Parsers
  PROVE  SelectHeaderSlot(p) \in Parsers
<1>1. [p EXCEPT !.unknown = Append(@, Slot(p, TRUE)), !.slot = "unknown"] \in Parsers
  BY SlotTyped, SlotAdded
<1>2. QED
  BY <1>1, KnownTyped DEF SelectHeaderSlot

LEMMA GreatestIs ==
  ASSUME NEW n \in Nat, NEW S, S \subseteq 0 .. n, 0 \in S
  PROVE  Max(S) \in S /\ \A y \in S : y <= Max(S)
<1> DEFINE T == {n - y : y \in S}
<1>1. T \subseteq Nat /\ T # {}
  OBVIOUS
<1>2. PICK z \in T : \A y \in T : z <= y
  BY <1>1, LeastNumber
<1>3. PICK x \in S : z = n - x
  OBVIOUS
<1>4. \A y \in S : y <= x
  <2>1. TAKE y \in S
  <2>2. z <= n - y
    BY <1>2
  <2>3. QED
    BY <1>3, <2>2
<1>5. \E w \in S : \A y \in S : w >= y
  BY <1>4
<1>6. QED
  BY <1>5 DEF Max

\* The elements of a sequence from l + 1 to k.
LEMMA SubSeqIs ==
  ASSUME NEW S, NEW s \in Seq(S), NEW k \in 0 .. Len(s), NEW l \in 0 .. k
  PROVE  /\ SubSeq(s, l + 1, k) \in Seq(S) /\ Len(SubSeq(s, l + 1, k)) = k - l
         /\ \A i \in 1 .. k - l : SubSeq(s, l + 1, k)[i] = s[l + i]
<1>1. \A i \in l + 1 .. k : s[i] \in S
  OBVIOUS
<1>2. l + 1 \in Int /\ k \in Int
  OBVIOUS
<1>3. /\ SubSeq(s, l + 1, k) \in Seq(S)
      /\ Len(SubSeq(s, l + 1, k)) = IF l + 1 <= k THEN k - (l + 1) + 1 ELSE 0
      /\ \A i \in 1 .. k - (l + 1) + 1 : SubSeq(s, l + 1, k)[i] = s[l + 1 + i - 1]
  BY <1>1, <1>2, SubSeqProperties
<1>4. (IF l + 1 <= k THEN k - (l + 1) + 1 ELSE 0) = k - l /\ k - (l + 1) + 1 = k - l
  OBVIOUS
<1>5. \A i \in 1 .. k - l : l + 1 + i - 1 = l + i
  OBVIOUS
<1>6. QED
  BY <1>3, <1>4, <1>5

LEMMA TrimTyped ==
  ASSUME NEW S, NEW v \in Seq(S)
  PROVE  Trim(v) \in Seq(S)
<1> DEFINE T == {i \in DOMAIN v : v[i] \notin Blank} \cup {0}
<1>1. T \subseteq 0 .. Len(v) /\ 0 \in T /\ Len(v) \in Nat
  OBVIOUS
<1>2. PICK k \in 0 .. Len(v) : k = Max(T)
  BY <1>1, GreatestIs
<1>3. 0 \in 0 .. k /\ 0 + 1 = 1
  OBVIOUS
<1>4. SubSeq(v, 0 + 1, k) \in Seq(S)
  BY <1>3, SubSeqIs
<1>5. QED
  BY <1>2, <1>3, <1>4 DEF Trim

LEMMA StoreTyped ==
  ASSUME NEW p \in Parsers
  PROVE  StoreValue(p) \in Parsers
<1>1. PICK v \in Contents : v = IF p.val = <<>> /\ p.blanks THEN Wrapped ELSE Trim(p.val)
  <2>1. p.val \in Seq(ValueChars)
    BY DEF Parsers
  <2>2. QED
    BY <2>1, TrimTyped DEF Contents
<1>2. Fail(p, 400) \in Parsers
  BY FailTyped DEF Codes
<1>3. CASE p.slot = "unknown"
  <2>1. p.unknown \in Seq(UnknownSlots)
    BY DEF Parsers
  <2>2. PICK t \in Nat : t = Len(p.unknown)
    BY <2>1
  <2>3. PICK u : u = [p.unknown EXCEPT ![t].val = v]
    OBVIOUS
  <2>4. u \in Seq(UnknownSlots)
    <3>1. CASE t \in 1 .. Len(p.unknown)
      <4>1. p.unknown[t] \in UnknownSlots
        BY <2>1, <3>1, ElementOfSeq
      <4>2. PICK s \in UnknownSlots : s = [p.unknown[t] EXCEPT !.val = v]
        BY <4>1 DEF UnknownSlots
      <4>3. u = [p.unknown EXCEPT ![t] = s]
        BY <2>3, <4>2
      <4>4. QED
        BY <2>1, <3>1, <4>2, <4>3, ExceptSeq
    <3>2. CASE t \notin 1 .. Len(p.unknown)
      <4>1. u = p.unknown
        BY <2>1, <2>3, <3>2
      <4>2. QED
        BY <2>1, <4>1
    <3>3. QED
      BY <3>1, <3>2
  <2>5. [p EXCEPT !.unknown = u] \in Parsers
    BY <2>4 DEF Parsers
  <2>6. StoreValue(p) = [p EXCEPT !.unknown = u]
    BY <1>1, <1>3, <2>2, <2>3 DEF StoreValue
  <2>7. QED
    BY <2>5, <2>6
<1>4. CASE p.slot # "unknown"
  <2>1. p.known \in [KnownNames -> KnownSlots]
    BY DEF Parsers
  <2>2. p.slot \in KnownNames => [p.known[p.slot] EXCEPT !.val = v] \in KnownSlots
    BY <2>1 DEF KnownSlots
  <2>3. PICK known \in [KnownNames -> KnownSlots] : known = [p.known EXCEPT ![p.slot].val = v]
    BY <2>1, <2>2
  <2>4. [p EXCEPT !.known = known] \in Parsers
    BY DEF Parsers
  <2>5. StoreValue(p) = Fail(p, 400) \/ StoreValue(p) = [p EXCEPT !.known = known]
    BY <1>1, <1>4, <2>3 DEF StoreValue
  <2>6. QED
    BY <1>2, <2>4, <2>5
<1>5. QED
  BY <1>3, <1>4

\* The lines of the headers.
LEMMA KeyTyped ==
  ASSUME NEW p \in Parsers, NEW e
  PROVE  ParseKey(p, e) \in Parsers
<1>1. Fail(p, 431) \in Parsers /\ Fail(p, 400) \in Parsers
  BY FailTyped DEF Codes
<1>2. [Go(SelectHeaderSlot(p), "VALUE") EXCEPT !.leading = TRUE, !.blanks = FALSE,
                                                !.val = <<>>] \in Parsers
  <2>1. "VALUE" \in ParserStates
    BY DEF ParserStates, HeaderStates
  <2>2. PICK q \in Parsers : q = Go(SelectHeaderSlot(p), "VALUE")
    BY <2>1, SelectTyped, GoTyped
  <2>3. <<>> \in Seq(ValueChars)
    OBVIOUS
  <2>4. [q EXCEPT !.leading = TRUE, !.blanks = FALSE, !.val = <<>>] \in Parsers
    BY <2>3 DEF Parsers
  <2>5. QED
    BY <2>2, <2>4
<1>3. e \in KeyChars => [p EXCEPT !.key = Append(@, e)] \in Parsers
  <2>1. p.key \in Seq(KeyChars)
    BY DEF Parsers
  <2>2. SUFFICES ASSUME e \in KeyChars PROVE [p EXCEPT !.key = Append(@, e)] \in Parsers
    OBVIOUS
  <2>3. PICK key \in Seq(KeyChars) : key = Append(p.key, e)
    BY <2>1, <2>2, AppendProperties
  <2>4. [p EXCEPT !.key = key] \in Parsers
    BY DEF Parsers
  <2>5. QED
    BY <2>3, <2>4
<1>4. QED
  BY <1>1, <1>2, <1>3 DEF ParseKey

LEMMA ValueTyped ==
  ASSUME NEW p \in Parsers, NEW e
  PROVE  ParseValue(p, e) \in Parsers
<1>1. PICK begun \in Parsers : begun = [p EXCEPT !.leading = FALSE]
  BY DEF Parsers
<1>2. [p EXCEPT !.blanks = TRUE] \in Parsers
  BY DEF Parsers
<1>3. Go(StoreValue(begun), "HEADER_LF") \in Parsers
  <2>1. "HEADER_LF" \in ParserStates
    BY DEF ParserStates, HeaderStates
  <2>2. QED
    BY <2>1, StoreTyped, GoTyped
<1>4. e \in ValueChars => [begun EXCEPT !.val = Append(@, e)] \in Parsers
  <2>1. begun.val \in Seq(ValueChars)
    BY DEF Parsers
  <2>2. SUFFICES ASSUME e \in ValueChars PROVE [begun EXCEPT !.val = Append(@, e)] \in Parsers
    OBVIOUS
  <2>3. PICK val \in Seq(ValueChars) : val = Append(begun.val, e)
    BY <2>1, <2>2, AppendProperties
  <2>4. [begun EXCEPT !.val = val] \in Parsers
    BY DEF Parsers
  <2>5. QED
    BY <2>3, <2>4
<1>5. Fail(p, 400) \in Parsers
  BY FailTyped DEF Codes
<1>6. QED
  BY <1>1, <1>2, <1>3, <1>4, <1>5 DEF ParseValue

LEMMA DecisionTyped ==
  ASSUME NEW p \in Parsers, NEW e
  PROVE  ParseDecision(p, e) \in Parsers
<1>1. "HEADER_LF" \in ParserStates /\ "KEY" \in ParserStates
  BY DEF ParserStates, HeaderStates
<1>2. PICK q \in Parsers : q = Go(p, "HEADER_LF")
  BY <1>1, GoTyped
<1>3. [q EXCEPT !.last = TRUE] \in Parsers
  BY DEF Parsers
<1>4. PICK r \in Parsers : r = Go(p, "KEY")
  BY <1>1, GoTyped
<1>5. <<>> \in Seq(KeyChars)
  OBVIOUS
<1>6. [r EXCEPT !.key = <<>>] \in Parsers
  BY <1>5 DEF Parsers
<1>7. ParseKey([r EXCEPT !.key = <<>>], e) \in Parsers
  BY <1>6, KeyTyped
<1>8. QED
  BY <1>2, <1>3, <1>4, <1>7 DEF ParseDecision

LEMMA EndTyped ==
  ASSUME NEW p \in Parsers, NEW e
  PROVE  ParseLF(p, e) \in Parsers
<1>1. {"DECISION", "BODY", "COMPLETE"} \subseteq ParserStates /\ 400 \in Codes
  BY DEF ParserStates, HeaderStates, Codes
<1>2. QED
  BY <1>1, GoTyped, FailTyped DEF ParseLF

LEMMA TakeTyped ==
  ASSUME NEW p \in Parsers, ~Ended(p), NEW piece \in Seq(Elements), NEW i \in 1 .. Len(piece)
  PROVE  Take(p, piece, i) \in Parsers
<1> DEFINE e == piece[i]
           st == p.state
           end == i = Len(piece)
           first == i = 1
<1>1. e \in Elements /\ end \in BOOLEAN /\ first \in BOOLEAN
  OBVIOUS
<1>2. PICK x \in Elements, last \in BOOLEAN, one \in BOOLEAN : x = e /\ last = end /\ one = first
  BY <1>1
<1>3. {"SPACE", "URI", "LF", "KEY"} \subseteq ParserStates /\ {400, 405} \subseteq Codes
  BY DEF ParserStates, WordStates, HeaderStates, Codes
<1>4. CASE st \in WordStates
  <2>1. SelectMethod(p, x) \in Parsers
    BY MethodTyped
  <2>2. /\ Word(p, x, Methods[p.method], "SPACE", 405) \in Parsers
        /\ Word(p, x, <<"cr">>, "LF", 400) \in Parsers
        /\ Word(p, x, <<"lf">>, "KEY", 400) \in Parsers
    BY <1>3, WordTyped
  <2>3. Go(p, "URI") \in Parsers /\ Fail(p, 405) \in Parsers
    BY <1>3, GoTyped, FailTyped
  <2>4. ParseVersion(p, x) \in Parsers
    BY VersionTyped
  <2>5. QED
    BY <1>2, <1>4, <2>1, <2>2, <2>3, <2>4 DEF Take, WordStates
<1>5. CASE st \in HostStates
  <2>1. /\ ParseScheme(p, x, one) \in Parsers
        /\ ParseAuthority(p, piece, i) \in Parsers
        /\ ParseHost(p, x, last) \in Parsers
        /\ ParsePort(p, x, last) \in Parsers
    BY SchemeTyped, AuthorityTyped, HostTyped, PortTyped
  <2>2. QED
    BY <1>2, <1>5, <2>1 DEF Take, HostStates
<1>6. CASE st \in PathStates
  <2>1. ParsePath(p, x) \in Parsers
    BY <1>6, PathTyped
  <2>2. QED
    BY <1>2, <1>6, <2>1 DEF Take, PathStates
<1>7. CASE st \in HeaderStates
  <2>1. /\ ParseKey(p, x) \in Parsers /\ ParseValue(p, x) \in Parsers
        /\ ParseLF(p, x) \in Parsers /\ ParseDecision(p, x) \in Parsers
    BY KeyTyped, ValueTyped, EndTyped, DecisionTyped
  <2>2. QED
    BY <1>2, <1>7, <2>1 DEF Take, HeaderStates
<1>8. CASE st = "URI"
  <2>1. ParseScheme(p, x, one) \in Parsers
    BY SchemeTyped
  <2>2. QED
    BY <1>2, <1>8, <2>1 DEF Take
<1>9. CASE st = "PCT"
  <2>1. ParsePctEncoded(p, x) \in Parsers
    BY PctTyped
  <2>2. QED
    BY <1>2, <1>9, <2>1 DEF Take
<1>10. st \notin {"BODY", "COMPLETE"} /\ st \in ParserStates
  BY DEF Ended, Parsers
<1>11. QED
  BY <1>4, <1>5, <1>6, <1>7, <1>8, <1>9, <1>10 DEF ParserStates

LEMMA StepTyped ==
  ASSUME NEW p \in Parsers, NEW piece \in Seq(Elements), NEW i \in 1 .. Len(piece)
  PROVE  Step(p, piece, i) \in Parsers
<1>1. CASE Ended(p)
  BY <1>1 DEF Step
<1>2. CASE ~Ended(p)
  <2>1. PICK q \in Parsers : q = Take(p, piece, i)
    BY <1>2, TakeTyped
  <2>2. PICK k \in Nat : k = q.offset + 1
    <3>1. q.offset \in Nat
      BY DEF Parsers
    <3>2. QED
      BY <3>1
  <2>3. [q EXCEPT !.offset = k] \in Parsers
    BY DEF Parsers
  <2>4. QED
    BY <1>2, <2>1, <2>2, <2>3 DEF Step
<1>3. QED
  BY <1>1, <1>2

LEMMA ResumedTyped ==
  ASSUME NEW p \in Parsers
  PROVE  Resumed(p) \in Parsers /\ (p.skip = 0 => Resumed(p) = p)
<1>1. PICK zero \in Nat : zero = 0
  OBVIOUS
<1>2. [p EXCEPT !.skip = zero] \in Parsers
  BY DEF Parsers
<1>3. p.skip = zero => [p EXCEPT !.skip = zero] = p
  BY DEF Parsers
<1>4. QED
  BY <1>1, <1>2, <1>3 DEF Resumed

\* Readings is what its definition says: it takes a step for each element.
LEMMA ReadingsAre ==
  ASSUME NEW p \in Parsers, NEW piece \in Seq(Elements)
  PROVE  /\ Readings(p, piece) \in [0 .. Len(piece) -> Parsers]
         /\ Readings(p, piece)[0] = Resumed(p)
         /\ \A i \in 1 .. Len(piece) :
              Readings(p, piece)[i] = Step(Readings(p, piece)[i - 1], piece, i)
<1> DEFINE N == Len(piece)
           b == Resumed(p)
           g == [i \in 1 .. N |-> [q \in Parsers |-> Step(q, piece, i)]]
           F(f) == [i \in 0 .. N |-> IF i = 0 THEN b ELSE Step(f[i - 1], piece, i)]
           h == Readings(p, piece)
<1>1. N \in Nat /\ b \in Parsers
  BY ResumedTyped
<1>2. \A i \in 1 .. N : \A q \in Parsers : Step(q, piece, i) \in Parsers
  BY StepTyped
<1>3. g \in [1 .. N -> [Parsers -> Parsers]]
  BY <1>2
<1>4. \A i \in 1 .. N : \A q \in Parsers : g[i][q] = Step(q, piece, i)
  OBVIOUS
<1>5. h = CHOOSE f : f = F(f)
  BY DEF Readings
<1> HIDE DEF N, b, g, h
<1>6. PICK f \in [0 .. N -> Parsers] : Iterates(f, b, g, N)
  BY <1>1, <1>3, IteratesExist
<1>7. \A i \in 1 .. N : i \in 0 .. N /\ i - 1 \in 0 .. N /\ i # 0
  BY <1>1
<1>8. f = F(f)
  <2>1. \A i \in 0 .. N : i = 0 \/ i \in 1 .. N
    BY <1>1
  <2>2. \A i \in 0 .. N : f[i] = F(f)[i]
    BY <1>4, <1>6, <1>7, <2>1 DEF Iterates
  <2>3. QED
    BY <2>2
<1> HIDE DEF F
<1>9. h = F(h)
  BY <1>5, <1>8
<1>10. /\ h = [i \in 0 .. N |-> h[i]] /\ h[0] = b
       /\ \A i \in 1 .. N : h[i] = Step(h[i - 1], piece, i)
  BY <1>1, <1>7, <1>9 DEF F
<1>11. \A i \in 0 .. N : h[i] \in Parsers
  <2> DEFINE T == {i \in 0 .. N : h[i] \in Parsers}
  <2>1. 0 \in T
    BY <1>1, <1>10
  <2>2. ASSUME NEW i \in 1 .. N, i - 1 \in T PROVE i \in T
    BY <1>2, <1>7, <1>10, <2>2
  <2> HIDE DEF T
  <2>3. 0 .. N \subseteq T
    BY <1>1, <2>1, <2>2, NumbersUpTo
  <2>4. QED
    BY <2>3 DEF T
<1>12. h \in [0 .. N -> Parsers]
  BY <1>10, <1>11
<1>13. QED
  BY <1>10, <1>12 DEF N, b, h

-----------------------------------------------------------------------------
(***************************************************************************)
(* What a client sends.                                                    *)
(***************************************************************************)
LEMMA CatIs ==
  ASSUME NEW S, NEW seqs \in Seq(Seq(S))
  PROVE  \E f \in [0 .. Len(seqs) -> Seq(S)] :
           /\ f[0] = <<>>
           /\ \A i \in 1 .. Len(seqs) : f[i] = f[i - 1] \o seqs[i]
           /\ Cat(seqs) = f[Len(seqs)]
<1> DEFINE N == Len(seqs)
           g == [i \in 1 .. N |-> [s \in Seq(S) |-> s \o seqs[i]]]
           b == <<>>
           F(f) == [i \in 0 .. N |-> IF i = 0 THEN b ELSE f[i - 1] \o seqs[i]]
           h == CHOOSE f : f = F(f)
<1>1. N \in Nat /\ b \in Seq(S)
  OBVIOUS
<1>2. \A i \in 1 .. N : \A s \in Seq(S) : s \o seqs[i] \in Seq(S)
  <2>1. TAKE i \in 1 .. N
  <2>2. TAKE s \in Seq(S)
  <2>3. seqs[i] \in Seq(S)
    BY ElementOfSeq
  <2>4. QED
    BY <2>3, ConcatProperties
<1>3. g \in [1 .. N -> [Seq(S) -> Seq(S)]]
  BY <1>2
<1>4. \A i \in 1 .. N : \A s \in Seq(S) : g[i][s] = s \o seqs[i]
  OBVIOUS
<1>5. Cat(seqs) = h[N]
  BY DEF Cat
<1> HIDE DEF N, g, b
<1>6. PICK f \in [0 .. N -> Seq(S)] : Iterates(f, b, g, N)
  BY <1>1, <1>3, IteratesExist
<1>7. \A i \in 1 .. N : i \in 0 .. N /\ i - 1 \in 0 .. N /\ i # 0
  BY <1>1
<1>8. f = F(f)
  <2>1. \A i \in 0 .. N : i = 0 \/ i \in 1 .. N
    BY <1>1
  <2>2. \A i \in 0 .. N : f[i] = F(f)[i]
    BY <1>4, <1>6, <1>7, <2>1 DEF Iterates
  <2>3. QED
    BY <2>2
<1> HIDE DEF F
<1>9. h = F(h)
  BY <1>8
<1> HIDE DEF h
<1>10. /\ h = [i \in 0 .. N |-> h[i]] /\ h[0] = b
       /\ \A i \in 1 .. N : h[i] = h[i - 1] \o seqs[i]
  <2>1. \A i \in 0 .. N : h[i] = IF i = 0 THEN b ELSE h[i - 1] \o seqs[i]
    BY <1>9 DEF F
  <2>2. h = [i \in 0 .. N |-> h[i]]
    BY <1>9 DEF F
  <2>3. 0 \in 0 .. N
    BY <1>1
  <2>4. QED
    BY <1>7, <2>1, <2>2, <2>3
<1>11. \A i \in 0 .. N : h[i] \in Seq(S)
  <2> DEFINE T == {i \in 0 .. N : h[i] \in Seq(S)}
  <2>1. 0 \in T
    BY <1>1, <1>10
  <2>2. ASSUME NEW i \in 1 .. N, i - 1 \in T PROVE i \in T
    BY <1>2, <1>7, <1>10, <2>2
  <2> HIDE DEF T
  <2>3. 0 .. N \subseteq T
    BY <1>1, <2>1, <2>2, NumbersUpTo
  <2>4. QED
    BY <2>3 DEF T
<1>12. h \in [0 .. N -> Seq(S)]
  BY <1>10, <1>11
<1>13. QED
  BY <1>5, <1>10, <1>12 DEF N, b

LEMMA CatTyped ==
  ASSUME NEW S, NEW seqs \in Seq(Seq(S))
  PROVE  Cat(seqs) \in Seq(S)
<1>1. Len(seqs) \in 0 .. Len(seqs)
  OBVIOUS
<1>2. PICK f \in [0 .. Len(seqs) -> Seq(S)] : Cat(seqs) = f[Len(seqs)]
  BY CatIs
<1>3. QED
  BY <1>1, <1>2

LEMMA TextTyped ==
  ASSUME NEW r \in Requests
  PROVE  Text(r) \in Seq(Elements)
<1> DEFINE S == Seq(Elements)
           line == Methods[r.method] \o <<" ">> \o r.target \o <<" ", "HTTP/", "1.1">> \o Crlf
           headers == Cat([i \in DOMAIN r.headers |-> HeaderText(r.headers[i])])
           chunks == Cat([i \in DOMAIN r.chunks |-> ChunkText(r.chunks[i])])
           tail == chunks \o <<"0">> \o Crlf \o Crlf
<1>1. r \in Written
  BY ReadingAssumption
<1>2. /\ r.target \in S /\ r.raw \in S /\ r.method \in DOMAIN Methods
      /\ r.headers \in Seq([key : S, value : S])
      /\ r.chunks \in Seq({c \in S : Len(c) \in {1, 2, 16}})
  BY <1>1 DEF Written
<1>3. Methods[r.method] \in S
  BY <1>2, WordsTyped, SeqMonotonic
<1>4. /\ <<" ">> \in S /\ <<" ", "HTTP/", "1.1">> \in S /\ Crlf \in S /\ <<":">> \in S
      /\ <<"0">> \in S /\ <<"1">> \in S /\ <<"2">> \in S /\ <<"1", "0">> \in S /\ <<>> \in S
  <2>1. {" ", "HTTP/", "1.1", "cr", "lf", ":", "0", "1", "2"} \subseteq Elements
    BY ReadingAssumption DEF Words
  <2>2. QED
    <3>1. \A e, d, c \in Elements : <<e>> \in S /\ <<e, d>> \in S /\ <<e, d, c>> \in S
      OBVIOUS
    <3>2. <<" ", "HTTP/", "1.1">> \in S
      BY <2>1, <3>1
    <3>3. <<"cr", "lf">> \in S /\ <<"1", "0">> \in S
      BY <2>1, <3>1
    <3>4. <<" ">> \in S /\ <<":">> \in S /\ <<"0">> \in S /\ <<"1">> \in S /\ <<"2">> \in S
      BY <2>1, <3>1
    <3>5. <<>> \in S
      OBVIOUS
    <3>6. QED
      BY <3>2, <3>3, <3>4, <3>5 DEF Crlf
<1>5. line \in S
  BY <1>2, <1>3, <1>4, ConcatProperties
<1>6. headers \in S
  <2>1. \A i \in DOMAIN r.headers : HeaderText(r.headers[i]) \in S
    <3>1. TAKE i \in DOMAIN r.headers
    <3>2. r.headers[i] \in [key : S, value : S]
      <4>1. i \in 1 .. Len(r.headers)
        BY <1>2
      <4>2. QED
        BY <1>2, <4>1, ElementOfSeq
    <3>3. PICK k \in S, v \in S : k = r.headers[i].key /\ v = r.headers[i].value
      BY <3>2
    <3>4. k \o <<":">> \o v \o Crlf \in S
      BY <1>4, ConcatProperties
    <3>5. QED
      BY <3>3, <3>4 DEF HeaderText
  <2>2. [i \in DOMAIN r.headers |-> HeaderText(r.headers[i])] \in Seq(S)
    <3>1. PICK k \in Nat : k = Len(r.headers) /\ DOMAIN r.headers = 1 .. k
      BY <1>2
    <3> DEFINE e(i) == HeaderText(r.headers[i])
    <3>2. \A i \in 1 .. k : e(i) \in S
      BY <2>1, <3>1
    <3> HIDE DEF e
    <3>3. [i \in 1 .. k |-> e(i)] \in Seq(S)
      BY <3>2, IsASeq
    <3>4. QED
      BY <3>1, <3>3 DEF e
  <2>3. QED
    BY <2>2, CatTyped
<1>7. chunks \in S
  <2>1. \A i \in DOMAIN r.chunks : ChunkText(r.chunks[i]) \in S
    <3>1. TAKE i \in DOMAIN r.chunks
    <3>2. r.chunks[i] \in {c \in S : Len(c) \in {1, 2, 16}}
      <4>1. i \in 1 .. Len(r.chunks)
        BY <1>2
      <4>2. QED
        BY <1>2, <4>1, ElementOfSeq
    <3>3. PICK c \in S : c = r.chunks[i] /\ Len(c) \in {1, 2, 16}
      BY <3>2
    <3>4. SizeText(c) \in S
      BY <1>4, <3>3 DEF SizeText
    <3>5. SizeText(c) \o Crlf \o c \o Crlf \in S
      BY <1>4, <3>4, ConcatProperties
    <3>6. QED
      BY <3>3, <3>5 DEF ChunkText
  <2>2. [i \in DOMAIN r.chunks |-> ChunkText(r.chunks[i])] \in Seq(S)
    <3>1. PICK k \in Nat : k = Len(r.chunks) /\ DOMAIN r.chunks = 1 .. k
      BY <1>2
    <3> DEFINE e(i) == ChunkText(r.chunks[i])
    <3>2. \A i \in 1 .. k : e(i) \in S
      BY <2>1, <3>1
    <3> HIDE DEF e
    <3>3. [i \in 1 .. k |-> e(i)] \in Seq(S)
      BY <3>2, IsASeq
    <3>4. QED
      BY <3>1, <3>3 DEF e
  <2>3. QED
    BY <2>2, CatTyped
<1>8. tail \in S
  BY <1>4, <1>7, ConcatProperties
<1>9. PICK l \in S, h \in S, b \in S : l = line /\ h = headers /\ b = tail
  BY <1>5, <1>6, <1>8
<1>10. PICK rest \in S : rest = IF r.method # "POST" THEN <<>> ELSE b
  BY <1>4
<1>11. l \o h \o Crlf \o rest \in S
  BY <1>4, ConcatProperties
<1>12. Text(r) = IF r.raw # <<>> THEN r.raw
                 ELSE line \o headers \o Crlf \o (IF r.method # "POST" THEN <<>> ELSE tail)
  BY DEF Text
<1> HIDE DEF line, headers, chunks, tail
<1>13. Text(r) = IF r.raw # <<>> THEN r.raw ELSE l \o h \o Crlf \o rest
  BY <1>9, <1>10, <1>12
<1>14. QED
  BY <1>2, <1>11, <1>13

-----------------------------------------------------------------------------
(***************************************************************************)
(* The parser of a request without "http://", an element at a time.        *)
(***************************************************************************)
\* In every state but those of a host, an element means the same in any piece.
Local(p, e) ==
  /\ p.state \notin HostStates
  /\ p.state = "URI" => p.index = 0 /\ e # "http:"

LEMMA TakeLocal ==
  ASSUME NEW p \in Parsers, ~Ended(p),
         NEW s \in Seq(Elements), NEW i \in 1 .. Len(s),
         NEW t \in Seq(Elements), NEW j \in 1 .. Len(t), s[i] = t[j], Local(p, s[i])
  PROVE  Take(p, s, i) = Take(p, t, j)
<1>1. PICK e : e = s[i] /\ e = t[j]
  OBVIOUS
<1>2. CASE p.state = "URI"
  <2>1. e # "http:" /\ p.index = 0
    BY <1>1, <1>2 DEF Local
  <2>2. PICK path : path = ParsePath(Go(p, "PATH"), e)
    OBVIOUS
  <2>3. Take(p, s, i) = IF e \in Blank THEN p
                        ELSE IF e \in {"/", "//"} THEN path ELSE Fail(p, 400)
    BY <1>1, <1>2, <2>1, <2>2 DEF Take, ParseScheme
  <2>4. Take(p, t, j) = IF e \in Blank THEN p
                        ELSE IF e \in {"/", "//"} THEN path ELSE Fail(p, 400)
    BY <1>1, <1>2, <2>1, <2>2 DEF Take, ParseScheme
  <2>5. QED
    BY <2>3, <2>4
<1>3. CASE p.state # "URI"
  <2>1. p.state \in ParserStates \ (HostStates \cup {"URI", "BODY", "COMPLETE"})
    BY <1>3 DEF Local, Ended, Parsers
  <2>2. p.state \in WordStates \cup PathStates \cup HeaderStates \cup {"PCT"}
    BY <2>1 DEF ParserStates
  <2>3. QED
    BY <1>1, <2>2 DEF Take, WordStates, PathStates, HeaderStates
<1>4. QED
  BY <1>2, <1>3

\* q is p after an element that leads to one of states, or is refused.
Moves(p, q, states) ==
  /\ q.skip = p.skip /\ q.offset = p.offset
  /\ q.status # 0 \/ q.state \in states

LEMMA FailMoves ==
  ASSUME NEW p \in Parsers, NEW code \in Codes \ {0}, NEW states
  PROVE  Moves(p, Fail(p, code), states)
  BY DEF Moves, Fail, Parsers

LEMMA GoMoves ==
  ASSUME NEW p \in Parsers, NEW states, NEW st \in states
  PROVE  Moves(p, Go(p, st), states) /\ Go(p, st).index = 0 /\ Go(p, st).state = st
  BY DEF Moves, Go, Parsers

LEMMA AddKeeps ==
  ASSUME NEW p \in Parsers, NEW e
  PROVE  /\ Add(p, e).skip = p.skip /\ Add(p, e).offset = p.offset
         /\ Add(p, e).state = p.state
  BY DEF Add, Parsers

InUri == PathStates \cup {"VERSION", "PCT"}
LEMMA PathMoves ==
  ASSUME NEW p \in Parsers, p.state \in PathStates, NEW e \in Elements
  PROVE  Moves(p, ParsePath(p, e), InUri)
<1>1. 400 \in Codes \ {0} /\ {"VERSION", "QUERY", "FRAGMENT", "PCT"} \subseteq InUri
  BY DEF Codes, InUri, PathStates
<1>2. /\ Moves(p, Fail(p, 400), InUri) /\ Moves(p, Go(p, "VERSION"), InUri)
      /\ Moves(p, Go(p, "QUERY"), InUri) /\ Moves(p, Go(p, "FRAGMENT"), InUri)
  BY <1>1, FailMoves, GoMoves
<1>3. Moves(p, Add(p, e), InUri)
  BY AddKeeps DEF Moves, InUri
<1>4. e = "%" => Moves(p, [Go(Add(p, e), "PCT") EXCEPT !.back = p.state, !.pct = <<>>], InUri)
  <2>1. SUFFICES ASSUME e = "%"
                 PROVE  Moves(p, [Go(Add(p, e), "PCT") EXCEPT !.back = p.state, !.pct = <<>>], InUri)
    OBVIOUS
  <2>2. e \in PathChars
    BY <2>1 DEF PathChars
  <2>3. PICK q \in Parsers : q = Add(p, e)
    BY <2>2, AddTyped
  <2>4. q.skip = p.skip /\ q.offset = p.offset
    BY <2>3, AddKeeps
  <2>5. PICK r \in Parsers : r = Go(q, "PCT")
    BY GoTyped DEF ParserStates
  <2>6. r.skip = p.skip /\ r.offset = p.offset /\ r.state = "PCT"
    BY <2>4, <2>5 DEF Go, Parsers
  <2>7. Moves(p, [r EXCEPT !.back = p.state, !.pct = <<>>], InUri)
    BY <1>1, <2>6 DEF Moves, Parsers
  <2>8. QED
    BY <2>3, <2>5, <2>7
<1>5. QED
  BY <1>2, <1>3, <1>4 DEF ParsePath

LEMMA PctMoves ==
  ASSUME NEW p \in Parsers, NEW e \in Elements
  PROVE  Moves(p, ParsePctEncoded(p, e), InUri)
<1>1. 400 \in Codes \ {0} /\ p.back \in InUri /\ "PCT" \in InUri
  BY DEF Codes, InUri, Parsers
<1>2. Moves(p, Fail(p, 400), InUri)
  BY <1>1, FailMoves
<1>3. CASE e \notin Hex
  BY <1>2, <1>3 DEF ParsePctEncoded
<1>4. CASE e \in Hex
  <2>1. e \in PathChars
    BY <1>4 DEF PathChars, Pchars
  <2>2. PICK r \in Parsers : r = [p EXCEPT !.state = p.back]
    <3>1. p.back \in ParserStates
      BY DEF Parsers, ParserStates
    <3>2. QED
      BY <3>1, StateTyped
  <2>3. PICK a \in Parsers : a = Add(r, e)
    BY <2>1, AddTyped
  <2>4. a.skip = p.skip /\ a.offset = p.offset /\ a.state \in InUri
    <3>1. r.skip = p.skip /\ r.offset = p.offset /\ r.state = p.back
      BY <2>2 DEF Parsers
    <3>2. QED
      BY <1>1, <2>3, <3>1, AddKeeps
  <2>5. PICK pct : pct = Append(p.pct, e)
    OBVIOUS
  <2>6. PICK q : q = [a EXCEPT !.pct = pct]
    OBVIOUS
  <2>7. Moves(p, q, InUri) /\ Moves(p, [q EXCEPT !.state = "PCT"], InUri)
    BY <1>1, <2>4, <2>6 DEF Moves, Parsers
  <2>8. ParsePctEncoded(p, e) = IF Len(q.pct) < 2 THEN [q EXCEPT !.state = "PCT"]
                                ELSE IF q.pct = <<"0", "0">> THEN Fail(p, 400) ELSE q
    BY <1>4, <2>2, <2>3, <2>5, <2>6 DEF ParsePctEncoded
  <2>9. QED
    BY <1>2, <2>7, <2>8
<1>5. QED
  BY <1>3, <1>4

LEMMA WordMoves ==
  ASSUME NEW p \in Parsers, NEW e, NEW word, NEW states, NEW next \in states,
         NEW code \in Codes \ {0}, p.index + 1 = Len(word) \/ p.state \in states
  PROVE  Moves(p, Word(p, e, word, next, code), states)
<1>1. Moves(p, Fail(p, code), states) /\ Moves(p, Go(p, next), states)
  BY FailMoves, GoMoves
<1>2. p.state \in states => Moves(p, [p EXCEPT !.index = @ + 1], states)
  BY DEF Moves, Parsers
<1>3. QED
  BY <1>1, <1>2 DEF Word

\* A name or a slot is there once the headers have begun.
Opened(p) == p.state \in {"VALUE", "HEADER_LF", "DECISION"} => Begun(p)

HeadersFollow == HeaderStates \cup {"BODY", "COMPLETE"}

LEMMA SelectMoves ==
  ASSUME NEW p \in Parsers
  PROVE  LET q == SelectHeaderSlot(p)
         IN q.skip = p.skip /\ q.offset = p.offset /\ (q.status # 0 \/ Begun(q))
<1> DEFINE added(alone) == [p EXCEPT !.unknown = Append(@, Slot(p, alone)), !.slot = "unknown"]
           Good(q) == q.skip = p.skip /\ q.offset = p.offset /\ (q.status # 0 \/ Begun(q))
<1>1. p.unknown \in Seq(UnknownSlots)
  BY DEF Parsers
<1>2. ASSUME NEW alone \in BOOLEAN
      PROVE  Good(added(alone)) /\ added(alone).unknown # <<>>
  <2>1. PICK u : u = Append(p.unknown, Slot(p, alone))
    OBVIOUS
  <2>2. u # <<>>
    BY <1>1, <2>1, SlotTyped, AppendProperties
  <2>3. added(alone) = [p EXCEPT !.unknown = u, !.slot = "unknown"]
    BY <2>1
  <2>4. QED
    BY <2>2, <2>3 DEF Begun, Parsers
<1>3. ASSUME NEW name \in KnownNames
      PROVE  Good(MakeKnownHeader(p, name))
  <2> DEFINE n == Len(p.unknown) + 1
             first == p.known[name].next
             tail == IF first = 0 THEN 0 ELSE LastOf(p.unknown, first)
  <2>1. Good([p EXCEPT !.known[name].there = TRUE, !.slot = name])
    <3>1. p.known \in [KnownNames -> KnownSlots]
      BY DEF Parsers
    <3>2. PICK known : known = [p.known EXCEPT ![name].there = TRUE]
      OBVIOUS
    <3>3. known[name].there
      BY <3>1, <3>2 DEF KnownSlots
    <3>4. Good([p EXCEPT !.known = known, !.slot = name])
      BY <3>3 DEF Begun, Parsers
    <3>5. QED
      BY <3>2, <3>4
  <2>2. Good(Fail(p, 400))
    BY DEF Fail, Parsers
  <2>3. PICK more : more = added(FALSE)
    OBVIOUS
  <2>4. Good(more) /\ more.unknown # <<>> /\ more \in Parsers
    BY <1>2, <2>3, SlotTyped, SlotAdded
  <2>5. Good([more EXCEPT !.known[name].next = n])
    <3>1. PICK known : known = [more.known EXCEPT ![name].next = n]
      OBVIOUS
    <3>2. Good([more EXCEPT !.known = known])
      BY <2>4 DEF Begun, Parsers
    <3>3. QED
      BY <3>1, <3>2
  <2>6. Good([more EXCEPT !.unknown[tail].next = n])
    <3>1. PICK u : u = [more.unknown EXCEPT ![tail].next = n]
      OBVIOUS
    <3>2. u # <<>>
      <4>1. DOMAIN u = DOMAIN more.unknown
        BY <3>1
      <4>2. more.unknown \in Seq(UnknownSlots)
        BY <2>4 DEF Parsers
      <4>3. QED
        BY <2>4, <4>1, <4>2
    <3>3. Good([more EXCEPT !.unknown = u])
      BY <2>4, <3>2 DEF Begun, Parsers
    <3>4. QED
      BY <3>1, <3>3
  <2> HIDE DEF n, first, tail, Good
  <2>7. QED
    BY <2>1, <2>2, <2>3, <2>5, <2>6 DEF MakeKnownHeader, n, first, tail
<1> HIDE DEF Good
<1>4. Good(SelectHeaderSlot(p))
  BY <1>2, <1>3 DEF SelectHeaderSlot
<1>5. QED
  BY <1>4 DEF Good

LEMMA KeyMoves ==
  ASSUME NEW p \in Parsers, p.state = "KEY", NEW e
  PROVE  LET q == ParseKey(p, e)
         IN Moves(p, q, {"KEY", "VALUE"}) /\ (q.status # 0 \/ Begun(q))
<1> DEFINE Good(q) == Moves(p, q, {"KEY", "VALUE"}) /\ (q.status # 0 \/ Begun(q))
<1>1. Good(Fail(p, 431)) /\ Good(Fail(p, 400))
  <2>1. Fail(p, 431).status # 0 /\ Fail(p, 400).status # 0
    BY DEF Fail, Parsers
  <2>2. {431, 400} \subseteq Codes \ {0}
    BY DEF Codes
  <2>3. QED
    BY <2>1, <2>2, FailMoves
<1>2. Good([Go(SelectHeaderSlot(p), "VALUE") EXCEPT !.leading = TRUE, !.blanks = FALSE,
                                                    !.val = <<>>])
  <2>1. PICK q \in Parsers : q = SelectHeaderSlot(p)
    BY SelectTyped
  <2>2. q.skip = p.skip /\ q.offset = p.offset /\ (q.status # 0 \/ Begun(q))
    BY <2>1, SelectMoves
  <2>3. PICK r \in Parsers : r = Go(q, "VALUE")
    BY GoTyped DEF ParserStates, HeaderStates
  <2>4. Good(r) /\ r.state = "VALUE"
    BY <2>2, <2>3 DEF Moves, Go, Parsers, Begun
  <2>5. PICK v : v = [r EXCEPT !.leading = TRUE, !.blanks = FALSE, !.val = <<>>]
    OBVIOUS
  <2>6. Good(v)
    BY <2>4, <2>5 DEF Moves, Parsers, Begun
  <2>7. QED
    BY <2>1, <2>3, <2>5, <2>6
<1>3. e \in KeyChars => Good([p EXCEPT !.key = Append(@, e)])
  <2>1. SUFFICES ASSUME e \in KeyChars PROVE Good([p EXCEPT !.key = Append(@, e)])
    OBVIOUS
  <2>2. PICK key : key = Append(p.key, e)
    OBVIOUS
  <2>3. p.key \in Seq(KeyChars)
    BY DEF Parsers
  <2>4. key # <<>>
    BY <2>1, <2>2, <2>3, AppendProperties
  <2>5. Good([p EXCEPT !.key = key])
    BY <2>4 DEF Moves, Parsers, Begun
  <2>6. QED
    BY <2>2, <2>5
<1> HIDE DEF Good
<1>4. Good(ParseKey(p, e))
  BY <1>1, <1>2, <1>3 DEF ParseKey
<1>5. QED
  BY <1>4 DEF Good

LEMMA StoreKeeps ==
  ASSUME NEW p \in Parsers, Begun(p)
  PROVE  LET q == StoreValue(p)
         IN q.skip = p.skip /\ q.offset = p.offset /\ Begun(q)
<1> DEFINE Good(q) == q.skip = p.skip /\ q.offset = p.offset /\ Begun(q)
           v == IF p.val = <<>> /\ p.blanks THEN Wrapped ELSE Trim(p.val)
           n == Len(p.unknown)
<1>1. Good(Fail(p, 400))
  BY DEF Fail, Parsers, Begun
<1>2. Good([p EXCEPT !.unknown[n].val = v])
  <2>1. PICK u : u = [p.unknown EXCEPT ![n].val = v]
    OBVIOUS
  <2>2. p.unknown # <<>> => u # <<>>
    <3>1. DOMAIN u = DOMAIN p.unknown
      BY <2>1
    <3>2. p.unknown \in Seq(UnknownSlots)
      BY DEF Parsers
    <3>3. QED
      BY <3>1, <3>2
  <2>3. Good([p EXCEPT !.unknown = u])
    BY <2>2 DEF Begun, Parsers
  <2>4. QED
    BY <2>1, <2>3
<1>3. Good([p EXCEPT !.known[p.slot].val = v])
  <2>1. PICK known : known = [p.known EXCEPT ![p.slot].val = v]
    OBVIOUS
  <2>2. \A k \in KnownNames : known[k].there = p.known[k].there
    <3>1. p.known \in [KnownNames -> KnownSlots]
      BY DEF Parsers
    <3>2. QED
      BY <2>1, <3>1 DEF KnownSlots
  <2>3. Good([p EXCEPT !.known = known])
    BY <2>2 DEF Begun, Parsers
  <2>4. QED
    BY <2>1, <2>3
<1> HIDE DEF Good, v, n
<1>4. Good(StoreValue(p))
  BY <1>1, <1>2, <1>3 DEF StoreValue, v, n
<1>5. QED
  BY <1>4 DEF Good

LEMMA ValueMoves ==
  ASSUME NEW p \in Parsers, p.state = "VALUE", Begun(p), NEW e
  PROVE  LET q == ParseValue(p, e)
         IN Moves(p, q, {"VALUE", "HEADER_LF"}) /\ (q.status # 0 \/ Begun(q))
<1> DEFINE Good(q) == Moves(p, q, {"VALUE", "HEADER_LF"}) /\ (q.status # 0 \/ Begun(q))
<1>1. PICK begun \in Parsers : begun = [p EXCEPT !.leading = FALSE]
  BY DEF Parsers
<1>2. /\ begun.skip = p.skip /\ begun.offset = p.offset /\ Begun(begun)
      /\ begun.state = "VALUE"
  BY <1>1 DEF Begun, Parsers
<1>3. Good([p EXCEPT !.blanks = TRUE])
  BY DEF Moves, Parsers, Begun
<1>4. Good(Fail(p, 400))
  BY DEF Moves, Parsers, Fail
<1>5. Good(Go(StoreValue(begun), "HEADER_LF"))
  <2>1. PICK q \in Parsers : q = StoreValue(begun)
    BY StoreTyped
  <2>2. q.skip = p.skip /\ q.offset = p.offset /\ Begun(q)
    BY <1>2, <2>1, StoreKeeps
  <2>3. Good(Go(q, "HEADER_LF"))
    BY <2>2 DEF Moves, Go, Parsers, Begun
  <2>4. QED
    BY <2>1, <2>3
<1>6. Good([begun EXCEPT !.val = Append(@, e)])
  <2>1. PICK val : val = Append(begun.val, e)
    OBVIOUS
  <2>2. Good([begun EXCEPT !.val = val])
    BY <1>2 DEF Moves, Parsers, Begun
  <2>3. QED
    BY <2>1, <2>2
<1> HIDE DEF Good
<1>7. Good(ParseValue(p, e))
  BY <1>1, <1>3, <1>4, <1>5, <1>6 DEF ParseValue
<1>8. QED
  BY <1>7 DEF Good

LEMMA DecisionMoves ==
  ASSUME NEW p \in Parsers, p.state = "DECISION", Begun(p), NEW e
  PROVE  LET q == ParseDecision(p, e)
         IN Moves(p, q, HeaderStates) /\ (q.status # 0 \/ Begun(q))
<1> DEFINE Good(q) == Moves(p, q, HeaderStates) /\ (q.status # 0 \/ Begun(q))
<1>1. "HEADER_LF" \in ParserStates /\ "KEY" \in ParserStates
  BY DEF ParserStates, HeaderStates
<1>2. Good([Go(p, "HEADER_LF") EXCEPT !.last = TRUE])
  <2>1. PICK q \in Parsers : q = Go(p, "HEADER_LF")
    BY <1>1, GoTyped
  <2>2. q.skip = p.skip /\ q.offset = p.offset /\ Begun(q) /\ q.state = "HEADER_LF"
    BY <2>1 DEF Go, Begun, Parsers
  <2>3. Good([q EXCEPT !.last = TRUE])
    BY <2>2 DEF Moves, Begun, Parsers, HeaderStates
  <2>4. QED
    BY <2>1, <2>3
<1>3. Good(ParseKey([Go(p, "KEY") EXCEPT !.key = <<>>], e))
  <2>1. PICK q \in Parsers : q = Go(p, "KEY")
    BY <1>1, GoTyped
  <2>2. q.skip = p.skip /\ q.offset = p.offset /\ q.state = "KEY"
    BY <2>1 DEF Go, Parsers
  <2>3. <<>> \in Seq(KeyChars)
    OBVIOUS
  <2>4. PICK r \in Parsers : r = [q EXCEPT !.key = <<>>]
    BY <2>3 DEF Parsers
  <2>5. r.skip = p.skip /\ r.offset = p.offset /\ r.state = "KEY"
    BY <2>2, <2>4 DEF Parsers
  <2>6. PICK k : k = ParseKey(r, e)
    OBVIOUS
  <2>7. Moves(r, k, {"KEY", "VALUE"}) /\ (k.status # 0 \/ Begun(k))
    BY <2>5, <2>6, KeyMoves
  <2>8. Good(k)
    BY <2>5, <2>7 DEF Moves, HeaderStates
  <2>9. QED
    BY <2>1, <2>4, <2>6, <2>8
<1> HIDE DEF Good
<1>4. Good(ParseDecision(p, e))
  BY <1>2, <1>3 DEF ParseDecision
<1>5. QED
  BY <1>4 DEF Good

LEMMA EndMoves ==
  ASSUME NEW p \in Parsers, p.state = "HEADER_LF", Begun(p), NEW e
  PROVE  LET q == ParseLF(p, e)
         IN Moves(p, q, {"DECISION", "BODY", "COMPLETE"}) /\ (q.status # 0 \/ Begun(q))
  BY DEF ParseLF, Moves, Fail, Go, Begun, Parsers

\* An element of the headers.
LEMMA HeadersMove ==
  ASSUME NEW p \in Parsers, InHeaders(p), Opened(p),
         NEW s \in Seq(Elements), NEW i \in 1 .. Len(s)
  PROVE  LET q == Take(p, s, i)
         IN Moves(p, q, HeadersFollow) /\ (q.status # 0 \/ Begun(q))
<1>1. PICK e : e = s[i]
  OBVIOUS
<1>2. PICK q : q = Take(p, s, i)
  OBVIOUS
<1>3. CASE p.state = "KEY"
  <2>1. q = ParseKey(p, e)
    BY <1>1, <1>2, <1>3 DEF Take
  <2>2. QED
    BY <1>2, <1>3, <2>1, KeyMoves DEF Moves, HeadersFollow, HeaderStates
<1>4. CASE p.state = "VALUE"
  <2>1. q = ParseValue(p, e) /\ Begun(p)
    BY <1>1, <1>2, <1>4 DEF Take, Opened
  <2>2. QED
    BY <1>2, <1>4, <2>1, ValueMoves DEF Moves, HeadersFollow, HeaderStates
<1>5. CASE p.state = "HEADER_LF"
  <2>1. q = ParseLF(p, e) /\ Begun(p)
    BY <1>1, <1>2, <1>5 DEF Take, Opened
  <2>2. QED
    BY <1>2, <1>5, <2>1, EndMoves DEF Moves, HeadersFollow, HeaderStates
<1>6. CASE p.state = "DECISION"
  <2>1. q = ParseDecision(p, e) /\ Begun(p)
    BY <1>1, <1>2, <1>6 DEF Take, Opened
  <2>2. QED
    BY <1>2, <1>6, <2>1, DecisionMoves DEF Moves, HeadersFollow, HeaderStates
<1>7. QED
  BY <1>3, <1>4, <1>5, <1>6 DEF InHeaders

\* Where the parser is in the first line says how much of it has come.
Placed(text, p, n) ==
  /\ p.state \notin HostStates /\ p.skip = 0
  /\ p.state = "START" => n = 0
  /\ p.state = "METHOD" => n = 1 /\ p.index = 1
  /\ p.state = "SPACE" => n = 2
  /\ p.state = "URI" => n >= 3 /\ p.index = 0 /\ \A i \in 3 .. n : text[i] \in Blank

BehindUri == InUri \cup {"CR", "LF", "KEY"}

LEMMA LineMoves ==
  ASSUME NEW p \in Parsers, ~Ended(p), ~InHeaders(p), NEW text \in Seq(Elements),
         NEW n \in Nat, n < Len(text), Placed(text, p, n), Local(p, text[n + 1])
  PROVE  LET q == Take(p, text, n + 1)
         IN Moves(p, q, BehindUri) \/ (Moves(p, q, ParserStates) /\ Placed(text, q, n + 1)
                                         /\ q.state \in {"METHOD", "SPACE", "URI"})
<1> DEFINE early == {"METHOD", "SPACE", "URI"}
           Good(q) == Moves(p, q, BehindUri) \/ (Moves(p, q, ParserStates) /\ Placed(text, q, n + 1)
                                                   /\ q.state \in early)
<1>1. PICK e \in Elements : e = text[n + 1]
  BY ElementOfSeq
<1>2. PICK q : q = Take(p, text, n + 1)
  OBVIOUS
<1>3. \A code \in Codes \ {0} : Good(Fail(p, code))
  BY FailMoves
<1>4. p.skip = 0 /\ {400, 405, 505} \subseteq Codes \ {0}
  BY DEF Placed, Codes
<1>5. early \subseteq ParserStates /\ early \cap HostStates = {}
  BY DEF ParserStates, WordStates, HostStates
<1>6. CASE p.state = "START"
  <2> DEFINE m == {k \in DOMAIN Methods : Methods[k][1] = e}
  <2>1. n = 0
    BY <1>6 DEF Placed
  <2>2. q = SelectMethod(p, e)
    BY <1>1, <1>2, <1>6 DEF Take
  <2>3. CASE m = {}
    <3>1. q = Fail(p, 405)
      BY <2>2, <2>3 DEF SelectMethod
    <3>2. QED
      BY <1>2, <1>3, <1>4, <3>1
  <2>4. CASE m # {}
    <3>1. PICK k : k = CHOOSE j \in m : TRUE
      OBVIOUS
    <3>2. q = [p EXCEPT !.method = k, !.state = "METHOD", !.index = 1]
      BY <2>2, <2>4, <3>1 DEF SelectMethod
    <3>3. q.state = "METHOD" /\ q.index = 1 /\ q.skip = p.skip /\ q.offset = p.offset
      BY <3>2 DEF Parsers
    <3>4. Placed(text, q, n + 1) /\ Moves(p, q, ParserStates)
      BY <1>4, <1>5, <2>1, <3>3 DEF Placed, Moves
    <3>5. QED
      BY <1>2, <3>3, <3>4
  <2>5. QED
    BY <2>3, <2>4
<1>7. CASE p.state = "METHOD"
  <2>1. n = 1 /\ p.index = 1
    BY <1>7 DEF Placed
  <2>2. p.method \in DOMAIN Methods
    BY DEF Parsers
  <2>3. PICK word : word = Methods[p.method] /\ Len(word) = 2
    BY <2>2, WordsTyped
  <2>4. q = Word(p, e, word, "SPACE", 405)
    BY <1>1, <1>2, <1>7, <2>3 DEF Take
  <2>5. q = Fail(p, 405) \/ q = Go(p, "SPACE")
    BY <2>1, <2>3, <2>4 DEF Word
  <2>6. CASE q = Go(p, "SPACE")
    <3>1. q.state = "SPACE" /\ q.skip = p.skip /\ q.offset = p.offset
      BY <2>6 DEF Go, Parsers
    <3>2. Placed(text, q, n + 1) /\ Moves(p, q, ParserStates)
      BY <1>4, <1>5, <2>1, <3>1 DEF Placed, Moves
    <3>3. QED
      BY <1>2, <3>1, <3>2
  <2>7. QED
    BY <1>2, <1>3, <1>4, <2>5, <2>6
<1>8. CASE p.state = "SPACE"
  <2>1. n = 2
    BY <1>8 DEF Placed
  <2>2. q = IF e \in Blank THEN Go(p, "URI") ELSE Fail(p, 405)
    BY <1>1, <1>2, <1>8 DEF Take
  <2>3. CASE e \in Blank
    <3>1. q.state = "URI" /\ q.skip = p.skip /\ q.offset = p.offset /\ q.index = 0
      BY <2>2, <2>3 DEF Go, Parsers
    <3>2. \A i \in 3 .. n + 1 : text[i] \in Blank
      BY <1>1, <2>1, <2>3
    <3>3. Placed(text, q, n + 1) /\ Moves(p, q, ParserStates)
      BY <1>4, <1>5, <2>1, <3>1, <3>2 DEF Placed, Moves
    <3>4. QED
      BY <1>2, <3>1, <3>3
  <2>4. CASE e \notin Blank
    BY <1>2, <1>3, <1>4, <2>2, <2>4
  <2>5. QED
    BY <2>3, <2>4
<1>9. CASE p.state = "URI"
  <2>1. n >= 3 /\ p.index = 0 /\ \A i \in 3 .. n : text[i] \in Blank
    BY <1>9 DEF Placed
  <2>2. e # "http:"
    BY <1>1, <1>9 DEF Local
  <2>3. CASE e \in Blank
    <3>1. q = p
      BY <1>1, <1>2, <1>9, <2>3 DEF Take
    <3>2. \A i \in 3 .. n + 1 : text[i] \in Blank
      BY <1>1, <2>1, <2>3
    <3>3. Placed(text, q, n + 1) /\ Moves(p, q, ParserStates)
      BY <1>4, <1>5, <1>9, <2>1, <3>1, <3>2 DEF Placed, Moves
    <3>4. QED
      BY <1>2, <1>9, <3>1, <3>3
  <2>4. CASE e \notin Blank
    <3>1. PICK r \in Parsers : r = Go(p, "PATH")
      BY GoTyped DEF ParserStates, PathStates
    <3>2. r.state = "PATH" /\ r.skip = p.skip /\ r.offset = p.offset
      BY <3>1 DEF Go, Parsers
    <3>3. PICK path : path = ParsePath(r, e)
      OBVIOUS
    <3>4. Moves(r, path, InUri)
      BY <3>2, <3>3, PathMoves DEF PathStates
    <3>5. Good(path)
      BY <3>2, <3>4 DEF Moves, BehindUri
    <3>6. q = path \/ q = Fail(p, 400)
      BY <1>1, <1>2, <1>9, <2>1, <2>2, <2>4, <3>1, <3>3 DEF Take, ParseScheme
    <3> HIDE DEF Good
    <3>7. QED
      BY <1>2, <1>3, <1>4, <3>5, <3>6 DEF Good
  <2>5. QED
    BY <2>3, <2>4
<1>10. CASE p.state \in PathStates
  <2>1. q = ParsePath(p, e)
    BY <1>1, <1>2, <1>10 DEF Take, PathStates
  <2>2. Moves(p, q, InUri)
    BY <1>10, <2>1, PathMoves
  <2>3. QED
    BY <1>2, <2>2 DEF Moves, BehindUri
<1>11. CASE p.state = "PCT"
  <2>1. q = ParsePctEncoded(p, e)
    BY <1>1, <1>2, <1>11 DEF Take
  <2>2. Moves(p, q, InUri)
    BY <2>1, PctMoves
  <2>3. QED
    BY <1>2, <2>2 DEF Moves, BehindUri
<1>12. CASE p.state = "VERSION"
  <2>1. q = p \/ q = Word(p, e, <<"HTTP/", "1.1">>, "CR", 505)
    BY <1>1, <1>2, <1>12 DEF Take, ParseVersion
  <2>2. Moves(p, Word(p, e, <<"HTTP/", "1.1">>, "CR", 505), BehindUri)
    BY <1>4, <1>12, WordMoves DEF BehindUri, InUri
  <2>3. Moves(p, p, BehindUri)
    BY <1>12 DEF Moves, BehindUri, InUri
  <2>4. QED
    BY <1>2, <2>1, <2>2, <2>3
<1>13. CASE p.state \in {"CR", "LF"}
  <2>1. q = Word(p, e, <<"cr">>, "LF", 400) \/ q = Word(p, e, <<"lf">>, "KEY", 400)
    BY <1>1, <1>2, <1>13 DEF Take
  <2>2. /\ Moves(p, Word(p, e, <<"cr">>, "LF", 400), BehindUri)
        /\ Moves(p, Word(p, e, <<"lf">>, "KEY", 400), BehindUri)
    BY <1>4, <1>13, WordMoves DEF BehindUri
  <2>3. QED
    BY <1>2, <2>1, <2>2
<1>14. p.state \in WordStates \cup PathStates \cup {"URI", "PCT"}
  BY DEF Parsers, ParserStates, Placed, Ended, InHeaders, HeaderStates
<1>15. QED
  BY <1>6, <1>7, <1>8, <1>9, <1>10, <1>11, <1>12, <1>13, <1>14 DEF WordStates

\* The parser after each element of a request.
Heads(text) == Readings(NewParser, text)

AbsoluteText(text) ==
  \E i \in 4 .. Len(text) : text[i] = "http:" /\ \A j \in 3 .. i - 1 : text[j] \in Blank

\* What is kept while the request has not ended.
Heading(text, p, n) == Placed(text, p, n) /\ Opened(p) /\ p.offset = n

LEMMA HeadsStep ==
  ASSUME NEW text \in Seq(Elements), ~AbsoluteText(text), NEW n \in Nat, n < Len(text),
         NEW p \in Parsers, ~Ended(p), Heading(text, p, n)
  PROVE  LET q == Step(p, text, n + 1)
         IN /\ Ended(q) \/ Heading(text, q, n + 1)
            /\ q.offset = n + 1
            /\ InHeaders(p) => q.status # 0 \/ (Begun(q) /\ (Ended(q) \/ InHeaders(q)))
            /\ Local(p, text[n + 1])
<1>1. Local(p, text[n + 1])
  <2>1. p.state \notin HostStates
    BY DEF Heading, Placed
  <2>2. CASE p.state = "URI"
    <3>1. n >= 3 /\ p.index = 0 /\ \A i \in 3 .. n : text[i] \in Blank
      BY <2>2 DEF Heading, Placed
    <3>2. n + 1 \in 4 .. Len(text) /\ (n + 1) - 1 = n
      BY <3>1
    <3>3. text[n + 1] # "http:"
      BY <3>1, <3>2 DEF AbsoluteText
    <3>4. QED
      BY <2>1, <3>1, <3>3 DEF Local
  <2>3. QED
    BY <2>1, <2>2 DEF Local
<1>2. n + 1 \in 1 .. Len(text)
  OBVIOUS
<1>3. PICK t \in Parsers : t = Take(p, text, n + 1)
  BY <1>2, TakeTyped
<1>4. PICK q : q = [t EXCEPT !.offset = @ + 1]
  OBVIOUS
<1>5. Step(p, text, n + 1) = q
  BY <1>3, <1>4 DEF Step
<1>6. /\ q.state = t.state /\ q.skip = t.skip /\ q.index = t.index /\ q.status = t.status
      /\ q.key = t.key /\ q.unknown = t.unknown /\ q.known = t.known
      /\ q.offset = t.offset + 1
  BY <1>4 DEF Parsers
<1>7. (Begun(q) <=> Begun(t)) /\ (Ended(q) <=> Ended(t)) /\ (Opened(q) <=> Opened(t))
  BY <1>6 DEF Begun, Ended, Opened
<1>8. p.skip = 0 /\ p.offset = n
  BY DEF Heading, Placed
<1>9. CASE InHeaders(p)
  <2>1. Moves(p, t, HeadersFollow) /\ (t.status # 0 \/ Begun(t))
    BY <1>2, <1>3, <1>9, HeadersMove DEF Heading
  <2>2. q.offset = n + 1 /\ q.skip = 0
    BY <1>6, <1>8, <2>1 DEF Moves
  <2>3. CASE q.status # 0
    BY <1>1, <1>5, <2>2, <2>3 DEF Ended
  <2>4. CASE q.status = 0
    <3>1. Begun(q) /\ q.state \in HeadersFollow
      BY <1>6, <1>7, <2>1, <2>4 DEF Moves
    <3>2. Ended(q) \/ InHeaders(q)
      BY <3>1 DEF Ended, InHeaders, HeadersFollow, HeaderStates
    <3>3. Placed(text, q, n + 1) /\ Opened(q)
      BY <2>2, <3>1 DEF Placed, Opened, HeadersFollow, HeaderStates, HostStates
    <3>4. QED
      BY <1>1, <1>5, <2>2, <3>1, <3>2, <3>3 DEF Heading
  <2>5. QED
    BY <2>3, <2>4
<1>10. CASE ~InHeaders(p)
  <2>1. \/ Moves(p, t, BehindUri)
        \/ /\ Moves(p, t, ParserStates) /\ Placed(text, t, n + 1)
           /\ t.state \in {"METHOD", "SPACE", "URI"}
    BY <1>1, <1>3, <1>10, LineMoves DEF Heading
  <2>2. q.offset = n + 1 /\ q.skip = 0
    BY <1>6, <1>8, <2>1 DEF Moves
  <2>3. CASE q.status # 0
    BY <1>1, <1>5, <1>10, <2>2, <2>3 DEF Ended
  <2>4. CASE q.status = 0 /\ Moves(p, t, BehindUri)
    <3>1. q.state \in BehindUri
      BY <1>6, <2>4 DEF Moves
    <3>2. Placed(text, q, n + 1) /\ Opened(q)
      BY <2>2, <3>1 DEF Placed, Opened, BehindUri, InUri, PathStates, HostStates
    <3>3. QED
      BY <1>1, <1>5, <1>10, <2>2, <3>2 DEF Heading
  <2>5. CASE Placed(text, t, n + 1) /\ t.state \in {"METHOD", "SPACE", "URI"}
    <3>1. Placed(text, q, n + 1)
      BY <1>6, <2>5 DEF Placed
    <3>2. Opened(q)
      BY <1>6, <2>5 DEF Opened
    <3>3. QED
      BY <1>1, <1>5, <1>10, <2>2, <3>1, <3>2 DEF Heading
  <2>6. QED
    BY <2>1, <2>3, <2>4, <2>5
<1>11. QED
  BY <1>9, <1>10

LEMMA NewIsStart ==
  /\ NewParser \in Parsers /\ Resumed(NewParser) = NewParser
  /\ ~Ended(NewParser) /\ ~InHeaders(NewParser)
  /\ NewParser.offset = 0 /\ NewParser.state = "START" /\ NewParser.skip = 0
<1>1. /\ NewParser.skip = 0 /\ NewParser.offset = 0 /\ NewParser.state = "START"
      /\ NewParser.status = 0
  BY DEF NewParser
<1>2. QED
  BY <1>1, NewParserTyped, ResumedTyped DEF Ended, InHeaders

LEMMA HeadsKeep ==
  ASSUME NEW text \in Seq(Elements), ~AbsoluteText(text)
  PROVE  /\ Heads(text) \in [0 .. Len(text) -> Parsers]
         /\ Heads(text)[0] = NewParser
         /\ \A n \in 1 .. Len(text) : Heads(text)[n] = Step(Heads(text)[n - 1], text, n)
         /\ \A n \in 0 .. Len(text) :
              /\ Ended(Heads(text)[n]) \/ Heading(text, Heads(text)[n], n)
              /\ Heads(text)[n].offset <= n
<1> DEFINE N == Len(text)
           h == Heads(text)
<1>1. /\ h \in [0 .. N -> Parsers] /\ h[0] = NewParser
      /\ \A n \in 1 .. N : h[n] = Step(h[n - 1], text, n)
  BY NewIsStart, ReadingsAre DEF Heads
<1>2. N \in Nat
  OBVIOUS
<1> HIDE DEF N, h
<1> DEFINE T == {n \in 0 .. N : (Ended(h[n]) \/ Heading(text, h[n], n)) /\ h[n].offset <= n}
<1>3. 0 \in T
  <2>1. Heading(text, NewParser, 0)
    BY NewIsStart DEF Heading, Placed, Opened, HostStates
  <2>2. QED
    BY <1>1, <1>2, <2>1, NewIsStart
<1>4. ASSUME NEW n \in 1 .. N, n - 1 \in T PROVE n \in T
  <2>1. PICK k \in Nat : k = n - 1 /\ n = k + 1 /\ k \in T /\ k \in 0 .. N /\ n \in 0 .. N
    BY <1>2, <1>4
  <2>2. PICK p \in Parsers : p = h[k]
    BY <1>1, <2>1
  <2>3. h[n] = Step(p, text, k + 1)
    BY <1>1, <2>1, <2>2
  <2>4. CASE Ended(p)
    <3>1. h[n] = p /\ p.offset <= k
      BY <2>1, <2>2, <2>3, <2>4 DEF Step
    <3>2. p.offset <= n
      BY <2>1, <3>1 DEF Parsers
    <3>3. QED
      BY <2>1, <2>4, <3>1, <3>2
  <2>5. CASE ~Ended(p)
    <3>1. Heading(text, p, k)
      BY <2>1, <2>2, <2>5
    <3>2. k < Len(text)
      BY <1>2, <2>1 DEF N
    <3>3. (Ended(h[n]) \/ Heading(text, h[n], n)) /\ h[n].offset = n
      BY <2>1, <2>3, <2>5, <3>1, <3>2, HeadsStep
    <3>4. QED
      BY <2>1, <3>3
  <2>6. QED
    BY <2>4, <2>5
<1> HIDE DEF T
<1>5. 0 .. N \subseteq T
  BY <1>2, <1>3, <1>4, NumbersUpTo
<1>6. \A n \in 0 .. N : (Ended(h[n]) \/ Heading(text, h[n], n)) /\ h[n].offset <= n
  BY <1>5 DEF T
<1>7. QED
  BY <1>1, <1>6 DEF N, h

\* Nothing is read of what follows the end.
LEMMA HeadsEnd ==
  ASSUME NEW text \in Seq(Elements), ~AbsoluteText(text),
         NEW a \in 0 .. Len(text), Ended(Heads(text)[a]), NEW m \in a .. Len(text)
  PROVE  Heads(text)[m] = Heads(text)[a]
<1> DEFINE h == Heads(text)
           N == m - a
           T == {i \in 0 .. N : h[a + i] = h[a]}
<1>1. \A n \in 1 .. Len(text) : h[n] = Step(h[n - 1], text, n)
  BY HeadsKeep
<1> HIDE DEF h
<1>2. 0 \in T /\ N \in Nat
  OBVIOUS
<1>3. ASSUME NEW i \in 1 .. N, i - 1 \in T PROVE i \in T
  <2>1. a + i \in 1 .. Len(text) /\ (a + i) - 1 = a + (i - 1)
    OBVIOUS
  <2>2. h[a + i] = Step(h[a], text, a + i)
    BY <1>1, <1>3, <2>1
  <2>3. QED
    BY <2>2 DEF Step, h
<1> HIDE DEF T
<1>4. 0 .. N \subseteq T
  BY <1>2, <1>3, NumbersUpTo
<1>5. N \in T /\ a + N = m
  BY <1>2, <1>4
<1>6. QED
  BY <1>5 DEF T, h

\* Of the headers, a name or a slot is there after an element.
LEMMA HeadersStay ==
  ASSUME NEW text \in Seq(Elements), ~AbsoluteText(text),
         NEW a \in 0 .. Len(text), ~Ended(Heads(text)[a]), InHeaders(Heads(text)[a]),
         NEW m \in a + 1 .. Len(text), Heads(text)[m].status = 0
  PROVE  Begun(Heads(text)[m])
<1> DEFINE h == Heads(text)
           N == m - a
           T == {i \in 0 .. N : Ended(h[a + i]) \/ InHeaders(h[a + i])}
<1>1. /\ h \in [0 .. Len(text) -> Parsers]
      /\ \A n \in 1 .. Len(text) : h[n] = Step(h[n - 1], text, n)
      /\ \A n \in 0 .. Len(text) : Ended(h[n]) \/ Heading(text, h[n], n)
  BY HeadsKeep
<1>2. ASSUME NEW i \in 1 .. N, InHeaders(h[a + (i - 1)]), ~Ended(h[a + (i - 1)])
      PROVE  /\ Ended(h[a + i]) \/ InHeaders(h[a + i])
             /\ h[a + i].status # 0 \/ Begun(h[a + i])
  <2>1. PICK k \in Nat : k = a + (i - 1) /\ a + i = k + 1 /\ k \in 0 .. Len(text)
                         /\ k < Len(text) /\ k + 1 \in 1 .. Len(text) /\ (k + 1) - 1 = k
    OBVIOUS
  <2>2. PICK p \in Parsers : p = h[k] /\ ~Ended(p) /\ InHeaders(p) /\ Heading(text, p, k)
    BY <1>1, <1>2, <2>1
  <2>3. h[k + 1] = Step(p, text, k + 1)
    BY <1>1, <2>1, <2>2
  <2> HIDE DEF h
  <2>4. \/ Step(p, text, k + 1).status # 0
        \/ Begun(Step(p, text, k + 1)) /\ (Ended(Step(p, text, k + 1)) \/ InHeaders(Step(p, text, k + 1)))
    BY <2>1, <2>2, HeadsStep
  <2>5. QED
    BY <2>1, <2>3, <2>4 DEF Ended
<1> HIDE DEF h
<1>3. 0 \in T /\ N \in Nat
  BY DEF h
<1>4. ASSUME NEW i \in 1 .. N, i - 1 \in T PROVE i \in T
  <2>1. CASE Ended(h[a + (i - 1)])
    <3>1. a + i \in 1 .. Len(text) /\ (a + i) - 1 = a + (i - 1)
      OBVIOUS
    <3>2. h[a + i] = Step(h[a + (i - 1)], text, a + i)
      BY <1>1, <3>1
    <3>3. h[a + i] = h[a + (i - 1)]
      BY <2>1, <3>2 DEF Step
    <3>4. QED
      BY <2>1, <3>3
  <2>2. CASE ~Ended(h[a + (i - 1)])
    <3>1. InHeaders(h[a + (i - 1)])
      BY <1>4, <2>2
    <3>2. Ended(h[a + i]) \/ InHeaders(h[a + i])
      BY <1>2, <2>2, <3>1
    <3>3. QED
      BY <3>2
  <2>3. QED
    BY <2>1, <2>2
<1>5. 0 .. N \subseteq T
  <2> HIDE DEF T
  <2>1. QED
    BY <1>3, <1>4, NumbersUpTo
\* The element that ended them, or the last one, was of the headers.
<1> DEFINE F == {i \in 0 .. N : Ended(h[a + i])}
<1>6. N \in 1 .. N /\ a + N = m /\ N - 1 \in 0 .. N
  BY <1>3
<1>7. CASE Ended(h[a + (N - 1)])
  <2>1. F \subseteq Nat /\ N - 1 \in F
    BY <1>3, <1>6, <1>7
  <2>2. PICK i \in F : \A j \in F : i <= j
    BY <2>1, LeastNumber
  <2>3. i # 0
    <3>1. ~Ended(h[a + 0])
      BY DEF h
    <3>2. QED
      BY <2>2, <3>1
  <2>4. i - 1 \in 0 .. N /\ ~(i <= i - 1) /\ i \in 1 .. N
    BY <2>2, <2>3
  <2>5. ~Ended(h[a + (i - 1)])
    BY <2>2, <2>4
  <2>6. i - 1 \in T
    BY <1>5, <2>4
  <2>7. InHeaders(h[a + (i - 1)])
    BY <2>5, <2>6
  <2>8. h[a + i].status # 0 \/ Begun(h[a + i])
    BY <1>2, <2>4, <2>5, <2>7
  <2>9. a + i \in 0 .. Len(text) /\ m \in a + i .. Len(text) /\ Ended(h[a + i])
    BY <1>6, <2>2
  <2>10. h[m] = h[a + i]
    BY <2>9, HeadsEnd DEF h
  <2>11. QED
    BY <2>8, <2>10 DEF h
<1>8. CASE ~Ended(h[a + (N - 1)])
  <2>1. InHeaders(h[a + (N - 1)])
    <3>1. N - 1 \in T
      BY <1>5, <1>6
    <3>2. QED
      BY <1>8, <3>1
  <2>2. h[a + N].status # 0 \/ Begun(h[a + N])
    BY <1>2, <1>6, <1>8, <2>1
  <2>3. QED
    BY <1>6, <2>2 DEF h
<1>9. QED
  BY <1>7, <1>8

\* The parser after n elements, wherever they were cut.
Overflows(p) == p.status = 0 /\ InHeaders(p) /\ Begun(p)
HeadOf(text, n) ==
  LET p == Heads(text)[n]
  IN IF Overflows(p) /\ n >= BufferRequest THEN Fail(p, 431) ELSE p

LEMMA ParseFollows ==
  ASSUME NEW text \in Seq(Elements), ~AbsoluteText(text),
         NEW a \in 0 .. Len(text), NEW n \in 1 .. Len(text) - a, ~Ended(Heads(text)[a])
  PROVE  Parse(Heads(text)[a], SubSeq(text, a + 1, a + n)) = HeadOf(text, a + n)
<1> DEFINE h == Heads(text)
           p == h[a]
           T(r) == {i \in 0 .. n : r[i] = h[a + i]}
<1>1. /\ h \in [0 .. Len(text) -> Parsers]
      /\ \A i \in 1 .. Len(text) : h[i] = Step(h[i - 1], text, i)
      /\ \A i \in 0 .. Len(text) : Ended(h[i]) \/ Heading(text, h[i], i)
  BY HeadsKeep
<1>2. PICK piece : piece = SubSeq(text, a + 1, a + n)
  OBVIOUS
<1>3. /\ piece \in Seq(Elements) /\ Len(piece) = n
      /\ \A i \in 1 .. n : piece[i] = text[a + i]
  <2>1. a + n \in 0 .. Len(text) /\ a \in 0 .. a + n /\ (a + n) - a = n
    OBVIOUS
  <2>2. QED
    BY <1>2, <2>1, SubSeqIs
<1>4. p \in Parsers /\ ~Ended(p) /\ Heading(text, p, a)
  BY <1>1
<1> HIDE DEF h
<1>5. Resumed(p) = p
  <2>1. p.skip = 0
    BY <1>4 DEF Heading, Placed
  <2>2. QED
    BY <1>4, <2>1, ResumedTyped
<1>6. PICK r : /\ r = Readings(p, piece) /\ r[0] = p
               /\ \A i \in 1 .. n : r[i] = Step(r[i - 1], piece, i)
  <2>1. PICK w \in Parsers : w = p /\ Resumed(w) = w
    BY <1>4, <1>5
  <2>2. /\ Readings(w, piece)[0] = Resumed(w)
        /\ \A i \in 1 .. Len(piece) :
             Readings(w, piece)[i] = Step(Readings(w, piece)[i - 1], piece, i)
    BY <1>3, ReadingsAre
  <2> HIDE DEF p
  <2>3. QED
    BY <1>3, <2>1, <2>2
<1>7. 0 .. n \subseteq T(r)
  <2>1. 0 \in T(r)
    BY <1>6
  <2>2. ASSUME NEW i \in 1 .. n, i - 1 \in T(r) PROVE i \in T(r)
    <3>1. PICK k \in Nat : /\ k = a + (i - 1) /\ a + i = k + 1 /\ k \in 0 .. Len(text)
                           /\ k < Len(text) /\ k + 1 \in 1 .. Len(text) /\ (k + 1) - 1 = k
      OBVIOUS
    <3>2. PICK q \in Parsers : q = h[k] /\ (Ended(q) \/ Heading(text, q, k))
      BY <1>1, <3>1
    <3>3. h[k + 1] = Step(q, text, k + 1)
      BY <1>1, <3>1, <3>2
    <3>4. r[i] = Step(q, piece, i)
      BY <1>6, <2>2, <3>1, <3>2
    <3>5. Step(q, piece, i) = Step(q, text, k + 1)
      <4>1. CASE Ended(q)
        BY <4>1 DEF Step
      <4>2. CASE ~Ended(q)
        <5>1. Local(q, text[k + 1])
          BY <3>1, <3>2, <4>2, HeadsStep
        <5>2. piece[i] = text[k + 1] /\ i \in 1 .. Len(piece)
          BY <1>3, <3>1
        <5>3. Take(q, piece, i) = Take(q, text, k + 1)
          BY <1>3, <3>1, <4>2, <5>1, <5>2, TakeLocal
        <5>4. QED
          BY <4>2, <5>3 DEF Step
      <4>3. QED
        BY <4>1, <4>2
    <3>6. QED
      BY <3>1, <3>3, <3>4, <3>5
  <2>3. n \in Nat
    OBVIOUS
  <2> HIDE DEF T
  <2>4. QED
    BY <2>1, <2>2, <2>3, NumbersUpTo
<1>8. PICK q \in Parsers : q = h[a + n]
  <2>1. a + n \in 0 .. Len(text)
    OBVIOUS
  <2>2. QED
    BY <1>1, <2>1
<1>9. r[n] = q
  <2>1. n \in T(r)
    BY <1>7
  <2>2. QED
    BY <1>8, <2>1
<1>10. Parse(p, piece) = IF q.status = 0 /\ InHeaders(q) /\ (InHeaders(p) \/ Begun(q))
                              /\ q.offset >= BufferRequest
                           THEN Fail(q, 431) ELSE q
  BY <1>3, <1>6, <1>9 DEF Parse
<1>11. q.status = 0 /\ InHeaders(q) => q.offset = a + n /\ (InHeaders(p) => Begun(q))
  <2>1. SUFFICES ASSUME q.status = 0, InHeaders(q)
                 PROVE  q.offset = a + n /\ (InHeaders(p) => Begun(q))
    OBVIOUS
  <2>2. ~Ended(q)
    BY <2>1 DEF Ended, InHeaders
  <2>3. Heading(text, q, a + n)
    <3>1. a + n \in 0 .. Len(text)
      OBVIOUS
    <3>2. QED
      BY <1>1, <1>8, <2>2, <3>1
  <2>4. InHeaders(p) => Begun(q)
    <3>1. a + n \in a + 1 .. Len(text)
      OBVIOUS
    <3>2. QED
      BY <1>8, <2>1, <3>1, HeadersStay DEF h
  <2>5. QED
    BY <2>3, <2>4 DEF Heading
<1>12. HeadOf(text, a + n) = IF Overflows(q) /\ a + n >= BufferRequest THEN Fail(q, 431) ELSE q
  BY <1>8 DEF HeadOf, h
<1>13. Parse(p, piece) = HeadOf(text, a + n)
  BY <1>10, <1>11, <1>12 DEF Overflows
<1>14. QED
  BY <1>2, <1>13 DEF h

-----------------------------------------------------------------------------
(***************************************************************************)
(* The number of a size line.                                              *)
(***************************************************************************)
LEMMA DigitsValue ==
  ASSUME NEW digits \in Seq(Hex)
  PROVE  Value(digits) \in Nat
<1> DEFINE N == Len(digits)
           v(i) == HexValue(digits[i])
           g == [i \in 1 .. N |-> [n \in Nat |-> 16 * n + HexValue(digits[i])]]
           F(f) == [i \in 0 .. N |-> IF i = 0 THEN 0 ELSE 16 * f[i - 1] + HexValue(digits[i])]
           h == CHOOSE f : f = F(f)
<1>1. N \in Nat
  OBVIOUS
<1>2. \A i \in 1 .. N : HexValue(digits[i]) \in Nat
  <2>1. TAKE i \in 1 .. N
  <2>2. digits[i] \in Hex
    BY ElementOfSeq
  <2>3. \A e \in Hex : HexValue(e) \in Nat
    BY DEF Hex, Digits, HexValue
  <2>4. QED
    BY <2>2, <2>3
<1>3. \A i \in 1 .. N : \A n \in Nat : 16 * n + HexValue(digits[i]) \in Nat
  BY <1>2
<1>4. g \in [1 .. N -> [Nat -> Nat]]
  BY <1>3
<1>5. \A i \in 1 .. N : \A n \in Nat : g[i][n] = 16 * n + HexValue(digits[i])
  OBVIOUS
<1>6. Value(digits) = h[N]
  BY DEF Value
<1> HIDE DEF N, g
<1>7. PICK f \in [0 .. N -> Nat] : Iterates(f, 0, g, N)
  BY <1>1, <1>4, IteratesExist
<1>8. \A i \in 1 .. N : i \in 0 .. N /\ i - 1 \in 0 .. N /\ i # 0
  BY <1>1
<1>9. f = F(f)
  <2>1. \A i \in 0 .. N : i = 0 \/ i \in 1 .. N
    BY <1>1
  <2>2. \A i \in 0 .. N : f[i] = F(f)[i]
    BY <1>5, <1>7, <1>8, <2>1 DEF Iterates
  <2>3. QED
    BY <2>2
<1> HIDE DEF F
<1>10. h = F(h)
  BY <1>9
<1> HIDE DEF h
<1>11. \A i \in 0 .. N : h[i] = IF i = 0 THEN 0 ELSE 16 * h[i - 1] + HexValue(digits[i])
  BY <1>10 DEF F
<1> DEFINE T == {i \in 0 .. N : h[i] \in Nat}
<1>12. 0 \in T
  BY <1>1, <1>11
<1>13. ASSUME NEW i \in 1 .. N, i - 1 \in T PROVE i \in T
  <2>1. h[i] = 16 * h[i - 1] + HexValue(digits[i])
    BY <1>8, <1>11
  <2>2. h[i - 1] \in Nat
    BY <1>13
  <2>3. QED
    BY <1>3, <1>8, <2>1, <2>2
<1> HIDE DEF T
<1>14. 0 .. N \subseteq T
  BY <1>1, <1>12, <1>13, NumbersUpTo
<1>15. N \in T
  BY <1>1, <1>14
<1>16. QED
  BY <1>6, <1>15 DEF T

\* Where the number of s begins, and what is behind it.
NumberAt(s, first, end) ==
  /\ first \in 1 .. Len(s) + 1 /\ end \in first .. Len(s) + 1
  /\ \A i \in 1 .. first - 1 : s[i] \in Space
  /\ first <= Len(s) => s[first] \notin Space
  /\ \A i \in first .. end - 1 : s[i] \in Hex
  /\ end <= Len(s) => s[end] \notin Hex

NumberOf(s, first, end) ==
  LET digits == SubSeq(s, first, end - 1)
  IN IF digits # <<>> /\ end <= Len(s) /\ s[end] \notin Space THEN -1
     ELSE IF s # <<>> /\ digits = <<>> /\ first = 1 THEN -1
     ELSE Value(digits)

LEMMA NumberIs ==
  ASSUME NEW S, NEW s \in Seq(S)
  PROVE  \E first, end : NumberAt(s, first, end) /\ Number(s) = NumberOf(s, first, end)
<1> DEFINE A == {i \in DOMAIN s : s[i] \notin Space} \cup {Len(s) + 1}
           first == Min(A)
           B == {i \in first .. Len(s) : s[i] \notin Hex} \cup {Len(s) + 1}
           end == Min(B)
<1>1. A \subseteq Nat /\ A # {} /\ Len(s) \in Nat /\ DOMAIN s = 1 .. Len(s)
  OBVIOUS
<1>2. first \in A /\ \A y \in A : first <= y
  BY <1>1, SmallestIs
<1>3. first \in 1 .. Len(s) + 1
  BY <1>1, <1>2
<1> HIDE DEF first
<1>4. B \subseteq Nat /\ B # {}
  BY <1>1, <1>3
<1>5. end \in B /\ \A y \in B : end <= y
  BY <1>4, SmallestIs
<1> HIDE DEF end
<1>6. end \in first .. Len(s) + 1
  BY <1>1, <1>3, <1>5
<1>7. \A i \in 1 .. first - 1 : s[i] \in Space
  BY <1>1, <1>2, <1>3
<1>8. first <= Len(s) => s[first] \notin Space
  BY <1>1, <1>2, <1>3
<1>9. \A i \in first .. end - 1 : s[i] \in Hex
  BY <1>1, <1>3, <1>5, <1>6
<1>10. end <= Len(s) => s[end] \notin Hex
  BY <1>1, <1>5, <1>6
<1>11. NumberAt(s, first, end)
  BY <1>3, <1>6, <1>7, <1>8, <1>9, <1>10 DEF NumberAt
<1>12. Number(s) = NumberOf(s, first, end)
  BY DEF Number, NumberOf, first, end
<1>13. QED
  BY <1>11, <1>12

LEMMA DigitsTyped ==
  ASSUME NEW S, NEW s \in Seq(S), NEW first, NEW end, NumberAt(s, first, end)
  PROVE  /\ SubSeq(s, first, end - 1) \in Seq(Hex)
         /\ Len(SubSeq(s, first, end - 1)) = end - first
         /\ \A i \in 1 .. end - first : SubSeq(s, first, end - 1)[i] = s[first + i - 1]
<1>1. first \in Int /\ end - 1 \in Int /\ end \in Int /\ first <= end
  BY DEF NumberAt
<1>2. \A i \in first .. end - 1 : s[i] \in Hex
  BY DEF NumberAt
<1>3. /\ SubSeq(s, first, end - 1) \in Seq(Hex)
      /\ Len(SubSeq(s, first, end - 1)) = IF first <= end - 1 THEN (end - 1) - first + 1 ELSE 0
      /\ \A i \in 1 .. (end - 1) - first + 1 : SubSeq(s, first, end - 1)[i] = s[first + i - 1]
  BY <1>1, <1>2, SubSeqProperties
<1>4. /\ (IF first <= end - 1 THEN (end - 1) - first + 1 ELSE 0) = end - first
      /\ (end - 1) - first + 1 = end - first
  BY <1>1
<1>5. QED
  BY <1>3, <1>4

LEMMA NumberTyped ==
  ASSUME NEW S, NEW s \in Seq(S)
  PROVE  Number(s) \in Int
<1>1. PICK first, end : NumberAt(s, first, end) /\ Number(s) = NumberOf(s, first, end)
  BY NumberIs
<1>2. PICK digits \in Seq(Hex) : digits = SubSeq(s, first, end - 1)
  BY <1>1, DigitsTyped
<1>3. Value(digits) \in Nat
  BY DigitsValue
<1>4. Number(s) = -1 \/ Number(s) = Value(digits)
  BY <1>1, <1>2 DEF NumberOf
<1>5. QED
  BY <1>3, <1>4

\* What is behind the end of a line that has a size changes nothing.
LEMMA NumberLocal ==
  ASSUME NEW S, NEW s \in Seq(S), NEW m \in Nat, m < Len(s), s[m + 1] = "cr",
         NEW k \in 1 .. m, s[k] \notin Space
  PROVE  Number(s) = Number(SubSeq(s, 1, m))
<1>1. PICK line : line = SubSeq(s, 1, m)
  OBVIOUS
<1>2. line \in Seq(S) /\ Len(line) = m /\ \A i \in 1 .. m : line[i] = s[i]
  <2>1. m \in 0 .. Len(s) /\ 0 \in 0 .. m /\ 0 + 1 = 1 /\ m - 0 = m
    OBVIOUS
  <2>2. /\ SubSeq(s, 0 + 1, m) \in Seq(S) /\ Len(SubSeq(s, 0 + 1, m)) = m - 0
        /\ \A i \in 1 .. m - 0 : SubSeq(s, 0 + 1, m)[i] = s[0 + i]
    BY <2>1, SubSeqIs
  <2>3. QED
    BY <1>1, <2>1, <2>2
<1>3. PICK f, e : NumberAt(s, f, e) /\ Number(s) = NumberOf(s, f, e)
  BY NumberIs
<1>4. PICK g, d : NumberAt(line, g, d) /\ Number(line) = NumberOf(line, g, d)
  BY <1>2, NumberIs
<1>5. /\ f \in Nat \ {0} /\ e \in Nat /\ f <= e /\ e <= Len(s) + 1
      /\ g \in Nat \ {0} /\ d \in Nat /\ g <= d /\ d <= m + 1
  BY <1>2, <1>3, <1>4 DEF NumberAt
<1>6. f <= k
  BY <1>3, <1>5 DEF NumberAt
<1>7. g <= k
  BY <1>2, <1>4, <1>5 DEF NumberAt
<1>8. f = g
  <2>1. s[f] \notin Space /\ line[f] = s[f] /\ f \in 1 .. m
    BY <1>2, <1>3, <1>5, <1>6 DEF NumberAt
  <2>2. g <= f
    BY <1>4, <1>5, <2>1 DEF NumberAt
  <2>3. line[g] \notin Space /\ line[g] = s[g]
    BY <1>2, <1>4, <1>5, <1>7 DEF NumberAt
  <2>4. f <= g
    BY <1>3, <1>5, <2>3 DEF NumberAt
  <2>5. QED
    BY <1>5, <2>2, <2>4
<1>9. e <= m + 1
  <2>1. s[m + 1] \notin Hex
    BY DEF Hex, Digits
  <2>2. m + 1 \in f .. e - 1 => s[m + 1] \in Hex
    BY <1>3 DEF NumberAt
  <2>3. QED
    BY <1>5, <1>6, <2>1, <2>2
<1>10. e = d
  <2>1. e <= m => d <= e
    <3>1. SUFFICES ASSUME e <= m PROVE d <= e
      OBVIOUS
    <3>2. e <= Len(s) /\ e \in 1 .. m
      BY <1>5, <3>1
    <3>3. line[e] \notin Hex
      BY <1>2, <1>3, <3>2 DEF NumberAt
    <3>4. e \in g .. d - 1 => line[e] \in Hex
      BY <1>4 DEF NumberAt
    <3>5. QED
      BY <1>5, <1>8, <3>3, <3>4
  <2>2. d <= m => e <= d
    <3>1. SUFFICES ASSUME d <= m PROVE e <= d
      OBVIOUS
    <3>2. d <= Len(line) /\ d \in 1 .. m
      BY <1>2, <1>5, <3>1
    <3>3. s[d] \notin Hex
      BY <1>2, <1>4, <3>2 DEF NumberAt
    <3>4. d \in f .. e - 1 => s[d] \in Hex
      BY <1>3 DEF NumberAt
    <3>5. QED
      BY <1>5, <1>8, <3>3, <3>4
  <2>3. QED
    BY <1>5, <1>9, <2>1, <2>2
<1>11. PICK digits : digits = SubSeq(s, f, e - 1)
  OBVIOUS
<1>12. PICK same : same = SubSeq(line, f, e - 1)
  OBVIOUS
<1>13. digits = same
  <2>1. /\ digits \in Seq(Hex) /\ Len(digits) = e - f
        /\ \A i \in 1 .. e - f : digits[i] = s[f + i - 1]
    BY <1>3, <1>11, DigitsTyped
  <2>2. /\ same \in Seq(Hex) /\ Len(same) = e - f
        /\ \A i \in 1 .. e - f : same[i] = line[f + i - 1]
    BY <1>2, <1>4, <1>8, <1>10, <1>12, DigitsTyped
  <2>3. \A i \in 1 .. e - f : f + i - 1 \in 1 .. m
    BY <1>5, <1>9
  <2>4. \A i \in 1 .. Len(digits) : digits[i] = same[i]
    BY <1>2, <2>1, <2>2, <2>3
  <2>5. QED
    BY <2>1, <2>2, <2>4, SeqEqual
<1>14. (e <= Len(s) /\ s[e] \notin Space) <=> (e <= Len(line) /\ line[e] \notin Space)
  <2>1. CASE e <= m
    <3>1. e \in 1 .. m /\ e <= Len(s)
      BY <1>5, <2>1
    <3>2. QED
      BY <1>2, <2>1, <3>1
  <2>2. CASE e = m + 1
    <3>1. s[e] \in Space /\ ~(e <= Len(line))
      BY <1>2, <2>2 DEF Space
    <3>2. QED
      BY <3>1
  <2>3. QED
    BY <1>5, <1>9, <2>1, <2>2
<1>15. s # <<>> /\ line # <<>>
  BY <1>2
<1>16. /\ Number(s) = NumberOf(s, f, e)
       /\ Number(line) = NumberOf(line, f, e)
  BY <1>3, <1>4, <1>8, <1>10
<1>17. NumberOf(s, f, e) = NumberOf(line, f, e)
  BY <1>11, <1>12, <1>13, <1>14, <1>15 DEF NumberOf
<1>18. QED
  BY <1>1, <1>16, <1>17

-----------------------------------------------------------------------------
(***************************************************************************)
(* The chunks of a body, an element at a time.                             *)
(***************************************************************************)
ChunkPlaces == {"size", "sizeEnd", "data", "end", "last", "lastEnd", "done", "refused"}
ChunkCodes == {0, 400, 413}
ChunkStates ==
  [at : ChunkPlaces, line : Seq(Elements), left : Nat, cr : BOOLEAN, file : Seq(Elements),
   status : ChunkCodes]

LEMMA AppendConcat ==
  ASSUME NEW f \in Seq(Elements), NEW s \in Seq(Elements), NEW e \in Elements
  PROVE  Append(f \o s, e) = f \o Append(s, e)
<1>1. PICK one \in Seq(Elements) : one = <<e>>
  <2>1. <<e>> \in Seq(Elements)
    OBVIOUS
  <2>2. QED
    BY <2>1
<1>2. \A t \in Seq(Elements) : Append(t, e) = t \o one
  BY <1>1, AppendIsConcat
<1>3. f \o s \in Seq(Elements)
  BY ConcatProperties
<1>4. (f \o s) \o one = f \o (s \o one)
  BY ConcatAssociative
<1>5. QED
  BY <1>2, <1>3, <1>4

LEMMA ChunkMoved ==
  ASSUME NEW k \in ChunkStates, NEW at \in ChunkPlaces
  PROVE  /\ [k EXCEPT !.at = at] \in ChunkStates
         /\ \A cr \in BOOLEAN : [k EXCEPT !.at = at, !.cr = cr] \in ChunkStates
         /\ \A line \in Seq(Elements) : [k EXCEPT !.at = at, !.line = line] \in ChunkStates
         /\ \A left \in Nat : [k EXCEPT !.at = at, !.left = left] \in ChunkStates
         /\ \A code \in ChunkCodes : [k EXCEPT !.at = at, !.status = code] \in ChunkStates
<1>1. [k EXCEPT !.at = at] \in ChunkStates
  BY DEF ChunkStates
<1>2. \A cr \in BOOLEAN : [k EXCEPT !.at = at, !.cr = cr] \in ChunkStates
  BY DEF ChunkStates
<1>3. \A line \in Seq(Elements) : [k EXCEPT !.at = at, !.line = line] \in ChunkStates
  BY DEF ChunkStates
<1>4. \A left \in Nat : [k EXCEPT !.at = at, !.left = left] \in ChunkStates
  BY DEF ChunkStates
<1>5. \A code \in ChunkCodes : [k EXCEPT !.at = at, !.status = code] \in ChunkStates
  BY DEF ChunkStates
<1>6. QED
  BY <1>1, <1>2, <1>3, <1>4, <1>5

LEMMA ReadOnTyped ==
  ASSUME NEW k \in ChunkStates, NEW e \in Elements, NEW n \in Nat
  PROVE  ReadOn(k, e, n) \in ChunkStates
<1>1. Refused(k, 400) \in ChunkStates /\ Refused(k, 413) \in ChunkStates
  <2>1. 400 \in ChunkCodes /\ 413 \in ChunkCodes /\ "refused" \in ChunkPlaces
    BY DEF ChunkCodes, ChunkPlaces
  <2>2. \A code \in ChunkCodes : Refused(k, code) \in ChunkStates
    BY <2>1, ChunkMoved DEF Refused
  <2>3. QED
    BY <2>1, <2>2
<1>2. SizeRead(k, n) \in ChunkStates
  <2>1. k.line \in Seq(Elements)
    BY DEF ChunkStates
  <2>2. PICK size \in Int : size = Number(k.line)
    BY <2>1, NumberTyped
  <2>3. PICK at \in ChunkPlaces : at = IF size = 0 THEN "last" ELSE "data"
    <3>1. "last" \in ChunkPlaces /\ "data" \in ChunkPlaces
      BY DEF ChunkPlaces
    <3>2. QED
      BY <3>1
  <2>4. ~(size < 0) => [k EXCEPT !.at = at, !.left = size] \in ChunkStates
    <3>1. SUFFICES ASSUME ~(size < 0) PROVE [k EXCEPT !.at = at, !.left = size] \in ChunkStates
      OBVIOUS
    <3>2. size \in Nat
      BY <3>1
    <3>3. QED
      BY <3>2, ChunkMoved
  <2>5. SizeRead(k, n) = IF Over(n) THEN Refused(k, 413)
                         ELSE IF size < 0 THEN Refused(k, 400)
                         ELSE [k EXCEPT !.at = at, !.left = size]
    BY <2>2, <2>3 DEF SizeRead
  <2>6. QED
    BY <1>1, <2>4, <2>5
<1>3. CASE k.at = "size"
  <2>1. k.line \in Seq(Elements)
    BY DEF ChunkStates
  <2>2. PICK line \in Seq(Elements) : line = Append(k.line, e)
    BY <2>1, AppendProperties
  <2>3. [k EXCEPT !.line = line] \in ChunkStates
    BY DEF ChunkStates
  <2>4. [k EXCEPT !.at = "sizeEnd"] \in ChunkStates
    <3>1. "sizeEnd" \in ChunkPlaces
      BY DEF ChunkPlaces
    <3>2. QED
      BY <3>1, ChunkMoved
  <2>5. QED
    BY <1>3, <2>2, <2>3, <2>4 DEF ReadOn
<1>4. CASE k.at = "sizeEnd"
  BY <1>1, <1>2, <1>4 DEF ReadOn
<1>5. CASE k.at = "data"
  <2>1. k.file \in Seq(Elements) /\ k.left \in Nat
    BY DEF ChunkStates
  <2>2. PICK file \in Seq(Elements) : file = Append(k.file, e)
    BY <2>1, AppendProperties
  <2>3. k.left # 0 => [k EXCEPT !.file = file, !.left = k.left - 1] \in ChunkStates
    <3>1. SUFFICES ASSUME k.left # 0 PROVE [k EXCEPT !.file = file, !.left = k.left - 1] \in ChunkStates
      OBVIOUS
    <3>2. PICK left \in Nat : left = k.left - 1
      BY <2>1, <3>1
    <3>3. [k EXCEPT !.file = file, !.left = left] \in ChunkStates
      BY DEF ChunkStates
    <3>4. QED
      BY <3>2, <3>3
  <2>4. PICK cr \in BOOLEAN : cr = (e = "cr")
    OBVIOUS
  <2>5. [k EXCEPT !.at = "end", !.cr = cr] \in ChunkStates
    <3>1. "end" \in ChunkPlaces
      BY DEF ChunkPlaces
    <3>2. QED
      BY <3>1, ChunkMoved
  <2>6. ReadOn(k, e, n) = IF k.left = 0 THEN [k EXCEPT !.at = "end", !.cr = cr]
                          ELSE [k EXCEPT !.file = file, !.left = k.left - 1]
    BY <1>5, <2>2, <2>4 DEF ReadOn
  <2>7. QED
    BY <2>3, <2>5, <2>6
<1>6. CASE k.at = "end"
  <2>1. PICK line \in Seq(Elements) : line = <<>>
    <3>1. <<>> \in Seq(Elements)
      OBVIOUS
    <3>2. QED
      BY <3>1
  <2>2. [k EXCEPT !.at = "size", !.line = line] \in ChunkStates
    <3>1. "size" \in ChunkPlaces
      BY DEF ChunkPlaces
    <3>2. QED
      BY <3>1, ChunkMoved
  <2>3. PICK code \in {400, 413} : code = IF Over(n - 2) THEN 413 ELSE 400
    OBVIOUS
  <2>4. ReadOn(k, e, n) = IF k.cr /\ e = "lf"
                            THEN IF Over(n) THEN Refused(k, 413)
                                 ELSE [k EXCEPT !.at = "size", !.line = line]
                          ELSE Refused(k, code)
    BY <1>6, <2>1, <2>3 DEF ReadOn
  <2>5. QED
    BY <1>1, <2>2, <2>4
<1>7. CASE k.at = "last"
  <2>1. PICK cr \in BOOLEAN : cr = (e = "cr")
    OBVIOUS
  <2>2. [k EXCEPT !.at = "lastEnd", !.cr = cr] \in ChunkStates
    <3>1. "lastEnd" \in ChunkPlaces
      BY DEF ChunkPlaces
    <3>2. QED
      BY <3>1, ChunkMoved
  <2>3. QED
    BY <1>7, <2>1, <2>2 DEF ReadOn
<1>8. CASE k.at = "lastEnd"
  <2>1. [k EXCEPT !.at = "done"] \in ChunkStates
    <3>1. "done" \in ChunkPlaces
      BY DEF ChunkPlaces
    <3>2. QED
      BY <3>1, ChunkMoved
  <2>2. QED
    BY <1>1, <1>8, <2>1 DEF ReadOn
<1>9. CASE k.at \in {"done", "refused"}
  BY <1>9 DEF ReadOn
<1>10. k.at \in ChunkPlaces
  BY DEF ChunkStates
<1>11. QED
  BY <1>3, <1>4, <1>5, <1>6, <1>7, <1>8, <1>9, <1>10 DEF ChunkPlaces

LEMMA ChunksAre ==
  ASSUME NEW data \in Seq(Elements)
  PROVE  /\ Chunks(data) \in [0 .. Len(data) -> ChunkStates]
         /\ Chunks(data)[0] = NewChunks
         /\ \A n \in 1 .. Len(data) : Chunks(data)[n] = ReadOn(Chunks(data)[n - 1], data[n], n)
<1> DEFINE N == Len(data)
           b == NewChunks
           g == [i \in 1 .. N |-> [k \in ChunkStates |-> ReadOn(k, data[i], i)]]
           F(f) == [i \in 0 .. N |-> IF i = 0 THEN b ELSE ReadOn(f[i - 1], data[i], i)]
           h == Chunks(data)
<1>1. N \in Nat /\ b \in ChunkStates
  <2>1. <<>> \in Seq(Elements) /\ 0 \in ChunkCodes /\ "size" \in ChunkPlaces
    BY DEF ChunkCodes, ChunkPlaces
  <2>2. QED
    BY <2>1 DEF NewChunks, ChunkStates
<1>2. \A i \in 1 .. N : \A k \in ChunkStates : ReadOn(k, data[i], i) \in ChunkStates
  <2>1. TAKE i \in 1 .. N
  <2>2. data[i] \in Elements /\ i \in Nat
    BY ElementOfSeq
  <2>3. QED
    BY <2>2, ReadOnTyped
<1>3. g \in [1 .. N -> [ChunkStates -> ChunkStates]]
  BY <1>2
<1>4. \A i \in 1 .. N : \A k \in ChunkStates : g[i][k] = ReadOn(k, data[i], i)
  OBVIOUS
<1>5. h = CHOOSE f : f = F(f)
  BY DEF Chunks
<1> HIDE DEF N, b, g, h
<1>6. PICK f \in [0 .. N -> ChunkStates] : Iterates(f, b, g, N)
  BY <1>1, <1>3, IteratesExist
<1>7. \A i \in 1 .. N : i \in 0 .. N /\ i - 1 \in 0 .. N /\ i # 0
  BY <1>1
<1>8. f = F(f)
  <2>1. \A i \in 0 .. N : i = 0 \/ i \in 1 .. N
    BY <1>1
  <2>2. \A i \in 0 .. N : f[i] = F(f)[i]
    BY <1>4, <1>6, <1>7, <2>1 DEF Iterates
  <2>3. QED
    BY <2>2
<1> HIDE DEF F
<1>9. h = F(h)
  BY <1>5, <1>8
<1>10. /\ h = [i \in 0 .. N |-> h[i]] /\ h[0] = b
       /\ \A i \in 1 .. N : h[i] = ReadOn(h[i - 1], data[i], i)
  <2>1. \A i \in 0 .. N : h[i] = IF i = 0 THEN b ELSE ReadOn(h[i - 1], data[i], i)
    BY <1>9 DEF F
  <2>2. h = [i \in 0 .. N |-> h[i]]
    BY <1>9 DEF F
  <2>3. 0 \in 0 .. N
    BY <1>1
  <2>4. QED
    BY <1>7, <2>1, <2>2, <2>3
<1> DEFINE T == {i \in 0 .. N : h[i] \in ChunkStates}
<1>11. 0 \in T
  BY <1>1, <1>10
<1>12. ASSUME NEW i \in 1 .. N, i - 1 \in T PROVE i \in T
  BY <1>2, <1>7, <1>10, <1>12
<1> HIDE DEF T
<1>13. 0 .. N \subseteq T
  BY <1>1, <1>11, <1>12, NumbersUpTo
<1>14. h \in [0 .. N -> ChunkStates]
  BY <1>10, <1>13 DEF T
<1>15. QED
  BY <1>10, <1>14 DEF N, b, h

\* Nothing is read of what follows the end of a body.
LEMMA ChunksEnd ==
  ASSUME NEW data \in Seq(Elements), NEW a \in 0 .. Len(data),
         Chunks(data)[a].at \in {"done", "refused"}, NEW m \in a .. Len(data)
  PROVE  Chunks(data)[m] = Chunks(data)[a]
<1> DEFINE h == Chunks(data)
           N == m - a
           T == {i \in 0 .. N : h[a + i] = h[a]}
<1>1. \A n \in 1 .. Len(data) : h[n] = ReadOn(h[n - 1], data[n], n)
  BY ChunksAre
<1> HIDE DEF h
<1>2. 0 \in T /\ N \in Nat
  OBVIOUS
<1>3. ASSUME NEW i \in 1 .. N, i - 1 \in T PROVE i \in T
  <2>1. a + i \in 1 .. Len(data) /\ (a + i) - 1 = a + (i - 1)
    OBVIOUS
  <2>2. h[a + (i - 1)] = h[a]
    BY <1>3
  <2>3. h[a + i] = ReadOn(h[a], data[a + i], a + i)
    BY <1>1, <2>1, <2>2
  <2>4. h[a].at \in {"done", "refused"}
    BY DEF h
  <2>5. ReadOn(h[a], data[a + i], a + i) = h[a]
    BY <2>4 DEF ReadOn
  <2>6. QED
    BY <2>3, <2>5
<1> HIDE DEF T
<1>4. 0 .. N \subseteq T
  BY <1>2, <1>3, NumbersUpTo
<1>5. N \in T /\ a + N = m
  BY <1>2, <1>4
<1>6. QED
  BY <1>5 DEF T, h

\* The data of a chunk, several elements at a time.
LEMMA DataRead ==
  ASSUME NEW data \in Seq(Elements), NEW a \in 0 .. Len(data), NEW n \in 0 .. Len(data) - a,
         Chunks(data)[a].at = "data", n <= Chunks(data)[a].left
  PROVE  LET k == Chunks(data)[a]
             l == Chunks(data)[a + n]
         IN /\ l.at = "data" /\ l.left = k.left - n /\ l.status = k.status
            /\ l.file = k.file \o SubSeq(data, a + 1, a + n)
<1> DEFINE h == Chunks(data)
           k == h[a]
           Read(i) == /\ h[a + i].at = "data" /\ h[a + i].left = k.left - i
                      /\ h[a + i].status = k.status
                      /\ h[a + i].file = k.file \o SubSeq(data, a + 1, a + i)
           T == {i \in 0 .. n : Read(i)}
<1>1. /\ h \in [0 .. Len(data) -> ChunkStates]
      /\ \A i \in 1 .. Len(data) : h[i] = ReadOn(h[i - 1], data[i], i)
  BY ChunksAre
<1> HIDE DEF h
<1>2. k \in ChunkStates /\ n \in Nat /\ a \in Nat
  BY <1>1
<1>3. k.file \in Seq(Elements) /\ k.left \in Nat
  BY <1>2 DEF ChunkStates
<1>4. k.at = "data" /\ n <= k.left
  BY DEF h
<1>5. 0 \in T
  <2>1. SubSeq(data, a + 1, a) = <<>>
    BY <1>2, SubSeqEmpty
  <2>2. k.file \o <<>> = k.file
    BY <1>3, ConcatEmptySeq
  <2>3. a + 0 = a /\ k.left - 0 = k.left /\ 0 \in 0 .. n
    BY <1>3, <1>2
  <2>4. h[a + 0] = k
    BY <2>3
  <2>5. Read(0)
    BY <1>4, <2>1, <2>2, <2>3, <2>4
  <2>6. QED
    BY <2>3, <2>5
<1>6. ASSUME NEW i \in 1 .. n, i - 1 \in T PROVE i \in T
  <2>1. PICK j \in Nat : j = i - 1 /\ i = j + 1 /\ Read(j) /\ a + j \in 0 .. Len(data)
    <3>1. i - 1 \in Nat /\ i = (i - 1) + 1 /\ a + (i - 1) \in 0 .. Len(data)
      BY <1>2
    <3>2. Read(i - 1)
      BY <1>6
    <3>3. QED
      BY <3>1, <3>2
  <2>2. a + i \in 1 .. Len(data) /\ (a + i) - 1 = a + j
    BY <2>1
  <2>3. PICK l \in ChunkStates : l = h[a + j]
    BY <1>1, <2>1
  <2>4. PICK e \in Elements : e = data[a + i]
    BY <2>2, ElementOfSeq
  <2>5. l.at = "data" /\ l.left = k.left - j /\ l.left # 0 /\ l.status = k.status
        /\ l.file = k.file \o SubSeq(data, a + 1, a + j)
    <3>1. l.at = "data" /\ l.left = k.left - j /\ l.status = k.status
          /\ l.file = k.file \o SubSeq(data, a + 1, a + j)
      BY <2>1, <2>3
    <3>2. k.left - j # 0
      BY <1>3, <1>4, <2>1
    <3>3. QED
      BY <3>1, <3>2
  <2>6. h[a + i] = [l EXCEPT !.file = Append(@, e), !.left = @ - 1]
    <3>1. h[a + i] = ReadOn(l, e, a + i)
      BY <1>1, <2>2, <2>3, <2>4
    <3>2. QED
      BY <2>5, <3>1 DEF ReadOn
  <2>7. PICK file : file = Append(l.file, e)
    OBVIOUS
  <2>8. h[a + i].at = "data" /\ h[a + i].left = k.left - i /\ h[a + i].status = k.status
        /\ h[a + i].file = file
    <3>1. PICK left : left = l.left - 1
      OBVIOUS
    <3>2. h[a + i] = [l EXCEPT !.file = file, !.left = left]
      BY <2>6, <2>7, <3>1
    <3>3. h[a + i].at = l.at /\ h[a + i].left = left /\ h[a + i].status = l.status
          /\ h[a + i].file = file
      <4>1. DOMAIN l = {"at", "line", "left", "cr", "file", "status"}
        BY DEF ChunkStates
      <4>2. QED
        BY <3>2, <4>1
    <3>4. left = k.left - i
      <4>1. PICK m \in Nat : m = k.left
        BY <1>3
      <4>2. left = (m - j) - 1
        BY <2>5, <3>1, <4>1
      <4>3. j \in Nat /\ i = j + 1
        BY <2>1
      <4>4. (m - j) - 1 = m - i
        BY <4>3
      <4>5. QED
        BY <4>1, <4>2, <4>4
    <3>5. QED
      BY <2>5, <3>3, <3>4
  <2>9. PICK s \in Seq(Elements) : s = SubSeq(data, a + 1, a + j)
    <3>1. a + j \in 0 .. Len(data) /\ a \in 0 .. a + j
      BY <1>2, <2>1
    <3>2. QED
      BY <3>1, SubSeqIs
  <2>10. SubSeq(data, a + 1, a + i) = Append(s, e)
    <3>1. a + 1 \in 1 .. Len(data) /\ a + i \in a + 1 .. Len(data)
      BY <2>2
    <3>2. SubSeq(data, a + 1, a + i) = SubSeq(data, a + 1, (a + i) - 1) \o <<data[a + i]>>
      BY <3>1, SubSeqRecursiveSecond
    <3>3. SubSeq(data, a + 1, (a + i) - 1) = s
      <4>1. (a + i) - 1 = a + j
        BY <2>2
      <4>2. QED
        BY <2>9, <4>1
    <3>4. s \o <<e>> = Append(s, e)
      OBVIOUS
    <3>5. <<data[a + i]>> = <<e>>
      BY <2>4
    <3>6. QED
      BY <3>2, <3>3, <3>4, <3>5
  <2>11. file = k.file \o Append(s, e)
    <3>1. PICK f \in Seq(Elements) : f = k.file
      BY <1>3
    <3>2. f \in Seq(Elements) /\ s \in Seq(Elements) /\ e \in Elements
      OBVIOUS
    <3>3. Append(f \o s, e) = f \o Append(s, e)
      BY <3>2, AppendConcat
    <3>4. QED
      BY <2>5, <2>7, <2>9, <3>1, <3>3
  <2>12. Read(i)
    BY <2>8, <2>10, <2>11
  <2>13. i \in 0 .. n
    BY <1>2
  <2>14. QED
    BY <2>12, <2>13
<1> HIDE DEF T
<1>7. 0 .. n \subseteq T
  BY <1>2, <1>5, <1>6, NumbersUpTo
<1>8. n \in T
  BY <1>2, <1>7
<1>9. QED
  BY <1>8 DEF T, h

-----------------------------------------------------------------------------
(***************************************************************************)
(* The turns of a body, next to what its chunks are: data is all that is   *)
(* behind the header section, base elements of it have left the buffer.    *)
(***************************************************************************)
BodyStates == {"SETTING_VARS", "READING_BODY", "SECOND_CRLF", "DONE_GOOD", "DONE_WIHTERROR"}
BodyCodes == {0, 400, 411, 413}
Bodies == [state : BodyStates, data : Seq(Elements), cur : Nat, trav : Nat, size : Nat,
           readsize : BOOLEAN, left : Int, file : Seq(Elements), status : BodyCodes]

Aligned(b) == b.cur <= b.trav /\ b.trav <= Len(b.data)
Within(s, data, base) ==
  base + Len(s) <= Len(data) /\ \A i \in 1 .. Len(s) : s[i] = data[base + i]

Part(b, data, base) ==
  /\ b \in Bodies /\ Aligned(b) /\ Within(b.data, data, base)
  /\ b.file = Chunks(data)[base + b.trav].file
  /\ b.left = MaxBodySize - base /\ b.status = 0

\* At a size line, of which what is behind cur has come; in the data of a chunk.
AtSize(b, data, base) ==
  LET k == Chunks(data)[base + b.trav]
  IN /\ b.readsize /\ k.at = "size" /\ ~Over(base + b.cur)
     /\ k.line = SubSeq(data, base + b.cur + 1, base + b.trav)
AtData(b, data, base) ==
  LET k == Chunks(data)[base + b.trav]
  IN ~b.readsize /\ k.at = "data" /\ k.left = b.size

Reads(b, data, base) ==
  /\ b.state = "READING_BODY" /\ Part(b, data, base)
  /\ AtSize(b, data, base) \/ AtData(b, data, base)
Ends(b, data, base) ==
  /\ b.state = "SECOND_CRLF" /\ Part(b, data, base) /\ b.cur = b.trav
  /\ Chunks(data)[base + b.trav].at = "last"
Fails(b, data, n) ==
  /\ b \in Bodies /\ b.state = "DONE_WIHTERROR" /\ b.status # 0
  /\ Chunks(data)[n].at = "refused" /\ b.status = Chunks(data)[n].status

\* What a turn leaves for the next read.
Pending(b) ==
  IF b.readsize THEN b.trav + 1 = Len(b.data) /\ b.data[b.trav + 1] = "cr"
  ELSE b.trav = Len(b.data) \/ (b.trav + 1 = Len(b.data) /\ b.size = 0)
Taken(b) == IF b.readsize THEN b.cur ELSE b.trav

Follows(x, data, base) ==
  \/ x.flow = "go" /\ Reads(x.b, data, base) /\ x.removed = Taken(x.b)
  \/ x.flow = "go" /\ Ends(x.b, data, base)
  \/ x.flow = "break" /\ Reads(x.b, data, base) /\ x.removed = Taken(x.b) /\ Pending(x.b)
  \/ x.flow = "error" /\ Fails(x.b, data, base + Len(x.b.data))

\* A size line has more than blanks.
Sized(data) ==
  \A n \in 1 .. Len(data) :
    LET k == Chunks(data)[n - 1]
    IN k.at = "size" /\ data[n] = "cr" => \E i \in 1 .. Len(k.line) : k.line[i] \notin Space

LEMMA SamePart ==
  ASSUME NEW s \in Seq(Elements), NEW t \in Seq(Elements), NEW base \in Nat, Within(s, t, base),
         NEW k \in 0 .. Len(s), NEW l \in 0 .. k
  PROVE  SubSeq(s, l + 1, k) = SubSeq(t, base + l + 1, base + k)
<1>1. /\ SubSeq(s, l + 1, k) \in Seq(Elements) /\ Len(SubSeq(s, l + 1, k)) = k - l
      /\ \A i \in 1 .. k - l : SubSeq(s, l + 1, k)[i] = s[l + i]
  BY SubSeqIs
<1>2. base + k \in 0 .. Len(t) /\ base + l \in 0 .. base + k
  BY DEF Within
<1>3. /\ SubSeq(t, base + l + 1, base + k) \in Seq(Elements)
      /\ Len(SubSeq(t, base + l + 1, base + k)) = (base + k) - (base + l)
      /\ \A i \in 1 .. (base + k) - (base + l) :
           SubSeq(t, base + l + 1, base + k)[i] = t[base + l + i]
  BY <1>2, SubSeqIs
<1>4. (base + k) - (base + l) = k - l
  OBVIOUS
<1>5. ASSUME NEW i \in 1 .. k - l PROVE s[l + i] = t[base + l + i]
  <2>1. l + i \in 1 .. Len(s) /\ base + (l + i) = base + l + i
    OBVIOUS
  <2>2. QED
    BY <2>1 DEF Within
<1>6. QED
  BY <1>1, <1>3, <1>4, <1>5, SeqEqual

LEMMA FailedBody ==
  ASSUME NEW b \in Bodies, NEW code \in BodyCodes
  PROVE  LET f == FailBody(b, code)
         IN f \in Bodies /\ f.state = "DONE_WIHTERROR" /\ f.status = code /\ f.data = b.data
<1>1. DOMAIN b = {"state", "data", "cur", "trav", "size", "readsize", "left", "file", "status"}
  BY DEF Bodies
<1>2. PICK f : f = FailBody(b, code)
  OBVIOUS
<1>3. f.state = "DONE_WIHTERROR" /\ f.status = code /\ f.data = b.data
  BY <1>1, <1>2 DEF FailBody
<1>4. f \in Bodies
  <2>1. PICK c : c = [b EXCEPT !.state = "DONE_WIHTERROR"]
    OBVIOUS
  <2>2. c \in Bodies
    BY <2>1 DEF Bodies, BodyStates
  <2>3. f = [c EXCEPT !.status = code]
    BY <1>1, <1>2, <2>1 DEF FailBody
  <2>4. QED
    BY <2>2, <2>3 DEF Bodies
<1>5. QED
  BY <1>2, <1>3, <1>4

LEMMA LimitIs ==
  ASSUME NEW b, NEW removed \in Nat, NEW flow, NEW base \in Nat, b.left = MaxBodySize - base
  PROVE  Limited(Turn(b, removed, flow)) =
           IF flow # "break" /\ Over(base + removed)
             THEN Turn(FailBody(b, 413), removed, "error") ELSE Turn(b, removed, flow)
<1>1. MaxBodySize \in Nat
  BY ReadingAssumption
<1>2. b.left < removed <=> MaxBodySize < base + removed
  BY <1>1
<1>3. QED
  BY <1>2 DEF Limited, Turn, Over

\* A body that is refused stays so.
LEMMA RefusedStays ==
  ASSUME NEW data \in Seq(Elements), NEW base \in Nat, NEW b \in Bodies,
         NEW code \in {400, 413}, NEW removed,
         base + Len(b.data) <= Len(data), NEW a \in 0 .. base + Len(b.data),
         Chunks(data)[a].at = "refused", Chunks(data)[a].status = code
  PROVE  Follows(Turn(FailBody(b, code), removed, "error"), data, base)
<1>1. PICK n : n = base + Len(b.data)
  OBVIOUS
<1>2. a \in 0 .. Len(data) /\ n \in a .. Len(data)
  BY <1>1
<1>3. Chunks(data)[n] = Chunks(data)[a]
  BY <1>2, ChunksEnd
<1>4. /\ FailBody(b, code) \in Bodies /\ FailBody(b, code).state = "DONE_WIHTERROR"
      /\ FailBody(b, code).status = code /\ FailBody(b, code).data = b.data
  <2>1. code \in BodyCodes
    BY DEF BodyCodes
  <2>2. QED
    BY <2>1, FailedBody
<1>5. PICK f : f = FailBody(b, code)
  OBVIOUS
<1>6. Fails(f, data, base + Len(f.data))
  <2>1. code # 0
    OBVIOUS
  <2>2. QED
    BY <1>1, <1>3, <1>4, <1>5, <2>1 DEF Fails
<1>7. QED
  BY <1>5, <1>6 DEF Follows, Turn

\* A turn leaves the data, and takes some of it when it goes on.
Advances(b, x) == x.b.data = b.data /\ (x.flow = "go" => b.trav < x.b.trav)

BodyFields == {"state", "data", "cur", "trav", "size", "readsize", "left", "file", "status"}

LEMMA BodyDomain ==
  ASSUME NEW b \in Bodies
  PROVE  DOMAIN b = BodyFields
BY DEF Bodies, BodyFields

LEMMA ChunkDomain ==
  ASSUME NEW k \in ChunkStates
  PROVE  DOMAIN k = {"at", "line", "left", "cr", "file", "status"}
BY DEF ChunkStates

\* The number of a size line does not depend on what is behind the line.
LEMMA SizeIs ==
  ASSUME NEW data \in Seq(Elements), Sized(data), NEW a \in Nat, NEW n \in Nat, n <= Len(data),
         NEW m \in Nat, a + m < n, data[a + m + 1] = "cr",
         Chunks(data)[a + m].at = "size",
         Chunks(data)[a + m].line = SubSeq(data, a + 1, a + m)
  PROVE  Number(SubSeq(data, a + 1, n)) = Number(SubSeq(data, a + 1, a + m))
<1>1. PICK line : line = SubSeq(data, a + 1, a + m)
  OBVIOUS
<1>2. a + m \in 0 .. Len(data) /\ a \in 0 .. a + m /\ (a + m) - a = m
      /\ n \in 0 .. Len(data) /\ a \in 0 .. n
  OBVIOUS
<1>3. line \in Seq(Elements) /\ Len(line) = m /\ \A i \in 1 .. m : line[i] = data[a + i]
  BY <1>1, <1>2, SubSeqIs
<1>4. PICK s : s = SubSeq(data, a + 1, n)
  OBVIOUS
<1>5. s \in Seq(Elements) /\ Len(s) = n - a /\ \A i \in 1 .. n - a : s[i] = data[a + i]
  BY <1>2, <1>4, SubSeqIs
<1>6. a + m + 1 \in 1 .. Len(data) /\ (a + m + 1) - 1 = a + m
  OBVIOUS
<1>7. PICK i \in 1 .. Len(line) : line[i] \notin Space
  BY <1>1, <1>6 DEF Sized
<1>8. m < Len(s) /\ m + 1 \in 1 .. n - a /\ i \in 1 .. n - a /\ i \in 1 .. m
      /\ a + (m + 1) = a + m + 1
  BY <1>3, <1>5, <1>7
<1>9. s[m + 1] = "cr" /\ s[i] \notin Space
  BY <1>3, <1>5, <1>7, <1>8
<1>10. Number(s) = Number(SubSeq(s, 1, m))
  BY <1>5, <1>8, <1>9, NumberLocal
<1>11. SubSeq(s, 1, m) = line
  <2>1. m \in 0 .. Len(s) /\ 0 \in 0 .. m
    BY <1>8
  <2>2. /\ SubSeq(s, 0 + 1, m) \in Seq(Elements) /\ Len(SubSeq(s, 0 + 1, m)) = m - 0
        /\ \A j \in 1 .. m - 0 : SubSeq(s, 0 + 1, m)[j] = s[0 + j]
    BY <1>5, <2>1, SubSeqIs
  <2>3. PICK u : u = SubSeq(s, 1, m)
    OBVIOUS
  <2>4. u \in Seq(Elements) /\ Len(u) = m /\ \A j \in 1 .. m : u[j] = s[j]
    BY <2>2, <2>3
  <2>5. \A j \in 1 .. m : j \in 1 .. n - a
    BY <1>8
  <2>6. \A j \in 1 .. Len(u) : u[j] = line[j]
    BY <1>3, <1>5, <2>4, <2>5
  <2>7. QED
    BY <1>3, <2>3, <2>4, <2>6, SeqEqual
<1>12. QED
  BY <1>1, <1>4, <1>10, <1>11

\* An element of a size line.
LEMMA SizeMore ==
  ASSUME NEW data \in Seq(Elements), NEW base \in Nat, NEW b, Reads(b, data, base),
         AtSize(b, data, base), b.trav < Len(b.data), b.data[b.trav + 1] # "cr"
  PROVE  LET x == Limited(ReadSizeChunk(b, b.cur)) IN Follows(x, data, base) /\ Advances(b, x)
<1>1. /\ b \in Bodies /\ Aligned(b) /\ Within(b.data, data, base) /\ b.status = 0
      /\ b.file = Chunks(data)[base + b.trav].file /\ b.left = MaxBodySize - base
      /\ b.state = "READING_BODY"
  BY DEF Reads, Part
<1>2. b.cur \in Nat /\ b.trav \in Nat /\ b.data \in Seq(Elements)
  BY <1>1 DEF Bodies
<1>3. PICK t \in Nat, c \in Nat : t = b.trav /\ c = b.cur /\ c <= t /\ t < Len(b.data)
  BY <1>1, <1>2 DEF Aligned
<1>4. base + t \in 0 .. Len(data) /\ t + 1 \in 1 .. Len(b.data)
      /\ base + (t + 1) \in 1 .. Len(data) /\ (base + (t + 1)) - 1 = base + t
  <2>1. base + Len(b.data) <= Len(data)
    BY <1>1 DEF Within
  <2>2. PICK m \in Nat, n \in Nat : m = Len(b.data) /\ n = Len(data)
    BY <1>2
  <2>3. t < m /\ base + m <= n
    BY <1>3, <2>1, <2>2
  <2>4. /\ base + t \in 0 .. n /\ t + 1 \in 1 .. m
        /\ base + (t + 1) \in 1 .. n /\ (base + (t + 1)) - 1 = base + t
    BY <2>3
  <2>5. QED
    BY <2>2, <2>4
<1>5. PICK k \in ChunkStates : k = Chunks(data)[base + t]
  BY <1>4, ChunksAre
<1>6. k.at = "size" /\ k.line = SubSeq(data, base + c + 1, base + t) /\ ~Over(base + c)
      /\ b.readsize
  BY <1>3, <1>5 DEF AtSize
<1>7. PICK e \in Elements : e = b.data[t + 1] /\ e = data[base + (t + 1)]
  <2>1. data[base + (t + 1)] \in Elements
    BY <1>4, ElementOfSeq
  <2>2. b.data[t + 1] = data[base + (t + 1)]
    BY <1>1, <1>4 DEF Within
  <2>3. QED
    BY <2>1, <2>2
<1>8. Chunks(data)[base + (t + 1)] = ReadOn(k, e, base + (t + 1))
  BY <1>4, <1>5, <1>7, ChunksAre
<1>9. PICK line : line = Append(k.line, e)
  OBVIOUS
<1>10. PICK l : l = Chunks(data)[base + (t + 1)]
  OBVIOUS
<1>11. l.at = "size" /\ l.line = line /\ l.file = k.file
  <2>1. e # "cr"
    BY <1>3, <1>7
  <2>2. l = [k EXCEPT !.line = line]
    BY <1>6, <1>8, <1>9, <1>10, <2>1 DEF ReadOn
  <2>3. QED
    BY <1>6, <2>2, ChunkDomain
<1>12. line = SubSeq(data, base + c + 1, base + (t + 1))
  <2>1. base + c + 1 \in 1 .. Len(data) /\ base + (t + 1) \in base + c + 1 .. Len(data)
    <3>1. PICK n \in Nat : n = Len(data)
      OBVIOUS
    <3>2. base + (t + 1) <= n
      BY <1>4, <3>1
    <3>3. base + c + 1 \in 1 .. n /\ base + (t + 1) \in base + c + 1 .. n
      <4>1. c <= t
        BY <1>3
      <4>2. QED
        BY <3>2, <4>1
    <3>4. QED
      BY <3>1, <3>3
  <2>2. SubSeq(data, base + c + 1, base + (t + 1))
          = SubSeq(data, base + c + 1, (base + (t + 1)) - 1) \o <<data[base + (t + 1)]>>
    BY <2>1, SubSeqRecursiveSecond
  <2>3. k.line \in Seq(Elements)
    BY DEF ChunkStates
  <2>4. line = k.line \o <<e>>
    BY <1>9, <2>3, AppendIsConcat
  <2>5. QED
    BY <1>4, <1>6, <1>7, <2>2, <2>4
<1>13. PICK next : next = [b EXCEPT !.trav = t + 1]
  OBVIOUS
<1>14. next \in Bodies
  <2>1. PICK u \in Nat : u = t + 1
    OBVIOUS
  <2>2. next = [b EXCEPT !.trav = u]
    BY <1>13, <2>1
  <2>3. QED
    BY <1>1, <2>2 DEF Bodies
<1>15. /\ next.trav = t + 1 /\ next.cur = c /\ next.data = b.data /\ next.status = 0
       /\ next.file = b.file /\ next.left = b.left /\ next.state = b.state
       /\ next.readsize = b.readsize
  BY <1>1, <1>3, <1>13, BodyDomain DEF BodyFields
<1>16. ReadSizeChunk(b, b.cur) = Turn(next, c, "go")
  BY <1>3, <1>13 DEF ReadSizeChunk
<1>17. Limited(Turn(next, c, "go")) = Turn(next, c, "go")
  <2>1. next.left = MaxBodySize - base
    BY <1>1, <1>15
  <2>2. PICK flow : flow = "go"
    OBVIOUS
  <2>3. Limited(Turn(next, c, flow)) =
          IF flow # "break" /\ Over(base + c)
            THEN Turn(FailBody(next, 413), c, "error") ELSE Turn(next, c, flow)
    BY <2>1, LimitIs
  <2>4. QED
    BY <1>6, <2>2, <2>3
<1>18. Reads(next, data, base)
  <2>1. Aligned(next)
    BY <1>3, <1>15 DEF Aligned
  <2>2. next.file = Chunks(data)[base + next.trav].file
    BY <1>1, <1>3, <1>5, <1>10, <1>11, <1>15
  <2>3. Part(next, data, base)
    BY <1>1, <1>14, <1>15, <2>1, <2>2 DEF Part
  <2>4. AtSize(next, data, base)
    BY <1>6, <1>10, <1>11, <1>12, <1>15 DEF AtSize
  <2>5. QED
    BY <1>1, <1>15, <2>3, <2>4 DEF Reads
<1>19. Follows(Turn(next, c, "go"), data, base)
  BY <1>6, <1>15, <1>18 DEF Follows, Turn, Taken
<1>20. Advances(b, Turn(next, c, "go"))
  BY <1>3, <1>15 DEF Advances, Turn
<1>21. QED
  BY <1>16, <1>17, <1>19, <1>20

\* Half of the end of a size line.
LEMMA SizeWaits ==
  ASSUME NEW data \in Seq(Elements), NEW base \in Nat, NEW b, Reads(b, data, base),
         AtSize(b, data, base), b.trav < Len(b.data), b.data[b.trav + 1] = "cr",
         ~(b.trav + 1 < Len(b.data))
  PROVE  LET x == Limited(ReadSizeChunk(b, b.cur)) IN Follows(x, data, base) /\ Advances(b, x)
<1>1. b.readsize /\ b \in Bodies
  BY DEF AtSize, Reads, Part
<1>2. b.trav \in Nat /\ Len(b.data) \in Nat
  BY <1>1 DEF Bodies
<1>3. PICK c : c = b.cur
  OBVIOUS
<1>4. ReadSizeChunk(b, c) = Turn(b, c, "break")
  BY DEF ReadSizeChunk
<1>5. Limited(Turn(b, c, "break")) = Turn(b, c, "break")
  BY DEF Limited, Turn
<1>6. b.trav + 1 = Len(b.data)
  BY <1>2
<1>7. Pending(b)
  BY <1>1, <1>6 DEF Pending
<1>8. Follows(Turn(b, c, "break"), data, base)
  BY <1>1, <1>3, <1>7 DEF Follows, Turn, Taken
<1>9. Advances(b, Turn(b, c, "break"))
  BY DEF Advances, Turn
<1>10. QED
  BY <1>3, <1>4, <1>5, <1>8, <1>9

\* The elements of a buffer are read one after the other.
LEMMA PartIs ==
  ASSUME NEW data \in Seq(Elements), NEW base \in Nat, NEW b, Part(b, data, base)
  PROVE  /\ b \in Bodies /\ b.cur \in Nat /\ b.trav \in Nat /\ b.size \in Nat
         /\ b.data \in Seq(Elements) /\ Len(b.data) \in Nat /\ Len(data) \in Nat
         /\ b.cur <= b.trav /\ b.trav <= Len(b.data) /\ base + Len(b.data) <= Len(data)
         /\ \A i \in 0 .. Len(b.data) :
              base + i \in 0 .. Len(data) /\ Chunks(data)[base + i] \in ChunkStates
         /\ \A i \in 1 .. Len(b.data) : b.data[i] \in Elements /\ b.data[i] = data[base + i]
<1>1. b \in Bodies /\ Aligned(b) /\ Within(b.data, data, base)
  BY DEF Part
<1>2. /\ b.cur \in Nat /\ b.trav \in Nat /\ b.size \in Nat
      /\ b.data \in Seq(Elements) /\ Len(b.data) \in Nat /\ Len(data) \in Nat
  BY <1>1 DEF Bodies
<1>3. b.cur <= b.trav /\ b.trav <= Len(b.data)
  BY <1>1 DEF Aligned
<1>4. /\ base + Len(b.data) <= Len(data)
      /\ \A i \in 1 .. Len(b.data) : b.data[i] = data[base + i]
  BY <1>1 DEF Within
<1>5. \A i \in 0 .. Len(b.data) : base + i \in 0 .. Len(data)
  BY <1>2, <1>4
<1>6. \A i \in 1 .. Len(b.data) : b.data[i] \in Elements
  BY <1>2, ElementOfSeq
<1>7. \A i \in 0 .. Len(b.data) : Chunks(data)[base + i] \in ChunkStates
  BY <1>5, ChunksAre
<1>8. QED
  BY <1>1, <1>2, <1>3, <1>4, <1>5, <1>6, <1>7

LEMMA PartReads ==
  ASSUME NEW data \in Seq(Elements), NEW base \in Nat, NEW b, Part(b, data, base),
         NEW i \in Nat, NEW j \in Nat, j = i + 1, i < Len(b.data)
  PROVE  Chunks(data)[base + j] = ReadOn(Chunks(data)[base + i], b.data[j], base + j)
<1>1. Len(b.data) \in Nat
  BY PartIs
<1>2. /\ j \in 1 .. Len(b.data) /\ j \in 0 .. Len(b.data) /\ base + j # 0
      /\ (base + j) - 1 = base + i
  BY <1>1
<1>3. base + j \in 1 .. Len(data) /\ b.data[j] = data[base + j]
  <2>1. \A l \in 0 .. Len(b.data) : base + l \in 0 .. Len(data)
    BY PartIs
  <2>2. \A l \in 1 .. Len(b.data) : b.data[l] = data[base + l]
    BY PartIs
  <2>3. QED
    BY <1>2, <2>1, <2>2
<1>4. Chunks(data)[base + j] = ReadOn(Chunks(data)[(base + j) - 1], data[base + j], base + j)
  BY <1>3, ChunksAre
<1>5. QED
  BY <1>2, <1>3, <1>4

\* A turn that is over the limit, and one that finds an error below it.
Refuses(x, data, base, b) ==
  Follows(x, data, base) /\ x.b.data = b.data /\ x.flow = "error"

LEMMA LimitRefuses ==
  ASSUME NEW data \in Seq(Elements), NEW base \in Nat, NEW b \in Bodies,
         b.left = MaxBodySize - base, NEW removed \in Nat, Over(base + removed),
         base + Len(b.data) <= Len(data), NEW a \in 0 .. base + Len(b.data),
         Chunks(data)[a].at = "refused", Chunks(data)[a].status = 413,
         NEW flow, flow # "break"
  PROVE  Refuses(Limited(Turn(b, removed, flow)), data, base, b)
<1>1. PICK code \in {400, 413} : code = 413
  OBVIOUS
<1>2. Limited(Turn(b, removed, flow)) = Turn(FailBody(b, code), removed, "error")
  BY <1>1, LimitIs
<1>3. Chunks(data)[a].status = code
  BY <1>1
<1>4. Follows(Turn(FailBody(b, code), removed, "error"), data, base)
  BY <1>3, RefusedStays
<1>5. code \in BodyCodes
  BY <1>1 DEF BodyCodes
<1>6. FailBody(b, code).data = b.data
  BY <1>5, FailedBody
<1>7. QED
  BY <1>2, <1>4, <1>6 DEF Refuses, Turn

LEMMA ErrorStays ==
  ASSUME NEW data \in Seq(Elements), NEW base \in Nat, NEW b \in Bodies,
         b.left = MaxBodySize - base, NEW removed \in Nat, ~Over(base + removed),
         base + Len(b.data) <= Len(data), NEW a \in 0 .. base + Len(b.data),
         Chunks(data)[a].at = "refused", Chunks(data)[a].status = 400
  PROVE  Refuses(Limited(Turn(FailBody(b, 400), removed, "error")), data, base, b)
<1>1. PICK code \in {400, 413} : code = 400
  OBVIOUS
<1>2. PICK f : f = FailBody(b, code)
  OBVIOUS
<1>3. code \in BodyCodes
  BY <1>1 DEF BodyCodes
<1>4. f.data = b.data
  BY <1>2, <1>3, FailedBody
<1>5. f.left = MaxBodySize - base
  BY <1>2, BodyDomain DEF FailBody, BodyFields
<1>6. PICK flow : flow = "error"
  OBVIOUS
<1>7. Limited(Turn(f, removed, flow)) =
        IF flow # "break" /\ Over(base + removed)
          THEN Turn(FailBody(f, 413), removed, "error") ELSE Turn(f, removed, flow)
  BY <1>5, LimitIs
<1>8. Limited(Turn(f, removed, "error")) = Turn(f, removed, "error")
  BY <1>6, <1>7
<1>9. Chunks(data)[a].status = code
  BY <1>1
<1>10. Follows(Turn(FailBody(b, code), removed, "error"), data, base)
  BY <1>9, RefusedStays
<1>11. QED
  BY <1>1, <1>2, <1>4, <1>8, <1>10 DEF Refuses, Turn

\* The end of a size line: there is a chunk behind it, or the end of the body.
LEMMA SizeEnds ==
  ASSUME NEW data \in Seq(Elements), Sized(data), NEW base \in Nat, NEW b,
         Reads(b, data, base), AtSize(b, data, base), b.trav + 1 < Len(b.data),
         b.data[b.trav + 1] = "cr"
  PROVE  LET x == Limited(ReadSizeChunk(b, b.cur)) IN Follows(x, data, base) /\ Advances(b, x)
<1>1. Part(b, data, base) /\ b.state = "READING_BODY" /\ b.status = 0
      /\ b.left = MaxBodySize - base /\ b.file = Chunks(data)[base + b.trav].file
  BY DEF Reads, Part
<1>2. PICK t \in Nat, c \in Nat, m \in Nat :
        /\ t = b.trav /\ c = b.cur /\ m = Len(b.data) /\ c <= t /\ t + 1 < m
        /\ base + m <= Len(data) /\ Len(data) \in Nat /\ b \in Bodies
  BY <1>1, PartIs
<1>3. t \in 0 .. m /\ t \in 0 .. m - 1 /\ t + 1 \in 0 .. m - 1 /\ t + 2 \in 1 .. m
      /\ t + 2 \in 0 .. m /\ (t + 1) + 1 = t + 2 /\ t + 1 \in 1 .. m
  BY <1>2
<1>4. \A i \in 1 .. m : b.data[i] = data[base + i]
  BY <1>1, <1>2, PartIs
<1>5. PICK k \in ChunkStates : k = Chunks(data)[base + t]
  BY <1>1, <1>2, <1>3, PartIs
<1>6. k.at = "size" /\ k.line = SubSeq(data, base + c + 1, base + t) /\ ~Over(base + c)
      /\ b.readsize
  BY <1>2, <1>5 DEF AtSize
<1>7. PICK e : e = b.data[t + 2]
  OBVIOUS
<1>8. b.data[t + 1] = "cr"
  BY <1>2
<1>9. PICK k1 : k1 = [k EXCEPT !.at = "sizeEnd"]
  OBVIOUS
<1>10. k1.at = "sizeEnd" /\ k1.line = k.line /\ k1.file = k.file /\ k1 \in ChunkStates
  <2>1. "sizeEnd" \in ChunkPlaces
    BY DEF ChunkPlaces
  <2>2. k1 \in ChunkStates
    BY <1>9, <2>1, ChunkMoved
  <2>3. QED
    BY <1>9, <2>2, ChunkDomain
<1>11. Chunks(data)[base + (t + 1)] = k1
  <2>1. Chunks(data)[base + (t + 1)] = ReadOn(k, b.data[t + 1], base + (t + 1))
    <3>1. PICK j \in Nat : j = t + 1 /\ t < Len(b.data)
      BY <1>2
    <3>2. Part(b, data, base)
      BY <1>1
    <3>3. Chunks(data)[base + j] = ReadOn(Chunks(data)[base + t], b.data[j], base + j)
      BY <3>1, <3>2, PartReads
    <3>4. QED
      BY <1>5, <3>1, <3>3
  <2>2. QED
    BY <1>6, <1>8, <1>9, <2>1 DEF ReadOn
<1>12. PICK k2 : k2 = Chunks(data)[base + (t + 2)]
  OBVIOUS
<1>13. k2 = IF e = "lf" THEN SizeRead(k1, base + (t + 2)) ELSE Refused(k1, 400)
  <2>1. PICK i \in Nat, j \in Nat : i = t + 1 /\ j = t + 2 /\ j = i + 1 /\ i < Len(b.data)
    BY <1>2
  <2>2. Part(b, data, base) /\ j = i + 1 /\ i < Len(b.data)
    BY <1>1, <2>1
  <2>3. Chunks(data)[base + j] = ReadOn(Chunks(data)[base + i], b.data[j], base + j)
    BY <2>2, PartReads
  <2>4. k2 = ReadOn(k1, e, base + (t + 2))
    BY <1>7, <1>11, <1>12, <2>1, <2>3
  <2>5. QED
    BY <1>10, <2>4 DEF ReadOn
<1>14. \A code : Refused(k1, code).at = "refused" /\ Refused(k1, code).status = code
  BY <1>10, ChunkDomain DEF Refused
<1>15. base + (t + 2) \in 0 .. base + m
  BY <1>2
<1>16. PICK size \in Int : size = Number(SubSeq(b.data, c + 1, m))
  <2>1. b.data \in Seq(Elements)
    BY <1>1, PartIs
  <2>2. m \in 0 .. Len(b.data) /\ c \in 0 .. m
    BY <1>2
  <2>3. SubSeq(b.data, c + 1, m) \in Seq(Elements)
    BY <2>1, <2>2, SubSeqIs
  <2>4. QED
    BY <2>3, NumberTyped
<1>17. Number(k1.line) = size
  <2>1. b.data \in Seq(Elements) /\ Within(b.data, data, base)
    BY <1>1, PartIs DEF Part
  <2>2. m \in 0 .. Len(b.data) /\ c \in 0 .. m
    BY <1>2
  <2>3. SubSeq(b.data, c + 1, m) = SubSeq(data, base + c + 1, base + m)
    <3>1. PICK s \in Seq(Elements) : s = b.data
      BY <2>1
    <3>2. Within(s, data, base)
      BY <2>1, <3>1
    <3>3. m \in 0 .. Len(s) /\ c \in 0 .. m
      BY <2>2, <3>1
    <3>4. SubSeq(s, c + 1, m) = SubSeq(data, base + c + 1, base + m)
      BY <3>2, <3>3, SamePart
    <3>5. QED
      BY <3>1, <3>4
  <2>4. PICK a \in Nat, l \in Nat, n \in Nat :
          /\ a = base + c /\ a + l = base + t /\ n = base + m /\ a + l < n
          /\ n <= Len(data) /\ a + l + 1 = base + (t + 1)
    <3>1. t - c \in Nat /\ t = c + (t - c)
      BY <1>2
    <3>2. PICK l \in Nat : l = t - c /\ t = c + l
      BY <3>1
    <3>3. PICK a \in Nat, n \in Nat : a = base + c /\ n = base + m
      OBVIOUS
    <3>4. a + l = base + t /\ a + l + 1 = base + (t + 1)
      BY <3>2, <3>3
    <3>5. t < m
      BY <1>2
    <3>6. a + l < n
      BY <3>3, <3>4, <3>5
    <3>7. n <= Len(data)
      BY <1>2, <3>3
    <3>8. QED
      BY <3>2, <3>3, <3>4, <3>6, <3>7
  <2>5. data[a + l + 1] = "cr"
    <3>1. b.data[t + 1] = data[base + (t + 1)]
      BY <1>3, <1>4
    <3>2. QED
      BY <1>8, <2>4, <3>1
  <2>6. /\ Chunks(data)[a + l].at = "size"
        /\ Chunks(data)[a + l].line = SubSeq(data, a + 1, a + l)
    BY <1>5, <1>6, <2>4
  <2>7. Number(SubSeq(data, a + 1, n)) = Number(SubSeq(data, a + 1, a + l))
    <3>1. a + l < n /\ n <= Len(data)
      BY <2>4
    <3>2. QED
      BY <2>5, <2>6, <3>1, SizeIs
  <2>8. QED
    BY <1>6, <1>10, <1>16, <2>3, <2>4, <2>7
<1>18. PICK st : st = IF size = 0 THEN "SECOND_CRLF" ELSE b.state
  OBVIOUS
<1>19. PICK line : line = [b EXCEPT !.trav = t + 2, !.cur = t + 2, !.size = size,
                                   !.readsize = FALSE, !.state = st]
  OBVIOUS
<1>20. PICK r \in Nat : r = t + 2 /\ c + t + 2 - c = r
  <2>1. t + 2 \in Nat /\ c + t + 2 - c = t + 2
    BY <1>2
  <2>2. QED
    BY <2>1
<1>21. ReadSizeChunk(b, b.cur) =
         IF e # "lf" THEN Turn(FailBody(b, 400), c, "error")
         ELSE IF size < 0 THEN Turn(FailBody(b, 400), r, "error")
         ELSE Turn(line, r, "go")
  BY <1>2, <1>7, <1>8, <1>16, <1>18, <1>19, <1>20 DEF ReadSizeChunk
<1>22. base + Len(b.data) <= Len(data) /\ b \in Bodies /\ b.left = MaxBodySize - base
  BY <1>1, <1>2
<1>23. PICK a \in 0 .. base + Len(b.data) : a = base + (t + 2)
  BY <1>2, <1>15
<1>24. k2 = Chunks(data)[a] /\ a = base + r
  BY <1>12, <1>20, <1>23
<1>25. CASE e # "lf"
  <2>1. Chunks(data)[a].at = "refused" /\ Chunks(data)[a].status = 400
    BY <1>13, <1>14, <1>24, <1>25
  <2>2. Refuses(Limited(Turn(FailBody(b, 400), c, "error")), data, base, b)
    BY <1>6, <1>22, <2>1, ErrorStays
  <2>3. QED
    BY <1>21, <1>25, <2>2 DEF Refuses, Advances
<1>26. ~(size < 0) => line \in Bodies
  <2>1. SUFFICES ASSUME ~(size < 0) PROVE line \in Bodies
    OBVIOUS
  <2>2. PICK u \in Nat : u = t + 2
    OBVIOUS
  <2>3. size \in Nat /\ FALSE \in BOOLEAN
    BY <2>1
  <2>4. st \in BodyStates
    BY <1>1, <1>18 DEF BodyStates
  <2>5. PICK l1 : l1 = [b EXCEPT !.trav = u, !.cur = u]
    OBVIOUS
  <2>6. l1 \in Bodies
    BY <1>2, <2>5 DEF Bodies
  <2>7. PICK l2 : l2 = [l1 EXCEPT !.size = size, !.state = st]
    OBVIOUS
  <2>8. l2 \in Bodies
    BY <2>3, <2>4, <2>6, <2>7 DEF Bodies
  <2>9. [l2 EXCEPT !.readsize = FALSE] \in Bodies
    BY <2>3, <2>8 DEF Bodies
  <2>10. line = [l2 EXCEPT !.readsize = FALSE]
    BY <1>2, <1>19, <2>2, <2>5, <2>7, BodyDomain DEF BodyFields
  <2>11. QED
    BY <2>9, <2>10
<1>27. /\ line.trav = t + 2 /\ line.cur = t + 2 /\ line.size = size /\ ~line.readsize
       /\ line.state = st /\ line.data = b.data /\ line.status = 0 /\ line.file = b.file
       /\ line.left = MaxBodySize - base
  <2>1. DOMAIN b = BodyFields
    BY <1>2, BodyDomain
  <2>2. line.left = b.left /\ line.data = b.data /\ line.file = b.file /\ line.status = b.status
    BY <1>19, <2>1 DEF BodyFields
  <2>3. /\ line.trav = t + 2 /\ line.cur = t + 2 /\ line.size = size /\ ~line.readsize
        /\ line.state = st
    BY <1>19, <2>1 DEF BodyFields
  <2>4. QED
    BY <1>1, <2>2, <2>3
<1>28. CASE e = "lf" /\ Over(base + r)
  <2>1. Chunks(data)[a].at = "refused" /\ Chunks(data)[a].status = 413
    BY <1>13, <1>14, <1>17, <1>20, <1>24, <1>28 DEF SizeRead
  <2>2. CASE size < 0
    <3>1. PICK f : f = FailBody(b, 400)
      OBVIOUS
    <3>2. f \in Bodies /\ f.data = b.data /\ f.left = MaxBodySize - base
      <4>1. 400 \in BodyCodes
        BY DEF BodyCodes
      <4>2. f.left = b.left
        BY <1>2, <3>1, BodyDomain DEF FailBody, BodyFields
      <4>3. QED
        BY <1>1, <1>2, <3>1, <4>1, <4>2, FailedBody
    <3>3. base + Len(f.data) <= Len(data) /\ a \in 0 .. base + Len(f.data)
      BY <1>22, <1>23, <3>2
    <3>4. PICK flow : flow = "error"
      OBVIOUS
    <3>5. Refuses(Limited(Turn(f, r, flow)), data, base, f)
      BY <1>28, <2>1, <3>2, <3>3, <3>4, LimitRefuses
    <3>6. QED
      BY <1>21, <1>28, <2>2, <3>1, <3>2, <3>4, <3>5 DEF Refuses, Advances
  <2>3. CASE ~(size < 0)
    <3>1. line \in Bodies /\ line.data = b.data /\ line.left = MaxBodySize - base
      BY <1>26, <1>27, <2>3
    <3>2. base + Len(line.data) <= Len(data) /\ a \in 0 .. base + Len(line.data)
      BY <1>22, <1>23, <3>1
    <3>3. PICK flow : flow = "go"
      OBVIOUS
    <3>4. Refuses(Limited(Turn(line, r, flow)), data, base, line)
      BY <1>28, <2>1, <3>1, <3>2, <3>3, LimitRefuses
    <3>5. QED
      BY <1>21, <1>28, <2>3, <3>1, <3>3, <3>4 DEF Refuses, Advances
  <2>4. QED
    BY <2>2, <2>3
<1>29. CASE e = "lf" /\ ~Over(base + r) /\ size < 0
  <2>1. Chunks(data)[a].at = "refused" /\ Chunks(data)[a].status = 400
    BY <1>13, <1>14, <1>17, <1>20, <1>24, <1>29 DEF SizeRead
  <2>2. Refuses(Limited(Turn(FailBody(b, 400), r, "error")), data, base, b)
    BY <1>22, <1>29, <2>1, ErrorStays
  <2>3. QED
    BY <1>21, <1>29, <2>2 DEF Refuses, Advances
<1>30. CASE e = "lf" /\ ~Over(base + r) /\ ~(size < 0)
  <2>1. k2 = [k1 EXCEPT !.at = IF size = 0 THEN "last" ELSE "data", !.left = size]
    BY <1>13, <1>17, <1>20, <1>30 DEF SizeRead
  <2>2. k2.at = (IF size = 0 THEN "last" ELSE "data") /\ k2.left = size /\ k2.file = k.file
    BY <1>10, <2>1, ChunkDomain
  <2>3. line \in Bodies
    BY <1>26, <1>30
  <2>4. base + line.trav = a /\ base + line.cur = a
    BY <1>20, <1>24, <1>27
  <2>5. Part(line, data, base)
    <3>1. Aligned(line)
      BY <1>2, <1>27 DEF Aligned
    <3>2. Within(line.data, data, base)
      BY <1>1, <1>27 DEF Part
    <3>3. b.file = k.file
      BY <1>1, <1>2, <1>5
    <3>4. line.file = Chunks(data)[base + line.trav].file
      BY <1>24, <1>27, <2>2, <2>4, <3>3
    <3>5. QED
      BY <1>27, <2>3, <3>1, <3>2, <3>4 DEF Part
  <2>6. Limited(Turn(line, r, "go")) = Turn(line, r, "go")
    <3>1. PICK flow : flow = "go"
      OBVIOUS
    <3>2. Limited(Turn(line, r, flow)) =
            IF flow # "break" /\ Over(base + r)
              THEN Turn(FailBody(line, 413), r, "error") ELSE Turn(line, r, flow)
      BY <1>27, LimitIs
    <3>3. QED
      BY <1>30, <3>1, <3>2
  <2>7. Follows(Turn(line, r, "go"), data, base)
    <3>1. CASE size = 0
      <4>1. Ends(line, data, base)
        BY <1>18, <1>24, <1>27, <2>2, <2>4, <2>5, <3>1 DEF Ends
      <4>2. QED
        BY <4>1 DEF Follows, Turn
    <3>2. CASE size # 0
      <4>1. AtData(line, data, base)
        BY <1>24, <1>27, <2>2, <2>4, <3>2 DEF AtData
      <4>2. line.state = "READING_BODY"
        BY <1>1, <1>18, <1>27, <3>2
      <4>3. Reads(line, data, base)
        BY <2>5, <4>1, <4>2 DEF Reads
      <4>4. r = Taken(line)
        BY <1>20, <1>27 DEF Taken
      <4>5. QED
        BY <4>3, <4>4 DEF Follows, Turn
    <3>3. QED
      BY <3>1, <3>2
  <2>8. Advances(b, Turn(line, r, "go"))
    BY <1>2, <1>27 DEF Advances, Turn
  <2>9. QED
    BY <1>21, <1>30, <2>6, <2>7, <2>8
<1>31. QED
  BY <1>25, <1>28, <1>29, <1>30

\* The data of a chunk that has come, or as much of it as there is.
Saved(b, t, n) ==
  [b EXCEPT !.file = @ \o SubSeq(b.data, b.trav + 1, t), !.trav = t, !.size = @ - n]

LEMMA DataSaved ==
  ASSUME NEW data \in Seq(Elements), NEW base \in Nat, NEW b, Reads(b, data, base),
         AtData(b, data, base), NEW n \in Nat, n <= b.size, NEW t \in Nat, t = b.trav + n,
         t <= Len(b.data)
  PROVE  LET s == Saved(b, t, n)
         IN /\ Reads(s, data, base) /\ AtData(s, data, base)
            /\ s.trav = t /\ s.size = b.size - n /\ s.data = b.data /\ ~s.readsize
            /\ s.cur = b.cur
<1>1. Part(b, data, base) /\ b.state = "READING_BODY" /\ b.status = 0
      /\ b.left = MaxBodySize - base /\ b.file = Chunks(data)[base + b.trav].file
      /\ Within(b.data, data, base)
  BY DEF Reads, Part
<1>2. PICK u \in Nat, m \in Nat :
        /\ u = b.trav /\ m = Len(b.data) /\ u <= m /\ t = u + n /\ t <= m
        /\ base + m <= Len(data) /\ Len(data) \in Nat /\ b \in Bodies
        /\ b.size \in Nat /\ b.data \in Seq(Elements) /\ b.cur \in Nat /\ b.cur <= u
  BY <1>1, PartIs
<1>3. u \in 0 .. m /\ t \in 0 .. m /\ u \in 0 .. t
  BY <1>2
<1>4. \A i \in 0 .. Len(b.data) :
        base + i \in 0 .. Len(data) /\ Chunks(data)[base + i] \in ChunkStates
  BY <1>1, PartIs
<1>5. PICK k \in ChunkStates : k = Chunks(data)[base + u]
  BY <1>2, <1>3, <1>4
<1>6. PICK l \in ChunkStates : l = Chunks(data)[base + t]
  BY <1>2, <1>3, <1>4
<1>7. k.at = "data" /\ k.left = b.size /\ ~b.readsize
  BY <1>2, <1>5 DEF AtData
<1>8. PICK part \in Seq(Elements) : part = SubSeq(b.data, u + 1, t)
  BY <1>2, <1>3, SubSeqIs
<1>9. part = SubSeq(data, base + u + 1, base + t)
  <2>1. PICK s \in Seq(Elements) : s = b.data
    BY <1>2
  <2>2. Within(s, data, base) /\ t \in 0 .. Len(s)
    BY <1>1, <1>2, <1>3, <2>1
  <2>3. SubSeq(s, u + 1, t) = SubSeq(data, base + u + 1, base + t)
    BY <1>3, <2>2, SamePart
  <2>4. QED
    BY <1>8, <2>1, <2>3
<1>10. l.at = "data" /\ l.left = b.size - n /\ l.file = k.file \o part
  <2>1. PICK a : a = base + u
    OBVIOUS
  <2>2. a \in 0 .. Len(data) /\ n \in 0 .. Len(data) - a /\ a + n = base + t /\ a + 1 = base + u + 1
    <3>1. PICK d \in Nat : d = Len(data) /\ base + m <= d
      BY <1>2
    <3>2. a \in 0 .. d /\ n \in 0 .. d - a
      <4>1. a \in Nat /\ u + n <= m /\ u \in Nat
        BY <1>2, <2>1
      <4>2. a + n <= d
        BY <2>1, <3>1, <4>1
      <4>3. QED
        BY <4>1, <4>2
    <3>3. a + n = base + t /\ a + 1 = base + u + 1
      BY <1>2, <2>1
    <3>4. QED
      BY <3>1, <3>2, <3>3
  <2>3. Chunks(data)[a].at = "data" /\ n <= Chunks(data)[a].left
    BY <1>5, <1>7, <2>1
  <2>4. /\ Chunks(data)[a + n].at = "data"
        /\ Chunks(data)[a + n].left = Chunks(data)[a].left - n
        /\ Chunks(data)[a + n].file = Chunks(data)[a].file \o SubSeq(data, a + 1, a + n)
    BY <2>2, <2>3, DataRead
  <2>5. QED
    BY <1>5, <1>6, <1>7, <1>9, <2>1, <2>2, <2>4
<1>11. PICK file : file = b.file \o part
  OBVIOUS
<1>12. file \in Seq(Elements) /\ file = l.file
  <2>1. b.file \in Seq(Elements) /\ b.file = k.file
    BY <1>1, <1>2, <1>5 DEF Bodies
  <2>2. file \in Seq(Elements)
    BY <1>11, <2>1, ConcatProperties
  <2>3. QED
    BY <1>10, <1>11, <2>1, <2>2
<1>13. PICK left \in Nat : left = b.size - n
  <2>1. b.size - n \in Nat
    BY <1>2
  <2>2. QED
    BY <2>1
<1>14. PICK s : s = [b EXCEPT !.file = file, !.trav = t, !.size = left]
  OBVIOUS
<1>15. Saved(b, t, n) = s
  BY <1>2, <1>8, <1>11, <1>13, <1>14 DEF Saved
<1>16. s \in Bodies
  <2>1. PICK s1 : s1 = [b EXCEPT !.file = file]
    OBVIOUS
  <2>2. s1 \in Bodies
    BY <1>2, <1>12, <2>1 DEF Bodies
  <2>3. [s1 EXCEPT !.trav = t, !.size = left] \in Bodies
    BY <2>2 DEF Bodies
  <2>4. s = [s1 EXCEPT !.trav = t, !.size = left]
    BY <1>2, <1>14, <2>1, BodyDomain DEF BodyFields
  <2>5. QED
    BY <2>3, <2>4
<1>17. /\ s.trav = t /\ s.size = left /\ s.file = file /\ s.data = b.data /\ ~s.readsize
       /\ s.cur = b.cur /\ s.state = b.state /\ s.left = b.left /\ s.status = b.status
  <2>1. DOMAIN b = BodyFields
    BY <1>2, BodyDomain
  <2>2. s.trav = t /\ s.size = left /\ s.file = file
    BY <1>14, <2>1 DEF BodyFields
  <2>3. /\ s.data = b.data /\ s.readsize = b.readsize /\ s.cur = b.cur
        /\ s.state = b.state /\ s.left = b.left /\ s.status = b.status
    BY <1>14, <2>1 DEF BodyFields
  <2>4. QED
    BY <1>7, <2>2, <2>3
<1>18. Part(s, data, base)
  <2>1. Aligned(s)
    BY <1>2, <1>17 DEF Aligned
  <2>2. s.file = Chunks(data)[base + s.trav].file
    BY <1>6, <1>12, <1>17
  <2>3. Within(s.data, data, base) /\ s.left = MaxBodySize - base /\ s.status = 0
    BY <1>1, <1>17
  <2>4. QED
    BY <1>16, <2>1, <2>2, <2>3 DEF Part
<1>19. AtData(s, data, base)
  BY <1>6, <1>10, <1>13, <1>17 DEF AtData
<1>20. Reads(s, data, base)
  BY <1>1, <1>17, <1>18, <1>19 DEF Reads
<1>21. QED
  BY <1>13, <1>15, <1>17, <1>19, <1>20

\* The end of a chunk.
EndTurn(b) ==
  LET t == b.trav
      next == [b EXCEPT !.trav = t + 2, !.cur = t + 2, !.readsize = TRUE]
  IN IF SubSeq(b.data, t + 1, t + 2) = Crlf THEN Turn(next, t + 2, "go")
     ELSE Turn(FailBody(b, 400), t, "error")

LEMMA DataEnds ==
  ASSUME NEW data \in Seq(Elements), NEW base \in Nat, NEW b, Reads(b, data, base),
         AtData(b, data, base), b.size = 0, b.trav + 1 < Len(b.data)
  PROVE  Follows(Limited(EndTurn(b)), data, base) /\ Advances(b, Limited(EndTurn(b)))
<1>1. Part(b, data, base) /\ b.state = "READING_BODY" /\ b.status = 0
      /\ b.left = MaxBodySize - base /\ b.file = Chunks(data)[base + b.trav].file
      /\ Within(b.data, data, base)
  BY DEF Reads, Part
<1>2. PICK m \in Nat, t \in Nat :
        /\ m = Len(b.data) /\ t = b.trav /\ t + 1 < m
        /\ base + m <= Len(data) /\ Len(data) \in Nat /\ b \in Bodies
        /\ b.data \in Seq(Elements)
  BY <1>1, PartIs
<1>3. \A i \in 0 .. Len(b.data) :
        base + i \in 0 .. Len(data) /\ Chunks(data)[base + i] \in ChunkStates
  BY <1>1, PartIs
<1>4. PICK k \in ChunkStates : k = Chunks(data)[base + t]
  <2>1. t \in 0 .. Len(b.data)
    BY <1>2
  <2>2. QED
    BY <1>3, <2>1
<1>5. k.at = "data" /\ k.left = 0
  BY <1>2, <1>4 DEF AtData
<1>6. PICK i \in Nat, j \in Nat :
        i = t + 1 /\ j = t + 2 /\ j = i + 1 /\ t < Len(b.data) /\ i < Len(b.data)
        /\ i \in 1 .. m /\ j \in 1 .. m /\ j - 2 = t /\ t < j
  BY <1>2
<1>7. PICK e \in Elements, f \in Elements : e = b.data[i] /\ f = b.data[j]
  <2>1. \A l \in 1 .. Len(b.data) : b.data[l] \in Elements
    BY <1>1, PartIs
  <2>2. QED
    BY <1>2, <1>6, <2>1
<1>8. PICK cr \in BOOLEAN : cr = (e = "cr")
  OBVIOUS
<1>9. PICK k1 : k1 = [k EXCEPT !.at = "end", !.cr = cr]
  OBVIOUS
<1>10. k1.at = "end" /\ k1.cr = cr /\ k1.file = k.file /\ k1 \in ChunkStates
  <2>1. "end" \in ChunkPlaces
    BY DEF ChunkPlaces
  <2>2. k1 \in ChunkStates
    BY <1>9, <2>1, ChunkMoved
  <2>3. DOMAIN k = {"at", "line", "left", "cr", "file", "status"}
    BY ChunkDomain
  <2>4. k1.at = "end" /\ k1.cr = cr /\ k1.file = k.file
    BY <1>9, <2>3
  <2>5. QED
    BY <2>2, <2>4
<1>11. Chunks(data)[base + i] = k1
  <2>1. Chunks(data)[base + i] = ReadOn(Chunks(data)[base + t], b.data[i], base + i)
    <3>1. Part(b, data, base) /\ i = t + 1 /\ t < Len(b.data)
      BY <1>1, <1>6
    <3>2. QED
      BY <3>1, PartReads
  <2>2. QED
    BY <1>4, <1>5, <1>7, <1>8, <1>9, <2>1 DEF ReadOn
<1>12. PICK k2 : k2 = Chunks(data)[base + j]
  OBVIOUS
<1>13. PICK end \in Nat : end = base + j /\ end - 2 = base + t
  <2>1. base + j \in Nat /\ (base + j) - 2 = base + t
    BY <1>6
  <2>2. QED
    BY <2>1
<1>14. k2 = IF cr /\ f = "lf"
              THEN IF Over(end) THEN Refused(k1, 413)
                   ELSE [k1 EXCEPT !.at = "size", !.line = <<>>]
            ELSE Refused(k1, IF Over(base + t) THEN 413 ELSE 400)
  <2>1. Chunks(data)[base + j] = ReadOn(Chunks(data)[base + i], b.data[j], base + j)
    <3>1. Part(b, data, base) /\ j = i + 1 /\ i < Len(b.data)
      BY <1>1, <1>6
    <3>2. QED
      BY <3>1, PartReads
  <2>2. k2 = ReadOn(k1, f, end)
    BY <1>7, <1>11, <1>12, <1>13, <2>1
  <2>3. QED
    BY <1>10, <1>13, <2>2 DEF ReadOn
<1>15. SubSeq(b.data, t + 1, t + 2) = Crlf <=> cr /\ f = "lf"
  <2>1. PICK s : s = SubSeq(b.data, t + 1, t + 2)
    OBVIOUS
  <2>2. j \in 0 .. Len(b.data) /\ t \in 0 .. j /\ j - t = 2
    <3>1. m = Len(b.data)
      BY <1>2
    <3>2. j = t + 2 /\ j \in 1 .. m
      BY <1>6
    <3>3. t \in 0 .. j /\ j - t = 2
      BY <3>2
    <3>4. j \in 0 .. m
      BY <3>2
    <3>5. QED
      BY <3>1, <3>3, <3>4
  <2>3. /\ SubSeq(b.data, t + 1, j) \in Seq(Elements) /\ Len(SubSeq(b.data, t + 1, j)) = j - t
        /\ \A l \in 1 .. j - t : SubSeq(b.data, t + 1, j)[l] = b.data[t + l]
    <3>1. PICK d \in Seq(Elements) : d = b.data
      BY <1>2
    <3>2. j \in 0 .. Len(d)
      BY <2>2, <3>1
    <3>3. /\ SubSeq(d, t + 1, j) \in Seq(Elements) /\ Len(SubSeq(d, t + 1, j)) = j - t
          /\ \A l \in 1 .. j - t : SubSeq(d, t + 1, j)[l] = d[t + l]
      BY <2>2, <3>2, SubSeqIs
    <3>4. QED
      BY <3>1, <3>3
  <2>4. s \in Seq(Elements) /\ Len(s) = 2 /\ s[1] = e /\ s[2] = f
    <3>1. s = SubSeq(b.data, t + 1, j)
      BY <1>6, <2>1
    <3>2. /\ s \in Seq(Elements) /\ Len(s) = 2
          /\ \A l \in 1 .. 2 : s[l] = b.data[t + l]
      BY <2>2, <2>3, <3>1
    <3>3. s[1] = b.data[t + 1] /\ s[2] = b.data[t + 2]
      BY <3>2
    <3>4. QED
      BY <1>6, <1>7, <3>2, <3>3
  <2>5. s = Crlf => e = "cr" /\ f = "lf"
    BY <2>4 DEF Crlf
  <2>6. e = "cr" /\ f = "lf" => s = Crlf
    <3>1. SUFFICES ASSUME e = "cr", f = "lf" PROVE s = Crlf
      OBVIOUS
    <3>2. PICK c : c = Crlf
      OBVIOUS
    <3>3. c \in Seq({"cr", "lf"}) /\ Len(c) = 2 /\ c[1] = "cr" /\ c[2] = "lf"
      BY <3>2 DEF Crlf
    <3>4. \A l \in 1 .. Len(s) : s[l] = c[l]
      BY <2>4, <3>1, <3>3
    <3>5. QED
      BY <2>4, <3>2, <3>3, <3>4, SeqEqual
  <2>7. QED
    BY <1>8, <2>1, <2>5, <2>6
<1>16. \A code : Refused(k1, code).at = "refused" /\ Refused(k1, code).status = code
  BY <1>10, ChunkDomain DEF Refused
<1>17. base + Len(b.data) <= Len(data) /\ b \in Bodies /\ b.left = MaxBodySize - base
  BY <1>1, <1>2
<1>18. PICK a \in 0 .. base + Len(b.data) : a = base + j /\ a = end
  <2>1. base + j \in 0 .. base + m
    BY <1>6
  <2>2. QED
    BY <1>2, <1>13, <2>1
<1>19. DOMAIN b = BodyFields
  BY <1>2, BodyDomain
<1> DEFINE next == [b EXCEPT !.trav = t + 2, !.cur = t + 2, !.readsize = TRUE]
<1> HIDE DEF next
<1>20. /\ next.trav = j /\ next.cur = j /\ next.readsize /\ next.data = b.data
       /\ next.state = b.state /\ next.left = b.left /\ next.file = b.file
       /\ next.status = b.status
  <2>1. next.trav = j /\ next.cur = j /\ next.readsize
    BY <1>6, <1>19 DEF BodyFields, next
  <2>2. /\ next.data = b.data /\ next.state = b.state /\ next.left = b.left
        /\ next.file = b.file /\ next.status = b.status
    BY <1>19 DEF BodyFields, next
  <2>3. QED
    BY <2>1, <2>2
<1>21. next \in Bodies
  <2>1. PICK l1 : l1 = [b EXCEPT !.trav = j, !.cur = j]
    OBVIOUS
  <2>2. l1 \in Bodies
    BY <1>2, <2>1 DEF Bodies
  <2>3. TRUE \in BOOLEAN
    OBVIOUS
  <2>4. [l1 EXCEPT !.readsize = TRUE] \in Bodies
    BY <2>2, <2>3 DEF Bodies
  <2>5. next = [l1 EXCEPT !.readsize = TRUE]
    BY <1>6, <1>19, <2>1 DEF BodyFields, next
  <2>6. QED
    BY <2>4, <2>5
<1>22. \A x : Refuses(Limited(x), data, base, b) =>
               Follows(Limited(x), data, base) /\ Advances(b, Limited(x))
  BY DEF Refuses, Advances
<1>23. cr /\ f = "lf" => EndTurn(b) = Turn(next, j, "go")
  BY <1>2, <1>6, <1>15 DEF EndTurn, next
<1>24. CASE ~(cr /\ f = "lf")
  <2>1. SUFFICES Refuses(Limited(Turn(FailBody(b, 400), t, "error")), data, base, b)
    <3>1. EndTurn(b) = Turn(FailBody(b, 400), t, "error")
      BY <1>2, <1>15, <1>24 DEF EndTurn
    <3>2. QED
      BY <1>22, <3>1
  <2>2. CASE ~Over(base + t)
    <3>1. Chunks(data)[a].at = "refused" /\ Chunks(data)[a].status = 400
      <4>1. k2 = Refused(k1, 400)
        BY <1>14, <1>24, <2>2
      <4>2. Refused(k1, 400).at = "refused" /\ Refused(k1, 400).status = 400
        BY <1>16
      <4>3. QED
        BY <1>12, <1>18, <4>1, <4>2
    <3>2. QED
      BY <1>17, <2>2, <3>1, ErrorStays
  <2>3. CASE Over(base + t)
    <3>1. Chunks(data)[a].at = "refused" /\ Chunks(data)[a].status = 413
      <4>1. k2 = Refused(k1, 413)
        BY <1>14, <1>24, <2>3
      <4>2. Refused(k1, 413).at = "refused" /\ Refused(k1, 413).status = 413
        BY <1>16
      <4>3. QED
        BY <1>12, <1>18, <4>1, <4>2
    <3>2. PICK g : g = FailBody(b, 400)
      OBVIOUS
    <3>3. g \in Bodies /\ g.data = b.data /\ g.left = MaxBodySize - base
      <4>1. 400 \in BodyCodes
        BY DEF BodyCodes
      <4>2. g.left = b.left
        BY <1>19, <3>2 DEF FailBody, BodyFields
      <4>3. QED
        BY <1>17, <3>2, <4>1, <4>2, FailedBody
    <3>4. base + Len(g.data) <= Len(data) /\ a \in 0 .. base + Len(g.data)
      BY <1>17, <1>18, <3>3
    <3>5. PICK flow : flow = "error"
      OBVIOUS
    <3>6. Refuses(Limited(Turn(g, t, flow)), data, base, g)
      BY <2>3, <3>1, <3>3, <3>4, <3>5, LimitRefuses
    <3>7. QED
      BY <3>2, <3>3, <3>5, <3>6 DEF Refuses
  <2>4. QED
    BY <2>2, <2>3
<1>25. CASE cr /\ f = "lf" /\ Over(end)
  <2>1. Chunks(data)[a].at = "refused" /\ Chunks(data)[a].status = 413
    <3>1. k2 = Refused(k1, 413)
      BY <1>14, <1>25
    <3>2. Refused(k1, 413).at = "refused" /\ Refused(k1, 413).status = 413
      BY <1>16
    <3>3. QED
      BY <1>12, <1>18, <3>1, <3>2
  <2>2. next.left = MaxBodySize - base
    BY <1>17, <1>20
  <2>3. base + Len(next.data) <= Len(data) /\ a \in 0 .. base + Len(next.data)
    BY <1>17, <1>18, <1>20
  <2>4. PICK flow : flow = "go"
    OBVIOUS
  <2>5. Over(base + j)
    BY <1>13, <1>25
  <2>6. Refuses(Limited(Turn(next, j, flow)), data, base, next)
    BY <1>21, <2>1, <2>2, <2>3, <2>4, <2>5, LimitRefuses
  <2>7. Refuses(Limited(Turn(next, j, "go")), data, base, b)
    BY <1>20, <2>4, <2>6 DEF Refuses
  <2>8. QED
    BY <1>22, <1>25, <1>23, <2>7
<1>26. CASE cr /\ f = "lf" /\ ~Over(end)
  <2>1. PICK line \in Seq(Elements) : line = <<>>
    <3>1. <<>> \in Seq(Elements)
      OBVIOUS
    <3>2. QED
      BY <3>1
  <2>2. k2 = [k1 EXCEPT !.at = "size", !.line = line]
    BY <1>14, <1>26, <2>1
  <2>3. k2.at = "size" /\ k2.line = line /\ k2.file = k.file
    BY <1>10, <2>2, ChunkDomain
  <2>4. Part(next, data, base)
    <3>1. Aligned(next)
      BY <1>2, <1>6, <1>20 DEF Aligned
    <3>2. next.file = Chunks(data)[base + next.trav].file
      BY <1>1, <1>2, <1>4, <1>12, <1>20, <2>3
    <3>3. Within(next.data, data, base) /\ next.left = MaxBodySize - base /\ next.status = 0
      BY <1>1, <1>20
    <3>4. QED
      BY <1>21, <3>1, <3>2, <3>3 DEF Part
  <2>5. AtSize(next, data, base)
    <3>1. SubSeq(data, base + j + 1, base + j) = line
      BY <2>1, SubSeqEmpty
    <3>2. ~Over(base + j)
      BY <1>13, <1>26
    <3>3. QED
      BY <1>12, <1>20, <2>3, <3>1, <3>2 DEF AtSize
  <2>6. Reads(next, data, base)
    BY <1>1, <1>20, <2>4, <2>5 DEF Reads
  <2>7. Limited(Turn(next, j, "go")) = Turn(next, j, "go")
    <3>1. PICK flow : flow = "go"
      OBVIOUS
    <3>2. next.left = MaxBodySize - base
      BY <1>17, <1>20
    <3>3. Limited(Turn(next, j, flow)) =
            IF flow # "break" /\ Over(base + j)
              THEN Turn(FailBody(next, 413), j, "error") ELSE Turn(next, j, flow)
      BY <3>2, LimitIs
    <3>4. QED
      BY <1>13, <1>26, <3>1, <3>3
  <2>8. Follows(Turn(next, j, "go"), data, base)
    BY <1>20, <2>6 DEF Follows, Turn, Taken
  <2>9. Advances(b, Turn(next, j, "go"))
    BY <1>2, <1>6, <1>20 DEF Advances, Turn
  <2>10. QED
    BY <1>26, <1>23, <2>7, <2>8, <2>9
<1>27. QED
  BY <1>24, <1>25, <1>26

LEMMA DataTurn ==
  ASSUME NEW data \in Seq(Elements), NEW base \in Nat, NEW b, Reads(b, data, base),
         AtData(b, data, base), b.trav < Len(b.data)
  PROVE  LET x == Limited(SaveChunkBody(b, b.trav)) IN Follows(x, data, base) /\ Advances(b, x)
<1>1. Part(b, data, base)
  BY DEF Reads
<1>2. PICK u \in Nat, m \in Nat, size \in Nat :
        u = b.trav /\ m = Len(b.data) /\ size = b.size /\ u < m
  BY <1>1, PartIs
<1>3. PICK rest \in Nat : rest = m - u /\ u + rest = m
  <2>1. m - u \in Nat /\ u + (m - u) = m
    BY <1>2
  <2>2. QED
    BY <2>1
<1>4. PICK n \in {rest, size} : n = Min({rest, size}) /\ n <= rest /\ n <= size
  <2>1. {rest, size} \subseteq Nat /\ {rest, size} # {}
    OBVIOUS
  <2>2. Min({rest, size}) \in {rest, size} /\ \A y \in {rest, size} : Min({rest, size}) <= y
    BY <2>1, SmallestIs
  <2>3. QED
    BY <2>2
<1>5. PICK t \in Nat : t = u + n /\ t <= m /\ u <= t
  <2>1. n \in Nat
    OBVIOUS
  <2>2. u + n \in Nat /\ u + n <= m /\ u <= u + n
    BY <1>3, <1>4, <2>1
  <2>3. QED
    BY <2>2
<1>6. n \in Nat /\ n <= b.size /\ t = b.trav + n /\ t <= Len(b.data)
  BY <1>2, <1>4, <1>5
<1>7. PICK s : s = Saved(b, t, n)
  OBVIOUS
<1>8. /\ Reads(s, data, base) /\ AtData(s, data, base)
      /\ s.trav = t /\ s.size = b.size - n /\ s.data = b.data /\ ~s.readsize
  BY <1>6, <1>7, DataSaved
<1>9. SaveChunkBody(b, b.trav) =
        IF ~(t + 1 < Len(b.data)) THEN Turn(s, t, "break")
        ELSE IF SubSeq(b.data, t + 1, t + 2) = Crlf
          THEN Turn([s EXCEPT !.trav = t + 2, !.cur = t + 2, !.readsize = TRUE], t + 2, "go")
        ELSE Turn(FailBody(s, 400), t, "error")
  <2>1. Min({Len(b.data) - b.trav, b.size}) = n
    BY <1>2, <1>3, <1>4
  <2>2. PICK trav : trav = b.trav
    OBVIOUS
  <2>3. trav + n = t /\ trav + n + 2 = t + 2
    BY <1>2, <1>5, <1>6, <2>2
  <2>4. s = [b EXCEPT !.file = @ \o SubSeq(b.data, trav + 1, t), !.trav = t, !.size = @ - n]
    BY <1>7, <2>2 DEF Saved
  <2>5. QED
    BY <2>1, <2>2, <2>3, <2>4 DEF SaveChunkBody, HasEnd
<1>10. CASE ~(t + 1 < Len(b.data))
  <2>1. SaveChunkBody(b, b.trav) = Turn(s, t, "break")
    BY <1>9, <1>10
  <2>2. Limited(Turn(s, t, "break")) = Turn(s, t, "break")
    BY DEF Limited, Turn
  <2>3. Pending(s)
    <3>1. s.trav = Len(s.data) \/ s.trav + 1 = Len(s.data)
      <4>1. t <= m /\ ~(t + 1 < m)
        BY <1>2, <1>5, <1>10
      <4>2. t = m \/ t + 1 = m
        BY <4>1
      <4>3. QED
        BY <1>2, <1>8, <4>2
    <3>2. t + 1 = m => n = size
      BY <1>3, <1>4, <1>5
    <3>3. n = size => s.size = 0
      BY <1>2, <1>8
    <3>4. QED
      BY <1>2, <1>8, <3>1, <3>2, <3>3 DEF Pending
  <2>4. t = Taken(s)
    BY <1>8 DEF Taken
  <2>5. Follows(Turn(s, t, "break"), data, base)
    BY <1>8, <2>3, <2>4 DEF Follows, Turn
  <2>6. Advances(b, Turn(s, t, "break"))
    BY <1>8 DEF Advances, Turn
  <2>7. QED
    BY <2>1, <2>2, <2>5, <2>6
<1>11. CASE t + 1 < Len(b.data)
  <2>1. s.size = 0
    <3>1. n = size
      BY <1>2, <1>3, <1>4, <1>5, <1>11
    <3>2. QED
      BY <1>2, <1>8, <3>1
  <2>2. PICK x : x = SaveChunkBody(b, b.trav)
    OBVIOUS
  <2>3. x = EndTurn(s)
    BY <1>8, <1>9, <1>11, <2>2 DEF EndTurn
  <2>4. s.trav + 1 < Len(s.data)
    BY <1>8, <1>11
  <2>5. Follows(Limited(x), data, base) /\ Advances(s, Limited(x))
    BY <1>8, <2>1, <2>3, <2>4, DataEnds
  <2>6. PICK y : y = Limited(x)
    OBVIOUS
  <2>7. y.flow = "go" => b.trav < y.b.trav
    <3>1. SUFFICES ASSUME y.flow = "go" PROVE b.trav < y.b.trav
      OBVIOUS
    <3>2. Part(y.b, data, base)
      BY <2>5, <2>6, <3>1 DEF Follows, Reads, Ends
    <3>3. y.b.trav \in Nat
      BY <3>2, PartIs
    <3>4. t < y.b.trav
      BY <1>8, <2>5, <2>6, <3>1 DEF Advances
    <3>5. QED
      BY <1>2, <1>5, <3>3, <3>4
  <2>8. Advances(b, y)
    BY <1>8, <2>5, <2>6, <2>7 DEF Advances
  <2>9. QED
    BY <2>2, <2>5, <2>6, <2>8
<1>12. QED
  BY <1>10, <1>11

Stops(x) == x.flow # "go" \/ x.b.state = "SECOND_CRLF" \/ x.b.trav >= Len(x.b.data)

LEMMA TurnFollows ==
  ASSUME NEW data \in Seq(Elements), Sized(data), NEW base \in Nat, NEW x,
         Follows(x, data, base)
  PROVE  LET y == TakeTurn(x)
         IN /\ Follows(y, data, base) /\ y.b.data = x.b.data
            /\ IF Stops(x) THEN y = x ELSE y.flow = "go" => x.b.trav < y.b.trav
<1>1. CASE Stops(x)
  BY <1>1 DEF TakeTurn, Stops
<1>2. CASE ~Stops(x)
  <2>1. PICK b : b = x.b
    OBVIOUS
  <2>2. x.flow = "go" /\ b.state # "SECOND_CRLF" /\ ~(b.trav >= Len(b.data))
    BY <1>2, <2>1 DEF Stops
  <2>3. Reads(b, data, base) /\ x.removed = Taken(b)
    BY <2>1, <2>2 DEF Follows, Ends
  <2>4. b.trav < Len(b.data)
    <3>1. Part(b, data, base)
      BY <2>3 DEF Reads
    <3>2. b.trav \in Nat /\ Len(b.data) \in Nat
      BY <3>1, PartIs
    <3>3. QED
      BY <2>2, <3>2
  <2>5. PICK y : y = TakeTurn(x)
    OBVIOUS
  <2>6. y = Limited(IF b.readsize THEN ReadSizeChunk(b, Taken(b)) ELSE SaveChunkBody(b, Taken(b)))
    BY <2>1, <2>2, <2>3, <2>5 DEF TakeTurn
  <2>7. Follows(y, data, base) /\ Advances(b, y)
    <3>1. CASE b.readsize
      <4>1. AtSize(b, data, base)
        BY <2>3, <3>1 DEF Reads, AtData
      <4>2. y = Limited(ReadSizeChunk(b, b.cur))
        BY <2>6, <3>1 DEF Taken
      <4>3. b.data[b.trav + 1] # "cr" => Follows(y, data, base) /\ Advances(b, y)
        BY <2>3, <2>4, <4>1, <4>2, SizeMore
      <4>4. b.data[b.trav + 1] = "cr" /\ b.trav + 1 < Len(b.data) =>
              Follows(y, data, base) /\ Advances(b, y)
        BY <2>3, <4>1, <4>2, SizeEnds
      <4>5. b.data[b.trav + 1] = "cr" /\ ~(b.trav + 1 < Len(b.data)) =>
              Follows(y, data, base) /\ Advances(b, y)
        BY <2>3, <2>4, <4>1, <4>2, SizeWaits
      <4>6. QED
        BY <4>3, <4>4, <4>5
    <3>2. CASE ~b.readsize
      <4>1. AtData(b, data, base)
        BY <2>3, <3>2 DEF Reads, AtSize
      <4>2. y = Limited(SaveChunkBody(b, b.trav))
        BY <2>6, <3>2 DEF Taken
      <4>3. QED
        BY <2>3, <2>4, <4>1, <4>2, DataTurn
    <3>3. QED
      BY <3>1, <3>2
  <2>8. QED
    BY <1>2, <2>1, <2>5, <2>7 DEF Advances
<1>3. QED
  BY <1>1, <1>2

-----------------------------------------------------------------------------
(***************************************************************************)
(* The turns of any body.                                                  *)
(***************************************************************************)
Flows == {"go", "break", "error"}
Settled(x) == x.flow = "error" \/ x.b.state = "SECOND_CRLF" \/ x.removed = Taken(x.b)
TurnSet == {x \in [b : Bodies, removed : Nat, flow : Flows] : Aligned(x.b) /\ Settled(x)}

LEMMA TurnIn ==
  ASSUME NEW b \in Bodies, Aligned(b), NEW removed \in Nat, NEW flow \in Flows,
         flow = "error" \/ b.state = "SECOND_CRLF" \/ removed = Taken(b)
  PROVE  Turn(b, removed, flow) \in TurnSet
<1>1. PICK x : x = Turn(b, removed, flow)
  OBVIOUS
<1>2. x \in [b : Bodies, removed : Nat, flow : Flows]
  BY <1>1 DEF Turn
<1>3. x.b = b /\ x.removed = removed /\ x.flow = flow
  BY <1>1 DEF Turn
<1>4. Settled(x)
  BY <1>3 DEF Settled
<1>5. QED
  BY <1>1, <1>2, <1>3, <1>4 DEF TurnSet

LEMMA FailAligned ==
  ASSUME NEW b \in Bodies, Aligned(b), NEW code \in {400, 413}
  PROVE  FailBody(b, code) \in Bodies /\ Aligned(FailBody(b, code))
<1>1. code \in BodyCodes
  BY DEF BodyCodes
<1>2. PICK f : f = FailBody(b, code)
  OBVIOUS
<1>3. f \in Bodies
  BY <1>1, <1>2, FailedBody
<1>4. f.cur = b.cur /\ f.trav = b.trav /\ f.data = b.data
  BY <1>2, BodyDomain DEF FailBody, BodyFields
<1>5. QED
  BY <1>2, <1>3, <1>4 DEF Aligned

LEMMA LimitTyped ==
  ASSUME NEW b \in Bodies, Aligned(b), NEW removed \in Nat, NEW flow \in Flows,
         flow = "error" \/ b.state = "SECOND_CRLF" \/ removed = Taken(b)
  PROVE  Limited(Turn(b, removed, flow)) \in TurnSet
<1>1. Turn(b, removed, flow) \in TurnSet
  BY TurnIn
<1>2. PICK code \in {400, 413} : code = 413
  OBVIOUS
<1>3. PICK f : f = FailBody(b, code)
  OBVIOUS
<1>4. f \in Bodies /\ Aligned(f)
  BY <1>3, FailAligned
<1>5. PICK error \in Flows : error = "error"
  BY DEF Flows
<1>6. Turn(f, removed, error) \in TurnSet
  BY <1>4, <1>5, TurnIn
<1>7. \/ Limited(Turn(b, removed, flow)) = Turn(b, removed, flow)
      \/ Limited(Turn(b, removed, flow)) = Turn(f, removed, error)
  BY <1>2, <1>3, <1>5 DEF Limited, Turn
<1>8. QED
  BY <1>1, <1>6, <1>7

LEMMA SizeTyped ==
  ASSUME NEW b \in Bodies, Aligned(b), b.readsize, b.trav < Len(b.data)
  PROVE  Limited(ReadSizeChunk(b, b.cur)) \in TurnSet
<1>1. b.cur \in Nat /\ b.trav \in Nat /\ b.data \in Seq(Elements)
  BY DEF Bodies
<1>2. PICK t \in Nat, c \in Nat, m \in Nat :
        t = b.trav /\ c = b.cur /\ m = Len(b.data) /\ c <= t /\ t < m
  BY <1>1 DEF Aligned
<1>3. DOMAIN b = BodyFields
  BY BodyDomain
<1>4. PICK r \in Nat : r = t + 2 /\ c + t + 2 - c = r
  <2>1. t + 2 \in Nat /\ c + t + 2 - c = t + 2
    BY <1>2
  <2>2. QED
    BY <2>1
<1>5. PICK size \in Int : size = Number(SubSeq(b.data, c + 1, m))
  <2>1. m \in 0 .. Len(b.data) /\ c \in 0 .. m
    BY <1>2
  <2>2. SubSeq(b.data, c + 1, m) \in Seq(Elements)
    BY <1>1, <2>1, SubSeqIs
  <2>3. QED
    BY <2>2, NumberTyped
<1>6. PICK st \in BodyStates : st = IF size = 0 THEN "SECOND_CRLF" ELSE b.state
  <2>1. "SECOND_CRLF" \in BodyStates /\ b.state \in BodyStates
    BY DEF BodyStates, Bodies
  <2>2. QED
    BY <2>1
<1>7. PICK line : line = [b EXCEPT !.trav = t + 2, !.cur = t + 2, !.size = size,
                                  !.readsize = FALSE, !.state = st]
  OBVIOUS
<1>8. PICK next : next = [b EXCEPT !.trav = t + 1]
  OBVIOUS
<1>9. PICK code \in {400, 413} : code = 400
  OBVIOUS
<1>10. PICK f : f = FailBody(b, code)
  OBVIOUS
<1>11. ReadSizeChunk(b, b.cur) =
         IF b.data[t + 1] # "cr" THEN Turn(next, c, "go")
         ELSE IF ~(t + 1 < m) THEN Turn(b, c, "break")
         ELSE IF b.data[t + 2] # "lf" THEN Turn(f, c, "error")
         ELSE IF size < 0 THEN Turn(f, r, "error")
         ELSE Turn(line, r, "go")
  BY <1>2, <1>4, <1>5, <1>6, <1>7, <1>8, <1>9, <1>10 DEF ReadSizeChunk
<1>12. f \in Bodies /\ Aligned(f)
  BY <1>10, FailAligned
<1>13. next \in Bodies /\ Aligned(next) /\ Taken(next) = c
  <2>1. PICK u \in Nat : u = t + 1
    OBVIOUS
  <2>2. next = [b EXCEPT !.trav = u]
    BY <1>8, <2>1
  <2>3. next \in Bodies
    BY <2>2 DEF Bodies
  <2>4. next.trav = u /\ next.cur = c /\ next.data = b.data /\ next.readsize
    BY <1>2, <1>3, <2>2 DEF BodyFields
  <2>5. QED
    BY <1>2, <2>1, <2>3, <2>4 DEF Aligned, Taken
<1>14. ~(size < 0) /\ t + 1 < m => line \in Bodies /\ Aligned(line) /\ Taken(line) = r
  <2>1. SUFFICES ASSUME ~(size < 0), t + 1 < m
                 PROVE  line \in Bodies /\ Aligned(line) /\ Taken(line) = r
    OBVIOUS
  <2>2. size \in Nat /\ FALSE \in BOOLEAN
    BY <2>1
  <2>3. PICK l1 : l1 = [b EXCEPT !.trav = r, !.cur = r]
    OBVIOUS
  <2>4. l1 \in Bodies
    BY <2>3 DEF Bodies
  <2>5. PICK l2 : l2 = [l1 EXCEPT !.size = size, !.state = st]
    OBVIOUS
  <2>6. l2 \in Bodies
    BY <2>2, <2>4, <2>5 DEF Bodies
  <2>7. [l2 EXCEPT !.readsize = FALSE] \in Bodies
    BY <2>2, <2>6 DEF Bodies
  <2>8. line = [l2 EXCEPT !.readsize = FALSE]
    BY <1>3, <1>4, <1>7, <2>3, <2>5 DEF BodyFields
  <2>9. line.trav = r /\ line.cur = r /\ line.data = b.data /\ ~line.readsize
    BY <1>3, <1>4, <1>7 DEF BodyFields
  <2>10. Aligned(line)
    BY <1>2, <1>4, <2>1, <2>9 DEF Aligned
  <2>11. QED
    BY <2>7, <2>8, <2>9, <2>10 DEF Taken
<1>15. Taken(b) = c
  BY <1>2 DEF Taken
<1>16. PICK go \in Flows, break \in Flows, error \in Flows :
         go = "go" /\ break = "break" /\ error = "error"
  BY DEF Flows
<1>17. Limited(Turn(next, c, go)) \in TurnSet
  BY <1>13, LimitTyped
<1>18. Limited(Turn(b, c, break)) \in TurnSet
  BY <1>15, LimitTyped
<1>19. Limited(Turn(f, c, error)) \in TurnSet /\ Limited(Turn(f, r, error)) \in TurnSet
  BY <1>12, <1>16, LimitTyped
<1>20. ~(size < 0) /\ t + 1 < m => Limited(Turn(line, r, go)) \in TurnSet
  BY <1>14, LimitTyped
<1>21. QED
  BY <1>11, <1>16, <1>17, <1>18, <1>19, <1>20

LEMMA DataTyped ==
  ASSUME NEW b \in Bodies, Aligned(b), ~b.readsize
  PROVE  Limited(SaveChunkBody(b, b.trav)) \in TurnSet
<1>1. b.cur \in Nat /\ b.trav \in Nat /\ b.data \in Seq(Elements) /\ b.size \in Nat
      /\ b.file \in Seq(Elements)
  BY DEF Bodies
<1>2. PICK u \in Nat, m \in Nat, size \in Nat, c \in Nat :
        /\ u = b.trav /\ m = Len(b.data) /\ size = b.size /\ u <= m /\ c = b.cur /\ c <= u
  BY <1>1 DEF Aligned
<1>3. PICK rest \in Nat : rest = m - u /\ u + rest = m
  <2>1. m - u \in Nat /\ u + (m - u) = m
    BY <1>2
  <2>2. QED
    BY <2>1
<1>4. PICK n \in {rest, size} : n = Min({rest, size}) /\ n <= rest /\ n <= size
  <2>1. {rest, size} \subseteq Nat /\ {rest, size} # {}
    OBVIOUS
  <2>2. Min({rest, size}) \in {rest, size} /\ \A y \in {rest, size} : Min({rest, size}) <= y
    BY <2>1, SmallestIs
  <2>3. QED
    BY <2>2
<1>5. PICK t \in Nat, left \in Nat : t = u + n /\ t <= m /\ u <= t /\ left = size - n
  <2>1. n \in Nat
    OBVIOUS
  <2>2. u + n \in Nat /\ u + n <= m /\ u <= u + n /\ size - n \in Nat
    BY <1>3, <1>4, <2>1
  <2>3. QED
    BY <2>2
<1>6. PICK file \in Seq(Elements) : file = b.file \o SubSeq(b.data, u + 1, t)
  <2>1. t \in 0 .. Len(b.data) /\ u \in 0 .. t
    BY <1>2, <1>5
  <2>2. SubSeq(b.data, u + 1, t) \in Seq(Elements)
    BY <1>1, <2>1, SubSeqIs
  <2>3. b.file \o SubSeq(b.data, u + 1, t) \in Seq(Elements)
    BY <1>1, <2>2, ConcatProperties
  <2>4. QED
    BY <2>3
<1>7. PICK s : s = [b EXCEPT !.file = file, !.trav = t, !.size = left]
  OBVIOUS
<1>8. DOMAIN b = BodyFields
  BY BodyDomain
<1>9. s \in Bodies
  <2>1. PICK s1 : s1 = [b EXCEPT !.file = file]
    OBVIOUS
  <2>2. s1 \in Bodies
    BY <2>1 DEF Bodies
  <2>3. [s1 EXCEPT !.trav = t, !.size = left] \in Bodies
    BY <2>2 DEF Bodies
  <2>4. s = [s1 EXCEPT !.trav = t, !.size = left]
    BY <1>7, <1>8, <2>1 DEF BodyFields
  <2>5. QED
    BY <2>3, <2>4
<1>10. Aligned(s) /\ Taken(s) = t
  <2>1. s.trav = t /\ s.cur = c /\ s.data = b.data /\ ~s.readsize
    BY <1>2, <1>7, <1>8 DEF BodyFields
  <2>2. c <= t
    BY <1>2, <1>5
  <2>3. QED
    BY <1>2, <1>5, <2>1, <2>2 DEF Aligned, Taken
<1>11. PICK code \in {400, 413} : code = 400
  OBVIOUS
<1>12. PICK f : f = FailBody(s, code)
  OBVIOUS
<1>13. f \in Bodies /\ Aligned(f)
  BY <1>9, <1>10, <1>12, FailAligned
<1>14. PICK r \in Nat : r = t + 2
  OBVIOUS
<1>15. PICK next : next = [s EXCEPT !.trav = r, !.cur = r, !.readsize = TRUE]
  OBVIOUS
<1>16. t + 1 < m => next \in Bodies /\ Aligned(next) /\ Taken(next) = r
  <2>1. SUFFICES ASSUME t + 1 < m PROVE next \in Bodies /\ Aligned(next) /\ Taken(next) = r
    OBVIOUS
  <2>2. DOMAIN s = BodyFields
    BY <1>9, BodyDomain
  <2>3. PICK l1 : l1 = [s EXCEPT !.trav = r, !.cur = r]
    OBVIOUS
  <2>4. l1 \in Bodies
    BY <1>9, <2>3 DEF Bodies
  <2>5. TRUE \in BOOLEAN
    OBVIOUS
  <2>6. [l1 EXCEPT !.readsize = TRUE] \in Bodies
    BY <2>4, <2>5 DEF Bodies
  <2>7. next = [l1 EXCEPT !.readsize = TRUE]
    BY <1>15, <2>2, <2>3 DEF BodyFields
  <2>8. next.trav = r /\ next.cur = r /\ next.data = s.data /\ next.readsize
    BY <1>15, <2>2 DEF BodyFields
  <2>9. s.data = b.data
    BY <1>7, <1>8 DEF BodyFields
  <2>10. r <= m
    BY <1>14, <2>1
  <2>11. QED
    BY <1>2, <2>6, <2>7, <2>8, <2>9, <2>10 DEF Aligned, Taken
<1>17. SaveChunkBody(b, b.trav) =
         IF ~(t + 1 < m) THEN Turn(s, t, "break")
         ELSE IF SubSeq(b.data, t + 1, t + 2) = Crlf THEN Turn(next, r, "go")
         ELSE Turn(f, t, "error")
  <2>1. Min({Len(b.data) - b.trav, b.size}) = n
    BY <1>2, <1>3, <1>4
  <2>2. PICK trav : trav = b.trav
    OBVIOUS
  <2>3. trav + n = t /\ trav + n + 2 = r
    BY <1>2, <1>5, <1>14, <2>2
  <2>4. s = [b EXCEPT !.file = @ \o SubSeq(b.data, trav + 1, t), !.trav = t, !.size = @ - n]
    BY <1>2, <1>5, <1>6, <1>7, <2>2
  <2>5. QED
    BY <1>2, <1>11, <1>12, <1>14, <1>15, <2>1, <2>2, <2>3, <2>4 DEF SaveChunkBody, HasEnd
<1>18. PICK go \in Flows, break \in Flows, error \in Flows :
         go = "go" /\ break = "break" /\ error = "error"
  BY DEF Flows
<1>19. Limited(Turn(s, t, break)) \in TurnSet
  BY <1>9, <1>10, LimitTyped
<1>20. Limited(Turn(f, t, error)) \in TurnSet
  BY <1>13, <1>18, LimitTyped
<1>21. t + 1 < m => Limited(Turn(next, r, go)) \in TurnSet
  BY <1>16, LimitTyped
<1>22. QED
  BY <1>17, <1>18, <1>19, <1>20, <1>21

LEMMA TakeTurnTyped ==
  ASSUME NEW x \in TurnSet
  PROVE  TakeTurn(x) \in TurnSet
<1>1. CASE Stops(x)
  BY <1>1 DEF TakeTurn, Stops
<1>2. CASE ~Stops(x)
  <2>1. PICK b \in Bodies : b = x.b /\ Aligned(b)
    BY DEF TurnSet
  <2>2. x.flow = "go" /\ b.state # "SECOND_CRLF" /\ ~(b.trav >= Len(b.data))
    BY <1>2, <2>1 DEF Stops
  <2>3. x.removed = Taken(b)
    BY <2>1, <2>2 DEF TurnSet, Settled
  <2>4. b.trav < Len(b.data)
    <3>1. b.trav \in Nat /\ Len(b.data) \in Nat
      BY DEF Bodies
    <3>2. QED
      BY <2>2, <3>1
  <2>5. TakeTurn(x)
          = Limited(IF b.readsize THEN ReadSizeChunk(b, Taken(b)) ELSE SaveChunkBody(b, Taken(b)))
    BY <2>1, <2>2, <2>3 DEF TakeTurn
  <2>6. CASE b.readsize
    <3>1. TakeTurn(x) = Limited(ReadSizeChunk(b, b.cur))
      BY <2>5, <2>6 DEF Taken
    <3>2. QED
      BY <2>1, <2>4, <2>6, <3>1, SizeTyped
  <2>7. CASE ~b.readsize
    <3>1. TakeTurn(x) = Limited(SaveChunkBody(b, b.trav))
      BY <2>5, <2>7 DEF Taken
    <3>2. QED
      BY <2>1, <2>7, <3>1, DataTyped
  <2>8. QED
    BY <2>6, <2>7
<1>3. QED
  BY <1>1, <1>2

\* A body that begins a read.
Rested(b) == b \in Bodies /\ Aligned(b) /\ (b.state = "SECOND_CRLF" \/ Taken(b) = 0)

LEMMA TurnsAre ==
  ASSUME NEW b, Rested(b)
  PROVE  LET h == Turns(b)
         IN /\ h \in [0 .. Len(b.data) -> TurnSet] /\ h[0] = Turn(b, 0, "go")
            /\ \A k \in 1 .. Len(b.data) : h[k] = TakeTurn(h[k - 1])
<1> DEFINE N == Len(b.data)
           x0 == Turn(b, 0, "go")
           g == [i \in 1 .. N |-> [x \in TurnSet |-> TakeTurn(x)]]
           F(f) == [i \in 0 .. N |-> IF i = 0 THEN x0 ELSE TakeTurn(f[i - 1])]
           h == Turns(b)
<1>1. N \in Nat /\ x0 \in TurnSet
  <2>1. b \in Bodies /\ Aligned(b) /\ (b.state = "SECOND_CRLF" \/ Taken(b) = 0)
    BY DEF Rested
  <2>2. N \in Nat
    BY <2>1 DEF Bodies
  <2>3. PICK go \in Flows : go = "go"
    BY DEF Flows
  <2>4. PICK z \in Nat : z = 0
    OBVIOUS
  <2>5. b.state = "SECOND_CRLF" \/ z = Taken(b)
    BY <2>1, <2>4
  <2>6. Turn(b, z, go) \in TurnSet
    BY <2>1, <2>5, TurnIn
  <2>7. QED
    BY <2>2, <2>3, <2>4, <2>6
<1>2. \A i \in 1 .. N : \A x \in TurnSet : TakeTurn(x) \in TurnSet
  BY TakeTurnTyped
<1>3. g \in [1 .. N -> [TurnSet -> TurnSet]]
  BY <1>2
<1>4. \A i \in 1 .. N : \A x \in TurnSet : g[i][x] = TakeTurn(x)
  OBVIOUS
<1>5. h = CHOOSE f : f = F(f)
  BY DEF Turns
<1> HIDE DEF N, x0, g, h
<1>6. PICK f \in [0 .. N -> TurnSet] : Iterates(f, x0, g, N)
  BY <1>1, <1>3, IteratesExist
<1>7. \A i \in 1 .. N : i \in 0 .. N /\ i - 1 \in 0 .. N /\ i # 0
  BY <1>1
<1>8. f = F(f)
  <2>1. \A i \in 0 .. N : i = 0 \/ i \in 1 .. N
    BY <1>1
  <2>2. \A i \in 0 .. N : f[i] = F(f)[i]
    BY <1>4, <1>6, <1>7, <2>1 DEF Iterates
  <2>3. QED
    BY <2>2
<1> HIDE DEF F
<1>9. h = F(h)
  BY <1>5, <1>8
<1>10. /\ h = [i \in 0 .. N |-> h[i]] /\ h[0] = x0
       /\ \A i \in 1 .. N : h[i] = TakeTurn(h[i - 1])
  <2>1. \A i \in 0 .. N : h[i] = IF i = 0 THEN x0 ELSE TakeTurn(h[i - 1])
    BY <1>9 DEF F
  <2>2. h = [i \in 0 .. N |-> h[i]]
    BY <1>9 DEF F
  <2>3. 0 \in 0 .. N
    BY <1>1
  <2>4. QED
    BY <1>7, <2>1, <2>2, <2>3
<1> DEFINE T == {i \in 0 .. N : h[i] \in TurnSet}
<1>11. 0 \in T
  BY <1>1, <1>10
<1>12. ASSUME NEW i \in 1 .. N, i - 1 \in T PROVE i \in T
  BY <1>2, <1>7, <1>10, <1>12
<1> HIDE DEF T
<1>13. 0 .. N \subseteq T
  BY <1>1, <1>11, <1>12, NumbersUpTo
<1>14. h \in [0 .. N -> TurnSet]
  BY <1>10, <1>13 DEF T
<1>15. QED
  BY <1>10, <1>14 DEF N, x0, h

\* The turns of a read come to an end.
LEMMA TurnsFollow ==
  ASSUME NEW data \in Seq(Elements), Sized(data), NEW base \in Nat, NEW b, Rested(b),
         Reads(b, data, base) \/ Ends(b, data, base)
  PROVE  LET x == Turns(b)[Len(b.data)]
         IN x \in TurnSet /\ Follows(x, data, base) /\ x.b.data = b.data /\ Stops(x)
<1> DEFINE N == Len(b.data)
           h == Turns(b)
           Fine(k) == /\ Follows(h[k], data, base) /\ h[k].b.data = b.data
                      /\ Stops(h[k]) \/ h[k].b.trav >= k
           T == {k \in 0 .. N : Fine(k)}
<1>1. /\ h \in [0 .. N -> TurnSet] /\ h[0] = Turn(b, 0, "go")
      /\ \A k \in 1 .. N : h[k] = TakeTurn(h[k - 1])
  BY TurnsAre
<1> HIDE DEF h
<1>2. N \in Nat /\ b.trav \in Nat
  BY DEF Rested, Bodies
<1>3. 0 \in T
  <2>1. h[0].b = b /\ h[0].flow = "go" /\ h[0].removed = 0
    BY <1>1 DEF Turn
  <2>2. Follows(h[0], data, base)
    BY <2>1 DEF Rested, Follows, Reads
  <2>3. h[0].b.trav >= 0
    BY <1>2, <2>1
  <2>4. 0 \in 0 .. N
    BY <1>2
  <2>5. QED
    BY <2>1, <2>2, <2>3, <2>4
<1>4. ASSUME NEW k \in 1 .. N, k - 1 \in T PROVE k \in T
  <2>1. PICK x, y : x = h[k - 1] /\ y = h[k] /\ y = TakeTurn(x)
    BY <1>1
  <2>2. Follows(x, data, base) /\ x.b.data = b.data /\ (Stops(x) \/ x.b.trav >= k - 1)
    BY <1>4, <2>1
  <2>3. /\ Follows(y, data, base) /\ y.b.data = x.b.data
        /\ IF Stops(x) THEN y = x ELSE y.flow = "go" => x.b.trav < y.b.trav
    BY <2>1, <2>2, TurnFollows
  <2>4. x \in TurnSet /\ y \in TurnSet
    BY <1>1, <2>1
  <2>5. x.b.trav \in Nat /\ y.b.trav \in Nat
    BY <2>4 DEF TurnSet, Bodies
  <2>6. Stops(y) \/ y.b.trav >= k
    <3>1. CASE Stops(x)
      BY <2>3, <3>1
    <3>2. CASE ~Stops(x) /\ y.flow = "go"
      BY <2>2, <2>3, <2>5, <3>2
    <3>3. CASE y.flow # "go"
      BY <3>3 DEF Stops
    <3>4. QED
      BY <3>1, <3>2, <3>3
  <2>7. Fine(k)
    BY <2>1, <2>2, <2>3, <2>6
  <2>8. QED
    BY <2>7
<1> HIDE DEF T
<1>5. 0 .. N \subseteq T
  BY <1>2, <1>3, <1>4, NumbersUpTo
<1>6. N \in 0 .. N
  BY <1>2
<1>7. Fine(N)
  BY <1>5, <1>6 DEF T
<1>8. h[N] \in TurnSet
  BY <1>1, <1>6
<1>9. Stops(h[N])
  BY <1>7 DEF Stops
<1>10. QED
  BY <1>7, <1>8, <1>9 DEF h

\* What a read leaves for the next one.
Waits(b) ==
  IF b.state = "SECOND_CRLF" THEN Len(b.data) <= b.cur + 1
  ELSE IF b.readsize
    THEN b.trav = Len(b.data) \/ (b.trav + 1 = Len(b.data) /\ b.data[b.trav + 1] = "cr")
  ELSE Len(b.data) = 0 \/ (Len(b.data) = 1 /\ b.size = 0)
Awaits(b, data, base) ==
  Rested(b) /\ (Reads(b, data, base) \/ Ends(b, data, base)) /\ Waits(b)
Decides(b, data, n) ==
  LET k == Chunks(data)[n]
  IN \/ b.state = "DONE_GOOD" /\ k.at = "done" /\ b.status = 0 /\ b.file = k.file
     \/ Fails(b, data, n)

\* The data moves to the beginning of the buffer, and the limit with it.
Shifted(b, c, r, data, base) ==
  /\ r \in Nat /\ r <= Len(b.data)
  /\ Rested(c) /\ Reads(c, data, base + r) /\ Len(c.data) = Len(b.data) - r
  /\ c.state = "READING_BODY" /\ c.readsize = b.readsize /\ c.size = b.size
  /\ c.trav = b.trav - r /\ \A i \in 1 .. Len(b.data) - r : c.data[i] = b.data[r + i]

LEMMA ShiftFollows ==
  ASSUME NEW data \in Seq(Elements), NEW base \in Nat, NEW b, Reads(b, data, base),
         NEW r, r = Taken(b)
  PROVE  Shifted(b, Shift(b, r), r, data, base)
<1>1. Part(b, data, base) /\ b.state = "READING_BODY" /\ b.status = 0
      /\ b.left = MaxBodySize - base /\ b.file = Chunks(data)[base + b.trav].file
      /\ Within(b.data, data, base)
  BY DEF Reads, Part
<1>2. PICK t \in Nat, m \in Nat, cur \in Nat :
        /\ t = b.trav /\ m = Len(b.data) /\ t <= m /\ cur = b.cur /\ cur <= t
        /\ base + m <= Len(data) /\ Len(data) \in Nat /\ b \in Bodies
        /\ b.data \in Seq(Elements)
  BY <1>1, PartIs
<1>3. r \in Nat /\ r <= t /\ r = IF b.readsize THEN cur ELSE t
  BY <1>2 DEF Taken
<1>4. PICK rest \in Nat, u \in Nat : rest = m - r /\ u = t - r /\ u <= rest /\ r + u = t
                                     /\ r + rest = m
  <2>1. r \in Nat /\ r <= t /\ t <= m
    BY <1>2, <1>3
  <2>2. m - r \in Nat /\ t - r \in Nat /\ t - r <= m - r
    BY <2>1
  <2>3. r + (t - r) = t /\ r + (m - r) = m
    BY <2>1
  <2>4. QED
    BY <2>2, <2>3
<1>5. PICK s \in Seq(Elements) :
        s = SubSeq(b.data, r + 1, m) /\ Len(s) = rest /\ \A i \in 1 .. rest : s[i] = b.data[r + i]
  <2>1. m \in 0 .. Len(b.data) /\ r \in 0 .. m /\ b.data \in Seq(Elements)
    BY <1>2, <1>3
  <2>2. PICK s : s = SubSeq(b.data, r + 1, m)
    OBVIOUS
  <2>3. s \in Seq(Elements) /\ Len(s) = m - r /\ \A i \in 1 .. m - r : s[i] = b.data[r + i]
    BY <2>1, <2>2, SubSeqIs
  <2>4. m - r = rest
    BY <1>4
  <2>5. QED
    BY <2>2, <2>3, <2>4
<1>6. PICK left \in Int : left = b.left - r /\ left = MaxBodySize - (base + r)
  <2>1. MaxBodySize \in Nat
    BY ReadingAssumption
  <2>2. b.left - r \in Int /\ b.left - r = MaxBodySize - (base + r)
    BY <1>1, <1>3, <2>1
  <2>3. QED
    BY <2>2
<1>7. PICK z \in Nat : z = 0
  OBVIOUS
<1>8. PICK c : c = [b EXCEPT !.data = s, !.cur = z, !.trav = u, !.left = left]
  OBVIOUS
<1>9. Shift(b, r) = c
  BY <1>2, <1>4, <1>5, <1>6, <1>7, <1>8 DEF Shift
<1>10. DOMAIN b = BodyFields
  BY <1>2, BodyDomain
<1>11. c \in Bodies
  <2>1. PICK c1 : c1 = [b EXCEPT !.data = s, !.cur = z]
    OBVIOUS
  <2>2. c1 \in Bodies
    BY <1>2, <2>1 DEF Bodies
  <2>3. [c1 EXCEPT !.trav = u, !.left = left] \in Bodies
    BY <2>2 DEF Bodies
  <2>4. c = [c1 EXCEPT !.trav = u, !.left = left]
    BY <1>8, <1>10, <2>1 DEF BodyFields
  <2>5. QED
    BY <2>3, <2>4
<1>12. c.data = s /\ c.cur = 0 /\ c.trav = u /\ c.left = left
  BY <1>7, <1>8, <1>10 DEF BodyFields
<1>13. /\ c.state = b.state /\ c.readsize = b.readsize /\ c.size = b.size
       /\ c.file = b.file /\ c.status = b.status
  BY <1>8, <1>10 DEF BodyFields
<1>14. base + r + u = base + t /\ base + r + rest = base + m /\ base + r \in Nat
  BY <1>3, <1>4
<1>15. Aligned(c)
  BY <1>4, <1>5, <1>12 DEF Aligned
<1>16. Rested(c)
  <2>1. ~c.readsize => u = 0
    BY <1>3, <1>4, <1>13
  <2>2. Taken(c) = 0
    BY <1>12, <2>1 DEF Taken
  <2>3. QED
    BY <1>11, <1>15, <2>2 DEF Rested
<1>17. Within(c.data, data, base + r)
  <2>1. \A i \in 1 .. m : b.data[i] = data[base + i]
    BY <1>1, <1>2 DEF Within
  <2>2. ASSUME NEW i \in 1 .. rest PROVE s[i] = data[base + r + i]
    <3>1. r + i \in 1 .. m /\ base + (r + i) = base + r + i
      BY <1>3, <1>4
    <3>2. QED
      BY <1>5, <2>1, <3>1
  <2>3. QED
    BY <1>2, <1>5, <1>12, <1>14, <2>2 DEF Within
<1>18. Part(c, data, base + r)
  <2>1. c.file = Chunks(data)[base + r + c.trav].file
    BY <1>1, <1>2, <1>12, <1>13, <1>14
  <2>2. c.left = MaxBodySize - (base + r) /\ c.status = 0
    BY <1>1, <1>6, <1>12, <1>13
  <2>3. QED
    BY <1>11, <1>15, <1>17, <2>1, <2>2 DEF Part
<1>19. AtSize(b, data, base) => AtSize(c, data, base + r)
  <2>1. SUFFICES ASSUME AtSize(b, data, base) PROVE AtSize(c, data, base + r)
    OBVIOUS
  <2>2. PICK k : k = Chunks(data)[base + t]
    OBVIOUS
  <2>3. /\ b.readsize /\ k.at = "size" /\ ~Over(base + cur)
        /\ k.line = SubSeq(data, base + cur + 1, base + t)
    BY <1>2, <2>1, <2>2 DEF AtSize
  <2>4. r = cur
    BY <1>3, <2>3
  <2>5. base + r + 0 = base + r
    BY <1>14
  <2>6. QED
    BY <1>12, <1>13, <1>14, <2>2, <2>3, <2>4, <2>5 DEF AtSize
<1>20. AtData(b, data, base) => AtData(c, data, base + r)
  BY <1>2, <1>12, <1>13, <1>14 DEF AtData
<1>21. Reads(c, data, base + r)
  BY <1>1, <1>13, <1>18, <1>19, <1>20 DEF Reads
<1>22. r <= m /\ Len(c.data) = m - r /\ c.trav = t - r
  BY <1>2, <1>3, <1>4, <1>5, <1>12
<1>23. \A i \in 1 .. m - r : c.data[i] = b.data[r + i]
  BY <1>4, <1>5, <1>12
<1>24. QED
  BY <1>1, <1>2, <1>3, <1>9, <1>13, <1>16, <1>21, <1>22, <1>23 DEF Shifted

\* What a chunk has left when a read of it has been handled, or how it ends.
Handled(c, data, n) ==
  \/ Decides(c, data, n)
  \/ Len(c.data) <= n /\ Awaits(c, data, n - Len(c.data))

LEMMA ReadHandled ==
  ASSUME NEW data \in Seq(Elements), NEW base \in Nat, NEW b, Reads(b, data, base),
         Pending(b) \/ b.trav >= Len(b.data)
  PROVE  Handled(Shift(b, Taken(b)), data, base + Len(b.data))
<1>1. PICK r : r = Taken(b)
  OBVIOUS
<1>2. PICK c : c = Shift(b, r)
  OBVIOUS
<1>3. /\ r \in Nat /\ r <= Len(b.data)
      /\ Rested(c) /\ Reads(c, data, base + r) /\ Len(c.data) = Len(b.data) - r
      /\ c.state = "READING_BODY" /\ c.readsize = b.readsize /\ c.size = b.size
      /\ c.trav = b.trav - r /\ \A i \in 1 .. Len(b.data) - r : c.data[i] = b.data[r + i]
  <2>1. Shifted(b, Shift(b, r), r, data, base)
    BY <1>1, ShiftFollows
  <2>2. Shifted(b, c, r, data, base)
    BY <1>2, <2>1
  <2>3. QED
    BY <2>2 DEF Shifted
<1>4. PICK t \in Nat, m \in Nat : t = b.trav /\ m = Len(b.data) /\ t <= m
  <2>1. Part(b, data, base)
    BY DEF Reads
  <2>2. QED
    BY <2>1, PartIs
<1>5. Waits(c)
  <2>1. CASE b.readsize
    <3>1. CASE t + 1 = m /\ b.data[t + 1] = "cr"
      <4>1. PICK j \in Nat : j = (t - r) + 1 /\ j = m - r
        <5>1. r \in Nat /\ r <= t
          BY <1>1, <1>3, <2>1, <1>4, PartIs DEF Taken, Reads
        <5>2. (t - r) + 1 = m - r /\ m - r \in Nat
          BY <3>1, <5>1
        <5>3. QED
          BY <5>2
      <4>2. r + j = t + 1 /\ j \in 1 .. m - r
        <5>1. r \in Nat /\ r <= t
          BY <1>1, <1>3, <2>1, <1>4, PartIs DEF Taken, Reads
        <5>2. QED
          BY <3>1, <4>1, <5>1
      <4>3. c.data[j] = "cr" /\ c.trav + 1 = j /\ Len(c.data) = j
        BY <1>3, <1>4, <3>1, <4>1, <4>2
      <4>4. QED
        BY <1>3, <2>1, <4>3 DEF Waits
    <3>2. CASE t >= m
      <4>1. t - r = m - r
        BY <1>4, <3>2
      <4>2. QED
        BY <1>3, <1>4, <2>1, <4>1 DEF Waits
    <3>3. QED
      BY <1>4, <2>1, <3>1, <3>2 DEF Pending
  <2>2. CASE ~b.readsize
    <3>1. r = t
      BY <1>1, <1>4, <2>2 DEF Taken
    <3>2. t = m \/ (t + 1 = m /\ b.size = 0)
      BY <1>4, <2>2 DEF Pending
    <3>3. Len(c.data) = m - t
      BY <1>3, <1>4, <3>1
    <3>4. Len(c.data) = 0 \/ (Len(c.data) = 1 /\ c.size = 0)
      <4>1. PICK l : l = Len(c.data) /\ l = m - t
        BY <3>3
      <4>2. l = 0 \/ (l = 1 /\ b.size = 0)
        BY <1>4, <3>2, <4>1
      <4>3. c.size = b.size
        BY <1>3
      <4>4. QED
        BY <4>1, <4>2, <4>3
    <3>5. QED
      BY <1>3, <2>2, <3>4 DEF Waits
  <2>3. QED
    BY <2>1, <2>2
<1>6. PICK n \in Nat, l \in Nat : /\ n = base + m /\ l = m - r /\ l <= n /\ n - l = base + r
  <2>1. r \in Nat /\ r <= m
    BY <1>3, <1>4
  <2>2. base + m \in Nat /\ m - r \in Nat /\ m - r <= base + m /\ (base + m) - (m - r) = base + r
    BY <2>1
  <2>3. QED
    BY <2>2
<1>7. Len(c.data) = l /\ Awaits(c, data, n - l)
  BY <1>3, <1>4, <1>5, <1>6 DEF Awaits
<1>8. QED
  BY <1>1, <1>2, <1>4, <1>6, <1>7 DEF Handled

\* The end behind the last chunk.
LEMMA LastHandled ==
  ASSUME NEW data \in Seq(Elements), NEW base \in Nat, NEW b, Ends(b, data, base),
         NEW end, end = SubSeq(b.data, b.cur + 1, Min({b.cur + 2, Len(b.data)}))
  PROVE  Handled(IF Len(end) < 2 THEN b
                 ELSE IF end = Crlf THEN [b EXCEPT !.state = "DONE_GOOD"]
                 ELSE FailBody(b, 400), data, base + Len(b.data))
<1>1. /\ Part(b, data, base) /\ b.state = "SECOND_CRLF" /\ b.cur = b.trav
      /\ Chunks(data)[base + b.trav].at = "last" /\ b.status = 0
      /\ b.file = Chunks(data)[base + b.trav].file
  BY DEF Ends, Part
<1>2. PICK t \in Nat, m \in Nat, n \in Nat :
        /\ t = b.cur /\ t = b.trav /\ m = Len(b.data) /\ t <= m /\ n = base + m
        /\ b.data \in Seq(Elements) /\ n <= Len(data) /\ Len(data) \in Nat /\ b \in Bodies
  BY <1>1, PartIs
<1>3. PICK w \in Nat : w = Min({t + 2, m}) /\ w <= m /\ w <= t + 2 /\ w \in {t + 2, m}
  <2>1. {t + 2, m} \subseteq Nat /\ {t + 2, m} # {}
    OBVIOUS
  <2>2. Min({t + 2, m}) \in {t + 2, m} /\ \A y \in {t + 2, m} : Min({t + 2, m}) <= y
    BY <2>1, SmallestIs
  <2>3. QED
    BY <2>2
<1>4. /\ end \in Seq(Elements) /\ Len(end) = w - t /\ \A i \in 1 .. w - t : end[i] = b.data[t + i]
  <2>1. w \in 0 .. Len(b.data) /\ t \in 0 .. w
    BY <1>2, <1>3
  <2>2. end = SubSeq(b.data, t + 1, w)
    BY <1>2, <1>3
  <2>3. PICK s : s = SubSeq(b.data, t + 1, w)
    OBVIOUS
  <2>4. s \in Seq(Elements) /\ Len(s) = w - t /\ \A i \in 1 .. w - t : s[i] = b.data[t + i]
    BY <1>2, <2>1, <2>3, SubSeqIs
  <2>5. QED
    BY <2>2, <2>3, <2>4
<1>5. CASE Len(end) < 2
  <2>1. m <= t + 1
    <3>1. w - t < 2 /\ w \in {t + 2, m}
      BY <1>3, <1>4, <1>5
    <3>2. QED
      BY <3>1
  <2>2. Rested(b)
    BY <1>1 DEF Rested, Part
  <2>3. Waits(b)
    BY <1>1, <1>2, <2>1 DEF Waits
  <2>4. m <= n /\ n - m = base
    BY <1>2
  <2>5. Handled(b, data, n)
    BY <1>2, <2>2, <2>3, <2>4 DEF Handled, Awaits
  <2>6. QED
    BY <1>2, <1>5, <2>5
<1>6. CASE ~(Len(end) < 2)
  <2>1. w = t + 2 /\ t + 2 <= m
    <3>1. ~(w - t < 2) /\ w <= m /\ w <= t + 2
      BY <1>3, <1>4, <1>6
    <3>2. QED
      BY <3>1
  <2>2. PICK i1 \in Nat, i2 \in Nat : i1 = t + 1 /\ i2 = i1 + 1 /\ i2 = t + 2
    OBVIOUS
  <2>3. PICK e1, e2 : e1 = b.data[i1] /\ e2 = b.data[i2]
    OBVIOUS
  <2>4. Len(end) = 2 /\ end[1] = e1 /\ end[2] = e2
    <3>1. w - t = 2
      BY <2>1
    <3>2. 1 \in 1 .. w - t /\ 2 \in 1 .. w - t
      BY <3>1
    <3>3. QED
      BY <1>4, <2>2, <2>3, <3>1, <3>2
  <2>5. end = Crlf <=> e1 = "cr" /\ e2 = "lf"
    <3>1. "cr" \in Elements /\ "lf" \in Elements
      BY ReadingAssumption DEF Words
    <3>2. /\ end \in Seq(Elements) /\ Crlf \in Seq(Elements)
          /\ Len(Crlf) = 2 /\ Crlf[1] = "cr" /\ Crlf[2] = "lf"
      <4>1. end \in Seq(Elements)
        BY <1>4
      <4>2. Crlf \in Seq(Elements)
        BY <3>1 DEF Crlf
      <4>3. Len(Crlf) = 2 /\ Crlf[1] = "cr" /\ Crlf[2] = "lf"
        BY DEF Crlf
      <4>4. QED
        BY <4>1, <4>2, <4>3
    <3>3. end = Crlf => e1 = "cr" /\ e2 = "lf"
      BY <2>4, <3>2
    <3>4. ASSUME e1 = "cr", e2 = "lf" PROVE end = Crlf
      <4>1. \A i \in 1 .. Len(end) : i = 1 \/ i = 2
        <5>1. \A i \in 1 .. 2 : i = 1 \/ i = 2
          OBVIOUS
        <5>2. QED
          BY <2>4, <5>1
      <4>2. \A i \in 1 .. Len(end) : end[i] = Crlf[i]
        BY <2>4, <3>2, <3>4, <4>1
      <4>3. Len(end) = Len(Crlf)
        BY <2>4, <3>2
      <4>4. QED
        BY <3>2, <4>2, <4>3, SeqEqual
    <3>5. QED
      BY <3>3, <3>4
  <2>6. PICK k \in ChunkStates : k = Chunks(data)[base + t] /\ k.at = "last" /\ k.file = b.file
    <3>1. t \in 0 .. Len(b.data)
      BY <1>2
    <3>2. Chunks(data)[base + t] \in ChunkStates
      BY <1>1, <3>1, PartIs
    <3>3. QED
      BY <1>1, <1>2, <3>2
  <2>7. PICK l, q : l = Chunks(data)[base + i1] /\ q = Chunks(data)[base + i2]
    OBVIOUS
  <2>8. l = ReadOn(k, e1, base + i1) /\ q = ReadOn(l, e2, base + i2)
    <3>1. t < Len(b.data) /\ i1 < Len(b.data)
      BY <1>2, <2>1, <2>2
    <3>2. Chunks(data)[base + i1] = ReadOn(Chunks(data)[base + t], b.data[i1], base + i1)
      BY <1>1, <2>2, <3>1, PartReads
    <3>3. Chunks(data)[base + i2] = ReadOn(Chunks(data)[base + i1], b.data[i2], base + i2)
      BY <1>1, <2>2, <3>1, PartReads
    <3>4. QED
      BY <2>3, <2>6, <2>7, <3>2, <3>3
  <2>9. l \in ChunkStates /\ base + i2 \in 0 .. Len(data) /\ n \in base + i2 .. Len(data)
    <3>1. i1 \in 0 .. Len(b.data)
      BY <1>2, <2>1, <2>2
    <3>2. Chunks(data)[base + i1] \in ChunkStates
      BY <1>1, <3>1, PartIs
    <3>3. PICK N \in Nat : N = Len(data)
      BY <1>2
    <3>4. n = base + m /\ n <= N
      BY <1>2, <3>3
    <3>5. i2 <= m
      BY <2>1, <2>2
    <3>6. base + i2 \in 0 .. N /\ n \in base + i2 .. N
      BY <3>4, <3>5
    <3>7. QED
      BY <2>7, <3>2, <3>3, <3>6
  <2>10. l.at = "lastEnd" /\ l.cr = (e1 = "cr") /\ l.file = k.file
    <3>1. PICK cr : cr = (e1 = "cr")
      OBVIOUS
    <3>2. l = [k EXCEPT !.at = "lastEnd", !.cr = cr]
      BY <2>6, <2>8, <3>1 DEF ReadOn
    <3>3. QED
      BY <3>1, <3>2, ChunkDomain
  <2>11. q = IF l.cr /\ e2 = "lf" THEN [l EXCEPT !.at = "done"] ELSE Refused(l, 400)
    BY <2>8, <2>10 DEF ReadOn
  <2>12. CASE end = Crlf
    <3>1. q.at = "done" /\ q.file = k.file
      <4>1. l.cr /\ e2 = "lf"
        BY <2>5, <2>10, <2>12
      <4>2. q = [l EXCEPT !.at = "done"]
        BY <2>11, <4>1
      <4>3. QED
        BY <2>9, <2>10, <4>2, ChunkDomain
    <3>2. Chunks(data)[n] = q
      BY <2>7, <2>9, <3>1, ChunksEnd
    <3>3. PICK c : c = [b EXCEPT !.state = "DONE_GOOD"]
      OBVIOUS
    <3>4. c.state = "DONE_GOOD" /\ c.status = 0 /\ c.file = k.file
      BY <1>1, <1>2, <2>6, <3>3, BodyDomain DEF BodyFields
    <3>5. Decides(c, data, n)
      BY <3>1, <3>2, <3>4 DEF Decides
    <3>6. QED
      BY <1>2, <1>6, <2>12, <3>3, <3>5 DEF Handled
  <2>13. CASE end # Crlf
    <3>1. PICK code \in BodyCodes : code = 400 /\ code # 0
      BY DEF BodyCodes
    <3>2. q = Refused(l, code)
      <4>1. ~(l.cr /\ e2 = "lf")
        BY <2>5, <2>10, <2>13
      <4>2. QED
        BY <2>11, <3>1, <4>1
    <3>3. q.at = "refused" /\ q.status = code
      BY <2>9, <3>2, ChunkDomain DEF Refused
    <3>4. Chunks(data)[n] = q
      BY <2>7, <2>9, <3>3, ChunksEnd
    <3>5. PICK c : c = FailBody(b, code)
      OBVIOUS
    <3>6. c \in Bodies /\ c.state = "DONE_WIHTERROR" /\ c.status = code
      BY <1>2, <3>5, FailedBody
    <3>7. Decides(c, data, n)
      BY <3>1, <3>3, <3>4, <3>6 DEF Decides, Fails
    <3>8. QED
      BY <1>2, <1>6, <2>13, <3>1, <3>5, <3>7 DEF Handled
  <2>14. QED
    BY <2>12, <2>13
<1>7. QED
  BY <1>5, <1>6

\* A read of a body is handled as its chunks say.
LEMMA ChunkHandled ==
  ASSUME NEW data \in Seq(Elements), Sized(data), NEW base \in Nat, NEW b, Rested(b),
         Reads(b, data, base) \/ Ends(b, data, base)
  PROVE  Handled(HandleChunk(b), data, base + Len(b.data))
<1>1. PICK x : x = Turns(b)[Len(b.data)]
  OBVIOUS
<1>2. x \in TurnSet /\ Follows(x, data, base) /\ x.b.data = b.data /\ Stops(x)
  BY <1>1, TurnsFollow
<1>3. PICK n : n = base + Len(b.data)
  OBVIOUS
<1>4. PICK end : end = SubSeq(x.b.data, x.b.cur + 1, Min({x.b.cur + 2, Len(x.b.data)}))
  OBVIOUS
<1>5. HandleChunk(b) =
        IF x.flow = "error" THEN x.b
        ELSE IF x.b.state # "SECOND_CRLF" THEN Shift(x.b, x.removed)
        ELSE IF Len(end) < 2 THEN x.b
        ELSE IF end = Crlf THEN [x.b EXCEPT !.state = "DONE_GOOD"]
        ELSE FailBody(x.b, 400)
  BY <1>1, <1>4 DEF HandleChunk
<1>6. CASE x.flow = "error"
  <2>1. Fails(x.b, data, n)
    BY <1>2, <1>3, <1>6 DEF Follows
  <2>2. QED
    BY <1>3, <1>5, <1>6, <2>1 DEF Handled, Decides
<1>7. CASE x.flow # "error" /\ Ends(x.b, data, base)
  <2>1. x.b.state = "SECOND_CRLF"
    BY <1>7 DEF Ends
  <2>2. PICK c : c = IF Len(end) < 2 THEN x.b
                     ELSE IF end = Crlf THEN [x.b EXCEPT !.state = "DONE_GOOD"]
                     ELSE FailBody(x.b, 400)
    OBVIOUS
  <2>3. Handled(c, data, base + Len(x.b.data))
    BY <1>4, <1>7, <2>2, LastHandled
  <2>4. QED
    BY <1>2, <1>5, <1>7, <2>1, <2>2, <2>3
<1>8. CASE x.flow # "error" /\ Reads(x.b, data, base)
  <2>1. x.b.state = "READING_BODY"
    BY <1>8 DEF Reads
  <2>2. x.removed = Taken(x.b) /\ (x.flow = "go" \/ Pending(x.b))
    BY <1>2, <1>8, <2>1 DEF Follows, Ends
  <2>3. Pending(x.b) \/ x.b.trav >= Len(x.b.data)
    BY <1>2, <2>1, <2>2 DEF Stops
  <2>4. Handled(Shift(x.b, Taken(x.b)), data, base + Len(x.b.data))
    BY <1>8, <2>3, ReadHandled
  <2>5. HandleChunk(b) = Shift(x.b, Taken(x.b))
    BY <1>5, <1>8, <2>1, <2>2
  <2>6. QED
    BY <1>2, <2>4, <2>5
<1>9. QED
  BY <1>2, <1>6, <1>7, <1>8 DEF Follows

\* A body that waits is not the end of its chunks.
LEMMA AwaitsOpen ==
  ASSUME NEW data \in Seq(Elements), NEW base \in Nat, NEW b, Awaits(b, data, base)
  PROVE  /\ b.state \in {"READING_BODY", "SECOND_CRLF"}
         /\ base + Len(b.data) \in 0 .. Len(data)
         /\ Chunks(data)[base + Len(b.data)].at \notin {"done", "refused"}
<1>1. Part(b, data, base) /\ Rested(b) /\ Waits(b)
  BY DEF Awaits, Reads, Ends
<1>2. PICK t \in Nat, m \in Nat :
        /\ t = b.trav /\ m = Len(b.data) /\ t <= m /\ base + m <= Len(data)
        /\ Len(data) \in Nat /\ t \in 0 .. Len(b.data)
  BY <1>1, PartIs
<1>3. PICK k \in ChunkStates : k = Chunks(data)[base + t]
  BY <1>1, <1>2, PartIs
<1>4. PICK l : l = Chunks(data)[base + m]
  OBVIOUS
<1>5. t = m => l = k
  BY <1>3, <1>4
<1>6. t + 1 = m => l = ReadOn(k, b.data[m], base + m)
  <2>1. SUFFICES ASSUME t + 1 = m PROVE l = ReadOn(k, b.data[m], base + m)
    OBVIOUS
  <2>2. m = t + 1 /\ t < Len(b.data)
    BY <1>2, <2>1
  <2>3. Chunks(data)[base + m] = ReadOn(Chunks(data)[base + t], b.data[m], base + m)
    BY <1>1, <2>2, PartReads
  <2>4. QED
    BY <1>3, <1>4, <2>3
<1>7. PICK e : e = b.data[m]
  OBVIOUS
<1>8. CASE Reads(b, data, base) /\ AtSize(b, data, base)
  <2>1. k.at = "size" /\ b.readsize /\ b.state = "READING_BODY"
    BY <1>2, <1>3, <1>8 DEF AtSize, Reads
  <2>2. t = m \/ (t + 1 = m /\ b.data[t + 1] = "cr")
    BY <1>1, <1>2, <2>1 DEF Waits
  <2>3. t + 1 = m /\ e = "cr" => l.at = "sizeEnd"
    <3>1. SUFFICES ASSUME t + 1 = m, e = "cr" PROVE l.at = "sizeEnd"
      OBVIOUS
    <3>2. l = [k EXCEPT !.at = "sizeEnd"]
      BY <1>6, <1>7, <2>1, <3>1 DEF ReadOn
    <3>3. QED
      BY <3>2, ChunkDomain
  <2>4. l.at \in {"size", "sizeEnd"}
    BY <1>5, <1>7, <2>1, <2>2, <2>3
  <2>5. QED
    BY <1>2, <1>4, <2>1, <2>4
<1>9. CASE Reads(b, data, base) /\ AtData(b, data, base)
  <2>1. k.at = "data" /\ ~b.readsize /\ k.left = b.size /\ b.state = "READING_BODY"
    BY <1>2, <1>3, <1>9 DEF AtData, Reads
  <2>2. t = 0
    BY <1>1, <1>2, <2>1 DEF Rested, Taken
  <2>3. m = 0 \/ (m = 1 /\ b.size = 0)
    BY <1>1, <1>2, <2>1 DEF Waits
  <2>4. m = 1 /\ b.size = 0 => l.at = "end"
    <3>1. SUFFICES ASSUME m = 1, b.size = 0 PROVE l.at = "end"
      OBVIOUS
    <3>2. t + 1 = m
      BY <2>2, <3>1
    <3>3. PICK cr : cr = (e = "cr")
      OBVIOUS
    <3>4. k.left = 0
      BY <2>1, <3>1
    <3>5. l = [k EXCEPT !.at = "end", !.cr = cr]
      BY <1>6, <1>7, <2>1, <3>2, <3>3, <3>4 DEF ReadOn
    <3>6. QED
      BY <3>5, ChunkDomain
  <2>5. l.at \in {"data", "end"}
    BY <1>5, <2>1, <2>2, <2>3, <2>4
  <2>6. QED
    BY <1>2, <1>4, <2>1, <2>5
<1>10. CASE Ends(b, data, base)
  <2>1. k.at = "last" /\ b.state = "SECOND_CRLF" /\ b.cur = t
    BY <1>2, <1>3, <1>10 DEF Ends
  <2>2. m <= t + 1
    BY <1>1, <1>2, <2>1 DEF Waits
  <2>3. t = m \/ t + 1 = m
    BY <1>2, <2>2
  <2>4. t + 1 = m => l.at = "lastEnd"
    <3>1. SUFFICES ASSUME t + 1 = m PROVE l.at = "lastEnd"
      OBVIOUS
    <3>2. PICK cr : cr = (e = "cr")
      OBVIOUS
    <3>3. l = [k EXCEPT !.at = "lastEnd", !.cr = cr]
      BY <1>6, <1>7, <2>1, <3>1, <3>2 DEF ReadOn
    <3>4. QED
      BY <3>3, ChunkDomain
  <2>5. l.at \in {"last", "lastEnd"}
    BY <1>5, <2>1, <2>3, <2>4
  <2>6. QED
    BY <1>2, <1>4, <2>1, <2>5
<1>11. QED
  BY <1>8, <1>9, <1>10 DEF Awaits, Reads

\* What the next read adds to the buffer.
Grown(b, piece) == [b EXCEPT !.data = @ \o piece]

LEMMA MoreData ==
  ASSUME NEW data \in Seq(Elements), NEW base \in Nat, NEW b, Awaits(b, data, base),
         NEW piece \in Seq(Elements), Within(piece, data, base + Len(b.data)),
         NEW c, c = Grown(b, piece)
  PROVE  /\ Rested(c) /\ (Reads(c, data, base) \/ Ends(c, data, base))
         /\ Len(c.data) = Len(b.data) + Len(piece)
<1>1. Part(b, data, base) /\ Rested(b)
  BY DEF Awaits, Reads, Ends
<1>2. PICK t \in Nat, m \in Nat, l \in Nat, cur \in Nat :
        /\ t = b.trav /\ m = Len(b.data) /\ t <= m /\ base + m <= Len(data)
        /\ l = Len(piece) /\ b.data \in Seq(Elements) /\ cur = b.cur /\ cur <= t
        /\ b \in Bodies /\ Len(data) \in Nat
  <2>1. Len(piece) \in Nat
    OBVIOUS
  <2>2. QED
    BY <1>1, <2>1, PartIs
<1>3. PICK s : s = b.data \o piece
  OBVIOUS
<1>4. /\ s \in Seq(Elements) /\ Len(s) = m + l
      /\ \A i \in 1 .. m + l : s[i] = IF i <= m THEN b.data[i] ELSE piece[i - m]
  BY <1>2, <1>3
<1>5. DOMAIN b = BodyFields
  BY <1>2, BodyDomain
<1>6. c = [b EXCEPT !.data = s]
  BY <1>3, <1>5 DEF Grown
<1>7. /\ c.data = s /\ c.state = b.state /\ c.readsize = b.readsize /\ c.cur = b.cur
      /\ c.trav = b.trav /\ c.size = b.size /\ c.left = b.left /\ c.file = b.file
      /\ c.status = b.status /\ c \in Bodies
  <2>1. c \in Bodies
    BY <1>2, <1>4, <1>6 DEF Bodies
  <2>2. QED
    BY <1>5, <1>6, <2>1 DEF BodyFields
<1>8. Aligned(c)
  BY <1>2, <1>4, <1>7 DEF Aligned
<1>9. Within(s, data, base)
  <2>1. \A i \in 1 .. m : b.data[i] = data[base + i]
    BY <1>1, <1>2 DEF Part, Within
  <2>2. /\ (base + m) + l <= Len(data)
        /\ \A i \in 1 .. l : piece[i] = data[(base + m) + i]
    BY <1>2 DEF Within
  <2>3. ASSUME NEW i \in 1 .. m + l PROVE s[i] = data[base + i]
    <3>1. CASE i <= m
      <4>1. s[i] = b.data[i]
        BY <1>4, <3>1
      <4>2. i \in 1 .. m
        BY <3>1
      <4>3. QED
        BY <2>1, <4>1, <4>2
    <3>2. CASE ~(i <= m)
      <4>1. PICK j \in 1 .. l : j = i - m
        <5>1. i - m \in 1 .. l
          BY <3>2
        <5>2. QED
          BY <5>1
      <4>2. (base + m) + j = base + i
        BY <4>1
      <4>3. s[i] = piece[j]
        BY <1>4, <3>2, <4>1
      <4>4. QED
        BY <2>2, <4>2, <4>3
    <3>3. QED
      BY <3>1, <3>2
  <2>4. base + (m + l) <= Len(data)
    BY <1>2, <2>2
  <2>5. QED
    BY <1>4, <2>3, <2>4 DEF Within
<1>10. Part(c, data, base)
  BY <1>1, <1>7, <1>8, <1>9 DEF Part
<1>11. Rested(c)
  BY <1>1, <1>7, <1>8 DEF Rested, Taken
<1>12. Reads(b, data, base) => Reads(c, data, base)
  BY <1>7, <1>10 DEF Reads, AtSize, AtData
<1>13. Ends(b, data, base) => Ends(c, data, base)
  BY <1>7, <1>10 DEF Ends
<1>14. Reads(b, data, base) \/ Ends(b, data, base)
  BY DEF Awaits
<1>15. QED
  BY <1>2, <1>4, <1>7, <1>11, <1>12, <1>13, <1>14

\* A body begins at its first size line.
LEMMA BodyBegins ==
  ASSUME NEW data \in Seq(Elements), NEW len \in 0 .. Len(data),
         NEW b, b = [NewBody EXCEPT !.state = "READING_BODY", !.data = SubSeq(data, 1, len)]
  PROVE  Rested(b) /\ Reads(b, data, 0) /\ Len(b.data) = len
<1>1. PICK s : s = SubSeq(data, 1, len)
  OBVIOUS
<1>2. s \in Seq(Elements) /\ Len(s) = len /\ \A i \in 1 .. len : s[i] = data[i]
  <2>1. PICK z \in 0 .. len : z = 0
    OBVIOUS
  <2>2. /\ SubSeq(data, z + 1, len) \in Seq(Elements) /\ Len(SubSeq(data, z + 1, len)) = len - z
        /\ \A i \in 1 .. len - z : SubSeq(data, z + 1, len)[i] = data[z + i]
    BY <2>1, SubSeqIs
  <2>3. z + 1 = 1 /\ len - z = len /\ \A i \in 1 .. len : z + i = i
    BY <2>1
  <2>4. QED
    BY <1>1, <2>2, <2>3
<1>3. PICK code \in BodyCodes, state \in BodyStates, left \in Int :
        code = 0 /\ state = "READING_BODY" /\ left = MaxBodySize
  <2>1. MaxBodySize \in Int /\ 0 \in BodyCodes /\ "READING_BODY" \in BodyStates
    BY ReadingAssumption DEF BodyCodes, BodyStates
  <2>2. QED
    BY <2>1
<1>4. PICK zero \in Nat, file \in Seq(Elements), yes \in BOOLEAN :
        zero = 0 /\ file = <<>> /\ yes
  <2>1. 0 \in Nat /\ <<>> \in Seq(Elements)
    OBVIOUS
  <2>2. \E yes \in BOOLEAN : yes
    OBVIOUS
  <2>3. QED
    BY <2>1, <2>2, Zenon
<1>5. /\ b.state = "READING_BODY" /\ b.data = s /\ b.cur = 0 /\ b.trav = 0 /\ b.readsize
      /\ b.left = MaxBodySize /\ b.file = <<>> /\ b.status = 0 /\ b \in Bodies
  <2>1. b = [state |-> "READING_BODY", data |-> s, cur |-> 0, trav |-> 0, size |-> 0,
             readsize |-> TRUE, left |-> MaxBodySize, file |-> <<>>, status |-> 0]
    BY <1>1 DEF NewBody
  <2>2. yes = TRUE
    BY <1>4, Zenon
  <2>3. PICK c : c = [state |-> state, data |-> s, cur |-> zero, trav |-> zero, size |-> zero,
                      readsize |-> yes, left |-> left, file |-> file, status |-> code]
    OBVIOUS
  <2>4. b = c
    BY <1>3, <1>4, <2>1, <2>2, <2>3, Zenon
  <2>5. /\ c.state = state /\ c.data = s /\ c.cur = zero /\ c.trav = zero /\ c.readsize = yes
        /\ c.left = left /\ c.file = file /\ c.status = code
    BY <2>3, Zenon
  <2>6. c \in Bodies
    BY <1>2, <2>3 DEF Bodies
  <2>7. QED
    BY <1>3, <1>4, <2>4, <2>5, <2>6, Zenon
<1>6. Aligned(b)
  BY <1>2, <1>5 DEF Aligned
<1>7. Rested(b)
  BY <1>5, <1>6 DEF Rested, Taken
<1>8. PICK k : k = Chunks(data)[0]
  OBVIOUS
<1>9. k.at = "size" /\ k.line = <<>> /\ k.file = <<>>
  BY <1>8, ChunksAre DEF NewChunks
<1>10. Within(s, data, 0)
  <2>1. \A i \in 1 .. len : 0 + i = i
    OBVIOUS
  <2>2. 0 + len <= Len(data)
    OBVIOUS
  <2>3. QED
    BY <1>2, <2>1, <2>2 DEF Within
<1>11. 0 + b.trav = 0 /\ MaxBodySize - 0 = MaxBodySize
  BY <1>5, ReadingAssumption
<1>12. Part(b, data, 0)
  BY <1>5, <1>6, <1>8, <1>9, <1>10, <1>11 DEF Part
<1>13. ~Over(0)
  BY ReadingAssumption DEF Over
<1>14. SubSeq(data, 0 + 0 + 1, 0 + 0) = <<>>
  OBVIOUS
<1>15. AtSize(b, data, 0)
  BY <1>5, <1>8, <1>9, <1>11, <1>13, <1>14 DEF AtSize
<1>16. QED
  BY <1>2, <1>5, <1>7, <1>12, <1>15 DEF Reads

\* A body that is handled can be handled again, or is at its end: whatever it
\* holds.
LEMMA ShiftTyped ==
  ASSUME NEW b \in Bodies, Aligned(b), NEW r, r = Taken(b)
  PROVE  Rested(Shift(b, r)) /\ Shift(b, r) \in Bodies
<1>1. PICK t \in Nat, m \in Nat, cur \in Nat :
        t = b.trav /\ m = Len(b.data) /\ cur = b.cur /\ cur <= t /\ t <= m
  <2>1. b.trav \in Nat /\ Len(b.data) \in Nat /\ b.cur \in Nat
    BY DEF Bodies
  <2>2. QED
    BY <2>1 DEF Aligned
<1>2. r \in Nat /\ r <= t /\ (~b.readsize => r = t)
  BY <1>1 DEF Taken
<1>3. PICK u \in Nat : u = t - r /\ u <= m - r /\ (~b.readsize => u = 0)
  <2>1. t - r \in Nat /\ t - r <= m - r /\ (r = t => t - r = 0)
    BY <1>1, <1>2
  <2>2. QED
    BY <1>2, <2>1
<1>4. PICK s : s = SubSeq(b.data, r + 1, m)
  OBVIOUS
<1>5. s \in Seq(Elements) /\ Len(s) = m - r
  <2>1. m \in 0 .. Len(b.data) /\ r \in 0 .. m /\ b.data \in Seq(Elements)
    BY <1>1, <1>2 DEF Bodies
  <2>2. QED
    BY <1>4, <2>1, SubSeqIs
<1>6. PICK left \in Int : left = b.left - r
  <2>1. b.left \in Int
    BY DEF Bodies
  <2>2. b.left - r \in Int
    BY <1>2, <2>1
  <2>3. QED
    BY <2>2
<1>7. PICK z \in Nat : z = 0
  OBVIOUS
<1>8. PICK c : c = [b EXCEPT !.data = s, !.cur = z, !.trav = u, !.left = left]
  OBVIOUS
<1>9. Shift(b, r) = c
  BY <1>1, <1>3, <1>4, <1>6, <1>7, <1>8 DEF Shift
<1>10. DOMAIN b = BodyFields
  BY BodyDomain
<1>11. c \in Bodies
  <2>1. PICK d : d = [b EXCEPT !.data = s, !.cur = z]
    OBVIOUS
  <2>2. d \in Bodies
    BY <1>5, <2>1 DEF Bodies
  <2>3. [d EXCEPT !.trav = u, !.left = left] \in Bodies
    BY <2>2 DEF Bodies
  <2>4. c = [d EXCEPT !.trav = u, !.left = left]
    BY <1>8, <1>10, <2>1 DEF BodyFields
  <2>5. QED
    BY <2>3, <2>4
<1>12. c.data = s /\ c.cur = z /\ c.trav = u /\ c.readsize = b.readsize
  BY <1>8, <1>10 DEF BodyFields
<1>13. Aligned(c)
  <2>1. z <= u
    BY <1>7
  <2>2. QED
    BY <1>3, <1>5, <1>12, <2>1 DEF Aligned
<1>14. Taken(c) = 0
  BY <1>3, <1>7, <1>12 DEF Taken
<1>15. QED
  BY <1>9, <1>11, <1>13, <1>14 DEF Rested

Failed(x) == x.flow = "error" => x.b.state = "DONE_WIHTERROR"

LEMMA FailedTurn ==
  ASSUME NEW b, NEW code, NEW removed, "state" \in DOMAIN b
  PROVE  Failed(Turn(FailBody(b, code), removed, "error"))
<1>1. PICK d : d = [b EXCEPT !.state = "DONE_WIHTERROR"]
  OBVIOUS
<1>2. d.state = "DONE_WIHTERROR"
  BY <1>1
<1>3. FailBody(b, code).state = "DONE_WIHTERROR"
  BY DEF FailBody
<1>4. QED
  BY <1>3 DEF Failed, Turn

LEMMA FailedTurns ==
  ASSUME NEW x \in TurnSet, Failed(x)
  PROVE  Failed(TakeTurn(x))
<1>1. CASE Stops(x)
  BY <1>1 DEF TakeTurn, Stops
<1>2. CASE ~Stops(x)
  <2>1. PICK b \in Bodies : b = x.b
    BY DEF TurnSet
  <2>2. PICK r : r = x.removed
    OBVIOUS
  <2>3. "state" \in DOMAIN b
    BY BodyDomain DEF BodyFields
  <2>4. \A y : Failed(y) /\ "state" \in DOMAIN y.b => Failed(Limited(y))
    <3>1. SUFFICES ASSUME NEW y, Failed(y), "state" \in DOMAIN y.b PROVE Failed(Limited(y))
      OBVIOUS
    <3>2. Failed(Turn(FailBody(y.b, 413), y.removed, "error"))
      BY <3>1, FailedTurn
    <3>3. QED
      BY <3>1, <3>2 DEF Limited
  <2>5. Failed(ReadSizeChunk(b, r)) /\ "state" \in DOMAIN ReadSizeChunk(b, r).b
    <3>1. PICK size : size = Number(SubSeq(b.data, b.cur + 1, Len(b.data)))
      OBVIOUS
    <3>2. PICK t : t = b.trav
      OBVIOUS
    <3>3. PICK f : f = FailBody(b, 400)
      OBVIOUS
    <3>4. PICK next, line :
            /\ next = [b EXCEPT !.trav = t + 1]
            /\ line = [b EXCEPT !.trav = t + 2, !.cur = t + 2, !.size = size, !.readsize = FALSE,
                                !.state = IF size = 0 THEN "SECOND_CRLF" ELSE @]
      OBVIOUS
    <3>5. PICK cut : cut = r + t + 2 - b.cur
      OBVIOUS
    <3>6. ReadSizeChunk(b, r) \in
            {Turn(next, r, "go"), Turn(b, r, "break"), Turn(f, r, "error"), Turn(f, cut, "error"),
             Turn(line, cut, "go")}
      BY <3>1, <3>2, <3>3, <3>4, <3>5 DEF ReadSizeChunk
    <3>7. DOMAIN next = DOMAIN b /\ DOMAIN line = DOMAIN b /\ DOMAIN f = DOMAIN b
      BY <3>3, <3>4 DEF FailBody
    <3>8. Failed(Turn(f, r, "error")) /\ Failed(Turn(f, cut, "error"))
      BY <2>3, <3>3, FailedTurn
    <3>9. /\ Failed(Turn(next, r, "go")) /\ Failed(Turn(b, r, "break"))
          /\ Failed(Turn(line, cut, "go"))
      BY DEF Failed, Turn
    <3>10. \A y, n, flow : Turn(y, n, flow).b = y
      BY DEF Turn
    <3>11. QED
      BY <2>3, <3>6, <3>7, <3>8, <3>9, <3>10
  <2>6. Failed(SaveChunkBody(b, r)) /\ "state" \in DOMAIN SaveChunkBody(b, r).b
    <3>1. PICK n : n = Min({Len(b.data) - b.trav, b.size})
      OBVIOUS
    <3>2. PICK t : t = b.trav + n
      OBVIOUS
    <3>3. PICK saved, next, f :
            /\ saved = [b EXCEPT !.file = @ \o SubSeq(b.data, b.trav + 1, t), !.trav = t,
                                 !.size = @ - n]
            /\ next = [saved EXCEPT !.trav = t + 2, !.cur = t + 2, !.readsize = TRUE]
            /\ f = FailBody(saved, 400)
      OBVIOUS
    <3>4. PICK some, more : some = r + n /\ more = r + n + 2
      OBVIOUS
    <3>5. SaveChunkBody(b, r) \in
            {Turn(saved, some, "break"), Turn(next, more, "go"), Turn(f, some, "error")}
      BY <3>1, <3>2, <3>3, <3>4 DEF SaveChunkBody
    <3>6. DOMAIN saved = DOMAIN b /\ DOMAIN next = DOMAIN saved /\ DOMAIN f = DOMAIN saved
      BY <3>3 DEF FailBody
    <3>7. Failed(Turn(f, some, "error"))
      <4>1. f = FailBody(saved, 400)
        BY <3>3
      <4>2. "state" \in DOMAIN saved
        BY <2>3, <3>6
      <4>3. QED
        BY <4>1, <4>2, FailedTurn
    <3>8. Failed(Turn(saved, some, "break")) /\ Failed(Turn(next, more, "go"))
      BY DEF Failed, Turn
    <3>9. \A y, k, flow : Turn(y, k, flow).b = y
      BY DEF Turn
    <3>10. QED
      BY <2>3, <3>5, <3>6, <3>7, <3>8, <3>9
  <2>7. Failed(Limited(ReadSizeChunk(b, r))) /\ Failed(Limited(SaveChunkBody(b, r)))
    BY <2>4, <2>5, <2>6
  <2>8. TakeTurn(x) = Limited(IF b.readsize THEN ReadSizeChunk(b, r) ELSE SaveChunkBody(b, r))
    BY <1>2, <2>1, <2>2 DEF TakeTurn, Stops
  <2>9. QED
    BY <2>7, <2>8
<1>3. QED
  BY <1>1, <1>2

LEMMA HandleTyped ==
  ASSUME NEW b, Rested(b)
  PROVE  /\ HandleChunk(b) \in Bodies
         /\ HandleChunk(b).state \in {"DONE_GOOD", "DONE_WIHTERROR"} \/ Rested(HandleChunk(b))
<1> DEFINE N == Len(b.data)
           h == Turns(b)
           T == {k \in 0 .. N : Failed(h[k])}
<1>1. /\ h \in [0 .. N -> TurnSet] /\ h[0] = Turn(b, 0, "go")
      /\ \A k \in 1 .. N : h[k] = TakeTurn(h[k - 1])
  BY TurnsAre
<1> HIDE DEF h
<1>2. N \in Nat
  BY DEF Rested, Bodies
<1>3. 0 \in T
  BY <1>1, <1>2 DEF Failed, Turn
<1>4. ASSUME NEW k \in 1 .. N, k - 1 \in T PROVE k \in T
  <2>1. k - 1 \in 0 .. N /\ k \in 0 .. N
    OBVIOUS
  <2>2. Failed(h[k - 1]) /\ h[k - 1] \in TurnSet
    BY <1>1, <1>4, <2>1
  <2>3. QED
    BY <1>1, <2>1, <2>2, FailedTurns
<1> HIDE DEF T
<1>5. 0 .. N \subseteq T
  BY <1>2, <1>3, <1>4, NumbersUpTo
<1>6. PICK x \in TurnSet : x = h[N] /\ Failed(x)
  BY <1>1, <1>2, <1>5 DEF T
<1>7. PICK c \in Bodies : c = x.b /\ Aligned(c)
  BY DEF TurnSet
<1>8. PICK end : end = SubSeq(c.data, c.cur + 1, Min({c.cur + 2, Len(c.data)}))
  OBVIOUS
<1>9. HandleChunk(b) =
        IF x.flow = "error" THEN c
        ELSE IF c.state # "SECOND_CRLF" THEN Shift(c, x.removed)
        ELSE IF Len(end) < 2 THEN c
        ELSE IF end = Crlf THEN [c EXCEPT !.state = "DONE_GOOD"]
        ELSE FailBody(c, 400)
  BY <1>6, <1>7, <1>8 DEF HandleChunk, h
<1>10. CASE x.flow = "error"
  BY <1>6, <1>7, <1>9, <1>10 DEF Failed
<1>11. CASE x.flow # "error" /\ c.state # "SECOND_CRLF"
  <2>1. x.removed = Taken(c)
    BY <1>7, <1>11 DEF TurnSet, Settled
  <2>2. Rested(Shift(c, x.removed)) /\ Shift(c, x.removed) \in Bodies
    BY <1>7, <2>1, ShiftTyped
  <2>3. QED
    BY <1>9, <1>11, <2>2
<1>12. CASE x.flow # "error" /\ c.state = "SECOND_CRLF"
  <2>1. Rested(c)
    BY <1>7, <1>12 DEF Rested
  <2>2. PICK code \in BodyCodes : code = 400
    BY DEF BodyCodes
  <2>3. FailBody(c, code) \in Bodies /\ FailBody(c, code).state = "DONE_WIHTERROR"
    BY FailedBody
  <2>4. PICK good \in BodyStates : good = "DONE_GOOD"
    BY DEF BodyStates
  <2>5. PICK d : d = [c EXCEPT !.state = good]
    OBVIOUS
  <2>6. d \in Bodies /\ d.state = good
    BY <2>5 DEF Bodies
  <2>7. HandleChunk(b) \in {c, d, FailBody(c, code)}
    BY <1>9, <1>12, <2>2, <2>4, <2>5
  <2>8. QED
    BY <2>1, <2>3, <2>4, <2>6, <2>7
<1>13. QED
  BY <1>10, <1>11, <1>12

-----------------------------------------------------------------------------
(***************************************************************************)
(* How far a piece is read, of any request.                                *)
(***************************************************************************)
Fixed(p, q) == q.offset = p.offset

LEMMA EasyFixed ==
  ASSUME NEW p \in Parsers
  PROVE  /\ \A code : Fixed(p, Fail(p, code))
         /\ \A st : Fixed(p, Go(p, st))
         /\ \A e, word, next, code : Fixed(p, Word(p, e, word, next, code))
<1>1. ASSUME NEW code PROVE Fixed(p, Fail(p, code))
  BY DEF Fixed, Fail, Parsers
<1>2. ASSUME NEW st PROVE Fixed(p, Go(p, st))
  BY DEF Fixed, Go, Parsers
<1>3. Fixed(p, [p EXCEPT !.index = @ + 1])
  BY DEF Fixed, Parsers
<1>4. \A e, word, next, code : Fixed(p, Word(p, e, word, next, code))
  BY <1>1, <1>2, <1>3 DEF Word
<1>5. QED
  BY <1>1, <1>2, <1>4

LEMMA HostFixed ==
  ASSUME NEW p \in Parsers, NEW e \in Elements, NEW end \in BOOLEAN, NEW first \in BOOLEAN
  PROVE  Fixed(p, ParseHost(p, e, end)) /\ Fixed(p, ParsePort(p, e, end))
           /\ Fixed(p, ParseScheme(p, e, first))
<1>1. PICK path \in Parsers : path = Go(p, "PATH") /\ path.state \in PathStates
                                /\ Fixed(p, path) /\ path.status = p.status
  <2>1. "PATH" \in ParserStates /\ "PATH" \in PathStates
    BY DEF ParserStates, PathStates
  <2>2. Go(p, "PATH") \in Parsers
    BY <2>1, GoTyped
  <2>3. Go(p, "PATH").state = "PATH" /\ Go(p, "PATH").status = p.status
    BY DEF Go, Parsers
  <2>4. QED
    BY <2>1, <2>2, <2>3, EasyFixed
<1>2. Fixed(p, ParsePath(path, e))
  BY <1>1, PathMoves DEF Moves, Fixed
<1>3. ASSUME NEW q \in Parsers, Fixed(p, q) PROVE Fixed(p, FinishHost(q, e))
  <2>1. Fixed(q, Fail(q, 400)) /\ Fixed(q, Go(q, "PATH"))
    BY EasyFixed
  <2>2. Fixed(q, [Go(q, "PORT") EXCEPT !.digit = FALSE])
    BY DEF Fixed, Go, Parsers
  <2>3. Fixed(q, FinishHost(q, e))
    BY <2>1, <2>2 DEF FinishHost
  <2>4. QED
    BY <1>3, <2>3 DEF Fixed
<1>4. Fixed(p, ParseHost(p, e, end))
  <2>1. PICK host \in Seq(Elements) : host = Append(p.host, e)
    <3>1. p.host \in Seq(Elements)
      BY DEF Parsers
    <3>2. QED
      BY <3>1, AppendProperties
  <2>2. "HOST" \in ParserStates
    BY DEF ParserStates, HostStates
  <2>3. PICK more \in Parsers : more = [p EXCEPT !.host = host, !.state = "HOST"]
    BY <2>2 DEF Parsers
  <2>4. Fixed(p, more)
    BY <2>3 DEF Fixed, Parsers
  <2>5. PICK done \in Parsers : done = FinishHost(p, e)
    BY FinishTyped
  <2>6. Fixed(p, done) /\ Fixed(p, FinishHost(more, e))
    BY <1>3, <2>4, <2>5 DEF Fixed
  <2>7. ~(done.status # 0 \/ done.state = "PORT") => done.state \in PathStates
    <3>1. Fail(p, 400).status # 0
      BY DEF Fail, Parsers
    <3>2. [Go(p, "PORT") EXCEPT !.digit = FALSE].state = "PORT"
      BY DEF Go, Parsers
    <3>3. QED
      BY <1>1, <2>5, <3>1, <3>2 DEF FinishHost
  <2>8. ~(done.status # 0 \/ done.state = "PORT") => Fixed(p, ParsePath(done, e))
    BY <2>6, <2>7, PathMoves DEF Moves, Fixed
  <2>9. ParseHost(p, e, end) =
          IF e \in EndsHost
            THEN IF done.status # 0 \/ done.state = "PORT" THEN done ELSE ParsePath(done, e)
          ELSE IF end THEN FinishHost(more, e) ELSE more
    BY <2>1, <2>3, <2>5 DEF ParseHost
  <2>10. QED
    BY <2>4, <2>6, <2>8, <2>9
<1>5. Fixed(p, Fail(p, 400))
  BY EasyFixed
<1>6. Fixed(p, ParsePort(p, e, end))
  <2>1. Fixed(p, [p EXCEPT !.digit = TRUE])
    BY DEF Fixed, Parsers
  <2>2. QED
    BY <1>1, <1>2, <1>5, <2>1 DEF ParsePort
<1>7. Fixed(p, ParseScheme(p, e, first))
  <2>1. Fixed(p, [p EXCEPT !.index = 1, !.state = "SCHEMA"])
    BY DEF Fixed, Parsers
  <2>2. Fixed(p, Go(p, "AUTHORITY"))
    BY EasyFixed
  <2>3. QED
    BY <1>1, <1>2, <1>5, <2>1, <2>2 DEF ParseScheme
<1>8. QED
  BY <1>4, <1>6, <1>7

LEMMA LinesFixed ==
  ASSUME NEW p \in Parsers, NEW e \in Elements
  PROVE  /\ Fixed(p, ParseKey(p, e)) /\ Fixed(p, ParseValue(p, e))
         /\ Fixed(p, ParseLF(p, e)) /\ Fixed(p, ParseDecision(p, e))
<1>1. ASSUME NEW q \in Parsers PROVE Fixed(q, ParseKey(q, e))
  <2>1. PICK r \in Parsers : r = SelectHeaderSlot(q) /\ Fixed(q, r)
    <3>1. SelectHeaderSlot(q) \in Parsers
      BY SelectTyped
    <3>2. SelectHeaderSlot(q).offset = q.offset
      BY SelectMoves
    <3>3. QED
      BY <3>1, <3>2 DEF Fixed
  <2>2. Fixed(r, [Go(r, "VALUE") EXCEPT !.leading = TRUE, !.blanks = FALSE, !.val = <<>>])
    BY DEF Fixed, Go, Parsers
  <2>3. Fixed(q, [q EXCEPT !.key = Append(@, e)])
    BY DEF Fixed, Parsers
  <2>4. Fixed(q, Fail(q, 431)) /\ Fixed(q, Fail(q, 400))
    BY EasyFixed
  <2>5. Fixed(q, [Go(r, "VALUE") EXCEPT !.leading = TRUE, !.blanks = FALSE, !.val = <<>>])
    BY <2>1, <2>2 DEF Fixed
  <2>6. ParseKey(q, e) \in
          {Fail(q, 431), [Go(r, "VALUE") EXCEPT !.leading = TRUE, !.blanks = FALSE, !.val = <<>>],
           [q EXCEPT !.key = Append(@, e)], Fail(q, 400)}
    BY <2>1 DEF ParseKey
  <2>7. QED
    BY <2>3, <2>4, <2>5, <2>6
<1>2. Fixed(p, ParseValue(p, e))
  <2>1. PICK begun \in Parsers : begun = [p EXCEPT !.leading = FALSE]
    BY DEF Parsers
  <2>2. Fixed(p, begun)
    BY <2>1 DEF Fixed, Parsers
  <2>3. Fixed(p, [p EXCEPT !.blanks = TRUE]) /\ Fixed(p, Fail(p, 400))
    BY EasyFixed DEF Fixed, Parsers
  <2>4. Fixed(begun, [begun EXCEPT !.val = Append(@, e)])
    BY DEF Fixed, Parsers
  <2>5. Fixed(begun, Go(StoreValue(begun), "HEADER_LF"))
    <3>1. PICK v : v = IF begun.val = <<>> /\ begun.blanks THEN Wrapped ELSE Trim(begun.val)
      OBVIOUS
    <3>2. PICK fail, unknown, known :
            /\ fail = Fail(begun, 400)
            /\ unknown = [begun EXCEPT !.unknown[Len(begun.unknown)].val = v]
            /\ known = [begun EXCEPT !.known[begun.slot].val = v]
      OBVIOUS
    <3>3. StoreValue(begun) \in {fail, unknown, known}
      BY <3>1, <3>2 DEF StoreValue
    <3>4. /\ DOMAIN fail = DOMAIN begun /\ fail.offset = begun.offset
          /\ DOMAIN unknown = DOMAIN begun /\ unknown.offset = begun.offset
          /\ DOMAIN known = DOMAIN begun /\ known.offset = begun.offset
          /\ {"offset", "state", "index"} \subseteq DOMAIN begun
      BY <3>2 DEF Fail, Parsers
    <3>5. \A r : {"offset", "state", "index"} \subseteq DOMAIN r => Go(r, "HEADER_LF").offset = r.offset
      BY DEF Go
    <3>6. QED
      BY <3>3, <3>4, <3>5 DEF Fixed
  <2>6. QED
    BY <2>1, <2>2, <2>3, <2>4, <2>5 DEF ParseValue, Fixed
<1>3. Fixed(p, ParseLF(p, e))
  BY EasyFixed DEF ParseLF
<1>4. Fixed(p, ParseDecision(p, e))
  <2>1. Fixed(p, [Go(p, "HEADER_LF") EXCEPT !.last = TRUE])
    BY DEF Fixed, Go, Parsers
  <2>2. PICK r \in Parsers : r = Go(p, "KEY")
    <3>1. "KEY" \in ParserStates
      BY DEF ParserStates, HeaderStates
    <3>2. QED
      BY <3>1, GoTyped
  <2>3. PICK q \in Parsers : q = [r EXCEPT !.key = <<>>]
    <3>1. <<>> \in Seq(KeyChars)
      OBVIOUS
    <3>2. QED
      BY <3>1 DEF Parsers
  <2>4. Fixed(p, r) /\ Fixed(r, q)
    BY <2>2, <2>3, EasyFixed DEF Fixed, Parsers
  <2>5. Fixed(q, ParseKey(q, e))
    BY <1>1
  <2>6. QED
    BY <2>1, <2>2, <2>3, <2>4, <2>5 DEF ParseDecision, Fixed
<1>5. QED
  BY <1>1, <1>2, <1>3, <1>4

LEMMA TakeFixed ==
  ASSUME NEW p \in Parsers, ~Ended(p), NEW piece \in Seq(Elements), NEW i \in 1 .. Len(piece)
  PROVE  Fixed(p, Take(p, piece, i))
<1>1. PICK e \in Elements, end \in BOOLEAN, first \in BOOLEAN :
        e = piece[i] /\ end = (i = Len(piece)) /\ first = (i = 1)
  <2>1. piece[i] \in Elements /\ (i = Len(piece)) \in BOOLEAN /\ (i = 1) \in BOOLEAN
    OBVIOUS
  <2>2. QED
    BY <2>1
<1>2. Fixed(p, p)
  BY DEF Fixed
<1>3. CASE p.state \in WordStates
  <2>1. Fixed(p, SelectMethod(p, e))
    <3>1. \A k : Fixed(p, [p EXCEPT !.method = k, !.state = "METHOD", !.index = 1])
      BY DEF Fixed, Parsers
    <3>2. QED
      BY <3>1, EasyFixed DEF SelectMethod
  <2>2. Fixed(p, ParseVersion(p, e))
    BY <1>2, EasyFixed DEF ParseVersion
  <2>3. QED
    BY <1>1, <1>2, <1>3, <2>1, <2>2, EasyFixed DEF Take, WordStates
<1>4. CASE p.state \in HostStates
  <2>1. Fixed(p, ParseAuthority(p, piece, i))
    <3>1. \A k : Fixed(p, [Go(p, "HOST") EXCEPT !.skip = k])
      BY DEF Fixed, Go, Parsers
    <3>2. Fixed(p, ParseHost(p, piece[i], i = Len(piece)))
      BY <1>1, HostFixed
    <3>3. QED
      BY <3>1, <3>2 DEF ParseAuthority
  <2>2. Fixed(p, ParseHost(p, e, end)) /\ Fixed(p, ParsePort(p, e, end))
          /\ Fixed(p, ParseScheme(p, e, first))
    BY HostFixed
  <2>3. QED
    BY <1>1, <1>2, <1>4, <2>1, <2>2 DEF Take, HostStates
<1>5. CASE p.state \in PathStates
  <2>1. Fixed(p, ParsePath(p, e))
    BY <1>5, PathMoves DEF Moves, Fixed
  <2>2. QED
    BY <1>1, <1>5, <2>1 DEF Take, PathStates
<1>6. CASE p.state \in HeaderStates
  <2>1. QED
    BY <1>1, <1>6, LinesFixed DEF Take, HeaderStates
<1>7. CASE p.state = "URI"
  <2>1. Fixed(p, ParseScheme(p, e, first))
    BY HostFixed
  <2>2. QED
    BY <1>1, <1>2, <1>7, <2>1 DEF Take
<1>8. CASE p.state = "PCT"
  <2>1. Fixed(p, ParsePctEncoded(p, e))
    BY PctMoves DEF Moves, Fixed
  <2>2. QED
    BY <1>1, <1>8, <2>1 DEF Take
<1>9. p.state \notin {"BODY", "COMPLETE"} /\ p.state \in ParserStates
  BY DEF Ended, Parsers
<1>10. QED
  BY <1>3, <1>4, <1>5, <1>6, <1>7, <1>8, <1>9 DEF ParserStates

\* All of a piece, when the request has not ended in it.
LEMMA ParseTyped ==
  ASSUME NEW p \in Parsers, NEW piece \in Seq(Elements), ~Ended(p)
  PROVE  LET q == Parse(p, piece)
         IN /\ q \in Parsers /\ p.offset <= q.offset /\ q.offset <= p.offset + Len(piece)
            /\ Ended(q) \/ q.offset = p.offset + Len(piece)
<1> DEFINE N == Len(piece)
           h == Readings(p, piece)
           Fine(i) == /\ p.offset <= h[i].offset /\ h[i].offset <= p.offset + i
                      /\ Ended(h[i]) \/ h[i].offset = p.offset + i
           T == {i \in 0 .. N : Fine(i)}
<1>1. /\ h \in [0 .. N -> Parsers] /\ h[0] = Resumed(p)
      /\ \A i \in 1 .. N : h[i] = Step(h[i - 1], piece, i)
  BY ReadingsAre
<1> HIDE DEF h
<1>2. N \in Nat /\ p.offset \in Nat
  BY DEF Parsers
<1>3. 0 \in T
  <2>1. h[0].offset = p.offset
    BY <1>1 DEF Resumed, Parsers
  <2>2. QED
    BY <1>2, <2>1
<1>4. ASSUME NEW i \in 1 .. N, i - 1 \in T PROVE i \in T
  <2>1. PICK r \in Parsers, s \in Parsers : r = h[i - 1] /\ s = h[i] /\ s = Step(r, piece, i)
    <3>1. i - 1 \in 0 .. N /\ i \in 0 .. N
      OBVIOUS
    <3>2. QED
      BY <1>1, <3>1
  <2>2. /\ p.offset <= r.offset /\ r.offset <= p.offset + (i - 1)
        /\ Ended(r) \/ r.offset = p.offset + (i - 1)
    BY <1>4, <2>1
  <2>3. r.offset \in Nat
    BY DEF Parsers
  <2>4. CASE Ended(r)
    <3>1. s = r
      BY <2>1, <2>4 DEF Step
    <3>2. Fine(i)
      BY <1>2, <2>1, <2>2, <2>3, <2>4, <3>1
    <3>3. QED
      BY <3>2
  <2>5. CASE ~Ended(r)
    <3>1. PICK q \in Parsers : q = Take(r, piece, i)
      BY <2>5, TakeTyped
    <3>2. q.offset = r.offset
      BY <2>5, <3>1, TakeFixed DEF Fixed
    <3>3. s = [q EXCEPT !.offset = @ + 1]
      BY <2>1, <2>5, <3>1 DEF Step
    <3>4. s.offset = r.offset + 1
      BY <3>2, <3>3 DEF Parsers
    <3>5. Fine(i)
      BY <1>2, <2>1, <2>2, <2>3, <2>5, <3>4
    <3>6. QED
      BY <3>5
  <2>6. QED
    BY <2>4, <2>5
<1> HIDE DEF T
<1>5. 0 .. N \subseteq T
  BY <1>2, <1>3, <1>4, NumbersUpTo
<1>6. PICK q \in Parsers : q = h[N] /\ Fine(N)
  BY <1>1, <1>2, <1>5 DEF T
<1>7. 431 \in Codes
  BY DEF Codes
<1>8. PICK f \in Parsers : f = Fail(q, 431) /\ f.offset = q.offset /\ Ended(f)
  <2>1. Fail(q, 431) \in Parsers
    BY <1>7, FailTyped
  <2>2. Fixed(q, Fail(q, 431))
    BY EasyFixed
  <2>3. Fail(q, 431).status = 431
    BY DEF Fail, Parsers
  <2>4. QED
    BY <2>1, <2>2, <2>3 DEF Fixed, Ended
<1>9. Parse(p, piece) \in {q, f}
  BY <1>6, <1>8 DEF Parse, h
<1>10. QED
  BY <1>6, <1>8, <1>9

-----------------------------------------------------------------------------
(***************************************************************************)
(* Types, of every request.                                                *)
(***************************************************************************)
Closed(b) == b.state \in {"DONE_GOOD", "DONE_WIHTERROR"}

Typed ==
  /\ request \in Requests /\ sent \in 0 .. Len(Text(request))
  /\ parser \in Parsers /\ parser.offset <= sent /\ (Ended(parser) \/ parser.offset = sent)
  /\ body \in Bodies /\ (Closed(body) \/ Rested(body))

LEMMA NewBodyTyped ==
  NewBody \in Bodies /\ Rested(NewBody)
<1>1. PICK code \in BodyCodes, state \in BodyStates, left \in Int :
        code = 0 /\ state = "SETTING_VARS" /\ left = MaxBodySize
  <2>1. MaxBodySize \in Int /\ 0 \in BodyCodes /\ "SETTING_VARS" \in BodyStates
    BY ReadingAssumption DEF BodyCodes, BodyStates
  <2>2. QED
    BY <2>1
<1>2. PICK zero \in Nat, none \in Seq(Elements), yes \in BOOLEAN :
        zero = 0 /\ none = <<>> /\ yes
  <2>1. 0 \in Nat /\ <<>> \in Seq(Elements)
    OBVIOUS
  <2>2. \E yes \in BOOLEAN : yes
    OBVIOUS
  <2>3. QED
    BY <2>1, <2>2, Zenon
<1>3. PICK c : c = [state |-> state, data |-> none, cur |-> zero, trav |-> zero, size |-> zero,
                    readsize |-> yes, left |-> left, file |-> none, status |-> code]
  OBVIOUS
<1>4. yes = TRUE
  BY <1>2, Zenon
<1>5. NewBody = c
  BY <1>1, <1>2, <1>3, <1>4, Zenon DEF NewBody
<1>6. c \in Bodies
  BY <1>3 DEF Bodies
<1>7. c.data = none /\ c.cur = zero /\ c.trav = zero /\ c.readsize = yes
  BY <1>3, Zenon
<1>8. Len(c.data) = 0
  BY <1>2, <1>7
<1>9. Aligned(c) /\ Taken(c) = 0
  BY <1>2, <1>7, <1>8 DEF Aligned, Taken
<1>10. QED
  BY <1>5, <1>6, <1>9 DEF Rested

LEMMA BeginTyped ==
  ASSUME NEW p, NEW d \in Seq(Elements)
  PROVE  BeginBody(p, d) \in Bodies /\ (Closed(BeginBody(p, d)) \/ Rested(BeginBody(p, d)))
<1> DEFINE Fine(b) == b \in Bodies /\ (Closed(b) \/ Rested(b))
<1>1. NewBody \in Bodies
  BY NewBodyTyped
<1>2. \A code \in BodyCodes : Fine(FailBody(NewBody, code))
  BY <1>1, FailedBody DEF Closed
<1>3. PICK unknown \in BodyCodes, bad \in BodyCodes : unknown = 411 /\ bad = 400
  BY DEF BodyCodes
<1>4. PICK good \in BodyStates : good = "DONE_GOOD"
  BY DEF BodyStates
<1>5. PICK done : done = [NewBody EXCEPT !.state = good]
  OBVIOUS
<1>6. Fine(done)
  <2>1. done \in Bodies /\ done.state = good
    BY <1>1, <1>5 DEF Bodies
  <2>2. QED
    BY <1>4, <2>1 DEF Closed
<1>7. PICK reading : reading = [NewBody EXCEPT !.state = "READING_BODY", !.data = d]
  OBVIOUS
<1>8. Rested(reading)
  <2>1. Len(d) \in 0 .. Len(d) /\ SubSeq(d, 1, Len(d)) = d
    OBVIOUS
  <2>2. reading = [NewBody EXCEPT !.state = "READING_BODY", !.data = SubSeq(d, 1, Len(d))]
    BY <1>7, <2>1
  <2>3. QED
    BY <2>1, <2>2, BodyBegins
<1>9. Fine(HandleChunk(reading))
  BY <1>8, HandleTyped DEF Closed
<1>10. BeginBody(p, d) \in
         {FailBody(NewBody, unknown), done, FailBody(NewBody, bad), HandleChunk(reading)}
  BY <1>3, <1>4, <1>5, <1>7 DEF BeginBody
<1>11. QED
  BY <1>2, <1>6, <1>9, <1>10

LEMMA MoreRested ==
  ASSUME NEW b, Rested(b), NEW piece \in Seq(Elements)
  PROVE  Rested([b EXCEPT !.data = @ \o piece])
<1>1. b \in Bodies /\ Aligned(b)
  BY DEF Rested
<1>2. PICK m \in Nat, l \in Nat : m = Len(b.data) /\ l = Len(piece) /\ b.data \in Seq(Elements)
                                  /\ b.trav \in Nat /\ b.cur \in Nat
  BY <1>1 DEF Bodies
<1>3. PICK s : s = b.data \o piece
  OBVIOUS
<1>4. s \in Seq(Elements) /\ Len(s) = m + l
  BY <1>2, <1>3
<1>5. PICK c : c = [b EXCEPT !.data = s]
  OBVIOUS
<1>6. c \in Bodies
  BY <1>1, <1>4, <1>5 DEF Bodies
<1>7. c.data = s /\ c.cur = b.cur /\ c.trav = b.trav /\ c.readsize = b.readsize /\ c.state = b.state
  BY <1>1, <1>5, BodyDomain DEF BodyFields
<1>8. Aligned(c)
  BY <1>1, <1>2, <1>4, <1>7 DEF Aligned
<1>9. Rested(c)
  BY <1>6, <1>7, <1>8 DEF Rested, Taken
<1>10. QED
  BY <1>1, <1>3, <1>5, <1>9, BodyDomain DEF BodyFields

\* A piece of a request.
LEMMA PieceIs ==
  ASSUME NEW text \in Seq(Elements), NEW a \in 0 .. Len(text), NEW n \in Nat, a + n <= Len(text)
  PROVE  LET piece == SubSeq(text, a + 1, a + n)
         IN piece \in Seq(Elements) /\ Len(piece) = n /\ \A i \in 1 .. n : piece[i] = text[a + i]
<1>1. a + n \in 0 .. Len(text) /\ a \in 0 .. a + n /\ (a + n) - a = n
  OBVIOUS
<1>2. PICK m \in 0 .. Len(text) : m = a + n
  BY <1>1
<1>3. /\ SubSeq(text, a + 1, m) \in Seq(Elements) /\ Len(SubSeq(text, a + 1, m)) = m - a
      /\ \A i \in 1 .. m - a : SubSeq(text, a + 1, m)[i] = text[a + i]
  BY <1>1, <1>2, SubSeqIs
<1>4. m - a = n
  BY <1>1, <1>2
<1>5. QED
  BY <1>2, <1>3, <1>4

\* What a read of the header section begins the body with.
LEMMA BehindHead ==
  ASSUME NEW text \in Seq(Elements), NEW a \in 0 .. Len(text), NEW n \in Nat, a + n <= Len(text),
         NEW offset \in Nat, a <= offset, offset <= a + n,
         NEW piece, piece = SubSeq(text, a + 1, a + n),
         NEW d, d = SubSeq(piece, Len(piece) - (a + Len(piece) - offset) + 1, Len(piece))
  PROVE  /\ d \in Seq(Elements)
         /\ SubSeq(text, offset + 1, Len(text)) \in Seq(Elements)
         /\ Len(SubSeq(text, offset + 1, Len(text))) = Len(text) - offset
         /\ (a + n) - offset \in 0 .. Len(text) - offset
         /\ d = SubSeq(SubSeq(text, offset + 1, Len(text)), 1, (a + n) - offset)
<1>1. piece \in Seq(Elements) /\ Len(piece) = n /\ \A i \in 1 .. n : piece[i] = text[a + i]
  BY PieceIs
<1>2. PICK k \in 0 .. n : k = offset - a
  <2>1. offset - a \in 0 .. n
    OBVIOUS
  <2>2. QED
    BY <2>1
<1>3. d = SubSeq(piece, k + 1, n)
  <2>1. n - (a + n - offset) + 1 = k + 1
    BY <1>2
  <2>2. QED
    BY <1>1, <2>1
<1>4. d \in Seq(Elements) /\ Len(d) = n - k /\ \A i \in 1 .. n - k : d[i] = piece[k + i]
  <2>1. n \in 0 .. Len(piece) /\ k \in 0 .. n
    <3>1. Len(piece) = n
      BY <1>1
    <3>2. QED
      BY <3>1
  <2>2. PICK e : e = SubSeq(piece, k + 1, n)
    OBVIOUS
  <2>3. e \in Seq(Elements) /\ Len(e) = n - k /\ \A i \in 1 .. n - k : e[i] = piece[k + i]
    BY <1>1, <2>1, <2>2, SubSeqIs
  <2>4. QED
    BY <1>3, <2>2, <2>3
<1>5. PICK N \in Nat : N = Len(text)
  OBVIOUS
<1>6. PICK all : all = SubSeq(text, offset + 1, Len(text))
  OBVIOUS
<1>7. all \in Seq(Elements) /\ Len(all) = N - offset
      /\ \A i \in 1 .. N - offset : all[i] = text[offset + i]
  <2>1. N \in 0 .. Len(text) /\ offset \in 0 .. N
    BY <1>5
  <2>2. all = SubSeq(text, offset + 1, N)
    BY <1>5, <1>6
  <2>3. QED
    BY <2>1, <2>2, SubSeqIs
<1>8. PICK len \in 0 .. N - offset : len = (a + n) - offset /\ len = n - k
  <2>1. (a + n) - offset \in 0 .. N - offset /\ (a + n) - offset = n - k
    BY <1>2, <1>5
  <2>2. QED
    BY <2>1
<1>9. PICK f : f = SubSeq(all, 1, len)
  OBVIOUS
<1>10. f \in Seq(Elements) /\ Len(f) = len /\ \A i \in 1 .. len : f[i] = all[i]
  <2>1. PICK z \in 0 .. len : z = 0
    OBVIOUS
  <2>2. len \in 0 .. Len(all)
    BY <1>7
  <2>3. /\ SubSeq(all, z + 1, len) \in Seq(Elements) /\ Len(SubSeq(all, z + 1, len)) = len - z
        /\ \A i \in 1 .. len - z : SubSeq(all, z + 1, len)[i] = all[z + i]
    BY <1>7, <2>1, <2>2, SubSeqIs
  <2>4. z + 1 = 1 /\ len - z = len /\ \A i \in 1 .. len : z + i = i
    BY <2>1
  <2>5. QED
    BY <1>9, <2>3, <2>4
<1>11. ASSUME NEW i \in 1 .. len PROVE d[i] = f[i]
  <2>1. i \in 1 .. n - k /\ k + i \in 1 .. n /\ i \in 1 .. N - offset /\ a + (k + i) = offset + i
    BY <1>2, <1>8
  <2>2. d[i] = text[a + (k + i)]
    BY <1>1, <1>4, <2>1
  <2>3. f[i] = text[offset + i]
    BY <1>7, <1>10, <2>1
  <2>4. QED
    BY <2>1, <2>2, <2>3
<1>12. d = f
  BY <1>4, <1>8, <1>10, <1>11, SeqEqual
<1>13. QED
  BY <1>4, <1>5, <1>7, <1>8, <1>9, <1>12, <1>6

LEMMA TypedInit ==
  ASSUME Init
  PROVE  Typed
<1>1. request \in Requests /\ sent = 0 /\ parser = NewParser /\ body = NewBody
  BY DEF Init
<1>2. Len(Text(request)) \in Nat
  BY <1>1, TextTyped
<1>3. parser \in Parsers /\ parser.offset = 0
  BY <1>1, NewIsStart
<1>4. body \in Bodies /\ Rested(body)
  BY <1>1, NewBodyTyped
<1>5. QED
  BY <1>1, <1>2, <1>3, <1>4 DEF Typed

\* A read goes on with what was received before it.
LEMMA ReadHead ==
  ASSUME Typed, RecvHead
  PROVE  \E n \in 1 .. BufferRequest - sent :
           LET p == Parse(parser, Piece(n))
           IN /\ sent + n <= Len(Text(request)) /\ sent' = sent + n /\ request' = request
              /\ ~Ended(parser) /\ parser.offset = sent
              /\ parser' = p /\ body' = Reached(p, Piece(n))
<1>1. PICK n \in 1 .. Room :
        /\ sent + n <= Len(Text(request)) /\ sent' = sent + n
        /\ \E p \in {Parse(parser, Piece(n))} : parser' = p /\ body' = Reached(p, Piece(n))
  BY DEF RecvHead
<1>2. ~Done /\ ~InBody /\ request' = request
  BY DEF RecvHead
<1>3. ~Ended(parser)
  BY <1>2 DEF Done, Finished, Ended, InBody
<1>4. n \in 1 .. BufferRequest - sent
  BY <1>1, <1>2 DEF Room
<1>5. parser.offset = sent
  BY <1>3 DEF Typed
<1>6. parser' = Parse(parser, Piece(n)) /\ body' = Reached(Parse(parser, Piece(n)), Piece(n))
  BY <1>1
<1>7. QED
  BY <1>1, <1>2, <1>3, <1>4, <1>5, <1>6

LEMMA TypedHead ==
  ASSUME Typed, RecvHead
  PROVE  Typed'
<1>1. PICK n \in 1 .. BufferRequest - sent :
        /\ sent + n <= Len(Text(request)) /\ sent' = sent + n /\ request' = request
        /\ ~Ended(parser) /\ parser.offset = sent
        /\ parser' = Parse(parser, Piece(n)) /\ body' = Reached(Parse(parser, Piece(n)), Piece(n))
  BY ReadHead
<1>2. PICK text \in Seq(Elements), N \in Nat : text = Text(request) /\ N = Len(text)
  <2>1. Text(request) \in Seq(Elements)
    BY TextTyped DEF Typed
  <2>2. QED
    BY <2>1
<1>3. sent \in 0 .. N /\ n \in Nat /\ sent + n <= N /\ parser \in Parsers
  BY <1>1, <1>2 DEF Typed
<1>4. PICK piece \in Seq(Elements) : piece = Piece(n) /\ Len(piece) = n
                                     /\ piece = SubSeq(text, sent + 1, sent + n)
  BY <1>2, <1>3, PieceIs DEF Piece
<1>5. PICK p \in Parsers : p = Parse(parser, piece) /\ parser.offset <= p.offset
                           /\ p.offset <= parser.offset + n
                           /\ (Ended(p) \/ p.offset = parser.offset + n)
  BY <1>1, <1>3, <1>4, ParseTyped
<1>6. parser' = p /\ body' = Reached(p, piece)
  BY <1>1, <1>4, <1>5
<1>7. body' \in Bodies /\ (Closed(body') \/ Rested(body'))
  <2>1. CASE p.status = 0 /\ p.state = "BODY"
    <3>1. PICK d : d = SubSeq(piece, Len(piece) - (sent + Len(piece) - p.offset) + 1, Len(piece))
      OBVIOUS
    <3>2. p.offset \in Nat /\ sent <= p.offset /\ p.offset <= sent + n
      BY <1>1, <1>5 DEF Parsers
    <3>3. d \in Seq(Elements)
      BY <1>2, <1>3, <1>4, <3>1, <3>2, BehindHead
    <3>4. body' = BeginBody(p, d)
      BY <1>6, <2>1, <3>1 DEF Reached
    <3>5. QED
      BY <3>3, <3>4, BeginTyped
  <2>2. CASE ~(p.status = 0 /\ p.state = "BODY")
    <3>1. body' = body
      BY <1>6, <2>2 DEF Reached
    <3>2. QED
      BY <3>1 DEF Typed
  <2>3. QED
    BY <2>1, <2>2
<1>8. sent' \in 0 .. N
  BY <1>1, <1>3
<1>9. parser'.offset <= sent' /\ (Ended(parser') \/ parser'.offset = sent')
  BY <1>1, <1>5, <1>6
<1>10. request' \in Requests /\ Text(request') = text
  BY <1>1, <1>2 DEF Typed
<1>11. QED
  BY <1>2, <1>5, <1>6, <1>7, <1>8, <1>9, <1>10 DEF Typed

LEMMA ReadBody ==
  ASSUME Typed, RecvBody
  PROVE  \E n \in Nat :
           /\ sent + n <= Len(Text(request)) /\ sent' = sent + n
           /\ request' = request /\ parser' = parser /\ InBody /\ parser.status = 0
           /\ ~Closed(body) /\ Rested(body)
           /\ body' = HandleChunk([body EXCEPT !.data = @ \o Piece(n)])
<1>1. PICK n \in 1 .. Room :
        /\ sent + n <= Len(Text(request)) /\ sent' = sent + n
        /\ body' = HandleChunk([body EXCEPT !.data = @ \o Piece(n)])
  BY DEF RecvBody
<1>2. ~Done /\ InBody /\ request' = request /\ parser' = parser
  BY DEF RecvBody
<1>3. parser.status = 0 /\ ~Closed(body)
  BY <1>2 DEF Done, Finished, Closed
<1>4. Rested(body)
  BY <1>3 DEF Typed
<1>5. n \in Nat
  OBVIOUS
<1>6. QED
  BY <1>1, <1>2, <1>3, <1>4, <1>5

LEMMA TypedBody ==
  ASSUME Typed, RecvBody
  PROVE  Typed'
<1>1. PICK n \in Nat :
        /\ sent + n <= Len(Text(request)) /\ sent' = sent + n
        /\ request' = request /\ parser' = parser /\ InBody /\ parser.status = 0
        /\ ~Closed(body) /\ Rested(body)
        /\ body' = HandleChunk([body EXCEPT !.data = @ \o Piece(n)])
  BY ReadBody
<1>2. PICK text \in Seq(Elements), N \in Nat : text = Text(request) /\ N = Len(text)
  <2>1. Text(request) \in Seq(Elements)
    BY TextTyped DEF Typed
  <2>2. QED
    BY <2>1
<1>3. sent \in 0 .. N /\ sent + n <= N
  BY <1>1, <1>2 DEF Typed
<1>4. PICK piece \in Seq(Elements) : piece = Piece(n)
  BY <1>2, <1>3, PieceIs DEF Piece
<1>5. PICK b : b = [body EXCEPT !.data = @ \o piece]
  OBVIOUS
<1>6. Rested(b) /\ body' = HandleChunk(b)
  BY <1>1, <1>4, <1>5, MoreRested
<1>7. body' \in Bodies /\ (Closed(body') \/ Rested(body'))
  BY <1>6, HandleTyped DEF Closed
<1>8. sent' \in 0 .. N
  BY <1>1, <1>3
<1>9. parser' \in Parsers /\ parser'.offset <= sent' /\ Ended(parser')
  <2>1. parser \in Parsers /\ parser.offset <= sent
    BY DEF Typed
  <2>2. parser.offset \in Nat
    BY <2>1 DEF Parsers
  <2>3. Ended(parser)
    BY <1>1 DEF Ended, InBody
  <2>4. parser.offset <= sent + n
    BY <1>3, <2>1, <2>2
  <2>5. QED
    BY <1>1, <2>1, <2>3, <2>4
<1>10. request' \in Requests /\ Text(request') = text
  BY <1>1, <1>2 DEF Typed
<1>11. QED
  BY <1>2, <1>7, <1>8, <1>9, <1>10 DEF Typed

LEMMA TypedStep ==
  ASSUME Typed, [Next]_vars
  PROVE  Typed'
<1>1. CASE RecvHead
  BY <1>1, TypedHead
<1>2. CASE RecvBody
  BY <1>2, TypedBody
<1>3. CASE UNCHANGED vars
  BY <1>3 DEF Typed, vars
<1>4. QED
  BY <1>1, <1>2, <1>3 DEF Next

\* Whatever is sent, in whatever pieces, the parser and the body hold what their
\* types say: an offset in what was received, and a status that they know.
THEOREM RequestTypeCorrect == Spec => []TypeOK
<1>1. Init => Typed
  BY TypedInit
<1>2. Typed /\ [Next]_vars => Typed'
  BY TypedStep
<1>3. Typed => TypeOK
  BY DEF Typed, TypeOK, Parsers, Codes, Bodies, BodyCodes
<1>4. QED
  BY <1>1, <1>2, <1>3, PTL DEF Spec

-----------------------------------------------------------------------------
(***************************************************************************)
(* The parser and the body, next to the whole of the request.              *)
(***************************************************************************)
Data == SubSeq(Text(request), parser.offset + 1, Len(Text(request)))

\* The parser is the one of the first m elements, which the body leaves alone.
HeadInv ==
  \E m \in 0 .. sent :
    m <= BufferRequest /\ parser = HeadOf(Text(request), m) /\ (InBody \/ m = sent)

Chunked(p) == p.known["coding"].there /\ p.known["coding"].val = <<"chunked">>

BodyInv ==
  IF parser.status # 0 \/ ~InBody THEN body = NewBody
  ELSE IF Chunked(parser) THEN Sized(Data) => Handled(body, Data, sent - parser.offset)
  ELSE body = BeginBody(parser, <<>>)

CutInv == Typed /\ (~Absolute => HeadInv /\ BodyInv)

\* A body of chunks that begins with a part of them, or with all.
LEMMA BeginChunks ==
  ASSUME NEW data \in Seq(Elements), Sized(data), NEW len \in 0 .. Len(data),
         NEW p, Chunked(p)
  PROVE  Handled(BeginBody(p, SubSeq(data, 1, len)), data, len)
<1>1. PICK b : b = [NewBody EXCEPT !.state = "READING_BODY", !.data = SubSeq(data, 1, len)]
  OBVIOUS
<1>2. Rested(b) /\ Reads(b, data, 0) /\ Len(b.data) = len
  BY <1>1, BodyBegins
<1>3. Handled(HandleChunk(b), data, 0 + len)
  BY <1>2, ChunkHandled
<1>4. BeginBody(p, SubSeq(data, 1, len)) = HandleChunk(b)
  BY <1>1 DEF BeginBody, Chunked
<1>5. QED
  BY <1>3, <1>4

LEMMA BeginOther ==
  ASSUME NEW p, ~Chunked(p), NEW d
  PROVE  BeginBody(p, d) = BeginBody(p, <<>>) /\ Closed(BeginBody(p, d))
<1>1. PICK code \in BodyCodes, unknown \in BodyCodes : code = 400 /\ unknown = 411
  BY DEF BodyCodes
<1>2. NewBody \in Bodies
  BY NewBodyTyped
<1>3. Closed(FailBody(NewBody, code)) /\ Closed(FailBody(NewBody, unknown))
  BY <1>2, FailedBody DEF Closed
<1>4. PICK good : good = "DONE_GOOD"
  OBVIOUS
<1>5. Closed([NewBody EXCEPT !.state = good])
  <2>1. [NewBody EXCEPT !.state = good].state = good
    BY <1>2, BodyDomain DEF BodyFields
  <2>2. QED
    BY <1>4, <2>1 DEF Closed
<1>6. QED
  BY <1>1, <1>3, <1>4, <1>5 DEF BeginBody, Chunked

LEMMA CutInit ==
  ASSUME Init
  PROVE  CutInv
<1>1. Typed
  BY TypedInit
<1>2. sent = 0 /\ parser = NewParser /\ body = NewBody
  BY DEF Init
<1>3. ~Ended(parser)
  BY <1>2, NewIsStart
<1>4. BodyInv
  BY <1>2, <1>3 DEF BodyInv, InBody, Ended
<1>5. ASSUME ~Absolute PROVE HeadInv
  <2>1. PICK text \in Seq(Elements) : text = Text(request)
    BY <1>1, TextTyped DEF Typed
  <2>2. ~AbsoluteText(text)
    BY <1>5, <2>1 DEF Absolute, AbsoluteText
  <2>3. Heads(text)[0] = NewParser
    BY <2>2, HeadsKeep
  <2>4. ~InHeaders(NewParser) /\ BufferRequest \in Nat
    BY NewIsStart, ReadingAssumption
  <2>5. HeadOf(text, 0) = NewParser
    BY <2>3, <2>4 DEF HeadOf, Overflows
  <2>6. 0 \in 0 .. sent /\ 0 <= BufferRequest
    BY <1>2, <2>4
  <2>7. QED
    BY <1>2, <2>1, <2>5, <2>6 DEF HeadInv
<1>6. QED
  BY <1>1, <1>4, <1>5 DEF CutInv

LEMMA CutHead ==
  ASSUME CutInv, RecvHead
  PROVE  CutInv'
<1>1. Typed /\ Typed'
  BY TypedHead DEF CutInv
<1>2. PICK n \in 1 .. BufferRequest - sent :
        /\ sent + n <= Len(Text(request)) /\ sent' = sent + n /\ request' = request
        /\ ~Ended(parser) /\ parser.offset = sent
        /\ parser' = Parse(parser, Piece(n)) /\ body' = Reached(Parse(parser, Piece(n)), Piece(n))
  BY <1>1, ReadHead
<1>3. PICK text \in Seq(Elements), N \in Nat : text = Text(request) /\ N = Len(text)
  <2>1. Text(request) \in Seq(Elements)
    BY <1>1, TextTyped DEF Typed
  <2>2. QED
    BY <2>1
<1>4. sent \in 0 .. N /\ n \in Nat /\ n # 0 /\ sent + n <= N /\ parser \in Parsers
      /\ sent + n <= BufferRequest /\ n \in 1 .. N - sent
  <2>1. sent \in 0 .. N
    BY <1>1, <1>3 DEF Typed
  <2>2. BufferRequest \in Nat /\ sent + n <= N
    BY <1>2, <1>3, ReadingAssumption
  <2>3. n \in Nat /\ n # 0 /\ sent + n <= BufferRequest /\ n \in 1 .. N - sent
    BY <2>1, <2>2
  <2>4. QED
    BY <1>1, <2>1, <2>2, <2>3 DEF Typed
<1>5. SUFFICES ASSUME ~AbsoluteText(text) PROVE HeadInv' /\ BodyInv'
  BY <1>1, <1>2, <1>3 DEF CutInv, Absolute, AbsoluteText
<1>6. HeadInv /\ BodyInv
  BY <1>3, <1>5 DEF CutInv, Absolute, AbsoluteText
<1>7. ~InBody
  BY <1>2 DEF Ended, InBody
<1>8. parser = Heads(text)[sent]
  <2>1. parser = HeadOf(text, sent)
    BY <1>3, <1>6, <1>7 DEF HeadInv
  <2>2. PICK q \in Parsers : q = Heads(text)[sent]
    BY <1>3, <1>4, <1>5, HeadsKeep
  <2>3. Fail(q, 431).status = 431
    BY DEF Fail, Parsers
  <2>4. Ended(Fail(q, 431))
    BY <2>3 DEF Ended
  <2>5. QED
    BY <1>2, <2>1, <2>2, <2>4 DEF HeadOf
<1>9. PICK piece \in Seq(Elements) : piece = Piece(n) /\ Len(piece) = n
                                     /\ piece = SubSeq(text, sent + 1, sent + n)
  BY <1>3, <1>4, PieceIs DEF Piece
<1>10. PICK p \in Parsers : p = Parse(parser, piece) /\ parser.offset <= p.offset
                            /\ p.offset <= parser.offset + n
  BY <1>2, <1>4, <1>9, ParseTyped
<1>11. p = HeadOf(text, sent + n)
  BY <1>2, <1>3, <1>4, <1>5, <1>8, <1>9, <1>10, ParseFollows
<1>12. parser' = p /\ body' = Reached(p, piece)
  BY <1>2, <1>9, <1>10
<1>13. Text(request') = text
  BY <1>2, <1>3
<1>14. HeadInv'
  <2>1. sent + n \in 0 .. sent' /\ sent + n = sent'
    BY <1>2, <1>4
  <2>2. QED
    BY <1>4, <1>11, <1>12, <1>13, <2>1 DEF HeadInv
<1>15. body = NewBody
  BY <1>6, <1>7 DEF BodyInv
<1>16. CASE ~(p.status = 0 /\ p.state = "BODY")
  <2>1. body' = NewBody
    BY <1>12, <1>15, <1>16 DEF Reached
  <2>2. BodyInv'
    BY <1>12, <1>16, <2>1 DEF BodyInv, InBody
  <2>3. QED
    BY <1>14, <2>2
<1>17. CASE p.status = 0 /\ p.state = "BODY"
  <2>1. PICK d : d = SubSeq(piece, Len(piece) - (sent + Len(piece) - p.offset) + 1, Len(piece))
    OBVIOUS
  <2>2. body' = BeginBody(p, d)
    BY <1>12, <1>17, <2>1 DEF Reached
  <2>3. p.offset \in Nat /\ sent <= p.offset /\ p.offset <= sent + n
    BY <1>2, <1>10 DEF Parsers
  <2>4. PICK data \in Seq(Elements), len \in Nat :
          /\ data = SubSeq(text, p.offset + 1, Len(text)) /\ len = (sent + n) - p.offset
          /\ len \in 0 .. Len(data) /\ d = SubSeq(data, 1, len)
    <3>1. /\ SubSeq(text, p.offset + 1, Len(text)) \in Seq(Elements)
          /\ Len(SubSeq(text, p.offset + 1, Len(text))) = Len(text) - p.offset
          /\ (sent + n) - p.offset \in 0 .. Len(text) - p.offset
          /\ d = SubSeq(SubSeq(text, p.offset + 1, Len(text)), 1, (sent + n) - p.offset)
      <4>1. PICK a \in 0 .. Len(text), offset \in Nat : a = sent /\ offset = p.offset
        BY <1>3, <1>4, <2>3
      <4>2. /\ a + n <= Len(text) /\ a <= offset /\ offset <= a + n
            /\ piece = SubSeq(text, a + 1, a + n)
            /\ d = SubSeq(piece, Len(piece) - (a + Len(piece) - offset) + 1, Len(piece))
        BY <1>3, <1>4, <1>9, <2>1, <2>3, <4>1
      <4>3. /\ d \in Seq(Elements)
            /\ SubSeq(text, offset + 1, Len(text)) \in Seq(Elements)
            /\ Len(SubSeq(text, offset + 1, Len(text))) = Len(text) - offset
            /\ (a + n) - offset \in 0 .. Len(text) - offset
            /\ d = SubSeq(SubSeq(text, offset + 1, Len(text)), 1, (a + n) - offset)
        BY <1>4, <4>2, BehindHead
      <4>4. QED
        BY <4>1, <4>3
    <3>2. (sent + n) - p.offset \in Nat
      BY <1>4, <2>3
    <3>3. QED
      BY <3>1, <3>2
  <2>5. Data' = data /\ sent' - parser'.offset = len
    BY <1>2, <1>12, <1>13, <2>4 DEF Data
  <2>6. CASE Chunked(p)
    <3>1. Sized(data) => Handled(body', data, len)
      BY <2>2, <2>4, <2>6, BeginChunks
    <3>2. BodyInv'
      BY <1>12, <1>17, <2>5, <2>6, <3>1 DEF BodyInv, InBody
    <3>3. QED
      BY <1>14, <3>2
  <2>7. CASE ~Chunked(p)
    <3>1. body' = BeginBody(p, <<>>)
      BY <2>2, <2>7, BeginOther
    <3>2. BodyInv'
      BY <1>12, <1>17, <2>7, <3>1 DEF BodyInv, InBody
    <3>3. QED
      BY <1>14, <3>2
  <2>8. QED
    BY <2>6, <2>7
<1>18. QED
  BY <1>16, <1>17

LEMMA CutBody ==
  ASSUME CutInv, RecvBody
  PROVE  CutInv'
<1>1. Typed /\ Typed'
  BY TypedBody DEF CutInv
<1>2. PICK n \in Nat :
        /\ sent + n <= Len(Text(request)) /\ sent' = sent + n
        /\ request' = request /\ parser' = parser /\ InBody /\ parser.status = 0
        /\ ~Closed(body) /\ Rested(body)
        /\ body' = HandleChunk([body EXCEPT !.data = @ \o Piece(n)])
  BY <1>1, ReadBody
<1>3. PICK text \in Seq(Elements), N \in Nat : text = Text(request) /\ N = Len(text)
  <2>1. Text(request) \in Seq(Elements)
    BY <1>1, TextTyped DEF Typed
  <2>2. QED
    BY <2>1
<1>4. PICK a \in 0 .. N, offset \in Nat :
        a = sent /\ a + n <= N /\ offset = parser.offset /\ offset <= a
  BY <1>1, <1>2, <1>3 DEF Typed, Parsers
<1>5. SUFFICES ASSUME ~AbsoluteText(text) PROVE HeadInv' /\ BodyInv'
  BY <1>1, <1>2, <1>3 DEF CutInv, Absolute, AbsoluteText
<1>6. HeadInv /\ BodyInv
  BY <1>3, <1>5 DEF CutInv, Absolute, AbsoluteText
<1>7. HeadInv'
  <2>1. PICK m \in 0 .. sent : m <= BufferRequest /\ parser = HeadOf(Text(request), m)
    BY <1>6 DEF HeadInv
  <2>2. m \in 0 .. sent' /\ InBody'
    BY <1>2, <1>4, <2>1 DEF InBody
  <2>3. QED
    BY <1>2, <2>1, <2>2 DEF HeadInv
<1>8. Chunked(parser)
  <2>1. ~Chunked(parser) => body = BeginBody(parser, <<>>)
    BY <1>2, <1>6 DEF BodyInv
  <2>2. ~Chunked(parser) => Closed(body)
    BY <2>1, BeginOther
  <2>3. QED
    BY <1>2, <2>2
<1>9. PICK data \in Seq(Elements) : data = Data /\ Len(data) = N - offset
                                    /\ \A i \in 1 .. N - offset : data[i] = text[offset + i]
  <2>1. N \in 0 .. Len(text) /\ offset \in 0 .. N
    BY <1>3, <1>4
  <2>2. Data = SubSeq(text, offset + 1, N)
    BY <1>3, <1>4 DEF Data
  <2>3. PICK s : s = SubSeq(text, offset + 1, N)
    OBVIOUS
  <2>4. s \in Seq(Elements) /\ Len(s) = N - offset
        /\ \A i \in 1 .. N - offset : s[i] = text[offset + i]
    BY <2>1, <2>3, SubSeqIs
  <2>5. QED
    BY <2>2, <2>3, <2>4
<1>10. Data' = data
  BY <1>2, <1>9 DEF Data
<1>11. ASSUME Sized(data) PROVE Handled(body', data, sent' - parser'.offset)
  <2>1. Handled(body, data, sent - parser.offset)
    BY <1>2, <1>6, <1>8, <1>9, <1>11 DEF BodyInv
  <2>2. PICK l \in Nat : l = Len(body.data)
    <3>1. body \in Bodies
      BY <1>2 DEF Rested
    <3>2. Len(body.data) \in Nat
      BY <3>1 DEF Bodies
    <3>3. QED
      BY <3>2
  <2>3. ~Decides(body, data, sent - parser.offset)
    BY <1>2 DEF Decides, Fails, Closed
  <2>4. l <= a - offset /\ Awaits(body, data, (a - offset) - l)
    BY <1>4, <2>1, <2>2, <2>3 DEF Handled
  <2>5. PICK base \in Nat : base = (a - offset) - l /\ base + l = a - offset
    <3>1. (a - offset) - l \in Nat
      BY <1>4, <2>2, <2>4
    <3>2. ((a - offset) - l) + l = a - offset
      BY <1>4, <2>2
    <3>3. QED
      BY <3>1, <3>2
  <2>6. PICK piece \in Seq(Elements) :
          piece = Piece(n) /\ Len(piece) = n /\ \A i \in 1 .. n : piece[i] = text[a + i]
    <3>1. a \in 0 .. Len(text) /\ a + n <= Len(text)
      BY <1>3, <1>4
    <3>2. PICK s : s = SubSeq(text, a + 1, a + n)
      OBVIOUS
    <3>3. s \in Seq(Elements) /\ Len(s) = n /\ \A i \in 1 .. n : s[i] = text[a + i]
      BY <3>1, <3>2, PieceIs
    <3>4. Piece(n) = s
      BY <1>3, <1>4, <3>2 DEF Piece
    <3>5. QED
      BY <3>3, <3>4
  <2>7. Within(piece, data, base + Len(body.data))
    <3>1. (a - offset) + n <= N - offset
      BY <1>4
    <3>2. ASSUME NEW i \in 1 .. n PROVE piece[i] = data[(a - offset) + i]
      <4>1. PICK j \in 1 .. N - offset : j = (a - offset) + i /\ offset + j = a + i
        <5>1. (a - offset) + i \in 1 .. N - offset /\ offset + ((a - offset) + i) = a + i
          BY <1>4
        <5>2. QED
          BY <5>1
      <4>2. QED
        BY <1>9, <2>6, <4>1
    <3>3. QED
      BY <1>9, <2>2, <2>5, <2>6, <3>1, <3>2 DEF Within
  <2>8. PICK b : b = Grown(body, piece)
    OBVIOUS
  <2>9. Rested(b) /\ (Reads(b, data, base) \/ Ends(b, data, base)) /\ Len(b.data) = l + n
    <3>1. Awaits(body, data, base)
      BY <2>4, <2>5
    <3>2. /\ Rested(b) /\ (Reads(b, data, base) \/ Ends(b, data, base))
          /\ Len(b.data) = Len(body.data) + Len(piece)
      BY <2>7, <2>8, <3>1, MoreData
    <3>3. QED
      BY <2>2, <2>6, <3>2
  <2>10. Handled(HandleChunk(b), data, base + Len(b.data))
    BY <1>11, <2>9, ChunkHandled
  <2>11. body' = HandleChunk(b)
    BY <1>2, <2>6, <2>8 DEF Grown
  <2>12. base + Len(b.data) = sent' - parser'.offset
    <3>1. base + (l + n) = (a + n) - offset
      BY <1>4, <2>5
    <3>2. QED
      BY <1>2, <1>4, <2>9, <3>1
  <2>13. QED
    BY <2>10, <2>11, <2>12
<1>12. BodyInv'
  BY <1>2, <1>8, <1>10, <1>11 DEF BodyInv, InBody
<1>13. QED
  BY <1>7, <1>12

LEMMA CutStep ==
  ASSUME CutInv, [Next]_vars
  PROVE  CutInv'
<1>1. CASE RecvHead
  BY <1>1, CutHead
<1>2. CASE RecvBody
  BY <1>2, CutBody
<1>3. CASE UNCHANGED vars
  <2>1. Typed' /\ (Typed \/ ~Typed)
    BY <1>3, TypedStep DEF CutInv
  <2>2. HeadInv' = HeadInv /\ BodyInv' = BodyInv /\ Absolute' = Absolute
    BY <1>3 DEF vars, HeadInv, BodyInv, Absolute, InBody, Data
  <2>3. QED
    BY <2>1, <2>2 DEF CutInv
<1>4. QED
  BY <1>1, <1>2, <1>3 DEF Next

LEMMA SizedIs ==
  ASSUME Typed, InBody, ~NoSize
  PROVE  Data \in Seq(Elements) /\ Sized(Data)
<1>1. PICK text \in Seq(Elements), N \in Nat, offset \in Nat :
        text = Text(request) /\ N = Len(text) /\ offset = parser.offset /\ offset \in 0 .. N
  <2>1. Text(request) \in Seq(Elements)
    BY TextTyped DEF Typed
  <2>2. parser.offset \in 0 .. Len(Text(request))
    BY <2>1 DEF Typed, Parsers
  <2>3. QED
    BY <2>1, <2>2
<1>2. PICK data : data = Data
  OBVIOUS
<1>3. data = SubSeq(text, offset + 1, N)
  BY <1>1, <1>2 DEF Data
<1>4. data \in Seq(Elements)
  <2>1. N \in 0 .. Len(text)
    BY <1>1
  <2>2. QED
    BY <1>3, <2>1, SubSeqIs
<1>5. \A n \in DOMAIN data : ~(/\ Chunks(data)[n - 1].at = "size" /\ data[n] = "cr"
                               /\ Range(Chunks(data)[n - 1].line) \subseteq Space)
  BY <1>2 DEF NoSize, Data
<1>6. ASSUME NEW n \in 1 .. Len(data), NEW k, k = Chunks(data)[n - 1], k.at = "size",
             data[n] = "cr"
      PROVE  \E i \in 1 .. Len(k.line) : k.line[i] \notin Space
  <2>1. n \in DOMAIN data /\ n - 1 \in 0 .. Len(data)
    BY <1>4
  <2>2. k \in ChunkStates
    BY <1>4, <1>6, <2>1, ChunksAre
  <2>3. PICK line \in Seq(Elements) : line = k.line
    BY <2>2 DEF ChunkStates
  <2>4. ~(Range(line) \subseteq Space)
    BY <1>5, <1>6, <2>1, <2>3
  <2>5. \E i \in DOMAIN line : line[i] \notin Space
    BY <2>4 DEF Range
  <2>6. QED
    BY <2>3, <2>5
<1>7. Sized(data)
  BY <1>6 DEF Sized
<1>8. QED
  BY <1>2, <1>4, <1>7

\* The request, had it come in one piece, has the parser that it has.
LEMMA WholeHead ==
  ASSUME Typed, HeadInv, Ended(parser), ~Absolute
  PROVE  LET text == Text(request)
         IN Parse(NewParser, SubSeq(text, 1, Min({Len(text), BufferRequest}))) = parser
<1>1. PICK text \in Seq(Elements), N \in Nat : text = Text(request) /\ N = Len(text)
  <2>1. Text(request) \in Seq(Elements)
    BY TextTyped DEF Typed
  <2>2. QED
    BY <2>1
<1>2. ~AbsoluteText(text)
  BY <1>1 DEF Absolute, AbsoluteText
<1>3. /\ Heads(text) \in [0 .. N -> Parsers] /\ Heads(text)[0] = NewParser
  BY <1>1, <1>2, HeadsKeep
<1>4. PICK m \in 0 .. N : m <= BufferRequest /\ parser = HeadOf(text, m)
  <2>1. PICK m \in 0 .. sent : m <= BufferRequest /\ parser = HeadOf(text, m)
    BY <1>1 DEF HeadInv
  <2>2. m \in 0 .. N
    BY <1>1, <2>1 DEF Typed
  <2>3. QED
    BY <2>1, <2>2
<1>5. BufferRequest \in Nat /\ BufferRequest # 0
  BY ReadingAssumption
<1>6. PICK n \in Nat : n = Min({N, BufferRequest}) /\ n <= N /\ n <= BufferRequest
                       /\ (n = N \/ n = BufferRequest)
  <2>1. {N, BufferRequest} \subseteq Nat /\ {N, BufferRequest} # {}
    BY <1>5
  <2>2. /\ Min({N, BufferRequest}) \in {N, BufferRequest}
        /\ \A y \in {N, BufferRequest} : Min({N, BufferRequest}) <= y
    BY <2>1, SmallestIs
  <2>3. QED
    BY <1>5, <2>2
<1>7. m <= n /\ n \in m .. N
  BY <1>4, <1>5, <1>6
<1>8. PICK q \in Parsers : q = Heads(text)[m]
  BY <1>3
<1>9. HeadOf(text, n) = parser
  <2>1. CASE Ended(q)
    <3>1. Heads(text)[n] = q
      <4>1. m \in 0 .. Len(text) /\ n \in m .. Len(text)
        BY <1>1, <1>7
      <4>2. QED
        BY <1>2, <1>8, <2>1, <4>1, HeadsEnd
    <3>2. ~Overflows(q)
      BY <2>1 DEF Overflows, InHeaders, Ended
    <3>3. HeadOf(text, n) = q /\ HeadOf(text, m) = q
      BY <1>8, <3>1, <3>2 DEF HeadOf
    <3>4. QED
      BY <1>4, <3>3
  <2>2. CASE ~Ended(q)
    <3>1. parser # q
      BY <2>2
    <3>2. m >= BufferRequest
      BY <1>4, <1>8, <3>1 DEF HeadOf
    <3>3. n = m
      BY <1>5, <1>6, <1>7, <3>2
    <3>4. QED
      BY <1>4, <3>3
  <2>3. QED
    BY <2>1, <2>2
<1>10. n # 0
  <2>1. SUFFICES ASSUME n = 0 PROVE FALSE
    OBVIOUS
  <2>2. m = 0
    BY <1>7, <2>1
  <2>3. ~Overflows(NewParser)
    BY NewIsStart DEF Overflows
  <2>4. parser = NewParser
    BY <1>3, <1>4, <2>2, <2>3 DEF HeadOf
  <2>5. QED
    BY <2>4, NewIsStart
<1>11. Parse(NewParser, SubSeq(text, 1, n)) = HeadOf(text, n)
  <2>1. PICK z \in 0 .. Len(text) : z = 0
    OBVIOUS
  <2>2. n \in 1 .. Len(text) - z /\ z + 1 = 1 /\ z + n = n
    BY <1>1, <1>6, <1>10, <2>1
  <2>3. Heads(text)[z] = NewParser /\ ~Ended(NewParser)
    BY <1>3, <2>1, NewIsStart
  <2>4. Parse(Heads(text)[z], SubSeq(text, z + 1, z + n)) = HeadOf(text, z + n)
    BY <1>2, <2>2, <2>3, ParseFollows
  <2>5. QED
    BY <2>2, <2>3, <2>4
<1>12. QED
  BY <1>1, <1>6, <1>9, <1>11

\* What a body is decided to be is what the whole of it is.
LEMMA DecidedWhole ==
  ASSUME NEW data \in Seq(Elements), NEW b, Closed(b), NEW n \in 0 .. Len(data),
         Handled(b, data, n), NEW c, Handled(c, data, Len(data))
  PROVE  b.status = c.status /\ (b.status = 0 => b.file = c.file)
<1>1. PICK N \in Nat : N = Len(data)
  OBVIOUS
<1>2. Decides(b, data, n)
  <2>1. ~Decides(b, data, n) => Awaits(b, data, n - Len(b.data))
    BY DEF Handled
  <2>2. Awaits(b, data, n - Len(b.data)) => FALSE
    BY DEF Awaits, Reads, Ends, Closed
  <2>3. QED
    BY <2>1, <2>2
<1>3. PICK k : k = Chunks(data)[n]
  OBVIOUS
<1>4. k.at \in {"done", "refused"}
  BY <1>2, <1>3 DEF Decides, Fails
<1>5. Chunks(data)[N] = k
  <2>1. N \in n .. Len(data)
    BY <1>1
  <2>2. QED
    BY <1>3, <1>4, <2>1, ChunksEnd
<1>6. Decides(c, data, N)
  <2>1. SUFFICES ASSUME ~Decides(c, data, N) PROVE FALSE
    OBVIOUS
  <2>2. Len(c.data) <= N /\ Awaits(c, data, N - Len(c.data))
    BY <1>1, <2>1 DEF Handled
  <2>3. PICK l \in Nat : l = Len(c.data)
    <3>1. Rested(c)
      BY <2>2 DEF Awaits
    <3>2. c \in Bodies
      BY <3>1 DEF Rested
    <3>3. Len(c.data) \in Nat
      BY <3>2 DEF Bodies
    <3>4. QED
      BY <3>3
  <2>4. PICK base \in Nat : base = N - l /\ base + l = N
    <3>1. N - l \in Nat /\ (N - l) + l = N
      BY <2>2, <2>3
    <3>2. QED
      BY <3>1
  <2>5. Awaits(c, data, base)
    BY <2>2, <2>3, <2>4
  <2>6. Chunks(data)[base + Len(c.data)].at \notin {"done", "refused"}
    BY <2>5, AwaitsOpen
  <2>7. QED
    BY <1>4, <1>5, <2>3, <2>4, <2>6
<1>7. CASE k.at = "done"
  <2>1. b.status = 0 /\ b.file = k.file
    BY <1>2, <1>3, <1>7 DEF Decides, Fails
  <2>2. c.status = 0 /\ c.file = k.file
    BY <1>5, <1>6, <1>7 DEF Decides, Fails
  <2>3. QED
    BY <2>1, <2>2
<1>8. CASE k.at = "refused"
  <2>1. b.status = k.status /\ b.status # 0
    BY <1>2, <1>3, <1>8 DEF Decides, Fails
  <2>2. c.status = k.status
    BY <1>5, <1>6, <1>8 DEF Decides, Fails
  <2>3. QED
    BY <2>1, <2>2
<1>9. QED
  BY <1>4, <1>7, <1>8

LEMMA CutResult ==
  ASSUME CutInv
  PROVE  CutIndependent
<1>1. SUFFICES ASSUME Done, ~Absolute, ~NoSize
               PROVE  LET seen == Outcome(parser, body)
                          whole == Whole(request)
                      IN seen.status = whole.status /\ (seen.status = 0 => seen = whole)
  BY DEF CutIndependent
<1>2. Typed /\ HeadInv /\ BodyInv
  BY <1>1 DEF CutInv
<1>3. ~Closed(NewBody)
  BY DEF Closed, NewBody
<1>4. Ended(parser) /\ (parser.status = 0 /\ InBody => Closed(body))
  <2>1. parser.status # 0 \/ parser.state = "COMPLETE" \/ Closed(body)
    BY <1>1 DEF Done, Finished, Closed
  <2>2. Closed(body) => parser.status = 0 /\ InBody
    BY <1>2, <1>3 DEF BodyInv
  <2>3. QED
    BY <2>1, <2>2 DEF Ended, InBody
<1>5. PICK c : c = IF parser.status = 0 /\ parser.state = "BODY" THEN BeginBody(parser, Data)
                   ELSE NewBody
  OBVIOUS
<1>6. Whole(request) = Outcome(parser, c)
  <2>1. Parse(NewParser, SubSeq(Text(request), 1, Min({Len(Text(request)), BufferRequest})))
          = parser
    BY <1>1, <1>2, <1>4, WholeHead
  <2>2. QED
    BY <1>5, <2>1 DEF Whole, Data
<1>7. body.status = c.status /\ (body.status = 0 => body.file = c.file)
  <2>1. CASE parser.status # 0 \/ ~InBody
    <3>1. body = NewBody
      BY <1>2, <2>1 DEF BodyInv
    <3>2. c = NewBody
      BY <1>5, <2>1 DEF InBody
    <3>3. QED
      BY <3>1, <3>2
  <2>2. CASE parser.status = 0 /\ InBody /\ ~Chunked(parser)
    <3>1. body = BeginBody(parser, <<>>)
      BY <1>2, <2>2 DEF BodyInv
    <3>2. c = BeginBody(parser, Data)
      BY <1>5, <2>2 DEF InBody
    <3>3. QED
      BY <2>2, <3>1, <3>2, BeginOther
  <2>3. CASE parser.status = 0 /\ InBody /\ Chunked(parser)
    <3>1. PICK data \in Seq(Elements) : data = Data /\ Sized(data)
      BY <1>1, <1>2, <2>3, SizedIs
    <3>2. PICK n \in Nat : n = sent - parser.offset /\ n \in 0 .. Len(data)
      <4>1. PICK text \in Seq(Elements) : text = Text(request)
        BY <1>2, TextTyped DEF Typed
      <4>2. PICK N \in Nat : N = Len(text)
        OBVIOUS
      <4>3. PICK a \in Nat, offset \in Nat : a = sent /\ offset = parser.offset
        <5>1. Text(request) \in Seq(Elements) /\ parser.offset \in Nat
          BY <1>2, <4>1 DEF Typed, Parsers
        <5>2. sent \in Nat
          BY <1>2, <5>1 DEF Typed
        <5>3. QED
          BY <5>1, <5>2
      <4>4. offset <= a /\ a <= N
        <5>1. parser.offset <= sent /\ sent <= Len(Text(request))
          BY <1>2 DEF Typed
        <5>2. QED
          BY <5>1, <4>1, <4>2, <4>3
      <4>5. N \in 0 .. Len(text) /\ offset \in 0 .. N
        BY <4>2, <4>3, <4>4
      <4>6. Len(SubSeq(text, offset + 1, N)) = N - offset
        BY <4>5, SubSeqIs
      <4>7. Len(data) = N - offset
        BY <3>1, <4>1, <4>2, <4>3, <4>6 DEF Data
      <4>8. a - offset \in Nat /\ a - offset \in 0 .. N - offset
        BY <4>3, <4>4
      <4>9. QED
        BY <4>3, <4>7, <4>8
    <3>3. Handled(body, data, n)
      BY <1>2, <2>3, <3>1, <3>2 DEF BodyInv
    <3>4. Handled(c, data, Len(data))
      <4>1. Len(data) \in 0 .. Len(data) /\ SubSeq(data, 1, Len(data)) = data
        OBVIOUS
      <4>2. Handled(BeginBody(parser, SubSeq(data, 1, Len(data))), data, Len(data))
        BY <2>3, <3>1, <4>1, BeginChunks
      <4>3. c = BeginBody(parser, data)
        BY <1>5, <2>3, <3>1 DEF InBody
      <4>4. QED
        BY <4>1, <4>2, <4>3
    <3>5. QED
      BY <1>4, <2>3, <3>2, <3>3, <3>4, DecidedWhole
  <2>4. QED
    BY <2>1, <2>2, <2>3
<1>8. PICK seen, whole : seen = Outcome(parser, body) /\ whole = Outcome(parser, c)
  OBVIOUS
<1>9. /\ seen.status = IF parser.status # 0 THEN parser.status ELSE body.status
      /\ whole.status = IF parser.status # 0 THEN parser.status ELSE c.status
  BY <1>8 DEF Outcome
<1>10. seen.status = whole.status
  BY <1>7, <1>9
<1>11. ASSUME seen.status = 0 PROVE seen = whole
  <2>1. body.status = 0 /\ c.status = 0 /\ body.file = c.file
    BY <1>7, <1>9, <1>11
  <2>2. QED
    BY <1>8, <2>1 DEF Outcome
<1>12. QED
  BY <1>6, <1>8, <1>10, <1>11

\* Wherever the network cuts a request, in a word, between the two digits of a
\* "%", in an end of line, in the size, the data or the end of a chunk, the
\* server sees the request it would have seen had it come in one piece, or
\* refuses both with the same status: for every request, every size of the
\* buffers and every limit of a body.
THEOREM RequestCutIndependent == Spec => []CutIndependent
<1>1. Init => CutInv
  BY CutInit
<1>2. CutInv /\ [Next]_vars => CutInv'
  BY CutStep
<1>3. CutInv => CutIndependent
  BY CutResult
<1>4. QED
  BY <1>1, <1>2, <1>3, PTL DEF Spec
=============================================================================
