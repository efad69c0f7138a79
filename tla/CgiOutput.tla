------------------------------ MODULE CgiOutput ------------------------------
(***************************************************************************)
(* clsParseOutCGI (PartRespond/cgi): the output of a CGI, read in pieces   *)
(* cut anywhere, becomes an answer, a redirection or an error.  Its header *)
(* lines are parsed as they end, its body is kept in memory, and moved to  *)
(* a temporary file when it is too long.                                   *)
(*                                                                         *)
(* The output is a sequence of elements: a field with its name and value,  *)
(* "cr", "lf", or an octet of the body; an element counts as one byte.     *)
(***************************************************************************)
EXTENDS Integers, SequencesExt, FiniteSetsExt

CONSTANTS
  HeaderLimit,   \* MAX_HEADERS / 2
  MaxBody        \* MAX_BODY

\* The fields an output is made of: a status that is accepted, one of an error,
\* a malformed one; a Location with "://", with a path, with neither, blank.
FieldName ==
  [created |-> "status", busy |-> "status", illegal |-> "status",
   type |-> "content-type", away |-> "location", local |-> "location",
   odd |-> "location", blank |-> "location", cookie |-> "set-cookie",
   other |-> "x-other", date |-> "date"]

StatusOf == [created |-> 201, busy |-> 503]
Dropped == {"date", "server", "connection", "transfer-encoding", "content-length"}
Marks == {"content-type", "location", "status"}   \* stHeadersCGI
EmptyLine == <<"cr", "lf">>

-----------------------------------------------------------------------------
(***************************************************************************)
(* The parser.  stale says that it has read the byte behind a piece.       *)
(***************************************************************************)
NewParser ==
  [line |-> <<>>, size |-> 0, found |-> FALSE, exist |-> {}, fields |-> <<>>,
   keep |-> TRUE, bytes |-> 0, memory |-> <<>>, chunk |-> FALSE,
   file |-> <<>>, open |-> FALSE, status |-> 0, stale |-> FALSE]

Fail(p, code) == [p EXCEPT !.status = code]
Failed(p) == p.status # 0
Names(p) == {FieldName[f] : f \in Range(p.fields)}

\* clsParseOutCGI::_StoredHeadersField: a second status, type or Location is
\* refused, a blank value is not stored.
StoredHeadersField(p, f) ==
  LET name == FieldName[f]
  IN IF name \in Names(p) /\ name \in Marks THEN Fail(p, 502)
     ELSE IF f = "blank" THEN p
     ELSE [p EXCEPT !.fields = Append(@, f)]

\* clsParseOutCGI::_ValidHeaders, and the end of the line.
ValidHeaders(p) ==
  LET f == p.line[1]
      known == Len(p.line) = 3 /\ f \in DOMAIN FieldName /\ p.line[2] = "cr"
      name == FieldName[f]
      marked == [p EXCEPT !.exist = @ \cup ({name} \cap Marks),
                          !.keep = @ /\ f # "busy", !.line = <<>>]
  IN IF ~known \/ f = "illegal" THEN Fail(p, 502)
     ELSE IF name \in Dropped THEN [p EXCEPT !.line = <<>>]
     ELSE StoredHeadersField(marked, f)

\* A line of _ReceivingHeaders: s is the scan of a piece, i its _Counter, lines
\* how many lines it has ended.
EndLine(s) ==
  LET p == s.p
      ended(q, done) == [s EXCEPT !.p = q, !.lines = @ + 1, !.done = done]
      body == [p EXCEPT !.found = TRUE, !.line = <<>>]
  IN IF p.size > HeaderLimit THEN ended(Fail(p, 413), TRUE)
     ELSE IF p.line = EmptyLine
       THEN ended(IF p.exist = {} THEN Fail(body, 502) ELSE body, TRUE)
     ELSE LET q == ValidHeaders(p) IN ended(q, Failed(q))

\* An element under HelperFunctions::GetCleanLineHeader; the one over the limit
\* stops it and is not looked at again.
Take(s, e) ==
  LET counted == [s EXCEPT !.p.size = @ + 1]
      taken == [counted EXCEPT !.p.line = Append(@, e), !.i = @ + 1]
  IN IF s.done THEN s
     ELSE IF e = "lf" THEN EndLine(taken)
     ELSE IF counted.p.size > HeaderLimit THEN [counted EXCEPT !.done = TRUE]
     ELSE taken

\* GetCleanLineHeader looks for the "\n" one byte behind the piece too, where
\* the buffer keeps what was in it before; a second one there ends a second line.
Behind(s, stale) ==
  LET once == Take([s EXCEPT !.p.stale = TRUE], "lf")
  IN IF s.done \/ stale = 0 THEN s
     ELSE IF stale = 1 THEN once ELSE Take(once, "lf")

\* The elements of a piece, one after the other.
Scanned(start, piece) ==
  LET scan[k \in 0 .. Len(piece)] ==
        IF k = 0 THEN start ELSE Take(scan[k - 1], piece[k])
  IN scan[Len(piece)]

\* clsParseOutCGI::_ReceivingHeaders: the parser and the length of the headers.
ReceivingHeaders(p, piece, stale) ==
  LET start == [p |-> p, i |-> 0, lines |-> 0, done |-> FALSE]
      s == Behind(Scanned(start, piece), stale)
      q == s.p
  IN IF p.found THEN [p |-> p, counter |-> 0]
     ELSE IF ~Failed(q) /\ q.size > HeaderLimit /\ s.lines = 0
       THEN [p |-> Fail(q, 413), counter |-> s.i]
     ELSE [p |-> q, counter |-> s.i]

\* Fault: what was in memory is not written to the file first.
CreatFileTempOnly(p, octets) ==
  [p EXCEPT !.chunk = TRUE, !.open = TRUE, !.file = octets]

\* The body grows over the memory: a file with what was there, then the piece.
CreatFileTemp(p, octets) ==
  [p EXCEPT !.chunk = TRUE, !.open = TRUE, !.file = p.memory \o octets]

\* HelperFunctions::ft_str_copy ends a full memory with '\0', in place of its
\* last octet.
Copied(memory, octets) ==
  LET all == memory \o octets
  IN IF Len(all) = MaxBody THEN [all EXCEPT ![MaxBody] = "nul"] ELSE all

\* clsParseOutCGI::_ReceivingBody; disk is whether mkstemp() and write() work.
\* After a line that ended behind the piece, the length of its body is -1: as
\* an unsigned number it is over every limit, and write() refuses it.
ReceivingBody(h, piece, disk) ==
  LET p == h.p
      octets == SubSeq(piece, h.counter + 1, Len(piece))
      n == Len(piece) - h.counter
      more == [p EXCEPT !.bytes = @ + n]
  IN IF p.found /\ p.bytes < MaxBody THEN
       IF "content-type" \notin p.exist /\ more.bytes # 0 THEN Fail(more, 502)
       ELSE IF n < 0 THEN Fail([more EXCEPT !.chunk = TRUE, !.open = disk], 500)
       ELSE IF more.bytes <= MaxBody THEN [more EXCEPT !.memory = Copied(@, octets)]
       ELSE IF disk THEN CreatFileTemp(more, octets)
       ELSE Fail([more EXCEPT !.chunk = TRUE], 500)
     ELSE IF p.bytes > MaxBody THEN
       IF disk THEN [more EXCEPT !.file = @ \o octets] ELSE Fail(more, 500)
     ELSE p

\* clsParseOutCGI::ReceivingData, up to the end of the output: an error closes
\* the file.
ReceivingData(p, piece, stale, disk) ==
  LET q == ReceivingBody(ReceivingHeaders(p, piece, stale), piece, disk)
  IN IF Failed(q) THEN [q EXCEPT !.open = FALSE] ELSE q

-----------------------------------------------------------------------------
(***************************************************************************)
(* The answer.                                                             *)
(***************************************************************************)
Nothing == [kind |-> "none", status |-> 0, fields |-> <<>>, keep |-> FALSE,
            chunked |-> FALSE, body |-> <<>>]
Error(code) == [Nothing EXCEPT !.kind = "error", !.status = code]
LocalRedirect == [Nothing EXCEPT !.kind = "redirect"]

\* clsParseOutCGI::_HeaderResponseCGI; the status of a redirection is the wrong
\* way round, and is empty when the CGI gave none (_StatusRedirection).
HeaderResponseCGI(p) ==
  LET given == {StatusOf[f] : f \in Range(p.fields) \cap DOMAIN StatusOf}
      normal == IF given = {} THEN 200 ELSE CHOOSE code \in given : TRUE
      redirected == IF "status" \in p.exist THEN 302 ELSE 0
  IN [kind |-> "answer", fields |-> p.fields, keep |-> p.keep, chunked |-> p.chunk,
      status |-> IF "location" \in p.exist THEN redirected ELSE normal,
      body |-> IF p.chunk THEN p.file ELSE p.memory]

\* clsParseOutCGI::_BuilResponsedredirection and _InitialInternalRedirect; the
\* look at the Location adds one when it was blank.
BuilResponsedredirection(p) ==
  LET others == p.exist \ {"location"}
      client == "away" \in Range(p.fields)
      alone == Cardinality(Names(p) \cup {"location"}) = 1
  IN IF client /\ Cardinality(others) = 2 /\ p.bytes # 0 THEN HeaderResponseCGI(p)
     ELSE IF client /\ others = {} /\ p.bytes = 0 THEN HeaderResponseCGI(p)
     ELSE IF alone /\ p.bytes = 0 /\ "local" \in Range(p.fields) THEN LocalRedirect
     ELSE Error(502)

\* clsMainProcess::ParseCGI at the end of the output.
Concluded(p) ==
  IF Failed(p) THEN Error(p.status)
  ELSE IF ~p.found THEN Error(502)
  ELSE IF "location" \in p.exist THEN BuilResponsedredirection(p)
  ELSE HeaderResponseCGI(p)

-----------------------------------------------------------------------------
\* What the output is when it comes in one piece, and nothing is behind it.
Whole(output) ==
  LET p == ReceivingData(NewParser, output, 0, TRUE)
  IN Concluded(IF Failed(p) THEN p ELSE ReceivingData(p, <<>>, 0, TRUE))

\* The octets of an output: what follows its first empty line.
HeaderEnds(output) ==
  {i \in 2 .. Len(output) :
     /\ output[i - 1] = "cr" /\ output[i] = "lf"
     /\ i = 2 \/ output[i - 2] = "lf"}
Octets(output) ==
  IF HeaderEnds(output) = {} THEN <<>>
  ELSE SubSeq(output, Min(HeaderEnds(output)) + 1, Len(output))
=============================================================================
