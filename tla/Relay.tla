-------------------------------- MODULE Relay --------------------------------
(***************************************************************************)
(* From a source of data to the client's socket, through one buffer: the   *)
(* output of a CGI (CgiOutput), a file, or the rows of a directory         *)
(* (clsAutoIndex), and the loop of clsClient::_SendRespond that fills      *)
(* io_chunk and sends what it can of it.                                   *)
(*                                                                         *)
(* The buffer is a sequence of tokens with their bytes: sizes of chunks,   *)
(* runs of octets, rows of a listing.  send() stops between two tokens.    *)
(***************************************************************************)
EXTENDS CgiOutput

CONSTANTS
  Sources,     \* what is sent: kind, output of a CGI, size of a file, entries
  SizeBuffer,  \* SIZE_BUFFER
  HeadSize,    \* the bytes of the head of an answer
  MaxPiece     \* the bytes of one read of a CGI's output

\* What can be sent: _canPush asks for no less than a row takes.
IsSource(s) ==
  /\ s.kind \in {"cgi", "file", "index"} /\ s.size \in Nat
  /\ s.output \in Seq(Range(s.output)) /\ s.entries \in Seq(Range(s.entries))
  /\ \A entry \in Range(s.entries) :
       entry.needs \in Nat /\ entry.bytes \in 1 .. entry.needs

\* The head leaves room for a body in memory, and for the beginning of a listing.
ASSUME RelayAssumption ==
  /\ {HeaderLimit, MaxBody, SizeBuffer, HeadSize, MaxPiece} \subseteq Nat \ {0}
  /\ HeadSize + MaxBody <= SizeBuffer
  /\ HeadSize + 14 <= SizeBuffer
  /\ \A s \in Sources : IsSource(s)

VARIABLES
  source,   \* what is sent
  read,     \* how much of a CGI's output was read
  parser,   \* clsParseOutCGI
  verdict,  \* what the parser made of the output
  state,    \* clsClient::_state
  place,    \* _BodyPlace
  buffer,   \* io_chunk, its first bytesToSend bytes
  limit,    \* bodyLimit
  offset,   \* the file offset of _fdRespond
  dir,      \* clsAutoIndex
  wire      \* what send() took

sending == <<place, buffer, limit, offset, dir, wire>>
vars == <<source, read, parser, verdict, state, sending>>

Token(kind, n, bytes) == [kind |-> kind, n |-> n, bytes |-> bytes]
HeadToken == Token("head", 0, HeadSize)
Crlf == Token("crlf", 0, 2)
LastChunk == Token("last", 0, 5)
Run(first, n) == Token("octets", first, n)

\* The bytes of the tokens of some kinds, and of all of them.
Content == {"octets", "row", "index", "end"}
TokenKinds == Content \cup {"head", "size", "crlf", "last", "bare"}
BytesOf(tokens, kinds) ==
  LET sum[i \in 0 .. Len(tokens)] ==
        IF i = 0 THEN 0
        ELSE sum[i - 1] + (IF tokens[i].kind \in kinds THEN tokens[i].bytes ELSE 0)
  IN sum[Len(tokens)]
Bytes(tokens) == BytesOf(tokens, TokenKinds)

\* The entries of a directory: the bytes of a row and the larger number that
\* _canPush asks for.
Hidden(entry) == entry.name \in {".", ".."}

NewDir == [flow |-> "START", at |-> 0, ptr |-> 0, refused |-> {}]

Init ==
  /\ source \in Sources
  /\ read = 0
  /\ parser = NewParser
  /\ verdict = Nothing
  /\ state = IF source.kind = "cgi" THEN "CGI_RUNING" ELSE "START_RESPOND"
  /\ place = "NONE"
  /\ buffer = <<>>
  /\ limit = 0
  /\ offset = 0
  /\ dir = NewDir
  /\ wire = <<>>

-----------------------------------------------------------------------------
(***************************************************************************)
(* The CGI: clsClient::monitorCgi, timeoutCgi and clsMainProcess::ParseCGI.*)
(***************************************************************************)
Conclude(v) ==
  /\ verdict' = v
  /\ state' = IF v.kind = "answer" THEN "CGI_END" ELSE "ELSEWHERE"

\* A piece of the output; an error of it kills the CGI (END_WITH_PARSE).
ReadPiece ==
  /\ state = "CGI_RUNING"
  /\ \E n \in 1 .. MaxPiece, stale \in 0 .. 2, disk \in BOOLEAN :
       /\ read + n <= Len(source.output)
       /\ read' = read + n
       /\ \E p \in {ReceivingData(parser, SubSeq(source.output, read + 1, read + n),
                                  stale, disk)} :
            /\ parser' = p
            /\ IF Failed(p) THEN Conclude(Error(p.status)) ELSE UNCHANGED <<verdict, state>>
  /\ UNCHANGED <<source, sending>>

\* The end of the pipe and a normal exit: the parser is called once more, with
\* nothing.
EndOfOutput ==
  /\ state = "CGI_RUNING"
  /\ read = Len(source.output)
  /\ \E stale \in 0 .. 2, disk \in BOOLEAN :
       \E p \in {ReceivingData(parser, <<>>, stale, disk)} :
         /\ parser' = [p EXCEPT !.open = FALSE]
         /\ Conclude(Concluded(p))
  /\ UNCHANGED <<source, read, sending>>

\* CGI_TIMEOUT, or an exit that is not normal: the parser is not told, and its
\* file stays open (clsParseOutCGI::Reset forgets it).
EndBadly ==
  /\ state = "CGI_RUNING"
  /\ \E code \in {504, 500} : Conclude(Error(code))
  /\ UNCHANGED <<source, read, parser, sending>>

-----------------------------------------------------------------------------
(***************************************************************************)
(* clsClient::_initalizeRespondBuffer, for an answer.                      *)
(***************************************************************************)
BodySize == IF source.kind = "cgi" THEN parser.bytes ELSE source.size

StartAnswer(where) ==
  /\ state' = "RESPOND_MODE"
  /\ place' = where
  /\ buffer' = IF where = "RAM" /\ BodySize > 0
                 THEN <<HeadToken, Run(1, BodySize)>> ELSE <<HeadToken>>
  /\ limit' = IF where = "DISK" THEN BodySize ELSE limit
  /\ UNCHANGED <<source, read, parser, verdict, offset, dir, wire>>

InitRespondBuffer ==
  \/ /\ state = "CGI_END"
     /\ StartAnswer(IF verdict.chunked THEN "DISK" ELSE "RAM")
  \/ /\ state = "START_RESPOND"
     /\ StartAnswer(IF source.kind = "file" THEN "DISK" ELSE "AUTO_INDEX")

-----------------------------------------------------------------------------
(***************************************************************************)
(* clsAutoIndex::insertAutoDirective, in steps: x carries the cursor and   *)
(* what this call has put in the buffer, without the size of its chunk.    *)
(***************************************************************************)
Reserved == 8
IndexHead == Token("index", 0, 6)
IndexEnd == Token("end", 0, 4)
Row(i) == Token("row", i, source.entries[i].bytes)

CanPush(x, i) == source.entries[i].needs <= x.room - Bytes(x.pushed) - Reserved

PushRow(x, i) == [x EXCEPT !.pushed = Append(@, Row(i))]

\* Fault: an entry that did not fit stays the current one and is tried twice.
RetriedRow(x, i) ==
  IF Hidden(source.entries[i]) THEN x
  ELSE IF CanPush(x, i) THEN PushRow(PushRow(x, i), i)
  ELSE [x EXCEPT !.flow = "I_CANT_PUSH", !.refused = @ \cup {i}]

\* An entry under the loop; the ones that are not shown are skipped.
InsertRow(x, i) ==
  IF Hidden(source.entries[i]) THEN x
  ELSE IF CanPush(x, i) THEN PushRow(x, i)
  ELSE [x EXCEPT !.flow = "I_CANT_PUSH", !.refused = @ \cup {i}]

\* `while ((ptrDir = readdir(..)) != NULL && flowEnum == CAN_PUSH)`: the entry
\* after one that did not fit has been read, and is the current one.
Turn(x, i) ==
  IF x.done THEN x
  ELSE IF x.flow # "CAN_PUSH" THEN [x EXCEPT !.at = i, !.ptr = i, !.done = TRUE]
  ELSE InsertRow([x EXCEPT !.at = i, !.ptr = i], i)

Rows(x) ==
  LET rest == Len(source.entries) - x.at
      turn[k \in 0 .. rest] ==
        IF k = 0 THEN [x EXCEPT !.flow = "CAN_PUSH", !.done = FALSE]
        ELSE Turn(turn[k - 1], x.at + k)
      y == turn[rest]
  IN IF y.done THEN y ELSE [y EXCEPT !.ptr = 0, !.flow = "END_TAG"]

\* clsAutoIndex::_closeAutoIndex, when there is room for it.
CloseAutoIndex(x) ==
  IF x.flow = "END_TAG" /\ x.room - Bytes(x.pushed) - Reserved >= IndexEnd.bytes
    THEN [x EXCEPT !.pushed = Append(@, IndexEnd), !.flow = "LAST_CHUNKED_AUTO"]
    ELSE x

Begun(x) ==
  CASE x.flow = "START" -> Rows([x EXCEPT !.pushed = <<IndexHead>>])
    [] x.flow = "I_CANT_PUSH" ->
         IF CanPush(x, x.ptr) THEN Rows(PushRow(x, x.ptr)) ELSE x
    [] OTHER -> x

\* Fault: there is no test of the room for the last chunk.
LastWithoutRoom(x) == x.flow = "LAST_CHUNKED_AUTO"

\* The chunk counts six of its eight bytes in the test of its end.
LastFits(x) ==
  LET pushed == Bytes(x.pushed)
  IN x.flow = "LAST_CHUNKED_AUTO"
     /\ x.room - (IF pushed > 0 THEN pushed + 6 ELSE 0) - LastChunk.bytes >= 0

InsertAutoDirective(b) ==
  LET start == [flow |-> dir.flow, at |-> dir.at, ptr |-> dir.ptr,
                refused |-> dir.refused, done |-> FALSE, pushed |-> <<>>,
                room |-> SizeBuffer - Bytes(b)]
      x == CloseAutoIndex(Begun(start))
      size == Token("size", Bytes(x.pushed), 6)
      chunk == IF x.pushed = <<>> THEN <<>> ELSE <<size>> \o x.pushed \o <<Crlf>>
      last == IF LastFits(x) THEN <<LastChunk>> ELSE <<>>
  IN [buffer |-> b \o chunk \o last,
      dir |-> [flow |-> IF LastFits(x) THEN "DONE_AUTO_INDEX" ELSE x.flow,
               at |-> x.at, ptr |-> x.ptr, refused |-> x.refused]]

-----------------------------------------------------------------------------
(***************************************************************************)
(* clsClient::_SendRespond.                                                *)
(***************************************************************************)
\* The bytes of a size in hexadecimal, and its end of line.
SizeLine(n) == Token("size", n, IF n < 16 THEN 3 ELSE IF n < 256 THEN 4 ELSE 6)

\* clsClient::_addSizeChunkToStr: what is read of the file for a chunk.
ChunkSize(b) ==
  LET room == SizeBuffer - Bytes(b) - 10
  IN IF room <= 0 THEN 0 ELSE IF room < limit THEN room ELSE limit

\* Fault: what was not sent is not moved to the beginning.
SentAgain(b, n) == IF n = Len(b) THEN <<>> ELSE b

\* What a send of n tokens leaves, moved to the beginning.
Sent(b, n) == SubSeq(b, n + 1, Len(b))

\* send(): n tokens of b go out, all of them or fewer; nothing when it fails.
Ends(st, b) ==
  \/ b = <<>> /\ place = "RAM"
  \/ b = <<>> /\ st = "LAST_CHUNKED" /\ limit' = 0
  \/ st = "AUTO_INDEX_DONE"

\* When the answer has ended; what is left of the buffer is not looked at.
Send(st, b) ==
  \E n \in 0 .. Len(b) :
    /\ wire' = wire \o SubSeq(b, 1, n)
    /\ buffer' = Sent(b, n)
    /\ state' = IF (n > 0 \/ b = <<>>) /\ Ends(st, Sent(b, n)) THEN "BEGIN" ELSE st

SendMemory ==
  /\ state = "RESPOND_MODE"
  /\ place = "RAM"
  /\ UNCHANGED limit
  /\ Send(state, buffer)
  /\ UNCHANGED <<source, read, parser, verdict, place, offset, dir>>

\* The next chunk of the file, if there is room for it and its last one after
\* it was all sent.
SendFile ==
  /\ state = "RESPOND_MODE"
  /\ place = "DISK"
  /\ LET n == ChunkSize(buffer)
         last == limit = 0 /\ SizeBuffer - Bytes(buffer) > 10
     IN /\ limit' = limit - n
        /\ offset' = offset + n
        /\ Send(IF last THEN "LAST_CHUNKED" ELSE state,
                buffer \o (IF last THEN <<LastChunk>>
                           ELSE IF n = 0 THEN <<>>
                           ELSE <<SizeLine(n), Run(offset + 1, n), Crlf>>))
  /\ UNCHANGED <<source, read, parser, verdict, place, dir>>

SendIndex ==
  /\ state = "RESPOND_MODE"
  /\ place = "AUTO_INDEX"
  /\ UNCHANGED limit
  /\ \E x \in {InsertAutoDirective(buffer)} :
       /\ dir' = x.dir
       /\ Send(IF x.dir.flow = "DONE_AUTO_INDEX" THEN "AUTO_INDEX_DONE" ELSE state,
               x.buffer)
  /\ UNCHANGED <<source, read, parser, verdict, place, offset>>

\* The file cannot be opened: a bare 500 instead, whatever is in the buffer.
OpenFails ==
  /\ state = "RESPOND_MODE"
  /\ place = "DISK" /\ offset = 0 /\ wire = <<>>
  /\ wire' = <<Token("bare", 500, 0)>>
  /\ state' = "CONNECTION_CLOSED"
  /\ UNCHANGED <<source, read, parser, verdict, place, buffer, limit, offset, dir>>

\* The client's timeout, its error or its end.  An answer cut after its last
\* chunk was put in the buffer has no other end: ProcessRespond sends in
\* RESPOND_MODE only.
CloseConnection ==
  /\ state \notin {"CONNECTION_CLOSED", "BEGIN", "ELSEWHERE"}
  /\ state' = "CONNECTION_CLOSED"
  /\ UNCHANGED <<source, read, parser, verdict, sending>>

Next == ReadPiece \/ EndOfOutput \/ EndBadly \/ InitRespondBuffer
          \/ SendMemory \/ SendFile \/ SendIndex \/ OpenFails \/ CloseConnection

Spec == Init /\ [][Next]_vars

-----------------------------------------------------------------------------
(***************************************************************************)
(* Properties.                                                             *)
(***************************************************************************)
Places == {"NONE", "RAM", "DISK", "AUTO_INDEX"}
States == {"CGI_RUNING", "CGI_END", "ELSEWHERE", "START_RESPOND", "RESPOND_MODE",
           "LAST_CHUNKED", "AUTO_INDEX_DONE", "BEGIN", "CONNECTION_CLOSED"}

TypeOK ==
  /\ source \in Sources /\ state \in States /\ place \in Places
  /\ read \in Nat /\ limit \in Nat /\ offset \in Nat
  /\ verdict.kind \in {"none", "error", "redirect", "answer"}

\* What is kept of the octets of an output.  When a piece ended with the memory just
\* full, what comes after it was dropped, and its last octet is lost.
Kept(octets) == IF parser.bytes = MaxBody THEN Append(SubSeq(octets, 1, MaxBody - 1), "nul")
                ELSE octets
KeptOf(answer) == IF answer.kind = "answer" /\ parser.bytes = MaxBody
                    THEN [answer EXCEPT !.chunked = FALSE, !.body = Kept(Octets(source.output))]
                    ELSE answer

\* What the server makes of an output does not depend on where the pipe cut it:
\* the parser that stops between two bytes of a line, of an end of line, of the
\* empty line, and of the body, concludes as if it had all at once; only the rest of
\* a body behind a full memory depends on it.  A failure of the CGI or of the disk is
\* an answer of its own, and so is an output of which the byte behind a piece was
\* taken for a part.
SegmentationIndependent ==
  verdict.kind # "none" /\ ~parser.stale /\ verdict.status \notin {500, 504} =>
    verdict = KeptOf(Whole(source.output))

\* What was sent and what is about to be.
Out == wire \o buffer

\* The chunks announce what they hold, to the byte, and nothing follows the last
\* one, in what was sent and what is about to be: partial sends, a buffer with
\* little room and the move of what was not sent keep it so.
FramingExact ==
  /\ \A i \in DOMAIN Out : Out[i].kind = "size" =>
       \E j \in i + 2 .. Len(Out) :
         /\ Out[j] = Crlf
         /\ \A k \in i + 1 .. j - 1 : Out[k].kind \in Content
         /\ Bytes(SubSeq(Out, i + 1, j - 1)) = Out[i].n
  /\ \A i \in DOMAIN Out : Out[i].kind = "last" => i = Len(Out)

\* Every octet once and in order.
Carried(tokens) == BytesOf(tokens, {"octets"})
Contiguous(tokens) ==
  \A i \in DOMAIN tokens :
    tokens[i].kind = "octets" => tokens[i].n = 1 + Carried(SubSeq(tokens, 1, i - 1))

\* An answer that ended was sent whole: the client has every octet of the file, or
\* of what was kept of the output, once and in order, and the connection goes on with
\* nothing left in the buffer.  A listing was put in the buffer up to its last chunk,
\* but ends with the first send() after it, whatever that one has left there.
Delivered ==
  state = "BEGIN" =>
    IF place = "AUTO_INDEX"
      THEN dir.flow = "DONE_AUTO_INDEX" /\ Last(Out) = LastChunk
    ELSE /\ buffer = <<>>
         /\ Contiguous(wire) /\ Carried(wire) = BodySize
         /\ place = "DISK" => Last(wire) = LastChunk
         /\ source.kind = "cgi" =>
              /\ Len(verdict.body) = BodySize
              /\ ~parser.stale => verdict.body = Kept(Octets(source.output))

IsRow(i) == Out[i].kind = "row"
Listed == {Out[i].n : i \in {j \in DOMAIN Out : IsRow(j)}}

\* A listing has a row for each entry, once, in the order of readdir(), over as
\* many buffers as it takes; but an entry whose row did not fit is replaced by
\* the one that readdir() had already given, even "." or "..", or by none.
RowsOnce ==
  /\ \A i, j \in DOMAIN Out : i < j /\ IsRow(i) /\ IsRow(j) => Out[i].n < Out[j].n
  /\ \A i \in Listed : Hidden(source.entries[i]) => i - 1 \in dir.refused
  /\ dir.flow = "DONE_AUTO_INDEX" =>
       \A i \in DOMAIN source.entries :
         Hidden(source.entries[i]) \/ i \in Listed \cup dir.refused

\* The buffer is never filled over its end; for the last chunk of a listing, by
\* two bytes at most.
BufferFits ==
  Bytes(buffer) <= SizeBuffer + (IF LastChunk \in Range(buffer) THEN 2 ELSE 0)
=============================================================================
