------------------------------ MODULE BodyStore ------------------------------
(***************************************************************************)
(* The bodies of POST requests on disk: the clsBody of every client slot   *)
(* (Parser/ParseRequest/Request/clsBody.cpp), driven by RequestParser and  *)
(* by the life of the connection, against the directories it writes into.  *)
(*                                                                         *)
(* An upload goes to the file its path names or, when that is a directory, *)
(* to a new file in it; the body of a request for a CGI goes to a file of  *)
(* /tmp that lives as long as the request.  A slot is reused by the next   *)
(* request and by the next connection, and so is its clsBody.              *)
(*                                                                         *)
(* The octets of a body are abstracted to whose they are and how many      *)
(* there should be; how chunks are cut is not the subject here: a piece of *)
(* a body is any number of its octets.                                     *)
(***************************************************************************)
EXTENDS Naturals, Sequences

CONSTANTS
  Slots,           \* the client slots
  Targets,         \* Targets[s]: file names the peers of slot s upload to
  RandomNames,     \* names "<directory>/RANDOM.XXXXXX" mkstemp can make up
  TempNames,       \* names "/tmp/file.XXXXXX" mkstemp can make up
  Lengths,         \* bound: lengths of bodies
  None             \* no file, no name

Names == UNION {Targets[s] : s \in Slots}
Files == Names \cup RandomNames \cup TempNames

ASSUME StoreAssumption ==
  /\ Lengths \subseteq Nat \ {0}
  /\ Names \cap RandomNames = {}
  /\ TempNames \cap (Names \cup RandomNames) = {}
  /\ None \notin Files

VARIABLES
  conn,   \* what the connection of each slot is doing
  asked,  \* the request it is doing it for
  body,   \* _Requester._body, the clsBody of each slot
  file,   \* the octets of each existing file (None: there is no such file)
  errno   \* the errno of the process

vars == <<conn, asked, body, file, errno>>

-----------------------------------------------------------------------------
step == {"SETTING_VARS", "READING_BODY", "SECOND_CRLF", "DONE_GOOD",
         "DONE_WIHTERROR"}

\* What a POST asks for: a file, a file in a directory, the stdin of a CGI.
Requests == [kind: {"upload"}, target: Names, length: Lengths,
             chunked: BOOLEAN]
       \cup [kind: {"directory", "cgi"}, target: {None}, length: Lengths,
             chunked: BOOLEAN]
NoRequest == [kind |-> "none", target |-> None, length |-> 0,
              chunked |-> FALSE]

\* open: fd is not -1.  linked: fd is the file its name still leads to.
\* written is writeSize and the position of fd.
Body == [step: step, open: BOOLEAN, linked: BOOLEAN,
         name: Files \cup {None}, removeFile: BOOLEAN,
         contentLength: Lengths \cup {0}, isChunk: BOOLEAN, written: Nat]

\* An octet says whose it is and how long the body it belongs to is; an octet
\* between the end of a file and a later write is None.
Octets == (Slots \X Lengths) \cup {None}

TypeOK ==
  /\ conn \in [Slots -> {"free", "idle", "head", "body", "done"}]
  /\ asked \in [Slots -> Requests \cup {NoRequest}]
  /\ body \in [Slots -> Body]
  /\ \A s \in Slots : body[s].written <= asked[s].length
  /\ file \in [Files -> Seq(Octets) \cup {None}]
  /\ errno \in {"EISDIR", "other"}

NewBody == [step |-> "SETTING_VARS", open |-> FALSE, linked |-> FALSE,
            name |-> None, removeFile |-> FALSE, contentLength |-> 0,
            isChunk |-> FALSE, written |-> 0]

Init ==
  /\ conn = [s \in Slots |-> "free"]
  /\ asked = [s \in Slots |-> NoRequest]
  /\ body = [s \in Slots |-> NewBody]
  /\ file = [n \in Files |-> None]
  /\ errno = "other"

-----------------------------------------------------------------------------
(***************************************************************************)
(* Files.                                                                  *)
(***************************************************************************)
Exists(n) == file[n] # None

\* remove(name): who has the file open keeps it, without its name.
Unlinked(bodies, n) ==
  [s \in Slots |-> IF bodies[s].name = n
                     THEN [bodies[s] EXCEPT !.linked = FALSE]
                     ELSE bodies[s]]

\* write() of k octets at the position of the descriptor.
Overwritten(octets, from, k, octet) ==
  [i \in 1 .. IF from + k > Len(octets) THEN from + k ELSE Len(octets) |->
     IF i \in from + 1 .. from + k THEN octet
     ELSE IF i <= Len(octets) THEN octets[i] ELSE None]

Written(files, b, k, octet) ==
  IF b.linked /\ k > 0
    THEN [files EXCEPT ![b.name] = Overwritten(@, b.written, k, octet)]
    ELSE files

-----------------------------------------------------------------------------
(***************************************************************************)
(* clsBody::Reset.  It does not reset the step.                            *)
(***************************************************************************)
\* Fault: only temporary files are removed.
DiscardsTemporary(b) == b.open /\ b.removeFile

\* Fault: only what was not stored is removed.
DiscardsUnfinished(b) == b.open /\ b.step # "DONE_GOOD"

\* Fault: everything is removed.
DiscardsAll(b) == b.open

\* Whether Reset removes the file of the body.
Discards(b) == b.open /\ (b.step # "DONE_GOOD" \/ b.removeFile)

\* remove() takes the name, whatever file it leads to by now.
Reset(s) ==
  LET b == body[s]
      gone == Discards(b)
      bodies == IF gone THEN Unlinked(body, b.name) ELSE body
  IN /\ file' = IF gone THEN [file EXCEPT ![b.name] = None] ELSE file
     /\ body' = [bodies EXCEPT ![s] = [NewBody EXCEPT !.step = b.step]]
     /\ asked' = [asked EXCEPT ![s] = NoRequest]

-----------------------------------------------------------------------------
(***************************************************************************)
(* The connection of a slot.                                               *)
(***************************************************************************)
Turn(s, from, to) ==
  /\ conn[s] \in from
  /\ conn' = [conn EXCEPT ![s] = to]

Connect(s) ==
  /\ Turn(s, {"free"}, "idle")
  /\ UNCHANGED <<asked, body, file, errno>>

\* ProcessRequest at BEGIN: ResetAll, then the first bytes of a request.
FirstRead(s) ==
  /\ Turn(s, {"idle"}, "head")
  /\ Reset(s)
  /\ UNCHANGED errno

\* A request that stores no body: another method, or one refused before
\* bodyHandler is reached.
NoBody(s) ==
  /\ Turn(s, {"head"}, "done")
  /\ UNCHANGED <<asked, body, file, errno>>

\* _DeleteResource of a file; who is writing it goes on without its name.
Delete(s, n) ==
  /\ Turn(s, {"head"}, "done")
  /\ Exists(n)
  /\ file' = [file EXCEPT ![n] = None]
  /\ body' = Unlinked(body, n)
  /\ UNCHANGED <<asked, errno>>

\* _DeleteResource of an empty directory: remove() first tries unlink(), which
\* fails with EISDIR, then rmdir(), which does not touch errno.
DeleteDirectory(s) ==
  /\ Turn(s, {"head"}, "done")
  /\ errno' = "EISDIR"
  /\ UNCHANGED <<asked, body, file>>

\* Any other call of the process that fails.
OtherFailure ==
  /\ errno' = "other"
  /\ UNCHANGED <<conn, asked, body, file>>

\* The response is sent and the connection is kept: the clsBody is not reset
\* before the next request arrives.
Answer(s) ==
  /\ Turn(s, {"done"}, "idle")
  /\ asked' = [asked EXCEPT ![s] = NoRequest]
  /\ UNCHANGED <<body, file, errno>>

\* The connection ends: the peer closes it, a call fails, a timeout.
Leave(s) ==
  /\ Turn(s, {"idle", "head", "body", "done"}, "free")
  /\ Reset(s)
  /\ UNCHANGED errno

-----------------------------------------------------------------------------
(***************************************************************************)
(* clsBody::ParseBody on the octets that arrived.                          *)
(***************************************************************************)
\* Fault: a piece is not cut at the end of its body.
PiecesUncut(b, r) == IF b.step = "SECOND_CRLF" THEN {0} ELSE 0 .. r.length

\* Octets one call may write: a plain body is cut at its length, a chunked one
\* by its peer, and nothing is written after its last chunk.
Pieces(b, r) ==
  IF ~b.isChunk THEN 0 .. b.contentLength - b.written
  ELSE IF b.step = "SECOND_CRLF" THEN {0}
  ELSE 0 .. r.length - b.written

\* StoreNormalBodyInDisk and _handleChunk: the step after k more octets.  Any
\* chunk may be malformed or too large, and any write() may fail.
StepsAfter(b, r, k) ==
  IF ~b.isChunk
    THEN IF b.written + k = b.contentLength THEN {"DONE_GOOD"}
         ELSE {"READING_BODY"} \cup {e \in {"DONE_WIHTERROR"} : k = 0}
    ELSE {b.step, "DONE_WIHTERROR"}
         \cup {d \in {"SECOND_CRLF", "DONE_GOOD"} : b.written + k = r.length}

\* The clsBody after it; the counters of a body that is done are not read again.
Advanced(b, st, k) ==
  IF st \in {"DONE_GOOD", "DONE_WIHTERROR"}
    THEN [b EXCEPT !.step = st, !.contentLength = 0, !.isChunk = FALSE,
                   !.written = 0]
    ELSE [b EXCEPT !.step = st, !.written = @ + k]

ParseBody(s, b, files, r) ==
  \E k \in Pieces(b, r) : \E st \in StepsAfter(b, r, k) :
    /\ body' = [body EXCEPT ![s] = Advanced(b, st, k)]
    /\ file' = Written(files, b, k, <<s, r.length>>)
    /\ conn' = [conn EXCEPT ![s] =
                  IF st \in {"READING_BODY", "SECOND_CRLF"} THEN "body"
                  ELSE "done"]

-----------------------------------------------------------------------------
(***************************************************************************)
(* clsBody::bodyHandler, called when the headers are complete.             *)
(***************************************************************************)
\* What an opening can lead to: the clsBody, the files and errno after it.
Outcome(b, files, e) == [body |-> b, file |-> files, errno |-> e]

Open(b, r, n) ==
  [b EXCEPT !.step = "READING_BODY", !.open = TRUE, !.linked = TRUE,
            !.name = n, !.removeFile = (r.kind = "cgi"),
            !.contentLength = IF r.chunked THEN 0 ELSE r.length,
            !.isChunk = r.chunked]

\* No file: status 500 (the other fields are not read before the next Reset).
Failed(b) == [b EXCEPT !.step = "DONE_WIHTERROR"]

\* Fault: O_TRUNC is forgotten.
Created(n) == IF Exists(n) THEN file ELSE [file EXCEPT ![n] = <<>>]

\* open() with O_CREAT and O_TRUNC.
Truncated(n) == [file EXCEPT ![n] = <<>>]

\* open() of a file; errno, read although open() succeeded, may say that it is
\* a directory, and then no random file can be made under it.
OpenFile(b, r) ==
  {IF errno = "EISDIR" THEN Outcome(Failed(b), Truncated(r.target), "other")
   ELSE Outcome(Open(b, r, r.target), Truncated(r.target), errno)}

\* mkstemp() takes a name that does not exist; that it makes up again a name
\* that was deleted under an open body is left out (62^6 names).
Unused(names) ==
  {n \in names : ~Exists(n) /\ \A s \in Slots : body[s].open => body[s].name # n}

\* open() of a directory fails with EISDIR, close(-1) with EBADF, and mkstemp
\* makes a new file in it.
OpenRandom(b, r) ==
  {Outcome(Open(b, r, n), Truncated(n), "other") : n \in Unused(RandomNames)}

\* mkstemp in /tmp.
OpenTemp(b, r) ==
  {Outcome(Open(b, r, n), Truncated(n), errno) : n \in Unused(TempNames)}

\* open() and mkstemp() may fail: no descriptor, no right, no space.
Openings(b, r) ==
  {Outcome(Failed(b), file, "other")}
  \cup (CASE r.kind = "upload" -> OpenFile(b, r)
          [] r.kind = "directory" -> OpenRandom(b, r)
          [] r.kind = "cgi" -> OpenTemp(b, r))

\* Steps in which bodyHandler initialises its variables; in the others it
\* takes the body for one that has begun.
FreshSteps == {"SETTING_VARS", "DONE_GOOD", "DONE_WIHTERROR"}

MayAsk(s, r) == r.kind = "upload" => r.target \in Targets[s]

\* The first bytes of a body are refused (its length, its coding), have no
\* file to go to, or are stored.
Post(s) ==
  /\ conn[s] = "head"
  /\ body[s].step \in FreshSteps
  /\ \E r \in Requests :
       /\ MayAsk(s, r)
       /\ asked' = [asked EXCEPT ![s] = r]
       /\ \E o \in Openings(body[s], r) :
            /\ errno' = o.errno
            /\ \/ /\ ~o.body.open
                  /\ Turn(s, {"head"}, "done")
                  /\ body' = [body EXCEPT ![s] = o.body]
                  /\ file' = o.file
               \/ /\ o.body.open
                  /\ ParseBody(s, o.body, o.file, r)

\* The step of an earlier connection is still there: nothing is initialised.
PostUnfinished(s) ==
  /\ conn[s] = "head"
  /\ body[s].step \notin FreshSteps
  /\ \E r \in Requests :
       /\ MayAsk(s, r)
       /\ asked' = [asked EXCEPT ![s] = r]
       /\ ParseBody(s, body[s], file, r)
  /\ UNCHANGED errno

\* More octets of the body arrive.
Store(s) ==
  /\ conn[s] = "body"
  /\ ParseBody(s, body[s], file, asked[s])
  /\ UNCHANGED <<asked, errno>>

Next ==
  \/ OtherFailure
  \/ \E s \in Slots :
       \/ Connect(s) \/ FirstRead(s) \/ NoBody(s) \/ DeleteDirectory(s)
       \/ Post(s) \/ PostUnfinished(s) \/ Store(s) \/ Answer(s) \/ Leave(s)
       \/ \E n \in Names \cup RandomNames : Delete(s, n)

Spec == Init /\ [][Next]_vars

-----------------------------------------------------------------------------
(***************************************************************************)
(* Properties.                                                             *)
(***************************************************************************)
\* The octets of request r of slot s, all of them and in their order.
Content(s, r) == [i \in 1 .. r.length |-> <<s, r.length>>]

Whole(octets) == \E s \in Slots, l \in Lengths :
                   octets = Content(s, [length |-> l])

Holds(s, n) == body[s].open /\ body[s].linked /\ body[s].name = n
Held(n) == \E s \in Slots : conn[s] # "free" /\ Holds(s, n)

\* A temporary file never outlives its connection, and no connection forgets
\* one: what exists in /tmp is held open by a slot in use, whatever way its
\* request or its connection ended (clsBody::Reset, removeFile).
NoTempLeft == \A n \in TempNames : Exists(n) => Held(n)

\* A body that was cut short, refused in its middle or could not be written
\* leaves nothing of it behind: a file that no slot holds is a whole body, or
\* empty (clsBody::Reset; RegularFileKept is about the empty ones).
NoPartialFile ==
  \A n \in Files : Exists(n) /\ ~Held(n) => Whole(file[n]) \/ file[n] = <<>>

\* Success is reported only for a body that is on disk: when a request that
\* opened a file ends well, the file has exactly its octets and no others,
\* whatever was in it before and however the body was cut into pieces
\* (_createUploadStoreFile, StoreNormalBodyInDisk, _handleChunk).
StoredExact ==
  \A s \in Slots :
    conn[s] = "done" /\ body[s].step = "DONE_GOOD"
      /\ body[s].open /\ body[s].linked
        => file[body[s].name] = Content(s, asked[s])

\* A stored upload stays as it is: only a DELETE of it, or a POST of the same
\* name, changes or removes it.  The end of its connection, the reuse of its
\* slot and the clean-up of other bodies do not (clsBody::Reset).
Uploads == Names \cup RandomNames
Stored(n) == /\ Exists(n)
             /\ Whole(file[n])
             /\ \A s \in Slots : Holds(s, n) => body[s].step = "DONE_GOOD"
UploadsKept ==
  [][\A n \in Uploads :
       Stored(n) /\ file'[n] # file[n] =>
         \E s \in Slots :
           conn[s] = "head" /\ (Delete(s, n) \/ asked'[s].target = n)]_vars

\* A POST that is answered with success was stored, or given to its CGI: the
\* server answers the request that was sent (README.md: "the client receives
\* the exact content and pages he requested, by following the HTTP rules").
UploadExact ==
  \A s \in Slots :
    conn[s] = "done" /\ asked[s].kind # "none" /\ body[s].step = "DONE_GOOD"
      => body[s].open

\* A regular file is not taken for a directory (clsBody.cpp:67, "if is dir"):
\* the file an upload names is not left empty by an upload that failed.
RegularFileKept ==
  \A n \in Names : Exists(n) /\ ~Held(n) => file[n] # <<>>
=============================================================================
