------------------------------ MODULE Response ------------------------------
(***************************************************************************)
(* From a request to the head of its answer, for one client slot: the      *)
(* routing of the request, clsMainProcess, clsResponse and clsErrorPage    *)
(* (PartRespond), and the decision of clsClient::_handleInternal to start  *)
(* again for an error or for a redirection that a CGI asked for.           *)
(*                                                                         *)
(* The slot is used by one request after another, of one connection or of  *)
(* several, so its objects are too.  The bytes of heads and bodies are     *)
(* left out: a head is its status, its framing and its Connection field, a *)
(* body is where it comes from.                                            *)
(***************************************************************************)
EXTENDS Routing

CONSTANTS
  Servers,         \* configurations, one is chosen
  Requests,        \* requests of the client: uri, method, close
  Files,           \* what is on disk at the beginning
  LineErrors,      \* codes a request line is refused with
  HeaderErrors,    \* codes the headers are refused with
  BodyErrors,      \* codes a body is refused with
  MaxInternalLoop  \* MAX_INTERNAL_LOOP

\* A page elsewhere has the code of a redirection (ParseErrorPage).
IsPage(page) ==
  /\ page \in [uri: Paths, relative: BOOLEAN, response: Statuses]
  /\ page.relative => page.response \in {301, 302, 303, 307, 308}

Locations ==
  [uri: Paths, exact: BOOLEAN, root: Paths, alias: Paths,
   index: Seq([uri: Paths, relative: BOOLEAN]), autoindex: BOOLEAN,
   methods: SUBSET Methods, cgi: SUBSET Names, ret: Returns, store: BOOLEAN]

IsServer(s) ==
  /\ s.locations \subseteq Locations /\ s.ret \in Returns
  /\ DOMAIN s.pages \subseteq 100 .. 599
  /\ \A code \in DOMAIN s.pages : IsPage(s.pages[code])

ASSUME ResponseAssumption ==
  /\ MaxInternalLoop \in Nat \ {0}
  /\ {"default", "text", "output"} \cap Names = {}
  /\ LineErrors \cup HeaderErrors \cup BodyErrors \subseteq 400 .. 599
  /\ Requests \subseteq [uri: Paths, method: Methods, close: BOOLEAN]
  /\ Files \in [DOMAIN Files -> Kinds]
  /\ \A s \in Servers : IsServer(s)

VARIABLES
  server,    \* block, the configuration of the listener
  fs,        \* what is at each path
  phase,     \* what the slot is doing
  request,   \* the request it is doing it for
  close,     \* its header section says "Connection: close"
  handler,   \* _RequestXconfig
  response,  \* clsResponse and the strings of clsMainProcess
  pageKeeps, \* clsErrorPage::_IsConnection
  counter,   \* _internalCounter
  refused    \* the last code the request was refused with, 0 for none

vars == <<server, fs, phase, request, close, handler, response, pageKeeps,
          counter, refused>>

-----------------------------------------------------------------------------
NoRequest == [uri |-> <<>>, method |-> "GET", close |-> FALSE]

Mods == {"ERROR", "INTERNALRE", "GET", "DELETE", "UPLOAD", "REDIRECTION",
         "CHUNK", "AUTOINDEX"}

\* keep is _IsConnection, file _FileFromDisk, redirect _InternalRedirectSrc
\* (its URI, or the code RequestLine::parse refuses it with).
NoRedirect == [uri |-> <<>>, code |-> 0]
NoHead == [status |-> 0, framing |-> "none", keep |-> FALSE]
NewResponse == [mod |-> {}, status |-> 0, keep |-> TRUE, file |-> <<>>,
                body |-> <<>>, redirect |-> NoRedirect, head |-> NoHead]

\* Bodies that are no file.
Default == <<"default">>         \* HelperFunctions::GetBody
Text == <<"text">>               \* of a return directive
CgiBody == <<"output">>

TypeOK ==
  /\ server \in Servers
  /\ fs \in [DOMAIN Files -> Kinds]
  /\ phase \in {"idle", "head", "body", "start", "cgi", "send"}
  /\ request \in Requests \cup {NoRequest}
  /\ close \in BOOLEAN /\ pageKeeps \in BOOLEAN
  /\ handler \in Handlers
  /\ response.mod \subseteq Mods
  /\ response.head \in [status: Statuses, keep: BOOLEAN,
                        framing: {"none", "length", "chunked"}]
  /\ counter \in 0 .. MaxInternalLoop
  /\ refused \in Statuses

Init ==
  /\ server \in Servers
  /\ fs = Files
  /\ phase = "idle"
  /\ request = NoRequest
  /\ close = FALSE
  /\ handler = NewHandler
  /\ response = NewResponse
  /\ pageKeeps = FALSE
  /\ counter = 0
  /\ refused = 0

-----------------------------------------------------------------------------
(***************************************************************************)
(* The request arrives: ProcessRequest and RequestParser::Parse.           *)
(***************************************************************************)
\* The handler that answers an error: its page, or the default page.
OrDefault(r) == IF r.ok THEN r.handler ELSE [r.handler EXCEPT !.default = TRUE]

\* clsClient::ProcessRequest for a request with an error.
Refuse(h, code) ==
  /\ handler' = OrDefault(generateErrorPath(server, fs, ResetHandler(h), code))
  /\ phase' = "start"
  /\ refused' = code

\* A new request in a slot that was reset; it is routed as soon as its first
\* line is there.
ReadRequestLine ==
  /\ phase = "idle"
  /\ \E q \in Requests :
       /\ request' = q
       /\ \E h \in {[handler EXCEPT !.error = code] : code \in LineErrors}
              \cup {processRequest(server, fs, handler, q.uri, q.method).handler} :
            \/ /\ h.error # 0
               /\ Refuse(h, h.error)
            \/ /\ h.error = 0
               /\ handler' = h
               /\ phase' = "head"
               /\ UNCHANGED refused
  /\ UNCHANGED <<server, fs, close, response, pageKeeps, counter>>

ReadHeaders ==
  /\ phase = "head"
  /\ \/ /\ \E code \in HeaderErrors : Refuse(handler, code)
        /\ close' \in {FALSE, request.close}
     \/ /\ phase' = IF request.method = "POST" THEN "body" ELSE "start"
        /\ close' = request.close
        /\ UNCHANGED <<handler, refused>>
  /\ UNCHANGED <<server, fs, request, response, pageKeeps, counter>>

\* A body that is neither for a CGI nor for a store always fails.
ReadBody ==
  /\ phase = "body"
  /\ \/ \E code \in BodyErrors : Refuse(handler, code)
     \/ /\ handler.cgi \/ handler.store
        /\ phase' = "start"
        /\ UNCHANGED <<handler, refused>>
  /\ UNCHANGED <<server, fs, request, close, response, pageKeeps, counter>>

-----------------------------------------------------------------------------
(***************************************************************************)
(* clsResponse and clsErrorPage.  io is how open(), opendir() or remove()  *)
(* ends: it "fails" because nothing is there or it is not allowed, or it   *)
(* is "broken", for want of descriptors or in read().                      *)
(***************************************************************************)
Outcomes == {"done", "fails", "broken"}

With(r, mods) == [r EXCEPT !.mod = @ \cup mods]

\* clsResponse::_StoredInFileOrStr: a large file is sent from the disk, and one
\* that cannot be opened is an error with the status it had.
StoredInFileOrStr(r, h, io) ==
  IF h.path = <<>> THEN [r EXCEPT !.file = <<>>]
  ELSE IF h.size = "big" THEN With([r EXCEPT !.file = h.path], {"CHUNK"})
  ELSE IF io = "fails" THEN With([r EXCEPT !.file = h.path], {"ERROR"})
  ELSE IF io = "broken"
    THEN With([r EXCEPT !.file = h.path, !.status = 500], {"ERROR"})
  ELSE [r EXCEPT !.file = <<>>, !.body = h.path]

\* clsResponse::_InitialAutoIndex.
InitialAutoIndex(r, io) ==
  LET listing == With(r, {"CHUNK", "AUTOINDEX"})
  IN IF io = "done" THEN listing
     ELSE With([listing EXCEPT !.status = IF io = "fails" THEN 404 ELSE 500],
               {"ERROR"})

DeleteResource(r, io) ==
  IF io = "done" THEN r ELSE With([r EXCEPT !.status = 403], {"ERROR"})

\* Fault: a large file is announced by its length.
HeadersByLength(r, h, closing) ==
  [r EXCEPT !.keep = ~closing,
            !.head = [status |-> r.status, keep |-> ~closing,
                      framing |-> IF "DELETE" \in r.mod THEN "none" ELSE "length"]]

\* clsResponse::_InitialHeaders; 444 without a text ends the connection with
\* no answer.
InitialHeaders(r, h, closing) ==
  LET away == "REDIRECTION" \in r.mod
      moved == r.status \in {301, 302, 303, 307, 308}
      framing == IF "CHUNK" \in r.mod THEN "chunked"
                 ELSE IF "DELETE" \in r.mod THEN "none" ELSE "length"
  IN IF away /\ r.status = 444 /\ h.ret.value = <<>> THEN [r EXCEPT !.keep = FALSE]
     ELSE [r EXCEPT !.keep = ~closing,
                    !.body = IF away /\ ~moved THEN Text ELSE @,
                    !.head = [status |-> r.status, keep |-> ~closing,
                              framing |-> framing]]

\* Fault: every error page keeps the connection.
PageKeeps(r, status, keeps, chunked) ==
  [r EXCEPT !.keep = TRUE,
            !.head = [status |-> status, keep |-> TRUE,
                      framing |-> IF chunked THEN "chunked" ELSE "length"]]

\* clsErrorPage::ResponseError.  keeps is its flag, set by a 404 and for good.
PageHead(r, status, keeps, chunked) ==
  [r EXCEPT !.keep = keeps \/ status = 404,
            !.head = [status |-> status, keep |-> keeps \/ status = 404,
                      framing |-> IF chunked THEN "chunked" ELSE "length"]]

DefaultPage(r, status, keeps) ==
  PageHead([r EXCEPT !.file = <<>>, !.body = Default], status, keeps, FALSE)

ResponseError(r, h, keeps, io) ==
  IF h.path = <<>> THEN DefaultPage(r, r.status, keeps)
  ELSE IF h.size = "big" THEN PageHead([r EXCEPT !.file = h.path], r.status, keeps, TRUE)
  ELSE IF io = "done"
    THEN PageHead([r EXCEPT !.file = <<>>, !.body = h.path], r.status, keeps, FALSE)
  ELSE DefaultPage(r, 500, keeps)

\* An error is answered here when it was routed to its page, or is a 500;
\* any other one is left to _handleInternal.
AnswersNow(r) == "INTERNALRE" \in r.mod \/ r.status = 500

\* clsResponse::_ErrorRespnseHandling; a 500 never gets its configured page.
ErrorRespnseHandling(r, h, keeps, io) ==
  LET calm == [r EXCEPT !.mod = @ \ {"ERROR"}]
      listing == InitialAutoIndex(calm, io)
      broken == [listing EXCEPT !.mod = @ \ {"AUTOINDEX", "ERROR"}]
  IN IF ~AnswersNow(r) THEN r
     ELSE IF h.default \/ r.status = 500 THEN DefaultPage(calm, r.status, keeps)
     ELSE IF ~h.autoindex THEN ResponseError(calm, h, keeps, io)
     ELSE IF io = "done"
       THEN PageHead([listing EXCEPT !.file = <<>>], r.status, keeps, TRUE)
     ELSE DefaultPage(broken, broken.status, keeps)

\* clsResponse::MakeResponse.
MakeResponse(r, h, closing, keeps, io) ==
  LET made == IF "ERROR" \in r.mod THEN r
              ELSE IF "GET" \in r.mod /\ h.autoindex THEN InitialAutoIndex(r, io)
              ELSE IF "GET" \in r.mod THEN StoredInFileOrStr(r, h, io)
              ELSE IF "DELETE" \in r.mod THEN DeleteResource(r, io)
              ELSE IF "UPLOAD" \in r.mod THEN [r EXCEPT !.body = Default]
              ELSE r
  IN IF "ERROR" \in made.mod THEN ErrorRespnseHandling(made, h, keeps, io)
     ELSE InitialHeaders(made, h, closing)

\* The flag of clsErrorPage after it.
KeepsAfter(r) ==
  pageKeeps \/ (r.head.status = 404 /\ "REDIRECTION" \notin r.mod)

-----------------------------------------------------------------------------
(***************************************************************************)
(* clsMainProcess::MainProcess, without a CGI.                             *)
(***************************************************************************)
\* Which part makes the answer, and the status it starts from.
Part(h) ==
  IF h.status # 0 THEN [mod |-> {"ERROR", "INTERNALRE"}, status |-> h.status]
  ELSE IF h.ret.code # NoCode THEN [mod |-> {"REDIRECTION"}, status |-> h.ret.code]
  ELSE CASE h.method = "GET" -> [mod |-> {"GET"}, status |-> 200]
         [] h.method = "DELETE" -> [mod |-> {"DELETE"}, status |-> 204]
         [] h.method = "POST" -> [mod |-> {"UPLOAD"}, status |-> 201]

-----------------------------------------------------------------------------
(***************************************************************************)
(* clsClient::_handleInternal and _initalizeRespondBuffer.                 *)
(***************************************************************************)
Looped == counter = MaxInternalLoop

\* What a CGI's redirection was routed to, or what it is refused with.
Turn(routed) ==
  IF routed.ok THEN [handler |-> routed.handler, code |-> 0]
  ELSE [handler |-> OrDefault(generateErrorPath(server, fs, routed.handler, routed.code)),
        code |-> routed.code]

\* What the handler becomes for the next turn, and the code it is refused with.
\* A CGI's redirection is routed like a GET of the client; when that fails the
\* page of its error is looked for without a reset.
Internal(r) ==
  LET clean == ResetHandler(handler)
  IN IF Looped
       THEN [handler |-> [clean EXCEPT !.default = TRUE, !.status = 500],
             code |-> 500]
     ELSE Turn(IF r.redirect = NoRedirect THEN Routed(clean, FALSE, r.status)
               ELSE IF r.redirect.code # 0 THEN Routed(clean, FALSE, r.redirect.code)
               ELSE processRequest(server, fs, clean, r.redirect.uri, "GET"))

Again(r) == Looped \/ r.redirect # NoRedirect \/ "ERROR" \in r.mod

\* Fault: internal redirections are not counted.
CountsNothing == counter

\* The count of internal redirections, after a turn.
NextCounter == IF Looped THEN 1 ELSE counter + 1

\* The answer r is sent, or everything but the handler is reset for another turn.
InitRespond(r) ==
  IF Again(r)
    THEN /\ \E turn \in {Internal(r)} :
              /\ handler' = turn.handler
              /\ refused' = turn.code
         /\ counter' = NextCounter
         /\ response' = NewResponse
         /\ phase' = "start"
    ELSE /\ response' = r
         /\ phase' = "send"
         /\ UNCHANGED <<handler, refused, counter>>

\* remove() of a file or of an empty directory.
Plain(path) == IF Last(path) = "/" THEN Front(path) ELSE path
Removed(r, io) ==
  IF "DELETE" \in r.mod /\ io = "done"
    THEN [fs EXCEPT ![Plain(handler.path)] = "none"] ELSE fs
IsEmpty(path) ==
  \A p \in DOMAIN fs : IsStrictPrefix(Plain(path), p) => fs[p] = "none"

\* How the one system call of an answer may end: open() of a directory
\* succeeds, read() of it does not.
Answers(r) ==
  LET kind == checkPath(fs, handler.path)
      remove == "DELETE" \in r.mod
  IN IF kind = "none" \/ (remove /\ ~IsEmpty(handler.path)) THEN {"fails"}
     ELSE IF kind = "dir" /\ ~handler.autoindex /\ ~remove THEN {"broken"}
     ELSE IF kind # "dir" /\ handler.autoindex /\ ~remove THEN {"fails"}
     ELSE Outcomes

Respond ==
  /\ phase = "start"
  /\ ~handler.cgi
  /\ LET begun == [NewResponse EXCEPT !.mod = Part(handler).mod,
                                      !.status = Part(handler).status]
     IN \E io \in Answers(begun) :
          \E made \in {MakeResponse(begun, handler, close, pageKeeps, io)} :
            /\ InitRespond(made)
            /\ fs' = Removed(made, io)
            /\ pageKeeps' = KeepsAfter(made)
  /\ UNCHANGED <<server, request, close>>

\* clsMainProcess::ParseCGI at the end of a CGI: an answer of its own (whose
\* Connection field is decided by its status alone), a local redirection, or an
\* error of its output, its exit or its time.
CgiAnswer(status, disk) ==
  LET keep == status < 400 \/ status = 404
  IN [NewResponse EXCEPT !.keep = keep, !.body = CgiBody,
        !.file = IF disk THEN CgiBody ELSE <<>>,
        !.head = [status |-> status, keep |-> keep,
                  framing |-> IF disk THEN "chunked" ELSE "length"]]

CgiRedirects ==
  {[NewResponse EXCEPT !.redirect = [uri |-> q.uri, code |-> code]] :
     q \in Requests, code \in LineErrors \cup {0}}

\* The error is answered at once, or left to _handleInternal.
CgiError(code) ==
  MakeResponse([NewResponse EXCEPT !.mod = {"ERROR"}, !.status = code],
               handler, close, pageKeeps, "done")

\* fork() and pipe() succeed, or the answer is a 500.
StartCgi ==
  /\ phase = "start"
  /\ handler.cgi
  /\ \/ /\ phase' = "cgi"
        /\ UNCHANGED <<handler, response, counter, refused>>
     \/ InitRespond(CgiError(500))
  /\ UNCHANGED <<server, fs, request, close, pageKeeps>>

EndCgi ==
  /\ phase = "cgi"
  /\ \E r \in {CgiAnswer(status, disk) : status \in {200, 404, 503}, disk \in BOOLEAN}
        \cup CgiRedirects \cup {CgiError(code) : code \in {413, 500, 502, 504}} :
       InitRespond(r)
  /\ UNCHANGED <<server, fs, request, close, pageKeeps>>

\* The answer is sent, or the connection ends before: the slot is reset (at
\* once, or when the next request arrives, with nothing in between), but for the
\* flag of clsErrorPage.
Finish ==
  /\ phase # "idle"
  /\ phase' = "idle"
  /\ request' = NoRequest
  /\ close' = FALSE
  /\ handler' = ResetHandler(handler)
  /\ response' = NewResponse
  /\ counter' = 0
  /\ refused' = 0
  /\ UNCHANGED <<server, fs, pageKeeps>>

\* The turns of an answer.
Proceed == Respond \/ StartCgi \/ EndCgi

Next == ReadRequestLine \/ ReadHeaders \/ ReadBody \/ Proceed \/ Finish

\* An answer is made without the help of the client: EPOLLOUT is ready, and a
\* CGI is ended by its own exit or by its timeout.
Spec == Init /\ [][Next]_vars /\ WF_vars(Proceed)

-----------------------------------------------------------------------------
(***************************************************************************)
(* Properties.                                                             *)
(***************************************************************************)
\* Where _initalizeRespondBuffer takes the body from.
bodyPlace(r) == IF "AUTOINDEX" \in r.mod THEN "AUTO_INDEX"
                ELSE IF r.file # <<>> THEN "DISK" ELSE "RAM"

Answer == phase = "send" /\ response.head # NoHead

Announced ==
  response.head.framing = "chunked" <=> bodyPlace(response) \in {"DISK", "AUTO_INDEX"}

\* A listing that opendir() refused for want of descriptors or of rights.
BrokenListing ==
  response.head.status = 500 /\ {"GET", "AUTOINDEX"} \subseteq response.mod

\* The head announces the body that is sent after it: chunks from the disk and
\* for a listing, a counted body from the memory.  Four objects decide it, over
\* several turns (_InitialHeaders, _HeadersErrorResponse, _HeaderResponseCGI,
\* _initalizeRespondBuffer).  One answer breaks it, and always does: the default
\* page of a broken listing is counted, and _initalizeRespondBuffer still sends
\* a listing for it.  That takes a directory with a listing of its own: an error
\* page that is a listing loses its flag (_ErrorRespnseHandling).
FramingAgrees ==
  Answer =>
    /\ ~BrokenListing => Announced
    /\ BrokenListing =>
         /\ response.head.framing = "length" /\ response.body = Default
         /\ bodyPlace(response) = "AUTO_INDEX"
         /\ handler.autoindex /\ handler.status = 0

\* The connection ends, or not, as the head says; it ends when the client asked
\* for it and was not answered by a page or a CGI; and an error other than 404
\* ends it, unless the slot has answered a 404 before (clsErrorPage::Reset).
KeepAgrees ==
  Answer =>
    /\ response.keep = response.head.keep
    /\ close /\ response.head.status < 300 /\ handler.status = 0
         /\ response.body # CgiBody => ~response.keep
    /\ response.mod \cap {"REDIRECTION"} = {} /\ response.head.status \in 400 .. 599
         /\ response.head.status # 404 => response.keep = (pageKeeps /\ response.body # CgiBody)

\* A request that was refused, by the parser, by the routing or by a CGI, is not
\* answered with success, whatever its error page leads to: a file, an index, a
\* redirection, a listing, another error.  A configured code, or a CGI as error
\* page, may say otherwise: `=' and a word that is no number is 0, which makes
\* its page an answer like any other.  (A file that exists and cannot be opened is refused
\* with the code 200 it had: _StoredInFileOrStr.)
ErrorsStayErrors ==
  Answer /\ refused >= 400 /\ response.body # CgiBody =>
    \/ response.head.status >= 300
    \/ \E code \in DOMAIN server.pages :
         /\ server.pages[code].response = handler.status
         /\ handler.status \in {0, response.head.status}

\* What DELETE removes is the file of the URI the client sent, in a location
\* that allows DELETE, for a request that was not refused; not the index of its
\* directory, not its error page, not what a later turn was routed to.
DeleteOnlyAllowed ==
  [][fs' # fs =>
       /\ request.method = "DELETE" /\ refused = 0
       /\ \E l \in findBestLocation(server, request.uri) :
            /\ "DELETE" \in l.methods
            /\ \A p \in DOMAIN fs :
                 fs'[p] # fs[p] => p = Plain(createPhysicalPath(l, request.uri))]_vars

\* Errors of errors, index files and redirections of CGIs come to an end: every
\* request that is to be answered gets an answer, or loses its connection.
Answered == phase \in {"start", "cgi"} ~> phase \in {"send", "idle"}
=============================================================================
