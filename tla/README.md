# Verification of the web server

TLA+ models of this repository's HTTP server, the TLC runs that check them and
the theorems TLAPS proves about them. The reference is the C++ source; every
definition that models code is listed under `map` in `PROJECT.json` with the
lines it stands for (paths below are relative to `src/`).

    tlc -workers 2 -config MCEventLoop.cfg MCEventLoop     # one run
    tlapm EventLoop_proofs.tla                             # the proofs

Contents: [1 the system](#1-the-system), [2 the modules](#2-the-modules),
[3 the runs](#3-the-runs), [4 fairness](#4-fairness),
[5 the proofs](#5-the-proofs), [6 what disagrees](#6-where-code-and-documentation-disagree),
[7 what is not modelled](#7-what-is-not-modelled), [8 the plan](#8-the-plan).

## 1 The system

One process, one thread, one epoll set. `serverMain.cpp` reads a configuration,
opens the listening sockets and enters `clsFlow::EventLoop`, which never
returns but by an exception (SIGINT). Everything else is called from the loop.

| component | state it keeps | operations | talks to |
|---|---|---|---|
| **event loop** `linker/clsFlow` | stack of free slots, `_clientIdByFd`, `_IdByPipe`, the array of clients | accept, client event, pipe event, the two timeout scans | all below, through the slot |
| **client connection** `linker/clsClient` | state (`clinetState`), socket, response file, redirect counter, buffers | `ProcessRequest`, `ProcessRespond`, `ProcessBoth`, `monitorCgi`, `timeoutCgi`, `freeRessources` | parser, response builder, CGI monitor |
| **CGI monitor** `linker/monitorCgi.hpp` | pid, read end of the pipe, start time, end of data | `getDataFromCgi`, `TimeoutCgi`, `freeCgiRessources` | kernel (waitpid, kill), CGI output parser |
| **epoll wrapper** `server/clsEpollHandler` | the epoll descriptor, the batch | `addClient`, `changeAbility`, `tryPollNewClients` | kernel |
| **server sockets** `server/clsServerSock` | listeners, host/port of each | build, accept | kernel |
| **body storage** `Parser/ParseRequest/Request/clsBody` | step, descriptor, name, counters, chunk cursors | `bodyHandler`, `ParseBody`, `Reset` | files |
| **request parser** `Parser/ParseRequest` | positions in request line, headers and URI | `Parse` on every read | routing, body storage |
| **routing** `Parser/RequestHandler` | the resolved request | `processRequest`, `internalRedirect`, `generateErrorPath` | path resolver, configuration |
| **path resolver** `PathResolver.cpp` | none | percent decoding, physical paths, `stat` | file system |
| **response builder** `PartRespond/mainprocess`, `response/clsResponse` | status, headers, where the body comes from, keep-alive | `MainProcess`, `ParseCGI`, `MakeResponse` | CGI launcher, error page, autoindex |
| **error page** `clsErrorPage` | page, keep-alive flag | `ResponseError` | files |
| **autoindex** `clsAutoIndex` | open directory, row cursor | `insertAutoDirective` | file system |
| **CGI launcher** `PartRespond/cgi/clsCGI` | environment, pipe, pid | `RunCGI` | kernel (fork, pipe) |
| **CGI output parser** `clsParseOutCGI` | header state, body in memory or in a file | `ReceivingData` | CGI monitor, response builder |
| **configuration** `Parser/ParseConfigFile` | servers and locations | parse, defaults, duplicates | main, routing |
| **helpers** `Utils` | none | number conversion, timeouts, descriptor flags, strings | everybody |
| **main** `serverMain.cpp` | none | arguments, signal handler | event loop |

**How they interact.** There are no locks and no callbacks; the concurrency is
between the loop and what it cannot see: peers, CGI children, the clock and the
kernel, which hands out again every descriptor number and process id that has
been released. `epoll_wait` gives a *batch* of events; each names a descriptor
*number*, and the handler of one event can close descriptors that later events
of the batch still name. A slot of the client array, with all its sub-objects
(parser, body, monitor, response), is reused by the next request and by the next
connection; `ResetAll` is what separates them.

**What is hard.**

* *Stale numbers.* An event of the batch can reach the handler of the new owner
  of its number, be it a connection or a pipe.
* *Four ends of a CGI.* End of file on its pipe, the exit status, the CGI timeout
  (15 s) and the client timeout (60 s) come in any order; the child may close its
  stdout and live on, or exit and leave a process that still writes.
* *Partial failures.* `epoll_ctl`, `accept`, `fork`, `pipe`, `open` may fail after
  part of the state was changed.
* *Blocking calls.* One blocked call stops every connection and both scans.
* *Reset.* What a reset forgets is seen by a later request of another client.
* *Segmentation.* Requests and chunked bodies arrive cut at any byte; responses
  leave through partial sends.

**What makes each component correct.** Event loop: no slot lost or shared, every
socket closed once, nothing of a connection left to the next one in its slot,
nobody freed without cause. Client:
a request is answered once or its connection goes; the interest of epoll follows
the state; no file stays open between requests. Monitor: each child has one
owner, is reaped, is decided once and in bounded time. Body storage: no
temporary or partial file stays; success means the file is exact. Parser and
chunk decoder: the result does not depend on the cuts. Routing and paths: the
longest matching location, the path its segments lead to. Response and CGI output:
framing agrees with the body that follows. Autoindex: every entry once.
Configuration: what is accepted has no duplicate and all defaults.

## 2 The modules

| module | models |
|---|---|
| `EventLoop` | `clsFlow`, the state machine of `clsClient`, `monitorCgi.hpp`, and the kernel objects they use |
| `ClientSlots` | abstract specification: what the loop promises about a slot |
| `MCEventLoop` | `EventLoop` for TLC: outside steps, symmetry, fairness, liveness |
| `EventLoop_proofs`, `EventLoop_jobs_proofs` | theorems about `EventLoop`: types, slots and sockets; jobs, stale events and the refinement of `ClientSlots` |
| `BodyStore` | `clsBody` and its files over the life of a slot |
| `BodyStore_proofs` | theorems about `BodyStore`: types and temporary files; contents |
| `MCBodyStore` | `BodyStore` for TLC |
| `Routing` | `ProcessRequestHandler`, `RequestHandler`, `PathResolver`: where a request, an index file or an error page goes |
| `Response`, `MCResponse` | from a request to the head of its answer: `clsMainProcess`, `clsResponse`, `clsErrorPage`, the redirections of `clsClient` |
| `Response_proofs` | theorems about `Response` and `Routing` |
| `CgiOutput` | `clsParseOutCGI`: the output of a CGI, in pieces |
| `Relay`, `MCRelay` | from a CGI, a file or a directory (`clsAutoIndex`) through `io_chunk` to the socket |
| `Relay_proofs` | theorems about `Relay` and `CgiOutput` |
| `Induction` | the induction that proofs about sequences rest on |
| `RequestParsing` | `RequestParser`, `RequestLine`, `UriParser`, `Header`, `HeaderTable`, dot segments |
| `RequestReading`, `MCRequest` | the request in pieces, chunked bodies (`clsBody`), the header variables of `clsCGI` |
| `RequestReading_proofs` | theorems about `RequestReading` and `RequestParsing` |
| `Configuration` | the lexer, the directives, the inheritance of locations |
| `Startup`, `MCStartup` | from the file to the loop: listening sockets and their registration |
| `Startup_proofs` | theorems about `Startup` |

The four groups meet at the states of a client. `EventLoop` chooses which answer
is made and how much of it a `send` takes; `Response` says which, `Relay` how the
bytes go, `RequestReading` when a request is complete, `BodyStore` what becomes
of its body. Each group is checked alone, with the others as a choice of
outcomes that contains what they do: their product is out of TLC's reach, and
they share no state but the ones named in the tables below.

An operator whose comment starts with **Fault:** is no part of the system. It is
the definition that follows it with a plausible bug (a dropped guard, a missing
reset, a wrong order). `PROJECT.json` lists for each property of each passing
run one such fault that TLC finds with that property.

### 2.1 EventLoop

One action is one handler call: what `EventLoop()` does for one event of the
batch, or one iteration of a timeout scan. `pc` says where the loop is: `WAIT`
(epoll_wait), `DISPATCH` (events left in `batch`), `TIMEOUT_CGI`,
`TIMEOUT_CLIENTS`, in the order of `clsFlow.cpp:342-373`.

| action | code |
|---|---|
| `Poll` | `tryPollNewClients`: at most `EventsMax` of the ready descriptors |
| `AcceptClient`, `AcceptFails` | `_newClientProcess`, `_insertClient`: refused when no slot is free; a slot whose registration failed stays mapped without a socket; `accept` fails |
| `AcceptDropped` | `fcntl` or `getsockname` fails on the accepted socket (`clsFlow.cpp:261-270`): it is closed at once, though slots are free |
| `ClientReadable`, `ClientWritable`, `ClientSends` | `_clientProcess` → `ProcessBoth` / `ProcessRespond`, then `Settle`: registration of a new CGI pipe, change of interest, or `_freeClient` |
| `ClientError` | `_eventsEroorHandle` |
| `UnknownEvent` | an event whose number is in no map |
| `PipeData`, `PipeEof` | `_pipeFlow` → `getDataFromCgi`, `monitorCgi` |
| `TimeoutCgi`, `TimeoutCgiDone` | `_tryTimeOutCgi` |
| `TimeoutClient`, `TimeoutClientsDone` | `_tryTimeOutClients` |
| `PeerConnects` … `PeerDrains` | the peers: send, half-close, reset, stop and resume reading |
| `ChildWrites`, `ChildClosesStdout`, `ChildExits` | a CGI child |
| `ClientTimePasses`, `CgiTimePasses` | the clock passing one of the two limits |

Choices a reader should know:

* **Descriptors.** A new socket or pipe gets *any* free number, which covers the
  kernel's lowest-free rule and any other descriptors of the process. Closing
  removes it from the epoll set, as `close` does.
* **A call that blocks** is an action that is not enabled: the loop is stuck at
  this event, as its thread is. The descriptors are blocking
  (`HelperFunctions.cpp:598`), see section 6.
* **Bytes** are abstracted to *some are there*: a read completes the request,
  finds it wrong, wants more, or finds its buffer full.
* **Which response is built** (plain, CGI, internal redirect, from memory, from a
  file, an autoindex) is nondeterministic; `counter` bounds the internal
  redirects as `_handleInternal` does. `MAX_INTERNAL_LOOP` is at least 2 by
  assumption: the comparison is an equality that a value of 1 would never meet.
* **CGI.** `stateProcess` is RUNNING exactly while `pid` is set, so the model
  keeps `pid` only. A grandchild may keep the pipe open after the child's exit.
  `forceStopCgi` and the first branch of `timeoutCgi` are never reached.
* **Values that are never read again** before they are set (fields of a freed
  client) are given one value, to keep the state space small.
* There is one listener: the handlers never compare listeners.

`ClientSlots` is the promise: per slot the phases *free, idle, reading,
answering, cgi, decided* and the set of slots with a job; a job begins in
*answering* or *decided*, ends with its verdict or with its connection, and no
step moves two slots. `KeepsPromise` is `Promise!Spec`, the refinement under the
mapping `PhaseOf`.

`MCEventLoop` lets a peer or a child move only in `WAIT` or while an event of its
own descriptor is still in the batch, and the clock only at the start of the
scans. Elsewhere no handler reads what these steps write, so each commutes with
the handlers up to the next place where it is allowed: no order of *handlers and
what they read* is lost. `MaxMoves`, when it is not 0, bounds the number of
steps of the outside; in `two_clients` it stops the system, which is why that
run turns the deadlock check off.

### 2.2 BodyStore

Per slot: `conn` (free, idle, head, body, done: where the request is), `asked`
(the POST its peer sent) and `body` (the `clsBody`: step, descriptor, name,
`removeFile`, counters). `file` maps names to contents, `errno` is the errno of
the process as far as `_createUploadStoreFile` can tell.

| action | code |
|---|---|
| `Connect`, `Leave` | a slot is given, `freeRessources` → `ResetAll` → `clsBody::Reset` |
| `FirstRead` | `ProcessRequest` at BEGIN: `ResetAll` |
| `NoBody` | a request that stores nothing (other methods, errors before the body) |
| `Post` | `bodyHandler` when it initialises: refused, no file, or opened and the first octets stored |
| `PostUnfinished` | `bodyHandler` when the step of an earlier body is still there |
| `Store` | `ParseBody`: more octets, the last chunk, an error |
| `Delete`, `DeleteDirectory` | `_DeleteResource` |
| `Answer` | the response is sent, the connection kept |
| `OtherFailure` | any other failing call sets errno |

An octet is the pair *whose it is, how long its body should be*, so that a file
shows a mix, a rest of an older file, a hole and a part. `linked` says that the
descriptor still leads to the file of that name: `remove` by anyone clears it.
`Reset` removes the name whatever file it leads to by then, as the code does.
`mkstemp` takes a name that does not exist; that it makes up again a name deleted
under an open body (`Unused`) is left out: there are 62^6 of them.
The outcome of opening is a set (`Openings`): a file truncated, a random name in
a directory, a temporary name, failure, and the errno each leaves. `Targets`
gives each slot the names its peers post to. In the run they are disjoint: the
code does nothing to keep two uploads to one name apart, so no property of the
content can hold for them (listed as a hazard).

### 2.3 Routing and Response

One slot answers one request after another; the bytes are left out, a head is
its status, its framing and its Connection field.

| action | code |
|---|---|
| `ReadRequestLine`, `ReadHeaders`, `ReadBody` | the three stages of `RequestParser::Parse`; routing (`processRequest`) as soon as the first line is there; an error at any stage is routed to its page (`clsClient::ProcessRequest`) |
| `Respond` | `ProcessRespond` → `MainProcess` → `MakeResponse` → `_initalizeRespondBuffer`: the answer, or another turn with the handler of `_handleInternal` |
| `StartCgi`, `EndCgi` | `_InitializeCGI`; `ParseCGI` with an answer, a local redirection or an error |
| `Finish` | the end of the answer or of the connection: `ResetAll` |

A URI and a path are sequences of names, so that a prefix of the string is a
prefix of the sequence, which is what `findBestLocation` compares (`/dir` also
takes `/dirx`, as the code does; the run has no such name). `Names` is what they are
made of; that it has none of the three names of bodies that are no file
(`Default`, `Text`, `CgiBody`) only keeps those apart from the contents of a file. `fs` says what is at
a path. `open`, `opendir` and `remove` end in every way that what is there
allows (`Answers`), and `DELETE` changes `fs`. `pageKeeps` is the flag that
`clsErrorPage::Reset` does not clear.

A directory with a listing that `opendir` refuses for another reason than `ENOENT`
or `ENOTDIR` (`InitialAutoIndex`, `clsResponse.cpp:75`) gets a 500 with the default
page and a length, and keeps the flags of a listing, which `_initalizeRespondBuffer`
then sends from a directory that is not open. The model ends with the head and the
place of the body; `Relay` has listings that were opened only.

`internalRedirect` and `handleDirectory` call each other, through index files that are
redirected to. `Redirections` is a function on the number of redirections that are
left: what a redirection comes to with `n` of them is `Redirection` given what it comes
to with `n - 1`, and with none it is the 500 of `INTERNAL_LOOP`. The index files of one
directory are a function on their position (`TryIndex`); it keeps what the loop
carries over: the path, where to cut it for the listing, and the result.

### 2.4 CgiOutput and Relay

`ReceivingData` is an operator on the parser's record, called for every piece
between 1 and `MaxPiece` bytes and once at the end. An output is made of fields
(one element each), ends of lines and octets, so a piece may end inside a line,
its end, the empty line or the body. `stale` is the byte behind the piece that
the code looks at when a line ends exactly there: what that byte is depends on
what the buffer held before, so it is a choice. A body of exactly the memory's length is
copied whole and its last octet overwritten by the end of the string
(`ft_str_copy`); what comes after it is dropped.

`io_chunk` is a sequence of tokens that know their bytes; `send` stops between
two of them. `Rows` follows `while ((ptrDir = readdir(..)) != NULL && flowEnum ==
CAN_PUSH)` entry by entry, `ChunkSize` is what `_addSizeChunkToStr` reads for a
chunk, and the room for the size line, the end of a chunk and the last chunk are
the code's constants. A `read` of a regular file is assumed to give what was
asked for. Two facts of the code the model keeps: after a listing's last chunk a
partial send loses the rest (`AUTO_INDEX_DONE` ends at once), and an answer cut
after its last chunk has no continuation but the timeout, since
`ProcessRespond` sends in `RESPOND_MODE` only. Sends are cut only when the
blocking `send` is interrupted.

### 2.5 RequestParsing and RequestReading

`Parse` is the loop over a piece: one step per byte (`Step`), with the state of
whichever object is at work (`state`), the word counter and the header slots.
`Readings` is what the parser is after each byte of a piece, and `Turns` what the
decoder of chunks is after each turn of its loop: a loop of the code is a function of
the number of its turns, since a recursive operator is out of the prover's reach.
An element is one byte; the fixed words (methods, `HTTP/1.1`, `http://`, an
address) are two, so that they can be cut; a known header name is one.
`RecvHead` reads at most what is left of `BUFFER_REQUEST`, `RecvBody` what is
left of `io_chunk`; the rest of the piece that ends the header section is what
`bodyHandler` begins with. `HandleChunk` is `_handleChunk` with its two cursors
and `shiftingData`. `OtherHeaders` is what `clsCGI` makes of the header tables, and
`ContentType` its `CONTENT_TYPE`. All six known names of `Header::fromHash` are there
(`KnownNames`).

Facts of the code that the operators keep: the second of two consecutive `..` is
copied as it is, so that a path can lead above its start, and a dot segment at the
very end is seen only when decoding has left a slash behind it; names become upper
case with `_` for `-` on their way to a CGI (`Uppered`), so that `a` and `A` are one
variable given twice; neither Connection nor a second Content-Type gets there; the length of a
blank header value wraps around its 16 bits; a header without a name ends the
linking of the ones after it; the absolute form accepts an IPv4 host only and
takes the end of a read for the end of its host; a size line that is empty
takes the digits behind it; the limit of a body counts the sizes and ends of
its chunks.

### 2.6 Configuration and Startup

| action | code |
|---|---|
| `OpenServer` … `CloseLocation`, one action per directive | `clsServerConfig`, `clsLocation` and `ConfigDirectiveParser` on the tokens of the lexer |
| `UnknownInServer`, `UnknownInLocation`, `Refuse` | a file that is refused: the program ends |
| `EndOfFile` | `initUri`: what a location takes from its server |
| `Begin`, `Build`, `InUse`, `BuildFails`, `Built` | `_createServers`, `_buildSingleSocket`, `buildSockets` |
| `Register`, `RegisterFails`, `Erase`, `Registered` | `_registerServersSockets` and `addServerSockets`: one socket, a server without any, the end of the walk |
| `WalkPast`, `Abort` | the same walk behind the last server, after an erasure |

What a word is good for (a number, an address, a directory that exists) is a
table. Sizes are multiplied modulo `Wide` (2^64 in the code) and read with the
saturation of `strtol`. Facts of the code: `autoindex` of a server without one
is uninitialised (`"any"`), and only locations that come after the directive
take it; the body size of a location is never inherited, and uninitialised
without a directive (`-1`); a location without `allow_methods` allows none (the
bit it sets is of no method); an address asked for twice goes to the first
block; when epoll refuses that one, nobody serves the address; a size that is no
number is 0, and is accepted.

`_registerServersSockets` takes the end of its vector once (`clsFlow.cpp:111`); `end` is
the blocks there were then. After an erasure the walk does not meet it: behind the last
server it takes a destroyed one for a server, whose set of descriptors has been
freed. That is undefined, and the model has what it can come to: the sockets found
there are already watched, so `epoll_ctl` refuses them and they are closed; the
`erase` that follows drops the last live server and leaves the walk where it is
(`WalkPast`), until there is none and the program says so; or the allocator aborts it
(`Abort`). So a program that lost the sockets of one server of several never serves
with the others, which `ListenersOwned` says in its fourth conjunct. When it stops,
nothing is asked of its sockets.

## 3 The runs

| run | cfg | instance | properties | shows |
|---|---|---|---|---|
| `one_client` | `MCEventLoop.cfg` | 1 slot, 2 descriptors, 1 pid, all body places, failing registrations, stalling peers; behaviours of any length; 129 493 states | `TypeOK`, `SlotConservation`, `JobOwnership`, `PipeMapExact`, `InterestFollowsState`, `ResponseFileOwned`, `FreedForCause`, `VerdictOnce`, `FreshStart`, `KeepsPromise` | the slot, its maps and its CGI stay consistent through every order of events, timeouts, errors and reuse |
| `two_clients` | `MCTwoClients.cfg` | 2 slots, 3 descriptors, 1 pid, 7 outside steps; 508 301 states up to symmetry | `SocketAccounting`, `JobOwnership`, `FreedForCause`, `KeepsPromise` | a connection never pays for another one whose number it reuses |
| `cgi_liveness` | `MCCgiLiveness.cfg` | 1 slot, only CGI time is fair | `CgiDecided` | every registered CGI is decided without the client timeout |
| `client_liveness` | `MCClientLiveness.cfg` | 1 slot, both clocks fair, registrations may fail | `RequestEnds`, `IdleReclaimed` | every request ends, every idle or half-registered slot comes back |
| `response` | `MCResponse.cfg` | two sites of 6 locations and 5 or 6 error pages, 9 paths, 28 requests one after another in one slot; `InternalLoop` = `MaxInternalLoop` = 3; 40 537 states | `FramingAgrees`, `KeepAgrees`, `ErrorsStayErrors`, `DeleteOnlyAllowed`, `Answered` | head, body and connection agree through index files, error pages and redirections of CGIs |
| `relay` | `MCRelay.cfg` | 539 CGI outputs, files of 0 to 75 bytes, 10 directories; a buffer of 50 bytes; every cut of the input and of the sends; 32 904 states | `SegmentationIndependent`, `FramingExact`, `Delivered`, `RowsOnce`, `BufferFits` | what leaves the server is what its source gave, exactly framed, but for the losses the properties name |
| `request` | `MCRequest.cfg` | 647 requests, every cut; buffers of 40 and 44 bytes, 3 unknown headers; 17 877 states | `CutIndependent`, `PayloadExact`, `PathResolved`, `HeadersReachCgi`, `NoStall` | a request means the same however it arrives |
| `startup` | `MCStartup.cfg` | 4 702 files, every call of socket and epoll may fail; 55 867 states | `MeansWhatItSays`, `ListenersOwned`, `Decided` | an accepted file means what it says, and the sockets the loop begins with are owned |
| `blocking_calls` | `MCBlocking.cfg` | as `cgi_liveness` | `NeverWaitsForPeer` is violated | section 6 |
| `body_store` | `MCBodyStore.cfg` | 2 slots with one name each, 1 random and 1 temporary name, lengths 1 and 2; behaviours of any length; 1 074 640 states up to symmetry | `TypeOK`, `NoTempLeft`, `NoPartialFile`, `StoredExact`, `UploadsKept` | files over every order of posts, deletes, failures, ends and reuse |
| `stale_body`, `stale_errno` | `MCStaleBody.cfg`, `MCStaleErrno.cfg` | as `body_store`, length 1 | `UploadExact`, `RegularFileKept` are violated | section 6 |

**Why the bounds are enough.** *One slot, two descriptors*: a socket and its
pipe, and after either is closed the other kind can get its number, so every
confusion of a stale event with a new owner that involves one slot occurs, with
no bound on length. *Two slots, three descriptors*: two sockets and a pipe, or
one of them freed and reused by another slot within a batch; the shortest such
story (connect, connect, send, CGI, exit, reset, connect) takes seven outside
steps. `EventsMax` = 3 is less than the number of ready descriptors plus the
listener, so batches are cut. `MaxInternalLoop` = 2 reaches both sides of the
comparison. *Bodies*: lengths 1 and 2 give an empty, a partial and a whole file,
and a shorter body over a longer one; one temporary name makes two slots compete
for it and forces its reuse. *Response*: each kind of location (file, large
file, directory with an index, listing, CGI, alias, store, return) and each
ending of an error page (file, listing, missing, elsewhere, CGI, its own error)
occurs; three turns are enough for a page of a page of a page, and the bound is
met from both sides. *Relay*: all header sections of up to two fields with
bodies below, at and above the memory limit, and sections around `HeaderLimit`;
files of no, one and several chunks, ending at the buffer's end; directories
whose row, hidden entry or end fails to fit at each place. *Request*: all paths
of up to five characters over `/`, `.` and a letter, then those with escapes;
up to four headers over three slots, so the table overflows; chunks of 1, 2 and
16 bytes (a size line of two digits) with ends of lines inside them, and sums
past the buffer and the limit. *Startup*: all servers of up to three of 14
directives, all locations of up to two of 28, a complete file with any one
element removed or replaced, and all sharings of two addresses by up to three
blocks.

**Symmetry** (descriptors and pids; the two slots together with their names) is
used in runs of safety properties only.

**Properties**, beyond one type invariant per module:

* `SlotConservation`: each slot is on the stack once or the slot of one connection.
* `SocketAccounting`: every open socket is closed by exactly one slot; only a failed registration leaks one.
* `JobOwnership`: every unreaped child belongs to one live connection in CGI_RUNING.
* `PipeMapExact`: `_IdByPipe`, the monitors and the open pipes agree.
* `InterestFollowsState`: only BEGIN and REQUEST_MODE listen for input, so a pipelined request is not read over the response in progress.
* `ResponseFileOwned`: the response file is open only while it is being sent.
* `FreedForCause`: a live peer loses its connection only after 60 s or by its own writable event.
* `VerdictOnce`: a CGI is decided once, by the end of its own child.
* `FreshStart`: a connection begins with nothing of the earlier owners of its slot and of
  its number: no map entry, no child, no pipe, no half-sent response.
* `KeepsPromise`: refinement of `ClientSlots`.
* `CgiDecided`, `RequestEnds`, `IdleReclaimed`: liveness.
* `NoTempLeft`, `NoPartialFile`, `StoredExact`, `UploadsKept`: the files (section 2.2).

* `FramingAgrees`: a head announces the kind of body that follows it. One answer
  never does (`BrokenListing`, section 2.3), and the property says which: the counted
  default page of a directory that was asked for itself, sent as a listing. It states
  what the code does there, it does not refute it.
* `KeepAgrees`: the connection ends as the head said, and an error other than 404
  ends it, unless the slot answered a 404 before: `clsErrorPage::Reset` keeps
  the flag, for every later client of the slot (`pageKeeps` in the property).
* `ErrorsStayErrors`: a refused request is never answered with success, unless its
  page is configured with a code or is a CGI. `=` in an `error_page` with a word
  behind it that is no number is the code 0, and its page is answered like any file, with 200 (found by
  the proof; the page of 431 in the run is one). Not counted as refused: a file
  that exists and cannot be opened, which keeps the status 200 it had.
* `DeleteOnlyAllowed`: a file disappears only for the request, URI and location
  that allow it, whatever the turns in between.
* `Answered`: redirections of redirections end.
* `SegmentationIndependent`: what a CGI's output is taken for does not depend on
  the cuts of the pipe; of a body that fills the memory exactly, it is what the memory
  kept (`KeptOf`). Left out: the verdicts 500 and 504 (disk, exit, timeout), and an
  output of which the byte behind a piece was taken for a part (`parser.stale`), which
  does depend on the cuts.
* `FramingExact`, `Delivered`: chunk sizes are exact, nothing follows the last
  chunk, and an answer that ended reached the client whole, once, in order: the
  file, or what was kept of the output (`Kept`: all of it, but for the last octet and
  the rest behind a memory that was just full). A listing reached the buffer up to
  its last chunk; `AUTO_INDEX_DONE` ends with the next `send`, whatever it takes. With
  `parser.stale` the number of octets is compared, not which they are.
* `RowsOnce`: each entry of a directory has one row; the exception the property
  spells out is the code's: an entry that did not fit is replaced by the next.
* `BufferFits`: `io_chunk` is filled to its end and not over it. Exception: the test
  for the last chunk of a listing counts six of the eight bytes around the rows,
  so it may end two bytes past `SIZE_BUFFER` (`clsAutoIndex.cpp:256-266`).
* `CutIndependent`: status, path, query, headers and payload do not depend on the
  cuts. Exceptions: the absolute form (`Absolute`: an element `http:` behind the
  method, whose host and port take the end of a read for their own end) and a size line
  without a size (`NoSize`: nothing in it but blanks, found by reading the body an
  element at a time, `Chunks`). A refused request is compared by its status only.
* `PayloadExact`: chunks without their framing.
* `HeadersReachCgi`: which variables a CGI is given, through the chains of the two
  tables: one for each name as it was spelled, with its values in order; nothing for
  Connection, the first value of Content-Type, one variable for each header behind one
  without a name. Names that are equal in upper case give two variables of one name.
* `PathResolved`: the path that is routed is the one its segments lead to, against a
  definition on segments (`Resolve`) that has the facts of section 2.5: it says
  that two cursors in one buffer compute that, for every mix of encoded dots, and not
  that a path stays below its start, which the code does not ensure.
* `NoStall`: nobody waits for a request that has come, or for room; the property
  lists the three places where the code does wait, and says that there is no fourth.
* `MeansWhatItSays`: an accepted file against a definition that reads it as a set of
  statements, not from left to right. Exceptions: `autoindex` before the location,
  and `Climbs`: a relative directory that comes back to its start through `..`
  becomes absolute.
* `ListenersOwned`: when the loop begins, the open listeners are watched, each of one
  server, the first that could have its address, and no server was erased (sections 2.6, 5).
* `Decided`: no file keeps the reader at one place.

The modules `Response`, `Relay` and `RequestReading` also define a `TypeOK` that
documents their variables; it is not among the properties, which would not gain
by it.

## 4 Fairness

* `ServerRuns`: weak fairness of the server's next step. It is one thread that
  the operating system schedules; a step that is enabled (no call of it blocks)
  stays enabled until taken.
* `CgisAge`, `ClientsAge`: strong fairness of the clock. Time passes for ever; it
  is strong because `MCOutside` exposes the clock only where a scan reads it.
  The properties use it only for a job or a connection that stays: an
  `UpdateTime` takes a slot out of `expired`.
* Nothing is assumed of peers and children. They may be silent for ever.
* `Response`: weak fairness of `Proceed`, the turns of an answer. They need
  nothing of the client: `EPOLLOUT` is ready until the answer has begun, and a CGI
  is ended by its exit or by its timeout (`CgiDecided`).
* `Startup`: weak fairness of its next step, one thread that waits for nobody.
* `Relay` and `RequestReading` have safety properties only.
* `LoopTurns`, the premise of the liveness properties, says that the loop comes
  back to `epoll_wait`: the blocking calls of section 6 break it, and nothing
  can be said of a loop that is stuck in the kernel.

## 5 The proofs

`EventLoop_proofs` proves, for every number of slots, descriptors and processes
(assumption `LoopAssumption`: sizes are natural numbers, `MaxInternalLoop` at
least 2, `None` is nothing else):

* `TypeCorrect`: `Spec => []TypeOK`. `TypeOK` is inductive. `TypeOKSplit` separates
  the state of the loop from the rest; one lemma per handler
  (`ReceivedHandled`, `SentHandled`, …) shows that no handler leaves a transient
  client state behind and that the redirect counter stays bounded.
* `SlotsConserved`: `Spec => []SlotConservation`, and
* `SocketsAccounted`: `Spec => []SocketAccounting`.

The last two share an inductive invariant. `SlotConservation` alone is not
inductive: `_freeClient` erases the number *of the event* but closes the socket
*of the client*, and only `SocketAccounting` says they are the same. That one in
turn needs `MappedOpen` (a mapped number is an open socket), without which the
kernel could give a number that is still mapped to a new connection. `SlotInv`
is the conjunction of the three; `UntouchedSlots` disposes of the handlers that
touch none of its variables, `FreeClientSlots` and `AcceptSlots` are the two
that do, and `SlotInvInductive` combines them.

`EventLoop_jobs_proofs` proves from the same assumption what is left of the
properties of `EventLoop` but liveness:

* `JobsOwned`, `PipeMapIsExact`, `InterestFollows`, `ResponseFilesOwned`: the
  invariants `JobOwnership`, `PipeMapExact`, `InterestFollowsState`,
  `ResponseFileOwned`;
* `VerdictsOnce`, `FreedOnlyForCause`, `StartsFresh` (`FreshStart`): the action properties;
* `SlotsPromised`: `Spec => KeepsPromise`, that the loop implements `ClientSlots`.

They rest on `LoopInv`, which is `SlotInv`, `JobInv` and `BatchOK`. `JobInv` says
of the slots what the handlers rely on without checking it: a free slot holds
nothing, a connection that was not registered never gets past its request
(`ClientsOK`), and a job has a pipe exactly while it has a child (`Paired`).
`BatchOK` is about stale events, the reason why none of this is obvious: an event
of the batch may meet a connection that did not exist when it was polled, but a
readable event then meets only a connection that still listens, and an error event
only a socket that is dead by itself. Without the first, the new owner of a number could
be read while its response is built; without the second, a live peer could be
dropped. `Apart` lists which numbers cannot coincide, `Follows` what a handler can make
of a client, and one lemma per handler shows that it keeps each part. For the
refinement, `StepHappens` shows that a step is one of five things that happen
to one slot (`Opened`, `Gone`, `Progresses`, `Begun`, `Decides`), or is
`Quiet`; `HappensPromised` maps each of them to an action of `ClientSlots`. A handler
that did two of them at once, or one for two slots, would have no such image.

`BodyStore_proofs` proves from `StoreAssumption`, for any number of slots, names
and lengths, shared names included:

* `StoreTypeCorrect`: `Spec => []TypeOK`, and
* `TempsRemoved`: `Spec => []NoTempLeft`.

The invariant adds to `TypeOK` that a slot that is free or has no headers yet
holds no file (`FreshBody`: what `Reset` guarantees but for the step), that a
held temporary file is marked `removeFile` (so that the next `Reset` removes it
whatever the step is), and that the counters agree with the request.

Its second part is what is in the files, under `Separate`: no two slots
upload to one name (two uploads to one name do overwrite each other, section 2.2).

* `NothingPartial`: `Separate => (Spec => []NoPartialFile)`,
* `StoredExactly`: the same of `StoredExact`, and
* `UploadsStay`: the same of the action property `UploadsKept`.

`ContentInv` says that the file of a body that is read holds the part that was
written so far (`Part`), that the file of a body that is done is whole, and that
no two slots have one name open (`NamesApart`). The last is what makes `Reset`
safe: it removes a *name*, and the invariant says that nobody else's file has
it, also after a DELETE took it away under the descriptor. `OneSlot` reduces a
handler to its slot and its file; DELETE, which reaches the bodies of other
slots, has its own proof.

`Startup_proofs` proves, for every sequence of tokens, every assignment of words to
addresses and any set of failing calls (`FailAssumption`, and the assumptions on
constants of `Configuration`):

* `ListenersAreOwned`: `Spec => []ListenersOwned`.

What `ListenersOwned` says of the running loop comes from two loops that ran
before it, so `StartInv` says what they leave at every step: the listens stay in
an order while the file is read (`ReadInv`); and of the listens whose turn has
come (`Turns`), each has its socket, or was refused one, or an earlier one with a
socket has its address, while no two sockets that were made share one. That the
turns come in order is what makes "the first block" true. `Owned` says that
`allServers` partitions the open sockets; it is what the erasure of a server
without sockets must not break. `Owned` is claimed up to the end of the walk and no
further: behind it (`past`) nothing is known of the sockets, and the theorem only
needs that the loop is not reached from there. That `end` is still the blocks that
are left when the loop begins is what excludes an erasure.

`Relay_proofs` proves all that the run `relay` checks, for any sizes of buffer, head,
memory and piece, outputs, files and directories of any length, any cut of the input
and any partial send. `RelayAssumption` says that a head and a body in memory fit
`io_chunk` together (`MAX_BODY` is `SIZE_BUFFER - MAX_HEADERS`, `librarys.hpp:17-18`,
and a head is at most `MAX_HEADERS` long), that a head leaves room for the beginning of
a listing with its chunk, and that a row is no longer than what `_canPush` asks for it.

* `TypeCorrect`: `Spec => []TypeOK`;
* `NeverOverfull`: `Spec => []BufferFits`;
* `ChunksExact`: `Spec => []FramingExact`;
* `ListedOnce`: `Spec => []RowsOnce`;
* `CutAnywhere`: `Spec => []SegmentationIndependent`;
* `SentWhole`: `Spec => []Delivered`.

The first four follow from `IInv`. Its parts say what the loop of `_SendRespond`
relies on: in which stages there is a parser, a verdict and a place (`Stages`); that what
was sent and what is about to be, taken together, is a sequence of whole chunks that
a send only shifts from one to the other (`Framing`); what the buffer holds in each
state (`Sizes`); which rows are there and where the cursor of the directory is
(`Listings`); and that `offset` octets of the file are in the chunks while `limit` of
them are left (`Delivering`). `FramingExact` alone is not inductive: that nothing follows the
last chunk needs that in `RESPOND_MODE` none was put in yet (`Open`). `RowsOnce` needs
that the cursor is beyond every row that was listed, and that an entry that was
refused and not listed is at or before it (`Covers`).

`CutAnywhere` compares a parser that got its input in pieces with one that got it at
once. `Steps(output)` is the scan of the whole output, element by element: a function
of the output alone. `Reads` says where a parser stands on it: what it holds after `n`
bytes is what `Steps` holds there (`Reading`), followed by the octets of the body once the
empty line was passed; a parser that failed did so at a place where `Steps` failed
with the same code (`FailedBy`; the property leaves out the 500 of a file that could
not be written). `ScanAt` is the
core of it: the scan of the next piece from where the last one stopped either reads it
all, or ends, at the place where `Steps` ends. A piece that ends inside a line, inside
its end or inside the empty line is no case of its own: `Reading` compares the
unfinished line too. A parser that took the byte behind a piece for a part (`stale`) is
no reading of the output, and `Reads` says nothing of it. What the memory holds of a
body that fills it is the body of the output without its last octet: `Cropped` carries
that from the step that fills it to the verdict.
`SentWhole` combines both invariants: what is sent is the body by `IInv`, and the body
is what was kept of the octets of the output by `Reads`.

`Induction` has what these proofs need of induction. The library's theorems take an
operator as a parameter, which the installed provers cannot instantiate, so it states
them with sets: a set of numbers that holds 0 and the successor of each of its members
holds all numbers (`NumbersIn`, `NumbersUpTo`, from the well-foundedness of `<`), and a
function defined from its value one step before exists and stays in its range
(`IteratesExist`, `IteratesIn`). A recursive function of the model (`BytesOf`, `Scanned`,
`Rows`) is shown equal to such a function (`SumsExist`) before anything is said of it.

`Response_proofs` proves the safety properties of the run `response`, for every
configuration, tree of files, set of requests, number of redirections and way in which
`open`, `read`, `opendir` and `remove` may fail. Its assumptions are on what the parsers
accept: `RoutingAssumption` (`/` is a name, the two limits are numbers) and
`ResponseAssumption` (`MaxInternalLoop` is not 0, the configuration is well formed,
codes of errors and of pages are in their ranges, an error page elsewhere has the code of
a redirection, which `ParseErrorPage` sees to; the code of any other page is a `short`
without a range, as `atoi` leaves it).

* `ResponseTypeCorrect`: `Spec => []TypeOK`;
* `HeadsAnnounceBodies`: `Spec => []FramingAgrees`;
* `HeadsAnnounceEnds`: `Spec => []KeepAgrees`;
* `ErrorsAreAnswered`: `Spec => []ErrorsStayErrors`;
* `DeletesWhatIsNamed`: `Spec => DeleteOnlyAllowed`.

All of them rest on `IInv`, in two halves. The routing half is a contract for each
operator of `Routing`: whatever `handlePath` and a redirection come to, the handler is
well formed, has no status of an error page and, when the routing failed, a code that is
one of the server's (`Outcome`). `Redirecteds` is that contract for a redirection, with
the fact `DELETE` needs: its handler was reset, so its method is `GET`.
It is proved by induction (`IteratesExist`, `NumbersUpTo`) over the number of redirections left,
and inside it over the index files of a directory, since neither
can be unfolded to an end that the prover knows. `Errors` says what survives of a
refusal while its page is looked for: the handler has a status from 300 on, or a
status the configuration gave, or a return to elsewhere (`Erroneous`); without it
`ErrorsStayErrors` is not inductive, because the head is made turns after the
refusal. `Deletes` is the same for `DELETE`: the handler still has this method
only for a request that was not refused, and its path is then that of the client's own URI
(`Own`). `Place` carries it through the routing of the first turn, where an index file
that is tried overwrites the path: what is tried is redirected to, which resets the
method, or leaves an error.
The response half shows for each of the ways an answer is made (`PageHeadMade`,
`DefaultPageMade`, `CgiAnswerSendable`, ...) that the result is `Sendable`: its head agrees
with its body and its connection, or it is another turn.

`RequestReading_proofs` proves, for every set of requests, legal or not, of any
elements, any size of the two buffers, of the table of headers and of the limit of a body:

* `RequestTypeCorrect`: `Spec => []TypeOK`;
* `RequestCutIndependent`: `Spec => []CutIndependent`.

`ReadingAssumption` says that the sizes are not 0, the limit is a number (0 is none), and
what a request is made of: the words of the protocol are among `Elements`, and a chunk is
as long as one of the sizes that `SizeText` can write. `raw` is any sequence.

`CutInv` has two halves, both of which compare a state with a reading of the *text*
that knows nothing of cuts. The head: `Heads(text)[m]` is a parser that takes `m`
elements one after another, and `HeadInv` says that the parser is what that gives
(`HeadOf`, with the refusal of a full buffer) for as many elements as it was given.
`ParseFollows` is the step: a piece, parsed from where `Heads` stands at its beginning,
ends where `Heads` stands at its end. It needs that no state but those of a host looks at
how long the piece is (`TakeLocal`), which is where the absolute form is
left out, and that what was counted to skip is nothing at the end of a piece. `BehindHead`
says that a parser that has ended no longer depends on what follows.

The body: `Chunks` reads it an element at a time, `k.at` naming what comes next.
`BodyInv` says of a body of chunks that `n` elements were received of: it has decided, and
`Chunks` has decided the same at `n` with the same file or the same code (`Decides`), or it
waits, and then what it stored is what `Chunks` has stored, at the place that its cursors
name (`Awaits`; `AtSize` in a size line, `AtData` in a chunk or its end, `Ends` behind
the last one). The two differ in what they wait for: the code takes the end of a line or
of a chunk two bytes at once and begins a size line anew with every read, so between
two reads it can be behind `Chunks`, and `Awaits` says by what. `ChunkHandled` proves it
of `_handleChunk`: each turn keeps it (`TurnFollows`), a loop that stopped waits for more,
`shiftingData` moves data and cursors together, and so does the limit, which the code counts down
from what was removed and `Chunks` compares with what was read. `MoreData` adds what a
read brings. `CutAnywhere` of `Relay` has the same shape; here a waiting state has
cursors, a buffer that moves and a limit beside it. `CutResult` concludes: with `Done`, the
parser is that of the whole text (`WholeHead`), and two bodies that decided the same text,
one in pieces and one at once, decided the same (`DecidedWhole`).

Only model-checked:

* all liveness (`RequestEnds`, `CgiDecided`, `IdleReclaimed`, `Answered`, `Decided`),
  which is out of the prover's reach;
* `PayloadExact`, `HeadersReachCgi`, `NoStall` of `RequestReading`. They are about
  requests as a client should write them. `Requests` of the theorems is any set, in which a
  value may hold an end of line and a target a blank, and of such a request they are
  not true; a theorem needs the grammar of a request as its hypothesis and what the parser makes
  of each of its productions. Given that, `RequestCutIndependent` reduces them to one
  piece. `NoStall` also needs room for an end of line (`SizeBuffer` at least 2);
* `PathResolved`, the equality of two recursions over a path that cut it at different places,
  an induction over data;
* `MeansWhatItSays` of `Startup`, which compares two readings of a file that go through
  it in different orders.

## 6 Where code and documentation disagree

* **`blocking_calls`.** `changeFileToNonBlocking` sets `O_NONBLOCK` only when its
  `closeOnExec` argument is false; every caller leaves it at its default, true.
  `clsFlow.cpp:268` reports a failure of it as "Fail to change client fd to non
  blocking". A peer that stops reading between `epoll_wait` and `send` blocks the
  only thread.
* **`stale_body`.** `clsBody::Reset` leaves `_state`. After a connection that ended
  inside a body, the next POST on its slot skips the initialisation and is
  answered 201 with nothing stored.
* **`stale_errno`.** `_createUploadStoreFile` reads `errno` although `open`
  succeeded ("if is dir"). After a DELETE of an empty directory the regular file
  it has just truncated is taken for a directory: 500, and the file stays empty.

## 7 What is not modelled

* The environment of CGI children but for the variables of headers; the tables of
  media types, messages and dates; wording of headers and pages: formatting, no
  state.
* `main`, the arguments, SIGINT, and how the file is read (its limit of 10 000
  bytes): a sequence of calls without a choice.
* The values of addresses: an address is a word that is accepted or not.
* Two uploads to one name at once (section 2.2), failures of memory allocation,
  several processes.
* The product of the groups (section 2): the bytes of a connection under every
  interleaving of two connections. The handlers share no buffer between slots.

## 8 The plan

Done: what keeps the server up and its slots apart (`EventLoop`, `ClientSlots`),
the state a slot carries between requests (`BodyStore`, `Response`, `Routing`),
the bytes (`CgiOutput`, `Relay`, `RequestParsing`, `RequestReading`), the start
(`Configuration`, `Startup`). Proved: every safety property that passes of `EventLoop`,
with the refinement, and every one of `BodyStore`, `Relay` and `Response`; the listeners
of `Startup`; that a request means the same wherever it is cut.

Left, in this order:

1. `PayloadExact` and `NoStall`: a grammar of well-formed requests as a definition, and
   what `Heads` and `Chunks` make of it; the cuts are already out of the way.
2. `HeadersReachCgi` from the same grammar, with the chains of the two tables as an
   invariant of `Heads`.
3. `PathResolved` and `MeansWhatItSays`.
