------------------------------ MODULE Routing -------------------------------
(***************************************************************************)
(* Where a request goes: ProcessRequestHandler, the part of RequestHandler *)
(* it fills and PathResolver (Parser/RequestHandler).  A request finds the *)
(* location of its URI, and there a redirection, a CGI script, a file, the *)
(* index of a directory or its listing; an error finds its page the same   *)
(* way.  Index files and error pages are routed again, from the beginning, *)
(* with the same handler.                                                  *)
(*                                                                         *)
(* URIs and paths are sequences of names, extensions (".py") and "/": a    *)
(* prefix of the string is a prefix of the sequence.  They arrive decoded  *)
(* and without dot segments.                                               *)
(***************************************************************************)
EXTENDS Integers, SequencesExt, FiniteSetsExt

CONSTANTS
  Names,           \* what URIs and paths are made of
  InternalLoop,    \* INTERNAL_LOOP, the bound on redirections of one routing
  MaxPath          \* MAX_PATH_LEN, in elements of a path

ASSUME RoutingAssumption == "/" \in Names /\ {InternalLoop, MaxPath} \subseteq Nat

NoCode == -1       \* stReturnData::code and stErrorPagedata::response unset

-----------------------------------------------------------------------------
(***************************************************************************)
(* PathResolver and the file system: fs says what is at a path.            *)
(***************************************************************************)
Methods == {"GET", "POST", "DELETE"}
Kinds == {"none", "file", "big", "denied", "dir", "other"}
Paths == Seq(Names)

\* stat(): a file is not found under its name with a slash after it.
checkPath(fs, path) ==
  LET at(p) == IF p \in DOMAIN fs THEN fs[p] ELSE "none"
  IN IF path = <<>> THEN "none"
     ELSE IF Last(path) # "/" THEN at(path)
     ELSE IF at(Front(path)) = "dir" THEN "dir" ELSE "none"

IsFile(kind) == kind \in {"file", "big", "denied"}

\* The root, or the alias in place of the URI of the location, and the rest
\* of the URI, joined by one slash.
createPhysicalPath(loc, uri) ==
  LET aliased == loc.alias # <<>>
      base == IF aliased THEN loc.alias ELSE loc.root
      rest == IF aliased /\ Len(uri) >= Len(loc.uri)
                THEN SubSeq(uri, Len(loc.uri) + 1, Len(uri)) ELSE uri
      bare == base # <<>> /\ rest # <<>> /\ Last(base) # "/" /\ Head(rest) # "/"
      double == base # <<>> /\ rest # <<>> /\ Last(base) = "/" /\ Head(rest) = "/"
  IN (IF bare /\ ~aliased THEN Append(base, "/") ELSE base)
       \o (IF double THEN Tail(rest) ELSE rest)

TooLong(path) == Len(path) >= MaxPath

-----------------------------------------------------------------------------
(***************************************************************************)
(* RequestHandler.  script and info are _ScriptName and _PathInfo, status  *)
(* is _statusError, cgi says that _pathCgi is set, own that the URI is the *)
(* one of the client.                                                      *)
(***************************************************************************)
NoReturn == [code |-> NoCode, value |-> <<>>]

NewHandler == [path |-> <<>>, autoindex |-> FALSE, script |-> <<>>,
               info |-> <<>>, method |-> "GET", default |-> FALSE,
               cgi |-> FALSE, store |-> FALSE, status |-> 0, error |-> 0,
               uri |-> <<>>, ret |-> NoReturn, size |-> "file"]

\* A status is a short: atoi() makes one of whatever error_page says.
Statuses == -32768 .. 32767
Returns == [code: Statuses, value: Paths]
Handlers == [path: Paths, autoindex: BOOLEAN, script: Paths, info: Paths,
             method: Methods, default: BOOLEAN, cgi: BOOLEAN, store: BOOLEAN,
             status: Statuses, error: Statuses, uri: Paths, ret: Returns,
             size: {"file", "big"}]

\* Fault: the method of the request survives a reset.
ResetKeepsMethod(h) ==
  [NewHandler EXCEPT !.uri = h.uri, !.ret = h.ret, !.size = h.size,
                     !.method = h.method]

\* RequestHandler::reset: the URI, the redirection and the size stay.
ResetHandler(h) ==
  [NewHandler EXCEPT !.uri = h.uri, !.ret = h.ret, !.size = h.size]

\* The first element with the extension of a CGI at the end of its segment
\* ends the name of the script.
ExtractCgiMetadata(h, uri, extensions) ==
  LET ends == {i \in DOMAIN uri :
                 uri[i] \in extensions /\ (i = Len(uri) \/ uri[i + 1] = "/")}
  IN IF ends = {} THEN h
     ELSE [h EXCEPT !.cgi = TRUE,
                    !.script = SubSeq(uri, 1, Min(ends)),
                    !.info = SubSeq(uri, Min(ends) + 1, Len(uri))]

-----------------------------------------------------------------------------
(***************************************************************************)
(* ProcessRequestHandler.  A routing step gives the handler, whether it    *)
(* succeeded and the code of its HttpError, which a success leaves at 0.   *)
(***************************************************************************)
Routed(h, ok, code) == [handler |-> h, ok |-> ok, code |-> code]
Passed(h) == Routed(h, TRUE, 0)

\* The location of a URI, none or one: its exact one, or its longest prefix.
findBestLocation(server, uri) ==
  LET exact == {l \in server.locations : l.exact /\ l.uri = uri}
      prefix == {l \in server.locations : ~l.exact /\ IsPrefix(l.uri, uri)}
  IN IF exact # {} THEN exact
     ELSE {l \in prefix : \A m \in prefix : Len(m.uri) <= Len(l.uri)}

ReturnOf(server, loc) == IF loc.ret.code # NoCode THEN loc.ret ELSE server.ret

\* _pathCgi is set before the script is looked for, and stays set.
handleCgi(fs, loc, h, uri) ==
  LET m == ExtractCgiMetadata(h, uri, loc.cgi)
      path == createPhysicalPath(loc, m.script)
      found == [m EXCEPT !.path = path]
      kind == checkPath(fs, path)
  IN IF m.script = <<>> THEN Passed(m)
     ELSE IF TooLong(path) THEN Routed(m, FALSE, 414)
     ELSE IF kind \in {"none", "other"} THEN Routed(found, FALSE, 404)
     ELSE IF kind = "dir" THEN Routed(found, FALSE, 403)
     ELSE Passed(found)

validateAndFinalizePhysicalPath(fs, loc, h, uri) ==
  LET path == createPhysicalPath(loc, uri)
      kind == checkPath(fs, path)
      sized == [h EXCEPT !.path = path,
                         !.size = IF kind = "big" THEN "big" ELSE "file"]
  IN IF TooLong(path) THEN Routed(h, FALSE, 414)
     ELSE IF kind \in {"none", "other"} THEN Routed(sized, FALSE, 404)
     ELSE IF kind = "dir"
       THEN Passed([sized EXCEPT !.ret = [code |-> 301, value |-> Append(uri, "/")]])
     ELSE IF h.method = "GET" /\ kind = "denied" THEN Routed(sized, FALSE, 403)
     ELSE Passed(sized)

\* An index file, when none before it was served: an absolute one is redirected
\* to, and that is all; a relative one must exist under the directory, and may
\* fail.  redirected says what a redirection comes to.
TryIndex(fs, loc, uri, redirected, x, index) ==
  LET h == x.r.handler
      base == createPhysicalPath(loc, uri)
      joined == [h EXCEPT !.path = base \o index.uri]
      tried == redirected[[handler |-> joined, uri |-> uri \o index.uri]]
  IN IF x.done THEN x
     ELSE IF ~index.relative
       THEN [x EXCEPT !.r = redirected[[handler |-> h, uri |-> index.uri]], !.done = TRUE]
     ELSE IF TooLong(base) THEN x
     ELSE IF ~IsFile(checkPath(fs, joined.path))
       THEN [x EXCEPT !.r = Routed(joined, FALSE, 0), !.cut = Len(base)]
     ELSE [x EXCEPT !.r = tried, !.cut = Len(base), !.done = tried.ok]

\* The index files in their order; after them the listing, of the path cut to
\* its first `cut` elements.
handleDirectory(fs, loc, h, uri, redirected) ==
  LET turn[i \in 0 .. Len(loc.index)] ==
        IF i = 0 THEN [r |-> Routed(h, FALSE, 0), cut |-> 0, done |-> FALSE]
        ELSE TryIndex(fs, loc, uri, redirected, turn[i - 1], loc.index[i])
      x == turn[Len(loc.index)]
      last == x.r.handler
      listed == [last EXCEPT !.autoindex = TRUE,
                             !.path = SubSeq(@, 1, Min({x.cut, Len(@)}))]
  IN IF x.done THEN x.r
     ELSE IF loc.autoindex THEN Passed(listed)
     ELSE Routed(last, FALSE, 403)

\* A script, the index of a directory, or a file.
handlePath(fs, loc, h, uri, redirected) ==
  LET c == handleCgi(fs, loc, h, uri)
  IN IF ~c.ok \/ c.handler.script # <<>> THEN c
     ELSE IF Last(uri) = "/" THEN handleDirectory(fs, loc, c.handler, uri, redirected)
     ELSE validateAndFinalizePhysicalPath(fs, loc, c.handler, uri)

\* What is redirected: a handler, to a URI.
Turns == [handler: Handlers, uri: Paths]

\* A redirection that succeeded gives the handler its URI and its code.
Redirected(r, uri) ==
  IF r.ok THEN Passed([r.handler EXCEPT !.uri = uri, !.error = r.code]) ELSE r

\* What an index file or an error page is routed with: the handler is reset,
\* and neither the method nor the body size of the location is looked at.
Redirection(server, fs, turn, redirected) ==
  LET clean == ResetHandler(turn.handler)
      locs == findBestLocation(server, turn.uri)
      loc == CHOOSE l \in locs : TRUE
      there == [clean EXCEPT !.ret = ReturnOf(server, loc)]
  IN IF locs = {} THEN Routed(clean, FALSE, 404)
     ELSE IF there.ret.code # NoCode THEN Passed(there)
     ELSE Redirected(handlePath(fs, loc, there, turn.uri, redirected), turn.uri)

\* What a redirection comes to when n of them are left.
Redirections(server, fs) ==
  LET left[n \in 0 .. InternalLoop + 1] ==
        [turn \in Turns |->
           IF n = 0 THEN Routed(ResetHandler(turn.handler), FALSE, 500)
           ELSE Redirection(server, fs, turn, left[n - 1])]
  IN left[InternalLoop + 1]

internalRedirect(server, fs, h, uri) ==
  Redirections(server, fs)[[handler |-> h, uri |-> uri]]

isMethodAllowed(method, loc) == method \in loc.methods

\* The code of a failure is kept in the handler.
Reported(r) ==
  IF r.ok THEN r ELSE Routed([r.handler EXCEPT !.error = r.code], FALSE, r.code)

\* A POST that is neither for a CGI nor for a store is refused in a local
\* variable only: nobody sees it, and the body is read with no place to go.
processRequest(server, fs, h, uri, method) ==
  LET locs == findBestLocation(server, uri)
      loc == CHOOSE l \in locs : TRUE
      known == [h EXCEPT !.method = method, !.ret = ReturnOf(server, loc)]
      cgi == ExtractCgiMetadata(known, uri, loc.cgi)
      stored == [known EXCEPT !.store = loc.store, !.path = uri]
  IN IF locs = {} THEN Routed([h EXCEPT !.error = 404], FALSE, 404)
     ELSE IF ~isMethodAllowed(method, loc)
       THEN Routed([h EXCEPT !.error = 403], FALSE, 403)
     ELSE IF known.ret.code # NoCode THEN Passed(known)
     ELSE IF method = "POST" /\ cgi.script = <<>>
       THEN IF loc.store THEN Passed(stored) ELSE Routed(known, FALSE, 0)
     ELSE Reported(handlePath(fs, loc, [cgi EXCEPT !.uri = uri], uri,
                              Redirections(server, fs)))

\* Fault: the page of an error is served with the code of the page.
finalizeNothing(h, code, response) == h

\* The code an answer is given with, unless the page says another one.
finalizeErrorState(h, code, response) ==
  [h EXCEPT !.status = IF response # NoCode THEN response ELSE code]

\* The page of an error was routed, with the outcome r.
PageRouted(r, code, response) ==
  Routed(finalizeErrorState(r.handler, IF r.ok THEN code ELSE r.code, response),
         r.ok, r.code)

\* The page of an error; without one, or when it cannot be served, the caller
\* falls back on the default page.
generateErrorPath(server, fs, h, code) ==
  LET page == server.pages[code]
      away == [h EXCEPT !.ret = [code |-> page.response, value |-> page.uri]]
  IN IF code \notin DOMAIN server.pages
       THEN Routed(finalizeErrorState(h, code, NoCode), FALSE, code)
     ELSE IF page.relative THEN Passed(away)
     ELSE PageRouted(internalRedirect(server, fs, h, page.uri), code, page.response)
=============================================================================
