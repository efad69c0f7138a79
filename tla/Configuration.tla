---------------------------- MODULE Configuration ----------------------------
(***************************************************************************)
(* The configuration file: the lexer, clsParseConfigueFile, the server and *)
(* location blocks with their directives, and what a location takes from   *)
(* its server once the file was read (clsServerConfig::initUri).           *)
(*                                                                         *)
(* A file is a sequence of elements: words, blanks, quotes, "#", the end   *)
(* of a line "nl" and the separators.  What a word is good for is said by  *)
(* the tables below.                                                       *)
(***************************************************************************)
EXTENDS Integers, SequencesExt, FiniteSetsExt

CONSTANTS
  Texts,   \* the files
  Kilo,    \* 1024
  Wide     \* 2^64, the number of values of an unsigned long long

ASSUME WidthAssumption == {Kilo, Wide} \subseteq Nat \ {0}

\* Paths by their segments; the first of a relative one follows no slash.
Path(abs, segs) == [abs |-> abs, segs |-> segs]
NoPath == Path(FALSE, <<>>)
PathOf == "www" :> Path(FALSE, <<"www">>) @@ "site" :> Path(TRUE, <<"srv", "", ".", "site">>)
          @@ "dotted" :> Path(FALSE, <<".", "www", "a", "..">>)
          @@ "above" :> Path(FALSE, <<"..", "www">>)
          @@ "back" :> Path(FALSE, <<"www", "..", "site">>)
          @@ "nowhere" :> Path(TRUE, <<"no">>) @@ "slash" :> Path(TRUE, <<>>)
Directories == {Path(FALSE, <<"www">>), Path(TRUE, <<"srv", "site">>), Path(TRUE, <<>>),
                Path(FALSE, <<".", "www">>), Path(TRUE, <<"www">>), Path(TRUE, <<"site">>)}
Writable == {"www", "dotted"}
Number == "200" :> 200 @@ "301" :> 301 @@ "404" :> 404 @@ "500" :> 500 @@ "99" :> 99
          @@ "600" :> 600
Answer == "=" :> -1 @@ "=200" :> 200 @@ "=301" :> 301 @@ "=abc" :> 0
\* The number a size begins with, 0 if it has no digits, and the unit that follows it:
\* at most one character.
Size(num, unit) == [num |-> num, unit |-> unit]
SizeOf == "8" :> Size(8, 1) @@ "8k" :> Size(8, Kilo) @@ "0" :> Size(0, 1)
          @@ "k" :> Size(0, Kilo) @@ "" :> Size(0, 1)
          @@ "huge" :> Size(Wide, 1) @@ "hugek" :> Size(Wide \div Kilo, Kilo)
Addresses == {"one:80", "one:81"}
HttpUrls == {"http://x"}
Slashed == {"/", "/a", "/e"}
Extensions == {".py", ".pl"}
Executables == {"python", "perl"}
MethodNames == {"GET", "POST", "DELETE"}

-----------------------------------------------------------------------------
(***************************************************************************)
(* The lexer.  A quoted word may hold anything, and ends with the file; a  *)
(* comment takes the end of its line with it.                              *)
(***************************************************************************)
Separators == {"{", "}", ";", "nl"}
Token(e) == [type |-> IF e \in Separators THEN e ELSE "WORD", value |-> e]
Quoted(held) == [type |-> "WORD", value |-> CASE Len(held) = 0 -> "" [] Len(held) = 1 -> held[1]
                                              [] OTHER -> "quoted"]
Lexed(l, e) ==
  CASE l.mode = "quote" /\ e # "'" -> [l EXCEPT !.held = Append(@, e)]
    [] l.mode = "quote" -> [mode |-> "plain", held |-> <<>>,
                            tokens |-> Append(l.tokens, Quoted(l.held))]
    [] l.mode = "comment" -> [l EXCEPT !.mode = IF e = "nl" THEN "plain" ELSE @]
    [] e = "'" -> [l EXCEPT !.mode = "quote"]
    [] e = "#" -> [l EXCEPT !.mode = "comment"]
    [] e = " " -> l
    [] OTHER -> [l EXCEPT !.tokens = Append(@, Token(e))]
Tokenize(text) ==
  LET l == FoldLeft(Lexed, [mode |-> "plain", held |-> <<>>, tokens |-> <<>>], text)
  IN IF l.mode = "quote" THEN Append(l.tokens, Quoted(l.held)) ELSE l.tokens

-----------------------------------------------------------------------------
VARIABLES
  tokens,     \* of the file
  pos,        \* the cursor of clsParse
  phase,      \* the block that is read, "ready" or "refused"
  servers,    \* the blocks that were read
  server,     \* the block at work
  location    \* the location at work

configVars == <<tokens, pos, phase, servers, server, location>>

NoReturn == [code |-> -1, url |-> ""]
NoPages == [c \in {} |-> [uri |-> "", response |-> -1]]

\* The default root is "default", an uninitialised member is "any" or -1.
NewServer ==
  [root |-> Path(FALSE, <<"default">>), index |-> <<"index.html">>, autoindex |-> "any",
   max |-> 1048576, return |-> NoReturn, flags |-> {}, listens |-> <<>>,
   pages |-> NoPages, exact |-> <<>>, prefix |-> <<>>]
NewLocation(match, uri, autoindex) ==
  [match |-> match, uri |-> uri, root |-> NoPath, alias |-> NoPath, index |-> <<>>,
   autoindex |-> autoindex, methods |-> {}, max |-> -1, return |-> NoReturn, store |-> "",
   place |-> "", cgi |-> <<>>, pages |-> NoPages, flags |-> {}]

-----------------------------------------------------------------------------
(***************************************************************************)
(* clsParse, and what follows the name of a directive: where it ends and   *)
(* what it says, or not ok.                                                *)
(***************************************************************************)
Type(i) == IF i <= Len(tokens) THEN tokens[i].type ELSE "EOF"
Value(i) == IF i <= Len(tokens) THEN tokens[i].value ELSE ""
IsWord(i) == Type(i) = "WORD"

\* skipWhitespace.
Skip(i) == Min({k \in i .. Len(tokens) + 1 : Type(k) # "nl"})

\* The words from i on.
WordsEnd(i) == Min({k \in i .. Len(tokens) + 1 : ~IsWord(k)})
Words(i, j) == [k \in 1 .. j - i |-> Value(i + k - 1)]

Bad == [ok |-> FALSE]
Ended(i, val) == IF Type(i) = ";" THEN [ok |-> TRUE, pos |-> Skip(i + 1), val |-> val] ELSE Bad

\* resolve_segment and normalizePath: ".." takes a segment away, and what is put
\* behind nothing with a slash begins at "/".
Resolved(out, seg, slash) ==
  LET up == Front(out.segs)
  IN IF slash /\ seg = "." THEN out
     ELSE IF seg = ".."
       THEN IF Len(out.segs) <= 1 THEN NoPath ELSE [out EXCEPT !.segs = up]
     ELSE Path(IF out.segs = <<>> THEN slash ELSE out.abs, Append(out.segs, seg))
NormalizePath(path) ==
  LET segs == SelectSeq(path.segs, LAMBDA s : s # "")
      step(out, i) == Resolved(out, segs[i], path.abs \/ i > 1)
      end == FoldLeft(step, NoPath, [i \in DOMAIN segs |-> i])
  IN IF end = NoPath THEN Path(TRUE, <<>>) ELSE end

\* ParseRoot and parseAlias.
ParseDirectory ==
  IF ~IsWord(pos + 1) \/ Value(pos + 1) \notin DOMAIN PathOf THEN Bad
  ELSE LET path == NormalizePath(PathOf[Value(pos + 1)])
       IN IF path \in Directories THEN Ended(pos + 2, path) ELSE Bad

\* extractNumericPart stops at the largest long long, convertToBytes wraps.
Bytes(size) == (Min({size.num, Wide \div 2 - 1}) * size.unit) % Wide
ParseClientMaxBodySize ==
  IF ~IsWord(pos + 1) \/ Value(pos + 1) \notin DOMAIN SizeOf THEN Bad
  ELSE Ended(pos + 2, Bytes(SizeOf[Value(pos + 1)]))

ParseIndex ==
  LET end == WordsEnd(pos + 1)
      names == Words(pos + 1, end)
  IN IF names = <<>> \/ "" \in Range(names) THEN Bad ELSE Ended(end, names)

ParseAutoIndex ==
  IF Value(pos + 1) \in {"on", "off"} THEN Ended(pos + 2, Value(pos + 1)) ELSE Bad

ParseListen ==
  IF IsWord(pos + 1) /\ Value(pos + 1) \in Addresses
    THEN Ended(pos + 2, Value(pos + 1)) ELSE Bad

\* A URL alone is a 302; a redirect needs one.
ParseReturn ==
  LET first == Value(pos + 1)
      code == Number[first]
      url == IF IsWord(pos + 2) THEN Value(pos + 2) ELSE ""
      end == IF IsWord(pos + 2) THEN pos + 3 ELSE pos + 2
  IN IF first \in HttpUrls THEN Ended(pos + 2, [code |-> 302, url |-> first])
     ELSE IF first \notin DOMAIN Number THEN Bad
     ELSE IF code \notin 100 .. 599 \/ (code \in 300 .. 399 /\ url = "") THEN Bad
     ELSE Ended(end, [code |-> code, url |-> url])

ParseUploadStore ==
  IF IsWord(pos + 1) /\ Value(pos + 1) \in Writable
    THEN Ended(pos + 2, Value(pos + 1)) ELSE Bad
ParseUploadLocation == IF IsWord(pos + 1) THEN Ended(pos + 2, Value(pos + 1)) ELSE Bad

ParseCGI(map) ==
  LET ext == Value(pos + 1)
      bin == Value(pos + 2)
  IN IF ~IsWord(pos + 1) \/ ~IsWord(pos + 2) \/ ext \notin Extensions
        \/ bin \notin Executables \/ (\E c \in Range(map) : c.ext = ext)
       THEN Bad ELSE Ended(pos + 3, Append(map, [ext |-> ext, bin |-> bin]))

ParseMethods ==
  LET end == WordsEnd(pos + 1)
      names == Range(Words(pos + 1, end))
  IN IF names \subseteq MethodNames THEN Ended(end, names) ELSE Bad

\* A page that is not a path of the server is a redirect.
Response(uri, answer) ==
  IF uri \in Slashed \/ answer \in {301, 302, 303, 307, 308} THEN answer ELSE 302

\* Codes, an answer and the page; "" is a code too, but not one that is allowed.
ParseErrorPage(pages) ==
  LET coded(k) == IsWord(k) /\ Value(k) \in DOMAIN Number \cup {""}
      end == Min({k \in pos + 1 .. Len(tokens) + 1 : ~coded(k)})
      words == Range(Words(pos + 1, end))
      answered == IsWord(end) /\ Value(end) \in DOMAIN Answer
      answer == IF answered THEN Answer[Value(end)] ELSE -1
      at == IF answered THEN end + 1 ELSE end
      page == [uri |-> Value(at), response |-> Response(Value(at), answer)]
      codes == {Number[w] : w \in words}
  IN IF "" \in words \/ ~codes \subseteq 100 .. 599 \/ ~IsWord(at) THEN Bad
     ELSE Ended(at + 1, [c \in codes |-> page] @@ pages)

-----------------------------------------------------------------------------
(***************************************************************************)
(* Blocks.  An error ends the program.                                     *)
(***************************************************************************)
Refuse == /\ phase' = "refused"
          /\ UNCHANGED <<tokens, pos, servers, server, location>>

OpenServer ==
  /\ phase = "file" /\ Type(Skip(pos)) # "EOF"
  /\ LET at == Skip(Skip(pos) + 1)
     IN IF Type(Skip(pos)) # "WORD" \/ Value(Skip(pos)) # "server" \/ Type(at) # "{" THEN Refuse
        ELSE /\ phase' = "server" /\ pos' = Skip(at + 1) /\ server' = NewServer
             /\ UNCHANGED <<tokens, servers, location>>

\* A server without an address is only warned of, one without a location is not
\* accepted.
CloseServer ==
  /\ phase = "server" /\ Type(pos) = "}"
  /\ IF server.exact \o server.prefix = <<>> THEN Refuse
     ELSE /\ phase' = "file" /\ pos' = Skip(pos + 1)
          /\ servers' = Append(servers, server)
          /\ UNCHANGED <<tokens, server, location>>

InServer(name) == phase = "server" /\ IsWord(pos) /\ Value(pos) = name
SetServer(r, s) == IF ~r.ok THEN Refuse
                   ELSE /\ pos' = r.pos /\ server' = s
                        /\ UNCHANGED <<tokens, phase, servers, location>>

Listen == InServer("listen") /\ \E r \in {ParseListen} :
            SetServer(r, [server EXCEPT !.listens = Append(@, r.val)])
Root == InServer("root") /\ \E r \in {ParseDirectory} :
          SetServer(r, [server EXCEPT !.root = r.val])
Index == InServer("index") /\ \E r \in {ParseIndex} :
           SetServer(r, [server EXCEPT !.index = r.val])
BodySize == InServer("client_max_body_size") /\ \E r \in {ParseClientMaxBodySize} :
              SetServer(r, [server EXCEPT !.max = r.val])
AutoIndex == InServer("autoindex") /\ \E r \in {ParseAutoIndex} :
               SetServer(r, [server EXCEPT !.autoindex = r.val])
Return == /\ InServer("return")
          /\ \E r \in {IF "return" \in server.flags THEN Bad ELSE ParseReturn} :
               SetServer(r, [server EXCEPT !.return = r.val, !.flags = @ \cup {"return"}])
ErrorPage == InServer("error_page") /\ \E r \in {ParseErrorPage(server.pages)} :
               SetServer(r, [server EXCEPT !.pages = r.val])

ServerNames == {"listen", "root", "index", "client_max_body_size", "autoindex", "return",
                "error_page", "location"}

\* What is no directive of the block; "}" and the end of the file end its loop.
Unknown(names) == IF IsWord(pos) THEN Value(pos) \notin names ELSE Type(pos) # "}"

\* Fault: a directive that is not known is left to the next turn.
LeaveUnknown == phase = "server" /\ Unknown(ServerNames) /\ UNCHANGED configVars
UnknownInServer == phase = "server" /\ Unknown(ServerNames) /\ Refuse

-----------------------------------------------------------------------------
(***************************************************************************)
(* Locations.                                                              *)
(***************************************************************************)
\* parseLocationPath.
ParseLocationPath ==
  LET modified == IsWord(pos + 1) /\ Value(pos + 1) \in {"=", "^~"}
      at == IF modified THEN Skip(pos + 2) ELSE pos + 1
      brace == Skip(at + 1)
  IN IF ~IsWord(pos + 1) \/ ~IsWord(at) \/ Value(at) \notin Slashed \/ Type(brace) # "{" THEN Bad
     ELSE [ok |-> TRUE, pos |-> Skip(brace + 1), uri |-> Value(at),
           match |-> IF Value(pos + 1) = "=" THEN "EXACT" ELSE "PREFIX"]

OpenLocation ==
  /\ InServer("location")
  /\ \E r \in {ParseLocationPath} :
       IF ~r.ok THEN Refuse
       ELSE /\ phase' = "location" /\ pos' = r.pos
            /\ location' = NewLocation(r.match, r.uri, server.autoindex)
            /\ UNCHANGED <<tokens, servers, server>>

Known(locations, l) == \E k \in DOMAIN locations : locations[k].uri = l.uri

\* The end of a location: uploads need both of their directives, and no two
\* locations of a server have one path.
CloseLocation ==
  /\ phase = "location" /\ Type(pos) = "}"
  /\ LET exact == location.match = "EXACT"
         s == IF exact THEN [server EXCEPT !.exact = Append(@, location)]
              ELSE [server EXCEPT !.prefix = Append(@, location)]
     IN IF \/ "upload_store" \in location.flags /\ "upload_location" \notin location.flags
           \/ Known(IF exact THEN server.exact ELSE server.prefix, location)
          THEN Refuse
        ELSE /\ phase' = "server" /\ pos' = Skip(pos + 1) /\ server' = s
             /\ UNCHANGED <<tokens, servers, location>>

InLocation(name) == phase = "location" /\ IsWord(pos) /\ Value(pos) = name
SetLocation(r, l) == IF ~r.ok THEN Refuse
                     ELSE /\ pos' = r.pos /\ location' = l
                          /\ UNCHANGED <<tokens, phase, servers, server>>

\* A directive that is refused after another one of others, and r as it sets l.
Once(others, r) == IF location.flags \cap others # {} THEN Bad ELSE r
Flagged(l, name) == [l EXCEPT !.flags = @ \cup {name}]

LocationRoot ==
  InLocation("root") /\ \E r \in {Once({"root", "alias"}, ParseDirectory)} :
    SetLocation(r, Flagged([location EXCEPT !.root = r.val], "root"))
LocationAlias ==
  InLocation("alias") /\ \E r \in {Once({"root", "alias"}, ParseDirectory)} :
    SetLocation(r, Flagged([location EXCEPT !.alias = r.val], "alias"))
LocationIndex ==
  InLocation("index") /\ \E r \in {ParseIndex} :
    SetLocation(r, [location EXCEPT !.index = r.val])
LocationAutoIndex ==
  InLocation("autoindex") /\ \E r \in {Once({"autoindex"}, ParseAutoIndex)} :
    SetLocation(r, Flagged([location EXCEPT !.autoindex = r.val], "autoindex"))
LocationMethods ==
  InLocation("allow_methods") /\ \E r \in {Once({"allow_methods"}, ParseMethods)} :
    SetLocation(r, Flagged([location EXCEPT !.methods = r.val], "allow_methods"))
LocationBodySize ==
  /\ InLocation("client_max_body_size")
  /\ \E r \in {Once({"client_max_body_size"}, ParseClientMaxBodySize)} :
       SetLocation(r, Flagged([location EXCEPT !.max = r.val], "client_max_body_size"))
LocationReturn ==
  InLocation("return") /\ \E r \in {Once({"return"}, ParseReturn)} :
    SetLocation(r, Flagged([location EXCEPT !.return = r.val], "return"))
UploadStore ==
  InLocation("upload_store") /\ \E r \in {Once({"upload_store"}, ParseUploadStore)} :
    SetLocation(r, Flagged([location EXCEPT !.store = r.val], "upload_store"))
UploadLocation ==
  InLocation("upload_location") /\ \E r \in {Once({"upload_location"}, ParseUploadLocation)} :
    SetLocation(r, Flagged([location EXCEPT !.place = r.val], "upload_location"))
CgiPass ==
  InLocation("cgi_pass") /\ \E r \in {ParseCGI(location.cgi)} :
    SetLocation(r, [location EXCEPT !.cgi = r.val])
LocationErrorPage ==
  InLocation("error_page") /\ \E r \in {ParseErrorPage(location.pages)} :
    SetLocation(r, [location EXCEPT !.pages = r.val])

LocationNames == {"root", "alias", "index", "autoindex", "allow_methods",
                  "client_max_body_size", "return", "upload_store", "upload_location",
                  "cgi_pass", "error_page"}
UnknownInLocation == phase = "location" /\ Unknown(LocationNames) /\ Refuse

-----------------------------------------------------------------------------
(***************************************************************************)
(* The end of the file: what locations have of their server.               *)
(***************************************************************************)
\* Fault: an alias does not keep the root of the server away.
InheritRootToo(s, l) ==
  [l EXCEPT !.root = IF @ = NoPath THEN s.root ELSE @,
            !.pages = IF DOMAIN @ = {} THEN s.pages ELSE @,
            !.index = IF @ = <<>> THEN s.index ELSE @]

Inherit(s, l) ==
  [l EXCEPT !.root = IF @ = NoPath /\ l.alias = NoPath THEN s.root ELSE @,
            !.pages = IF DOMAIN @ = {} THEN s.pages ELSE @,
            !.index = IF @ = <<>> THEN s.index ELSE @]

InitUri(s) == [s EXCEPT !.exact = [k \in DOMAIN @ |-> Inherit(s, @[k])],
                        !.prefix = [k \in DOMAIN @ |-> Inherit(s, @[k])]]

EndOfFile ==
  /\ phase = "file" /\ Type(Skip(pos)) = "EOF"
  /\ IF servers = <<>> THEN Refuse
     ELSE /\ phase' = "ready"
          /\ servers' = [k \in DOMAIN servers |-> InitUri(servers[k])]
          /\ UNCHANGED <<tokens, pos, server, location>>

ConfigInit ==
  /\ tokens \in {Tokenize(t) : t \in Texts}
  /\ pos = 1 /\ phase = "file" /\ servers = <<>> /\ server = NewServer
  /\ location = NewLocation("PREFIX", "", "any")

ServerDirective == \/ Listen \/ Root \/ Index \/ BodySize \/ AutoIndex \/ Return \/ ErrorPage
                   \/ OpenLocation \/ UnknownInServer
LocationDirective == \/ LocationRoot \/ LocationAlias \/ LocationIndex \/ LocationAutoIndex
                     \/ LocationMethods \/ LocationBodySize \/ LocationReturn \/ UploadStore
                     \/ UploadLocation \/ CgiPass \/ LocationErrorPage \/ UnknownInLocation
ConfigNext == \/ OpenServer \/ CloseServer \/ ServerDirective
              \/ LocationDirective \/ CloseLocation \/ EndOfFile
=============================================================================
