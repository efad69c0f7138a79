----------------------------- MODULE MCResponse -----------------------------
(***************************************************************************)
(* Response for TLC: a site with a file, a large one, a directory with an  *)
(* index, a listing, a CGI, an alias, a store and redirections, under two  *)
(* choices of error pages.                                                 *)
(***************************************************************************)
EXTENDS Response

Plainest == [uri |-> <<"/">>, exact |-> FALSE, root |-> <<"www">>,
             alias |-> <<>>, index |-> <<[uri |-> <<"index">>, relative |-> TRUE]>>,
             autoindex |-> FALSE, methods |-> Methods, cgi |-> {},
             ret |-> NoReturn, store |-> FALSE]

Places ==
  {Plainest,
   [Plainest EXCEPT !.uri = <<"/", "list">>, !.autoindex = TRUE,
      !.methods = {"GET"}],
   [Plainest EXCEPT !.uri = <<"/", "cgi">>, !.cgi = {".py"}, !.methods = {"GET", "POST"},
      !.index = <<[uri |-> <<"run", ".py">>, relative |-> TRUE]>>],
   [Plainest EXCEPT !.uri = <<"/", "up", "/">>, !.alias = <<"www", "/", "list", "/">>,
      !.store = TRUE, !.index = <<[uri |-> <<"/", "up", "/">>, relative |-> FALSE]>>],
   [Plainest EXCEPT !.uri = <<"/", "old">>, !.exact = TRUE,
      !.ret = [code |-> 200, value |-> <<"moved">>]],
   [Plainest EXCEPT !.uri = <<"/", "gone">>, !.exact = TRUE, !.methods = {"GET"},
      !.ret = [code |-> 444, value |-> <<>>]]}

Page(uri, relative, code) ==
  [uri |-> uri, relative |-> relative, response |-> code]

\* Error pages: files, a listing, a missing page, a location with a return, a
\* script that is missing, a page elsewhere.
SomePages ==
  (404 :> Page(<<"/", "list", "/">>, FALSE, NoCode)) @@
  (403 :> Page(<<"/", "nothing">>, FALSE, NoCode)) @@
  (400 :> Page(<<"/", "a">>, FALSE, 200)) @@
  (502 :> Page(<<"/", "old">>, FALSE, NoCode)) @@
  (500 :> Page(<<"/", "list", "/", "big">>, FALSE, NoCode))
OtherPages ==
  (404 :> Page(<<"/", "cgi", "/", "no", ".py">>, FALSE, NoCode)) @@
  (403 :> Page(<<"else", "where">>, TRUE, 302)) @@
  (400 :> Page(<<"/", "up", "/">>, FALSE, NoCode)) @@
  (502 :> Page(<<"/", "list", "/", "big">>, FALSE, NoCode)) @@
  (413 :> Page(<<"/", "cgi", "/", "run", ".py">>, FALSE, NoCode)) @@
  (504 :> Page(<<"/", "dir">>, FALSE, NoCode)) @@
  (431 :> Page(<<"/", "list", "/", "big">>, FALSE, 0))

Site(pages, locations) ==
  [locations |-> locations, ret |-> NoReturn, pages |-> pages]
TwoServers == {Site(SomePages, Places), Site(OtherPages, Places \ {Plainest})}

Elements == {"/", "www", "index", "list", "cgi", ".py", "run", "up", "old", "moved",
             "gone", "nothing", "a", "big", "no", "else", "where", "dir", "secret",
             "n", "x"}

Disk ==
  (<<"www">> :> "dir") @@ (<<"www", "/", "a">> :> "file") @@
  (<<"www", "/", "list", "/", "big">> :> "big") @@ (<<"www", "/", "dir">> :> "dir") @@
  (<<"www", "/", "dir", "/", "index">> :> "file") @@
  (<<"www", "/", "list">> :> "dir") @@ (<<"www", "/", "list", "/", "secret">> :> "denied") @@
  (<<"www", "/", "cgi">> :> "dir") @@
  (<<"www", "/", "cgi", "/", "run", ".py">> :> "file")

Uris == {<<"/", "a">>, <<"/", "list", "/", "big">>, <<"/", "dir">>, <<"/", "dir", "/">>,
         <<"/", "list", "/">>, <<"/", "list", "/", "secret">>, <<"/", "nothing">>,
         <<"/", "cgi", "/">>, <<"/", "cgi", "/", "run", ".py", "/", "x">>,
         <<"/", "cgi", "/", "no", ".py">>, <<"/", "up", "/">>, <<"/", "up", "/", "n">>,
         <<"/", "old">>, <<"/", "gone">>}

Asks(method, uris, closes) ==
  [uri: uris, method: {method}, close: closes]
SomeRequests ==
  Asks("GET", Uris, {FALSE})
  \cup Asks("GET", {<<"/", "a">>, <<"/", "nothing">>}, {TRUE})
  \cup Asks("DELETE", {<<"/", "a">>, <<"/", "dir", "/">>, <<"/", "list", "/">>,
                        <<"/", "nothing">>}, BOOLEAN)
  \cup Asks("POST", {<<"/", "a">>, <<"/", "up", "/", "n">>, <<"/", "old">>,
                      <<"/", "cgi", "/", "run", ".py", "/", "x">>}, {TRUE})
=============================================================================
