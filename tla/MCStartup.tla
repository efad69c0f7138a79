----------------------------- MODULE MCStartup ------------------------------
(***************************************************************************)
(* Startup for TLC: servers with every three directives in every order,    *)
(* locations with every two, complete files with one element left out or   *)
(* replaced, and blocks that ask for the same addresses.                   *)
(***************************************************************************)
EXTENDS Startup

Block(name, body) == name \o <<"{", "nl">> \o body \o <<"}", "nl">>
Line(words) == words \o <<";", "nl">>
SeqsUpTo(S, n) == UNION {[1 .. k -> S] : k \in 0 .. n}

Plain == Block(<<"location", "/">>, <<>>)
ServerItems ==
  {Line(w) : w \in {<<"listen", "one:80">>, <<"root", "www">>, <<"root", "dotted">>,
                    <<"index", "a", "b">>, <<"autoindex", "on">>, <<"autoindex", "off">>,
                    <<"return", "301", "/a">>, <<"error_page", "404", "500", "/e">>,
                    <<"error_page", "404", "=200", "x">>, <<"client_max_body_size", "8k">>}}
  \cup {Plain, Block(<<"location", "=", "/">>, Line(<<"autoindex", "on">>)),
        Block(<<"location", "^~", "/a">>, Line(<<"root", "site">>) \o Line(<<"index", "c">>)),
        Block(<<"location", "/e">>, Line(<<"error_page", "500", "/a">>) \o Line(<<"alias", "back">>))}
Servers == {Block(<<"server">>, FlattenSeq(items)) : items \in SeqsUpTo(ServerItems, 3)}

LocationItems ==
  {Line(w) : w \in {<<"root", "above">>, <<"root", "nowhere">>, <<"alias", "slash">>, <<"alias", "www">>,
                    <<"index", "x">>, <<"index">>, <<"autoindex", "off">>, <<"autoindex", "yes">>,
                    <<"allow_methods", "GET", "POST">>, <<"allow_methods">>, <<"allow_methods", "PUT">>,
                    <<"client_max_body_size", "huge">>, <<"client_max_body_size", "hugek">>,
                    <<"client_max_body_size", "k">>, <<"client_max_body_size", "8kk">>,
                    <<"client_max_body_size", "'", "'">>, <<"return", "http://x">>, <<"return", "404">>,
                    <<"return", "301">>, <<"return", "99">>, <<"upload_store", "www">>,
                    <<"upload_location", "/a">>, <<"cgi_pass", ".py", "python">>,
                    <<"cgi_pass", ".py", "perl">>, <<"cgi_pass", ".pl", "x">>,
                    <<"error_page", "404", "=abc", "x">>, <<"error_page", "404", "=301", "/a">>,
                    <<"error_page", "/e">>, <<"error_page", "600", "/e">>, <<"listen", "one:80">>}}
Locations ==
  {Block(<<"server">>, Line(<<"root", "site">>) \o Line(<<"listen", "one:80">>)
                         \o Line(<<"error_page", "404", "/e">>)
                         \o Block(<<"location", "/a">>, FlattenSeq(items))) :
     items \in SeqsUpTo(LocationItems, 2)}

\* A complete file, and every one that differs from it in one element.
Complete ==
  <<"#", "root", "nl">>
    \o Block(<<"server", "nl">>,
         Line(<<"listen", "one:80">>) \o Line(<<"listen", "one:81", "#", ";">>) \o <<";">>
           \o Line(<<"root", "'", "www", "'">>) \o Line(<<"error_page", "404", "=", "/e">>)
           \o Block(<<"location", "=", "/">>, Line(<<"autoindex", "on">>) \o Line(<<"upload_store", "www">>)
                      \o Line(<<"upload_location", "'", "a", ";", "'">>))
           \o Block(<<"location", "/a">>, Line(<<"cgi_pass", ".py", "python">>)
                      \o Line(<<"allow_methods", "DELETE">>) \o Line(<<"return", "200", "/">>)))
Without(text, i) == SubSeq(text, 1, i - 1) \o SubSeq(text, i + 1, Len(text))
Neighbours ==
  {Complete} \cup {Without(Complete, i) : i \in DOMAIN Complete}
  \cup {[Complete EXCEPT ![i] = e] : i \in DOMAIN Complete,
        e \in {"{", "}", ";", "nl", "'", "#", "server", "location", "/", "root", "200", " "}}

\* Blocks that share addresses.
Sharing ==
  {FlattenSeq([b \in DOMAIN blocks |->
     Block(<<"server">>, FlattenSeq([k \in DOMAIN blocks[b] |-> Line(<<"listen", blocks[b][k]>>)])
                           \o Plain)]) :
     blocks \in SeqsUpTo(SeqsUpTo(Addresses, 2), 2)
                \cup [1 .. 3 -> [1 .. 1 -> Addresses]]}

\* Directives of a server that are not accepted.
Refusals ==
  {Block(<<"server">>, Line(w) \o Plain) :
     w \in {<<"index", "'", "'">>, <<"index">>, <<"autoindex", "yes">>, <<"root", "nowhere">>,
            <<"client_max_body_size", "8kk">>, <<"return", "600">>, <<"error_page", "x">>,
            <<"error_page", "404", "'", "'", "/e">>, <<"listen", "x">>, <<"listen">>}}
  \cup {Block(<<"server">>, Line(<<"return", "404">>) \o Line(<<"return", "404">>) \o Plain)}

AllTexts == Refusals \cup Servers \cup Locations \cup Neighbours \cup Sharing
=============================================================================
