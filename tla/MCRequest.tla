------------------------------ MODULE MCRequest ------------------------------
(***************************************************************************)
(* RequestReading for TLC: every short path over the bytes that mean       *)
(* something, headers that repeat and fill the tables, chunks around the   *)
(* sizes of the buffers, and lines that are not as they should be.         *)
(***************************************************************************)
EXTENDS RequestReading

Plain == [method |-> "GET", target |-> <<"/">>, headers |-> <<>>, chunks |-> <<>>, raw |-> <<>>]
H(key, value) == [key |-> key, value |-> value]
Host == H(<<"host">>, <<" ", "a">>)
Coding == H(<<"coding">>, <<"chunked">>)
Cookie(v) == H(<<"cookie">>, <<v, " ">>)
A(v) == H(<<"a">>, <<v>>)
Upper(v) == H(<<"A">>, <<v>>)
Type(v) == H(<<"type">>, <<v>>)
Connection(v) == H(<<"connection">>, <<" ", v>>)
AA(v) == H(<<"a", "a">>, <<" ", v>>)

SeqsUpTo(S, n) == UNION {[1 .. k -> S] : k \in 0 .. n}

Targets ==
  {<<"/">> \o t : t \in SeqsUpTo({"/", ".", "a"}, 5)}
  \cup {<<"/">> \o t \o u : t \in SeqsUpTo({"a", "/", "."}, 2),
        u \in {<<"%", "2", "e", "/">>, <<"%", "2", "f", ".", ".", "/">>,
               <<"%", "2", "e", "%", "2", "e", "/", "a">>, <<"%", "0", "0">>,
               <<"%", "2", "a">>, <<"%", "2", "?">>, <<"?", "a", "%", "2", "e", "#", "a">>,
               <<"#", "?">>, <<"tab">>, <<"host">>}}
  \cup {<<"/", "%", "2", "a">> \o t : t \in SeqsUpTo({"/", "."}, 4)}
  \cup {<<"/", "a", "/", ".", "%", "2", "e", "/", ".", "/">>,
        <<"/", "%", "2", "a", "%", "2", "a", "/", ".", ".", "/">>}
  \cup {<<"//", "a", "/", ".", ".", "//", "a">>, <<"a">>}
  \cup {<<"http:", "//">> \o t : t \in
        {<<"ip1", "ip2", "/", "a">>, <<"ip1", "ip2", ":", "1", "2", "/">>, <<"a", "/">>,
         <<"a", "@", "ip1", "ip2", "/">>, <<"ip1", "ip2", ":", "/">>}}
Paths == {[Plain EXCEPT !.target = t, !.headers = <<Host>>] : t \in Targets}

Headed ==
  {<<>>, <<Host, Host>>, <<Host, A("1"), A("2"), A("0")>>, <<A("1"), AA("1"), A("2"), Host>>,
   <<Cookie("1"), A("1"), Cookie("2"), Cookie("0")>>, <<Cookie("1"), Coding, Cookie("2"), Coding>>,
   <<A("1"), Upper("1"), A("2")>>, <<A("1"), A("1"), A("2"), A("2")>>,
   <<Host, H(<<"a">>, <<" ", "tab">>)>>, <<Host, H(<<"a">>, <<>>)>>, <<H(<<"host">>, <<>>)>>,
   <<H(<<"host">>, <<" ">>)>>, <<A("1"), H(<<>>, <<"1">>), A("2")>>, <<A(":"), AA("tab")>>,
   <<H(<<"length">>, <<"1">>), H(<<"length">>, <<"1">>)>>,
   <<H(<<"a">>, <<" ", "a", " ", "tab">>), Upper("1"), AA("2"), Host>>,
   <<H(<<"a">>, <<" ", "1", " ", "2", " ">>), A("0")>>, <<Type("1"), Type("2"), Connection("a")>>,
   <<Connection("a"), A("1"), Connection("1"), A("2")>>, <<A("1"), Upper("1"), A("1")>>,
   <<H(<<"a", "-">>, <<"1">>), H(<<"A", "_">>, <<"2">>)>>,
   <<H(<<>>, <<"1">>), A("1"), A("2")>>, <<H(<<>>, <<"1">>), Cookie("1"), Cookie("2"), A("1")>>}
  \cup {<<x, y>> : x, y \in {A("1"), Upper("2"), AA("1"), Cookie("1")}}
Headers == {[Plain EXCEPT !.headers = h] : h \in Headed}

\* Chunks of one, two or sixteen bytes, ends of lines among them.
Sixteen(x) == [i \in 1 .. 16 |-> IF i = 8 THEN "lf" ELSE x]
Uploads ==
  {[Plain EXCEPT !.method = "POST", !.headers = <<Coding>>, !.chunks = c] :
     c \in SeqsUpTo({<<"x">>, <<"cr", "lf">>, <<"y", "0">>}, 3)
           \cup {<<Sixteen("cr")>>, <<Sixteen("x"), <<"y">>>>, <<<<"cr">>, Sixteen("x")>>,
                 <<Sixteen("x"), Sixteen("y")>>, <<<<"x">>, Sixteen("y"), Sixteen("y")>>,
                 <<Sixteen("x"), Sixteen("cr"), Sixteen("y")>>, <<<<"x">>, <<"y">>, <<"x">>, <<"y">>>>}}
  \cup {[Plain EXCEPT !.method = "POST", !.headers = h] :
        h \in {<<Host>>, <<H(<<"coding">>, <<"a">>)>>, <<H(<<"length">>, <<"1">>)>>,
               <<Coding, Coding>>}}

Start == <<"POS", "T", " ", "/", " ", "HTTP/", "1.1", "cr", "lf", "coding", ":", "chunked">>
           \o Crlf \o Crlf
Line(t, v) == <<"GE", "T", " ">> \o t \o <<" ">> \o v
Run(e, n) == [i \in 1 .. n |-> e]
Raws ==
  {<<"PU", "T">>, <<"GE", "TE", " ">>, <<"GE", "T", "/">>,
   Line(<<"/">>, <<"HTTP/", "1.0">>), Line(<<"/">>, <<"HTTP/", "1.1", "lf">>),
   Line(<<" ", "/">>, <<"tab", "HTTP/", "1.1", "cr", "cr">>),
   Line(<<"/">> \o Run("a", BufferRequest), <<"HTTP/">>),
   Line(<<"/">> \o Run("a", BufferRequest - 9), <<"HTTP/", "1.1">> \o Crlf \o Run("a", 4)),
   Line(<<"/">>, <<"HTTP/", "1.1">> \o Crlf \o Run("a", BufferRequest)),
   Line(<<"/">>, <<"HTTP/", "1.1">> \o Crlf \o <<"a", ":">> \o Run("a", BufferRequest)),
   Line(<<"/">>, <<"HTTP/", "1.1">> \o Crlf \o <<"a", ":", "1", "lf">>),
   Line(<<"/">>, <<"HTTP/", "1.1">> \o Crlf \o <<"a", ":", "1", "cr", "cr">>),
   Line(<<"/">>, <<"HTTP/", "1.1">> \o Crlf \o <<"a", ":", "1">> \o Crlf \o <<"cr", "a">>)}
  \cup {Start \o t : t \in
        {<<"1", "cr", "x">>, <<"x">> \o Crlf, <<"1", " ">> \o Crlf \o <<"y">> \o Crlf,
         <<"1">> \o Crlf \o <<"y", "y", "cr">>, <<"1">> \o Crlf \o <<"y", "cr", "y">>,
         <<"0", "0">> \o Crlf \o Crlf, <<"0">> \o Crlf \o <<"x", "lf">>, Crlf \o Crlf,
         Crlf \o <<"1">> \o Crlf \o <<"0">> \o Crlf \o Crlf,
         <<"1", "0">> \o Crlf \o Run("x", 16) \o Crlf \o <<"0">> \o Crlf \o Crlf \o <<"GE", "T">>,
         Run("0", SizeBuffer + 10)}}
Malformed == {[Plain EXCEPT !.raw = r] : r \in Raws}

\* What those are made of.
AllElements == Words \cup Pchars \cup Blank \cup KeyChars \cup ValueChars
                 \cup {"?", "#", "%", "ip1", "ip2", "x", "y", "PU", "1.0"}

AllRequests == Paths \cup Headers \cup Uploads \cup Malformed
=============================================================================
