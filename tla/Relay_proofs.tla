---------------------------- MODULE Relay_proofs -----------------------------
(***************************************************************************)
(* Proofs about Relay.                                                     *)
(***************************************************************************)
EXTENDS Relay, Induction, SequenceTheorems

Tokens == [kind: TokenKinds, n: Int, bytes: Nat]

\* What a token adds to the sum.
Share(t, kinds) == IF t.kind \in kinds THEN t.bytes ELSE 0

LEMMA ShareNat ==
  ASSUME NEW t \in Tokens, NEW kinds PROVE Share(t, kinds) \in Nat
  BY DEF Share, Tokens

\* The partial sums of a sequence.
IsSum(f, tokens, kinds) ==
  /\ f \in [0 .. Len(tokens) -> Nat]
  /\ f[0] = 0
  /\ \A i \in 1 .. Len(tokens) : f[i] = f[i - 1] + Share(tokens[i], kinds)

LEMMA SumsExist ==
  ASSUME NEW tokens \in Seq(Tokens), NEW kinds
  PROVE  \E f : /\ IsSum(f, tokens, kinds)
                /\ BytesOf(tokens, kinds) = f[Len(tokens)]
<1> DEFINE N == Len(tokens)
           g == [i \in 1 .. N |-> [v \in Nat |-> v + Share(tokens[i], kinds)]]
           F(f) == [i \in 0 .. N |->
                      IF i = 0 THEN 0
                      ELSE f[i - 1] + (IF tokens[i].kind \in kinds THEN tokens[i].bytes ELSE 0)]
<1>1. \A i \in 1 .. N : Share(tokens[i], kinds) \in Nat
  <2>1. \A i \in 1 .. N : tokens[i] \in Tokens
    OBVIOUS
  <2>2. QED
    BY <2>1, ShareNat
<1>2. N \in Nat
  OBVIOUS
<1>3. g \in [1 .. N -> [Nat -> Nat]]
  BY <1>1
<1>4. \A i \in 1 .. N : \A v \in Nat : g[i][v] = v + Share(tokens[i], kinds)
  OBVIOUS
<1> HIDE DEF N, g
<1>5. PICK f \in [0 .. N -> Nat] : Iterates(f, 0, g, N)
  BY <1>2, <1>3, IteratesExist
<1>6. \A i \in 1 .. N : i \in 0 .. N /\ i - 1 \in 0 .. N /\ i # 0
  BY <1>2
<1>7. \A i \in 1 .. N : f[i] = f[i - 1] + Share(tokens[i], kinds)
  BY <1>4, <1>5, <1>6 DEF Iterates
<1>8. f = F(f)
  <2>1. \A i \in 0 .. N : i = 0 \/ i \in 1 .. N
    BY <1>2
  <2>2. \A i \in 0 .. N : f[i] = F(f)[i]
    BY <1>5, <1>7, <2>1 DEF Iterates, Share
  <2>3. QED
    BY <2>2
<1>9. ASSUME NEW h, h = F(h) PROVE h[N] = f[N]
  <2> DEFINE T == {i \in 0 .. N : h[i] = f[i]}
  <2>1. 0 \in T
    BY <1>2, <1>5, <1>9 DEF Iterates
  <2>2. ASSUME NEW i \in 1 .. N, i - 1 \in T
        PROVE  i \in T
    <3>1. h[i] = h[i - 1] + Share(tokens[i], kinds)
      BY <1>6, <1>9 DEF Share
    <3>2. QED
      BY <1>6, <1>7, <2>2, <3>1
  <2> HIDE DEF T, F
  <2>3. 0 .. N \subseteq T
    BY <1>2, <2>1, <2>2, NumbersUpTo
  <2>4. QED
    BY <1>2, <2>3 DEF T
<1>10. BytesOf(tokens, kinds) = (CHOOSE h : h = F(h))[N]
  BY DEF BytesOf, N
<1> HIDE DEF F
<1>11. BytesOf(tokens, kinds) = f[N]
  BY <1>8, <1>9, <1>10
<1>12. IsSum(f, tokens, kinds)
  BY <1>5, <1>7 DEF IsSum, Iterates, N
<1>13. QED
  BY <1>11, <1>12 DEF N

SamePrefix(s, t, n) ==
  n <= Len(s) /\ n <= Len(t) /\ \A i \in 1 .. n : s[i] = t[i]

\* There is one function of partial sums, on what two sequences share.
LEMMA SumsAgree ==
  ASSUME NEW s, NEW t, NEW kinds, NEW f, NEW g, NEW n \in Nat,
         IsSum(f, s, kinds), IsSum(g, t, kinds), SamePrefix(s, t, n),
         s \in Seq(Tokens), t \in Seq(Tokens)
  PROVE  f[n] = g[n]
<1> DEFINE T == {i \in 0 .. n : f[i] = g[i]}
<1>1. 0 \in T
  BY DEF IsSum
<1>2. ASSUME NEW i \in 1 .. n, i - 1 \in T PROVE i \in T
  <2>1. i \in 1 .. Len(s) /\ i \in 1 .. Len(t) /\ s[i] = t[i]
    BY DEF SamePrefix
  <2>2. QED
    BY <1>2, <2>1 DEF IsSum
<1> HIDE DEF T
<1>3. 0 .. n \subseteq T
  BY <1>1, <1>2, NumbersUpTo
<1>4. QED
  BY <1>3 DEF T

LEMMA BytesEmpty ==
  ASSUME NEW kinds PROVE BytesOf(<<>>, kinds) = 0
<1>1. <<>> \in Seq(Tokens)
  OBVIOUS
<1>2. QED
  BY <1>1, SumsExist DEF IsSum

LEMMA BytesNat ==
  ASSUME NEW s \in Seq(Tokens), NEW kinds PROVE BytesOf(s, kinds) \in Nat
<1>1. Len(s) \in 0 .. Len(s)
  OBVIOUS
<1>2. QED
  BY <1>1, SumsExist DEF IsSum

\* The bytes of two sequences, one after the other.
LEMMA BytesConcat ==
  ASSUME NEW s \in Seq(Tokens), NEW t \in Seq(Tokens), NEW kinds
  PROVE  BytesOf(s \o t, kinds) = BytesOf(s, kinds) + BytesOf(t, kinds)
<1> DEFINE M == Len(s)  N == Len(t)
<1>1. s \o t \in Seq(Tokens) /\ M \in Nat /\ N \in Nat /\ Len(s \o t) = M + N
  OBVIOUS
<1>2. PICK f : IsSum(f, s, kinds) /\ BytesOf(s, kinds) = f[M]
  BY SumsExist
<1>3. PICK g : IsSum(g, t, kinds) /\ BytesOf(t, kinds) = g[N]
  BY SumsExist
<1>4. PICK h : IsSum(h, s \o t, kinds) /\ BytesOf(s \o t, kinds) = h[M + N]
  BY <1>1, SumsExist
<1>5. \A i \in 1 .. M : (s \o t)[i] = s[i]
  OBVIOUS
<1>6. \A i \in 1 .. N : (s \o t)[M + i] = t[i]
  OBVIOUS
<1>7. h[M] = f[M]
  <2>1. SamePrefix(s, s \o t, M)
    BY <1>1, <1>5 DEF SamePrefix
  <2>2. PICK u, m : u = s \o t /\ m = M
    OBVIOUS
  <2>3. m \in Nat /\ u \in Seq(Tokens) /\ SamePrefix(s, u, m) /\ IsSum(h, u, kinds)
    BY <1>1, <1>4, <2>1, <2>2
  <2>4. f[m] = h[m]
    BY <1>2, <2>3, SumsAgree
  <2>5. QED
    BY <2>2, <2>4
<1> DEFINE T == {i \in 0 .. N : h[M + i] = f[M] + g[i]}
<1>8. f[M] \in Nat /\ g \in [0 .. N -> Nat] /\ g[0] = 0
  BY <1>1, <1>2, <1>3 DEF IsSum
<1>9. 0 \in T
  BY <1>1, <1>7, <1>8
<1>10. ASSUME NEW i \in 1 .. N, i - 1 \in T PROVE i \in T
  <2>1. M + i \in 1 .. M + N /\ M + i - 1 = M + (i - 1) /\ i \in 0 .. N /\ i - 1 \in 0 .. N
    BY <1>1
  <2>2. h[M + i] = h[M + i - 1] + Share((s \o t)[M + i], kinds)
    BY <1>1, <1>4, <2>1 DEF IsSum
  <2>3. h[M + i] = f[M] + g[i - 1] + Share(t[i], kinds)
    BY <1>6, <1>10, <2>1, <2>2
  <2>4. g[i] = g[i - 1] + Share(t[i], kinds)
    BY <1>3 DEF IsSum
  <2>5. t[i] \in Tokens
    OBVIOUS
  <2>6. Share(t[i], kinds) \in Nat
    BY <2>5, ShareNat
  <2>7. g[i - 1] \in Nat
    BY <1>8, <2>1
  <2>8. QED
    BY <1>8, <2>1, <2>3, <2>4, <2>6, <2>7
<1> HIDE DEF T
<1>11. 0 .. N \subseteq T
  BY <1>1, <1>9, <1>10, NumbersUpTo
<1>12. N \in T
  BY <1>1, <1>11
<1>13. QED
  BY <1>2, <1>3, <1>4, <1>12 DEF T

LEMMA BytesOne ==
  ASSUME NEW t \in Tokens, NEW kinds
  PROVE  BytesOf(<<t>>, kinds) = Share(t, kinds)
<1>0. <<t>> \in Seq(Tokens) /\ Len(<<t>>) = 1 /\ <<t>>[1] = t
  OBVIOUS
<1>1. PICK f : IsSum(f, <<t>>, kinds) /\ BytesOf(<<t>>, kinds) = f[1]
  BY <1>0, SumsExist
<1>2. f[1] = f[0] + Share(t, kinds) /\ f[0] = 0
  BY <1>0, <1>1 DEF IsSum
<1>3. Share(t, kinds) \in Nat
  BY ShareNat
<1>4. QED
  BY <1>1, <1>2, <1>3

LEMMA BytesAppend ==
  ASSUME NEW s \in Seq(Tokens), NEW t \in Tokens, NEW kinds
  PROVE  BytesOf(Append(s, t), kinds) = BytesOf(s, kinds) + Share(t, kinds)
<1>1. Append(s, t) = s \o <<t>> /\ <<t>> \in Seq(Tokens)
  OBVIOUS
<1>2. BytesOf(s \o <<t>>, kinds) = BytesOf(s, kinds) + BytesOf(<<t>>, kinds)
  BY <1>1, BytesConcat
<1>3. BytesOf(<<t>>, kinds) = Share(t, kinds)
  BY BytesOne
<1>4. QED
  BY <1>1, <1>2, <1>3

\* A sequence cut in two.
LEMMA Cut ==
  ASSUME NEW S, NEW s \in Seq(S), NEW n \in 0 .. Len(s)
  PROVE  /\ SubSeq(s, 1, n) \in Seq(S) /\ Len(SubSeq(s, 1, n)) = n
         /\ SubSeq(s, n + 1, Len(s)) \in Seq(S)
         /\ Len(SubSeq(s, n + 1, Len(s))) = Len(s) - n
         /\ s = SubSeq(s, 1, n) \o SubSeq(s, n + 1, Len(s))
<1>1. SubSeq(s, 1, n) \in Seq(S) /\ Len(SubSeq(s, 1, n)) = n
  OBVIOUS
<1>2. SubSeq(s, n + 1, Len(s)) \in Seq(S) /\ Len(SubSeq(s, n + 1, Len(s))) = Len(s) - n
  OBVIOUS
<1>3. ASSUME NEW u \in Seq(S), NEW v \in Seq(S), Len(u) = n, Len(v) = Len(s) - n,
             \A i \in 1 .. n : u[i] = s[i],
             \A i \in 1 .. Len(s) - n : v[i] = s[n + i]
      PROVE  s = u \o v
  <2>1. u \o v \in Seq(S) /\ Len(u \o v) = Len(s)
    BY <1>3
  <2>2. ASSUME NEW i \in 1 .. Len(s) PROVE (u \o v)[i] = s[i]
    <3>0. i \in Int /\ n \in Int
      OBVIOUS
    <3>1. CASE i <= n
      BY <1>3, <3>1
    <3>2. CASE ~(i <= n)
      <4>1. i - n \in 1 .. Len(s) - n /\ n + (i - n) = i
        BY <3>2
      <4>2. (u \o v)[i] = v[i - n]
        BY <1>3, <3>2
      <4>3. QED
        BY <1>3, <4>1, <4>2
    <3>3. QED
      BY <3>1, <3>2
  <2>3. PICK w : w = u \o v
    OBVIOUS
  <2>4. w \in Seq(S) /\ Len(w) = Len(s) /\ \A i \in 1 .. Len(s) : w[i] = s[i]
    BY <2>1, <2>2, <2>3
  <2>5. w = s
    BY <2>4
  <2>6. QED
    BY <2>3, <2>5
<1>4. /\ \A i \in 1 .. n : SubSeq(s, 1, n)[i] = s[i]
      /\ \A i \in 1 .. Len(s) - n : SubSeq(s, n + 1, Len(s))[i] = s[n + i]
  OBVIOUS
<1>5. s = SubSeq(s, 1, n) \o SubSeq(s, n + 1, Len(s))
  BY <1>1, <1>2, <1>3, <1>4
<1>6. QED
  BY <1>1, <1>2, <1>5

-----------------------------------------------------------------------------
(***************************************************************************)
(* What the parser of a CGI's output is.                                   *)
(***************************************************************************)
Fields == DOMAIN FieldName
Elements == Fields \cup {"cr", "lf", "nul"} \cup UNION {Range(s.output) : s \in Sources}
Parser ==
  [line: Seq(Elements), size: Nat, found: BOOLEAN, exist: SUBSET Marks,
   fields: Seq(Fields), keep: BOOLEAN, bytes: Int, memory: Seq(Elements),
   chunk: BOOLEAN, file: Seq(Elements), open: BOOLEAN, status: Nat, stale: BOOLEAN]
Scan == [p: Parser, i: Nat, lines: Nat, done: BOOLEAN]

LEMMA EmptySequence == ASSUME NEW S PROVE <<>> \in Seq(S)
  OBVIOUS

\* q has the body that p has.
SameBody(p, q) ==
  /\ q.bytes = p.bytes /\ q.chunk = p.chunk /\ q.memory = p.memory
  /\ q.file = p.file /\ q.open = p.open

LEMMA NewParserTyped == NewParser \in Parser
  BY EmptySequence DEF NewParser, Parser

LEMMA FailTyped ==
  ASSUME NEW p \in Parser, NEW code \in Nat
  PROVE  Fail(p, code) \in Parser /\ SameBody(p, Fail(p, code))
         /\ Fail(p, code).found = p.found /\ Fail(p, code).status = code
  BY DEF Fail, Parser, SameBody

LEMMA FailFails ==
  ASSUME NEW p \in Parser, NEW code \in Nat, code # 0
  PROVE  Fail(p, code) \in Parser /\ Failed(Fail(p, code))
<1>1. Fail(p, code) \in Parser
  BY FailTyped
<1>2. Fail(p, code).status = code
  BY FailTyped
<1>3. QED
  BY <1>1, <1>2 DEF Failed

LEMMA StoredTyped ==
  ASSUME NEW p \in Parser, NEW f \in Fields
  PROVE  /\ StoredHeadersField(p, f) \in Parser
         /\ SameBody(p, StoredHeadersField(p, f))
<1>1. Fail(p, 502) \in Parser /\ SameBody(p, Fail(p, 502))
  BY FailTyped
<1> DEFINE q == [p EXCEPT !.fields = Append(@, f)]
<1>2. q \in Parser /\ SameBody(p, q)
  <2>1. Append(p.fields, f) \in Seq(Fields)
    BY DEF Parser
  <2>2. QED
    BY <2>1 DEF Parser, SameBody
<1>3. SameBody(p, p)
  BY DEF SameBody
<1> HIDE DEF q
<1>4. StoredHeadersField(p, f) \in {Fail(p, 502), p, q}
  BY DEF StoredHeadersField, q
<1>5. QED
  BY <1>1, <1>2, <1>3, <1>4

LEMMA ValidTyped ==
  ASSUME NEW p \in Parser
  PROVE  ValidHeaders(p) \in Parser /\ SameBody(p, ValidHeaders(p))
<1> DEFINE f == p.line[1]
           name == FieldName[f]
           known == Len(p.line) = 3 /\ f \in Fields /\ p.line[2] = "cr"
           marked == [p EXCEPT !.exist = @ \cup ({name} \cap Marks),
                               !.keep = @ /\ f # "busy", !.line = <<>>]
           bare == [p EXCEPT !.line = <<>>]
<1>1. Fail(p, 502) \in Parser /\ SameBody(p, Fail(p, 502))
  BY FailTyped
<1>2. bare \in Parser /\ SameBody(p, bare)
  BY EmptySequence DEF Parser, SameBody
<1>3. ASSUME known PROVE marked \in Parser /\ SameBody(p, marked)
  <2> HIDE DEF f, name
  <2>1. p.exist \cup ({name} \cap Marks) \in SUBSET Marks
    BY DEF Parser
  <2>2. (p.keep /\ f # "busy") \in BOOLEAN
    OBVIOUS
  <2>3. QED
    BY <2>1, <2>2, EmptySequence DEF Parser, SameBody
<1>4. ASSUME known
      PROVE  /\ StoredHeadersField(marked, f) \in Parser
             /\ SameBody(p, StoredHeadersField(marked, f))
  <2>1. f \in Fields /\ marked \in Parser
    BY <1>3, <1>4
  <2> HIDE DEF f, marked
  <2>2. StoredHeadersField(marked, f) \in Parser
        /\ SameBody(marked, StoredHeadersField(marked, f))
    BY <2>1, StoredTyped
  <2>3. QED
    BY <1>3, <1>4, <2>2 DEF SameBody
<1>5. \/ ValidHeaders(p) = Fail(p, 502)
      \/ known /\ ValidHeaders(p) = bare
      \/ known /\ ValidHeaders(p) = StoredHeadersField(marked, f)
  BY DEF ValidHeaders, Fields
<1> HIDE DEF f, known, marked, bare
<1>6. QED
  BY <1>1, <1>2, <1>4, <1>5

LEMMA EndLineTyped ==
  ASSUME NEW s \in Scan
  PROVE  /\ EndLine(s) \in Scan /\ SameBody(s.p, EndLine(s).p)
         /\ EndLine(s).i = s.i
<1> DEFINE p == s.p
           body == [p EXCEPT !.found = TRUE, !.line = <<>>]
           ended(q, done) == [s EXCEPT !.p = q, !.lines = @ + 1, !.done = done]
<1>1. p \in Parser
  BY DEF Scan
<1>2. body \in Parser /\ SameBody(p, body)
  <2> HIDE DEF p
  <2>1. QED
    BY <1>1, EmptySequence DEF Parser, SameBody
<1>3. Fail(p, 413) \in Parser /\ SameBody(p, Fail(p, 413))
  BY <1>1, FailTyped
<1>4. Fail(body, 502) \in Parser /\ SameBody(p, Fail(body, 502))
  <2> HIDE DEF body
  <2>1. Fail(body, 502) \in Parser /\ SameBody(body, Fail(body, 502))
    BY <1>2, FailTyped
  <2>2. QED
    BY <1>2, <2>1 DEF SameBody
<1>5. ValidHeaders(p) \in Parser /\ SameBody(p, ValidHeaders(p))
  BY <1>1, ValidTyped
<1> DEFINE Good(t) == t \in Scan /\ SameBody(p, t.p) /\ t.i = s.i
<1>6. ASSUME NEW q \in Parser, SameBody(p, q)
      PROVE  Good(ended(q, TRUE)) /\ \A done \in BOOLEAN : Good(ended(q, done))
  <2>1. s.lines + 1 \in Nat
    BY DEF Scan
  <2>2. ended(q, TRUE).p = q /\ \A done \in BOOLEAN : ended(q, done).p = q
    BY DEF Scan
  <2>3. QED
    BY <1>6, <2>1, <2>2 DEF Scan
<1> DEFINE v == ValidHeaders(p)
<1>7. v \in Parser /\ SameBody(p, v) /\ Failed(v) \in BOOLEAN
  BY <1>5 DEF Failed
<1> HIDE DEF v
<1>8. \/ EndLine(s) = ended(Fail(p, 413), TRUE)
      \/ EndLine(s) = ended(Fail(body, 502), TRUE)
      \/ EndLine(s) = ended(body, TRUE)
      \/ EndLine(s) = ended(v, Failed(v))
  BY DEF EndLine, v
<1> HIDE DEF p, body, ended, Good
<1>9. EndLine(s) = ended(Fail(p, 413), TRUE) => Good(EndLine(s))
  BY <1>3, <1>6
<1>10. EndLine(s) = ended(Fail(body, 502), TRUE) => Good(EndLine(s))
  BY <1>4, <1>6
<1>11. EndLine(s) = ended(body, TRUE) => Good(EndLine(s))
  BY <1>2, <1>6
<1>12. EndLine(s) = ended(v, Failed(v)) => Good(EndLine(s))
  BY <1>6, <1>7
<1>13. QED
  BY <1>8, <1>9, <1>10, <1>11, <1>12 DEF Good, p

LEMMA TakeTyped ==
  ASSUME NEW s \in Scan, NEW e \in Elements
  PROVE  Take(s, e) \in Scan /\ SameBody(s.p, Take(s, e).p)
<1> DEFINE p == s.p
           counted == [s EXCEPT !.p.size = @ + 1]
           taken == [counted EXCEPT !.p.line = Append(@, e), !.i = @ + 1]
           over == [counted EXCEPT !.done = TRUE]
<1>1. p \in Parser
  BY DEF Scan
<1>2. counted \in Scan /\ SameBody(p, counted.p)
  <2>1. [p EXCEPT !.size = @ + 1] \in Parser /\ SameBody(p, [p EXCEPT !.size = @ + 1])
    <3> HIDE DEF p
    <3>1. p.size + 1 \in Nat
      BY <1>1 DEF Parser
    <3>2. QED
      BY <1>1, <3>1 DEF Parser, SameBody
  <2>2. counted = [s EXCEPT !.p = [p EXCEPT !.size = @ + 1]]
    BY DEF Scan
  <2>3. QED
    BY <2>1, <2>2 DEF Scan
<1>3. taken \in Scan /\ SameBody(p, taken.p)
  <2> HIDE DEF counted
  <2> DEFINE c == counted.p
  <2>1. c \in Parser
    BY <1>2 DEF Scan
  <2>2. [c EXCEPT !.line = Append(@, e)] \in Parser
        /\ SameBody(p, [c EXCEPT !.line = Append(@, e)])
    <3>1. SameBody(p, c)
      BY <1>2
    <3> HIDE DEF c, p
    <3>2. Append(c.line, e) \in Seq(Elements)
      BY <2>1 DEF Parser
    <3>3. QED
      BY <2>1, <3>1, <3>2 DEF Parser, SameBody
  <2>3. taken = [[counted EXCEPT !.p = [c EXCEPT !.line = Append(@, e)]] EXCEPT !.i = @ + 1]
    BY <1>2 DEF Scan
  <2>4. counted.i + 1 \in Nat
    BY <1>2 DEF Scan
  <2>5. QED
    BY <1>2, <2>2, <2>3, <2>4 DEF Scan
<1>4. over \in Scan /\ SameBody(p, over.p)
  <2> HIDE DEF counted
  <2>1. QED
    BY <1>2 DEF Scan, SameBody
<1>5. EndLine(taken) \in Scan /\ SameBody(p, EndLine(taken).p)
  <2> HIDE DEF taken
  <2>1. EndLine(taken) \in Scan /\ SameBody(taken.p, EndLine(taken).p)
    BY <1>3, EndLineTyped
  <2>2. QED
    BY <1>3, <2>1 DEF SameBody
<1>6. Take(s, e) \in {s, EndLine(taken), over, taken}
  BY DEF Take
<1>7. SameBody(p, s.p)
  BY DEF SameBody
<1> HIDE DEF counted, taken, over
<1>8. QED
  BY <1>3, <1>4, <1>5, <1>6, <1>7

\* The states of the scan of a piece.
IsScan(f, start, piece) ==
  /\ f \in [0 .. Len(piece) -> Scan]
  /\ f[0] = start
  /\ \A k \in 1 .. Len(piece) : f[k] = Take(f[k - 1], piece[k])

LEMMA ScansExist ==
  ASSUME NEW start \in Scan, NEW piece \in Seq(Elements)
  PROVE  \E f : IsScan(f, start, piece) /\ Scanned(start, piece) = f[Len(piece)]
<1> DEFINE N == Len(piece)
           g == [k \in 1 .. N |-> [s \in Scan |-> Take(s, piece[k])]]
           F(f) == [k \in 0 .. N |-> IF k = 0 THEN start ELSE Take(f[k - 1], piece[k])]
<1>1. N \in Nat /\ \A k \in 1 .. N : piece[k] \in Elements
  OBVIOUS
<1>2. g \in [1 .. N -> [Scan -> Scan]]
  BY <1>1, TakeTyped
<1>3. \A k \in 1 .. N : \A s \in Scan : g[k][s] = Take(s, piece[k])
  OBVIOUS
<1> HIDE DEF N, g
<1>4. PICK f \in [0 .. N -> Scan] : Iterates(f, start, g, N)
  BY <1>1, <1>2, IteratesExist
<1>5. \A k \in 1 .. N : k \in 0 .. N /\ k - 1 \in 0 .. N /\ k # 0
  BY <1>1
<1>6. \A k \in 1 .. N : f[k] = Take(f[k - 1], piece[k])
  BY <1>3, <1>4, <1>5 DEF Iterates
<1>7. f = F(f)
  <2>1. \A k \in 0 .. N : k = 0 \/ k \in 1 .. N
    BY <1>1
  <2>2. \A k \in 0 .. N : f[k] = F(f)[k]
    BY <1>4, <1>6, <2>1 DEF Iterates
  <2>3. QED
    BY <2>2
<1>8. ASSUME NEW h, h = F(h) PROVE h[N] = f[N]
  <2> DEFINE T == {k \in 0 .. N : h[k] = f[k]}
  <2>1. 0 \in T
    BY <1>1, <1>4, <1>8 DEF Iterates
  <2>2. ASSUME NEW k \in 1 .. N, k - 1 \in T
        PROVE  k \in T
    <3>1. h[k] = Take(h[k - 1], piece[k])
      BY <1>5, <1>8
    <3>2. QED
      BY <1>5, <1>6, <2>2, <3>1
  <2> HIDE DEF T, F
  <2>3. 0 .. N \subseteq T
    BY <1>1, <2>1, <2>2, NumbersUpTo
  <2>4. QED
    BY <1>1, <2>3 DEF T
<1>9. Scanned(start, piece) = (CHOOSE h : h = F(h))[N]
  BY DEF Scanned, N
<1> HIDE DEF F
<1>10. Scanned(start, piece) = f[N]
  BY <1>7, <1>8, <1>9
<1>11. IsScan(f, start, piece)
  BY <1>4, <1>6 DEF IsScan, Iterates, N
<1>12. QED
  BY <1>10, <1>11 DEF N

LEMMA ScannedTyped ==
  ASSUME NEW start \in Scan, NEW piece \in Seq(Elements)
  PROVE  Scanned(start, piece) \in Scan /\ SameBody(start.p, Scanned(start, piece).p)
<1> DEFINE N == Len(piece)
<1>1. PICK f : IsScan(f, start, piece) /\ Scanned(start, piece) = f[N]
  BY ScansExist
<1> DEFINE T == {k \in 0 .. N : SameBody(start.p, f[k].p)}
<1>2. N \in Nat /\ \A k \in 1 .. N : piece[k] \in Elements
  OBVIOUS
<1>3. 0 \in T
  BY <1>1, <1>2 DEF IsScan, SameBody
<1>4. ASSUME NEW k \in 1 .. N, k - 1 \in T PROVE k \in T
  <2>1. k \in 0 .. N /\ k - 1 \in 0 .. N
    BY <1>2
  <2>2. f[k - 1] \in Scan /\ f[k] = Take(f[k - 1], piece[k])
    BY <1>1, <2>1 DEF IsScan
  <2>3. SameBody(f[k - 1].p, f[k].p)
    BY <1>2, <2>2, TakeTyped
  <2>4. QED
    BY <1>4, <2>1, <2>3 DEF SameBody
<1> HIDE DEF T, N
<1>5. 0 .. N \subseteq T
  BY <1>2, <1>3, <1>4, NumbersUpTo
<1>6. N \in T /\ N \in 0 .. N
  BY <1>2, <1>5
<1>7. QED
  BY <1>1, <1>6 DEF T, IsScan, N

LEMMA BehindTyped ==
  ASSUME NEW s \in Scan, NEW stale
  PROVE  Behind(s, stale) \in Scan /\ SameBody(s.p, Behind(s, stale).p)
<1> DEFINE p == s.p
           looked == [s EXCEPT !.p.stale = TRUE]
           once == Take(looked, "lf")
<1>1. "lf" \in Elements
  BY DEF Elements
<1>2. looked \in Scan /\ SameBody(p, looked.p)
  <2>1. p \in Parser
    BY DEF Scan
  <2>2. [p EXCEPT !.stale = TRUE] \in Parser /\ SameBody(p, [p EXCEPT !.stale = TRUE])
    <3> HIDE DEF p
    <3>1. QED
      BY <2>1 DEF Parser, SameBody
  <2>3. looked = [s EXCEPT !.p = [p EXCEPT !.stale = TRUE]]
    BY DEF Scan
  <2>4. QED
    BY <2>2, <2>3 DEF Scan
<1> HIDE DEF looked
<1>3. once \in Scan /\ SameBody(p, once.p)
  <2>1. once \in Scan /\ SameBody(looked.p, once.p)
    BY <1>1, <1>2, TakeTyped
  <2>2. QED
    BY <1>2, <2>1 DEF SameBody
<1> HIDE DEF once
<1>4. Take(once, "lf") \in Scan /\ SameBody(p, Take(once, "lf").p)
  <2>1. Take(once, "lf") \in Scan /\ SameBody(once.p, Take(once, "lf").p)
    BY <1>1, <1>3, TakeTyped
  <2>2. QED
    BY <1>3, <2>1 DEF SameBody
<1>5. Behind(s, stale) \in {s, once, Take(once, "lf")}
  BY DEF Behind, once, looked
<1>6. SameBody(p, s.p)
  BY DEF SameBody
<1>7. QED
  BY <1>3, <1>4, <1>5, <1>6

LEMMA HeadersTyped ==
  ASSUME NEW p \in Parser, NEW piece \in Seq(Elements), NEW stale
  PROVE  LET h == ReceivingHeaders(p, piece, stale)
         IN /\ h \in [p: Parser, counter: Nat]
            /\ SameBody(p, h.p)
            /\ p.found => h = [p |-> p, counter |-> 0]
<1> DEFINE start == [p |-> p, i |-> 0, lines |-> 0, done |-> FALSE]
           s == Behind(Scanned(start, piece), stale)
<1>1. start \in Scan /\ start.p = p
  BY DEF Scan
<1> HIDE DEF start
<1>2. Scanned(start, piece) \in Scan /\ SameBody(p, Scanned(start, piece).p)
  BY <1>1, ScannedTyped
<1>3. s \in Scan /\ SameBody(p, s.p)
  <2>1. s \in Scan /\ SameBody(Scanned(start, piece).p, s.p)
    BY <1>2, BehindTyped
  <2>2. QED
    BY <1>2, <2>1 DEF SameBody
<1> HIDE DEF s
<1>4. s.p \in Parser /\ s.i \in Nat
  BY <1>3 DEF Scan
<1>5. Fail(s.p, 413) \in Parser /\ SameBody(p, Fail(s.p, 413))
  <2>1. PICK r \in Parser : r = s.p
    BY <1>4
  <2>2. Fail(r, 413) \in Parser /\ SameBody(r, Fail(r, 413))
    BY FailTyped
  <2>3. QED
    BY <1>3, <2>1, <2>2 DEF SameBody
<1>6. \/ p.found /\ ReceivingHeaders(p, piece, stale) = [p |-> p, counter |-> 0]
      \/ ~p.found /\ ReceivingHeaders(p, piece, stale) = [p |-> Fail(s.p, 413), counter |-> s.i]
      \/ ~p.found /\ ReceivingHeaders(p, piece, stale) = [p |-> s.p, counter |-> s.i]
  BY DEF ReceivingHeaders, s, start
<1>7. SameBody(p, p)
  BY DEF SameBody
<1>8. QED
  BY <1>3, <1>4, <1>5, <1>6, <1>7

LEMMA Constants == /\ HeaderLimit \in Nat \ {0} /\ MaxBody \in Nat \ {0}
                   /\ SizeBuffer \in Nat \ {0} /\ HeadSize \in Nat \ {0}
                   /\ MaxPiece \in Nat \ {0} /\ HeadSize + MaxBody <= SizeBuffer
                   /\ HeadSize + 14 <= SizeBuffer
  BY RelayAssumption

\* The first l elements of s, the last of them lost.
Cropped(s, l) == Append(SubSeq(s, 1, l - 1), "nul")

LEMMA CroppedIs ==
  ASSUME NEW s \in Seq(Elements), NEW l \in 1 .. Len(s)
  PROVE  /\ Cropped(s, l) \in Seq(Elements) /\ Len(Cropped(s, l)) = l
         /\ Cropped(s, l)[l] = "nul"
         /\ \A i \in 1 .. l - 1 : Cropped(s, l)[i] = s[i]
<1>1. l - 1 \in 0 .. Len(s) /\ l \in Nat /\ (l - 1) + 1 = l
  OBVIOUS
<1>2. PICK k \in 0 .. Len(s) : k = l - 1
  BY <1>1
<1>3. PICK a : a = SubSeq(s, 1, k)
  OBVIOUS
<1>4. a \in Seq(Elements) /\ Len(a) = k /\ \A i \in 1 .. k : a[i] = s[i]
  BY <1>3
<1>5. "nul" \in Elements
  BY DEF Elements
<1>6. PICK b : b = Append(a, "nul")
  OBVIOUS
<1>7. /\ b \in Seq(Elements) /\ Len(b) = k + 1 /\ b[k + 1] = "nul"
      /\ \A i \in 1 .. k : b[i] = a[i]
  BY <1>4, <1>5, <1>6
<1>8. Cropped(s, l) = b
  BY <1>2, <1>3, <1>6 DEF Cropped
<1>9. QED
  BY <1>1, <1>2, <1>4, <1>7, <1>8

\* What a memory keeps of s when bytes were counted.
Trimmed(bytes, s) == IF bytes = MaxBody THEN Cropped(s, MaxBody) ELSE s

LEMMA CopiedTyped ==
  ASSUME NEW memory \in Seq(Elements), NEW octets \in Seq(Elements)
  PROVE  /\ Copied(memory, octets) \in Seq(Elements)
         /\ Len(Copied(memory, octets)) = Len(memory) + Len(octets)
         /\ Len(memory) + Len(octets) = MaxBody =>
              Copied(memory, octets) = Cropped(memory \o octets, MaxBody)
<1>0. memory \o octets \in Seq(Elements)
  OBVIOUS
<1>1. PICK all \in Seq(Elements) : all = memory \o octets
  BY <1>0
<1>2. "nul" \in Elements
  BY DEF Elements
<1>3. Len(all) = Len(memory) + Len(octets) /\ Len(all) \in Nat
  BY <1>1
<1>4. PICK copy : copy = Copied(memory, octets)
  OBVIOUS
<1>5. CASE Len(all) = MaxBody
  <2>1. copy = [all EXCEPT ![MaxBody] = "nul"]
    BY <1>1, <1>4, <1>5 DEF Copied
  <2>2. all \in [1 .. Len(all) -> Elements] /\ MaxBody \in 1 .. Len(all)
    BY <1>5, Constants
  <2>3. copy \in [1 .. Len(all) -> Elements]
    BY <1>2, <2>1, <2>2
  <2>4. copy \in Seq(Elements) /\ Len(copy) = Len(all)
    BY <1>3, <2>3, SeqDef, LenProperties
  <2>5. copy[MaxBody] = "nul" /\ \A i \in 1 .. MaxBody - 1 : copy[i] = all[i]
    BY <1>5, <2>1, <2>2, Constants
  <2>6. PICK l \in 1 .. Len(all) : l = MaxBody
    BY <2>2
  <2>7. PICK other : other = Cropped(all, l)
    OBVIOUS
  <2>8. /\ other \in Seq(Elements) /\ Len(other) = l /\ other[l] = "nul"
        /\ \A i \in 1 .. l - 1 : other[i] = all[i]
    BY <2>7, CroppedIs
  <2>9. ASSUME NEW i \in 1 .. l PROVE copy[i] = other[i]
    <3>1. i = l \/ i \in 1 .. l - 1
      OBVIOUS
    <3>2. QED
      BY <2>5, <2>6, <2>8, <3>1
  <2>10. copy = other
    BY <1>5, <2>4, <2>6, <2>8, <2>9, SeqEqual
  <2>11. QED
    BY <1>1, <1>3, <1>4, <1>5, <2>4, <2>6, <2>7, <2>10
<1>6. CASE Len(all) # MaxBody
  <2>1. copy = all
    BY <1>1, <1>4, <1>6 DEF Copied
  <2>2. QED
    BY <1>1, <1>3, <1>4, <1>6, <2>1
<1>7. QED
  BY <1>5, <1>6

-----------------------------------------------------------------------------
\* An answer has the body of the parser.
BodyOf(p) == IF p.chunk THEN p.file ELSE p.memory

\* A body is in the file when it is longer than the memory, and comes after the
\* headers; it is as long as was counted.
BodyOK(p) ==
  /\ p.bytes \in Nat
  /\ p.chunk <=> p.bytes > MaxBody
  /\ p.bytes # 0 => p.found
  /\ Len(BodyOf(p)) = p.bytes

LEMMA BodyTyped ==
  ASSUME NEW h \in [p: Parser, counter: Nat], NEW piece \in Seq(Elements),
         NEW disk \in BOOLEAN, BodyOK(h.p) \/ Failed(h.p),
         h.p.bytes > MaxBody => h.counter = 0
  PROVE  LET q == ReceivingBody(h, piece, disk)
         IN /\ q \in Parser
            /\ Failed(h.p) => Failed(q)
            /\ ~Failed(q) => BodyOK(q)
<1> DEFINE p == h.p
           octets == SubSeq(piece, h.counter + 1, Len(piece))
           n == Len(piece) - h.counter
           more == [p EXCEPT !.bytes = @ + n]
           q == ReceivingBody(h, piece, disk)
<1>1. p \in Parser /\ h.counter \in Nat /\ n \in Int
  OBVIOUS
<1>2. octets \in Seq(Elements)
  BY <1>1
<1>3. /\ more \in Parser /\ more.bytes = p.bytes + n /\ more.status = p.status
      /\ more.found = p.found /\ more.chunk = p.chunk /\ more.memory = p.memory
      /\ more.file = p.file /\ p.bytes \in Int
  <2> HIDE DEF p, n
  <2>1. p.bytes + n \in Int
    BY <1>1 DEF Parser
  <2>2. QED
    BY <1>1, <2>1 DEF Parser
<1>4. p.memory \in Seq(Elements) /\ p.file \in Seq(Elements)
  <2> HIDE DEF p
  <2>1. QED
    BY <1>1 DEF Parser
<1> DEFINE A == Fail(more, 502)
           B == Fail([more EXCEPT !.chunk = TRUE, !.open = disk], 500)
           C == [more EXCEPT !.memory = Copied(@, octets)]
           D == CreatFileTemp(more, octets)
           E == Fail([more EXCEPT !.chunk = TRUE], 500)
           F == [more EXCEPT !.file = @ \o octets]
           G == Fail(more, 500)
<1>0. n >= 0 => Len(octets) = n
  <2>1. SUFFICES ASSUME n >= 0 PROVE Len(octets) = n
    OBVIOUS
  <2>2. PICK k \in 0 .. Len(piece) : k = h.counter
    BY <1>1, <2>1
  <2>3. Len(SubSeq(piece, k + 1, Len(piece))) = Len(piece) - k
    BY Cut
  <2>4. QED
    BY <2>2, <2>3
<1> HIDE DEF p, n, octets, more
<1>20. Len(p.memory) \in Nat /\ Len(p.file) \in Nat /\ Len(octets) \in Nat
       /\ Len(p.memory \o octets) = Len(p.memory) + Len(octets)
       /\ Len(p.file \o octets) = Len(p.file) + Len(octets)
  <2>1. PICK a \in Seq(Elements), b \in Seq(Elements), o \in Seq(Elements) :
          a = p.memory /\ b = p.file /\ o = octets
    BY <1>2, <1>4
  <2>2. /\ Len(a) \in Nat /\ Len(b) \in Nat /\ Len(o) \in Nat
        /\ Len(a \o o) = Len(a) + Len(o) /\ Len(b \o o) = Len(b) + Len(o)
    OBVIOUS
  <2>3. QED
    BY <2>1, <2>2
<1>5. A \in Parser /\ Failed(A) /\ G \in Parser /\ Failed(G)
  <2>1. PICK r \in Parser : r = more
    BY <1>3
  <2>2. QED
    BY <2>1, FailFails
<1>6. B \in Parser /\ Failed(B)
  <2>1. [more EXCEPT !.chunk = TRUE, !.open = disk] \in Parser
    BY <1>3 DEF Parser
  <2>2. QED
    BY <2>1, FailTyped DEF Failed
<1>7. E \in Parser /\ Failed(E)
  <2>1. [more EXCEPT !.chunk = TRUE] \in Parser
    BY <1>3 DEF Parser
  <2>2. QED
    BY <2>1, FailTyped DEF Failed
<1>8. /\ C \in Parser /\ C.bytes = more.bytes /\ C.chunk = more.chunk
      /\ C.found = more.found /\ C.status = more.status
      /\ C.memory = Copied(p.memory, octets)
  <2>1. Copied(more.memory, octets) \in Seq(Elements)
    BY <1>2, <1>3, <1>4, CopiedTyped
  <2>2. QED
    BY <1>3, <2>1 DEF Parser
<1>9. /\ D \in Parser /\ D.bytes = more.bytes /\ D.chunk = TRUE
      /\ D.found = more.found /\ D.status = more.status
      /\ D.file = p.memory \o octets
  <2>1. more.memory \o octets \in Seq(Elements)
    BY <1>2, <1>3, <1>4
  <2>2. QED
    BY <1>3, <2>1 DEF Parser, CreatFileTemp
<1>10. /\ F \in Parser /\ F.bytes = more.bytes /\ F.chunk = more.chunk
       /\ F.found = more.found /\ F.status = more.status
       /\ F.file = p.file \o octets
  <2>1. more.file \o octets \in Seq(Elements)
    BY <1>2, <1>3, <1>4
  <2>2. QED
    BY <1>3, <2>1 DEF Parser
<1> HIDE DEF A, B, C, D, E, F, G
<1>11. \/ q \in {A, B, E, G}
       \/ p.found /\ p.bytes < MaxBody /\ n >= 0 /\ more.bytes <= MaxBody /\ q = C
       \/ p.found /\ p.bytes < MaxBody /\ n >= 0 /\ ~(more.bytes <= MaxBody) /\ q = D
       \/ p.bytes > MaxBody /\ q = F
       \/ q = p
  BY <1>1 DEF ReceivingBody, A, B, C, D, E, F, G, more, octets, n, p
<1>12. BodyOK(p) \/ Failed(p)
  BY DEF p
<1>13. p.bytes > MaxBody => n >= 0
  BY DEF p, n
<1> HIDE DEF q
<1>14. CASE q \in {A, B, E, G}
  BY <1>5, <1>6, <1>7, <1>14 DEF q, p
<1>15. CASE p.found /\ p.bytes < MaxBody /\ n >= 0 /\ more.bytes <= MaxBody /\ q = C
  <2>1. Failed(p) <=> Failed(q)
    BY <1>3, <1>8, <1>15 DEF Failed
  <2>2. ASSUME BodyOK(p) PROVE BodyOK(q)
    <3>1. p.bytes \in Nat /\ ~p.chunk /\ p.found
      BY <1>15, <2>2, Constants DEF BodyOK
    <3>2. q.bytes = p.bytes + n /\ n \in Nat
      BY <1>1, <1>3, <1>8, <1>15
    <3>3. q.found /\ (q.chunk <=> FALSE)
      BY <1>3, <1>8, <1>15, <3>1
    <3>4. q.bytes \in Nat /\ (q.bytes > MaxBody <=> FALSE)
      BY <1>3, <1>8, <1>15, <3>1, <3>2, Constants
    <3>5. Len(BodyOf(q)) = q.bytes
      <4>1. BodyOf(q) = Copied(p.memory, octets) /\ BodyOf(p) = p.memory
        BY <1>3, <1>8, <1>15, <3>1, <3>3 DEF BodyOf
      <4>2. Len(Copied(p.memory, octets)) = Len(p.memory) + Len(octets)
        BY <1>2, <1>4, CopiedTyped
      <4>3. Len(octets) = n /\ Len(p.memory) = p.bytes
        BY <1>0, <1>15, <2>2, <4>1 DEF BodyOK
      <4>4. QED
        BY <3>2, <4>1, <4>2, <4>3
    <3>6. QED
      BY <3>3, <3>4, <3>5 DEF BodyOK
  <2>3. QED
    BY <1>8, <1>12, <1>15, <2>1, <2>2 DEF q, p
<1>16. CASE p.found /\ p.bytes < MaxBody /\ n >= 0 /\ ~(more.bytes <= MaxBody) /\ q = D
  <2>1. Failed(p) <=> Failed(q)
    BY <1>3, <1>9, <1>16 DEF Failed
  <2>2. ASSUME BodyOK(p) PROVE BodyOK(q)
    <3>1. p.bytes \in Nat /\ ~p.chunk /\ p.found
      BY <1>16, <2>2, Constants DEF BodyOK
    <3>2. q.bytes = p.bytes + n /\ n \in Nat
      BY <1>1, <1>3, <1>9, <1>16
    <3>3. q.found /\ (q.chunk <=> TRUE)
      BY <1>3, <1>9, <1>16, <3>1
    <3>4. q.bytes \in Nat /\ (q.bytes > MaxBody <=> TRUE)
      BY <1>3, <1>9, <1>16, <3>1, <3>2, Constants
    <3>5. Len(BodyOf(q)) = q.bytes
      <4>1. BodyOf(q) = p.memory \o octets /\ BodyOf(p) = p.memory
        BY <1>3, <1>9, <1>16, <3>1, <3>3 DEF BodyOf
      <4>2. Len(octets) = n /\ Len(p.memory) = p.bytes
        BY <1>0, <1>16, <2>2, <4>1 DEF BodyOK
      <4>3. QED
        BY <1>20, <3>2, <4>1, <4>2
    <3>6. QED
      BY <3>3, <3>4, <3>5 DEF BodyOK
  <2>3. QED
    BY <1>9, <1>12, <1>16, <2>1, <2>2 DEF q, p
<1>17. CASE p.bytes > MaxBody /\ q = F
  <2>1. Failed(p) <=> Failed(q)
    BY <1>3, <1>10, <1>17 DEF Failed
  <2>2. ASSUME BodyOK(p) PROVE BodyOK(q)
    <3>1. p.bytes \in Nat /\ p.chunk /\ p.found /\ p.bytes > MaxBody /\ Len(BodyOf(p)) = p.bytes
      BY <1>17, <2>2, Constants DEF BodyOK
    <3>2. q.bytes = p.bytes + n /\ n \in Nat
      BY <1>1, <1>3, <1>10, <1>13, <1>17
    <3>3. q.found /\ q.chunk
      BY <1>3, <1>10, <1>17, <3>1
    <3>4. q.bytes \in Nat /\ q.bytes > MaxBody
      BY <3>1, <3>2, Constants
    <3>5. BodyOf(q) = p.file \o octets /\ BodyOf(p) = p.file
      BY <1>10, <1>17, <3>1, <3>3 DEF BodyOf
    <3>6. Len(BodyOf(q)) = q.bytes
      BY <1>0, <1>13, <1>17, <1>20, <3>1, <3>2, <3>5
    <3>7. QED
      BY <3>3, <3>4, <3>6 DEF BodyOK
  <2>3. QED
    BY <1>10, <1>12, <1>17, <2>1, <2>2 DEF q, p
<1>18. CASE q = p
  BY <1>1, <1>12, <1>18 DEF q, p
<1>19. QED
  BY <1>11, <1>14, <1>15, <1>16, <1>17, <1>18

LEMMA ReceivedTyped ==
  ASSUME NEW p \in Parser, BodyOK(p), NEW piece \in Seq(Elements),
         NEW stale, NEW disk \in BOOLEAN
  PROVE  LET q == ReceivingData(p, piece, stale, disk)
         IN q \in Parser /\ (~Failed(q) => BodyOK(q))
<1> DEFINE h == ReceivingHeaders(p, piece, stale)
           r == ReceivingBody(h, piece, disk)
           q == ReceivingData(p, piece, stale, disk)
<1>1. h \in [p: Parser, counter: Nat] /\ SameBody(p, h.p)
      /\ (p.found => h = [p |-> p, counter |-> 0])
  BY HeadersTyped
<1> HIDE DEF h
<1>2. h.p.bytes = p.bytes /\ h.p.chunk = p.chunk
  BY <1>1 DEF SameBody
<1>3. p.found => BodyOK(h.p)
  BY <1>1
<1>4. ~p.found => p.bytes = 0 /\ ~p.chunk
  BY Constants DEF BodyOK
<1>5. BodyOK(h.p)
  <2>1. BodyOf(h.p) = BodyOf(p)
    BY <1>1 DEF SameBody, BodyOf
  <2>2. QED
    BY <1>2, <1>3, <1>4, <2>1, Constants DEF BodyOK
<1>6. h.p.bytes > MaxBody => h.counter = 0
  <2>1. CASE p.found
    BY <1>1, <2>1
  <2>2. CASE ~p.found
    BY <1>2, <1>4, <2>2, Constants
  <2>3. QED
    BY <2>1, <2>2
<1>7. r \in Parser /\ (~Failed(r) => BodyOK(r))
  BY <1>1, <1>5, <1>6, BodyTyped
<1> HIDE DEF r
<1>8. q = IF Failed(r) THEN [r EXCEPT !.open = FALSE] ELSE r
  BY DEF ReceivingData, r, h
<1>9. [r EXCEPT !.open = FALSE] \in Parser /\ [r EXCEPT !.open = FALSE].status = r.status
  BY <1>7 DEF Parser
<1> HIDE DEF q
<1>10. CASE Failed(r)
  <2>1. Failed(q)
    BY <1>8, <1>9, <1>10 DEF Failed
  <2>2. QED
    BY <1>8, <1>9, <1>10, <2>1 DEF q
<1>11. CASE ~Failed(r)
  BY <1>7, <1>8, <1>11 DEF q
<1>12. QED
  BY <1>10, <1>11

LEMMA ConcludedIs ==
  ASSUME NEW p
  PROVE  LET v == Concluded(p)
         IN /\ v.kind \in {"error", "redirect", "answer"}
            /\ v.kind = "answer" => /\ ~Failed(p) /\ p.found
                                    /\ v.chunked = p.chunk /\ v.body = BodyOf(p)
<1> DEFINE v == Concluded(p)
<1>1. \A code : Error(code).kind = "error"
  BY DEF Error, Nothing
<1>2. LocalRedirect.kind = "redirect"
  BY DEF LocalRedirect, Nothing
<1>3. /\ HeaderResponseCGI(p).kind = "answer" /\ HeaderResponseCGI(p).chunked = p.chunk
      /\ HeaderResponseCGI(p).body = BodyOf(p)
  BY DEF HeaderResponseCGI, BodyOf
<1>4. BuilResponsedredirection(p) \in {HeaderResponseCGI(p), LocalRedirect, Error(502)}
  BY DEF BuilResponsedredirection
<1>5. \/ v = Error(p.status) \/ v = Error(502)
      \/ ~Failed(p) /\ p.found /\ v \in {HeaderResponseCGI(p), LocalRedirect, Error(502)}
  BY <1>4 DEF Concluded
<1> HIDE DEF v
<1>6. QED
  BY <1>1, <1>2, <1>3, <1>5 DEF v

-----------------------------------------------------------------------------
(***************************************************************************)
(* Sequences of tokens: chunks, and rows.                                  *)
(***************************************************************************)
Contents == {t \in Tokens : t.kind \in Content /\ t.bytes # 0}

\* FramingExact, of a sequence.
Framed(s) ==
  /\ \A i \in DOMAIN s : s[i].kind = "size" =>
       \E j \in i + 2 .. Len(s) :
         /\ s[j] = Crlf
         /\ \A k \in i + 1 .. j - 1 : s[k].kind \in Content
         /\ Bytes(SubSeq(s, i + 1, j - 1)) = s[i].n
  /\ \A i \in DOMAIN s : s[i].kind = "last" => i = Len(s)

\* The last chunk has not come.
Open(s) == \A i \in DOMAIN s : s[i].kind # "last"

LEMMA TokensTyped ==
  /\ HeadToken \in Tokens /\ Crlf \in Tokens /\ LastChunk \in Tokens
  /\ IndexHead \in Contents /\ IndexEnd \in Contents
  /\ \A n \in Nat : /\ SizeLine(n) \in Tokens /\ SizeLine(n).kind = "size"
                    /\ SizeLine(n).n = n /\ SizeLine(n).bytes <= 6
                    /\ Token("size", n, 6) \in Tokens
                    /\ \A first \in Nat : n # 0 => Run(first, n) \in Contents
<1>1. HeadToken \in Tokens
  BY Constants DEF HeadToken, Token, Tokens, TokenKinds
<1>2. Crlf \in Tokens /\ LastChunk \in Tokens
  BY DEF Crlf, LastChunk, Token, Tokens, TokenKinds
<1>3. IndexHead \in Contents /\ IndexEnd \in Contents
  BY DEF IndexHead, IndexEnd, Token, Tokens, TokenKinds, Contents, Content
<1>4. ASSUME NEW n \in Nat
      PROVE  /\ SizeLine(n) \in Tokens /\ SizeLine(n).kind = "size"
             /\ SizeLine(n).n = n /\ SizeLine(n).bytes <= 6
             /\ Token("size", n, 6) \in Tokens
             /\ \A first \in Nat : n # 0 => Run(first, n) \in Contents
  <2>1. \E b \in {3, 4, 6} : SizeLine(n) = [kind |-> "size", n |-> n, bytes |-> b]
    BY DEF SizeLine, Token
  <2>2. PICK b \in {3, 4, 6} : SizeLine(n) = [kind |-> "size", n |-> n, bytes |-> b]
    BY <2>1
  <2>3. SizeLine(n) \in Tokens /\ SizeLine(n).kind = "size"
        /\ SizeLine(n).n = n /\ SizeLine(n).bytes <= 6
    BY <2>2 DEF Tokens, TokenKinds
  <2>4. Token("size", n, 6) \in Tokens
    BY DEF Token, Tokens, TokenKinds
  <2>5. \A first \in Nat : n # 0 => Run(first, n) \in Contents
    BY DEF Run, Token, Tokens, TokenKinds, Contents, Content
  <2>6. QED
    BY <2>3, <2>4, <2>5
<1>5. QED
  BY <1>1, <1>2, <1>3, <1>4

LEMMA ContentsAreTokens ==
  ASSUME NEW p \in Seq(Contents)
  PROVE  p \in Seq(Tokens) /\ \A i \in DOMAIN p : p[i].kind \in Content
<1>1. Contents \subseteq Tokens
  BY DEF Contents
<1>2. p \in Seq(Tokens)
  BY <1>1, SeqMonotonic
<1>3. \A i \in DOMAIN p : p[i] \in Contents
  OBVIOUS
<1>4. QED
  BY <1>2, <1>3 DEF Contents

\* A chunk, element by element.
LEMMA ChunkIs ==
  ASSUME NEW a \in Tokens, NEW p \in Seq(Contents)
  PROVE  LET c == <<a>> \o p \o <<Crlf>>
         IN /\ c \in Seq(Tokens) /\ Len(c) = Len(p) + 2
            /\ c[1] = a /\ c[Len(p) + 2] = Crlf
            /\ \A k \in 1 .. Len(p) : c[k + 1] = p[k]
            /\ \A k \in 2 .. Len(p) + 1 : c[k] = p[k - 1]
<1>1. p \in Seq(Tokens) /\ <<a>> \in Seq(Tokens) /\ <<Crlf>> \in Seq(Tokens)
  BY ContentsAreTokens, TokensTyped
<1>2. PICK d : d = <<a>> \o p
  OBVIOUS
<1>3. /\ d \in Seq(Tokens) /\ Len(d) = Len(p) + 1 /\ d[1] = a
      /\ \A k \in 1 .. Len(p) : d[k + 1] = p[k]
  BY <1>1, <1>2
<1>4. PICK c : c = d \o <<Crlf>>
  OBVIOUS
<1>5. /\ c \in Seq(Tokens) /\ Len(c) = Len(p) + 2 /\ c[Len(p) + 2] = Crlf
      /\ \A k \in 1 .. Len(p) + 1 : c[k] = d[k]
  BY <1>1, <1>3, <1>4
<1>6. Len(p) \in Nat
  OBVIOUS
<1>7. c[1] = a
  BY <1>3, <1>5, <1>6
<1>8. \A k \in 1 .. Len(p) : c[k + 1] = p[k]
  BY <1>3, <1>5, <1>6
<1>9. ASSUME NEW k \in 2 .. Len(p) + 1 PROVE c[k] = p[k - 1]
  <2>1. k - 1 \in 1 .. Len(p) /\ k = (k - 1) + 1
    BY <1>6
  <2>2. QED
    BY <1>8, <2>1
<1>10. QED
  BY <1>2, <1>4, <1>5, <1>7, <1>8, <1>9

\* An open sequence stays framed when a chunk is added to it.
LEMMA FramedChunk ==
  ASSUME NEW s \in Seq(Tokens), Framed(s), Open(s),
         NEW p \in Seq(Contents), p # <<>>,
         NEW a \in Tokens, a.kind = "size", a.n = Bytes(p)
  PROVE  LET c == <<a>> \o p \o <<Crlf>>
         IN Framed(s \o c) /\ Open(s \o c)
<1>1. PICK c : c = <<a>> \o p \o <<Crlf>>
  OBVIOUS
<1> DEFINE M == Len(s)  N == Len(p)
<1>2. /\ c \in Seq(Tokens) /\ Len(c) = N + 2 /\ c[1] = a /\ c[N + 2] = Crlf
      /\ \A k \in 1 .. N : c[k + 1] = p[k]
      /\ \A k \in 2 .. N + 1 : c[k] = p[k - 1]
  BY <1>1, ChunkIs
<1>3. M \in Nat /\ N \in Nat \ {0}
  OBVIOUS
<1>4. PICK t : t = s \o c
  OBVIOUS
<1>5. /\ t \in Seq(Tokens) /\ Len(t) = M + N + 2
      /\ \A i \in 1 .. M : t[i] = s[i]
      /\ \A i \in 1 .. N + 2 : t[M + i] = c[i]
  <2>1. t \in Seq(Tokens) /\ Len(t) = M + N + 2
    <3>1. t \in Seq(Tokens) /\ Len(t) = M + Len(c)
      BY <1>2, <1>4, ConcatProperties
    <3>2. QED
      BY <1>2, <1>3, <3>1
  <2>2. \A i \in 1 .. M : t[i] = s[i]
    BY <1>2, <1>3, <1>4
  <2>3. \A i \in 1 .. N + 2 : t[M + i] = c[i]
    BY <1>2, <1>3, <1>4
  <2>4. QED
    BY <2>1, <2>2, <2>3
<1>6. /\ t[M + 1] = a /\ t[M + N + 2] = Crlf
      /\ \A k \in M + 2 .. M + N + 1 : t[k] = p[k - M - 1]
  <2>1. t[M + 1] = a
    BY <1>2, <1>3, <1>5
  <2>2. t[M + N + 2] = Crlf
    <3>1. N + 2 \in 1 .. N + 2 /\ M + (N + 2) = M + N + 2
      BY <1>3
    <3>2. QED
      BY <1>2, <1>5, <3>1
  <2>3. ASSUME NEW k \in M + 2 .. M + N + 1 PROVE t[k] = p[k - M - 1]
    <3>1. k - M \in 2 .. N + 1 /\ k - M \in 1 .. N + 2 /\ M + (k - M) = k
          /\ (k - M) - 1 = k - M - 1
      BY <1>3
    <3>2. t[k] = c[k - M]
      BY <1>5, <3>1
    <3>3. c[k - M] = p[(k - M) - 1]
      BY <1>2, <3>1
    <3>4. QED
      BY <3>1, <3>2, <3>3
  <2>4. QED
    BY <2>1, <2>2, <2>3
<1>7. \A k \in 1 .. N : p[k].kind \in Content
  BY ContentsAreTokens
<1>8. \A k \in M + 2 .. M + N + 1 : t[k].kind \in Content
  <2>1. ASSUME NEW k \in M + 2 .. M + N + 1 PROVE t[k].kind \in Content
    <3>1. k - M - 1 \in 1 .. N
      BY <1>3
    <3>2. QED
      BY <1>6, <1>7, <3>1
  <2>2. QED
    BY <2>1
<1>9. SubSeq(t, M + 2, M + N + 1) = p
  <2>1. PICK u : u = SubSeq(t, M + 2, M + N + 1)
    OBVIOUS
  <2>2. u \in Seq(Tokens) /\ Len(u) = N /\ \A k \in 1 .. N : u[k] = t[M + 1 + k]
    BY <1>3, <1>5, <2>1
  <2>3. ASSUME NEW k \in 1 .. N PROVE u[k] = p[k]
    <3>1. M + 1 + k \in M + 2 .. M + N + 1 /\ (M + 1 + k) - M - 1 = k
      BY <1>3
    <3>2. QED
      BY <1>6, <2>2, <3>1
  <2>4. p \in Seq(Tokens)
    BY ContentsAreTokens
  <2>5. u = p
    BY <2>2, <2>3, <2>4
  <2>6. QED
    BY <2>1, <2>5
<1>10. \A i \in 1 .. M + N + 2 : \/ i \in 1 .. M \/ i = M + 1
                                 \/ i \in M + 2 .. M + N + 1 \/ i = M + N + 2
  BY <1>3
<1>11. Crlf.kind = "crlf"
  BY DEF Crlf, Token
<1>12. DOMAIN t = 1 .. M + N + 2 /\ DOMAIN s = 1 .. M
  BY <1>5
<1> HIDE DEF M, N
<1>13. ASSUME NEW i \in 1 .. M + N + 2, t[i].kind = "size"
       PROVE  \E j \in i + 2 .. Len(t) :
                /\ t[j] = Crlf
                /\ \A k \in i + 1 .. j - 1 : t[k].kind \in Content
                /\ Bytes(SubSeq(t, i + 1, j - 1)) = t[i].n
  <2>1. CASE i \in 1 .. M
    <3>1. s[i].kind = "size" /\ t[i] = s[i]
      BY <1>5, <1>13, <2>1
    <3>2. PICK j \in i + 2 .. M :
            /\ s[j] = Crlf
            /\ \A k \in i + 1 .. j - 1 : s[k].kind \in Content
            /\ Bytes(SubSeq(s, i + 1, j - 1)) = s[i].n
      BY <1>12, <2>1, <3>1 DEF Framed, M
    <3>3. j \in 1 .. M /\ j \in i + 2 .. Len(t) /\ \A k \in i + 1 .. j - 1 : k \in 1 .. M
      BY <1>3, <1>5, <2>1, <3>2
    <3>4. SubSeq(t, i + 1, j - 1) = SubSeq(s, i + 1, j - 1)
      <4>1. \A k \in i + 1 .. j - 1 : t[k] = s[k]
        BY <1>5, <3>3
      <4>2. QED
        BY <1>3, <1>5, <2>1, <3>2, <3>3, <4>1 DEF M
    <3>5. QED
      BY <1>5, <3>1, <3>2, <3>3, <3>4
  <2>2. CASE i = M + 1
    <3> DEFINE j == M + N + 2
    <3>1. j \in i + 2 .. Len(t) /\ i + 1 = M + 2 /\ j - 1 = M + N + 1
      BY <1>3, <1>5, <2>2
    <3>2. t[i].n = Bytes(p)
      BY <1>6, <2>2
    <3> HIDE DEF j
    <3>3. t[j] = Crlf
      BY <1>6 DEF j
    <3>4. QED
      BY <1>8, <1>9, <3>1, <3>2, <3>3
  <2>3. CASE i \in M + 2 .. M + N + 1
    BY <1>8, <1>13, <2>3 DEF Content
  <2>4. CASE i = M + N + 2
    BY <1>6, <1>11, <1>13, <2>4
  <2>5. QED
    BY <1>10, <2>1, <2>2, <2>3, <2>4
<1>14. ASSUME NEW i \in 1 .. M + N + 2 PROVE t[i].kind # "last"
  <2>1. CASE i \in 1 .. M
    BY <1>5, <1>12, <2>1 DEF Open
  <2>2. CASE i = M + 1
    BY <1>6, <2>2
  <2>3. CASE i \in M + 2 .. M + N + 1
    BY <1>8, <2>3 DEF Content
  <2>4. CASE i = M + N + 2
    BY <1>6, <1>11, <2>4
  <2>5. QED
    BY <1>10, <2>1, <2>2, <2>3, <2>4
<1>15. Framed(t) /\ Open(t)
  BY <1>12, <1>13, <1>14 DEF Framed, Open
<1>16. QED
  BY <1>1, <1>4, <1>15

\* The last chunk ends an open sequence.
LEMMA FramedLast ==
  ASSUME NEW s \in Seq(Tokens), Framed(s), Open(s)
  PROVE  Framed(s \o <<LastChunk>>)
<1> DEFINE M == Len(s)
<1>1. PICK t : t = s \o <<LastChunk>>
  OBVIOUS
<1>2. M \in Nat /\ LastChunk \in Tokens /\ LastChunk.kind = "last"
  BY TokensTyped DEF LastChunk, Token
<1>3. /\ t \in Seq(Tokens) /\ Len(t) = M + 1 /\ t[M + 1] = LastChunk
      /\ \A i \in 1 .. M : t[i] = s[i]
  BY <1>1, <1>2
<1>4. DOMAIN t = 1 .. M + 1 /\ DOMAIN s = 1 .. M
  BY <1>3
<1> HIDE DEF M
<1>5. ASSUME NEW i \in 1 .. M + 1, t[i].kind = "size"
      PROVE  \E j \in i + 2 .. Len(t) :
               /\ t[j] = Crlf
               /\ \A k \in i + 1 .. j - 1 : t[k].kind \in Content
               /\ Bytes(SubSeq(t, i + 1, j - 1)) = t[i].n
  <2>1. i \in 1 .. M
    BY <1>2, <1>3, <1>5
  <2>2. s[i].kind = "size" /\ t[i] = s[i]
    BY <1>3, <1>5, <2>1
  <2>3. PICK j \in i + 2 .. M :
          /\ s[j] = Crlf
          /\ \A k \in i + 1 .. j - 1 : s[k].kind \in Content
          /\ Bytes(SubSeq(s, i + 1, j - 1)) = s[i].n
    BY <1>4, <2>1, <2>2 DEF Framed, M
  <2>4. j \in 1 .. M /\ j \in i + 2 .. Len(t) /\ \A k \in i + 1 .. j - 1 : k \in 1 .. M
    BY <1>2, <1>3, <2>1, <2>3
  <2>5. SubSeq(t, i + 1, j - 1) = SubSeq(s, i + 1, j - 1)
    <3>1. \A k \in i + 1 .. j - 1 : t[k] = s[k]
      BY <1>3, <2>4
    <3>2. QED
      BY <1>2, <1>3, <2>1, <2>3, <2>4, <3>1 DEF M
  <2>6. QED
    BY <1>3, <2>2, <2>3, <2>4, <2>5
<1>6. ASSUME NEW i \in 1 .. M + 1, t[i].kind = "last" PROVE i = M + 1
  <2>1. ~(i \in 1 .. M)
    BY <1>3, <1>4, <1>6 DEF Open
  <2>2. QED
    BY <1>2, <2>1
<1>7. Framed(t)
  BY <1>3, <1>4, <1>5, <1>6 DEF Framed
<1>8. QED
  BY <1>1, <1>7

\* What has neither a size nor an end.
LEMMA FramedPlain ==
  ASSUME NEW s \in Seq(Tokens), \A i \in DOMAIN s : s[i].kind \notin {"size", "last"}
  PROVE  Framed(s) /\ Open(s)
  BY DEF Framed, Open

-----------------------------------------------------------------------------
\* The rows of a sequence, and that their numbers go up.
RowsIn(s) == {s[i].n : i \in {j \in DOMAIN s : s[j].kind = "row"}}
Ascending(s) ==
  \A i, j \in DOMAIN s :
    i < j /\ s[i].kind = "row" /\ s[j].kind = "row" => s[i].n < s[j].n

LEMMA RowsConcat ==
  ASSUME NEW s \in Seq(Tokens), NEW t \in Seq(Tokens)
  PROVE  /\ RowsIn(s \o t) = RowsIn(s) \cup RowsIn(t)
         /\ Ascending(s) /\ Ascending(t)
              /\ (\A a \in RowsIn(s), b \in RowsIn(t) : a < b) => Ascending(s \o t)
<1> DEFINE M == Len(s)  N == Len(t)
<1>1. PICK u : u = s \o t
  OBVIOUS
<1>2. /\ M \in Nat /\ N \in Nat /\ DOMAIN s = 1 .. M /\ DOMAIN t = 1 .. N
  OBVIOUS
<1>3. u \in Seq(Tokens) /\ Len(u) = M + N
  BY <1>1, ConcatProperties
<1>4. \A i \in 1 .. M : u[i] = s[i]
  BY <1>1
<1>5. \A i \in 1 .. N : u[M + i] = t[i]
  BY <1>1
<1>6. DOMAIN u = 1 .. M + N
  BY <1>3
<1> HIDE DEF M, N
<1>7. \A i \in 1 .. M + N : i \in 1 .. M \/ \E k \in 1 .. N : i = M + k
  <2>1. ASSUME NEW i \in 1 .. M + N, ~(i \in 1 .. M) PROVE \E k \in 1 .. N : i = M + k
    <3>1. i - M \in 1 .. N /\ i = M + (i - M)
      BY <1>2, <2>1
    <3>2. QED
      BY <3>1
  <2>2. QED
    BY <2>1
<1>8. \A i \in 1 .. M : i \in 1 .. M + N
  BY <1>2
<1>9. \A k \in 1 .. N : M + k \in 1 .. M + N
  BY <1>2
<1>10. RowsIn(u) = RowsIn(s) \cup RowsIn(t)
  <2>1. ASSUME NEW r \in RowsIn(u) PROVE r \in RowsIn(s) \cup RowsIn(t)
    <3>1. PICK i \in 1 .. M + N : u[i].kind = "row" /\ u[i].n = r
      BY <1>6 DEF RowsIn
    <3>2. CASE i \in 1 .. M
      BY <1>2, <1>4, <3>1, <3>2 DEF RowsIn
    <3>3. CASE \E k \in 1 .. N : i = M + k
      BY <1>2, <1>5, <3>1, <3>3 DEF RowsIn
    <3>4. QED
      BY <1>7, <3>2, <3>3
  <2>2. ASSUME NEW r \in RowsIn(s) PROVE r \in RowsIn(u)
    BY <1>2, <1>4, <1>6, <1>8 DEF RowsIn
  <2>3. ASSUME NEW r \in RowsIn(t) PROVE r \in RowsIn(u)
    BY <1>2, <1>5, <1>6, <1>9 DEF RowsIn
  <2>4. QED
    BY <2>1, <2>2, <2>3
<1>11. ASSUME Ascending(s), Ascending(t), \A a \in RowsIn(s), b \in RowsIn(t) : a < b
       PROVE  Ascending(u)
  <2>1. SUFFICES ASSUME NEW i \in 1 .. M + N, NEW j \in 1 .. M + N, i < j,
                        u[i].kind = "row", u[j].kind = "row"
                 PROVE  u[i].n < u[j].n
    BY <1>6 DEF Ascending
  <2>2. CASE i \in 1 .. M /\ j \in 1 .. M
    BY <1>2, <1>4, <1>11, <2>1, <2>2 DEF Ascending
  <2>3. CASE i \in 1 .. M /\ ~(j \in 1 .. M)
    <3>1. u[i].n \in RowsIn(s)
      BY <1>2, <1>4, <2>1, <2>3 DEF RowsIn
    <3>2. PICK l \in 1 .. N : j = M + l
      BY <1>7, <2>3
    <3>3. u[j].n \in RowsIn(t)
      BY <1>2, <1>5, <2>1, <3>2 DEF RowsIn
    <3>4. QED
      BY <1>11, <3>1, <3>3
  <2>4. CASE ~(i \in 1 .. M)
    <3>1. PICK k \in 1 .. N : i = M + k
      BY <1>7, <2>4
    <3>2. ~(j \in 1 .. M)
      BY <1>2, <2>1, <2>4
    <3>3. PICK l \in 1 .. N : j = M + l
      BY <1>7, <3>2
    <3>4. k < l
      BY <1>2, <2>1, <3>1, <3>3
    <3>5. t[k].kind = "row" /\ t[l].kind = "row" /\ u[i].n = t[k].n /\ u[j].n = t[l].n
      BY <1>5, <2>1, <3>1, <3>3
    <3>6. QED
      BY <1>2, <1>11, <3>4, <3>5 DEF Ascending
  <2>5. QED
    BY <2>2, <2>3, <2>4
<1>12. QED
  BY <1>1, <1>10, <1>11

LEMMA RowsOne ==
  ASSUME NEW t \in Tokens
  PROVE  /\ RowsIn(<<t>>) = (IF t.kind = "row" THEN {t.n} ELSE {}) /\ Ascending(<<t>>)
         /\ RowsIn(<<>>) = {} /\ Ascending(<<>>)
<1>1. DOMAIN <<t>> = {1} /\ <<t>>[1] = t
  OBVIOUS
<1>2. RowsIn(<<t>>) = (IF t.kind = "row" THEN {t.n} ELSE {})
  BY <1>1 DEF RowsIn
<1>3. Ascending(<<t>>)
  BY <1>1 DEF Ascending
<1>4. RowsIn(<<>>) = {} /\ Ascending(<<>>)
  BY DEF RowsIn, Ascending
<1>5. QED
  BY <1>2, <1>3, <1>4

LEMMA RowsAppend ==
  ASSUME NEW s \in Seq(Tokens), NEW t \in Tokens
  PROVE  /\ t.kind # "row" => RowsIn(Append(s, t)) = RowsIn(s)
         /\ t.kind # "row" /\ Ascending(s) => Ascending(Append(s, t))
         /\ t.kind = "row" => RowsIn(Append(s, t)) = RowsIn(s) \cup {t.n}
         /\ t.kind = "row" /\ Ascending(s) /\ (\A r \in RowsIn(s) : r < t.n)
              => Ascending(Append(s, t))
<1>1. Append(s, t) = s \o <<t>> /\ <<t>> \in Seq(Tokens)
  OBVIOUS
<1>2. RowsIn(s \o <<t>>) = RowsIn(s) \cup RowsIn(<<t>>)
  BY <1>1, RowsConcat
<1>3. Ascending(s) /\ Ascending(<<t>>)
        /\ (\A a \in RowsIn(s), b \in RowsIn(<<t>>) : a < b) => Ascending(s \o <<t>>)
  BY <1>1, RowsConcat
<1>4. QED
  BY <1>1, <1>2, <1>3, RowsOne

-----------------------------------------------------------------------------
(***************************************************************************)
(* The listing of a directory.                                             *)
(***************************************************************************)
Flows == {"START", "CAN_PUSH", "I_CANT_PUSH", "END_TAG", "LAST_CHUNKED_AUTO",
          "DONE_AUTO_INDEX"}
Entries == Len(source.entries)
Cursors ==
  [flow: Flows, at: Nat, ptr: Nat, refused: SUBSET Nat, done: BOOLEAN,
   pushed: Seq(Contents), room: Int]

LEMMA EntriesTyped ==
  ASSUME source \in Sources
  PROVE  /\ Entries \in Nat /\ DOMAIN source.entries = 1 .. Entries
         /\ \A i \in 1 .. Entries :
              /\ source.entries[i].bytes \in Nat \ {0}
              /\ source.entries[i].needs \in Nat
              /\ source.entries[i].bytes <= source.entries[i].needs
              /\ Row(i) \in Contents /\ Row(i).kind = "row" /\ Row(i).n = i
              /\ Row(i).bytes = source.entries[i].bytes
<1>1. source.entries \in Seq(Range(source.entries))
  BY RelayAssumption DEF IsSource
<1>2. Entries \in Nat /\ DOMAIN source.entries = 1 .. Entries
  BY <1>1 DEF Entries
<1>3. ASSUME NEW i \in 1 .. Entries
      PROVE  /\ source.entries[i].bytes \in Nat \ {0}
             /\ source.entries[i].needs \in Nat
             /\ source.entries[i].bytes <= source.entries[i].needs
             /\ Row(i) \in Contents /\ Row(i).kind = "row" /\ Row(i).n = i
             /\ Row(i).bytes = source.entries[i].bytes
  <2>1. source.entries[i] \in Range(source.entries)
    BY <1>2 DEF Range
  <2>2. source.entries[i].needs \in Nat
        /\ source.entries[i].bytes \in 1 .. source.entries[i].needs
    BY <2>1, RelayAssumption DEF IsSource
  <2>3. Row(i) = [kind |-> "row", n |-> i, bytes |-> source.entries[i].bytes]
    BY DEF Row, Token
  <2>4. i \in Int
    BY <1>2
  <2> HIDE DEF Entries
  <2>5. Row(i) \in Contents
    BY <2>2, <2>3, <2>4 DEF Contents, Tokens, TokenKinds, Content
  <2>6. QED
    BY <2>2, <2>3, <2>5
<1>4. QED
  BY <1>2, <1>3

\* What was pushed leaves room for its size and its end.
Fits(x) == x.pushed = <<>> \/ Bytes(x.pushed) + Reserved <= x.room

\* The cursor has the rows of the entries after low, up to top.
Listing(x, low, top) ==
  /\ x \in Cursors /\ Fits(x)
  /\ low \in Nat /\ top \in low .. Entries
  /\ x.at = (IF x.done THEN top + 1 ELSE top) /\ x.at <= Entries
  /\ Ascending(x.pushed)
  /\ RowsIn(x.pushed) \subseteq low + 1 .. top
  /\ \A r \in RowsIn(x.pushed) : Hidden(source.entries[r]) => r - 1 \in x.refused
  /\ \A k \in low + 1 .. top :
       Hidden(source.entries[k]) \/ k \in RowsIn(x.pushed) \cup x.refused
  /\ x.flow = "I_CANT_PUSH" => top \in x.refused
  /\ x.done => x.flow = "I_CANT_PUSH" /\ x.ptr = x.at

\* A row that is pushed fits, with what is reserved.
LEMMA PushFits ==
  ASSUME source \in Sources, NEW x \in Cursors, NEW i \in 1 .. Entries, CanPush(x, i)
  PROVE  PushRow(x, i) \in Cursors /\ Fits(PushRow(x, i))
<1>1. x.pushed \in Seq(Contents) /\ x.pushed \in Seq(Tokens) /\ x.room \in Int
  BY ContentsAreTokens DEF Cursors
<1>2. /\ Row(i) \in Contents /\ Row(i) \in Tokens
      /\ Row(i).bytes \in Nat /\ Row(i).bytes <= source.entries[i].needs
      /\ source.entries[i].needs \in Nat
  BY EntriesTyped DEF Contents
<1>3. Bytes(Append(x.pushed, Row(i))) = Bytes(x.pushed) + Row(i).bytes
  <2>1. Share(Row(i), TokenKinds) = Row(i).bytes
    BY <1>2 DEF Share, Tokens
  <2>2. QED
    BY <1>1, <1>2, <2>1, BytesAppend DEF Bytes
<1>4. Bytes(x.pushed) \in Nat
  BY <1>1, BytesNat DEF Bytes
<1>5. Bytes(x.pushed) + Row(i).bytes + Reserved <= x.room
  BY <1>1, <1>2, <1>4 DEF CanPush, Reserved
<1>6. Append(x.pushed, Row(i)) \in Seq(Contents)
  BY <1>1, <1>2
<1>7. PushRow(x, i) \in Cursors
      /\ PushRow(x, i).pushed = Append(x.pushed, Row(i)) /\ PushRow(x, i).room = x.room
  BY <1>6 DEF PushRow, Cursors
<1>8. QED
  BY <1>3, <1>5, <1>7 DEF Fits

LEMMA PushListing ==
  ASSUME source \in Sources, NEW x \in Cursors, NEW low \in Nat, NEW top \in low .. Entries,
         top + 1 <= Entries, CanPush(x, top + 1), Ascending(x.pushed),
         RowsIn(x.pushed) \subseteq low + 1 .. top,
         \A r \in RowsIn(x.pushed) : Hidden(source.entries[r]) => r - 1 \in x.refused,
         Hidden(source.entries[top + 1]) => top \in x.refused,
         \A k \in low + 1 .. top :
           Hidden(source.entries[k]) \/ k \in RowsIn(x.pushed) \cup x.refused
  PROVE  LET y == PushRow(x, top + 1)
         IN /\ y \in Cursors /\ Fits(y) /\ Ascending(y.pushed)
            /\ RowsIn(y.pushed) \subseteq low + 1 .. top + 1
            /\ \A r \in RowsIn(y.pushed) : Hidden(source.entries[r]) => r - 1 \in y.refused
            /\ \A k \in low + 1 .. top + 1 :
                 Hidden(source.entries[k]) \/ k \in RowsIn(y.pushed) \cup y.refused
            /\ y.at = x.at /\ y.ptr = x.ptr /\ y.flow = x.flow /\ y.done = x.done
            /\ y.refused = x.refused /\ y.room = x.room
<1> DEFINE i == top + 1
           y == PushRow(x, i)
<1>1. i \in 1 .. Entries /\ Entries \in Nat /\ top \in Nat
  BY EntriesTyped
<1>2. Row(i) \in Tokens /\ Row(i).kind = "row" /\ Row(i).n = i
  BY <1>1, EntriesTyped DEF Contents
<1>3. x.pushed \in Seq(Tokens)
  BY ContentsAreTokens DEF Cursors
<1>4. y \in Cursors /\ Fits(y)
  BY <1>1, PushFits
<1>5. /\ y.pushed = Append(x.pushed, Row(i)) /\ y.at = x.at /\ y.ptr = x.ptr
      /\ y.flow = x.flow /\ y.done = x.done /\ y.refused = x.refused /\ y.room = x.room
  BY DEF PushRow, Cursors
<1> HIDE DEF y
<1>6. RowsIn(y.pushed) = RowsIn(x.pushed) \cup {i}
  BY <1>2, <1>3, <1>5, RowsAppend
<1>7. Ascending(y.pushed)
  <2>1. \A r \in RowsIn(x.pushed) : r < i
    BY <1>1
  <2>2. QED
    BY <1>2, <1>3, <1>5, <2>1, RowsAppend
<1>8. RowsIn(y.pushed) \subseteq low + 1 .. top + 1
  BY <1>1, <1>6
<1>9. ASSUME NEW r \in RowsIn(y.pushed), Hidden(source.entries[r])
      PROVE  r - 1 \in y.refused
  <2>1. CASE r \in RowsIn(x.pushed)
    BY <1>5, <1>9, <2>1
  <2>2. CASE r = i
    BY <1>1, <1>5, <1>9, <2>2
  <2>3. QED
    BY <1>6, <2>1, <2>2
<1>10. ASSUME NEW k \in low + 1 .. top + 1
       PROVE  Hidden(source.entries[k]) \/ k \in RowsIn(y.pushed) \cup y.refused
  <2>1. k \in low + 1 .. top \/ k = i
    BY <1>1
  <2>2. QED
    BY <1>5, <1>6, <2>1
<1>11. QED
  BY <1>4, <1>5, <1>7, <1>8, <1>9, <1>10 DEF y

\* A turn of the loop looks at the next entry, or stops.
LEMMA TurnListing ==
  ASSUME source \in Sources, NEW x, NEW low, NEW top, Listing(x, low, top),
         x.flow \in {"CAN_PUSH", "I_CANT_PUSH"},
         NEW i \in 1 .. Entries, ~x.done => i = top + 1
  PROVE  LET y == Turn(x, i)
         IN /\ \E t : Listing(y, low, t) /\ (~y.done => t = i)
            /\ y.flow \in {"CAN_PUSH", "I_CANT_PUSH"}
            /\ x.refused \subseteq y.refused /\ y.room = x.room
            /\ x.pushed # <<>> => y.pushed # <<>>
<1> DEFINE y == Turn(x, i)
<1>1. /\ x \in Cursors /\ low \in Nat /\ top \in low .. Entries /\ Entries \in Nat
      /\ top \in Nat /\ i \in Nat
  BY EntriesTyped DEF Listing
<1>2. CASE x.done
  <2>1. y = x
    BY <1>2 DEF Turn
  <2>2. QED
    BY <1>2, <2>1
<1>3. CASE ~x.done /\ x.flow # "CAN_PUSH"
  <2>1. y = [x EXCEPT !.at = i, !.ptr = i, !.done = TRUE]
    BY <1>3 DEF Turn
  <2>2. /\ y \in Cursors /\ y.flow = x.flow /\ y.at = i /\ y.ptr = i /\ y.done
        /\ y.refused = x.refused /\ y.pushed = x.pushed /\ y.room = x.room
    <3> HIDE DEF y, Entries
    <3>1. QED
      BY <1>1, <2>1 DEF Cursors
  <2> HIDE DEF y
  <2>3. Listing(y, low, top)
    BY <1>1, <1>3, <2>2 DEF Listing, Fits
  <2>4. QED
    BY <2>2, <2>3 DEF y
<1>4. CASE ~x.done /\ x.flow = "CAN_PUSH"
  <2> DEFINE z == [x EXCEPT !.at = i, !.ptr = i]
  <2>1. y = InsertRow(z, i)
    BY <1>4 DEF Turn
  <2>2. /\ z \in Cursors /\ z.flow = "CAN_PUSH" /\ z.at = i /\ z.done = FALSE
        /\ z.refused = x.refused /\ z.pushed = x.pushed /\ z.room = x.room
    <3>1. x.done = FALSE
      BY <1>1, <1>4 DEF Cursors
    <3> HIDE DEF Entries
    <3>2. QED
      BY <1>1, <1>4, <3>1 DEF Cursors
  <2>3. i = top + 1
    BY <1>4
  <2> HIDE DEF z, y
  <2>4. /\ Ascending(z.pushed) /\ Fits(z)
        /\ RowsIn(z.pushed) \subseteq low + 1 .. top
        /\ \A r \in RowsIn(z.pushed) : Hidden(source.entries[r]) => r - 1 \in z.refused
        /\ \A k \in low + 1 .. top :
             Hidden(source.entries[k]) \/ k \in RowsIn(z.pushed) \cup z.refused
    BY <2>2 DEF Listing, Fits
  <2>5. CASE Hidden(source.entries[i])
    <3>1. y = z
      BY <2>1, <2>5 DEF InsertRow
    <3>2. \A k \in low + 1 .. i : k \in low + 1 .. top \/ k = i
      BY <1>1, <2>3
    <3>3. Listing(y, low, i)
      BY <1>1, <2>2, <2>3, <2>4, <2>5, <3>1, <3>2 DEF Listing
    <3>4. QED
      BY <2>2, <3>1, <3>3 DEF y
  <2>6. CASE ~Hidden(source.entries[i]) /\ CanPush(z, i)
    <3>1. y = PushRow(z, i)
      BY <2>1, <2>6 DEF InsertRow
    <3>2. /\ y \in Cursors /\ Fits(y) /\ Ascending(y.pushed)
          /\ RowsIn(y.pushed) \subseteq low + 1 .. i
          /\ \A r \in RowsIn(y.pushed) : Hidden(source.entries[r]) => r - 1 \in y.refused
          /\ \A k \in low + 1 .. i :
               Hidden(source.entries[k]) \/ k \in RowsIn(y.pushed) \cup y.refused
          /\ y.at = z.at /\ y.flow = z.flow /\ y.done = z.done
          /\ y.refused = z.refused /\ y.room = z.room
      <4>1. y = PushRow(z, top + 1) /\ CanPush(z, top + 1) /\ top + 1 <= Entries
        BY <2>3, <2>6, <3>1
      <4>2. Hidden(source.entries[top + 1]) => top \in z.refused
        BY <2>3, <2>6
      <4>3. /\ y \in Cursors /\ Fits(y) /\ Ascending(y.pushed)
            /\ RowsIn(y.pushed) \subseteq low + 1 .. top + 1
            /\ \A r \in RowsIn(y.pushed) : Hidden(source.entries[r]) => r - 1 \in y.refused
            /\ \A k \in low + 1 .. top + 1 :
                 Hidden(source.entries[k]) \/ k \in RowsIn(y.pushed) \cup y.refused
            /\ y.at = z.at /\ y.flow = z.flow /\ y.done = z.done
            /\ y.refused = z.refused /\ y.room = z.room
        BY <1>1, <2>2, <2>4, <4>1, <4>2, PushListing
      <4>4. QED
        BY <2>3, <4>3
    <3>3. Listing(y, low, i)
      BY <1>1, <2>2, <2>3, <3>2 DEF Listing
    <3>4. y.pushed # <<>>
      BY <2>2, <3>1 DEF PushRow, Cursors
    <3>5. QED
      BY <2>2, <3>2, <3>3, <3>4 DEF y
  <2>7. CASE ~Hidden(source.entries[i]) /\ ~CanPush(z, i)
    <3>1. y = [z EXCEPT !.flow = "I_CANT_PUSH", !.refused = @ \cup {i}]
      BY <2>1, <2>7 DEF InsertRow
    <3>2. /\ y \in Cursors /\ y.flow = "I_CANT_PUSH" /\ y.at = i /\ y.done = FALSE
          /\ y.refused = x.refused \cup {i} /\ y.pushed = x.pushed /\ y.room = x.room
      BY <1>1, <2>2, <2>3, <3>1 DEF Cursors, Flows
    <3>3. \A k \in low + 1 .. i : k \in low + 1 .. top \/ k = i
      BY <1>1, <2>3
    <3>4. Listing(y, low, i)
      BY <1>1, <2>2, <2>3, <2>4, <3>2, <3>3 DEF Listing, Fits
    <3>5. QED
      BY <2>2, <3>2, <3>4 DEF y
  <2>8. QED
    BY <2>5, <2>6, <2>7
<1>5. QED
  BY <1>2, <1>3, <1>4 DEF Listing

LEMMA TurnTyped ==
  ASSUME source \in Sources, NEW x \in Cursors, NEW i \in 1 .. Entries
  PROVE  Turn(x, i) \in Cursors
<1> DEFINE z == [x EXCEPT !.at = i, !.ptr = i]
           w == [z EXCEPT !.done = TRUE]
           v == [z EXCEPT !.flow = "I_CANT_PUSH", !.refused = @ \cup {i}]
<1>1. i \in Nat
  BY EntriesTyped
<1>2. z \in Cursors
  <2> HIDE DEF Entries
  <2>1. QED
    BY <1>1 DEF Cursors
<1> HIDE DEF z
<1>3. w \in Cursors
  BY <1>2 DEF Cursors
<1>4. v \in Cursors
  <2>1. z.refused \cup {i} \in SUBSET Nat
    BY <1>1, <1>2 DEF Cursors
  <2>2. QED
    BY <1>2, <2>1 DEF Cursors, Flows
<1>5. CanPush(z, i) => PushRow(z, i) \in Cursors
  BY <1>2, PushFits
<1>6. \/ Turn(x, i) \in {x, w, z, v}
      \/ CanPush(z, i) /\ Turn(x, i) = PushRow(z, i)
  <2>1. w = [x EXCEPT !.at = i, !.ptr = i, !.done = TRUE]
    BY DEF z, Cursors
  <2> HIDE DEF w
  <2>2. QED
    BY <2>1 DEF Turn, InsertRow, z
<1>7. QED
  BY <1>2, <1>3, <1>4, <1>5, <1>6

\* The cursors of a loop over the entries after x.at.
IsTurns(f, x, rest) ==
  /\ f \in [0 .. rest -> Cursors]
  /\ f[0] = [x EXCEPT !.flow = "CAN_PUSH", !.done = FALSE]
  /\ \A k \in 1 .. rest : f[k] = Turn(f[k - 1], x.at + k)

LEMMA TurnsExist ==
  ASSUME source \in Sources, NEW x \in Cursors, x.at <= Entries
  PROVE  \E f : /\ IsTurns(f, x, Entries - x.at)
                /\ Rows(x) = LET y == f[Entries - x.at]
                             IN IF y.done THEN y ELSE [y EXCEPT !.ptr = 0, !.flow = "END_TAG"]
<1> DEFINE N == Entries - x.at
           b == [x EXCEPT !.flow = "CAN_PUSH", !.done = FALSE]
           g == [k \in 1 .. N |-> [y \in Cursors |-> Turn(y, x.at + k)]]
           F(f) == [k \in 0 .. N |-> IF k = 0 THEN b ELSE Turn(f[k - 1], x.at + k)]
<1>1. N \in Nat /\ x.at \in Nat /\ \A k \in 1 .. N : x.at + k \in 1 .. Entries
  <2>1. Entries \in Nat /\ x.at \in Nat
    BY EntriesTyped DEF Cursors
  <2> HIDE DEF Entries
  <2>2. QED
    BY <2>1
<1>2. b \in Cursors
  BY DEF Cursors, Flows
<1>3. g \in [1 .. N -> [Cursors -> Cursors]]
  BY <1>1, TurnTyped
<1>4. \A k \in 1 .. N : \A y \in Cursors : g[k][y] = Turn(y, x.at + k)
  OBVIOUS
<1>5. Rows(x) = LET h == CHOOSE h : h = F(h)
                    y == h[N]
                IN IF y.done THEN y ELSE [y EXCEPT !.ptr = 0, !.flow = "END_TAG"]
  BY DEF Rows, Entries
<1> HIDE DEF N, g, b
<1>6. PICK f \in [0 .. N -> Cursors] : Iterates(f, b, g, N)
  BY <1>1, <1>2, <1>3, IteratesExist
<1>7. \A k \in 1 .. N : k \in 0 .. N /\ k - 1 \in 0 .. N /\ k # 0
  BY <1>1
<1>8. \A k \in 1 .. N : f[k] = Turn(f[k - 1], x.at + k)
  BY <1>4, <1>6, <1>7 DEF Iterates
<1>9. f = F(f)
  <2>1. \A k \in 0 .. N : k = 0 \/ k \in 1 .. N
    BY <1>1
  <2>2. \A k \in 0 .. N : f[k] = F(f)[k]
    BY <1>6, <1>8, <2>1 DEF Iterates
  <2>3. QED
    BY <2>2
<1>10. ASSUME NEW h, h = F(h) PROVE h[N] = f[N]
  <2> DEFINE T == {k \in 0 .. N : h[k] = f[k]}
  <2>1. 0 \in T
    BY <1>1, <1>6, <1>10 DEF Iterates
  <2>2. ASSUME NEW k \in 1 .. N, k - 1 \in T
        PROVE  k \in T
    <3>1. h[k] = Turn(h[k - 1], x.at + k)
      BY <1>7, <1>10
    <3>2. QED
      BY <1>7, <1>8, <2>2, <3>1
  <2> HIDE DEF T, F
  <2>3. 0 .. N \subseteq T
    BY <1>1, <2>1, <2>2, NumbersUpTo
  <2>4. QED
    BY <1>1, <2>3 DEF T
<1> HIDE DEF F
<1>11. (CHOOSE h : h = F(h))[N] = f[N]
  BY <1>9, <1>10
<1>12. IsTurns(f, x, N)
  BY <1>6, <1>8 DEF IsTurns, Iterates, b
<1>13. QED
  BY <1>5, <1>11, <1>12 DEF N

\* After the loop the entries are at their end, or the current one is the one
\* after an entry that did not fit.
Looped(y, low, top) ==
  /\ Listing(y, low, top)
  /\ \/ y.flow = "END_TAG" /\ top = Entries /\ ~y.done
     \/ y.flow = "I_CANT_PUSH" /\ y.done

LEMMA RowsListing ==
  ASSUME source \in Sources, NEW x \in Cursors, NEW low,
         Listing([x EXCEPT !.flow = "CAN_PUSH", !.done = FALSE], low, x.at)
  PROVE  LET y == Rows(x)
         IN /\ \E top : Looped(y, low, top)
            /\ x.refused \subseteq y.refused /\ y.room = x.room
            /\ x.pushed # <<>> => y.pushed # <<>>
<1> DEFINE N == Entries - x.at
           b == [x EXCEPT !.flow = "CAN_PUSH", !.done = FALSE]
<1>1. /\ b \in Cursors /\ b.at = x.at /\ b.refused = x.refused /\ b.room = x.room
      /\ b.pushed = x.pushed /\ b.flow = "CAN_PUSH" /\ b.done = FALSE
  BY DEF Cursors, Flows
<1>2. Entries \in Nat /\ x.at \in Nat /\ low \in Nat /\ x.at <= Entries
  BY <1>1, EntriesTyped DEF Listing, Cursors
<1>3. N \in Nat /\ \A k \in 1 .. N : x.at + k \in 1 .. Entries
  <2> HIDE DEF Entries
  <2>1. QED
    BY <1>2
<1>4. PICK f : /\ IsTurns(f, x, N)
               /\ Rows(x) = LET y == f[N]
                            IN IF y.done THEN y ELSE [y EXCEPT !.ptr = 0, !.flow = "END_TAG"]
  BY <1>2, TurnsExist
<1> DEFINE Good(y, k) ==
             /\ \E top : Listing(y, low, top) /\ (~y.done => top = x.at + k)
             /\ y.flow \in {"CAN_PUSH", "I_CANT_PUSH"}
             /\ x.refused \subseteq y.refused /\ y.room = x.room
             /\ x.pushed # <<>> => y.pushed # <<>>
           T == {k \in 0 .. N : Good(f[k], k)}
<1>5. 0 \in T
  <2>1. f[0] = b
    BY <1>4 DEF IsTurns
  <2> HIDE DEF b
  <2>2. Listing(b, low, x.at)
    BY DEF b
  <2>3. QED
    BY <1>1, <1>2, <1>3, <2>1, <2>2
<1> HIDE DEF N
<1>6. ASSUME NEW k \in 1 .. N, k - 1 \in T PROVE k \in T
  <2>1. k \in 0 .. N /\ k - 1 \in 0 .. N /\ x.at + k \in 1 .. Entries
        /\ x.at + (k - 1) + 1 = x.at + k
    BY <1>2, <1>3
  <2>2. f[k] = Turn(f[k - 1], x.at + k)
    BY <1>4 DEF IsTurns
  <2>3. PICK y : y = f[k - 1]
    OBVIOUS
  <2>4. PICK top : Listing(y, low, top) /\ (~y.done => top = x.at + (k - 1))
    BY <1>6, <2>3
  <2>5. /\ y.flow \in {"CAN_PUSH", "I_CANT_PUSH"}
        /\ x.refused \subseteq y.refused /\ y.room = x.room
        /\ x.pushed # <<>> => y.pushed # <<>>
    BY <1>6, <2>3
  <2>6. PICK z : z = Turn(y, x.at + k)
    OBVIOUS
  <2>7. /\ \E t : Listing(z, low, t) /\ (~z.done => t = x.at + k)
        /\ z.flow \in {"CAN_PUSH", "I_CANT_PUSH"}
        /\ y.refused \subseteq z.refused /\ z.room = y.room
        /\ y.pushed # <<>> => z.pushed # <<>>
    <3>1. ~y.done => x.at + k = top + 1
      BY <2>1, <2>4
    <3>2. QED
      BY <2>1, <2>4, <2>5, <2>6, <3>1, TurnListing
  <2>8. Good(z, k)
    BY <2>5, <2>7
  <2>9. QED
    BY <2>1, <2>2, <2>3, <2>6, <2>8
<1> HIDE DEF T
<1>7. 0 .. N \subseteq T
  BY <1>3, <1>5, <1>6, NumbersUpTo
<1>8. Good(f[N], N)
  BY <1>3, <1>7 DEF T
<1>9. PICK y \in Cursors : y = f[N]
  BY <1>3, <1>4 DEF IsTurns
<1>10. PICK top : Listing(y, low, top) /\ (~y.done => top = x.at + N)
  BY <1>8, <1>9
<1>11. /\ x.refused \subseteq y.refused /\ y.room = x.room
       /\ x.pushed # <<>> => y.pushed # <<>>
  BY <1>8, <1>9
<1>12. CASE y.done
  <2>1. Rows(x) = y
    BY <1>4, <1>9, <1>12
  <2>2. Looped(y, low, top)
    BY <1>10, <1>12 DEF Looped, Listing
  <2>3. QED
    BY <1>11, <2>1, <2>2
<1>13. CASE ~y.done
  <2>1. PICK z : z = [y EXCEPT !.ptr = 0, !.flow = "END_TAG"]
    OBVIOUS
  <2>2. Rows(x) = z
    BY <1>4, <1>9, <1>13, <2>1
  <2>3. /\ z \in Cursors /\ z.flow = "END_TAG" /\ z.at = y.at /\ z.done = FALSE
        /\ z.refused = y.refused /\ z.pushed = y.pushed /\ z.room = y.room
    BY <1>13, <2>1 DEF Cursors, Flows
  <2>4. top = Entries
    BY <1>2, <1>10, <1>13 DEF N
  <2>5. Listing(z, low, top)
    BY <1>10, <1>13, <2>3 DEF Listing, Fits
  <2>6. Looped(z, low, top)
    BY <2>3, <2>4, <2>5 DEF Looped
  <2>7. QED
    BY <1>11, <2>2, <2>3, <2>6
<1>14. QED
  BY <1>12, <1>13

-----------------------------------------------------------------------------
Dir == [flow: Flows \ {"CAN_PUSH"}, at: Nat, ptr: Nat, refused: SUBSET Nat]

\* The last entry that is done with.
Low(d) == IF d.flow = "I_CANT_PUSH" THEN d.at - 1 ELSE d.at

\* A listing between two calls: it has not begun, the current entry is the one
\* after an entry that did not fit, or all are done with.
Waiting(d) ==
  /\ d.at <= Entries
  /\ d.flow = "START" => d.at = 0
  /\ d.flow = "I_CANT_PUSH" => d.at >= 1 /\ d.ptr = d.at /\ d.at - 1 \in d.refused
  /\ d.flow \notin {"START", "I_CANT_PUSH"} => d.at = Entries

\* The entries after low, up to top, have their row in p, are hidden or were
\* refused.
Covers(p, refused, low, top) ==
  /\ Ascending(p)
  /\ RowsIn(p) \subseteq low + 1 .. top
  /\ \A r \in RowsIn(p) : Hidden(source.entries[r]) => r - 1 \in refused
  /\ \A k \in low + 1 .. top :
       Hidden(source.entries[k]) \/ k \in RowsIn(p) \cup refused

\* What a call has made of the listing.
Inserted(x, low) ==
  /\ x \in Cursors /\ Fits(x)
  /\ low \in Nat /\ Low(x) \in low .. Entries
  /\ x.flow \notin {"START", "CAN_PUSH"} /\ Waiting(x)
  /\ Covers(x.pushed, x.refused, low, Low(x))

LEMMA LoopedInserted ==
  ASSUME source \in Sources, NEW y, NEW low, NEW top, Looped(y, low, top)
  PROVE  Inserted(y, low)
<1>1. /\ y \in Cursors /\ Fits(y) /\ low \in Nat /\ top \in low .. Entries
      /\ Entries \in Nat /\ y.at \in Nat /\ top \in Nat
  BY EntriesTyped DEF Looped, Listing, Cursors
<1>2. Covers(y.pushed, y.refused, low, top)
  BY DEF Looped, Listing, Covers
<1>3. CASE y.flow = "END_TAG" /\ top = Entries /\ ~y.done
  <2>1. y.at = Entries /\ Low(y) = top
    BY <1>3 DEF Looped, Listing, Low
  <2>2. QED
    BY <1>1, <1>2, <1>3, <2>1 DEF Inserted, Waiting
<1>4. CASE y.flow = "I_CANT_PUSH" /\ y.done
  <2>1. y.at = top + 1 /\ y.at <= Entries /\ y.ptr = y.at /\ top \in y.refused
    BY <1>4 DEF Looped, Listing
  <2>2. Low(y) = top /\ y.at - 1 = top /\ y.at >= 1
    BY <1>1, <1>4, <2>1 DEF Low
  <2>3. QED
    BY <1>1, <1>2, <1>4, <2>1, <2>2 DEF Inserted, Waiting
<1>5. QED
  BY <1>3, <1>4 DEF Looped

\* The cursor of a call, before it puts anything in the buffer.
Started(room) ==
  [flow |-> dir.flow, at |-> dir.at, ptr |-> dir.ptr,
   refused |-> dir.refused, done |-> FALSE, pushed |-> <<>>, room |-> room]

LEMMA CoversNothing ==
  ASSUME NEW refused, NEW low \in Nat
  PROVE  Covers(<<>>, refused, low, low)
<1>1. RowsIn(<<>>) = {} /\ Ascending(<<>>)
  BY DEF RowsIn, Ascending
<1>2. QED
  BY <1>1 DEF Covers

LEMMA BegunInserted ==
  ASSUME source \in Sources, dir \in Dir, Waiting(dir), NEW room \in Int,
         dir.flow = "START" => 14 <= room
  PROVE  LET y == Begun(Started(room))
         IN /\ Inserted(y, Low(dir)) /\ dir.refused \subseteq y.refused /\ y.room = room
            /\ dir.flow \notin {"START", "I_CANT_PUSH"} =>
                 y.flow = dir.flow /\ y.pushed = <<>>
            /\ dir.flow # "DONE_AUTO_INDEX" => y.flow # "DONE_AUTO_INDEX"
<1> DEFINE x == Started(room)  low == Low(dir)  y == Begun(x)
<1>1. /\ x \in Cursors /\ x.flow = dir.flow /\ x.at = dir.at /\ x.ptr = dir.ptr
      /\ x.refused = dir.refused /\ x.done = FALSE /\ x.pushed = <<>> /\ x.room = room
  BY EmptySequence DEF Started, Cursors, Dir
<1>2. /\ Entries \in Nat /\ dir.at \in Nat /\ low \in Nat /\ low <= Entries
      /\ dir.flow \in Flows \ {"CAN_PUSH"}
  <2>1. Entries \in Nat /\ dir.at \in Nat /\ dir.flow \in Flows \ {"CAN_PUSH"}
    BY EntriesTyped DEF Dir
  <2> HIDE DEF Entries
  <2>2. QED
    BY <2>1 DEF Low, Waiting
<1> HIDE DEF x
<1>3. ASSUME y = x, dir.flow # "START" PROVE Inserted(y, low)
  <2>1. Low(x) = low /\ Waiting(x)
    BY <1>1 DEF Low, Waiting
  <2>2. Covers(x.pushed, x.refused, low, low)
    BY <1>1, <1>2, CoversNothing
  <2>3. x.flow \notin {"START", "CAN_PUSH"}
    BY <1>1, <1>2, <1>3
  <2>4. Fits(x)
    BY <1>1 DEF Fits
  <2> HIDE DEF low
  <2>5. QED
    BY <1>1, <1>2, <1>3, <2>1, <2>2, <2>3, <2>4 DEF Inserted
<1>4. CASE dir.flow = "START"
  <2> DEFINE z == [x EXCEPT !.pushed = <<IndexHead>>]
             b == [z EXCEPT !.flow = "CAN_PUSH", !.done = FALSE]
  <2>1. IndexHead \in Contents /\ IndexHead \in Tokens /\ IndexHead.kind = "index"
        /\ IndexHead.bytes = 6
    BY TokensTyped DEF Contents, IndexHead, Token
  <2>2. Bytes(<<IndexHead>>) = 6
    BY <2>1, BytesOne DEF Bytes, Share, TokenKinds, Content
  <2>3. RowsIn(<<IndexHead>>) = {} /\ Ascending(<<IndexHead>>)
    BY <2>1, RowsOne
  <2>4. <<IndexHead>> \in Seq(Contents) /\ <<IndexHead>> # <<>>
    BY <2>1
  <2>5. /\ z \in Cursors /\ z.at = 0 /\ z.refused = dir.refused /\ z.room = room
        /\ z.pushed = <<IndexHead>>
    BY <1>1, <1>4, <2>4 DEF Waiting, Cursors
  <2> HIDE DEF z
  <2>6. /\ b \in Cursors /\ b.at = 0 /\ b.refused = dir.refused /\ b.room = room
        /\ b.pushed = <<IndexHead>> /\ b.flow = "CAN_PUSH" /\ b.done = FALSE
    BY <2>5 DEF Cursors, Flows
  <2> HIDE DEF b
  <2>7. Fits(b)
    BY <1>4, <2>2, <2>6 DEF Fits, Reserved
  <2>8. Listing(b, 0, 0)
    BY <1>2, <2>3, <2>6, <2>7 DEF Listing
  <2>9. /\ \E top : Looped(Rows(z), 0, top)
        /\ z.refused \subseteq Rows(z).refused /\ Rows(z).room = z.room
    BY <2>5, <2>8, RowsListing DEF b
  <2>10. y = Rows(z)
    BY <1>1, <1>4 DEF Begun, z
  <2>11. low = 0
    BY <1>4 DEF Low, Waiting
  <2>12. Inserted(y, low)
    BY <2>9, <2>10, <2>11, LoopedInserted
  <2>13. y.flow # "DONE_AUTO_INDEX"
    BY <2>9, <2>10 DEF Looped
  <2>14. QED
    BY <1>4, <2>5, <2>9, <2>10, <2>12, <2>13 DEF x
<1>5. CASE dir.flow = "I_CANT_PUSH" /\ ~CanPush(x, x.ptr)
  <2>1. y = x
    BY <1>1, <1>5 DEF Begun
  <2>2. QED
    BY <1>1, <1>3, <1>5, <2>1 DEF x
<1>6. CASE dir.flow = "I_CANT_PUSH" /\ CanPush(x, x.ptr)
  <2> DEFINE z == PushRow(x, x.ptr)
             b == [z EXCEPT !.flow = "CAN_PUSH", !.done = FALSE]
  <2>1. /\ x.ptr = low + 1 /\ x.at = low + 1 /\ low + 1 <= Entries
        /\ low \in x.refused /\ low \in low .. Entries
    BY <1>1, <1>2, <1>6 DEF Low, Waiting
  <2>2. Ascending(x.pushed) /\ RowsIn(x.pushed) = {}
    BY <1>1 DEF Ascending, RowsIn
  <2> HIDE DEF low
  <2>3. /\ RowsIn(x.pushed) \subseteq low + 1 .. low
        /\ \A r \in RowsIn(x.pushed) : Hidden(source.entries[r]) => r - 1 \in x.refused
        /\ \A k \in low + 1 .. low :
             Hidden(source.entries[k]) \/ k \in RowsIn(x.pushed) \cup x.refused
    BY <1>2, <2>2
  <2>4. CanPush(x, low + 1)
    BY <1>6, <2>1
  <2>5. /\ z \in Cursors /\ Fits(z) /\ Ascending(z.pushed)
        /\ RowsIn(z.pushed) \subseteq low + 1 .. low + 1
        /\ \A r \in RowsIn(z.pushed) : Hidden(source.entries[r]) => r - 1 \in z.refused
        /\ \A k \in low + 1 .. low + 1 :
             Hidden(source.entries[k]) \/ k \in RowsIn(z.pushed) \cup z.refused
        /\ z.at = x.at /\ z.refused = x.refused /\ z.room = x.room
    <3>1. z = PushRow(x, low + 1)
      BY <2>1
    <3>2. Hidden(source.entries[low + 1]) => low \in x.refused
      BY <2>1
    <3>3. x \in Cursors /\ low \in Nat
      BY <1>1, <1>2
    <3> HIDE DEF z
    <3>4. QED
      BY <2>1, <2>2, <2>3, <2>4, <3>1, <3>2, <3>3, PushListing
  <2> HIDE DEF z
  <2>6. /\ b \in Cursors /\ b.at = z.at /\ b.refused = z.refused /\ b.room = z.room
        /\ b.pushed = z.pushed /\ b.flow = "CAN_PUSH" /\ b.done = FALSE
    BY <2>5 DEF Cursors, Flows
  <2> HIDE DEF b
  <2>7. Listing(b, low, low + 1)
    BY <1>2, <2>1, <2>5, <2>6 DEF Listing, Fits
  <2>8. Listing([z EXCEPT !.flow = "CAN_PUSH", !.done = FALSE], low, z.at)
    BY <2>1, <2>5, <2>7 DEF b
  <2>9. /\ \E top : Looped(Rows(z), low, top)
        /\ z.refused \subseteq Rows(z).refused /\ Rows(z).room = z.room
    BY <2>5, <2>8, RowsListing
  <2>10. y = Rows(z)
    BY <1>1, <1>6 DEF Begun, z
  <2>11. Inserted(y, low)
    BY <2>9, <2>10, LoopedInserted
  <2>12. y.flow # "DONE_AUTO_INDEX"
    BY <2>9, <2>10 DEF Looped
  <2>13. QED
    BY <1>1, <1>6, <2>5, <2>9, <2>10, <2>11, <2>12 DEF x, low
<1>7. CASE dir.flow \notin {"START", "I_CANT_PUSH"}
  <2>1. y = x
    BY <1>1, <1>7 DEF Begun
  <2>2. QED
    BY <1>1, <1>3, <1>7, <2>1 DEF x
<1>8. QED
  BY <1>4, <1>5, <1>6, <1>7

LEMMA ContentBytes ==
  ASSUME NEW p \in Seq(Contents), p # <<>>
  PROVE  Bytes(p) \in Nat \ {0}
<1>1. Len(p) \in Nat /\ Len(p) >= 1
  OBVIOUS
<1>2. PICK a, q : a = SubSeq(p, 1, 1) /\ q = SubSeq(p, 2, Len(p))
  OBVIOUS
<1>3. a \in Seq(Contents) /\ Len(a) = 1 /\ q \in Seq(Contents) /\ p = a \o q
  <2>1. 1 \in 0 .. Len(p) /\ 1 + 1 = 2
    BY <1>1
  <2>2. QED
    BY <1>2, <2>1, Cut
<1>4. a \in Seq(Tokens) /\ q \in Seq(Tokens)
  BY <1>3, ContentsAreTokens
<1>5. a[1] \in Contents /\ a = <<a[1]>>
  <2> HIDE <1>2
  <2>0. a \in Seq(Contents) /\ Len(a) = 1
    BY <1>3
  <2>1. a[1] \in Contents
    <3>1. 1 \in 1 .. Len(a)
      BY <2>0
    <3>2. \A i \in 1 .. Len(a) : a[i] \in Contents
      BY <2>0
    <3>3. QED
      BY <3>1, <3>2
  <2>2. PICK b : b = <<a[1]>>
    OBVIOUS
  <2>3. b \in Seq(Contents) /\ Len(b) = 1 /\ b[1] = a[1]
    BY <2>1, <2>2
  <2>4. \A i \in 1 .. Len(a) : a[i] = b[i]
    BY <1>3, <2>3
  <2>5. a = b
    BY <1>3, <2>3, <2>4, SeqEqual
  <2>6. QED
    BY <2>1, <2>2, <2>5
<1>6. BytesOf(a, TokenKinds) = Share(a[1], TokenKinds)
  BY <1>5, BytesOne DEF Contents
<1>7. Share(a[1], TokenKinds) \in Nat \ {0}
  BY <1>5 DEF Share, Contents, Tokens
<1>8. BytesOf(p, TokenKinds) = BytesOf(a, TokenKinds) + BytesOf(q, TokenKinds)
  BY <1>3, <1>4, BytesConcat
<1>9. BytesOf(q, TokenKinds) \in Nat
  BY <1>4, BytesNat
<1>10. QED
  BY <1>6, <1>7, <1>8, <1>9 DEF Bytes

LEMMA ClosedInserted ==
  ASSUME source \in Sources, NEW x, NEW low, Inserted(x, low)
  PROVE  LET y == CloseAutoIndex(x)
         IN /\ Inserted(y, low) /\ y.refused = x.refused /\ y.room = x.room
            /\ x.flow # "DONE_AUTO_INDEX" => y.flow # "DONE_AUTO_INDEX"
<1> DEFINE z == [x EXCEPT !.pushed = Append(@, IndexEnd), !.flow = "LAST_CHUNKED_AUTO"]
<1>1. CASE ~(x.flow = "END_TAG" /\ x.room - Bytes(x.pushed) - Reserved >= IndexEnd.bytes)
  BY <1>1 DEF CloseAutoIndex
<1>2. CASE x.flow = "END_TAG" /\ x.room - Bytes(x.pushed) - Reserved >= IndexEnd.bytes
  <2>1. x \in Cursors /\ x.pushed \in Seq(Contents) /\ x.pushed \in Seq(Tokens)
        /\ x.room \in Int /\ Bytes(x.pushed) \in Nat
    BY ContentsAreTokens, BytesNat DEF Inserted, Cursors, Bytes
  <2>2. IndexEnd \in Contents /\ IndexEnd \in Tokens /\ IndexEnd.kind = "end"
        /\ IndexEnd.bytes = 4
    BY TokensTyped DEF Contents, IndexEnd, Token
  <2>3. PICK q : q = Append(x.pushed, IndexEnd)
    OBVIOUS
  <2>4. q \in Seq(Contents)
    BY <2>1, <2>2, <2>3
  <2>5. Bytes(q) = Bytes(x.pushed) + 4
    BY <2>1, <2>2, <2>3, BytesAppend DEF Bytes, Share, TokenKinds, Content
  <2>6. RowsIn(q) = RowsIn(x.pushed) /\ Ascending(q)
    BY <2>1, <2>2, <2>3, RowsAppend DEF Inserted, Covers
  <2>7. /\ z \in Cursors /\ z.pushed = q /\ z.flow = "LAST_CHUNKED_AUTO"
        /\ z.at = x.at /\ z.ptr = x.ptr /\ z.refused = x.refused /\ z.room = x.room
    BY <2>1, <2>3, <2>4 DEF Cursors, Flows
  <2>8. CloseAutoIndex(x) = z
    BY <1>2 DEF CloseAutoIndex
  <2> HIDE DEF z
  <2>9. Bytes(q) + Reserved <= z.room
    BY <1>2, <2>1, <2>2, <2>5, <2>7 DEF Reserved
  <2>10. Low(z) = Low(x) /\ Waiting(z)
    BY <1>2, <2>7 DEF Low, Waiting, Inserted
  <2>11. Covers(z.pushed, z.refused, low, Low(z))
    BY <2>6, <2>7, <2>10 DEF Inserted, Covers
  <2>12. Inserted(z, low)
    BY <2>7, <2>9, <2>10, <2>11 DEF Inserted, Fits
  <2>13. QED
    BY <2>7, <2>8, <2>12
<1>3. QED
  BY <1>1, <1>2

\* What a call adds to the buffer.
Chunk(p) == IF p = <<>> THEN <<>> ELSE <<Token("size", Bytes(p), 6)>> \o p \o <<Crlf>>
LastPart(last) == IF last THEN <<LastChunk>> ELSE <<>>
Inserts(r, b, p, last) ==
  /\ r.buffer = b \o Chunk(p) \o LastPart(last)
  /\ p # <<>> => Bytes(b) + Bytes(p) + 8 <= SizeBuffer
  /\ last => Bytes(b) + (IF p = <<>> THEN 0 ELSE Bytes(p) + 8) + 5 <= SizeBuffer + 2
  /\ r.dir \in Dir /\ Waiting(r.dir) /\ r.dir.flow # "START"
  /\ last => r.dir.flow = "DONE_AUTO_INDEX"
  /\ dir.flow # "DONE_AUTO_INDEX" /\ r.dir.flow = "DONE_AUTO_INDEX" => last
  /\ dir.refused \subseteq r.dir.refused /\ Low(dir) <= Low(r.dir)
  /\ Covers(p, r.dir.refused, Low(dir), Low(r.dir))

LEMMA InsertOK ==
  ASSUME source \in Sources, dir \in Dir, Waiting(dir), NEW b \in Seq(Tokens),
         Bytes(b) <= SizeBuffer, dir.flow = "START" => Bytes(b) + 14 <= SizeBuffer
  PROVE  \E p \in Seq(Contents), last \in BOOLEAN :
           Inserts(InsertAutoDirective(b), b, p, last)
<1> DEFINE room == SizeBuffer - Bytes(b)
           y == Begun(Started(room))
           x == CloseAutoIndex(y)
           r == InsertAutoDirective(b)
<1>1. Bytes(b) \in Nat /\ SizeBuffer \in Nat
  BY BytesNat, Constants DEF Bytes
<1>2. room \in Int /\ (dir.flow = "START" => 14 <= room)
  BY <1>1
<1> HIDE DEF room
<1>3. Inserted(y, Low(dir)) /\ dir.refused \subseteq y.refused /\ y.room = room
  BY <1>2, BegunInserted
<1> HIDE DEF y
<1>4. Inserted(x, Low(dir)) /\ x.refused = y.refused /\ x.room = y.room
  BY <1>3, ClosedInserted
<1>5. PICK p, last : p = x.pushed /\ last = LastFits(x)
  OBVIOUS
<1>6. r = [buffer |-> b \o Chunk(p) \o LastPart(last),
           dir |-> [flow |-> IF last THEN "DONE_AUTO_INDEX" ELSE x.flow,
                    at |-> x.at, ptr |-> x.ptr, refused |-> x.refused]]
  BY <1>5 DEF InsertAutoDirective, Chunk, LastPart, Started, room, y
<1> HIDE DEF x, r
<1>7. x \in Cursors /\ p \in Seq(Contents) /\ last \in BOOLEAN
  BY <1>4, <1>5 DEF Inserted, Cursors, LastFits
<1>8. x.room = SizeBuffer - Bytes(b)
  BY <1>3, <1>4 DEF room
<1>9. p # <<>> => Bytes(b) + Bytes(p) + 8 <= SizeBuffer
  <2>1. Bytes(p) \in Nat
    BY <1>7, ContentsAreTokens, BytesNat DEF Bytes
  <2>2. p # <<>> => Bytes(p) + 8 <= x.room
    BY <1>4, <1>5 DEF Inserted, Fits, Reserved
  <2>3. QED
    BY <1>1, <1>8, <2>1, <2>2
<1>10. last => Bytes(b) + (IF p = <<>> THEN 0 ELSE Bytes(p) + 8) + 5 <= SizeBuffer + 2
  <2>1. p # <<>> => Bytes(p) \in Nat \ {0}
    BY <1>7, ContentBytes
  <2>2. p = <<>> => Bytes(p) = 0
    BY BytesEmpty DEF Bytes
  <2>3. last => x.room - (IF Bytes(p) > 0 THEN Bytes(p) + 6 ELSE 0) - 5 >= 0
    BY <1>5 DEF LastFits, LastChunk, Token
  <2>4. QED
    BY <1>1, <1>8, <2>1, <2>2, <2>3
<1>11. last => x.flow = "LAST_CHUNKED_AUTO"
  BY <1>5 DEF LastFits
<1> DEFINE d == r.dir
<1>12. /\ d.flow = (IF last THEN "DONE_AUTO_INDEX" ELSE x.flow) /\ d.at = x.at
       /\ d.ptr = x.ptr /\ d.refused = x.refused /\ d \in Dir
  BY <1>4, <1>6, <1>7 DEF Dir, Cursors, Flows, Inserted
<1> HIDE DEF d
<1>13. Low(d) = Low(x) /\ Waiting(d) /\ d.flow # "START"
  BY <1>4, <1>11, <1>12 DEF Low, Waiting, Inserted
<1>14. Covers(p, d.refused, Low(dir), Low(d)) /\ Low(dir) <= Low(d)
  BY <1>4, <1>5, <1>12, <1>13 DEF Inserted
<1>15. r.buffer = b \o Chunk(p) \o LastPart(last)
  BY <1>6
<1>16. dir.refused \subseteq d.refused
  BY <1>3, <1>4, <1>12
<1>17. last => d.flow = "DONE_AUTO_INDEX"
  BY <1>12
<1>20. dir.flow # "DONE_AUTO_INDEX" /\ d.flow = "DONE_AUTO_INDEX" => last
  <2>1. dir.flow # "DONE_AUTO_INDEX" => y.flow # "DONE_AUTO_INDEX"
    BY <1>2, BegunInserted DEF y
  <2>2. y.flow # "DONE_AUTO_INDEX" => x.flow # "DONE_AUTO_INDEX"
    BY <1>3, ClosedInserted DEF x
  <2>3. QED
    BY <1>12, <2>1, <2>2
<1>18. Inserts(r, b, p, last)
  BY <1>9, <1>10, <1>12, <1>13, <1>14, <1>15, <1>16, <1>17, <1>20 DEF Inserts, d
<1>19. QED
  BY <1>7, <1>18 DEF r

\* The bytes, the rows and the chunks of what is added.
LEMMA ChunkKeeps ==
  ASSUME NEW p \in Seq(Contents)
  PROVE  /\ Chunk(p) \in Seq(Tokens)
         /\ Bytes(Chunk(p)) = (IF p = <<>> THEN 0 ELSE Bytes(p) + 8)
         /\ RowsIn(Chunk(p)) = RowsIn(p)
         /\ Ascending(p) => Ascending(Chunk(p))
<1>1. p \in Seq(Tokens)
  BY ContentsAreTokens
<1>2. CASE p = <<>>
  BY <1>1, <1>2, BytesEmpty DEF Chunk, Bytes
<1>3. CASE p # <<>>
  <2> DEFINE a == Token("size", Bytes(p), 6)
  <2>1. Bytes(p) \in Nat
    BY <1>1, BytesNat DEF Bytes
  <2>2. a \in Tokens /\ a.kind = "size" /\ a.bytes = 6 /\ Crlf \in Tokens
        /\ Crlf.kind = "crlf" /\ Crlf.bytes = 2
    BY <2>1, TokensTyped DEF Token, Crlf
  <2> HIDE DEF a
  <2>3. PICK u : u = <<a>> \o p
    OBVIOUS
  <2>4. u \in Seq(Tokens) /\ <<a>> \in Seq(Tokens) /\ <<Crlf>> \in Seq(Tokens)
    BY <1>1, <2>2, <2>3
  <2>5. Chunk(p) = u \o <<Crlf>>
    BY <1>3, <2>3 DEF Chunk, a
  <2>6. Bytes(u) = 6 + Bytes(p)
    <3>1. BytesOf(<<a>> \o p, TokenKinds) = BytesOf(<<a>>, TokenKinds) + BytesOf(p, TokenKinds)
      BY <1>1, <2>4, BytesConcat
    <3>2. BytesOf(<<a>>, TokenKinds) = Share(a, TokenKinds)
      BY <2>2, BytesOne
    <3>3. Share(a, TokenKinds) = 6
      BY <2>2 DEF Share, TokenKinds
    <3>4. QED
      BY <2>3, <3>1, <3>2, <3>3 DEF Bytes
  <2>7. Bytes(Chunk(p)) = Bytes(u) + 2
    <3>1. BytesOf(u \o <<Crlf>>, TokenKinds) = BytesOf(u, TokenKinds) + BytesOf(<<Crlf>>, TokenKinds)
      BY <2>4, BytesConcat
    <3>2. BytesOf(<<Crlf>>, TokenKinds) = Share(Crlf, TokenKinds)
      BY <2>2, BytesOne
    <3>3. Share(Crlf, TokenKinds) = 2
      BY <2>2 DEF Share, TokenKinds
    <3>4. QED
      BY <2>5, <3>1, <3>2, <3>3 DEF Bytes
  <2>8. RowsIn(<<a>>) = {} /\ RowsIn(<<Crlf>>) = {} /\ Ascending(<<a>>) /\ Ascending(<<Crlf>>)
    BY <2>2, RowsOne
  <2>9. RowsIn(u) = RowsIn(p) /\ (Ascending(p) => Ascending(u))
    <3>1. /\ RowsIn(<<a>> \o p) = RowsIn(<<a>>) \cup RowsIn(p)
          /\ Ascending(<<a>>) /\ Ascending(p)
               /\ (\A i \in RowsIn(<<a>>), j \in RowsIn(p) : i < j) => Ascending(<<a>> \o p)
      BY <1>1, <2>4, RowsConcat
    <3>2. QED
      BY <2>3, <2>8, <3>1
  <2>10. RowsIn(Chunk(p)) = RowsIn(u) /\ (Ascending(u) => Ascending(Chunk(p)))
    <3>1. /\ RowsIn(u \o <<Crlf>>) = RowsIn(u) \cup RowsIn(<<Crlf>>)
          /\ Ascending(u) /\ Ascending(<<Crlf>>)
               /\ (\A i \in RowsIn(u), j \in RowsIn(<<Crlf>>) : i < j) => Ascending(u \o <<Crlf>>)
      BY <2>4, RowsConcat
    <3>2. QED
      BY <2>5, <2>8, <3>1
  <2>11. Chunk(p) \in Seq(Tokens)
    BY <2>4, <2>5
  <2>12. QED
    BY <1>3, <2>1, <2>6, <2>7, <2>9, <2>10, <2>11
<1>4. QED
  BY <1>2, <1>3

-----------------------------------------------------------------------------
(***************************************************************************)
(* The inductive invariant.                                                *)
(***************************************************************************)
Typed ==
  /\ TypeOK
  /\ parser \in Parser /\ dir \in Dir
  /\ buffer \in Seq(Tokens) /\ wire \in Seq(Tokens)

Answered ==
  /\ BodyOK(parser) /\ parser.found
  /\ verdict.kind = "answer" /\ verdict.chunked = parser.chunk
  /\ verdict.body = BodyOf(parser)

\* Which source, and which of its results, each state and place is for.
Stages ==
  /\ state = "CGI_RUNING" => source.kind = "cgi" /\ BodyOK(parser)
  /\ state = "CGI_END" => source.kind = "cgi" /\ Answered
  /\ state = "START_RESPOND" => source.kind # "cgi"
  /\ state \in {"CGI_RUNING", "CGI_END", "START_RESPOND", "ELSEWHERE"} => place = "NONE"
  /\ state \in {"RESPOND_MODE", "LAST_CHUNKED", "AUTO_INDEX_DONE", "BEGIN"} => place # "NONE"
  /\ place = "NONE" => buffer = <<>> /\ wire = <<>> /\ offset = 0 /\ limit = 0
  /\ place = "RAM" => source.kind = "cgi" /\ Answered /\ ~parser.chunk
  /\ place = "DISK" => source.kind = "file" \/ (source.kind = "cgi" /\ Answered)
  /\ place # "AUTO_INDEX" => dir = NewDir

Framing ==
  /\ Framed(Out)
  /\ state = "RESPOND_MODE" => Open(Out)

Sizes ==
  /\ BufferFits
  /\ state = "RESPOND_MODE" /\ place = "AUTO_INDEX" /\ dir.flow = "START" =>
       Bytes(buffer) <= HeadSize

Listings == Waiting(dir) /\ Covers(Out, dir.refused, 0, Low(dir))

Memory == IF BodySize > 0 THEN <<HeadToken, Run(1, BodySize)>> ELSE <<HeadToken>>

Delivering ==
  /\ state = "BEGIN" /\ place # "AUTO_INDEX" => buffer = <<>>
  /\ place = "RAM" /\ state \in {"RESPOND_MODE", "BEGIN"} => Out = Memory
  /\ place = "DISK" /\ state \in {"RESPOND_MODE", "LAST_CHUNKED", "BEGIN"} =>
       /\ Carried(Out) = offset /\ offset + limit = BodySize /\ Contiguous(Out)
       /\ state = "RESPOND_MODE" /\ offset = 0 => Out = <<HeadToken>>
       /\ state # "RESPOND_MODE" => Out # <<>> /\ Out[Len(Out)] = LastChunk /\ limit = 0
  /\ place = "AUTO_INDEX" /\ state = "RESPOND_MODE" => dir.flow # "DONE_AUTO_INDEX"
  /\ place = "AUTO_INDEX" /\ state = "BEGIN" =>
       dir.flow = "DONE_AUTO_INDEX" /\ Out # <<>> /\ Out[Len(Out)] = LastChunk

IInv == Typed /\ Stages /\ Framing /\ Sizes /\ Listings /\ Delivering

-----------------------------------------------------------------------------
LEMMA PrefixOfConcat ==
  ASSUME NEW S, NEW s \in Seq(S), NEW t \in Seq(S), NEW n \in 0 .. Len(s)
  PROVE  SubSeq(s \o t, 1, n) = SubSeq(s, 1, n)
<1>1. Len(s) \in Nat
  OBVIOUS
<1>2. CASE n = 0
  <2>1. SubSeq(s \o t, 1, n) = <<>> /\ SubSeq(s, 1, n) = <<>>
    BY <1>2, SubSeqEmpty
  <2>2. QED
    BY <2>1
<1>3. CASE n # 0
  <2>1. 1 \in 1 .. Len(s) /\ n \in 1 .. Len(s)
    BY <1>1, <1>3
  <2>2. QED
    BY <2>1, SubSeqOfConcat1
<1>4. QED
  BY <1>2, <1>3

LEMMA ContiguousOne ==
  ASSUME NEW s \in Seq(Tokens), Contiguous(s), NEW t \in Tokens,
         t.kind = "octets" => t.n = 1 + Carried(s)
  PROVE  /\ Contiguous(s \o <<t>>)
         /\ Carried(s \o <<t>>) = Carried(s) + Share(t, {"octets"})
<1>1. PICK one, u : one = <<t>> /\ u = s \o one
  OBVIOUS
<1>2. one \in Seq(Tokens) /\ Len(one) = 1 /\ one[1] = t
  BY <1>1
<1>3. /\ u \in Seq(Tokens) /\ Len(u) = Len(s) + 1 /\ Len(s) \in Nat
      /\ \A i \in 1 .. Len(s) + 1 : u[i] = IF i <= Len(s) THEN s[i] ELSE one[i - Len(s)]
  BY <1>1, <1>2, ConcatProperties
<1>4. ASSUME NEW i \in DOMAIN u, u[i].kind = "octets"
      PROVE  u[i].n = 1 + Carried(SubSeq(u, 1, i - 1))
  <2>1. i \in 1 .. Len(s) + 1 /\ i - 1 \in 0 .. Len(s)
    BY <1>3
  <2>2. SubSeq(u, 1, i - 1) = SubSeq(s, 1, i - 1)
    BY <1>1, <1>2, <2>1, PrefixOfConcat
  <2>3. CASE i <= Len(s)
    <3>1. i \in DOMAIN s /\ u[i] = s[i]
      BY <1>3, <2>1, <2>3
    <3>2. QED
      BY <1>4, <2>2, <3>1 DEF Contiguous
  <2>4. CASE i = Len(s) + 1
    <3>1. u[i] = t
      BY <1>2, <1>3, <2>1, <2>4
    <3>2. SubSeq(s, 1, i - 1) = s
      BY <1>3, <2>4, SubSeqFull
    <3>3. QED
      BY <1>4, <2>2, <3>1, <3>2
  <2>5. QED
    BY <1>3, <2>1, <2>3, <2>4
<1>5. Contiguous(u)
  BY <1>4 DEF Contiguous
<1>6. Carried(u) = Carried(s) + Share(t, {"octets"})
  <2>1. BytesOf(s \o one, {"octets"}) = BytesOf(s, {"octets"}) + BytesOf(one, {"octets"})
    BY <1>2, BytesConcat
  <2>2. BytesOf(one, {"octets"}) = Share(t, {"octets"})
    BY <1>1, BytesOne
  <2>3. QED
    BY <1>1, <2>1, <2>2 DEF Carried
<1>7. QED
  BY <1>1, <1>5, <1>6

\* A chunk of the file after what was sent of it.
Part(s, n) == <<SizeLine(n), Run(Carried(s) + 1, n), Crlf>>

LEMMA PartIs ==
  ASSUME NEW s \in Seq(Tokens), NEW n \in Nat \ {0}
  PROVE  /\ Part(s, n) \in Seq(Tokens)
         /\ Bytes(Part(s, n)) <= n + 8
         /\ Framed(s) /\ Open(s) => Framed(s \o Part(s, n)) /\ Open(s \o Part(s, n))
         /\ Contiguous(s) => /\ Contiguous(s \o Part(s, n))
                             /\ Carried(s \o Part(s, n)) = Carried(s) + n
         /\ RowsIn(Part(s, n)) = {} /\ Ascending(Part(s, n))
<1> DEFINE kinds == {"octets"}
<1>1. PICK a, r, c : a = SizeLine(n) /\ r = Run(Carried(s) + 1, n) /\ c = Crlf
  OBVIOUS
<1>2. Carried(s) \in Nat
  BY BytesNat DEF Carried
<1>3. /\ a \in Tokens /\ a.kind = "size" /\ a.n = n /\ a.bytes <= 6 /\ a.bytes \in Nat
  <2>1. a \in Tokens /\ a.kind = "size" /\ a.n = n /\ a.bytes <= 6
    BY <1>1, TokensTyped
  <2>2. QED
    BY <2>1 DEF Tokens
<1>4. /\ r \in Contents /\ r \in Tokens /\ r.kind = "octets" /\ r.n = Carried(s) + 1
      /\ r.bytes = n
  <2>1. Carried(s) + 1 \in Nat
    BY <1>2
  <2>2. r \in Contents
    BY <1>1, <2>1, TokensTyped
  <2>3. QED
    BY <1>1, <2>2 DEF Contents, Run, Token
<1>5. c \in Tokens /\ c.kind = "crlf" /\ c.bytes = 2
  BY <1>1, TokensTyped DEF Crlf, Token
<1>6. PICK A, R, C : A = <<a>> /\ R = <<r>> /\ C = <<c>>
  OBVIOUS
<1>7. /\ A \in Seq(Tokens) /\ R \in Seq(Tokens) /\ C \in Seq(Tokens)
      /\ R \in Seq(Contents) /\ R # <<>>
  BY <1>3, <1>4, <1>5, <1>6
<1>8. Part(s, n) = A \o R \o C
  <2>1. PICK w, ar, arc : w = <<a, r, c>> /\ ar = A \o R /\ arc = ar \o C
    OBVIOUS
  <2>2. w \in Seq(Tokens) /\ Len(w) = 3 /\ w[1] = a /\ w[2] = r /\ w[3] = c
    BY <1>3, <1>4, <1>5, <2>1
  <2>3. /\ Len(A) = 1 /\ Len(R) = 1 /\ Len(C) = 1
        /\ A[1] = a /\ R[1] = r /\ C[1] = c
    BY <1>6
  <2>4. ar \in Seq(Tokens) /\ Len(ar) = 2 /\ ar[1] = a /\ ar[2] = r
    <3>1. /\ A \o R \in Seq(Tokens) /\ Len(A \o R) = Len(A) + Len(R)
          /\ \A i \in 1 .. Len(A) + Len(R) :
               (A \o R)[i] = IF i <= Len(A) THEN A[i] ELSE R[i - Len(A)]
      BY <1>7, ConcatProperties
    <3>2. QED
      BY <2>1, <2>3, <3>1
  <2>5. arc \in Seq(Tokens) /\ Len(arc) = 3 /\ arc[1] = a /\ arc[2] = r /\ arc[3] = c
    BY <1>7, <2>1, <2>3, <2>4
  <2>6. \A i \in 1 .. 3 : i = 1 \/ i = 2 \/ i = 3
    OBVIOUS
  <2>7. \A i \in 1 .. Len(w) : w[i] = arc[i]
    BY <2>2, <2>5, <2>6
  <2>8. w = arc
    BY <2>2, <2>5, <2>7, SeqEqual
  <2>9. QED
    BY <1>1, <2>1, <2>8 DEF Part
<1>9. PICK u, v : u = A \o R /\ v = u \o C
  OBVIOUS
<1>10. u \in Seq(Tokens) /\ v \in Seq(Tokens) /\ v = Part(s, n)
  BY <1>7, <1>8, <1>9
<1>11. /\ Share(a, TokenKinds) = a.bytes /\ Share(r, TokenKinds) = n /\ Share(c, TokenKinds) = 2
       /\ Share(a, kinds) = 0 /\ Share(r, kinds) = n /\ Share(c, kinds) = 0
  BY <1>3, <1>4, <1>5 DEF Share, TokenKinds, Content
<1>12. Bytes(v) = a.bytes + n + 2
  <2>1. BytesOf(u, TokenKinds) = BytesOf(A, TokenKinds) + BytesOf(R, TokenKinds)
    BY <1>7, <1>9, BytesConcat
  <2>2. BytesOf(u \o C, TokenKinds) = BytesOf(u, TokenKinds) + BytesOf(C, TokenKinds)
    BY <1>7, <1>10, BytesConcat
  <2>3. /\ BytesOf(A, TokenKinds) = Share(a, TokenKinds)
        /\ BytesOf(R, TokenKinds) = Share(r, TokenKinds)
        /\ BytesOf(C, TokenKinds) = Share(c, TokenKinds)
    BY <1>3, <1>4, <1>5, <1>6, BytesOne
  <2>4. QED
    BY <1>9, <1>11, <2>1, <2>2, <2>3 DEF Bytes
<1>13. s \o v = ((s \o A) \o R) \o C
  <2>1. (s \o A) \o R = s \o u
    BY <1>7, <1>9, ConcatAssociative
  <2>2. (s \o u) \o C = s \o (u \o C)
    <3>1. u \in Seq(Tokens) /\ C \in Seq(Tokens) /\ s \in Seq(Tokens)
      BY <1>7, <1>10
    <3>2. QED
      BY ONLY <3>1, ConcatAssociative
  <2>3. QED
    BY <1>9, <2>1, <2>2
<1>14. ASSUME Framed(s), Open(s)
       PROVE  Framed(s \o v) /\ Open(s \o v)
  <2>1. Bytes(R) = n
    BY <1>4, <1>6, <1>11, BytesOne DEF Bytes
  <2>2. a.n = Bytes(R)
    BY <1>3, <2>1
  <2>3. LET d == <<a>> \o R \o <<Crlf>> IN Framed(s \o d) /\ Open(s \o d)
    BY <1>3, <1>7, <1>14, <2>2, FramedChunk
  <2>4. QED
    BY <1>1, <1>6, <1>9, <2>3
<1>15. ASSUME Contiguous(s)
       PROVE  Contiguous(s \o v) /\ Carried(s \o v) = Carried(s) + n
  <2>1. PICK sa, sr : sa = s \o A /\ sr = sa \o R
    OBVIOUS
  <2>2. sa \in Seq(Tokens) /\ sr \in Seq(Tokens)
    BY <1>7, <2>1
  <2>3. Contiguous(sa) /\ Carried(sa) = Carried(s)
    <3>1. Contiguous(s \o <<a>>) /\ Carried(s \o <<a>>) = Carried(s) + Share(a, {"octets"})
      BY <1>3, <1>15, ContiguousOne
    <3>2. QED
      BY <1>2, <1>6, <1>11, <2>1, <3>1
  <2>4. Contiguous(sr) /\ Carried(sr) = Carried(s) + n
    <3>1. r.kind = "octets" => r.n = 1 + Carried(sa)
      BY <1>2, <1>4, <2>3
    <3>2. Contiguous(sa \o <<r>>) /\ Carried(sa \o <<r>>) = Carried(sa) + Share(r, {"octets"})
      BY <1>4, <2>2, <2>3, <3>1, ContiguousOne
    <3>3. QED
      BY <1>6, <1>11, <2>1, <2>3, <3>2
  <2>5. Contiguous(sr \o <<c>>) /\ Carried(sr \o <<c>>) = Carried(sr) + Share(c, {"octets"})
    BY <1>5, <2>2, <2>4, ContiguousOne
  <2>6. QED
    BY <1>2, <1>6, <1>11, <1>13, <2>1, <2>4, <2>5
<1>16. RowsIn(v) = {} /\ Ascending(v)
  <2>1. /\ RowsIn(A) = {} /\ RowsIn(R) = {} /\ RowsIn(C) = {}
        /\ Ascending(A) /\ Ascending(R) /\ Ascending(C)
    BY <1>3, <1>4, <1>5, <1>6, RowsOne
  <2>2. /\ RowsIn(A \o R) = RowsIn(A) \cup RowsIn(R)
        /\ Ascending(A) /\ Ascending(R)
             /\ (\A i \in RowsIn(A), j \in RowsIn(R) : i < j) => Ascending(A \o R)
    BY <1>7, RowsConcat
  <2>3. RowsIn(u) = {} /\ Ascending(u)
    BY <1>9, <2>1, <2>2
  <2>4. /\ RowsIn(u \o C) = RowsIn(u) \cup RowsIn(C)
        /\ Ascending(u) /\ Ascending(C)
             /\ (\A i \in RowsIn(u), j \in RowsIn(C) : i < j) => Ascending(u \o C)
    BY <1>7, <1>10, RowsConcat
  <2>5. QED
    BY <1>9, <2>1, <2>3, <2>4
<1>17. QED
  BY <1>3, <1>10, <1>12, <1>14, <1>15, <1>16

LEMMA LastIs ==
  ASSUME NEW s \in Seq(Tokens)
  PROVE  LET t == s \o <<LastChunk>>
         IN /\ <<LastChunk>> \in Seq(Tokens) /\ Bytes(<<LastChunk>>) = 5
            /\ RowsIn(<<LastChunk>>) = {} /\ Ascending(<<LastChunk>>)
            /\ t \in Seq(Tokens) /\ t # <<>> /\ t[Len(t)] = LastChunk
            /\ Contiguous(s) => Contiguous(t) /\ Carried(t) = Carried(s)
<1>1. LastChunk \in Tokens /\ LastChunk.kind = "last" /\ LastChunk.bytes = 5
  BY TokensTyped DEF LastChunk, Token
<1>2. PICK l, t : l = <<LastChunk>> /\ t = s \o l
  OBVIOUS
<1>3. l \in Seq(Tokens) /\ Len(l) = 1 /\ l[1] = LastChunk
  BY <1>1, <1>2
<1>4. /\ t \in Seq(Tokens) /\ Len(t) = Len(s) + 1 /\ Len(s) \in Nat
      /\ \A i \in 1 .. Len(s) + 1 : t[i] = IF i <= Len(s) THEN s[i] ELSE l[i - Len(s)]
  BY <1>2, <1>3, ConcatProperties
<1>5. t # <<>> /\ t[Len(t)] = LastChunk
  BY <1>3, <1>4
<1>6. Share(LastChunk, TokenKinds) = 5 /\ Share(LastChunk, {"octets"}) = 0
  BY <1>1 DEF Share, TokenKinds
<1>7. Bytes(l) = 5
  BY <1>1, <1>2, <1>6, BytesOne DEF Bytes
<1>8. RowsIn(l) = {} /\ Ascending(l)
  BY <1>1, <1>2, RowsOne
<1>9. ASSUME Contiguous(s) PROVE Contiguous(t) /\ Carried(t) = Carried(s)
  <2>1. /\ Contiguous(s \o <<LastChunk>>)
        /\ Carried(s \o <<LastChunk>>) = Carried(s) + Share(LastChunk, {"octets"})
    BY <1>1, <1>9, ContiguousOne
  <2>2. Carried(s) \in Nat
    BY BytesNat DEF Carried
  <2>3. QED
    BY <1>2, <1>6, <2>1, <2>2
<1>10. QED
  BY <1>2, <1>3, <1>4, <1>5, <1>7, <1>8, <1>9

LEMMA CoversConcat ==
  ASSUME NEW s \in Seq(Tokens), NEW c \in Seq(Tokens), NEW low \in Nat, NEW top \in Nat,
         low <= top, NEW old, NEW new, old \subseteq new,
         Covers(s, old, 0, low), Covers(c, new, low, top)
  PROVE  Covers(s \o c, new, 0, top)
<1>1. RowsIn(s) \subseteq 1 .. low /\ RowsIn(c) \subseteq low + 1 .. top
  BY DEF Covers
<1>2. \A a \in RowsIn(s), b \in RowsIn(c) : a < b
  BY <1>1
<1>3. RowsIn(s \o c) = RowsIn(s) \cup RowsIn(c) /\ Ascending(s \o c)
  BY <1>2, RowsConcat DEF Covers
<1>4. RowsIn(s \o c) \subseteq 1 .. top
  BY <1>1, <1>3
<1>5. \A r \in RowsIn(s \o c) : Hidden(source.entries[r]) => r - 1 \in new
  BY <1>3 DEF Covers
<1>6. ASSUME NEW k \in 1 .. top
      PROVE  Hidden(source.entries[k]) \/ k \in RowsIn(s \o c) \cup new
  <2>1. CASE k <= low
    <3>1. k \in 1 .. low
      BY <1>6, <2>1
    <3>2. Hidden(source.entries[k]) \/ k \in RowsIn(s) \cup old
      BY <3>1 DEF Covers
    <3>3. QED
      BY <1>3, <3>2
  <2>2. CASE k > low
    <3>1. k \in low + 1 .. top
      BY <1>6, <2>2
    <3>2. Hidden(source.entries[k]) \/ k \in RowsIn(c) \cup new
      BY <3>1 DEF Covers
    <3>3. QED
      BY <1>3, <3>2
  <2>3. QED
    BY <2>1, <2>2
<1>7. QED
  BY <1>3, <1>4, <1>5, <1>6 DEF Covers

\* Tokens that are not rows change nothing of a listing.
LEMMA CoversPlain ==
  ASSUME NEW s \in Seq(Tokens), NEW c \in Seq(Tokens), NEW low \in Nat, NEW old,
         Covers(s, old, 0, low), RowsIn(c) = {}, Ascending(c)
  PROVE  Covers(s \o c, old, 0, low)
<1>1. Covers(c, old, low, low)
  BY DEF Covers
<1>2. QED
  BY <1>1, CoversConcat

\* send(): what was sent and what is left are what was there.
LEMMA SendOK ==
  ASSUME wire \in Seq(Tokens), NEW b \in Seq(Tokens), NEW st, Send(st, b)
  PROVE  /\ wire' \in Seq(Tokens) /\ buffer' \in Seq(Tokens)
         /\ wire' \o buffer' = wire \o b
         /\ Bytes(buffer') <= Bytes(b)
         /\ buffer' # <<>> => b # <<>> /\ buffer'[Len(buffer')] = b[Len(b)]
         /\ state' = st \/ (state' = "BEGIN" /\ Ends(st, buffer'))
<1>1. PICK n \in 0 .. Len(b) :
        /\ wire' = wire \o SubSeq(b, 1, n)
        /\ buffer' = SubSeq(b, n + 1, Len(b))
        /\ state' = IF (n > 0 \/ b = <<>>) /\ Ends(st, SubSeq(b, n + 1, Len(b)))
                      THEN "BEGIN" ELSE st
  BY DEF Send, Sent
<1>2. PICK h, t : h = SubSeq(b, 1, n) /\ t = SubSeq(b, n + 1, Len(b))
  OBVIOUS
<1>3. /\ h \in Seq(Tokens) /\ t \in Seq(Tokens) /\ b = h \o t /\ Len(t) = Len(b) - n
      /\ Len(h) = n
  BY <1>2, Cut
<1>4. wire' = wire \o h /\ buffer' = t
  BY <1>1, <1>2
<1>5. (wire \o h) \o t = wire \o (h \o t)
  <2>1. wire \in Seq(Tokens) /\ h \in Seq(Tokens) /\ t \in Seq(Tokens)
    BY <1>3
  <2>2. QED
    BY ONLY <2>1, ConcatAssociative
<1>6. Bytes(t) <= Bytes(b)
  <2>1. BytesOf(h \o t, TokenKinds) = BytesOf(h, TokenKinds) + BytesOf(t, TokenKinds)
    BY <1>3, BytesConcat
  <2>2. BytesOf(h, TokenKinds) \in Nat /\ BytesOf(t, TokenKinds) \in Nat
    BY <1>3, BytesNat
  <2>3. QED
    BY <1>3, <2>1, <2>2 DEF Bytes
<1>7. ASSUME t # <<>> PROVE b # <<>> /\ t[Len(t)] = b[Len(b)]
  <2>1. Len(t) \in Nat \ {0} /\ Len(b) = Len(h) + Len(t) /\ Len(h) \in Nat
    BY <1>3, <1>7
  <2>2. \A i \in 1 .. Len(h) + Len(t) : (h \o t)[i] = IF i <= Len(h) THEN h[i] ELSE t[i - Len(h)]
    BY <1>3, ConcatProperties
  <2>3. (h \o t)[Len(b)] = t[Len(t)]
    BY <2>1, <2>2
  <2>4. b # <<>>
    BY <2>1
  <2>5. QED
    BY <1>3, <2>3, <2>4
<1>8. wire \o h \in Seq(Tokens)
  BY <1>3
<1>9. state' = st \/ (state' = "BEGIN" /\ Ends(st, buffer'))
  BY <1>1 DEF Ends
<1>10. QED
  BY <1>3, <1>4, <1>5, <1>6, <1>7, <1>8, <1>9

\* The head of an answer, and a body in memory after it.
LEMMA MemoryIs ==
  ASSUME NEW n \in Nat
  PROVE  LET h == <<HeadToken>>
             t == IF n > 0 THEN <<HeadToken, Run(1, n)>> ELSE h
         IN /\ t \in Seq(Tokens) /\ Bytes(t) = HeadSize + n
            /\ Framed(t) /\ Open(t) /\ RowsIn(t) = {} /\ Ascending(t)
            /\ Contiguous(t) /\ Carried(t) = n
<1> DEFINE kinds == {"octets"}
<1>1. PICK h : h = <<HeadToken>>
  OBVIOUS
<1>2. /\ HeadToken \in Tokens /\ HeadToken.kind = "head" /\ HeadToken.bytes = HeadSize
      /\ HeadSize \in Nat
  BY TokensTyped, Constants DEF HeadToken, Token
<1>3. h \in Seq(Tokens) /\ Len(h) = 1 /\ h[1] = HeadToken
  BY <1>1, <1>2
<1>4. Bytes(h) = HeadSize
  <2>1. Share(HeadToken, TokenKinds) = HeadSize
    BY <1>2 DEF Share, TokenKinds
  <2>2. QED
    BY <1>1, <1>2, <2>1, BytesOne DEF Bytes
<1>5. Framed(h) /\ Open(h)
  BY <1>2, <1>3, FramedPlain
<1>6. RowsIn(h) = {} /\ Ascending(h)
  BY <1>1, <1>2, RowsOne
<1>7. Contiguous(h) /\ Carried(h) = 0
  <2>1. Share(HeadToken, kinds) = 0
    BY <1>2 DEF Share
  <2>2. BytesOf(h, kinds) = 0
    BY <1>1, <1>2, <2>1, BytesOne
  <2>3. \A i \in DOMAIN h : h[i].kind # "octets"
    BY <1>2, <1>3
  <2>4. QED
    BY <2>2, <2>3 DEF Contiguous, Carried
<1>8. CASE n = 0
  BY <1>1, <1>2, <1>3, <1>4, <1>5, <1>6, <1>7, <1>8
<1>9. CASE n > 0
  <2> DEFINE r == Run(1, n)
  <2>1. PICK t : t = <<HeadToken, r>>
    OBVIOUS
  <2>2. /\ r \in Tokens /\ r.kind = "octets" /\ r.n = 1 /\ r.bytes = n
    <3>1. r \in Contents
      BY <1>9, TokensTyped
    <3>2. QED
      BY <3>1 DEF Contents, Run, Token
  <2> HIDE DEF r
  <2>3. t \in Seq(Tokens) /\ Len(t) = 2 /\ t[1] = HeadToken /\ t[2] = r
    BY <1>2, <2>1, <2>2
  <2>4. t = h \o <<r>>
    <3>1. PICK q, u : q = <<r>> /\ u = h \o q
      OBVIOUS
    <3>2. q \in Seq(Tokens) /\ Len(q) = 1 /\ q[1] = r
      BY <2>2, <3>1
    <3>3. /\ h \o q \in Seq(Tokens) /\ Len(h \o q) = Len(h) + Len(q)
          /\ \A i \in 1 .. Len(h) + Len(q) :
               (h \o q)[i] = IF i <= Len(h) THEN h[i] ELSE q[i - Len(h)]
      BY <1>3, <3>2, ConcatProperties
    <3>4. \A i \in 1 .. 2 : i = 1 \/ i = 2
      OBVIOUS
    <3>5. u \in Seq(Tokens) /\ Len(u) = 2 /\ u[1] = HeadToken /\ u[2] = r
      BY <1>3, <3>1, <3>2, <3>3
    <3>6. \A i \in 1 .. Len(t) : t[i] = u[i]
      BY <2>3, <3>4, <3>5
    <3>7. t = u
      BY <2>3, <3>5, <3>6, SeqEqual
    <3>8. QED
      BY <3>1, <3>7
  <2>5. <<r>> \in Seq(Tokens)
    BY <2>2
  <2>6. Bytes(t) = HeadSize + n
    <3>1. BytesOf(h \o <<r>>, TokenKinds) = BytesOf(h, TokenKinds) + BytesOf(<<r>>, TokenKinds)
      BY <1>3, <2>5, BytesConcat
    <3>2. Share(r, TokenKinds) = n
      BY <2>2 DEF Share, TokenKinds, Content
    <3>3. BytesOf(<<r>>, TokenKinds) = n
      BY <2>2, <3>2, BytesOne
    <3>4. QED
      BY <1>4, <2>4, <3>1, <3>3 DEF Bytes
  <2>7. Framed(t) /\ Open(t)
    <3>1. \A i \in DOMAIN t : i = 1 \/ i = 2
      BY <2>3
    <3>2. \A i \in DOMAIN t : t[i].kind \notin {"size", "last"}
      BY <1>2, <2>2, <2>3, <3>1
    <3>3. QED
      BY <2>3, <3>2, FramedPlain
  <2>8. RowsIn(t) = {} /\ Ascending(t)
    <3>1. RowsIn(<<r>>) = {} /\ Ascending(<<r>>)
      BY <2>2, RowsOne
    <3>2. /\ RowsIn(h \o <<r>>) = RowsIn(h) \cup RowsIn(<<r>>)
          /\ Ascending(h) /\ Ascending(<<r>>)
               /\ (\A i \in RowsIn(h), j \in RowsIn(<<r>>) : i < j) => Ascending(h \o <<r>>)
      BY <1>3, <2>5, RowsConcat
    <3>3. QED
      BY <1>6, <2>4, <3>1, <3>2
  <2>9. Contiguous(t) /\ Carried(t) = n
    <3>1. r.kind = "octets" => r.n = 1 + Carried(h)
      BY <1>7, <2>2
    <3>2. Contiguous(h \o <<r>>) /\ Carried(h \o <<r>>) = Carried(h) + Share(r, {"octets"})
      BY <1>3, <1>7, <2>2, <3>1, ContiguousOne
    <3>3. Share(r, {"octets"}) = n
      BY <2>2 DEF Share
    <3>4. QED
      BY <1>7, <2>4, <3>2, <3>3
  <2>10. QED
    BY <1>9, <2>1, <2>3, <2>6, <2>7, <2>8, <2>9 DEF r
<1>10. QED
  BY <1>8, <1>9

LEMMA OpenFits ==
  ASSUME Typed, Framing, Sizes, state = "RESPOND_MODE"
  PROVE  Open(Out) /\ Open(buffer) /\ Bytes(buffer) <= SizeBuffer
<1>1. Open(Out) /\ wire \in Seq(Tokens) /\ buffer \in Seq(Tokens)
  BY DEF Framing, Typed
<1>2. /\ Len(Out) = Len(wire) + Len(buffer) /\ Out \in Seq(Tokens)
      /\ \A i \in 1 .. Len(wire) + Len(buffer) :
           Out[i] = IF i <= Len(wire) THEN wire[i] ELSE buffer[i - Len(wire)]
  BY <1>1, ConcatProperties DEF Out
<1>3. ASSUME NEW i \in DOMAIN buffer PROVE buffer[i].kind # "last"
  <2>1. Len(wire) \in Nat /\ Len(buffer) \in Nat /\ i \in 1 .. Len(buffer)
    BY <1>1
  <2>2. /\ Len(wire) + i \in 1 .. Len(wire) + Len(buffer) /\ ~(Len(wire) + i <= Len(wire))
        /\ Len(wire) + i - Len(wire) = i
    BY <2>1
  <2>3. Out[Len(wire) + i] = buffer[i]
    BY <1>2, <2>2
  <2>4. Len(wire) + i \in DOMAIN Out
    BY <1>2, <2>1, <2>2
  <2>5. QED
    BY <1>1, <2>3, <2>4 DEF Open
<1>4. LastChunk \notin Range(buffer)
  BY <1>3 DEF Range, LastChunk, Token
<1>5. Bytes(buffer) <= SizeBuffer
  <2>1. SizeBuffer \in Nat /\ Bytes(buffer) \in Nat
    BY <1>1, Constants, BytesNat DEF Bytes
  <2>2. QED
    BY <1>4, <2>1 DEF Sizes, BufferFits
<1>6. QED
  BY <1>1, <1>3, <1>5 DEF Open

LEMMA BodySizeNat ==
  ASSUME Typed, Stages, place \in {"RAM", "DISK"} \/ state = "CGI_END" \/ state = "START_RESPOND"
  PROVE  BodySize \in Nat
<1>1. source \in Sources
  BY DEF Typed, TypeOK
<1>2. source.size \in Nat
  BY <1>1, RelayAssumption DEF IsSource
<1>3. source.kind = "cgi" => parser.bytes \in Nat
  BY DEF Stages, Answered, BodyOK
<1>4. QED
  BY <1>2, <1>3 DEF BodySize

LEMMA InitInv == Init => IInv
<1> SUFFICES ASSUME Init PROVE IInv
  OBVIOUS
<1>1. Typed
  <2>1. /\ source \in Sources /\ state \in States /\ place \in Places
        /\ read \in Nat /\ limit \in Nat /\ offset \in Nat
    BY DEF Init, States, Places
  <2>2. verdict.kind = "none"
    BY DEF Init, Nothing
  <2>3. parser \in Parser
    BY NewParserTyped DEF Init
  <2>4. dir \in Dir
    BY DEF Init, NewDir, Dir, Flows
  <2>5. buffer \in Seq(Tokens) /\ wire \in Seq(Tokens)
    BY EmptySequence DEF Init
  <2>6. QED
    BY <2>1, <2>2, <2>3, <2>4, <2>5 DEF Typed, TypeOK
<1>2. Stages
  <2>1. BodyOK(NewParser)
    <3>1. NewParser.bytes = 0 /\ NewParser.chunk = FALSE /\ BodyOf(NewParser) = <<>>
      BY DEF NewParser, BodyOf
    <3>2. Len(<<>>) = 0
      OBVIOUS
    <3>3. QED
      BY <3>1, <3>2, Constants DEF BodyOK
  <2>2. QED
    BY <2>1 DEF Init, Stages
<1>3. Out = <<>>
  BY ConcatEmptySeq, EmptySequence DEF Init, Out
<1>4. Framing
  BY <1>3 DEF Framing, Framed, Open
<1>5. Sizes
  BY BytesEmpty, Constants DEF Init, Sizes, BufferFits, Bytes
<1>6. Listings
  <2>1. Entries \in Nat
    BY <1>1, EntriesTyped DEF Typed, TypeOK
  <2>2. Waiting(dir) /\ Low(dir) = 0 /\ dir.refused = {}
    BY <2>1 DEF Init, NewDir, Waiting, Low
  <2>3. Covers(<<>>, dir.refused, 0, 0)
    BY CoversNothing
  <2>4. QED
    BY <1>3, <2>2, <2>3 DEF Listings
<1>7. Delivering
  BY DEF Init, Delivering
<1>8. QED
  BY <1>1, <1>2, <1>4, <1>5, <1>6, <1>7 DEF IInv

\* Steps that send nothing and put nothing in the buffer.
LEMMA QuietKeeps ==
  ASSUME IInv, UNCHANGED <<source, sending>>,
         state' \notin {"RESPOND_MODE", "LAST_CHUNKED", "BEGIN"}
  PROVE  Framing' /\ Sizes' /\ Listings' /\ Delivering'
<1>1. UNCHANGED <<source, place, buffer, limit, offset, dir, wire>>
  BY DEF sending
<1>2. UNCHANGED Out
  BY <1>1 DEF Out
<1>3. Framing'
  BY <1>2 DEF IInv, Framing
<1>4. Sizes'
  BY <1>1 DEF IInv, Sizes, BufferFits
<1>5. Listings'
  BY <1>1, <1>2 DEF IInv, Listings, Waiting, Covers, Low, Entries
<1>6. Delivering'
  BY DEF Delivering
<1>7. QED
  BY <1>3, <1>4, <1>5, <1>6

LEMMA PieceTyped ==
  ASSUME source \in Sources, NEW i \in Nat, NEW j \in Nat, j <= Len(source.output)
  PROVE  SubSeq(source.output, i + 1, j) \in Seq(Elements)
<1>1. source.output \in Seq(Range(source.output))
  BY RelayAssumption DEF IsSource
<1>2. Range(source.output) \subseteq Elements
  BY DEF Elements
<1>3. source.output \in Seq(Elements)
  BY <1>1, <1>2, SeqMonotonic
<1>4. QED
  BY <1>3

LEMMA CgiKeeps ==
  ASSUME IInv, ReadPiece \/ EndOfOutput \/ EndBadly
  PROVE  IInv'
<1>1. /\ Typed /\ Stages /\ source \in Sources /\ state = "CGI_RUNING"
      /\ place = "NONE" /\ source.kind = "cgi" /\ BodyOK(parser) /\ parser \in Parser
      /\ read \in Nat
  BY DEF IInv, Typed, TypeOK, Stages, ReadPiece, EndOfOutput, EndBadly
<1>2. /\ UNCHANGED <<source, sending>>
      /\ UNCHANGED <<place, buffer, limit, offset, dir, wire>>
  BY DEF ReadPiece, EndOfOutput, EndBadly, sending
<1>3. /\ parser' \in Parser /\ read' \in Nat
      /\ verdict'.kind \in {"none", "error", "redirect", "answer"}
      /\ \/ state' = "CGI_RUNING" /\ BodyOK(parser')
         \/ state' = "ELSEWHERE"
         \/ state' = "CGI_END" /\ Answered'
  <2>1. CASE ReadPiece
    <3>1. PICK n \in 1 .. MaxPiece, stale \in 0 .. 2, disk \in BOOLEAN :
            /\ read + n <= Len(source.output)
            /\ read' = read + n
            /\ LET p == ReceivingData(parser, SubSeq(source.output, read + 1, read + n),
                                      stale, disk)
               IN /\ parser' = p
                  /\ IF Failed(p) THEN Conclude(Error(p.status))
                     ELSE UNCHANGED <<verdict, state>>
      BY <2>1 DEF ReadPiece
    <3>2. n \in Nat /\ read + n \in Nat
      BY <1>1, Constants
    <3>3. PICK piece : piece = SubSeq(source.output, read + 1, read + n)
      OBVIOUS
    <3>4. piece \in Seq(Elements)
      BY <1>1, <3>1, <3>2, <3>3, PieceTyped
    <3>5. PICK p : p = ReceivingData(parser, piece, stale, disk)
      OBVIOUS
    <3>6. p \in Parser /\ (~Failed(p) => BodyOK(p))
      BY <1>1, <3>4, <3>5, ReceivedTyped
    <3>7. /\ parser' = p
          /\ IF Failed(p) THEN Conclude(Error(p.status)) ELSE UNCHANGED <<verdict, state>>
      BY <3>1, <3>3, <3>5
    <3>8. CASE Failed(p)
      <4>1. verdict'.kind = "error" /\ state' = "ELSEWHERE"
        BY <3>7, <3>8 DEF Conclude, Error, Nothing
      <4>2. QED
        BY <3>1, <3>2, <3>6, <3>7, <4>1
    <3>9. CASE ~Failed(p)
      <4>1. verdict' = verdict /\ state' = "CGI_RUNING"
        BY <1>1, <3>7, <3>9
      <4>2. verdict'.kind \in {"none", "error", "redirect", "answer"}
        BY <1>1, <4>1 DEF Typed, TypeOK
      <4>3. QED
        BY <3>1, <3>2, <3>6, <3>7, <3>9, <4>1, <4>2
    <3>10. QED
      BY <3>8, <3>9
  <2>2. CASE EndOfOutput
    <3>1. PICK stale \in 0 .. 2, disk \in BOOLEAN :
            LET p == ReceivingData(parser, <<>>, stale, disk)
            IN parser' = [p EXCEPT !.open = FALSE] /\ Conclude(Concluded(p))
      BY <2>2 DEF EndOfOutput
    <3>2. PICK p : p = ReceivingData(parser, <<>>, stale, disk)
      OBVIOUS
    <3>3. <<>> \in Seq(Elements)
      BY EmptySequence
    <3>4. p \in Parser /\ (~Failed(p) => BodyOK(p))
      BY <1>1, <3>2, <3>3, ReceivedTyped
    <3>5. parser' = [p EXCEPT !.open = FALSE] /\ Conclude(Concluded(p))
      BY <3>1, <3>2
    <3>6. PICK v : v = Concluded(p)
      OBVIOUS
    <3>7. /\ v.kind \in {"error", "redirect", "answer"}
          /\ v.kind = "answer" => /\ ~Failed(p) /\ p.found
                                  /\ v.chunked = p.chunk /\ v.body = BodyOf(p)
      BY <3>6, ConcludedIs
    <3>8. verdict' = v /\ state' = (IF v.kind = "answer" THEN "CGI_END" ELSE "ELSEWHERE")
      BY <3>5, <3>6 DEF Conclude
    <3>9. /\ parser' \in Parser /\ parser'.bytes = p.bytes /\ parser'.chunk = p.chunk
          /\ parser'.found = p.found /\ parser'.file = p.file /\ parser'.memory = p.memory
      BY <3>4, <3>5 DEF Parser
    <3>10. read' = read
      BY <2>2 DEF EndOfOutput
    <3>11. v.kind = "answer" => Answered'
      <4>1. SUFFICES ASSUME v.kind = "answer" PROVE Answered'
        OBVIOUS
      <4>2. BodyOK(p) /\ p.found /\ v.chunked = p.chunk /\ v.body = BodyOf(p)
        BY <3>4, <3>7, <4>1
      <4>4. BodyOf(parser') = BodyOf(p)
        BY <3>9 DEF BodyOf
      <4>3. BodyOK(parser')
        BY <3>9, <4>2, <4>4 DEF BodyOK
      <4>5. QED
        BY <3>8, <3>9, <4>1, <4>2, <4>3, <4>4 DEF Answered
    <3>12. QED
      BY <1>1, <3>7, <3>8, <3>9, <3>10, <3>11
  <2>3. CASE EndBadly
    BY <1>1, <2>3 DEF EndBadly, Conclude, Error, Nothing
  <2>4. QED
    BY <1>1, <2>1, <2>2, <2>3
<1>4. Typed'
  BY <1>1, <1>2, <1>3 DEF Typed, TypeOK, States
<1>5. Stages'
  BY <1>1, <1>2, <1>3 DEF Stages
<1>6. Framing' /\ Sizes' /\ Listings' /\ Delivering'
  BY <1>2, <1>3, QuietKeeps
<1>7. QED
  BY <1>4, <1>5, <1>6 DEF IInv

LEMMA CloseKeeps == IInv /\ CloseConnection => IInv'
<1> SUFFICES ASSUME IInv, CloseConnection PROVE IInv'
  OBVIOUS
<1>1. /\ state' = "CONNECTION_CLOSED" /\ UNCHANGED <<source, read, parser, verdict, sending>>
      /\ UNCHANGED <<place, buffer, limit, offset, dir, wire>>
  BY DEF CloseConnection, sending
<1>2. Typed'
  BY <1>1 DEF IInv, Typed, TypeOK, States
<1>3. Stages'
  BY <1>1 DEF IInv, Stages, Answered
<1>4. Framing' /\ Sizes' /\ Listings' /\ Delivering'
  BY <1>1, QuietKeeps
<1>5. QED
  BY <1>2, <1>3, <1>4 DEF IInv

LEMMA AnswerKeeps ==
  ASSUME IInv, InitRespondBuffer
  PROVE  IInv'
<1>1. PICK where \in {"RAM", "DISK", "AUTO_INDEX"} :
        /\ StartAnswer(where)
        /\ where = "RAM" => source.kind = "cgi" /\ Answered /\ ~parser.chunk
        /\ where = "DISK" => source.kind = "file" \/ (source.kind = "cgi" /\ Answered)
        /\ state = "CGI_END" \/ state = "START_RESPOND"
  <2>1. CASE state = "CGI_END" /\ StartAnswer(IF verdict.chunked THEN "DISK" ELSE "RAM")
    <3>1. source.kind = "cgi" /\ Answered
      BY <2>1 DEF IInv, Stages
    <3>2. verdict.chunked = parser.chunk
      BY <3>1 DEF Answered
    <3>3. QED
      BY <2>1, <3>1, <3>2
  <2>2. CASE /\ state = "START_RESPOND"
             /\ StartAnswer(IF source.kind = "file" THEN "DISK" ELSE "AUTO_INDEX")
    BY <2>2
  <2>3. QED
    BY <2>1, <2>2 DEF InitRespondBuffer
<1>2. /\ source \in Sources /\ BodySize \in Nat /\ place = "NONE" /\ dir = NewDir
      /\ buffer = <<>> /\ wire = <<>> /\ offset = 0 /\ limit = 0 /\ parser \in Parser
      /\ verdict.kind \in {"none", "error", "redirect", "answer"} /\ read \in Nat
  BY <1>1, BodySizeNat DEF IInv, Typed, TypeOK, Stages
<1>3. /\ state' = "RESPOND_MODE" /\ place' = where
      /\ buffer' = (IF where = "RAM" /\ BodySize > 0
                      THEN <<HeadToken, Run(1, BodySize)>> ELSE <<HeadToken>>)
      /\ limit' = (IF where = "DISK" THEN BodySize ELSE limit)
      /\ UNCHANGED <<source, read, parser, verdict, offset, dir, wire>>
  BY <1>1 DEF StartAnswer
<1>4. PICK n : n = IF where = "RAM" THEN BodySize ELSE 0
  OBVIOUS
<1>5. n \in Nat
  BY <1>2, <1>4
<1>6. buffer' = IF n > 0 THEN <<HeadToken, Run(1, n)>> ELSE <<HeadToken>>
  BY <1>3, <1>4
<1>7. /\ buffer' \in Seq(Tokens) /\ Bytes(buffer') = HeadSize + n
      /\ Framed(buffer') /\ Open(buffer') /\ RowsIn(buffer') = {} /\ Ascending(buffer')
      /\ Contiguous(buffer') /\ Carried(buffer') = n
  BY <1>5, <1>6, MemoryIs
<1>8. Out' = buffer'
  <2>1. wire' = <<>>
    BY <1>2, <1>3
  <2>2. QED
    BY <1>7, <2>1, ConcatEmptySeq DEF Out
<1>9. BodySize' = BodySize
  BY <1>3 DEF BodySize
<1>10. Typed'
  BY <1>2, <1>3, <1>7 DEF IInv, Typed, TypeOK, States, Places
<1>11. Stages'
  <2>1. (where = "AUTO_INDEX" \/ where \in {"RAM", "DISK"}) /\ where # "NONE"
    BY <1>1
  <2>2. UNCHANGED <<parser, verdict, source, dir>>
    BY <1>3
  <2>3. Answered => Answered'
    BY <2>2 DEF Answered
  <2>4. QED
    BY <1>1, <1>2, <1>3, <2>1, <2>2, <2>3 DEF Stages
<1>12. Framing'
  BY <1>3, <1>7, <1>8 DEF Framing
<1>13. Sizes'
  <2>1. HeadSize + n <= SizeBuffer /\ SizeBuffer \in Nat /\ HeadSize \in Nat
    <3>1. where = "RAM" => n <= MaxBody
      BY <1>1, <1>4, Constants DEF Answered, BodyOK, BodySize
    <3>2. QED
      BY <1>4, <1>5, <3>1, Constants
  <2>2. Bytes(buffer') <= SizeBuffer
    BY <1>5, <1>7, <2>1
  <2>3. BufferFits'
    <3>1. Bytes(buffer') \in Nat
      BY <1>5, <1>7, <2>1
    <3>2. QED
      BY <2>1, <2>2, <3>1 DEF BufferFits
  <2>4. place' = "AUTO_INDEX" => Bytes(buffer') <= HeadSize
    BY <1>3, <1>4, <1>7, <2>1
  <2>5. QED
    BY <2>3, <2>4 DEF Sizes
<1>14. Listings'
  <2>1. dir' = NewDir /\ source' = source
    BY <1>2, <1>3
  <2>2. Entries \in Nat
    BY <1>2, EntriesTyped
  <2>3. Waiting(NewDir) /\ Low(NewDir) = 0 /\ NewDir.refused = {}
    BY <2>2 DEF NewDir, Waiting, Low
  <2>4. Waiting(dir)' /\ Low(dir)' = 0 /\ (dir.refused)' = {}
    BY <1>2, <2>1, <2>3 DEF Waiting, Low, Entries
  <2>5. RowsIn(Out') = {} /\ Ascending(Out')
    BY <1>7, <1>8
  <2>6. QED
    BY <2>4, <2>5 DEF Listings, Covers
<1>15. Delivering'
  <2>1. CASE where = "RAM"
    <3>1. Out' = Memory'
      BY <1>4, <1>6, <1>8, <1>9, <2>1 DEF Memory
    <3>2. QED
      BY <1>3, <2>1, <3>1 DEF Delivering
  <2>2. CASE where = "DISK"
    <3>1. n = 0 /\ limit' = BodySize /\ offset' = 0 /\ buffer' = <<HeadToken>>
      BY <1>2, <1>3, <1>4, <2>2
    <3>2. /\ Carried(Out)' = offset' /\ offset' + limit' = BodySize' /\ Contiguous(Out)'
          /\ Out' = <<HeadToken>>
      BY <1>2, <1>7, <1>8, <1>9, <3>1
    <3>3. QED
      BY <1>3, <2>2, <3>2 DEF Delivering
  <2>3. CASE where = "AUTO_INDEX"
    BY <1>2, <1>3, <2>3 DEF Delivering, NewDir
  <2>4. QED
    BY <1>1, <2>1, <2>2, <2>3
<1>16. QED
  BY <1>10, <1>11, <1>12, <1>13, <1>14, <1>15 DEF IInv

LEMMA MemoryKeeps ==
  ASSUME IInv, SendMemory
  PROVE  IInv'
<1>1. /\ state = "RESPOND_MODE" /\ place = "RAM" /\ place' = "RAM"
      /\ UNCHANGED <<source, read, parser, verdict, place, limit, offset, dir>>
      /\ Send("RESPOND_MODE", buffer)
  BY DEF SendMemory
<1>2. /\ wire' \in Seq(Tokens) /\ buffer' \in Seq(Tokens)
      /\ wire' \o buffer' = wire \o buffer
      /\ Bytes(buffer') <= Bytes(buffer)
      /\ state' = "RESPOND_MODE" \/ (state' = "BEGIN" /\ Ends("RESPOND_MODE", buffer'))
  BY <1>1, SendOK DEF IInv, Typed
<1>3. Out' = Out
  BY <1>2 DEF Out
<1>4. Typed'
  BY <1>1, <1>2 DEF IInv, Typed, TypeOK, States
<1>5. Stages'
  BY <1>1, <1>2 DEF IInv, Stages, Answered
<1>6. Framing'
  BY <1>1, <1>3 DEF IInv, Framing
<1>7. Sizes'
  <2>1. Bytes(buffer) <= SizeBuffer
    BY <1>1, OpenFits DEF IInv
  <2>2. Bytes(buffer) \in Nat /\ Bytes(buffer') \in Nat /\ SizeBuffer \in Nat
    BY <1>2, BytesNat, Constants DEF IInv, Typed, Bytes
  <2>3. BufferFits'
    BY <1>2, <2>1, <2>2 DEF BufferFits
  <2>4. QED
    BY <1>1, <2>3 DEF Sizes
<1>8. Listings'
  BY <1>1, <1>3 DEF IInv, Listings, Waiting, Low, Covers, Entries
<1>9. Delivering'
  <2>1. Out' = Memory'
    BY <1>1, <1>3 DEF IInv, Delivering, Memory, BodySize
  <2>2. state' = "BEGIN" => buffer' = <<>>
    BY <1>2 DEF Ends
  <2>3. QED
    BY <1>1, <2>1, <2>2 DEF Delivering
<1>10. QED
  BY <1>4, <1>5, <1>6, <1>7, <1>8, <1>9 DEF IInv

LEMMA OpenFailsKeeps ==
  ASSUME IInv, OpenFails
  PROVE  IInv'
<1>1. /\ state = "RESPOND_MODE" /\ place = "DISK" /\ offset = 0 /\ wire = <<>>
      /\ wire' = <<Token("bare", 500, 0)>> /\ state' = "CONNECTION_CLOSED"
      /\ UNCHANGED <<source, read, parser, verdict, place, buffer, limit, offset, dir>>
  BY DEF OpenFails
<1>2. buffer = <<HeadToken>>
  <2>1. Out = <<HeadToken>>
    BY <1>1 DEF IInv, Delivering
  <2>2. Out = buffer
    BY <1>1, ConcatEmptySeq DEF IInv, Typed, Out
  <2>3. QED
    BY <2>1, <2>2
<1> DEFINE t == Token("bare", 500, 0)
<1>3. t \in Tokens /\ t.kind = "bare"
  BY DEF Token, Tokens, TokenKinds
<1> HIDE DEF t
<1>4. HeadToken \in Tokens /\ HeadToken.kind = "head"
  BY TokensTyped DEF HeadToken, Token
<1>5. PICK u, v, o : u = <<t>> /\ v = <<HeadToken>> /\ o = u \o v
  OBVIOUS
<1>6. /\ u \in Seq(Tokens) /\ v \in Seq(Tokens) /\ Len(u) = 1 /\ Len(v) = 1
      /\ u[1] = t /\ v[1] = HeadToken
  BY <1>3, <1>4, <1>5
<1>7. /\ u \o v \in Seq(Tokens) /\ Len(u \o v) = Len(u) + Len(v)
      /\ \A i \in 1 .. Len(u) + Len(v) : (u \o v)[i] = IF i <= Len(u) THEN u[i] ELSE v[i - Len(u)]
  BY <1>6, ConcatProperties
<1>8. o \in Seq(Tokens) /\ Len(o) = 2 /\ o[1] = t /\ o[2] = HeadToken
  BY <1>5, <1>6, <1>7
<1>9. Framed(o) /\ Open(o)
  <2>1. \A i \in DOMAIN o : i = 1 \/ i = 2
    BY <1>8
  <2>2. \A i \in DOMAIN o : o[i].kind \notin {"size", "last"}
    BY <1>3, <1>4, <1>8, <2>1
  <2>3. QED
    BY <1>8, <2>2, FramedPlain
<1>10. Out' = o
  BY <1>1, <1>2, <1>5 DEF Out, t
<1>11. Typed'
  BY <1>1, <1>5, <1>6 DEF IInv, Typed, TypeOK, States, t
<1>12. Stages'
  BY <1>1 DEF IInv, Stages, Answered
<1>13. Framing'
  BY <1>1, <1>9, <1>10 DEF Framing
<1>14. Sizes'
  BY <1>1 DEF IInv, Sizes, BufferFits
<1>15. Listings'
  <2>1. \A i \in DOMAIN o : i = 1 \/ i = 2
    BY <1>8
  <2>2. \A i \in DOMAIN o : o[i].kind # "row"
    BY <1>3, <1>4, <1>8, <2>1
  <2>3. RowsIn(o) = {} /\ Ascending(o)
    BY <2>2 DEF RowsIn, Ascending
  <2>4. Waiting(dir)' /\ Low(dir)' = Low(dir) /\ (dir.refused)' = dir.refused
    BY <1>1 DEF IInv, Listings, Waiting, Low, Entries
  <2>5. Low(dir) = 0
    BY <1>1 DEF IInv, Stages, NewDir, Low
  <2>6. QED
    BY <1>10, <2>3, <2>4, <2>5 DEF Listings, Covers
<1>16. Delivering'
  BY <1>1 DEF Delivering
<1>17. QED
  BY <1>11, <1>12, <1>13, <1>14, <1>15, <1>16 DEF IInv

LEMMA FileKeeps ==
  ASSUME IInv, SendFile
  PROVE  IInv'
<1> DEFINE n == ChunkSize(buffer)
           last == limit = 0 /\ SizeBuffer - Bytes(buffer) > 10
           added == IF last THEN <<LastChunk>>
                    ELSE IF n = 0 THEN <<>>
                    ELSE <<SizeLine(n), Run(offset + 1, n), Crlf>>
           st == IF last THEN "LAST_CHUNKED" ELSE "RESPOND_MODE"
           b == buffer \o added
<1>1. /\ state = "RESPOND_MODE" /\ place = "DISK" /\ place' = "DISK"
      /\ UNCHANGED <<source, read, parser, verdict, place, dir>>
      /\ limit' = limit - n /\ offset' = offset + n /\ Send(st, b)
  BY DEF SendFile
<1>2. /\ wire \in Seq(Tokens) /\ buffer \in Seq(Tokens) /\ limit \in Nat /\ offset \in Nat
      /\ source \in Sources /\ parser \in Parser /\ read \in Nat /\ dir \in Dir
      /\ verdict.kind \in {"none", "error", "redirect", "answer"}
  BY DEF IInv, Typed, TypeOK
<1>3. Open(Out) /\ Framed(Out) /\ Bytes(buffer) <= SizeBuffer
  BY <1>1, OpenFits DEF IInv, Framing
<1>4. SizeBuffer \in Nat /\ Bytes(buffer) \in Nat
  BY <1>2, Constants, BytesNat DEF Bytes
<1>5. /\ n \in Nat /\ n <= limit /\ (n # 0 => n + 10 <= SizeBuffer - Bytes(buffer))
      /\ (last => n = 0)
  BY <1>2, <1>4 DEF ChunkSize
<1>6. /\ Carried(Out) = offset /\ offset + limit = BodySize /\ Contiguous(Out)
      /\ offset = 0 => Out = <<HeadToken>>
  BY <1>1 DEF IInv, Delivering
<1>7. Out \in Seq(Tokens)
  BY <1>2 DEF Out
<1>8. PICK o : o = Out
  OBVIOUS
<1>9. /\ added \in Seq(Tokens) /\ RowsIn(added) = {} /\ Ascending(added)
      /\ Bytes(buffer) + Bytes(added) <= SizeBuffer
      /\ Framed(o \o added) /\ (~last => Open(o \o added))
      /\ Contiguous(o \o added) /\ Carried(o \o added) = offset + n
      /\ last => /\ o \o added # <<>>
                 /\ (o \o added)[Len(o \o added)] = LastChunk
      /\ ~last /\ n = 0 => o \o added = o
  <2> HIDE DEF n
  <2>1. CASE last
    <3>1. PICK l : l = <<LastChunk>>
      OBVIOUS
    <3>2. added = l
      BY <2>1, <3>1
    <3>3. PICK t : t = o \o l
      OBVIOUS
    <3>4. /\ l \in Seq(Tokens) /\ Bytes(l) = 5
          /\ RowsIn(l) = {} /\ Ascending(l)
          /\ t \in Seq(Tokens) /\ t # <<>> /\ t[Len(t)] = LastChunk
          /\ Contiguous(o) => Contiguous(t) /\ Carried(t) = Carried(o)
      BY <1>7, <1>8, <3>1, <3>3, LastIs
    <3>5. Framed(t)
      BY <1>3, <1>7, <1>8, <3>1, <3>3, FramedLast
    <3>6. Carried(t) = offset + n
      BY <1>2, <1>5, <1>6, <1>8, <2>1, <3>4
    <3>7. Bytes(buffer) + 5 <= SizeBuffer
      BY <1>4, <2>1
    <3> HIDE DEF added, last
    <3>8. QED
      BY <1>6, <1>8, <2>1, <3>2, <3>3, <3>4, <3>5, <3>6, <3>7
  <2>2. CASE ~last /\ n = 0
    <3>1. added = <<>>
      BY <2>2
    <3>2. o \o <<>> = o
      BY <1>7, <1>8, ConcatEmptySeq
    <3>3. Bytes(<<>>) = 0
      BY BytesEmpty DEF Bytes
    <3>4. RowsIn(<<>>) = {} /\ Ascending(<<>>)
      BY DEF RowsIn, Ascending
    <3>5. <<>> \in Seq(Tokens)
      BY EmptySequence
    <3>6. Carried(o) = offset + n
      BY <1>2, <1>6, <1>8, <2>2
    <3>7. Bytes(buffer) + 0 <= SizeBuffer
      BY <1>3, <1>4
    <3> HIDE DEF added, last
    <3>8. QED
      BY <1>3, <1>6, <1>8, <2>2, <3>1, <3>2, <3>3, <3>4, <3>5, <3>6, <3>7
  <2>3. CASE ~last /\ n # 0
    <3>1. PICK q : q = Part(o, n)
      OBVIOUS
    <3>2. added = q
      BY <1>6, <1>8, <2>3, <3>1 DEF Part
    <3>3. /\ q \in Seq(Tokens) /\ Bytes(q) <= n + 8
          /\ Framed(o) /\ Open(o) => Framed(o \o q) /\ Open(o \o q)
          /\ Contiguous(o) => Contiguous(o \o q) /\ Carried(o \o q) = Carried(o) + n
          /\ RowsIn(q) = {} /\ Ascending(q)
      BY <1>5, <1>7, <1>8, <2>3, <3>1, PartIs
    <3>4. Bytes(q) \in Nat
      BY <3>3, BytesNat DEF Bytes
    <3>5. Bytes(buffer) + Bytes(q) <= SizeBuffer
      BY <1>4, <1>5, <2>3, <3>3, <3>4
    <3> HIDE DEF added, last
    <3>6. QED
      BY <1>3, <1>6, <1>8, <2>3, <3>2, <3>3, <3>5
  <2>4. QED
    BY <2>1, <2>2, <2>3
<1> HIDE DEF n, added
<1>10. b \in Seq(Tokens) /\ Bytes(b) <= SizeBuffer
  <2>1. b \in Seq(Tokens)
    BY <1>2, <1>9
  <2>2. BytesOf(buffer \o added, TokenKinds) = BytesOf(buffer, TokenKinds) + BytesOf(added, TokenKinds)
    BY <1>2, <1>9, BytesConcat
  <2>3. QED
    BY <1>9, <2>1, <2>2 DEF Bytes
<1>11. wire \o b = o \o added
  <2>1. (wire \o buffer) \o added = wire \o (buffer \o added)
    <3>1. wire \in Seq(Tokens) /\ buffer \in Seq(Tokens) /\ added \in Seq(Tokens)
      BY <1>2, <1>9
    <3>2. QED
      BY ONLY <3>1, ConcatAssociative
  <2>2. QED
    BY <1>8, <2>1 DEF Out
<1>12. /\ wire' \in Seq(Tokens) /\ buffer' \in Seq(Tokens)
       /\ wire' \o buffer' = wire \o b
       /\ Bytes(buffer') <= Bytes(b)
       /\ state' = st \/ (state' = "BEGIN" /\ Ends(st, buffer'))
  <2> HIDE DEF b, st
  <2>1. QED
    BY <1>1, <1>2, <1>10, SendOK
<1>13. Out' = o \o added
  BY <1>11, <1>12 DEF Out
<1>14. /\ last => state' \in {"LAST_CHUNKED", "BEGIN"}
       /\ ~last => state' = "RESPOND_MODE"
       /\ state' = "BEGIN" => last /\ buffer' = <<>>
  <2>1. state' = "BEGIN" /\ ~last => FALSE
    BY <1>1, <1>12 DEF Ends
  <2>2. state' = "BEGIN" => buffer' = <<>>
    BY <1>1, <1>12 DEF Ends
  <2>3. QED
    BY <1>12, <2>1, <2>2
<1>15. BodySize' = BodySize
  BY <1>1 DEF BodySize
<1>16. limit' \in Nat /\ offset' \in Nat /\ offset' + limit' = BodySize'
  BY <1>1, <1>2, <1>5, <1>6, <1>15
<1>17. Typed'
  <2>1. state' \in States /\ place' \in Places
    BY <1>1, <1>14 DEF States, Places
  <2>2. QED
    BY <1>1, <1>2, <1>12, <1>16, <2>1 DEF Typed, TypeOK
<1>18. Stages'
  <2>1. state' \in {"RESPOND_MODE", "LAST_CHUNKED", "BEGIN"}
    BY <1>14
  <2>2. QED
    BY <1>1, <2>1 DEF IInv, Stages, Answered
<1>19. Framing'
  BY <1>9, <1>13, <1>14 DEF Framing
<1>20. Sizes'
  <2>1. Bytes(buffer') \in Nat /\ Bytes(b) \in Nat
    BY <1>10, <1>12, BytesNat DEF Bytes
  <2>2. BufferFits'
    BY <1>4, <1>10, <1>12, <2>1 DEF BufferFits
  <2>3. QED
    BY <1>1, <2>2 DEF Sizes
<1>21. Listings'
  <2>1. Waiting(dir)' /\ Low(dir)' = Low(dir) /\ (dir.refused)' = dir.refused
    BY <1>1 DEF IInv, Listings, Waiting, Low, Entries
  <2>2. Low(dir) = 0
    BY <1>1 DEF IInv, Stages, NewDir, Low
  <2>3. Covers(o, dir.refused, 0, 0)
    BY <1>8, <2>2 DEF IInv, Listings
  <2>4. Covers(o \o added, dir.refused, 0, 0)
    BY <1>7, <1>8, <1>9, <2>3, CoversPlain
  <2>5. Covers(Out, dir.refused, 0, 0)'
    BY <1>1, <1>13, <2>4 DEF Covers
  <2>6. QED
    BY <1>1, <2>1, <2>2, <2>5 DEF Listings
<1>22. Delivering'
  <2>1. Carried(Out)' = offset' /\ Contiguous(Out)'
    BY <1>1, <1>9, <1>13
  <2>2. ASSUME state' = "RESPOND_MODE", offset' = 0 PROVE Out' = <<HeadToken>>
    <3>1. ~last /\ n = 0 /\ offset = 0
      BY <1>1, <1>2, <1>5, <1>14, <2>2
    <3>2. QED
      BY <1>6, <1>8, <1>9, <1>13, <3>1
  <2>3. ASSUME state' \in {"LAST_CHUNKED", "BEGIN"}
        PROVE  Out' # <<>> /\ Out'[Len(Out')] = LastChunk /\ limit' = 0
    <3>1. last
      BY <1>14, <2>3
    <3>2. n = 0 /\ limit = 0
      BY <1>5, <3>1
    <3>3. QED
      BY <1>1, <1>2, <1>9, <1>13, <3>1, <3>2
  <2>4. QED
    BY <1>1, <1>14, <1>16, <2>1, <2>2, <2>3 DEF Delivering
<1>23. QED
  BY <1>17, <1>18, <1>19, <1>20, <1>21, <1>22 DEF IInv

LEMMA IndexKeeps ==
  ASSUME IInv, SendIndex
  PROVE  IInv'
<1> DEFINE r == InsertAutoDirective(buffer)
           st == IF r.dir.flow = "DONE_AUTO_INDEX" THEN "AUTO_INDEX_DONE" ELSE "RESPOND_MODE"
<1>1. /\ state = "RESPOND_MODE" /\ place = "AUTO_INDEX" /\ place' = "AUTO_INDEX"
      /\ UNCHANGED <<source, read, parser, verdict, place, limit, offset>>
      /\ dir' = r.dir /\ Send(st, r.buffer)
  BY DEF SendIndex
<1>2. /\ wire \in Seq(Tokens) /\ buffer \in Seq(Tokens) /\ limit \in Nat /\ offset \in Nat
      /\ source \in Sources /\ parser \in Parser /\ read \in Nat /\ dir \in Dir
      /\ verdict.kind \in {"none", "error", "redirect", "answer"}
  BY DEF IInv, Typed, TypeOK
<1>3. Open(Out) /\ Framed(Out) /\ Open(buffer) /\ Bytes(buffer) <= SizeBuffer
  BY <1>1, OpenFits DEF IInv, Framing
<1>4. SizeBuffer \in Nat /\ Bytes(buffer) \in Nat
  BY <1>2, Constants, BytesNat DEF Bytes
<1>5. Waiting(dir) /\ Covers(Out, dir.refused, 0, Low(dir))
  BY DEF IInv, Listings
<1>6. dir.flow = "START" => Bytes(buffer) + 14 <= SizeBuffer
  <2>1. dir.flow = "START" => Bytes(buffer) <= HeadSize
    BY <1>1 DEF IInv, Sizes
  <2>2. QED
    BY <1>4, <2>1, Constants
<1>7. PICK p \in Seq(Contents), last \in BOOLEAN : Inserts(r, buffer, p, last)
  BY <1>2, <1>3, <1>5, <1>6, InsertOK
<1> HIDE DEF r
<1>8. PICK c, l : c = Chunk(p) /\ l = LastPart(last)
  OBVIOUS
<1>9. /\ c \in Seq(Tokens) /\ Bytes(c) = (IF p = <<>> THEN 0 ELSE Bytes(p) + 8)
      /\ RowsIn(c) = RowsIn(p) /\ (Ascending(p) => Ascending(c))
  BY <1>8, ChunkKeeps
<1>10. /\ l \in Seq(Tokens) /\ Bytes(l) = (IF last THEN 5 ELSE 0)
       /\ RowsIn(l) = {} /\ Ascending(l)
  <2>1. CASE last
    <3>1. l = <<LastChunk>>
      BY <1>8, <2>1 DEF LastPart
    <3>2. HeadToken \in Tokens
      BY TokensTyped
    <3>3. <<HeadToken>> \in Seq(Tokens)
      BY <3>2
    <3>4. /\ <<LastChunk>> \in Seq(Tokens) /\ Bytes(<<LastChunk>>) = 5
          /\ RowsIn(<<LastChunk>>) = {} /\ Ascending(<<LastChunk>>)
      BY <3>3, LastIs
    <3>5. QED
      BY <2>1, <3>1, <3>4
  <2>2. CASE ~last
    <3>1. l = <<>>
      BY <1>8, <2>2 DEF LastPart
    <3>2. Bytes(<<>>) = 0
      BY BytesEmpty DEF Bytes
    <3>3. RowsIn(<<>>) = {} /\ Ascending(<<>>)
      BY DEF RowsIn, Ascending
    <3>4. <<>> \in Seq(Tokens)
      BY EmptySequence
    <3>5. QED
      BY <2>2, <3>1, <3>2, <3>3, <3>4
  <2>3. QED
    BY <2>1, <2>2
<1>11. PICK o, bc, b : o = Out /\ bc = buffer \o c /\ b = bc \o l
  OBVIOUS
<1>12. r.buffer = b
  BY <1>7, <1>8, <1>11 DEF Inserts
<1>13. o \in Seq(Tokens) /\ bc \in Seq(Tokens)
  BY <1>2, <1>9, <1>11 DEF Out
<1>14. b \in Seq(Tokens)
  BY <1>10, <1>11, <1>13
<1>15. Bytes(b) = Bytes(buffer) + Bytes(c) + Bytes(l)
  <2>1. BytesOf(buffer \o c, TokenKinds) = BytesOf(buffer, TokenKinds) + BytesOf(c, TokenKinds)
    BY <1>2, <1>9, BytesConcat
  <2>2. BytesOf(bc \o l, TokenKinds) = BytesOf(bc, TokenKinds) + BytesOf(l, TokenKinds)
    BY <1>10, <1>13, BytesConcat
  <2>3. QED
    BY <1>11, <2>1, <2>2 DEF Bytes
<1>16. wire \o b = (o \o c) \o l
  <2>1. wire \in Seq(Tokens) /\ buffer \in Seq(Tokens) /\ c \in Seq(Tokens) /\ l \in Seq(Tokens)
    BY <1>2, <1>9, <1>10
  <2>2. (wire \o buffer) \o c = wire \o (buffer \o c)
    BY ONLY <2>1, ConcatAssociative
  <2>3. wire \in Seq(Tokens) /\ bc \in Seq(Tokens) /\ l \in Seq(Tokens)
    BY <1>13, <2>1
  <2>4. (wire \o bc) \o l = wire \o (bc \o l)
    BY ONLY <2>3, ConcatAssociative
  <2>5. o = wire \o buffer
    BY <1>11 DEF Out
  <2>6. wire \o bc = o \o c
    BY <1>11, <2>2, <2>5, Zenon
  <2>7. wire \o b = (wire \o bc) \o l
    BY <1>11, <2>4, Zenon
  <2>8. QED
    BY <2>6, <2>7, Zenon
<1>17. /\ wire' \in Seq(Tokens) /\ buffer' \in Seq(Tokens)
       /\ wire' \o buffer' = wire \o b
       /\ Bytes(buffer') <= Bytes(b)
       /\ buffer' # <<>> => b # <<>> /\ buffer'[Len(buffer')] = b[Len(b)]
       /\ state' = st \/ (state' = "BEGIN" /\ Ends(st, buffer'))
  <2> HIDE DEF st
  <2>1. QED
    BY <1>1, <1>2, <1>12, <1>14, SendOK
<1>18. Out' = (o \o c) \o l
  BY <1>16, <1>17 DEF Out
<1>19. state' \in {"RESPOND_MODE", "AUTO_INDEX_DONE", "BEGIN"}
  BY <1>17
<1>20. state' = "RESPOND_MODE" => ~last
  BY <1>7, <1>17 DEF Inserts
<1>21. /\ dir' \in Dir /\ Waiting(r.dir) /\ (dir').flow # "START"
       /\ dir.refused \subseteq (dir').refused /\ Low(dir) <= Low(r.dir)
       /\ Covers(p, r.dir.refused, Low(dir), Low(r.dir))
  BY <1>1, <1>7 DEF Inserts
<1>22. Framed(o \o c) /\ Open(o \o c)
  <2>1. CASE p = <<>>
    <3>1. c = <<>>
      BY <1>8, <2>1 DEF Chunk
    <3>2. o \o c = o
      BY <1>13, <3>1, ConcatEmptySeq
    <3>3. QED
      BY <1>3, <1>11, <3>2
  <2>2. CASE p # <<>>
    <3>1. Bytes(p) \in Nat
      BY ContentsAreTokens, BytesNat DEF Bytes
    <3>2. PICK a : a = Token("size", Bytes(p), 6)
      OBVIOUS
    <3>3. a \in Tokens /\ a.kind = "size" /\ a.n = Bytes(p)
      BY <3>1, <3>2, TokensTyped DEF Token
    <3>4. Framed(o) /\ Open(o)
      BY <1>3, <1>11
    <3>5. c = <<a>> \o p \o <<Crlf>>
      BY <1>8, <2>2, <3>2 DEF Chunk
    <3>6. LET d == <<a>> \o p \o <<Crlf>> IN Framed(o \o d) /\ Open(o \o d)
      BY <1>13, <2>2, <3>3, <3>4, FramedChunk
    <3>7. QED
      BY <3>5, <3>6
  <2>3. QED
    BY <2>1, <2>2
<1>23. o \o c \in Seq(Tokens)
  BY <1>9, <1>13
<1>24. Framed(Out') /\ (~last => Open(Out'))
  <2>1. PICK oc : oc = o \o c
    OBVIOUS
  <2>2. oc \in Seq(Tokens) /\ Framed(oc) /\ Open(oc) /\ Out' = oc \o l
    BY <1>18, <1>22, <1>23, <2>1
  <2>3. CASE last
    <3>1. l = <<LastChunk>>
      BY <1>8, <2>3 DEF LastPart
    <3>2. QED
      BY <2>2, <2>3, <3>1, FramedLast
  <2>4. CASE ~last
    <3>1. l = <<>>
      BY <1>8, <2>4 DEF LastPart
    <3>2. oc \o <<>> = oc
      BY <2>2, ConcatEmptySeq
    <3>3. QED
      BY <2>2, <3>1, <3>2
  <2>5. QED
    BY <2>3, <2>4
<1>25. Typed'
  <2>1. state' \in States /\ place' \in Places
    BY <1>1, <1>19 DEF States, Places
  <2>2. UNCHANGED <<source, read, parser, verdict, limit, offset>>
    BY <1>1
  <2>3. QED
    BY <1>2, <1>17, <1>21, <2>1, <2>2 DEF Typed, TypeOK
<1>26. Stages'
  BY <1>1, <1>19 DEF IInv, Stages, Answered
<1>27. Framing'
  BY <1>20, <1>24 DEF Framing
<1>28. Sizes'
  <2>1. Bytes(buffer') \in Nat /\ Bytes(b) \in Nat /\ Bytes(p) \in Nat /\ SizeBuffer \in Nat
    BY <1>4, <1>14, <1>17, ContentsAreTokens, BytesNat DEF Bytes
  <2>2. CASE ~last
    <3>1. Bytes(b) <= SizeBuffer
      BY <1>3, <1>4, <1>7, <1>9, <1>10, <1>15, <2>1, <2>2 DEF Inserts
    <3>2. QED
      BY <1>17, <1>21, <2>1, <3>1 DEF Sizes, BufferFits
  <2>3. CASE last
    <3>1. Bytes(b) <= SizeBuffer + 2
      BY <1>4, <1>7, <1>9, <1>10, <1>15, <2>1, <2>3 DEF Inserts
    <3>2. b[Len(b)] = LastChunk
      <4>1. l = <<LastChunk>>
        BY <1>8, <2>3 DEF LastPart
      <4>2. b = bc \o <<LastChunk>>
        BY <1>11, <4>1
      <4>3. QED
        BY <1>13, <4>2, LastIs
    <3>3. CASE buffer' = <<>>
      <4>1. Bytes(buffer') = 0
        BY <3>3, BytesEmpty DEF Bytes
      <4>2. QED
        BY <1>21, <2>1, <4>1 DEF Sizes, BufferFits
    <3>4. CASE buffer' # <<>>
      <4>1. buffer'[Len(buffer')] = LastChunk
        BY <1>17, <3>2, <3>4
      <4>2. Len(buffer') \in DOMAIN buffer'
        BY <1>17, <3>4
      <4>3. LastChunk \in Range(buffer')
        BY <4>1, <4>2 DEF Range
      <4>4. QED
        BY <1>17, <1>21, <2>1, <3>1, <4>3 DEF Sizes, BufferFits
    <3>5. QED
      BY <3>3, <3>4
  <2>4. QED
    BY <2>2, <2>3
<1>29. Listings'
  <2>1. Low(dir) \in Nat /\ Low(r.dir) \in Nat /\ Entries \in Nat
    <3>1. Entries \in Nat
      BY <1>2, EntriesTyped
    <3>2. r.dir \in Dir /\ r.dir.at \in Nat /\ dir.at \in Nat
      BY <1>1, <1>2, <1>21 DEF Dir
    <3> HIDE DEF Entries
    <3>3. QED
      BY <1>5, <1>21, <3>1, <3>2 DEF Waiting, Low
  <2>2. Covers(c, r.dir.refused, Low(dir), Low(r.dir))
    BY <1>9, <1>21 DEF Covers
  <2>3. Covers(o, dir.refused, 0, Low(dir))
    BY <1>5, <1>11
  <2>4. dir.refused \subseteq r.dir.refused
    BY <1>1, <1>21
  <2>5. Covers(o \o c, r.dir.refused, 0, Low(r.dir))
    BY <1>9, <1>13, <1>21, <2>1, <2>2, <2>3, <2>4, CoversConcat
  <2>6. Covers((o \o c) \o l, r.dir.refused, 0, Low(r.dir))
    BY <1>10, <1>23, <2>1, <2>5, CoversPlain
  <2>7. Low(dir)' = Low(r.dir) /\ Waiting(dir)'
    BY <1>1, <1>21 DEF Low, Waiting, Entries
  <2>8. Covers(Out, dir.refused, 0, Low(dir))'
    BY <1>1, <1>18, <2>6, <2>7 DEF Covers
  <2>9. QED
    BY <2>7, <2>8 DEF Listings
<1>30. Delivering'
  <2>1. dir.flow # "DONE_AUTO_INDEX"
    BY <1>1 DEF IInv, Delivering
  <2>2. state' = "RESPOND_MODE" => (dir').flow # "DONE_AUTO_INDEX"
    BY <1>1, <1>17
  <2>3. ASSUME state' = "BEGIN"
        PROVE  (dir').flow = "DONE_AUTO_INDEX" /\ Out' # <<>> /\ Out'[Len(Out')] = LastChunk
    <3>1. Ends(st, buffer')
      BY <1>17, <2>3
    <3>2. r.dir.flow = "DONE_AUTO_INDEX"
      BY <1>1, <3>1 DEF Ends
    <3>3. last
      BY <1>7, <2>1, <3>2 DEF Inserts
    <3>4. l = <<LastChunk>>
      BY <1>8, <3>3 DEF LastPart
    <3>5. PICK oc \in Seq(Tokens) : oc = o \o c
      BY <1>23
    <3>6. Out' = oc \o <<LastChunk>>
      BY <1>18, <3>4, <3>5
    <3>7. LastChunk \in Tokens
      BY TokensTyped
    <3>8. oc \o <<LastChunk>> # <<>>
          /\ (oc \o <<LastChunk>>)[Len(oc \o <<LastChunk>>)] = LastChunk
      BY <3>7
    <3>9. QED
      BY <1>1, <3>2, <3>6, <3>8
  <2>4. place' = "AUTO_INDEX" /\ (state' = "BEGIN" => (dir').flow = "DONE_AUTO_INDEX")
    BY <1>1, <2>3
  <2>5. QED
    BY <2>2, <2>3, <2>4 DEF Delivering
<1>31. QED
  BY <1>25, <1>26, <1>27, <1>28, <1>29, <1>30 DEF IInv

LEMMA StutterKeeps == IInv /\ UNCHANGED vars => IInv'
<1> SUFFICES ASSUME IInv, UNCHANGED vars PROVE IInv'
  OBVIOUS
<1>1. UNCHANGED <<source, read, parser, verdict, state, place, buffer, limit, offset, dir, wire>>
  BY DEF vars, sending
<1>2. UNCHANGED Out /\ UNCHANGED BodySize
  BY <1>1 DEF Out, BodySize
<1>3. Typed' /\ Stages' /\ Framing' /\ Sizes'
  BY <1>1, <1>2 DEF IInv, Typed, TypeOK, Stages, Answered, Framing, Sizes, BufferFits
<1>4. Listings'
  BY <1>1, <1>2 DEF IInv, Listings, Waiting, Covers, Low, Entries
<1>5. Delivering'
  BY <1>1, <1>2 DEF IInv, Delivering, Memory
<1>6. QED
  BY <1>3, <1>4, <1>5 DEF IInv

LEMMA NextKeeps == IInv /\ [Next]_vars => IInv'
<1>1. ASSUME IInv, ReadPiece \/ EndOfOutput \/ EndBadly PROVE IInv'
  BY <1>1, CgiKeeps
<1>2. ASSUME IInv, InitRespondBuffer PROVE IInv'
  BY <1>2, AnswerKeeps
<1>3. ASSUME IInv, SendMemory PROVE IInv'
  BY <1>3, MemoryKeeps
<1>4. ASSUME IInv, SendFile PROVE IInv'
  BY <1>4, FileKeeps
<1>5. ASSUME IInv, SendIndex PROVE IInv'
  BY <1>5, IndexKeeps
<1>6. ASSUME IInv, OpenFails PROVE IInv'
  BY <1>6, OpenFailsKeeps
<1>7. QED
  BY <1>1, <1>2, <1>3, <1>4, <1>5, <1>6, CloseKeeps, StutterKeeps DEF Next

LEMMA AlwaysIInv == Spec => []IInv
  BY InitInv, NextKeeps, PTL DEF Spec

-----------------------------------------------------------------------------
(***************************************************************************)
(* The theorems about what is sent.                                        *)
(***************************************************************************)
\* Every variable of the relay keeps its type, over all sources of any length.
THEOREM TypeCorrect == Spec => []TypeOK
<1>1. IInv => TypeOK
  BY DEF IInv, Typed
<1>2. QED
  BY <1>1, AlwaysIInv, PTL

\* io_chunk is never filled over its end, but for the two bytes that
\* insertAutoDirective does not count of the last chunk.
THEOREM NeverOverfull == Spec => []BufferFits
<1>1. IInv => BufferFits
  BY DEF IInv, Sizes
<1>2. QED
  BY <1>1, AlwaysIInv, PTL

\* The size of a chunk is the size of what it holds, its end follows, and
\* nothing follows the last chunk, wherever send() stopped.
THEOREM ChunksExact == Spec => []FramingExact
<1>1. IInv => FramingExact
  BY DEF IInv, Framing, Framed, FramingExact
<1>2. QED
  BY <1>1, AlwaysIInv, PTL

\* A listing has a row for each entry, once and in the order of the directory,
\* over as many calls of insertAutoDirective as it takes.
THEOREM ListedOnce == Spec => []RowsOnce
<1>1. ASSUME IInv PROVE RowsOnce
  <2>1. Waiting(dir) /\ Covers(Out, dir.refused, 0, Low(dir))
    BY <1>1 DEF IInv, Listings
  <2>2. Listed = RowsIn(Out)
    BY DEF Listed, RowsIn, IsRow
  <2>3. \A i, j \in DOMAIN Out : i < j /\ IsRow(i) /\ IsRow(j) => Out[i].n < Out[j].n
    BY <2>1 DEF Covers, Ascending, IsRow
  <2>4. \A i \in Listed : Hidden(source.entries[i]) => i - 1 \in dir.refused
    BY <2>1, <2>2 DEF Covers
  <2>5. ASSUME dir.flow = "DONE_AUTO_INDEX"
        PROVE  \A i \in DOMAIN source.entries :
                 Hidden(source.entries[i]) \/ i \in Listed \cup dir.refused
    <3>1. Low(dir) = Entries
      BY <2>1, <2>5 DEF Waiting, Low
    <3>2. Entries \in Nat /\ DOMAIN source.entries = 1 .. Entries
      BY <1>1, EntriesTyped DEF IInv, Typed, TypeOK
    <3>3. \A k \in 0 + 1 .. Entries :
            Hidden(source.entries[k]) \/ k \in RowsIn(Out) \cup dir.refused
      BY <2>1, <3>1 DEF Covers
    <3>4. QED
      BY <2>2, <3>2, <3>3
  <2>6. QED
    BY <2>3, <2>4, <2>5 DEF RowsOnce
<1>2. QED
  BY <1>1, AlwaysIInv, PTL

-----------------------------------------------------------------------------
(***************************************************************************)
(* The output of a CGI, wherever the pipe cuts it: the scan of a piece     *)
(* goes on where the scan of what came before it stopped.                  *)
(***************************************************************************)
Counted(p) == [p EXCEPT !.size = @ + 1]
Grown(p, e) == [p EXCEPT !.size = @ + 1, !.line = Append(@, e)]
Ended(p) == [p EXCEPT !.found = TRUE, !.line = <<>>]

\* The parser after a line, and whether the scan stops there.
Lined(p) ==
  IF p.size > HeaderLimit THEN Fail(p, 413)
  ELSE IF p.line = EmptyLine THEN (IF p.exist = {} THEN Fail(Ended(p), 502) ELSE Ended(p))
  ELSE ValidHeaders(p)
Stops(p) == p.size > HeaderLimit \/ p.line = EmptyLine \/ Failed(ValidHeaders(p))

\* The same after an element.
Exceeds(p, e) == e # "lf" /\ p.size + 1 > HeaderLimit
Taken(p, e) ==
  IF e = "lf" THEN Lined(Grown(p, e)) ELSE IF Exceeds(p, e) THEN Counted(p) ELSE Grown(p, e)
Halts(p, e) == IF e = "lf" THEN Stops(Grown(p, e)) ELSE Exceeds(p, e)

LEMMA GrownTyped ==
  ASSUME NEW p \in Parser, NEW e \in Elements
  PROVE  /\ Counted(p) \in Parser /\ Grown(p, e) \in Parser /\ Ended(p) \in Parser
         /\ Grown(p, e).size = p.size + 1 /\ Grown(p, e).line = Append(p.line, e)
         /\ Counted(p).size = p.size + 1
         /\ Grown(p, e).found = p.found /\ Counted(p).found = p.found
         /\ Grown(p, e).stale = p.stale /\ Counted(p).stale = p.stale
         /\ Grown(p, e).status = p.status /\ Counted(p).status = p.status
         /\ Grown(p, e).exist = p.exist
         /\ Ended(p).found = TRUE /\ Ended(p).stale = p.stale /\ Ended(p).status = p.status
         /\ Ended(p).exist = p.exist /\ Ended(p).size = p.size
<1>1. Append(p.line, e) \in Seq(Elements) /\ p.size + 1 \in Nat /\ <<>> \in Seq(Elements)
  BY EmptySequence DEF Parser
<1>2. QED
  BY <1>1 DEF Parser, Counted, Grown, Ended

LEMMA EndLineIs ==
  ASSUME NEW s \in Scan
  PROVE  /\ EndLine(s).p = Lined(s.p) /\ EndLine(s).i = s.i
         /\ EndLine(s).lines = s.lines + 1
         /\ EndLine(s).done <=> Stops(s.p)
<1> DEFINE p == s.p
           ended(q, over) == [s EXCEPT !.p = q, !.lines = @ + 1, !.done = over]
<1>1. ASSUME NEW q, NEW over
      PROVE  /\ ended(q, over).p = q /\ ended(q, over).i = s.i
             /\ ended(q, over).lines = s.lines + 1 /\ ended(q, over).done = over
  BY DEF Scan
<1>2. CASE p.size > HeaderLimit
  <2>1. EndLine(s) = ended(Fail(p, 413), TRUE)
    BY <1>2 DEF EndLine
  <2>2. Lined(p) = Fail(p, 413) /\ Stops(p)
    BY <1>2 DEF Lined, Stops
  <2>3. /\ ended(Fail(p, 413), TRUE).p = Fail(p, 413) /\ ended(Fail(p, 413), TRUE).i = s.i
        /\ ended(Fail(p, 413), TRUE).lines = s.lines + 1
        /\ ended(Fail(p, 413), TRUE).done
    BY DEF Scan
  <2> HIDE DEF ended
  <2>4. QED
    BY <2>1, <2>2, <2>3
<1>3. CASE ~(p.size > HeaderLimit) /\ p.line = EmptyLine
  <2> DEFINE b == IF p.exist = {} THEN Fail(Ended(p), 502) ELSE Ended(p)
  <2>1. EndLine(s) = ended(b, TRUE)
    BY <1>3 DEF EndLine, Ended
  <2>2. Lined(p) = b /\ Stops(p)
    BY <1>3 DEF Lined, Stops
  <2> HIDE DEF b
  <2>3. /\ ended(b, TRUE).p = b /\ ended(b, TRUE).i = s.i
        /\ ended(b, TRUE).lines = s.lines + 1 /\ ended(b, TRUE).done
    BY DEF Scan
  <2> HIDE DEF ended
  <2>4. QED
    BY <2>1, <2>2, <2>3
<1>4. CASE ~(p.size > HeaderLimit) /\ p.line # EmptyLine
  <2> DEFINE v == ValidHeaders(p)
  <2>1. EndLine(s) = ended(v, Failed(v))
    BY <1>4 DEF EndLine
  <2>2. Lined(p) = v /\ (Stops(p) <=> Failed(v))
    BY <1>4 DEF Lined, Stops
  <2>3. Failed(v) \in BOOLEAN
    BY DEF Failed
  <2> HIDE DEF ended, v
  <2>4. QED
    BY <1>1, <2>1, <2>2, <2>3
<1>5. QED
  BY <1>2, <1>3, <1>4

LEMMA TakeIs ==
  ASSUME NEW s \in Scan, NEW e \in Elements
  PROVE  /\ s.done => Take(s, e) = s
         /\ ~s.done => /\ Take(s, e).p = Taken(s.p, e)
                       /\ Take(s, e).i = (IF Exceeds(s.p, e) THEN s.i ELSE s.i + 1)
                       /\ Take(s, e).lines = (IF e = "lf" THEN s.lines + 1 ELSE s.lines)
                       /\ Take(s, e).done <=> Halts(s.p, e)
<1> DEFINE p == s.p
           counted == [s EXCEPT !.p.size = @ + 1]
           taken == [counted EXCEPT !.p.line = Append(@, e), !.i = @ + 1]
<1>1. p \in Parser /\ s.i \in Nat /\ s.lines \in Nat
  BY DEF Scan
<1>2. counted = [p |-> Counted(p), i |-> s.i, lines |-> s.lines, done |-> s.done]
  <2>1. counted = [s EXCEPT !.p = Counted(p)]
    BY DEF Scan, Counted
  <2> HIDE DEF counted
  <2>2. QED
    BY <2>1 DEF Scan
<1>3. taken = [p |-> Grown(p, e), i |-> s.i + 1, lines |-> s.lines, done |-> s.done]
  <2>1. Grown(p, e) = [Counted(p) EXCEPT !.line = Append(@, e)]
    BY DEF Parser, Grown, Counted
  <2>2. taken = [[counted EXCEPT !.p = [counted.p EXCEPT !.line = Append(@, e)]]
                   EXCEPT !.i = @ + 1]
    BY <1>2
  <2> HIDE DEF counted, taken
  <2>3. QED
    BY <1>2, <2>1, <2>2
<1>4. Grown(p, e) \in Parser /\ Counted(p).size = p.size + 1
  BY <1>1, GrownTyped
<1> HIDE DEF counted, taken
<1>5. ASSUME ~s.done, e = "lf"
      PROVE  /\ Take(s, e).p = Lined(Grown(p, e)) /\ Take(s, e).i = s.i + 1
             /\ Take(s, e).lines = s.lines + 1
             /\ Take(s, e).done <=> Stops(Grown(p, e))
  <2>1. Take(s, e) = EndLine(taken)
    BY <1>5 DEF Take, taken, counted
  <2>2. taken \in Scan
    BY <1>1, <1>3, <1>4 DEF Scan
  <2>3. /\ EndLine(taken).p = Lined(taken.p) /\ EndLine(taken).i = taken.i
        /\ EndLine(taken).lines = taken.lines + 1
        /\ EndLine(taken).done <=> Stops(taken.p)
    BY <2>2, EndLineIs
  <2>4. QED
    BY <1>3, <2>1, <2>3
<1>6. ASSUME ~s.done, e # "lf", Exceeds(p, e)
      PROVE  Take(s, e) = [p |-> Counted(p), i |-> s.i, lines |-> s.lines, done |-> TRUE]
  <2>1. counted.p.size > HeaderLimit
    BY <1>2, <1>4, <1>6 DEF Exceeds
  <2>2. Take(s, e) = [counted EXCEPT !.done = TRUE]
    BY <1>6, <2>1 DEF Take, counted
  <2>3. QED
    BY <1>2, <2>2
<1>7. ASSUME ~s.done, e # "lf", ~Exceeds(p, e)
      PROVE  Take(s, e) = [p |-> Grown(p, e), i |-> s.i + 1, lines |-> s.lines, done |-> FALSE]
  <2>1. ~(counted.p.size > HeaderLimit)
    BY <1>2, <1>4, <1>7 DEF Exceeds
  <2>2. Take(s, e) = taken
    BY <1>7, <2>1 DEF Take, counted, taken
  <2>3. s.done = FALSE
    BY <1>7 DEF Scan
  <2>4. QED
    BY <1>3, <2>2, <2>3
<1>8. s.done => Take(s, e) = s
  BY DEF Take
<1> HIDE DEF p
<1>9. ASSUME ~s.done
      PROVE  /\ Take(s, e).p = Taken(p, e)
             /\ Take(s, e).i = (IF Exceeds(p, e) THEN s.i ELSE s.i + 1)
             /\ Take(s, e).lines = (IF e = "lf" THEN s.lines + 1 ELSE s.lines)
             /\ Take(s, e).done <=> Halts(p, e)
  <2>1. CASE e = "lf"
    BY <1>5, <1>9, <2>1 DEF Taken, Halts, Exceeds
  <2>2. CASE e # "lf" /\ Exceeds(p, e)
    BY <1>6, <1>9, <2>2 DEF Taken, Halts
  <2>3. CASE e # "lf" /\ ~Exceeds(p, e)
    BY <1>7, <1>9, <2>3 DEF Taken, Halts
  <2>4. QED
    BY <2>1, <2>2, <2>3
<1>10. QED
  BY <1>8, <1>9 DEF p

LEMMA ValidIs ==
  ASSUME NEW p \in Parser
  PROVE  LET r == ValidHeaders(p)
         IN /\ r \in Parser /\ r.found = p.found /\ r.stale = p.stale /\ r.size = p.size
            /\ ~Failed(r) => r.line = <<>>
<1> DEFINE f == p.line[1]
           name == FieldName[f]
           known == Len(p.line) = 3 /\ f \in Fields /\ p.line[2] = "cr"
           marked == [p EXCEPT !.exist = @ \cup ({name} \cap Marks),
                               !.keep = @ /\ f # "busy", !.line = <<>>]
           bare == [p EXCEPT !.line = <<>>]
           full == [marked EXCEPT !.fields = Append(@, f)]
           Good(r) == /\ r.found = p.found /\ r.stale = p.stale /\ r.size = p.size
                      /\ ~Failed(r) => r.line = <<>>
<1>1. Good(Fail(p, 502))
  BY FailTyped DEF Fail, Parser, Failed
<1>2. Good(bare)
  BY DEF Parser
<1>3. marked.found = p.found /\ marked.stale = p.stale /\ marked.size = p.size
      /\ marked.line = <<>>
  BY DEF Parser
<1>4. Good(marked)
  BY <1>3
<1>5. Good(full)
  BY DEF Parser
<1>6. Good(Fail(marked, 502))
  BY DEF Fail, Parser, Failed
<1>7. StoredHeadersField(marked, f) \in {Fail(marked, 502), marked, full}
  BY DEF StoredHeadersField
<1>8. \/ ValidHeaders(p) = Fail(p, 502)
      \/ ValidHeaders(p) = bare
      \/ ValidHeaders(p) = StoredHeadersField(marked, f)
  BY DEF ValidHeaders
<1>9. ValidHeaders(p) \in Parser
  BY ValidTyped
<1> HIDE DEF f, known, marked, bare, full, Good
<1>10. Good(ValidHeaders(p))
  BY <1>1, <1>2, <1>4, <1>5, <1>6, <1>7, <1>8
<1>11. QED
  BY <1>9, <1>10 DEF Good

\* What a line makes of a parser that looks for the end of the headers.
LEMMA LinedIs ==
  ASSUME NEW p \in Parser, ~Failed(p), ~p.found
  PROVE  LET r == Lined(p)
         IN /\ r \in Parser /\ r.stale = p.stale
            /\ ~Stops(p) => /\ p.size <= HeaderLimit /\ p.line # EmptyLine
                            /\ ~Failed(r) /\ ~r.found /\ r.line = <<>> /\ r.size = p.size
            /\ Stops(p) /\ ~Failed(r) => /\ p.line = EmptyLine /\ r.found
                                        /\ p.size <= HeaderLimit /\ r.size = p.size
            /\ Failed(r) /\ r.found => r.exist = {} /\ r.status = 502
            /\ p.size > HeaderLimit => r.status = 413 /\ ~r.found
<1> DEFINE r == Lined(p)
<1>1. p.size \in Nat /\ HeaderLimit \in Nat
  BY Constants DEF Parser
<1>2. Ended(p) \in Parser /\ Ended(p).found = TRUE /\ Ended(p).stale = p.stale
      /\ Ended(p).status = p.status /\ Ended(p).exist = p.exist
      /\ Ended(p).size = p.size
  BY EmptySequence DEF Ended, Parser
<1>3. CASE p.size > HeaderLimit
  <2>1. r = Fail(p, 413) /\ Stops(p)
    BY <1>3 DEF Lined, Stops
  <2>2. r \in Parser /\ r.status = 413 /\ r.found = p.found
    BY <2>1, FailTyped
  <2>3. r.stale = p.stale
    BY <2>1 DEF Fail, Parser
  <2> HIDE DEF r
  <2>4. QED
    BY <1>1, <1>3, <2>1, <2>2, <2>3 DEF Failed, r
<1>4. CASE ~(p.size > HeaderLimit) /\ p.line = EmptyLine /\ p.exist = {}
  <2>1. r = Fail(Ended(p), 502) /\ Stops(p)
    BY <1>4 DEF Lined, Stops
  <2> HIDE DEF r
  <2>2. PICK q \in Parser : q = Ended(p)
    BY <1>2
  <2>3. r \in Parser /\ r.status = 502 /\ r.found = TRUE
    BY <1>2, <2>1, <2>2, FailTyped
  <2>4. r.stale = p.stale /\ r.exist = {}
    BY <1>2, <1>4, <2>1, <2>2 DEF Fail, Parser
  <2>5. QED
    BY <1>1, <1>4, <2>1, <2>3, <2>4 DEF Failed, r
<1>5. CASE ~(p.size > HeaderLimit) /\ p.line = EmptyLine /\ p.exist # {}
  <2>1. r = Ended(p) /\ Stops(p)
    BY <1>5 DEF Lined, Stops
  <2> HIDE DEF r
  <2>2. QED
    BY <1>1, <1>2, <1>5, <2>1 DEF Failed, r
<1>6. CASE ~(p.size > HeaderLimit) /\ p.line # EmptyLine
  <2>1. r = ValidHeaders(p) /\ (Stops(p) <=> Failed(r))
    BY <1>6 DEF Lined, Stops
  <2> HIDE DEF r
  <2>2. /\ r \in Parser /\ r.found = p.found /\ r.stale = p.stale /\ r.size = p.size
        /\ ~Failed(r) => r.line = <<>>
    BY <2>1, ValidIs
  <2>3. QED
    BY <1>1, <1>6, <2>1, <2>2 DEF r
<1>7. QED
  BY <1>3, <1>4, <1>5, <1>6

LEMMA LinedStale ==
  ASSUME NEW p \in Parser PROVE Lined(p).stale = p.stale
<1>1. \A code : Fail(p, code).stale = p.stale
  BY DEF Fail, Parser
<1>2. Ended(p) \in Parser /\ Ended(p).stale = p.stale
  BY EmptySequence DEF Ended, Parser
<1>3. PICK q \in Parser : q = Ended(p)
  BY <1>2
<1>4. Fail(q, 502).stale = q.stale
  BY DEF Fail, Parser
<1>5. ValidHeaders(p).stale = p.stale
  BY ValidIs
<1>6. Lined(p) \in {Fail(p, 413), Fail(q, 502), q, ValidHeaders(p)}
  BY <1>3 DEF Lined
<1>7. QED
  BY <1>1, <1>2, <1>3, <1>4, <1>5, <1>6

\* The line that is being read, of the first k elements of an output.
LineAt(line, output, k) ==
  \E l \in 0 .. k :
    /\ line = SubSeq(output, l + 1, k)
    /\ l = 0 \/ output[l] = "lf"
    /\ \A m \in l + 1 .. k : output[m] # "lf"

\* The elements of a sequence from l + 1 to k.
LEMMA SubSeqIs ==
  ASSUME NEW S, NEW s \in Seq(S), NEW k \in 0 .. Len(s), NEW l \in 0 .. k
  PROVE  /\ SubSeq(s, l + 1, k) \in Seq(S) /\ Len(SubSeq(s, l + 1, k)) = k - l
         /\ \A i \in 1 .. k - l : SubSeq(s, l + 1, k)[i] = s[l + i]
<1>1. \A i \in l + 1 .. k : s[i] \in S
  OBVIOUS
<1>2. l + 1 \in Int /\ k \in Int
  OBVIOUS
<1>3. /\ SubSeq(s, l + 1, k) \in Seq(S)
      /\ Len(SubSeq(s, l + 1, k)) = IF l + 1 <= k THEN k - (l + 1) + 1 ELSE 0
      /\ \A i \in 1 .. k - (l + 1) + 1 : SubSeq(s, l + 1, k)[i] = s[l + 1 + i - 1]
  BY <1>1, <1>2, SubSeqProperties
<1>4. (IF l + 1 <= k THEN k - (l + 1) + 1 ELSE 0) = k - l /\ k - (l + 1) + 1 = k - l
  OBVIOUS
<1>5. \A i \in 1 .. k - l : l + 1 + i - 1 = l + i
  OBVIOUS
<1>6. QED
  BY <1>3, <1>4, <1>5

LEMMA AppendIs ==
  ASSUME NEW S, NEW s \in Seq(S), NEW e \in S, NEW m \in Nat, Len(s) = m,
         NEW t, t = Append(s, e)
  PROVE  /\ t \in Seq(S) /\ Len(t) = m + 1 /\ t[m + 1] = e
         /\ \A i \in 1 .. m : t[i] = s[i]
<1>1. /\ Append(s, e) \in Seq(S) /\ Len(Append(s, e)) = Len(s) + 1
      /\ \A i \in 1 .. Len(s) : Append(s, e)[i] = s[i]
      /\ Append(s, e)[Len(s) + 1] = e
  BY AppendProperties
<1>2. QED
  BY <1>1

\* A line is empty just where the headers end.
LEMMA EmptyLineEnds ==
  ASSUME NEW S, NEW output \in Seq(S), NEW k \in Nat, k < Len(output), output[k + 1] = "lf",
         NEW line, LineAt(line, output, k)
  PROVE  Append(line, output[k + 1]) = EmptyLine <=> k + 1 \in HeaderEnds(output)
<1>1. PICK l \in 0 .. k : /\ line = SubSeq(output, l + 1, k)
                          /\ l = 0 \/ output[l] = "lf"
                          /\ \A m \in l + 1 .. k : output[m] # "lf"
  BY DEF LineAt
<1>2. PICK full : full = Append(line, output[k + 1])
  OBVIOUS
<1>3. line \in Seq(S) /\ Len(line) = k - l /\ \A i \in 1 .. k - l : line[i] = output[l + i]
  <2>1. k \in 0 .. Len(output)
    OBVIOUS
  <2>2. QED
    BY <1>1, <2>1, SubSeqIs
<1>4. /\ full \in Seq(S) /\ Len(full) = k - l + 1
      /\ full[k - l + 1] = "lf" /\ \A i \in 1 .. k - l : full[i] = output[l + i]
  <2>1. output[k + 1] \in S /\ k - l \in Nat
    OBVIOUS
  <2>2. PICK e \in S, m \in Nat : e = output[k + 1] /\ m = k - l
    BY <2>1
  <2>3. line \in Seq(S) /\ Len(line) = m /\ full = Append(line, e)
    BY <1>2, <1>3, <2>2
  <2>4. /\ full \in Seq(S) /\ Len(full) = m + 1
        /\ full[m + 1] = e /\ \A i \in 1 .. m : full[i] = line[i]
    BY <2>3, AppendIs
  <2>5. QED
    BY <1>3, <2>2, <2>4
<1>5. ASSUME full = EmptyLine PROVE k + 1 \in HeaderEnds(output)
  <2>1. Len(full) = 2 /\ full[1] = "cr"
    BY <1>5 DEF EmptyLine
  <2>0. k - l + 1 = 2
    BY <1>4, <2>1
  <2>00. k = l + 1 /\ 1 \in 1 .. k - l /\ l + 1 = k
    BY <2>0
  <2>2. k = l + 1 /\ output[k] = "cr"
    BY <1>4, <2>1, <2>00
  <2>3. k + 1 = 2 \/ output[k - 1] = "lf"
    BY <1>1, <2>2
  <2>4. k + 1 \in 2 .. Len(output) /\ k + 1 - 1 = k /\ k + 1 - 2 = k - 1
    BY <2>2
  <2>5. QED
    BY <2>2, <2>3, <2>4 DEF HeaderEnds
<1>6. ASSUME k + 1 \in HeaderEnds(output) PROVE full = EmptyLine
  <2>1. k >= 1 /\ output[k] = "cr" /\ (k + 1 = 2 \/ output[k - 1] = "lf")
    BY <1>6 DEF HeaderEnds
  <2>2. l # k
    BY <1>1, <2>1
  <2>3. l = k - 1
    <3>1. CASE k = 1
      BY <2>2, <3>1
    <3>2. CASE k # 1
      <4>1. output[k - 1] = "lf"
        BY <2>1, <3>2
      <4>2. ~(k - 1 \in l + 1 .. k)
        BY <1>1, <4>1
      <4>3. QED
        BY <2>1, <2>2, <4>2
    <3>3. QED
      BY <3>1, <3>2
  <2>4. Len(full) = 2 /\ full[1] = "cr" /\ full[2] = "lf"
    BY <1>4, <2>1, <2>3
  <2>5. PICK e : e = EmptyLine
    OBVIOUS
  <2>6. e \in Seq(S \cup {"cr", "lf"}) /\ Len(e) = 2 /\ e[1] = "cr" /\ e[2] = "lf"
    BY <2>5 DEF EmptyLine
  <2>7. full \in Seq(S \cup {"cr", "lf"})
    BY <1>4, SeqMonotonic
  <2>8. \A i \in 1 .. 2 : i = 1 \/ i = 2
    OBVIOUS
  <2>9. \A i \in 1 .. Len(full) : full[i] = e[i]
    BY <2>4, <2>6, <2>8
  <2>10. full = e
    BY <2>4, <2>6, <2>7, <2>9, SeqEqual
  <2>11. QED
    BY <2>5, <2>10
<1>7. QED
  BY <1>2, <1>5, <1>6

LEMMA LineGrows ==
  ASSUME NEW S, NEW output \in Seq(S), NEW k \in Nat, k < Len(output), output[k + 1] # "lf",
         NEW line, LineAt(line, output, k)
  PROVE  LineAt(Append(line, output[k + 1]), output, k + 1)
<1>1. PICK l \in 0 .. k : /\ line = SubSeq(output, l + 1, k)
                          /\ l = 0 \/ output[l] = "lf"
                          /\ \A m \in l + 1 .. k : output[m] # "lf"
  BY DEF LineAt
<1>2. Append(line, output[k + 1]) = SubSeq(output, l + 1, k + 1)
  <2>1. PICK a, b : a = SubSeq(output, l + 1, k) /\ b = SubSeq(output, l + 1, k + 1)
    OBVIOUS
  <2>2. k \in 0 .. Len(output) /\ k + 1 \in 0 .. Len(output)
    OBVIOUS
  <2>3. k - l \in Nat /\ k + 1 - l = k - l + 1 /\ l \in 0 .. k + 1
    OBVIOUS
  <2>4. a \in Seq(S) /\ Len(a) = k - l /\ \A i \in 1 .. k - l : a[i] = output[l + i]
    BY <2>1, <2>2, SubSeqIs
  <2>5. /\ b \in Seq(S) /\ Len(b) = k - l + 1
        /\ \A i \in 1 .. k - l + 1 : b[i] = output[l + i]
    <3>1. PICK n \in 0 .. Len(output) : n = k + 1 /\ l \in 0 .. n
      BY <2>2, <2>3
    <3>2. /\ SubSeq(output, l + 1, n) \in Seq(S) /\ Len(SubSeq(output, l + 1, n)) = n - l
          /\ \A i \in 1 .. n - l : SubSeq(output, l + 1, n)[i] = output[l + i]
      BY <3>1, SubSeqIs
    <3>3. QED
      BY <2>1, <2>3, <3>1, <3>2
  <2>6. PICK m \in Nat : m = k - l
    BY <2>3
  <2>7. PICK e \in S : e = output[k + 1]
    OBVIOUS
  <2>8. PICK c : c = Append(a, e)
    OBVIOUS
  <2>9. /\ c \in Seq(S) /\ Len(c) = m + 1 /\ c[m + 1] = e
        /\ \A i \in 1 .. m : c[i] = a[i]
    <3>1. a \in Seq(S) /\ Len(a) = m
      BY <2>4, <2>6
    <3>2. QED
      BY <2>8, <3>1, AppendIs
  <2>10. \A i \in 1 .. m + 1 : c[i] = b[i]
    <3>1. b[m + 1] = e
      <4>1. m + 1 \in 1 .. m + 1 /\ l + (m + 1) = k + 1
        BY <2>6
      <4>2. QED
        BY <2>5, <2>6, <2>7, <4>1
    <3>2. \A i \in 1 .. m : i \in 1 .. m + 1 /\ b[i] = a[i]
      BY <2>4, <2>5, <2>6
    <3>3. \A i \in 1 .. m + 1 : i = m + 1 \/ i \in 1 .. m
      OBVIOUS
    <3>4. QED
      BY <2>9, <3>1, <3>2, <3>3
  <2>11. c = b
    BY <2>5, <2>6, <2>9, <2>10, SeqEqual
  <2>12. QED
    BY <1>1, <2>1, <2>7, <2>8, <2>11
<1>3. \A m \in l + 1 .. k + 1 : m = k + 1 \/ m \in l + 1 .. k
  OBVIOUS
<1>4. l \in 0 .. k + 1
  OBVIOUS
<1>5. QED
  BY <1>1, <1>2, <1>3, <1>4 DEF LineAt

LEMMA LineStarts ==
  ASSUME NEW S, NEW output \in Seq(S), NEW k \in 0 .. Len(output),
         k = 0 \/ output[k] = "lf"
  PROVE  LineAt(<<>>, output, k)
<1>1. k \in Nat
  OBVIOUS
<1>2. SubSeq(output, k + 1, k) = <<>>
  OBVIOUS
<1>3. QED
  BY <1>1, <1>2 DEF LineAt

-----------------------------------------------------------------------------
\* The scan of a whole output, element after element.
Fresh == [p |-> NewParser, i |-> 0, lines |-> 0, done |-> FALSE]
Steps(output) == CHOOSE f : IsScan(f, Fresh, output)

TooLong(p) == ~Failed(p) /\ ~p.found /\ p.size > HeaderLimit
Unread(p) == ~Failed(p) /\ ~p.found /\ p.size <= HeaderLimit
Found(p) == ~Failed(p) /\ p.found /\ p.size <= HeaderLimit
Wrong(p) == Failed(p) /\ (p.found => p.exist = {} /\ p.status = 502)

\* The scan after k elements: it goes on, or it is over and stays so.
ScanAt(c, output, k) ==
  /\ c \in Scan /\ SameBody(NewParser, c.p) /\ ~c.p.stale
  /\ ~c.done => /\ c.i = k /\ Unread(c.p) /\ LineAt(c.p.line, output, k)
                /\ \A e \in HeaderEnds(output) : e > k
  /\ c.done => \/ Wrong(c.p) /\ c.i <= k
               \/ TooLong(c.p) /\ c.i <= k
               \/ /\ Found(c.p) /\ c.i <= k /\ c.i \in HeaderEnds(output)
                  /\ \A e \in HeaderEnds(output) : c.i <= e

LEMMA TakenAt ==
  ASSUME NEW output \in Seq(Elements), NEW k \in Nat, k < Len(output),
         NEW c, ScanAt(c, output, k)
  PROVE  ScanAt(Take(c, output[k + 1]), output, k + 1)
<1> DEFINE e == output[k + 1]
           p == c.p
           g == Grown(p, e)
           d == Take(c, e)
<1>1. e \in Elements /\ c \in Scan /\ p \in Parser /\ c.i \in Int /\ c.done \in BOOLEAN
      /\ p.size \in Int /\ HeaderLimit \in Int /\ k + 1 \in 1 .. Len(output)
      /\ SameBody(NewParser, p) /\ ~p.stale
  <2>1. e \in Elements
    OBVIOUS
  <2>2. c \in Scan /\ p \in Parser /\ SameBody(NewParser, p) /\ ~p.stale
    BY DEF ScanAt, Scan
  <2>3. p.size \in Nat
    <3> HIDE DEF p
    <3>1. QED
      BY <2>2 DEF Parser
  <2>4. QED
    BY <2>1, <2>2, <2>3, Constants DEF Scan
<1> HIDE DEF e
<1>2. /\ d \in Scan /\ SameBody(p, d.p)
      /\ c.done => d = c
      /\ ~c.done => /\ d.p = Taken(p, e)
                    /\ d.i = (IF Exceeds(p, e) THEN c.i ELSE c.i + 1)
                    /\ d.done <=> Halts(p, e)
  BY <1>1, TakeTyped, TakeIs
<1>3. SameBody(NewParser, d.p)
  BY <1>1, <1>2 DEF SameBody
<1>4. /\ Counted(p) \in Parser /\ g \in Parser
      /\ g.size = p.size + 1 /\ g.line = Append(p.line, e) /\ g.found = p.found
      /\ Counted(p).size = p.size + 1 /\ Counted(p).found = p.found
      /\ g.stale = p.stale /\ Counted(p).stale = p.stale
      /\ g.status = p.status /\ Counted(p).status = p.status
  BY <1>1, GrownTyped
<1> HIDE DEF d, g
<1>5. CASE c.done
  <2>1. d = c
    BY <1>2, <1>5
  <2>2. QED
    BY <1>1, <1>5, <2>1 DEF ScanAt, d, e
<1>6. CASE ~c.done
  <2>1. c.i = k /\ Unread(p) /\ LineAt(p.line, output, k) /\ \A x \in HeaderEnds(output) : x > k
    BY <1>6 DEF ScanAt
  <2>2. HeaderEnds(output) \subseteq Nat
    BY DEF HeaderEnds
  <2>3. CASE Exceeds(p, e)
    <3>1. e # "lf" /\ p.size + 1 > HeaderLimit
      BY <2>3 DEF Exceeds
    <3>2. d.p = Counted(p) /\ d.done /\ d.i = k
      BY <1>2, <1>6, <2>1, <2>3, <3>1 DEF Taken, Halts
    <3>3. TooLong(d.p) /\ ~d.p.stale
      BY <1>1, <1>4, <2>1, <3>1, <3>2 DEF TooLong, Unread, Failed
    <3>4. QED
      BY <1>2, <1>3, <3>2, <3>3 DEF ScanAt, d, e
  <2>4. CASE e # "lf" /\ ~Exceeds(p, e)
    <3>1. ~(p.size + 1 > HeaderLimit)
      BY <2>4 DEF Exceeds
    <3>2. d.p = g /\ ~d.done /\ d.i = k + 1
      BY <1>2, <1>6, <2>1, <2>4 DEF Taken, Halts, g
    <3>3. Unread(d.p) /\ ~d.p.stale
      BY <1>1, <1>4, <2>1, <3>1, <3>2 DEF Unread, Failed
    <3>4. LineAt(d.p.line, output, k + 1)
      BY <1>4, <2>1, <2>4, <3>2, LineGrows DEF e
    <3>5. \A x \in HeaderEnds(output) : x > k + 1
      <4>1. \A x \in HeaderEnds(output) : output[x] = "lf"
        BY DEF HeaderEnds
      <4>2. QED
        BY <2>1, <2>2, <2>4, <4>1 DEF e
    <3>6. QED
      BY <1>2, <1>3, <3>2, <3>3, <3>4, <3>5 DEF ScanAt, d, e
  <2>5. CASE e = "lf"
    <3>1. ~Exceeds(p, e)
      BY <2>5 DEF Exceeds
    <3>2. d.p = Lined(g) /\ (d.done <=> Stops(g)) /\ d.i = k + 1
      BY <1>2, <1>6, <2>1, <2>5, <3>1 DEF Taken, Halts, g
    <3>3. ~Failed(g) /\ ~g.found /\ ~g.stale
      BY <1>1, <1>4, <2>1 DEF Unread, Failed
    <3>4. /\ d.p.stale = g.stale
          /\ ~Stops(g) => /\ g.size <= HeaderLimit /\ g.line # EmptyLine
                          /\ ~Failed(d.p) /\ ~d.p.found /\ d.p.line = <<>>
                          /\ d.p.size = g.size
          /\ Stops(g) /\ ~Failed(d.p) => /\ g.line = EmptyLine /\ d.p.found
                                         /\ g.size <= HeaderLimit /\ d.p.size = g.size
          /\ Failed(d.p) /\ d.p.found => d.p.exist = {} /\ d.p.status = 502
      <4>1. PICK x \in Parser : x = g
        BY <1>4
      <4>2. QED
        BY <3>2, <3>3, <4>1, LinedIs
    <3>5. g.line = EmptyLine <=> k + 1 \in HeaderEnds(output)
      BY <1>4, <2>1, <2>5, EmptyLineEnds DEF e
    <3>6. CASE ~Stops(g)
      <4>1. Unread(d.p) /\ LineAt(d.p.line, output, k + 1)
        <5>1. LineAt(<<>>, output, k + 1)
          BY <1>1, <2>5, LineStarts DEF e
        <5>2. QED
          BY <3>4, <3>6, <5>1 DEF Unread
      <4>2. \A x \in HeaderEnds(output) : x > k + 1
        BY <2>1, <2>2, <3>4, <3>5, <3>6
      <4>3. QED
        BY <1>2, <1>3, <3>2, <3>3, <3>4, <3>6, <4>1, <4>2 DEF ScanAt, d, e
    <3>7. CASE Stops(g) /\ ~Failed(d.p)
      <4>1. Found(d.p)
        BY <3>4, <3>7 DEF Found
      <4>2. k + 1 \in HeaderEnds(output) /\ \A x \in HeaderEnds(output) : k + 1 <= x
        BY <2>1, <2>2, <3>4, <3>5, <3>7
      <4>3. QED
        BY <1>2, <1>3, <3>2, <3>3, <3>4, <3>7, <4>1, <4>2 DEF ScanAt, d, e
    <3>8. CASE Stops(g) /\ Failed(d.p)
      <4>1. Wrong(d.p)
        BY <3>4, <3>8 DEF Wrong
      <4>2. QED
        BY <1>2, <1>3, <3>2, <3>3, <3>4, <3>8, <4>1 DEF ScanAt, d, e
    <3>9. QED
      BY <3>6, <3>7, <3>8
  <2>6. QED
    BY <2>3, <2>4, <2>5
<1>7. QED
  BY <1>5, <1>6

LEMMA FreshAt ==
  ASSUME NEW output \in Seq(Elements) PROVE Fresh \in Scan /\ ScanAt(Fresh, output, 0)
<1>1. Fresh.p = NewParser /\ Fresh.i = 0 /\ Fresh.lines = 0 /\ Fresh.done = FALSE
  BY DEF Fresh
<1>2. Fresh \in Scan
  BY NewParserTyped DEF Fresh, Scan
<1>3. SameBody(NewParser, NewParser)
  BY DEF SameBody
<1>4. Unread(NewParser) /\ ~NewParser.stale /\ NewParser.line = <<>>
  BY Constants DEF Unread, Failed, NewParser
<1>5. LineAt(<<>>, output, 0)
  <2>1. 0 \in 0 .. Len(output)
    OBVIOUS
  <2>2. QED
    BY <2>1, LineStarts
<1>6. \A x \in HeaderEnds(output) : x > 0
  BY DEF HeaderEnds
<1>7. QED
  BY <1>1, <1>2, <1>3, <1>4, <1>5, <1>6 DEF ScanAt

LEMMA StepsScan ==
  ASSUME NEW output \in Seq(Elements) PROVE IsScan(Steps(output), Fresh, output)
<1>1. Fresh \in Scan
  BY FreshAt
<1>2. \E f : IsScan(f, Fresh, output)
  BY <1>1, ScansExist
<1>3. QED
  BY <1>2 DEF Steps

LEMMA StepsAre ==
  ASSUME NEW output \in Seq(Elements), NEW k \in 0 .. Len(output)
  PROVE  ScanAt(Steps(output)[k], output, k)
<1> DEFINE N == Len(output)
           f == Steps(output)
           T == {n \in 0 .. N : ScanAt(f[n], output, n)}
<1>1. N \in Nat /\ IsScan(f, Fresh, output)
  BY StepsScan
<1>2. 0 \in T
  BY <1>1, FreshAt DEF IsScan
<1>3. ASSUME NEW n \in 1 .. N, n - 1 \in T PROVE n \in T
  <2>1. n - 1 \in Nat /\ n - 1 < Len(output) /\ n - 1 + 1 = n /\ n \in 0 .. N
    OBVIOUS
  <2>2. PICK m \in Nat : m = n - 1
    BY <2>1
  <2>3. ScanAt(f[m], output, m) /\ m < Len(output) /\ m + 1 = n
    BY <1>3, <2>1, <2>2
  <2>4. ScanAt(Take(f[m], output[m + 1]), output, m + 1)
    BY <2>3, TakenAt
  <2>5. f[n] = Take(f[n - 1], output[n])
    BY <1>1 DEF IsScan
  <2>6. QED
    BY <2>1, <2>2, <2>3, <2>4, <2>5
<1> HIDE DEF T
<1>4. 0 .. N \subseteq T
  BY <1>1, <1>2, <1>3, NumbersUpTo
<1>5. QED
  BY <1>4 DEF T

\* A scan that is over stays as it is.
LEMMA DoneStays ==
  ASSUME NEW start \in Scan, NEW piece \in Seq(Elements), NEW f, IsScan(f, start, piece),
         NEW n \in 0 .. Len(piece), NEW k \in n .. Len(piece), f[n].done
  PROVE  f[k] = f[n]
<1> DEFINE N == Len(piece)
           T == {m \in 0 .. N : m >= n => f[m] = f[n]}
<1>1. N \in Nat
  OBVIOUS
<1>2. 0 \in T
  OBVIOUS
<1>3. ASSUME NEW m \in 1 .. N, m - 1 \in T PROVE m \in T
  <2>1. m - 1 \in 0 .. N /\ m \in 0 .. N
    OBVIOUS
  <2>2. f[m] = Take(f[m - 1], piece[m])
    BY DEF IsScan
  <2>3. CASE m - 1 >= n
    <3>1. f[m - 1] = f[n]
      BY <1>3, <2>3
    <3>2. f[m] = f[m - 1]
      BY <2>2, <3>1 DEF Take
    <3>3. QED
      BY <2>1, <3>1, <3>2
  <2>4. CASE ~(m - 1 >= n)
    <3>1. m >= n => m = n
      BY <2>4
    <3>2. QED
      BY <2>1, <3>1
  <2>5. QED
    BY <2>3, <2>4
<1> HIDE DEF T
<1>4. 0 .. N \subseteq T
  BY <1>1, <1>2, <1>3, NumbersUpTo
<1>5. k \in 0 .. N /\ k >= n
  BY <1>1
<1>6. QED
  BY <1>4, <1>5 DEF T

\* A piece is m elements of the output, behind the first n.
PieceOf(piece, output, n) ==
  /\ n + Len(piece) <= Len(output)
  /\ \A k \in 1 .. Len(piece) : piece[k] = output[n + k]

\* The scan of a piece is the scan of the whole, from where it was.
Shifted(s, c, n) == s.p = c.p /\ s.done = c.done /\ s.i = c.i - n

LEMMA PieceScan ==
  ASSUME NEW output \in Seq(Elements), NEW n \in Nat, NEW piece \in Seq(Elements),
         PieceOf(piece, output, n), ~Steps(output)[n].done,
         NEW start \in Scan, Shifted(start, Steps(output)[n], n)
  PROVE  Shifted(Scanned(start, piece), Steps(output)[n + Len(piece)], n)
<1> DEFINE N == Len(piece)
           c == Steps(output)
<1>1. N \in Nat /\ n + N <= Len(output) /\ Len(output) \in Nat
  BY DEF PieceOf
<1>2. IsScan(c, Fresh, output)
  BY StepsScan
<1>3. PICK f : IsScan(f, start, piece) /\ Scanned(start, piece) = f[N]
  BY ScansExist
<1> DEFINE T == {k \in 0 .. N : Shifted(f[k], c[n + k], n)}
<1> HIDE DEF c
<1>4. 0 \in T
  BY <1>1, <1>3 DEF IsScan, c
<1>5. ASSUME NEW k \in 1 .. N, k - 1 \in T PROVE k \in T
  <2>1. /\ k \in 0 .. N /\ k - 1 \in 0 .. N /\ n + k \in 1 .. Len(output)
        /\ n + (k - 1) = (n + k) - 1 /\ n + (k - 1) \in 0 .. Len(output)
    BY <1>1
  <2>2. f[k] = Take(f[k - 1], piece[k]) /\ f[k - 1] \in Scan
    BY <1>3, <2>1 DEF IsScan
  <2>3. c[n + k] = Take(c[n + (k - 1)], output[n + k]) /\ c[n + (k - 1)] \in Scan
    BY <1>2, <2>1 DEF IsScan
  <2>4. piece[k] = output[n + k] /\ piece[k] \in Elements
    BY DEF PieceOf
  <2>5. PICK e \in Elements : e = piece[k]
    BY <2>4
  <2>6. PICK s \in Scan, d \in Scan : s = f[k - 1] /\ d = c[n + (k - 1)]
    BY <2>2, <2>3
  <2>7. Shifted(s, d, n)
    BY <1>5, <2>6
  <2>8. f[k] = Take(s, e) /\ c[n + k] = Take(d, e)
    BY <2>2, <2>3, <2>4, <2>5, <2>6
  <2>9. CASE s.done
    <3>1. Take(s, e) = s /\ Take(d, e) = d
      BY <2>7, <2>9, TakeIs DEF Shifted
    <3>2. QED
      BY <2>1, <2>7, <2>8, <3>1
  <2>10. CASE ~s.done
    <3>0. ~d.done /\ d.i \in Int /\ s.i \in Int
      BY <2>7, <2>10 DEF Shifted, Scan
    <3>1. /\ Take(s, e).p = Taken(s.p, e)
          /\ Take(s, e).i = (IF Exceeds(s.p, e) THEN s.i ELSE s.i + 1)
          /\ Take(s, e).done <=> Halts(s.p, e)
      BY <2>10, TakeIs
    <3>2. /\ Take(d, e).p = Taken(d.p, e)
          /\ Take(d, e).i = (IF Exceeds(d.p, e) THEN d.i ELSE d.i + 1)
          /\ Take(d, e).done <=> Halts(d.p, e)
      BY <3>0, TakeIs
    <3>3. Take(s, e).done \in BOOLEAN /\ Take(d, e).done \in BOOLEAN
      BY TakeTyped DEF Scan
    <3>4. s.p = d.p /\ s.i = d.i - n
      BY <2>7 DEF Shifted
    <3>5. Take(s, e).p = Take(d, e).p /\ Take(s, e).done = Take(d, e).done
      BY <3>1, <3>2, <3>3, <3>4
    <3>6. Take(s, e).i = Take(d, e).i - n
      BY <3>0, <3>1, <3>2, <3>4
    <3>7. QED
      BY <2>1, <2>8, <3>5, <3>6 DEF Shifted
  <2>11. QED
    BY <2>9, <2>10
<1> HIDE DEF T
<1>6. 0 .. N \subseteq T
  BY <1>1, <1>4, <1>5, NumbersUpTo
<1>7. N \in T
  BY <1>1, <1>6
<1>8. QED
  BY <1>3, <1>7 DEF T, c

-----------------------------------------------------------------------------
\* A look behind a piece is remembered.
LEMMA BehindIs ==
  ASSUME NEW s \in Scan, NEW stale \in Nat, ~Behind(s, stale).p.stale
  PROVE  Behind(s, stale) = s
<1> DEFINE looked == [s EXCEPT !.p.stale = TRUE]
           once == Take(looked, "lf")
<1>1. SUFFICES ASSUME ~s.done, stale # 0 PROVE FALSE
  BY DEF Behind
<1>2. "lf" \in Elements
  BY DEF Elements
<1>3. looked \in Scan /\ looked.p.stale = TRUE /\ looked.done = s.done
      /\ looked.p.found = s.p.found
  <2>1. PICK r \in Parser : r = s.p
    BY DEF Scan
  <2>2. [r EXCEPT !.stale = TRUE] \in Parser /\ [r EXCEPT !.stale = TRUE].stale = TRUE
        /\ [r EXCEPT !.stale = TRUE].found = r.found
    BY DEF Parser
  <2>3. looked = [s EXCEPT !.p = [r EXCEPT !.stale = TRUE]]
    BY <2>1 DEF Scan
  <2>4. QED
    BY <2>1, <2>2, <2>3 DEF Scan
<1> HIDE DEF looked
<1>4. ASSUME NEW t \in Scan, t.p.stale = TRUE
      PROVE  Take(t, "lf") \in Scan /\ Take(t, "lf").p.stale = TRUE
  <2>1. Take(t, "lf") \in Scan
    BY <1>2, TakeTyped
  <2>2. CASE t.done
    BY <1>2, <1>4, <2>1, <2>2, TakeIs
  <2>3. CASE ~t.done
    <3>1. Take(t, "lf").p = Lined(Grown(t.p, "lf"))
      BY <1>2, <2>3, TakeIs DEF Taken
    <3>2. PICK r \in Parser : r = t.p
      BY DEF Scan
    <3>3. PICK g \in Parser : g = Grown(r, "lf") /\ g.stale = r.stale
      <4>1. PICK e \in Elements : e = "lf"
        BY <1>2
      <4>2. Grown(r, e) \in Parser /\ Grown(r, e).stale = r.stale
        BY GrownTyped
      <4>3. QED
        BY <4>1, <4>2
    <3>4. Lined(g).stale = g.stale
      BY LinedStale
    <3>5. QED
      BY <1>4, <2>1, <3>1, <3>2, <3>3, <3>4
  <2>4. QED
    BY <2>2, <2>3
<1>5. once \in Scan /\ once.p.stale = TRUE
  BY <1>3, <1>4
<1> HIDE DEF once
<1>6. Take(once, "lf").p.stale = TRUE
  BY <1>4, <1>5
<1>7. Behind(s, stale) \in {once, Take(once, "lf")}
  BY <1>1 DEF Behind, once, looked
<1>8. QED
  BY <1>5, <1>6, <1>7

\* What _ReceivingHeaders makes of a piece, in a scan that goes on.
LEMMA HeadersAt ==
  ASSUME NEW output \in Seq(Elements), NEW n \in Nat, NEW piece \in Seq(Elements),
         PieceOf(piece, output, n), ~Steps(output)[n].done,
         NEW p \in Parser, p = Steps(output)[n].p, NEW stale \in Nat,
         NEW h, h = ReceivingHeaders(p, piece, stale), ~h.p.stale
  PROVE  LET d == Steps(output)[n + Len(piece)]
         IN /\ h.counter \in 0 .. Len(piece)
            /\ h.counter = d.i - n
            /\ h.p = d.p \/ (TooLong(d.p) /\ h.p = Fail(d.p, 413))
<1> DEFINE c == Steps(output)[n]
           d == Steps(output)[n + Len(piece)]
           start == [p |-> p, i |-> 0, lines |-> 0, done |-> FALSE]
           t == Scanned(start, piece)
           s == Behind(t, stale)
<1>1. /\ Len(piece) \in Nat /\ Len(output) \in Nat /\ n + Len(piece) <= Len(output)
      /\ n \in 0 .. Len(output) /\ n + Len(piece) \in 0 .. Len(output)
  BY DEF PieceOf
<1>2. ScanAt(c, output, n) /\ ScanAt(d, output, n + Len(piece))
  BY <1>1, StepsAre
<1>3. c \in Scan /\ c.i = n /\ c.done = FALSE /\ Unread(c.p) /\ d \in Scan
  BY <1>2 DEF ScanAt, Scan
<1>4. start \in Scan /\ start.p = p /\ start.i = 0 /\ start.done = FALSE
  BY DEF Scan
<1> HIDE DEF start, c
<1>5. Shifted(start, c, n)
  <2>1. c.i - n = 0
    BY <1>3
  <2>2. start.p = c.p
    BY <1>4 DEF c
  <2>3. QED
    BY <1>3, <1>4, <2>1, <2>2 DEF Shifted
<1>6. Shifted(t, d, n) /\ t \in Scan
  BY <1>4, <1>5, PieceScan, ScannedTyped DEF c
<1>7. ~p.found
  BY <1>3 DEF Unread, c
<1> HIDE DEF t, d
<1>8. s \in Scan
  BY <1>6, BehindTyped
<1>9. \/ h = [p |-> Fail(s.p, 413), counter |-> s.i] /\ ~Failed(s.p) /\ s.p.size > HeaderLimit
      \/ h = [p |-> s.p, counter |-> s.i]
  BY <1>7 DEF ReceivingHeaders, s, t, start
<1> HIDE DEF s
<1>10. h.p.stale = s.p.stale
  <2>1. PICK r \in Parser : r = s.p
    BY <1>8 DEF Scan
  <2>2. Fail(r, 413).stale = r.stale
    BY DEF Fail, Parser
  <2>3. QED
    BY <1>9, <2>1, <2>2
<1>11. s = t
  BY <1>6, <1>10, BehindIs DEF s
<1>12. s.p = d.p /\ s.i = d.i - n /\ s.i \in Nat /\ d.i \in Nat
  BY <1>2, <1>6, <1>8, <1>11 DEF Shifted, Scan, ScanAt
<1>13. d.i <= n + Len(piece)
  BY <1>2 DEF ScanAt
<1>14. ASSUME ~Failed(s.p), s.p.size > HeaderLimit PROVE TooLong(d.p)
  <2>1. ~Unread(d.p) /\ ~Wrong(d.p) /\ ~Found(d.p)
    <3>1. d.p.size \in Nat
      BY <1>3 DEF Scan, Parser
    <3>2. ~(d.p.size <= HeaderLimit) /\ ~Failed(d.p)
      BY <1>12, <1>14, <3>1, Constants
    <3>3. QED
      BY <3>2 DEF Unread, Wrong, Found
  <2>2. QED
    BY <1>2, <2>1 DEF ScanAt
<1>15. h.counter = s.i
  BY <1>9
<1>16. s.i \in 0 .. Len(piece)
  BY <1>1, <1>12, <1>13
<1>17. h.p = d.p \/ (TooLong(d.p) /\ h.p = Fail(d.p, 413))
  BY <1>9, <1>12, <1>14
<1>18. QED
  BY <1>12, <1>15, <1>16, <1>17 DEF d

\* A parser over its limit fails as soon as it is called again.
LEMMA HeadersOver ==
  ASSUME NEW p \in Parser, TooLong(p), ~p.stale, NEW piece \in Seq(Elements), NEW stale \in Nat,
         NEW h, h = ReceivingHeaders(p, piece, stale), ~h.p.stale
  PROVE  h.p.status = 413 /\ ~h.p.found /\ h.counter \in Nat
<1> DEFINE N == Len(piece)
           start == [p |-> p, i |-> 0, lines |-> 0, done |-> FALSE]
           t == Scanned(start, piece)
           s == Behind(t, stale)
<1>1. start \in Scan /\ start.p = p /\ start.i = 0 /\ start.lines = 0 /\ start.done = FALSE
  BY DEF Scan
<1>2. ~Failed(p) /\ ~p.found /\ p.size > HeaderLimit /\ p.size \in Nat /\ HeaderLimit \in Nat
  BY Constants DEF TooLong, Parser
<1> HIDE DEF start
<1> DEFINE Failing(x) == \/ x.status = 413 /\ ~x.found
                         \/ ~Failed(x) /\ ~x.found /\ x.size > HeaderLimit
<1>3. t \in Scan /\ Failing(t.p) /\ (~Failed(t.p) => t.lines = 0)
  <2>1. PICK f : IsScan(f, start, piece) /\ t = f[N]
    BY <1>1, ScansExist
  <2>2. N \in Nat /\ t \in Scan
    BY <1>1, ScannedTyped
  <2> HIDE DEF t
  <2>3. CASE N = 0
    <3>1. t = start
      BY <2>1, <2>3 DEF IsScan
    <3>2. QED
      BY <1>1, <1>2, <2>2, <3>1
  <2>4. CASE N # 0
    <3>1. 1 \in 1 .. N /\ 1 \in 0 .. N /\ N \in 1 .. N /\ 1 - 1 = 0
      BY <2>2, <2>4
    <3>2. PICK e \in Elements : e = piece[1]
      BY <3>1
    <3>3. f[1] = Take(start, e)
      BY <2>1, <3>1, <3>2 DEF IsScan
    <3>4. /\ f[1].p = Taken(p, e) /\ (f[1].done <=> Halts(p, e))
          /\ f[1].lines = (IF e = "lf" THEN 1 ELSE 0)
      BY <1>1, <3>3, TakeIs
    <3>5. /\ Counted(p).size = p.size + 1 /\ Counted(p).found = p.found
          /\ Counted(p).status = p.status
          /\ Grown(p, e) \in Parser /\ Grown(p, e).size = p.size + 1
          /\ Grown(p, e).found = p.found /\ Grown(p, e).status = p.status
      <4>1. p \in Parser /\ e \in Elements
        OBVIOUS
      <4>2. QED
        BY ONLY <4>1, GrownTyped
    <3>6. CASE e = "lf"
      <4>1. PICK g \in Parser : g = Grown(p, e)
        BY <3>5
      <4>2. g.size > HeaderLimit /\ ~Failed(g) /\ ~g.found
        BY <1>2, <3>5, <4>1 DEF Failed
      <4>3. Stops(g) /\ Lined(g).status = 413 /\ ~Lined(g).found
        BY <4>2, LinedIs DEF Stops
      <4>4. f[1].p.status = 413 /\ ~f[1].p.found /\ f[1].done
        BY <3>4, <3>6, <4>1, <4>3 DEF Taken, Halts
      <4>5. f[N] = f[1]
        BY <1>1, <2>1, <3>1, <4>4, DoneStays
      <4>6. Failed(t.p)
        BY <2>1, <4>4, <4>5 DEF Failed
      <4>7. QED
        BY <2>1, <2>2, <4>4, <4>5, <4>6
    <3>7. CASE e # "lf"
      <4>1. Exceeds(p, e)
        BY <1>2, <3>7 DEF Exceeds
      <4>2. f[1].p = Counted(p) /\ f[1].done /\ f[1].lines = 0
        BY <3>4, <3>7, <4>1 DEF Taken, Halts
      <4>3. f[N] = f[1]
        BY <1>1, <2>1, <3>1, <4>2, DoneStays
      <4>4. ~Failed(Counted(p)) /\ ~Counted(p).found /\ Counted(p).size > HeaderLimit
        BY <1>2, <3>5 DEF Failed
      <4>5. QED
        BY <2>1, <2>2, <4>2, <4>3, <4>4
    <3>8. QED
      BY <3>6, <3>7
  <2>5. QED
    BY <2>3, <2>4
<1> HIDE DEF t
<1>4. s \in Scan
  BY <1>3, BehindTyped
<1>5. \/ h = [p |-> Fail(s.p, 413), counter |-> s.i]
      \/ /\ h = [p |-> s.p, counter |-> s.i]
         /\ ~(~Failed(s.p) /\ s.p.size > HeaderLimit /\ s.lines = 0)
  BY <1>2 DEF ReceivingHeaders, s, t, start
<1> HIDE DEF s
<1>6. PICK r \in Parser : r = s.p
  BY <1>4 DEF Scan
<1>7. /\ Fail(r, 413).stale = r.stale /\ Fail(r, 413).status = 413
      /\ Fail(r, 413).found = r.found
  BY DEF Fail, Parser
<1>8. s = t
  BY <1>3, <1>5, <1>6, <1>7, BehindIs DEF s
<1>9. s.i \in Nat
  BY <1>4 DEF Scan
<1>10. ~s.p.found
  BY <1>3, <1>8
<1>11. CASE h = [p |-> Fail(s.p, 413), counter |-> s.i]
  BY <1>6, <1>7, <1>9, <1>10, <1>11
<1>12. CASE /\ h = [p |-> s.p, counter |-> s.i]
            /\ ~(~Failed(s.p) /\ s.p.size > HeaderLimit /\ s.lines = 0)
  BY <1>3, <1>8, <1>9, <1>12
<1>13. QED
  BY <1>5, <1>11, <1>12

\* q has the headers that p has.
SameHead(p, q) ==
  /\ q.found = p.found /\ q.exist = p.exist /\ q.fields = p.fields /\ q.keep = p.keep
  /\ q.status = p.status /\ q.stale = p.stale /\ q.size = p.size

\* What n octets of the body make of a parser p that has found the headers' end:
\* an error, nothing when the memory is exactly full, or a longer body.
BodyStep(p, q, n, octets, disk) ==
  \/ /\ q.status = 502 /\ "content-type" \notin p.exist
     /\ p.bytes + n # 0 /\ p.bytes < MaxBody
  \/ q.status = 500 /\ ~disk
  \/ q = p /\ p.bytes = MaxBody
  \/ /\ SameHead(p, q) /\ q.bytes = p.bytes + n /\ p.bytes # MaxBody
     /\ p.bytes < MaxBody => "content-type" \in p.exist \/ q.bytes = 0
     /\ BodyOf(q) = Trimmed(q.bytes, BodyOf(p) \o octets)

LEMMA BodyIs ==
  ASSUME NEW h \in [p: Parser, counter: Nat], NEW piece \in Seq(Elements),
         NEW disk \in BOOLEAN, BodyOK(h.p), Found(h.p), h.counter <= Len(piece)
  PROVE  BodyStep(h.p, ReceivingBody(h, piece, disk), Len(piece) - h.counter,
                  SubSeq(piece, h.counter + 1, Len(piece)), disk)
<1> DEFINE p == h.p
           octets == SubSeq(piece, h.counter + 1, Len(piece))
           n == Len(piece) - h.counter
           more == [p EXCEPT !.bytes = @ + n]
           q == ReceivingBody(h, piece, disk)
<1>1. p \in Parser /\ h.counter \in 0 .. Len(piece) /\ n \in Nat /\ p.bytes \in Nat
      /\ p.found /\ (p.chunk <=> p.bytes > MaxBody) /\ MaxBody \in Nat \ {0}
      /\ p.chunk \in BOOLEAN
  <2>1. p \in Parser
    OBVIOUS
  <2>2. h.counter \in 0 .. Len(piece) /\ n \in Nat
    OBVIOUS
  <2>3. p.bytes \in Nat /\ p.found /\ (p.chunk <=> p.bytes > MaxBody)
    BY DEF BodyOK, Found
  <2>4. p.chunk \in BOOLEAN
    <3> HIDE DEF p
    <3>1. QED
      BY <2>1 DEF Parser
  <2>5. QED
    BY <2>1, <2>2, <2>3, <2>4, Constants
<1>2. octets \in Seq(Elements) /\ Len(octets) = n
  BY <1>1, Cut
<1>3. /\ more \in Parser /\ more.bytes = p.bytes + n /\ SameHead(p, more)
      /\ more.chunk = p.chunk /\ more.memory = p.memory
      /\ more.file = p.file /\ more.exist = p.exist /\ p.bytes + n \in Nat
  <2> HIDE DEF p, n
  <2>1. p.bytes + n \in Int /\ p.bytes + n \in Nat
    BY <1>1
  <2>2. QED
    BY <1>1, <2>1 DEF Parser, SameHead
<1>4. p.memory \in Seq(Elements) /\ p.file \in Seq(Elements)
  <2> HIDE DEF p
  <2>1. QED
    BY <1>1 DEF Parser
<1> DEFINE A == Fail(more, 502)
           C == [more EXCEPT !.memory = Copied(@, octets)]
           D == CreatFileTemp(more, octets)
           E == Fail([more EXCEPT !.chunk = TRUE], 500)
           F == [more EXCEPT !.file = @ \o octets]
           G == Fail(more, 500)
<1>5. Len(BodyOf(p)) = p.bytes
  BY DEF BodyOK
<1>6. q = ReceivingBody(h, piece, disk)
  OBVIOUS
<1>7. \/ p.bytes < MaxBody /\ "content-type" \notin p.exist /\ more.bytes # 0 /\ q = A
      \/ /\ p.bytes < MaxBody /\ ("content-type" \in p.exist \/ more.bytes = 0)
         /\ more.bytes <= MaxBody /\ q = C
      \/ /\ p.bytes < MaxBody /\ ("content-type" \in p.exist \/ more.bytes = 0)
         /\ ~(more.bytes <= MaxBody) /\ disk /\ q = D
      \/ ~disk /\ q \in {E, G}
      \/ p.bytes > MaxBody /\ disk /\ q = F
      \/ p.bytes = MaxBody /\ q = p
  <2>1. ~(n < 0)
    BY <1>1
  <2>2. p.bytes < MaxBody \/ p.bytes > MaxBody \/ p.bytes = MaxBody
    BY <1>1
  <2>3. CASE p.bytes < MaxBody
    BY <1>1, <2>1, <2>3 DEF ReceivingBody
  <2>4. CASE p.bytes > MaxBody
    <3>1. ~(p.bytes < MaxBody)
      BY <1>1, <2>4
    <3>2. QED
      BY <1>1, <2>4, <3>1 DEF ReceivingBody
  <2>5. CASE p.bytes = MaxBody
    <3>1. ~(p.bytes < MaxBody) /\ ~(p.bytes > MaxBody)
      BY <1>1, <2>5
    <3>2. QED
      BY <1>1, <2>5, <3>1 DEF ReceivingBody
  <2>6. QED
    BY <2>2, <2>3, <2>4, <2>5
<1> DEFINE Good == \/ /\ q.status = 502 /\ "content-type" \notin p.exist
                      /\ p.bytes + n # 0 /\ p.bytes < MaxBody
                   \/ q.status = 500 /\ ~disk
                   \/ q = p /\ p.bytes = MaxBody
                   \/ /\ SameHead(p, q) /\ q.bytes = p.bytes + n /\ p.bytes # MaxBody
                      /\ p.bytes < MaxBody => "content-type" \in p.exist \/ q.bytes = 0
                      /\ BodyOf(q) = Trimmed(q.bytes, BodyOf(p) \o octets)
<1> SUFFICES Good
  BY DEF BodyStep
<1> HIDE DEF p, octets, n, more, q, A, C, D, E, F, G
<1>8. CASE p.bytes < MaxBody /\ "content-type" \notin p.exist /\ more.bytes # 0 /\ q = A
  <2>1. A.status = 502
    <3>1. PICK r \in Parser : r = more
      BY <1>3
    <3>2. QED
      BY <3>1, FailTyped DEF A
  <2>2. QED
    BY <1>3, <1>8, <2>1
<1>9. CASE /\ p.bytes < MaxBody /\ ("content-type" \in p.exist \/ more.bytes = 0)
           /\ more.bytes <= MaxBody /\ q = C
  <2>1. Copied(more.memory, octets) \in Seq(Elements)
    BY <1>2, <1>3, <1>4, CopiedTyped
  <2>2. /\ SameHead(more, C) /\ C.bytes = more.bytes /\ C.chunk = more.chunk
        /\ C.memory = Copied(p.memory, octets)
    BY <1>3, <2>1 DEF C, Parser, SameHead
  <2>3. SameHead(p, C) /\ C.bytes = p.bytes + n /\ p.bytes # MaxBody
    BY <1>1, <1>3, <1>9, <2>2 DEF SameHead
  <2>4. ~p.chunk /\ ~C.chunk /\ BodyOf(p) = p.memory /\ BodyOf(C) = C.memory
    <3>1. ~p.chunk
      BY <1>1, <1>9
    <3>2. QED
      BY <1>3, <2>2, <3>1 DEF BodyOf
  <2>5. BodyOf(C) = Trimmed(C.bytes, BodyOf(p) \o octets)
    <3>1. PICK a \in Seq(Elements), b \in Seq(Elements) : a = p.memory /\ b = octets
      BY <1>2, <1>4
    <3>2. Len(a) = p.bytes /\ Len(b) = n /\ Len(a) + Len(b) = p.bytes + n
      BY <1>2, <1>5, <2>4, <3>1
    <3>3. CASE C.bytes = MaxBody
      <4>1. Copied(a, b) = Cropped(a \o b, MaxBody)
        BY <2>3, <3>2, <3>3, CopiedTyped
      <4>2. QED
        BY <2>2, <2>4, <3>1, <3>3, <4>1 DEF Trimmed
    <3>4. CASE C.bytes # MaxBody
      <4>1. Len(a \o b) = Len(a) + Len(b)
        OBVIOUS
      <4>2. Copied(a, b) = a \o b
        BY <2>3, <3>2, <3>4, <4>1 DEF Copied
      <4>3. QED
        BY <2>2, <2>4, <3>1, <3>4, <4>2 DEF Trimmed
    <3>5. QED
      BY <3>3, <3>4
  <2>6. QED
    BY <1>3, <1>9, <2>2, <2>3, <2>5
<1>10. CASE /\ p.bytes < MaxBody /\ ("content-type" \in p.exist \/ more.bytes = 0)
            /\ ~(more.bytes <= MaxBody) /\ disk /\ q = D
  <2>1. more.memory \o octets \in Seq(Elements)
    BY <1>2, <1>3, <1>4
  <2>2. /\ SameHead(more, D) /\ D.bytes = more.bytes /\ D.chunk = TRUE
        /\ D.file = p.memory \o octets
    BY <1>3, <2>1 DEF D, CreatFileTemp, Parser, SameHead
  <2>3. SameHead(p, D) /\ D.bytes = p.bytes + n /\ p.bytes # MaxBody
    BY <1>1, <1>3, <1>10, <2>2 DEF SameHead
  <2>4. BodyOf(p) = p.memory /\ BodyOf(D) = D.file
    <3>1. ~p.chunk
      BY <1>1, <1>10
    <3>2. QED
      BY <2>2, <3>1 DEF BodyOf
  <2>5. D.bytes # MaxBody
    BY <1>3, <1>10, <2>2
  <2>6. QED
    BY <1>3, <1>10, <2>2, <2>3, <2>4, <2>5 DEF Trimmed
<1>11. CASE ~disk /\ q \in {E, G}
  <2>1. PICK r \in Parser : r = more
    BY <1>3
  <2>2. G.status = 500
    BY <2>1, FailTyped DEF G
  <2>3. E.status = 500
    <3>1. [r EXCEPT !.chunk = TRUE] \in Parser
      BY DEF Parser
    <3>2. QED
      BY <2>1, <3>1, FailTyped DEF E
  <2>4. QED
    BY <1>11, <2>2, <2>3
<1>12. CASE p.bytes > MaxBody /\ disk /\ q = F
  <2>1. more.file \o octets \in Seq(Elements)
    BY <1>2, <1>3, <1>4
  <2>2. /\ SameHead(more, F) /\ F.bytes = more.bytes /\ F.chunk = more.chunk
        /\ F.file = p.file \o octets
    BY <1>3, <2>1 DEF F, Parser, SameHead
  <2>3. SameHead(p, F) /\ F.bytes = p.bytes + n /\ p.bytes # MaxBody /\ ~(p.bytes < MaxBody)
    BY <1>1, <1>3, <1>12, <2>2 DEF SameHead
  <2>4. BodyOf(p) = p.file /\ BodyOf(F) = F.file
    <3>1. p.chunk
      BY <1>1, <1>12
    <3>2. QED
      BY <1>3, <2>2, <3>1 DEF BodyOf
  <2>5. F.bytes # MaxBody
    BY <1>1, <1>12, <2>3
  <2>6. QED
    BY <1>3, <1>12, <2>2, <2>3, <2>4, <2>5 DEF Trimmed
<1>13. CASE p.bytes = MaxBody /\ q = p
  BY <1>13
<1>14. QED
  BY <1>7, <1>8, <1>9, <1>10, <1>11, <1>12, <1>13

\* The body of an output whose headers are wrong makes no other error of it.
LEMMA WrongBody ==
  ASSUME NEW h \in [p: Parser, counter: Nat], NEW piece \in Seq(Elements),
         NEW disk \in BOOLEAN, Wrong(h.p), h.p.bytes = 0, h.counter <= Len(piece)
  PROVE  ReceivingBody(h, piece, disk).status = h.p.status
<1> DEFINE p == h.p
           octets == SubSeq(piece, h.counter + 1, Len(piece))
           n == Len(piece) - h.counter
           more == [p EXCEPT !.bytes = @ + n]
           C == [more EXCEPT !.memory = Copied(@, octets)]
<1>1. p \in Parser /\ n \in Nat /\ p.bytes = 0 /\ 0 < MaxBody /\ ~(0 > MaxBody)
  BY Constants
<1>2. CASE ~p.found
  BY <1>1, <1>2 DEF ReceivingBody
<1>3. CASE p.found
  <2>1. "content-type" \notin p.exist /\ p.status = 502
    BY <1>3 DEF Wrong
  <2>2. more \in Parser /\ more.bytes = n /\ more.status = 502
    <3> HIDE DEF p, n
    <3>1. p.bytes + n = n /\ n \in Int
      BY <1>1
    <3>2. more = [p EXCEPT !.bytes = n]
      BY <1>1, <3>1 DEF Parser
    <3> HIDE DEF more
    <3>3. more \in Parser
      BY <1>1, <3>1, <3>2 DEF Parser
    <3>4. more.bytes = n /\ more.status = p.status
      BY <1>1, <3>2 DEF Parser
    <3>5. QED
      BY <2>1, <3>3, <3>4
  <2>3. Fail(more, 502).status = 502
    <3>1. PICK r \in Parser : r = more
      BY <2>2
    <3>2. QED
      BY <3>1, FailTyped
  <2>4. C.status = 502
    BY <2>2 DEF Parser
  <2>5. n # 0 => ReceivingBody(h, piece, disk) = Fail(more, 502)
    BY <1>1, <1>3, <2>1, <2>2 DEF ReceivingBody
  <2>6. n = 0 => ReceivingBody(h, piece, disk) = C
    <3>1. ASSUME n = 0 PROVE ~(n < 0) /\ more.bytes <= MaxBody /\ ~(more.bytes # 0)
      <4> HIDE DEF more
      <4>1. more.bytes = 0
        BY <2>2, <3>1
      <4>2. QED
        BY <3>1, <4>1, Constants
    <3>2. QED
      BY <1>1, <1>3, <2>1, <3>1 DEF ReceivingBody
  <2> HIDE DEF C, more
  <2>7. QED
    BY <2>1, <2>3, <2>4, <2>5, <2>6 DEF p
<1>4. QED
  BY <1>2, <1>3

-----------------------------------------------------------------------------
\* Only a look behind a piece makes a parser stale, and it stays so.
LEMMA TakeStale ==
  ASSUME NEW s \in Scan, NEW e \in Elements
  PROVE  Take(s, e).p.stale = s.p.stale
<1>1. CASE s.done
  BY <1>1, TakeIs
<1>2. CASE ~s.done
  <2>1. Take(s, e).p = Taken(s.p, e)
    BY <1>2, TakeIs
  <2>2. PICK r \in Parser : r = s.p
    BY DEF Scan
  <2>3. Grown(r, e) \in Parser /\ Grown(r, e).stale = r.stale /\ Counted(r).stale = r.stale
    BY GrownTyped
  <2>4. PICK g \in Parser : g = Grown(r, e)
    BY <2>3
  <2>5. Lined(g).stale = g.stale
    BY LinedStale
  <2>6. Taken(r, e) \in {Lined(g), Counted(r), g}
    BY <2>4 DEF Taken
  <2>7. QED
    BY <2>1, <2>2, <2>3, <2>4, <2>5, <2>6
<1>3. QED
  BY <1>1, <1>2

LEMMA ScannedStale ==
  ASSUME NEW start \in Scan, NEW piece \in Seq(Elements)
  PROVE  Scanned(start, piece).p.stale = start.p.stale
<1> DEFINE N == Len(piece)
<1>1. PICK f : IsScan(f, start, piece) /\ Scanned(start, piece) = f[N]
  BY ScansExist
<1> DEFINE T == {k \in 0 .. N : f[k].p.stale = start.p.stale}
<1>2. N \in Nat
  OBVIOUS
<1>3. 0 \in T
  BY <1>1, <1>2 DEF IsScan
<1>4. ASSUME NEW k \in 1 .. N, k - 1 \in T PROVE k \in T
  <2>1. k \in 0 .. N /\ k - 1 \in 0 .. N /\ piece[k] \in Elements
    BY <1>2
  <2>2. f[k - 1] \in Scan /\ f[k] = Take(f[k - 1], piece[k])
    BY <1>1, <2>1 DEF IsScan
  <2>3. f[k].p.stale = f[k - 1].p.stale
    BY <2>1, <2>2, TakeStale
  <2>4. QED
    BY <1>4, <2>1, <2>3
<1> HIDE DEF T
<1>5. 0 .. N \subseteq T
  BY <1>2, <1>3, <1>4, NumbersUpTo
<1>6. N \in T
  BY <1>2, <1>5
<1>7. QED
  BY <1>1, <1>6 DEF T

LEMMA HeadersStale ==
  ASSUME NEW p \in Parser, NEW piece \in Seq(Elements), NEW stale \in Nat,
         NEW h, h = ReceivingHeaders(p, piece, stale)
  PROVE  /\ ~h.p.stale => ~p.stale
         /\ stale = 0 /\ ~p.stale => ~h.p.stale
<1> DEFINE start == [p |-> p, i |-> 0, lines |-> 0, done |-> FALSE]
           t == Scanned(start, piece)
           s == Behind(t, stale)
<1>1. start \in Scan /\ start.p = p
  BY DEF Scan
<1> HIDE DEF start
<1>2. t \in Scan /\ t.p.stale = p.stale
  BY <1>1, ScannedTyped, ScannedStale
<1> HIDE DEF t
<1>3. s \in Scan /\ (stale = 0 => s = t)
  BY <1>2, BehindTyped DEF Behind
<1>4. ~s.p.stale => s = t
  BY <1>2, BehindIs
<1>5. \/ h = [p |-> p, counter |-> 0]
      \/ h = [p |-> Fail(s.p, 413), counter |-> s.i]
      \/ h = [p |-> s.p, counter |-> s.i]
  BY DEF ReceivingHeaders, s, t, start
<1> HIDE DEF s
<1>6. PICK r \in Parser : r = s.p
  BY <1>3 DEF Scan
<1>7. Fail(r, 413).stale = r.stale
  BY DEF Fail, Parser
<1>8. h.p.stale = p.stale \/ h.p.stale = s.p.stale
  BY <1>5, <1>6, <1>7
<1>9. QED
  BY <1>2, <1>3, <1>4, <1>8

LEMMA BodyStale ==
  ASSUME NEW h \in [p: Parser, counter: Nat], NEW piece \in Seq(Elements),
         NEW disk \in BOOLEAN
  PROVE  ReceivingBody(h, piece, disk).stale = h.p.stale
<1> DEFINE p == h.p
           octets == SubSeq(piece, h.counter + 1, Len(piece))
           n == Len(piece) - h.counter
           more == [p EXCEPT !.bytes = @ + n]
           q == ReceivingBody(h, piece, disk)
           A == Fail(more, 502)
           B == Fail([more EXCEPT !.chunk = TRUE, !.open = disk], 500)
           C == [more EXCEPT !.memory = Copied(@, octets)]
           D == CreatFileTemp(more, octets)
           E == Fail([more EXCEPT !.chunk = TRUE], 500)
           F == [more EXCEPT !.file = @ \o octets]
           G == Fail(more, 500)
<1>1. p \in Parser
  OBVIOUS
<1>2. q \in {p, A, B, C, D, E, F, G}
  BY DEF ReceivingBody
<1> HIDE DEF p, n, octets
<1>3. DOMAIN more = DOMAIN p /\ more.stale = p.stale /\ "stale" \in DOMAIN p
      /\ "status" \in DOMAIN p
  BY <1>1 DEF Parser
<1> HIDE DEF more
<1>4. \A x \in {A, B, C, D, E, F, G} : x.stale = p.stale
  <2>1. A.stale = p.stale /\ G.stale = p.stale
    BY <1>3 DEF Fail
  <2>2. B.stale = p.stale
    BY <1>3 DEF Fail
  <2>3. C.stale = p.stale
    BY <1>3
  <2>4. D.stale = p.stale
    BY <1>3 DEF CreatFileTemp
  <2>5. E.stale = p.stale
    BY <1>3 DEF Fail
  <2>6. F.stale = p.stale
    BY <1>3
  <2> HIDE DEF A, B, C, D, E, F, G
  <2>7. QED
    BY <2>1, <2>2, <2>3, <2>4, <2>5, <2>6
<1> HIDE DEF A, B, C, D, E, F, G, q
<1>5. q.stale = p.stale
  BY <1>2, <1>4
<1>6. QED
  BY <1>5 DEF p, q

LEMMA ReceivedStale ==
  ASSUME NEW p \in Parser, NEW piece \in Seq(Elements), NEW stale \in Nat,
         NEW disk \in BOOLEAN, NEW q, q = ReceivingData(p, piece, stale, disk)
  PROVE  /\ q.stale = ReceivingHeaders(p, piece, stale).p.stale
         /\ ~q.stale => ~p.stale
         /\ stale = 0 /\ ~p.stale => ~q.stale
<1>1. PICK h : h = ReceivingHeaders(p, piece, stale)
  OBVIOUS
<1>2. h \in [p: Parser, counter: Nat]
  BY <1>1, HeadersTyped
<1>3. PICK r : r = ReceivingBody(h, piece, disk)
  OBVIOUS
<1>4. r.stale = h.p.stale
  BY <1>2, <1>3, BodyStale
<1>5. q = IF Failed(r) THEN [r EXCEPT !.open = FALSE] ELSE r
  BY <1>1, <1>3 DEF ReceivingData
<1>6. [r EXCEPT !.open = FALSE].stale = r.stale
  OBVIOUS
<1>7. q.stale = h.p.stale
  BY <1>4, <1>5, <1>6
<1>8. (~h.p.stale => ~p.stale) /\ (stale = 0 /\ ~p.stale => ~h.p.stale)
  BY <1>1, HeadersStale
<1>9. QED
  BY <1>1, <1>7, <1>8

-----------------------------------------------------------------------------
\* The body of a parser that has read n elements of an output whose headers have i:
\* all of them, unless the memory has been just full.
BodyAt(p, output, i, n) ==
  /\ p.bytes # MaxBody => p.bytes = n - i
  /\ p.bytes = MaxBody => MaxBody <= n - i
  /\ BodyOf(p) = Trimmed(p.bytes, SubSeq(output, i + 1, n))

\* A full memory keeps the same octets, however many come after them.
LEMMA CroppedStays ==
  ASSUME NEW output \in Seq(Elements), NEW k \in 0 .. Len(output), NEW n \in 0 .. k,
         NEW i \in 0 .. n, NEW l \in 1 .. n - i
  PROVE  Cropped(SubSeq(output, i + 1, n), l) = Cropped(SubSeq(output, i + 1, k), l)
<1>1. n \in 0 .. Len(output) /\ i \in 0 .. k
  OBVIOUS
<1>2. PICK a, b : a = SubSeq(output, i + 1, n) /\ b = SubSeq(output, i + 1, k)
  OBVIOUS
<1>3. a \in Seq(Elements) /\ Len(a) = n - i /\ \A j \in 1 .. n - i : a[j] = output[i + j]
  BY <1>1, <1>2, SubSeqIs
<1>4. b \in Seq(Elements) /\ Len(b) = k - i /\ \A j \in 1 .. k - i : b[j] = output[i + j]
  BY <1>1, <1>2, SubSeqIs
<1>5. PICK c, d : c = Cropped(a, l) /\ d = Cropped(b, l)
  OBVIOUS
<1>6. /\ c \in Seq(Elements) /\ Len(c) = l /\ c[l] = "nul"
      /\ \A j \in 1 .. l - 1 : c[j] = a[j]
  BY <1>3, <1>5, CroppedIs
<1>7. /\ d \in Seq(Elements) /\ Len(d) = l /\ d[l] = "nul"
      /\ \A j \in 1 .. l - 1 : d[j] = b[j]
  <2>1. l \in 1 .. Len(b)
    BY <1>4
  <2>2. QED
    BY <1>4, <1>5, <2>1, CroppedIs
<1>8. ASSUME NEW j \in 1 .. l PROVE c[j] = d[j]
  <2>1. j = l \/ j \in 1 .. l - 1
    OBVIOUS
  <2>2. ASSUME j \in 1 .. l - 1 PROVE j \in 1 .. n - i /\ j \in 1 .. k - i
    BY <2>2
  <2>3. QED
    BY <1>3, <1>4, <1>6, <1>7, <2>1, <2>2
<1>9. c = d
  BY <1>6, <1>7, <1>8, SeqEqual
<1>10. QED
  BY <1>2, <1>5, <1>9

\* A parser that has read n elements of the output has no error, and stands
\* where the scan of the whole output stands.
Reading(p, output, n) ==
  LET c == Steps(output)[n]
  IN \/ ~c.done /\ p = c.p
     \/ c.done /\ TooLong(c.p) /\ TooLong(p)
     \/ /\ c.done /\ Found(c.p) /\ SameHead(c.p, p)
        /\ p.bytes # 0 => "content-type" \in p.exist
        /\ BodyAt(p, output, c.i, n)

\* The first n elements are enough for an error.
FailedBy(output, n, code) ==
  LET c == Steps(output)[n]
  IN /\ c.done
     /\ \/ Wrong(c.p) /\ code = c.p.status
        \/ TooLong(c.p) /\ code = 413
        \/ Found(c.p) /\ code = 502 /\ "content-type" \notin c.p.exist /\ n > c.i

LEMMA ReadingFound ==
  ASSUME NEW output, NEW n, NEW c, c = Steps(output)[n], c.done, Found(c.p),
         NEW q, SameHead(c.p, q), q.bytes # 0 => "content-type" \in q.exist,
         BodyAt(q, output, c.i, n)
  PROVE  Reading(q, output, n)
  BY DEF Reading

\* The piece's last elements are the output's.
LEMMA PieceRest ==
  ASSUME NEW output \in Seq(Elements), NEW n \in Nat, NEW piece \in Seq(Elements),
         PieceOf(piece, output, n), NEW j \in 0 .. Len(piece)
  PROVE  SubSeq(piece, j + 1, Len(piece)) = SubSeq(output, n + j + 1, n + Len(piece))
<1> DEFINE m == Len(piece)
<1>1. m \in Nat /\ n + m \in 0 .. Len(output) /\ n + j \in 0 .. n + m
      /\ n + m - (n + j) = m - j /\ m \in 0 .. m /\ m - j \in Nat
  BY DEF PieceOf
<1>2. PICK a : a = SubSeq(piece, j + 1, m)
  OBVIOUS
<1>3. a \in Seq(Elements) /\ Len(a) = m - j /\ \A i \in 1 .. m - j : a[i] = piece[j + i]
  BY <1>1, <1>2, SubSeqIs
<1>0. PICK k \in 0 .. Len(output) : k = n + m
  BY <1>1
<1>4. PICK l \in 0 .. k : k = n + m /\ l = n + j
  BY <1>0, <1>1
<1>5. PICK b : b = SubSeq(output, l + 1, k)
  OBVIOUS
<1>6. b \in Seq(Elements) /\ Len(b) = k - l /\ \A i \in 1 .. k - l : b[i] = output[l + i]
  BY <1>5, SubSeqIs
<1>7. k - l = m - j
  BY <1>1, <1>4
<1>8. ASSUME NEW i \in 1 .. m - j PROVE a[i] = b[i]
  <2>1. j + i \in 1 .. m /\ l + i = n + (j + i)
    BY <1>1, <1>4
  <2>2. piece[j + i] = output[n + (j + i)]
    BY <2>1 DEF PieceOf
  <2>3. QED
    BY <1>3, <1>6, <1>7, <2>1, <2>2
<1>9. a = b
  BY <1>3, <1>6, <1>7, <1>8, SeqEqual
<1>10. QED
  BY <1>2, <1>4, <1>5, <1>9

LEMMA PieceJoins ==
  ASSUME NEW output \in Seq(Elements), NEW n \in Nat, NEW piece \in Seq(Elements),
         PieceOf(piece, output, n), NEW i \in 0 .. n
  PROVE  SubSeq(output, i + 1, n) \o SubSeq(piece, 1, Len(piece))
           = SubSeq(output, i + 1, n + Len(piece))
<1> DEFINE m == Len(piece)
<1>1. m \in Nat /\ n + m \in Nat /\ n + m <= Len(output) /\ Len(output) \in Nat
  BY DEF PieceOf
<1>2. SubSeq(piece, 1, m) = SubSeq(output, n + 1, n + m)
  <2>1. 0 \in 0 .. m
    BY <1>1
  <2>2. SubSeq(piece, 0 + 1, m) = SubSeq(output, n + 0 + 1, n + m)
    BY <2>1, PieceRest
  <2>3. 0 + 1 = 1 /\ n + 0 + 1 = n + 1
    OBVIOUS
  <2>4. QED
    BY <2>2, <2>3
<1>3. PICK a \in 1 .. Len(output) + 1 : a = i + 1
  BY <1>1
<1>4. n \in a - 1 .. Len(output) /\ n + m \in n .. Len(output)
  BY <1>1, <1>3
<1>5. SubSeq(output, a, n) \o SubSeq(output, n + 1, n + m) = SubSeq(output, a, n + m)
  BY <1>4, ConcatAdjacentSubSeq
<1>6. QED
  BY <1>2, <1>3, <1>5

\* What a call makes of a parser, without the open file.
LEMMA ReceivedIs ==
  ASSUME NEW p, NEW piece, NEW stale, NEW disk,
         NEW r, r = ReceivingBody(ReceivingHeaders(p, piece, stale), piece, disk),
         NEW q, q = ReceivingData(p, piece, stale, disk)
  PROVE  /\ ~Failed(r) => q = r
         /\ q.status = r.status /\ (Failed(q) <=> Failed(r))
<1>1. q = IF Failed(r) THEN [r EXCEPT !.open = FALSE] ELSE r
  BY DEF ReceivingData
<1>2. [r EXCEPT !.open = FALSE].status = r.status
  OBVIOUS
<1>3. q.status = r.status
  BY <1>1, <1>2
<1>4. QED
  BY <1>1, <1>3 DEF Failed

\* Nothing of the body is read before the end of the headers.
LEMMA NoBody ==
  ASSUME NEW h, ~h.p.found, h.p.bytes = 0, NEW piece, NEW disk
  PROVE  ReceivingBody(h, piece, disk) = h.p
<1>1. ~(h.p.bytes > MaxBody)
  BY Constants
<1>2. QED
  BY <1>1 DEF ReceivingBody

\* What one call has made of a parser: it goes on, or it has an error that the
\* elements read so far make, or the disk has failed.
Call(p, q, output, n, piece, disk) ==
  LET k == n + Len(piece)
  IN \/ q.status = 500 /\ ~disk
     \/ Failed(q) /\ FailedBy(output, k, q.status)
     \/ /\ ~Failed(q) /\ Reading(q, output, k)
        /\ Len(piece) = 0 => ~TooLong(q)
        /\ ~p.found /\ q.found => q.bytes = k - Steps(output)[k].i
        /\ p.found => q.found /\ (Len(piece) = 0 => q.bytes = p.bytes)

\* A parser that was over the limit of its headers.
LEMMA OverRead ==
  ASSUME NEW output \in Seq(Elements), NEW n \in Nat, NEW piece \in Seq(Elements),
         PieceOf(piece, output, n), NEW p \in Parser, BodyOK(p), ~p.stale, TooLong(p),
         TooLong(Steps(output)[n].p), Steps(output)[n].done,
         NEW stale \in Nat, NEW disk \in BOOLEAN,
         NEW q, q = ReceivingData(p, piece, stale, disk), ~q.stale
  PROVE  Call(p, q, output, n, piece, disk)
<1>1. PICK h : h = ReceivingHeaders(p, piece, stale)
  OBVIOUS
<1>2. h \in [p: Parser, counter: Nat] /\ SameBody(p, h.p) /\ ~h.p.stale
  <2>1. h \in [p: Parser, counter: Nat] /\ SameBody(p, h.p)
    BY <1>1, HeadersTyped
  <2>2. q.stale = h.p.stale
    BY <1>1, ReceivedStale
  <2>3. QED
    BY <2>1, <2>2
<1>3. h.p.status = 413 /\ ~h.p.found
  BY <1>1, <1>2, HeadersOver
<1>4. h.p.bytes = 0
  BY <1>2 DEF SameBody, BodyOK, TooLong
<1>5. PICK r : r = ReceivingBody(h, piece, disk)
  OBVIOUS
<1>6. r = h.p
  BY <1>3, <1>4, <1>5, NoBody
<1>7. q.status = 413 /\ Failed(q)
  <2>1. r = ReceivingBody(ReceivingHeaders(p, piece, stale), piece, disk)
    BY <1>1, <1>5
  <2>2. q.status = r.status
    BY <2>1, ReceivedIs
  <2>3. QED
    BY <1>3, <1>6, <2>2 DEF Failed
<1>8. Steps(output)[n + Len(piece)] = Steps(output)[n]
  <2>1. Len(piece) \in Nat /\ Len(output) \in Nat /\ n + Len(piece) <= Len(output)
    BY DEF PieceOf
  <2>2. n \in 0 .. Len(output) /\ n + Len(piece) \in n .. Len(output)
    BY <2>1
  <2>3. Fresh \in Scan /\ IsScan(Steps(output), Fresh, output)
    BY FreshAt, StepsScan
  <2>4. QED
    BY <2>2, <2>3, DoneStays
<1>9. FailedBy(output, n + Len(piece), 413)
  BY <1>8 DEF FailedBy
<1>10. QED
  BY <1>7, <1>9 DEF Call

\* A parser that has found the end of the headers.
LEMMA BodyRead ==
  ASSUME NEW output \in Seq(Elements), NEW n \in Nat, NEW piece \in Seq(Elements),
         PieceOf(piece, output, n), NEW p \in Parser, BodyOK(p), p.found,
         Reading(p, output, n), NEW stale \in Nat, NEW disk \in BOOLEAN,
         NEW q, q = ReceivingData(p, piece, stale, disk)
  PROVE  Call(p, q, output, n, piece, disk)
<1> DEFINE c == Steps(output)[n]
           m == Len(piece)
           h == [p |-> p, counter |-> 0]
           r == ReceivingBody(h, piece, disk)
<1>1. m \in Nat /\ Len(output) \in Nat /\ n + m <= Len(output) /\ n \in 0 .. Len(output)
      /\ n + m \in n .. Len(output)
  BY DEF PieceOf
<1>2. ScanAt(c, output, n)
  BY <1>1, StepsAre
<1>3. /\ c.done /\ Found(c.p) /\ SameHead(c.p, p)
      /\ p.bytes # 0 => "content-type" \in p.exist
      /\ BodyAt(p, output, c.i, n)
  <2>1. ~c.done => ~c.p.found
    BY <1>2 DEF ScanAt, Unread
  <2>2. TooLong(p) => ~p.found
    BY DEF TooLong
  <2>3. QED
    BY <2>1, <2>2 DEF Reading
<1>4. c.i \in 0 .. n /\ c \in Scan
  <2>1. ~Wrong(c.p)
    BY <1>3 DEF Wrong, Found
  <2>2. ~TooLong(c.p)
    BY <1>3 DEF TooLong, Found
  <2>3. QED
    BY <1>2, <1>3, <2>1, <2>2 DEF ScanAt, Scan
<1>5. Found(p)
  BY <1>3 DEF Found, SameHead, Failed
<1>6. ReceivingHeaders(p, piece, stale) = h
  BY DEF ReceivingHeaders
<1>7. h \in [p: Parser, counter: Nat] /\ h.p = p /\ h.counter = 0
  OBVIOUS
<1>9. Steps(output)[n + m] = c
  <2>1. Fresh \in Scan /\ IsScan(Steps(output), Fresh, output)
    BY FreshAt, StepsScan
  <2>2. QED
    BY <1>1, <1>3, <2>1, DoneStays
<1>10. SubSeq(output, c.i + 1, n) \o SubSeq(piece, 1, m) = SubSeq(output, c.i + 1, n + m)
  BY <1>4, PieceJoins
<1> HIDE DEF h, c, m
<1>11. \/ /\ r.status = 502 /\ "content-type" \notin p.exist
          /\ p.bytes + m # 0 /\ p.bytes < MaxBody
       \/ r.status = 500 /\ ~disk
       \/ r = p /\ p.bytes = MaxBody
       \/ /\ SameHead(p, r) /\ r.bytes = p.bytes + m /\ p.bytes # MaxBody
          /\ p.bytes < MaxBody => "content-type" \in p.exist \/ r.bytes = 0
          /\ BodyOf(r) = Trimmed(r.bytes, BodyOf(p) \o SubSeq(piece, 1, m))
  <2>1. BodyOK(h.p) /\ Found(h.p) /\ h.counter <= Len(piece)
    BY <1>1, <1>5, <1>7 DEF m
  <2>2. PICK x : x = ReceivingBody(h, piece, disk)
    OBVIOUS
  <2>3. BodyStep(h.p, x, Len(piece) - h.counter, SubSeq(piece, h.counter + 1, Len(piece)), disk)
    BY <1>7, <2>1, <2>2, BodyIs
  <2>4. Len(piece) - h.counter = m /\ h.counter + 1 = 1 /\ Len(piece) = m
    BY <1>1, <1>7 DEF m
  <2>5. QED
    BY <1>7, <2>2, <2>3, <2>4 DEF BodyStep
<1> HIDE DEF r
<1>12. (~Failed(r) => q = r) /\ q.status = r.status /\ (Failed(q) <=> Failed(r))
  <2>1. r = ReceivingBody(ReceivingHeaders(p, piece, stale), piece, disk)
    BY <1>6 DEF r
  <2>2. QED
    BY <2>1, ReceivedIs
<1>13. CASE /\ r.status = 502 /\ "content-type" \notin p.exist
            /\ p.bytes + m # 0 /\ p.bytes < MaxBody
  <2>1. p.bytes = 0 /\ m # 0
    BY <1>3, <1>13
  <2>0. p.bytes = n - c.i
    BY <1>3, <1>13, Constants DEF BodyAt
  <2>2. n + m > c.i
    BY <1>1, <1>4, <2>0, <2>1
  <2>3. "content-type" \notin c.p.exist
    BY <1>3, <1>13 DEF SameHead
  <2>4. FailedBy(output, n + m, 502)
    BY <1>3, <1>9, <2>2, <2>3 DEF FailedBy
  <2>5. q.status = 502 /\ Failed(q)
    BY <1>12, <1>13 DEF Failed
  <2>6. QED
    BY <2>4, <2>5 DEF Call, m
<1>14. CASE r.status = 500 /\ ~disk
  BY <1>12, <1>14 DEF Call
<1>15. CASE r = p /\ p.bytes = MaxBody
  <2>1. ~Failed(r) /\ q = p
    BY <1>5, <1>12, <1>15 DEF Found
  <2>5. BodyAt(p, output, c.i, n + m)
    <3>1. PICK i \in 0 .. n, k \in 0 .. Len(output), l \in Nat \ {0} :
            i = c.i /\ k = n + m /\ l = MaxBody
      BY <1>1, <1>4, Constants
    <3>2. l <= n - i /\ BodyOf(p) = Cropped(SubSeq(output, i + 1, n), l)
      BY <1>3, <1>15, <3>1 DEF BodyAt, Trimmed
    <3>3. n \in 0 .. k /\ l \in 1 .. n - i /\ l <= k - i
      BY <1>1, <3>1, <3>2
    <3>4. Cropped(SubSeq(output, i + 1, n), l) = Cropped(SubSeq(output, i + 1, k), l)
      BY <3>3, CroppedStays
    <3>5. BodyAt(p, output, i, k)
      BY <1>15, <3>1, <3>2, <3>3, <3>4 DEF BodyAt, Trimmed
    <3>6. QED
      BY <3>1, <3>5
  <2>2. Reading(q, output, n + m)
    BY <1>3, <1>9, <1>15, <2>1, <2>5 DEF Reading
  <2>3. ~TooLong(q)
    BY <2>1 DEF TooLong
  <2>4. QED
    BY <1>15, <2>1, <2>2, <2>3 DEF Call, m
<1>16. CASE /\ SameHead(p, r) /\ r.bytes = p.bytes + m /\ p.bytes # MaxBody
            /\ p.bytes < MaxBody => "content-type" \in p.exist \/ r.bytes = 0
            /\ BodyOf(r) = Trimmed(r.bytes, BodyOf(p) \o SubSeq(piece, 1, m))
  <2>1. r.found /\ r.exist = p.exist /\ r.status = p.status /\ p.bytes \in Nat
    BY <1>16 DEF SameHead, BodyOK
  <2>2. ~Failed(r) /\ q = r
    BY <1>5, <1>12, <2>1 DEF Found, Failed
  <2>3. SameHead(c.p, r)
    BY <1>3, <1>16 DEF SameHead
  <2>4. r.bytes # 0 => "content-type" \in r.exist
    <3>1. ASSUME ~(p.bytes < MaxBody) PROVE p.bytes # 0
      BY <2>1, <3>1, Constants
    <3>2. QED
      BY <1>3, <1>16, <2>1, <3>1
  <2>0. p.bytes = n - c.i /\ BodyOf(p) = SubSeq(output, c.i + 1, n)
    BY <1>3, <1>16 DEF BodyAt, Trimmed
  <2>5. r.bytes = n + m - c.i
    BY <1>1, <1>4, <1>16, <2>0
  <2>6. BodyOf(r) = Trimmed(r.bytes, SubSeq(output, c.i + 1, n + m))
    BY <1>10, <1>16, <2>0
  <2>7. Reading(q, output, n + m)
    <3>1. PICK k \in Nat : k = n + m
      BY <1>1
    <3>2. c = Steps(output)[k] /\ c.done /\ Found(c.p) /\ SameHead(c.p, q)
      BY <1>3, <1>9, <2>2, <2>3, <3>1
    <3>3. q.bytes # 0 => "content-type" \in q.exist
      BY <2>2, <2>4
    <3>4. BodyAt(q, output, c.i, k)
      <4>1. PICK i \in Nat : i = c.i
        BY <1>4
      <4>2. q.bytes = k - i
        BY <1>1, <2>2, <2>5, <3>1, <4>1
      <4>3. BodyOf(q) = Trimmed(q.bytes, SubSeq(output, i + 1, k))
        BY <2>2, <2>6, <3>1, <4>1
      <4>4. BodyAt(q, output, i, k)
        BY <4>2, <4>3, Constants DEF BodyAt
      <4>5. QED
        BY <4>1, <4>4
    <3>5. Reading(q, output, k)
      BY <3>2, <3>3, <3>4, ReadingFound
    <3>6. QED
      BY <3>1, <3>5
  <2>8. ~TooLong(q)
    BY <2>1, <2>2 DEF TooLong
  <2>9. m = 0 => q.bytes = p.bytes
    BY <1>16, <2>1, <2>2
  <2>10. QED
    BY <2>1, <2>2, <2>7, <2>8, <2>9 DEF Call, m
<1>17. QED
  BY <1>11, <1>13, <1>14, <1>15, <1>16

\* A parser whose scan of the headers goes on.
LEMMA HeadRead ==
  ASSUME NEW output \in Seq(Elements), NEW n \in Nat, NEW piece \in Seq(Elements),
         PieceOf(piece, output, n), NEW p \in Parser,
         ~Steps(output)[n].done, p = Steps(output)[n].p,
         NEW stale \in Nat, NEW disk \in BOOLEAN,
         NEW q, q = ReceivingData(p, piece, stale, disk), ~q.stale
  PROVE  Call(p, q, output, n, piece, disk)
<1> DEFINE c == Steps(output)[n]
           m == Len(piece)
           d == Steps(output)[n + m]
<1>1. m \in Nat /\ Len(output) \in Nat /\ n + m <= Len(output) /\ n \in 0 .. Len(output)
      /\ n + m \in 0 .. Len(output)
  BY DEF PieceOf
<1>2. ScanAt(c, output, n) /\ ScanAt(d, output, n + m)
  BY <1>1, StepsAre
<1>3. PICK h : h = ReceivingHeaders(p, piece, stale)
  OBVIOUS
<1>4. h \in [p: Parser, counter: Nat] /\ SameBody(p, h.p)
  BY <1>3, HeadersTyped
<1>5. ~h.p.stale
  <2>1. q.stale = h.p.stale
    BY <1>3, ReceivedStale
  <2>2. QED
    BY <2>1
<1>6. /\ h.counter \in 0 .. m /\ h.counter = d.i - n
      /\ h.p = d.p \/ (TooLong(d.p) /\ h.p = Fail(d.p, 413))
  BY <1>3, <1>5, HeadersAt
<1>7. ~p.found /\ p.bytes = 0 /\ p.chunk = FALSE /\ p.memory = <<>>
  <2>1. ~p.found /\ SameBody(NewParser, p)
    BY <1>2 DEF ScanAt, Unread
  <2>2. NewParser.bytes = 0 /\ NewParser.chunk = FALSE /\ NewParser.memory = <<>>
    BY DEF NewParser
  <2>3. QED
    BY <2>1, <2>2 DEF SameBody
<1>8. h.p.bytes = 0 /\ h.p.chunk = FALSE /\ h.p.memory = <<>>
  BY <1>4, <1>7 DEF SameBody
<1>9. PICK r : r = ReceivingBody(h, piece, disk)
  OBVIOUS
<1>10. (~Failed(r) => q = r) /\ q.status = r.status /\ (Failed(q) <=> Failed(r))
  <2>1. r = ReceivingBody(ReceivingHeaders(p, piece, stale), piece, disk)
    BY <1>3, <1>9
  <2>2. QED
    BY <2>1, ReceivedIs
<1> HIDE DEF c, d, m
<1>12. CASE TooLong(d.p) /\ h.p = Fail(d.p, 413)
  <2>1. h.p.status = 413 /\ h.p.found = d.p.found
    <3>1. PICK x \in Parser : x = d.p
      BY <1>2 DEF ScanAt, Scan
    <3>2. QED
      BY <1>12, <3>1, FailTyped
  <2>2. r = h.p
    BY <1>8, <1>9, <1>12, <2>1, NoBody DEF TooLong
  <2>3. q.status = 413 /\ Failed(q)
    BY <1>10, <2>1, <2>2 DEF Failed
  <2>4. d.done
    <3>1. ASSUME ~d.done PROVE FALSE
      <4>1. Unread(d.p) /\ d.p.size \in Nat
        BY <1>2, <3>1 DEF ScanAt, Scan, Parser
      <4>2. QED
        BY <1>12, <4>1, Constants DEF Unread, TooLong
    <3>2. QED
      BY <3>1
  <2>5. FailedBy(output, n + m, 413)
    BY <1>12, <2>4 DEF FailedBy, d
  <2>6. QED
    BY <2>3, <2>5 DEF Call, m
<1>13. CASE h.p = d.p /\ ~d.done
  <2>1. Unread(d.p)
    BY <1>2, <1>13 DEF ScanAt
  <2>2. r = d.p
    BY <1>8, <1>9, <1>13, <2>1, NoBody DEF Unread
  <2>3. ~Failed(r) /\ q = d.p /\ ~q.found
    BY <1>10, <2>1, <2>2 DEF Unread
  <2>4. Reading(q, output, n + m)
    BY <1>13, <2>3 DEF Reading, d
  <2>5. ~TooLong(q)
    <3>1. d.p.size \in Nat
      BY <1>2 DEF ScanAt, Scan, Parser
    <3>2. QED
      BY <2>1, <2>3, <3>1, Constants DEF Unread, TooLong
  <2>6. QED
    BY <1>7, <2>2, <2>3, <2>4, <2>5 DEF Call, m
<1>14. CASE h.p = d.p /\ d.done /\ Wrong(d.p)
  <2>1. r.status = d.p.status
    <3>1. h.counter <= Len(piece) /\ Wrong(h.p)
      BY <1>1, <1>6, <1>14 DEF m
    <3>2. QED
      BY <1>4, <1>8, <1>9, <1>14, <3>1, WrongBody
  <2>2. Failed(q) /\ q.status = d.p.status
    BY <1>10, <1>14, <2>1 DEF Wrong, Failed
  <2>3. FailedBy(output, n + m, d.p.status)
    BY <1>14 DEF FailedBy, d
  <2>4. QED
    BY <2>2, <2>3 DEF Call, m
<1>15. CASE h.p = d.p /\ d.done /\ TooLong(d.p)
  <2>1. r = d.p
    BY <1>8, <1>9, <1>15, NoBody DEF TooLong
  <2>2. ~Failed(r) /\ q = d.p /\ ~q.found
    BY <1>10, <1>15, <2>1 DEF TooLong
  <2>3. Reading(q, output, n + m)
    BY <1>15, <2>2 DEF Reading, d
  <2>4. m # 0
    <3>1. ASSUME m = 0 PROVE FALSE
      <4>1. n + m = n
        BY <3>1
      <4>2. QED
        BY <1>15, <4>1 DEF d
    <3>2. QED
      BY <3>1
  <2>5. QED
    BY <1>7, <2>1, <2>2, <2>3, <2>4 DEF Call, m
<1>16. CASE h.p = d.p /\ d.done /\ Found(d.p)
  <2>1. BodyOf(h.p) = <<>>
    BY <1>8 DEF BodyOf
  <2>2. BodyOK(h.p) /\ Found(h.p)
    BY <1>8, <1>16, <2>1, Constants DEF BodyOK
  <2>3. h.counter <= Len(piece)
    BY <1>1, <1>6, <1>8, <2>1 DEF m
  <2>4. BodyStep(h.p, r, Len(piece) - h.counter, SubSeq(piece, h.counter + 1, Len(piece)), disk)
    BY <1>4, <1>9, <2>2, <2>3, BodyIs
  <2>5. d.i \in Nat
    BY <1>2 DEF ScanAt, Scan
  <2>6. /\ h.p.bytes + (Len(piece) - h.counter) = n + m - d.i
        /\ n + (d.i - n) + 1 = d.i + 1
    <3>1. PICK i \in Nat : i = d.i
      BY <2>5
    <3>2. h.counter = i - n /\ Len(piece) = m /\ h.p.bytes = 0
      BY <1>6, <1>8, <3>1 DEF m
    <3>3. 0 + (m - (i - n)) = n + m - i /\ n + (i - n) + 1 = i + 1
      BY <1>1
    <3>4. QED
      BY <3>1, <3>2, <3>3
  <2>7. SubSeq(piece, h.counter + 1, Len(piece)) = SubSeq(output, d.i + 1, n + m)
    <3>1. PICK j \in 0 .. Len(piece) : j = h.counter
      BY <1>6 DEF m
    <3>2. SubSeq(piece, j + 1, Len(piece)) = SubSeq(output, n + j + 1, n + Len(piece))
      BY PieceRest
    <3>3. n + j + 1 = d.i + 1
      BY <1>6, <2>5, <3>1
    <3>4. QED
      BY <3>1, <3>2, <3>3 DEF m
  <2>8. <<>> \o SubSeq(output, d.i + 1, n + m) = SubSeq(output, d.i + 1, n + m)
    <3>1. d.i \in 0 .. n + m
      BY <1>1, <1>6, <2>5
    <3>2. SubSeq(output, d.i + 1, n + m) \in Seq(Elements)
      BY <1>1, <3>1, SubSeqIs
    <3>3. QED
      BY <3>2
  <2>9. CASE /\ r.status = 502 /\ "content-type" \notin h.p.exist
             /\ h.p.bytes + (Len(piece) - h.counter) # 0 /\ h.p.bytes < MaxBody
    <3>1. n + m > d.i
      BY <1>1, <1>6, <2>5, <2>6, <2>9
    <3>2. FailedBy(output, n + m, 502)
      BY <1>16, <2>9, <3>1 DEF FailedBy, d
    <3>3. q.status = 502 /\ Failed(q)
      BY <1>10, <2>9 DEF Failed
    <3>4. QED
      BY <3>2, <3>3 DEF Call, m
  <2>10. CASE r.status = 500 /\ ~disk
    BY <1>10, <2>10 DEF Call
  <2>11. CASE r = h.p /\ h.p.bytes = MaxBody
    BY <1>8, <2>11, Constants
  <2>12. CASE /\ SameHead(h.p, r) /\ r.bytes = h.p.bytes + (Len(piece) - h.counter)
              /\ h.p.bytes # MaxBody
              /\ h.p.bytes < MaxBody => "content-type" \in h.p.exist \/ r.bytes = 0
              /\ BodyOf(r) = Trimmed(r.bytes, BodyOf(h.p)
                                                \o SubSeq(piece, h.counter + 1, Len(piece)))
    <3>1. SameHead(d.p, r) /\ r.bytes = n + m - d.i
      BY <1>16, <2>6, <2>12
    <3>2. r.bytes # 0 => "content-type" \in r.exist
      BY <1>8, <2>12, Constants DEF SameHead
    <3>3. BodyOf(r) = Trimmed(r.bytes, SubSeq(output, d.i + 1, n + m))
      BY <2>1, <2>7, <2>8, <2>12
    <3>4. ~Failed(r) /\ r.found /\ q = r
      BY <1>10, <1>16, <3>1 DEF Found, SameHead, Failed
    <3>5. Reading(q, output, n + m)
      <4>1. PICK k \in Nat : k = n + m
        BY <1>1
      <4>2. d = Steps(output)[k] /\ d.done /\ Found(d.p) /\ SameHead(d.p, q)
        BY <1>16, <3>1, <3>4, <4>1 DEF d
      <4>3. q.bytes # 0 => "content-type" \in q.exist
        BY <3>2, <3>4
      <4>4. BodyAt(q, output, d.i, k)
        <5>1. PICK i \in Nat : i = d.i
          BY <2>5
        <5>2. q.bytes = k - i
          BY <1>1, <3>1, <3>4, <4>1, <5>1
        <5>3. BodyOf(q) = Trimmed(q.bytes, SubSeq(output, i + 1, k))
          BY <3>3, <3>4, <4>1, <5>1
        <5>4. BodyAt(q, output, i, k)
          BY <5>2, <5>3, Constants DEF BodyAt
        <5>5. QED
          BY <5>1, <5>4
      <4>5. Reading(q, output, k)
        BY <4>2, <4>3, <4>4, ReadingFound
      <4>6. QED
        BY <4>1, <4>5
    <3>6. ~TooLong(q)
      BY <3>4 DEF TooLong
    <3>7. q.bytes = n + m - Steps(output)[n + m].i
      BY <3>1, <3>4 DEF d
    <3>8. ~Failed(q) /\ ~p.found
      BY <1>7, <3>4
    <3>9. Reading(q, output, n + Len(piece)) /\ ~TooLong(q)
          /\ q.bytes = n + Len(piece) - Steps(output)[n + Len(piece)].i
      BY <3>5, <3>6, <3>7 DEF m
    <3>10. QED
      <4>1. PICK k \in Nat : k = n + Len(piece)
        BY <1>1 DEF m
      <4>2. PICK i \in Nat : i = Steps(output)[k].i
        BY <2>5, <4>1 DEF d, m
      <4>3. q.bytes = k - i /\ Reading(q, output, k) /\ ~TooLong(q)
        BY <3>9, <4>1, <4>2
      <4>4. \/ q.status = 500 /\ ~disk
            \/ Failed(q) /\ FailedBy(output, k, q.status)
            \/ /\ ~Failed(q) /\ Reading(q, output, k)
               /\ Len(piece) = 0 => ~TooLong(q)
               /\ ~p.found /\ q.found => q.bytes = k - Steps(output)[k].i
               /\ p.found => q.found /\ (Len(piece) = 0 => q.bytes = p.bytes)
        BY <3>8, <4>2, <4>3
      <4>5. QED
        BY <4>1, <4>4 DEF Call
  <2>13. QED
    BY <2>4, <2>9, <2>10, <2>11, <2>12 DEF BodyStep
<1>17. d.done => Wrong(d.p) \/ TooLong(d.p) \/ Found(d.p)
  BY <1>2 DEF ScanAt
<1>18. QED
  BY <1>6, <1>12, <1>13, <1>14, <1>15, <1>16, <1>17

LEMMA PieceRead ==
  ASSUME NEW output \in Seq(Elements), NEW n \in Nat, NEW piece \in Seq(Elements),
         PieceOf(piece, output, n), NEW p \in Parser, BodyOK(p), ~p.stale,
         Reading(p, output, n), NEW stale \in Nat, NEW disk \in BOOLEAN,
         NEW q, q = ReceivingData(p, piece, stale, disk), ~q.stale
  PROVE  Call(p, q, output, n, piece, disk)
<1>1. CASE ~Steps(output)[n].done /\ p = Steps(output)[n].p
  BY <1>1, HeadRead
<1>2. CASE Steps(output)[n].done /\ TooLong(Steps(output)[n].p) /\ TooLong(p)
  BY <1>2, OverRead
<1>3. CASE Steps(output)[n].done /\ Found(Steps(output)[n].p) /\ SameHead(Steps(output)[n].p, p)
  <2>1. p.found
    BY <1>3 DEF Found, SameHead
  <2>2. QED
    BY <2>1, BodyRead
<1>4. QED
  BY <1>1, <1>2, <1>3 DEF Reading

-----------------------------------------------------------------------------
\* All there was to read was read, and the parser has no error.
Complete(p, output) ==
  /\ ~Failed(p) /\ Reading(p, output, Len(output)) /\ ~TooLong(p) /\ BodyOK(p)

\* What Whole concludes from.
AtOnce(output) ==
  LET p == ReceivingData(NewParser, output, 0, TRUE)
  IN IF Failed(p) THEN p ELSE ReceivingData(p, <<>>, 0, TRUE)

LEMMA StartReading ==
  ASSUME NEW output \in Seq(Elements)
  PROVE  /\ NewParser \in Parser /\ BodyOK(NewParser) /\ ~NewParser.stale /\ ~Failed(NewParser)
         /\ ~NewParser.found /\ Reading(NewParser, output, 0)
<1>1. ~NewParser.stale /\ ~Failed(NewParser) /\ ~NewParser.found
      /\ NewParser.bytes = 0 /\ NewParser.chunk = FALSE
  BY DEF NewParser, Failed
<1>2. BodyOK(NewParser)
  <2>1. BodyOf(NewParser) = <<>> /\ Len(<<>>) = 0
    BY DEF BodyOf, NewParser
  <2>2. QED
    BY <1>1, <2>1, Constants DEF BodyOK
<1>3. Steps(output)[0] = Fresh
  BY StepsScan DEF IsScan
<1>4. Fresh.p = NewParser /\ Fresh.done = FALSE
  BY DEF Fresh
<1>5. Reading(NewParser, output, 0)
  BY <1>3, <1>4 DEF Reading
<1>6. QED
  BY <1>1, <1>2, <1>5, NewParserTyped

LEMMA AtOnceIs ==
  ASSUME NEW output \in Seq(Elements), NEW w, w = AtOnce(output)
  PROVE  /\ w \in Parser
         /\ \/ Failed(w) /\ FailedBy(output, Len(output), w.status)
            \/ /\ Complete(w, output)
               /\ w.found => w.bytes = Len(output) - Steps(output)[Len(output)].i
<1> DEFINE N == Len(output)
<1>1. PICK p : p = ReceivingData(NewParser, output, 0, TRUE)
  OBVIOUS
<1>2. PICK q : q = ReceivingData(p, <<>>, 0, TRUE)
  OBVIOUS
<1>3. w = IF Failed(p) THEN p ELSE q
  BY <1>1, <1>2 DEF AtOnce
<1>4. /\ NewParser \in Parser /\ BodyOK(NewParser) /\ ~NewParser.stale /\ ~NewParser.found
      /\ Reading(NewParser, output, 0)
  BY StartReading
<1>5. p \in Parser /\ (~Failed(p) => BodyOK(p))
  <2>1. PICK x \in Parser : x = NewParser
    BY <1>4
  <2>2. BodyOK(x) /\ TRUE \in BOOLEAN /\ p = ReceivingData(x, output, 0, TRUE)
    BY <1>1, <1>4, <2>1
  <2>3. QED
    BY <2>2, ReceivedTyped
<1>6. ~p.stale
  <2>1. PICK x \in Parser, disk \in BOOLEAN, k \in Nat : x = NewParser /\ disk = TRUE /\ k = 0
    BY <1>4
  <2>2. p = ReceivingData(x, output, k, disk)
    BY <1>1, <2>1
  <2>3. ~x.stale
    BY <1>4, <2>1
  <2>4. QED
    BY <2>1, <2>2, <2>3, ReceivedStale
<1>7. N \in Nat /\ 0 + N = N /\ N + 0 = N
  OBVIOUS
<1>8. Call(NewParser, p, output, 0, output, TRUE)
  <2>1. PieceOf(output, output, 0)
    BY <1>7 DEF PieceOf
  <2>2. PICK x \in Parser : x = NewParser
    BY <1>4
  <2>3. BodyOK(x) /\ ~x.stale /\ Reading(x, output, 0) /\ 0 \in Nat /\ TRUE \in BOOLEAN
        /\ p = ReceivingData(x, output, 0, TRUE)
    BY <1>1, <1>4, <2>2
  <2>4. Call(x, p, output, 0, output, TRUE)
    BY <1>6, <2>1, <2>3, PieceRead
  <2>5. QED
    BY <2>2, <2>4
<1>9. \/ Failed(p) /\ FailedBy(output, N, p.status)
      \/ /\ ~Failed(p) /\ Reading(p, output, N)
         /\ p.found => p.bytes = N - Steps(output)[N].i
  BY <1>4, <1>7, <1>8 DEF Call
<1>10. CASE Failed(p)
  BY <1>3, <1>5, <1>9, <1>10
<1>11. CASE ~Failed(p)
  <2>1. PICK e \in Seq(Elements) : e = <<>>
    BY EmptySequence
  <2>2. Len(e) = 0
    BY <2>1
  <2>3. q \in Parser /\ (~Failed(q) => BodyOK(q)) /\ ~q.stale
    <3>1. q = ReceivingData(p, e, 0, TRUE) /\ TRUE \in BOOLEAN /\ 0 \in Nat
      BY <1>2, <2>1
    <3>2. q \in Parser /\ (~Failed(q) => BodyOK(q))
      BY <1>5, <1>11, <3>1, ReceivedTyped
    <3>3. ~q.stale
      <4>1. PICK disk \in BOOLEAN, k \in Nat : disk = TRUE /\ k = 0
        OBVIOUS
      <4>2. q = ReceivingData(p, e, k, disk) /\ p \in Parser
        BY <1>5, <3>1, <4>1
      <4>3. QED
        BY <1>6, <4>1, <4>2, ReceivedStale
    <3>4. QED
      BY <3>2, <3>3
  <2>4. Call(p, q, output, N, e, TRUE)
    <3>1. PieceOf(e, output, N)
      BY <1>7, <2>2 DEF PieceOf
    <3>2. BodyOK(p) /\ Reading(p, output, N) /\ q = ReceivingData(p, e, 0, TRUE)
          /\ TRUE \in BOOLEAN /\ 0 \in Nat
      BY <1>2, <1>5, <1>9, <1>11, <2>1
    <3>3. QED
      BY <1>5, <1>6, <1>7, <2>3, <3>1, <3>2, PieceRead
  <2>5. \/ Failed(q) /\ FailedBy(output, N, q.status)
        \/ /\ ~Failed(q) /\ Reading(q, output, N) /\ ~TooLong(q)
           /\ ~p.found /\ q.found => q.bytes = N - Steps(output)[N].i
           /\ p.found => q.bytes = p.bytes
    BY <1>7, <2>2, <2>4 DEF Call
  <2>6. ~Failed(q) => (q.found => q.bytes = N - Steps(output)[N].i)
    <3>1. SUFFICES ASSUME ~Failed(q), q.found PROVE q.bytes = N - Steps(output)[N].i
      OBVIOUS
    <3>2. CASE p.found
      BY <1>9, <1>11, <2>5, <3>1, <3>2
    <3>3. CASE ~p.found
      BY <2>5, <3>1, <3>3
    <3>4. QED
      BY <3>2, <3>3
  <2>7. w = q
    BY <1>3, <1>11
  <2>8. QED
    BY <2>3, <2>5, <2>6, <2>7 DEF Complete
<1>12. QED
  BY <1>10, <1>11

LEMMA WholeIs ==
  ASSUME NEW output PROVE Whole(output) = Concluded(AtOnce(output))
  BY DEF Whole, AtOnce

\* An error of the first elements is the error of all of them.
LEMMA FailedByStays ==
  ASSUME NEW output \in Seq(Elements), NEW n \in 0 .. Len(output), NEW code,
         FailedBy(output, n, code)
  PROVE  FailedBy(output, Len(output), code)
<1> DEFINE N == Len(output)
           c == Steps(output)[n]
<1>1. N \in Nat /\ N \in n .. N /\ n \in Nat
  OBVIOUS
<1>2. c.done
  BY DEF FailedBy
<1>3. Steps(output)[N] = c
  <2>1. Fresh \in Scan /\ IsScan(Steps(output), Fresh, output)
    BY FreshAt, StepsScan
  <2>2. QED
    BY <1>1, <1>2, <2>1, DoneStays
<1>4. c.i \in Nat
  BY StepsAre DEF ScanAt, Scan
<1> HIDE DEF c, N
<1>5. n > c.i => N > c.i
  BY <1>1, <1>4
<1>6. QED
  BY <1>3, <1>5 DEF FailedBy, c, N

\* There is one such error, and a parser that has it does not go on.
LEMMA FailedByOne ==
  ASSUME NEW output, NEW n, NEW code, NEW other,
         FailedBy(output, n, code), FailedBy(output, n, other)
  PROVE  code = other
  BY DEF FailedBy, Wrong, TooLong, Found

LEMMA FailedNotComplete ==
  ASSUME NEW output \in Seq(Elements), NEW code, FailedBy(output, Len(output), code),
         NEW p, Complete(p, output)
  PROVE  FALSE
<1> DEFINE N == Len(output)
           c == Steps(output)[N]
<1>1. N \in Nat /\ N \in 0 .. N
  OBVIOUS
<1>2. c.i \in Nat
  BY <1>1, StepsAre DEF ScanAt, Scan
<1>3. c.done /\ Found(c.p) /\ code = 502 /\ "content-type" \notin c.p.exist /\ N > c.i
      /\ SameHead(c.p, p)
      /\ (p.bytes # 0 => "content-type" \in p.exist)
      /\ (p.bytes # MaxBody => p.bytes = N - c.i)
  BY DEF FailedBy, Complete, Reading, BodyAt, Wrong, TooLong, Found
<1> HIDE DEF c, N
<1>4. p.exist = c.p.exist
  BY <1>3 DEF SameHead
<1>5. p.bytes = 0
  BY <1>3, <1>4
<1>6. p.bytes = N - c.i
  BY <1>3, <1>5, Constants
<1>7. QED
  BY <1>1, <1>2, <1>3, <1>5, <1>6

LEMMA ErrorIs == ASSUME NEW code PROVE Error(code).kind = "error" /\ Error(code).status = code
  BY DEF Error, Nothing

\* What the conclusion is made of.
AnswerOf(fields, keep, chunk, exist, body) ==
  LET given == {StatusOf[f] : f \in Range(fields) \cap DOMAIN StatusOf}
      normal == IF given = {} THEN 200 ELSE CHOOSE code \in given : TRUE
      redirected == IF "status" \in exist THEN 302 ELSE 0
  IN [kind |-> "answer", fields |-> fields, keep |-> keep, chunked |-> chunk,
      status |-> IF "location" \in exist THEN redirected ELSE normal,
      body |-> body]
RedirectedOf(fields, exist, bytes, answer) ==
  LET others == exist \ {"location"}
      client == "away" \in Range(fields)
      alone == Cardinality({FieldName[f] : f \in Range(fields)} \cup {"location"}) = 1
  IN IF client /\ Cardinality(others) = 2 /\ bytes # 0 THEN answer
     ELSE IF client /\ others = {} /\ bytes = 0 THEN answer
     ELSE IF alone /\ bytes = 0 /\ "local" \in Range(fields) THEN LocalRedirect
     ELSE Error(502)

LEMMA SameConclusion ==
  ASSUME NEW p \in Parser, NEW q \in Parser, NEW r, SameHead(r, p), SameHead(r, q),
         ~Failed(r), p.bytes = q.bytes, p.chunk = q.chunk, BodyOf(p) = BodyOf(q)
  PROVE  Concluded(p) = Concluded(q)
<1>1. /\ p.fields = q.fields /\ p.keep = q.keep /\ p.exist = q.exist
      /\ p.found = q.found /\ ~Failed(p) /\ ~Failed(q)
  BY DEF SameHead, Failed
<1>2. \A x : HeaderResponseCGI(x) = AnswerOf(x.fields, x.keep, x.chunk, x.exist, BodyOf(x))
  BY DEF HeaderResponseCGI, AnswerOf, BodyOf
<1>3. HeaderResponseCGI(p) = HeaderResponseCGI(q)
  BY <1>1, <1>2
<1>4. \A x : BuilResponsedredirection(x)
               = RedirectedOf(x.fields, x.exist, x.bytes, HeaderResponseCGI(x))
  BY DEF BuilResponsedredirection, RedirectedOf, Names
<1>5. BuilResponsedredirection(p) = BuilResponsedredirection(q)
  BY <1>1, <1>3, <1>4
<1>6. QED
  BY <1>1, <1>3, <1>5 DEF Concluded

\* An answer whose body is in memory, and is this one.
WithBody(v, body) == IF v.kind = "answer" THEN [v EXCEPT !.chunked = FALSE, !.body = body] ELSE v

\* Two parsers with the same headers and a body conclude the same but for the body.
LEMMA OtherBody ==
  ASSUME NEW p \in Parser, NEW q \in Parser, NEW r, SameHead(r, p), SameHead(r, q),
         ~Failed(r), p.bytes # 0, q.bytes # 0, p.chunk = FALSE
  PROVE  Concluded(p) = WithBody(Concluded(q), BodyOf(p))
<1>1. /\ p.fields = q.fields /\ p.keep = q.keep /\ p.exist = q.exist
      /\ p.found = q.found /\ ~Failed(p) /\ ~Failed(q)
  BY DEF SameHead, Failed
<1>2. \A x : HeaderResponseCGI(x) = AnswerOf(x.fields, x.keep, x.chunk, x.exist, BodyOf(x))
  BY DEF HeaderResponseCGI, AnswerOf, BodyOf
<1>4. HeaderResponseCGI(p) = WithBody(HeaderResponseCGI(q), BodyOf(p))
  <2>1. HeaderResponseCGI(p) = AnswerOf(q.fields, q.keep, FALSE, q.exist, BodyOf(p))
    BY <1>1, <1>2
  <2>2. HeaderResponseCGI(q) = AnswerOf(q.fields, q.keep, q.chunk, q.exist, BodyOf(q))
    BY <1>2
  <2>3. AnswerOf(q.fields, q.keep, FALSE, q.exist, BodyOf(p))
          = WithBody(AnswerOf(q.fields, q.keep, q.chunk, q.exist, BodyOf(q)), BodyOf(p))
    BY DEF AnswerOf, WithBody
  <2>4. QED
    BY <2>1, <2>2, <2>3
<1>5. \A x : BuilResponsedredirection(x)
               = RedirectedOf(x.fields, x.exist, x.bytes, HeaderResponseCGI(x))
  BY DEF BuilResponsedredirection, RedirectedOf, Names
<1>6. WithBody(Error(502), BodyOf(p)) = Error(502)
  BY ErrorIs DEF WithBody
<1>7. ASSUME NEW fields, NEW exist, NEW bytes, NEW answer, bytes # 0
      PROVE  RedirectedOf(fields, exist, bytes, answer)
               = IF "away" \in Range(fields) /\ Cardinality(exist \ {"location"}) = 2
                   THEN answer ELSE Error(502)
  BY <1>7 DEF RedirectedOf
<1>8. BuilResponsedredirection(p) = WithBody(BuilResponsedredirection(q), BodyOf(p))
  <2> DEFINE taken == "away" \in Range(q.fields) /\ Cardinality(q.exist \ {"location"}) = 2
  <2>1. BuilResponsedredirection(p) = RedirectedOf(q.fields, q.exist, p.bytes, HeaderResponseCGI(p))
    BY <1>1, <1>5
  <2>2. BuilResponsedredirection(q) = RedirectedOf(q.fields, q.exist, q.bytes, HeaderResponseCGI(q))
    BY <1>5
  <2>3. BuilResponsedredirection(p) = IF taken THEN HeaderResponseCGI(p) ELSE Error(502)
    BY <1>7, <2>1
  <2>4. BuilResponsedredirection(q) = IF taken THEN HeaderResponseCGI(q) ELSE Error(502)
    BY <1>7, <2>2
  <2> HIDE DEF taken
  <2>5. QED
    BY <1>4, <1>6, <2>3, <2>4
<1>9. QED
  BY <1>1, <1>4, <1>6, <1>8 DEF Concluded

\* The conclusion is that of a parser that had all at once, but for the end of a full
\* memory.
LEMMA CompleteSame ==
  ASSUME NEW output \in Seq(Elements), NEW p \in Parser, NEW q \in Parser,
         Complete(p, output), Complete(q, output),
         q.found => q.bytes = Len(output) - Steps(output)[Len(output)].i
  PROVE  Concluded(p) = IF p.bytes = MaxBody THEN WithBody(Concluded(q), BodyOf(p))
                        ELSE Concluded(q)
<1> DEFINE N == Len(output)
           c == Steps(output)[N]
<1>1. N \in 0 .. N
  OBVIOUS
<1>2. ScanAt(c, output, N)
  BY <1>1, StepsAre
<1> HIDE DEF N, c
<1>3. CASE ~c.done
  <2>1. p = c.p /\ q = c.p
    BY <1>3 DEF Complete, Reading, N, c
  <2>2. ~p.found
    BY <1>2, <1>3, <2>1 DEF ScanAt, Unread
  <2>3. p.bytes = 0
    BY <2>2 DEF Complete, BodyOK
  <2>4. QED
    BY <2>1, <2>3, Constants
<1>4. CASE c.done
  <2>1. ASSUME NEW x, Complete(x, output)
        PROVE  /\ Found(c.p) /\ SameHead(c.p, x) /\ x.found /\ BodyAt(x, output, c.i, N)
    <3>1. Reading(x, output, N) /\ ~TooLong(x)
      BY <2>1 DEF Complete, N
    <3>2. Found(c.p) /\ SameHead(c.p, x) /\ BodyAt(x, output, c.i, N)
      BY <1>4, <3>1 DEF Reading, c
    <3>3. QED
      BY <3>2 DEF Found, SameHead
  <2>2. q.bytes = N - c.i
    BY <2>1 DEF N, c
  <2>3. SameHead(c.p, p) /\ SameHead(c.p, q) /\ ~Failed(c.p)
    BY <2>1 DEF Found
  <2>4. /\ p.chunk \in BOOLEAN /\ q.chunk \in BOOLEAN
        /\ (p.chunk <=> p.bytes > MaxBody) /\ (q.chunk <=> q.bytes > MaxBody)
    BY DEF Parser, Complete, BodyOK
  <2>5. CASE p.bytes # MaxBody
    <3>1. p.bytes = q.bytes
      BY <2>1, <2>2, <2>5 DEF BodyAt
    <3>2. BodyOf(p) = BodyOf(q)
      BY <2>1, <3>1 DEF BodyAt
    <3>3. p.chunk = q.chunk
      <4>1. p.chunk <=> q.chunk
        BY <2>4, <3>1
      <4>2. QED
        BY <2>4, <4>1
    <3>4. QED
      BY <2>3, <2>5, <3>1, <3>2, <3>3, SameConclusion
  <2>6. CASE p.bytes = MaxBody
    <3>1. p.bytes # 0 /\ q.bytes # 0
      <4>1. MaxBody <= N - c.i
        BY <2>1, <2>6 DEF BodyAt
      <4>2. QED
        BY <2>2, <2>6, <4>1, Constants
    <3>2. p.chunk = FALSE
      <4>1. ~(p.bytes > MaxBody)
        BY <2>6, Constants
      <4>2. QED
        BY <2>4, <4>1
    <3>3. QED
      BY <2>3, <2>6, <3>1, <3>2, OtherBody
  <2>7. QED
    BY <2>5, <2>6
<1>5. QED
  BY <1>3, <1>4

\* The body of a complete answer is what was kept of what follows the first empty line.
LEMMA CompleteBody ==
  ASSUME NEW output \in Seq(Elements), NEW p, Complete(p, output), p.found
  PROVE  BodyOf(p) = Trimmed(p.bytes, Octets(output))
<1> DEFINE N == Len(output)
           c == Steps(output)[N]
<1>1. N \in 0 .. N
  OBVIOUS
<1>2. ScanAt(c, output, N)
  BY <1>1, StepsAre
<1> HIDE DEF N, c
<1>3. Reading(p, output, N) /\ ~TooLong(p)
  BY DEF Complete, N
<1>4. c.done
  <2>1. ~c.done => ~c.p.found
    BY <1>2 DEF ScanAt, Unread
  <2>2. ~c.done => p = c.p
    BY <1>3 DEF Reading, c, TooLong, Found
  <2>3. QED
    BY <2>1, <2>2
<1>5. Found(c.p) /\ BodyOf(p) = Trimmed(p.bytes, SubSeq(output, c.i + 1, N))
  BY <1>3, <1>4 DEF Reading, BodyAt, c
<1>6. c.i \in HeaderEnds(output) /\ \A e \in HeaderEnds(output) : c.i <= e
  BY <1>2, <1>4, <1>5 DEF ScanAt, Found, Wrong, TooLong
<1>7. Min(HeaderEnds(output)) = c.i
  <2>1. HeaderEnds(output) \subseteq Nat
    BY DEF HeaderEnds
  <2>2. PICK S : S = HeaderEnds(output)
    OBVIOUS
  <2>3. \A x \in S : (\A y \in S : x =< y) => x = c.i
    BY <1>6, <2>1, <2>2
  <2>4. Min(S) \in S /\ \A y \in S : Min(S) =< y
    BY <1>6, <2>2 DEF Min
  <2>5. QED
    BY <2>2, <2>3, <2>4
<1>8. Octets(output) = SubSeq(output, c.i + 1, N)
  BY <1>6, <1>7 DEF Octets, N
<1>9. QED
  BY <1>5, <1>8

-----------------------------------------------------------------------------
(***************************************************************************)
(* The invariant of what was read.                                         *)
(***************************************************************************)
Reads ==
  /\ state = "CGI_RUNING" =>
       /\ verdict.kind = "none" /\ ~Failed(parser) /\ read <= Len(source.output)
       /\ ~parser.stale => Reading(parser, source.output, read)
  /\ SegmentationIndependent
  /\ verdict.kind = "answer" /\ ~parser.stale => verdict.body = Kept(Octets(source.output))

LEMMA OutputTyped ==
  ASSUME source \in Sources PROVE source.output \in Seq(Elements)
<1>1. source.output \in Seq(Range(source.output))
  BY RelayAssumption DEF IsSource
<1>2. Range(source.output) \subseteq Elements
  BY DEF Elements
<1>3. QED
  BY <1>1, <1>2, SeqMonotonic

LEMMA InitReads == Init => Reads
<1> SUFFICES ASSUME Init PROVE Reads
  OBVIOUS
<1>1. read = 0 /\ parser = NewParser /\ verdict.kind = "none" /\ source \in Sources
  BY DEF Init, Nothing
<1>2. source.output \in Seq(Elements)
  BY <1>1, OutputTyped
<1>3. ~Failed(parser) /\ Reading(parser, source.output, 0)
  BY <1>1, <1>2, StartReading
<1>4. 0 <= Len(source.output)
  BY <1>2
<1>5. QED
  BY <1>1, <1>3, <1>4 DEF Reads, SegmentationIndependent

LEMMA QuietReads ==
  ASSUME Reads, UNCHANGED <<source, read, parser, verdict>>,
         state' # "CGI_RUNING" \/ UNCHANGED state
  PROVE  Reads'
<1>1. SegmentationIndependent' /\ (verdict'.kind = "answer" /\ ~parser'.stale =>
                                     verdict'.body = Kept(Octets(source.output))')
  BY DEF Reads, SegmentationIndependent, Kept, KeptOf
<1>2. QED
  BY <1>1 DEF Reads

LEMMA WholeFails ==
  ASSUME NEW output \in Seq(Elements), NEW n \in 0 .. Len(output), NEW code,
         FailedBy(output, n, code)
  PROVE  Whole(output) = Error(code)
<1>1. PICK w : w = AtOnce(output)
  OBVIOUS
<1>2. FailedBy(output, Len(output), code)
  BY FailedByStays
<1>3. ~Complete(w, output)
  BY <1>2, FailedNotComplete
<1>4. Failed(w) /\ FailedBy(output, Len(output), w.status)
  BY <1>1, <1>3, AtOnceIs
<1>5. w.status = code
  BY <1>2, <1>4, FailedByOne
<1>6. Concluded(w) = Error(code)
  BY <1>4, <1>5 DEF Concluded
<1>7. QED
  BY <1>1, <1>6, WholeIs

LEMMA WholeCompletes ==
  ASSUME NEW output \in Seq(Elements), NEW p \in Parser, Complete(p, output)
  PROVE  Concluded(p) = IF p.bytes = MaxBody THEN WithBody(Whole(output), BodyOf(p))
                        ELSE Whole(output)
<1>1. PICK w : w = AtOnce(output)
  OBVIOUS
<1>2. w \in Parser /\ Complete(w, output)
      /\ (w.found => w.bytes = Len(output) - Steps(output)[Len(output)].i)
  <2>1. ASSUME FailedBy(output, Len(output), w.status) PROVE FALSE
    BY <2>1, FailedNotComplete
  <2>2. QED
    BY <1>1, <2>1, AtOnceIs
<1>3. Concluded(p) = IF p.bytes = MaxBody THEN WithBody(Concluded(w), BodyOf(p))
                     ELSE Concluded(w)
  BY <1>2, CompleteSame
<1>4. QED
  BY <1>1, <1>3, WholeIs

LEMMA PieceReads == IInv /\ Reads /\ ReadPiece => Reads'
<1> SUFFICES ASSUME IInv, Reads, ReadPiece PROVE Reads'
  OBVIOUS
<1>1. PICK n \in 1 .. MaxPiece, stale \in 0 .. 2, disk \in BOOLEAN :
        /\ read + n <= Len(source.output)
        /\ read' = read + n
        /\ LET p == ReceivingData(parser, SubSeq(source.output, read + 1, read + n),
                                  stale, disk)
           IN /\ parser' = p
              /\ IF Failed(p) THEN Conclude(Error(p.status)) ELSE UNCHANGED <<verdict, state>>
  BY DEF ReadPiece
<1>2. /\ source \in Sources /\ state = "CGI_RUNING" /\ BodyOK(parser) /\ parser \in Parser
      /\ read \in Nat /\ source' = source
  BY DEF IInv, Typed, TypeOK, Stages, ReadPiece
<1>3. /\ verdict.kind = "none" /\ ~Failed(parser) /\ read <= Len(source.output)
      /\ ~parser.stale => Reading(parser, source.output, read)
  BY <1>2 DEF Reads
<1>4. PICK output \in Seq(Elements) : output = source.output
  BY <1>2, OutputTyped
<1>5. PICK i \in Nat, k \in 0 .. Len(output) : i = read /\ k = read + n
  BY <1>1, <1>2, <1>4, Constants
<1>6. PICK piece : piece = SubSeq(output, i + 1, k)
  OBVIOUS
<1>7. i \in 0 .. k /\ k - i = n /\ n \in Nat
  BY <1>2, <1>5, Constants
<1>8. /\ piece \in Seq(Elements) /\ Len(piece) = n /\ i + Len(piece) = k
      /\ PieceOf(piece, output, i)
  <2>1. /\ piece \in Seq(Elements) /\ Len(piece) = k - i
        /\ \A j \in 1 .. k - i : piece[j] = output[i + j]
    BY <1>6, <1>7, SubSeqIs
  <2>2. i + n = k /\ k <= Len(output)
    BY <1>2, <1>5, <1>7
  <2>3. QED
    BY <1>7, <2>1, <2>2 DEF PieceOf
<1>9. PICK p : p = ReceivingData(parser, piece, stale, disk)
  OBVIOUS
<1>10. /\ parser' = p /\ read' = k
       /\ IF Failed(p) THEN Conclude(Error(p.status)) ELSE UNCHANGED <<verdict, state>>
  BY <1>1, <1>4, <1>5, <1>6, <1>9
<1>11. ~p.stale => ~parser.stale
  BY <1>2, <1>8, <1>9, ReceivedStale
<1>12. ~p.stale => Call(parser, p, output, i, piece, disk)
  <2>1. SUFFICES ASSUME ~p.stale PROVE Call(parser, p, output, i, piece, disk)
    OBVIOUS
  <2>2. PICK x \in Parser : x = parser
    BY <1>2
  <2>3. /\ BodyOK(x) /\ ~x.stale /\ Reading(x, output, i) /\ stale \in Nat
        /\ p = ReceivingData(x, piece, stale, disk)
    BY <1>2, <1>3, <1>4, <1>5, <1>9, <1>11, <2>1, <2>2
  <2>4. Call(x, p, output, i, piece, disk)
    BY <1>8, <2>1, <2>3, PieceRead
  <2>5. QED
    BY <2>2, <2>4
<1>13. CASE Failed(p)
  <2>1. verdict' = Error(p.status) /\ state' = "ELSEWHERE"
    BY <1>10, <1>13, ErrorIs DEF Conclude
  <2>2. verdict'.kind = "error" /\ verdict'.status = p.status
    BY <2>1, ErrorIs
  <2>3. ASSUME ~p.stale, p.status \notin {500, 504} PROVE verdict' = Whole(output)
    <3>1. FailedBy(output, k, p.status)
      BY <1>8, <1>12, <1>13, <2>3 DEF Call
    <3>2. Whole(output) = Error(p.status)
      BY <3>1, WholeFails
    <3>3. QED
      BY <2>1, <3>2
  <2>4. SegmentationIndependent'
    BY <1>2, <1>4, <1>10, <2>2, <2>3 DEF SegmentationIndependent, KeptOf
  <2>5. QED
    BY <2>1, <2>2, <2>4 DEF Reads
<1>14. CASE ~Failed(p)
  <2>1. verdict' = verdict /\ state' = state
    BY <1>10, <1>14
  <2>2. ~p.stale => Reading(p, output, k)
    <3>1. SUFFICES ASSUME ~p.stale PROVE Reading(p, output, k)
      OBVIOUS
    <3>2. Call(parser, p, output, i, piece, disk)
      BY <1>12, <3>1
    <3>3. p.status = 0
      BY <1>14 DEF Failed
    <3>4. QED
      BY <1>8, <1>14, <3>2, <3>3 DEF Call
  <2>3. k <= Len(source'.output)
    BY <1>2, <1>4
  <2>4. verdict'.kind = "none"
    BY <1>3, <2>1
  <2>5. SegmentationIndependent'
    BY <2>4 DEF SegmentationIndependent
  <2>6. QED
    BY <1>2, <1>4, <1>10, <1>14, <2>1, <2>2, <2>3, <2>4, <2>5 DEF Reads
<1>15. QED
  BY <1>13, <1>14

LEMMA EndReads == IInv /\ Reads /\ EndOfOutput => Reads'
<1> SUFFICES ASSUME IInv, Reads, EndOfOutput PROVE Reads'
  OBVIOUS
<1>1. PICK stale \in 0 .. 2, disk \in BOOLEAN :
        LET p == ReceivingData(parser, <<>>, stale, disk)
        IN parser' = [p EXCEPT !.open = FALSE] /\ Conclude(Concluded(p))
  BY DEF EndOfOutput
<1>2. /\ source \in Sources /\ state = "CGI_RUNING" /\ BodyOK(parser) /\ parser \in Parser
      /\ read \in Nat /\ source' = source /\ read' = read /\ read = Len(source.output)
  BY DEF IInv, Typed, TypeOK, Stages, EndOfOutput
<1>3. ~parser.stale => Reading(parser, source.output, read)
  BY <1>2 DEF Reads
<1>4. PICK output \in Seq(Elements) : output = source.output
  BY <1>2, OutputTyped
<1>5. PICK i \in Nat : i = read /\ i = Len(output)
  BY <1>2, <1>4
<1>6. PICK piece \in Seq(Elements) : piece = <<>>
  BY EmptySequence
<1>7. Len(piece) = 0 /\ i + Len(piece) = i /\ PieceOf(piece, output, i)
  BY <1>5, <1>6 DEF PieceOf
<1>8. PICK p : p = ReceivingData(parser, piece, stale, disk)
  OBVIOUS
<1>9. p \in Parser /\ (~Failed(p) => BodyOK(p))
  BY <1>2, <1>8, ReceivedTyped
<1>10. parser' = [p EXCEPT !.open = FALSE] /\ Conclude(Concluded(p))
  BY <1>1, <1>6, <1>8
<1>11. parser'.stale = p.stale /\ parser'.bytes = p.bytes
  BY <1>9, <1>10 DEF Parser
<1>12. PICK v : v = Concluded(p)
  OBVIOUS
<1>13. /\ v.kind \in {"error", "redirect", "answer"}
       /\ v.kind = "answer" => /\ ~Failed(p) /\ p.found
                               /\ v.chunked = p.chunk /\ v.body = BodyOf(p)
  BY <1>12, ConcludedIs
<1>14. verdict' = v /\ state' # "CGI_RUNING"
  BY <1>10, <1>12 DEF Conclude
<1>15. stale \in Nat
  OBVIOUS
<1>16. ~p.stale => ~parser.stale
  BY <1>2, <1>8, <1>15, ReceivedStale
<1>17. ASSUME ~p.stale
       PROVE  \/ p.status = 500
              \/ Failed(p) /\ FailedBy(output, i, p.status)
              \/ Complete(p, output)
  <2>1. PICK x \in Parser : x = parser
    BY <1>2
  <2>2. /\ BodyOK(x) /\ ~x.stale /\ Reading(x, output, i)
        /\ p = ReceivingData(x, piece, stale, disk)
    BY <1>2, <1>3, <1>4, <1>5, <1>8, <1>16, <1>17, <2>1
  <2>3. Call(x, p, output, i, piece, disk)
    BY <1>7, <1>15, <1>17, <2>2, PieceRead
  <2>4. QED
    BY <1>5, <1>7, <1>9, <2>3 DEF Call, Complete
<1>18. ASSUME ~p.stale, v.status \notin {500, 504}
       PROVE  v = (IF Whole(output).kind = "answer" /\ p.bytes = MaxBody
                     THEN WithBody(Whole(output), Trimmed(p.bytes, Octets(output)))
                   ELSE Whole(output))
  <2>1. CASE Failed(p)
    <3>1. v = Error(p.status)
      BY <1>12, <2>1 DEF Concluded
    <3>2. p.status # 500
      BY <1>18, <3>1, ErrorIs
    <3>3. FailedBy(output, i, p.status)
      BY <1>17, <1>18, <2>1, <3>2 DEF Complete
    <3>4. Whole(output) = Error(p.status)
      <4>1. i \in 0 .. Len(output)
        BY <1>5
      <4>2. QED
        BY <3>3, <4>1, WholeFails
    <3>5. QED
      BY <3>1, <3>4, ErrorIs
  <2>2. CASE ~Failed(p)
    <3>1. Complete(p, output)
      BY <1>17, <1>18, <2>2 DEF Failed
    <3>2. v = IF p.bytes = MaxBody THEN WithBody(Whole(output), BodyOf(p)) ELSE Whole(output)
      BY <1>9, <1>12, <3>1, WholeCompletes
    <3>3. p.bytes = MaxBody => BodyOf(p) = Trimmed(p.bytes, Octets(output))
      BY <3>1, CompleteBody, Constants DEF Complete, BodyOK
    <3>4. QED
      BY <3>2, <3>3 DEF WithBody
  <2>3. QED
    BY <2>1, <2>2
<1>19. ASSUME ~p.stale, v.kind = "answer"
       PROVE  v.body = Trimmed(p.bytes, Octets(output))
  <2>1. ~Failed(p) /\ p.found /\ v.body = BodyOf(p)
    BY <1>13, <1>19
  <2>2. Complete(p, output)
    BY <1>17, <1>19, <2>1 DEF Failed
  <2>3. QED
    BY <2>1, <2>2, CompleteBody
<1>20. Kept(Octets(source.output))' = Trimmed(p.bytes, Octets(output))
  BY <1>2, <1>4, <1>11 DEF Kept, Trimmed, Cropped
<1>21. SegmentationIndependent'
  <2>1. ASSUME NEW answer, answer = Whole(output)
        PROVE  KeptOf(answer)' = IF answer.kind = "answer" /\ p.bytes = MaxBody
                                   THEN WithBody(answer, Trimmed(p.bytes, Octets(output)))
                                 ELSE answer
    BY <1>2, <1>4, <1>11, <1>20, <2>1 DEF KeptOf, WithBody
  <2>2. QED
    BY <1>2, <1>4, <1>11, <1>14, <1>18, <2>1 DEF SegmentationIndependent
<1>22. verdict'.kind = "answer" /\ ~parser'.stale => verdict'.body = Kept(Octets(source.output))'
  BY <1>11, <1>14, <1>19, <1>20
<1>23. QED
  BY <1>14, <1>21, <1>22 DEF Reads

LEMMA NextReads == IInv /\ Reads /\ [Next]_vars => Reads'
<1> SUFFICES ASSUME IInv, Reads, [Next]_vars PROVE Reads'
  OBVIOUS
<1>1. CASE ReadPiece
  BY <1>1, PieceReads
<1>2. CASE EndOfOutput
  BY <1>2, EndReads
<1>3. CASE EndBadly
  <2>1. PICK code \in {504, 500} : verdict' = Error(code) /\ state' # "CGI_RUNING"
    BY <1>3 DEF EndBadly, Conclude
  <2>2. verdict'.kind = "error" /\ verdict'.status \in {504, 500}
    BY <2>1, ErrorIs
  <2>3. QED
    BY <2>1, <2>2 DEF Reads, SegmentationIndependent
<1>4. CASE InitRespondBuffer
  BY <1>4, QuietReads DEF InitRespondBuffer, StartAnswer
<1>5. CASE SendMemory \/ SendFile \/ SendIndex
  <2>1. UNCHANGED <<source, read, parser, verdict>> /\ state' # "CGI_RUNING"
    BY <1>5 DEF SendMemory, SendFile, SendIndex, Send
  <2>2. QED
    BY <2>1, QuietReads
<1>6. CASE OpenFails
  BY <1>6, QuietReads DEF OpenFails
<1>7. CASE CloseConnection
  BY <1>7, QuietReads DEF CloseConnection
<1>8. CASE UNCHANGED vars
  BY <1>8, QuietReads DEF vars
<1>9. QED
  BY <1>1, <1>2, <1>3, <1>4, <1>5, <1>6, <1>7, <1>8 DEF Next

LEMMA AlwaysReads == Spec => []Reads
<1>1. Init => IInv /\ Reads
  BY InitInv, InitReads
<1>2. (IInv /\ Reads) /\ [Next]_vars => (IInv /\ Reads)'
  BY NextKeeps, NextReads
<1>3. QED
  BY <1>1, <1>2, PTL DEF Spec

\* What the server makes of the output of a CGI does not depend on where the pipe
\* cut it (clsParseOutCGI::ReceivingData), for every output and every length of its
\* pieces: the verdict is that of an output that came at once, with what the memory
\* kept of its body.  A verdict of 500 or 504, which the disk, the exit or the timeout
\* makes, and an output of which the byte behind a piece was taken for a part, are
\* outside it.
THEOREM CutAnywhere == Spec => []SegmentationIndependent
<1>1. Reads => SegmentationIndependent
  BY DEF Reads
<1>2. QED
  BY <1>1, AlwaysReads, PTL

\* An answer of _SendRespond that has ended was sent whole, whatever each send()
\* took: every octet of the file, or of what was kept of the output (all of it, but
\* for the end of a memory that was just full), once and in order, with nothing left
\* in io_chunk.  A listing was put in io_chunk up to its last chunk.  Which octets
\* an answer has is not said when the byte behind a piece was taken for a part, but
\* they are as many as were announced.
THEOREM SentWhole == Spec => []Delivered
<1>1. ASSUME IInv, Reads PROVE Delivered
  <2>1. SUFFICES ASSUME state = "BEGIN" PROVE Delivered
    BY DEF Delivered
  <2>2. CASE place = "AUTO_INDEX"
    <3>1. dir.flow = "DONE_AUTO_INDEX" /\ Out[Len(Out)] = LastChunk
      BY <1>1, <2>1, <2>2 DEF IInv, Delivering
    <3>2. QED
      BY <2>1, <2>2, <3>1 DEF Delivered, Last
  <2>3. CASE place # "AUTO_INDEX"
    <3>1. /\ buffer = <<>> /\ wire \in Seq(Tokens) /\ buffer \in Seq(Tokens)
          /\ place \in {"RAM", "DISK"} /\ source \in Sources
      BY <1>1, <2>1, <2>3 DEF IInv, Typed, TypeOK, Stages, Delivering, Places
    <3>2. Out = wire
      BY <3>1 DEF Out
    <3>3. Contiguous(wire) /\ Carried(wire) = BodySize
      <4>1. CASE place = "RAM"
        <5>1. wire = Memory
          BY <1>1, <2>1, <3>2, <4>1 DEF IInv, Delivering
        <5>2. Typed /\ Stages
          BY <1>1 DEF IInv
        <5>3. BodySize \in Nat
          BY <4>1, <5>2, BodySizeNat
        <5>4. PICK n \in Nat : n = BodySize
          BY <5>3
        <5>5. PICK t : t = IF n > 0 THEN <<HeadToken, Run(1, n)>> ELSE <<HeadToken>>
          OBVIOUS
        <5>6. Contiguous(t) /\ Carried(t) = n
          BY <5>5, MemoryIs
        <5>7. wire = t
          BY <5>1, <5>4, <5>5 DEF Memory
        <5>8. QED
          BY <5>4, <5>6, <5>7
      <4>2. CASE place = "DISK"
        <5>1. /\ Carried(wire) = offset /\ offset + limit = BodySize /\ Contiguous(wire)
              /\ limit = 0 /\ offset \in Nat
          BY <1>1, <2>1, <3>2, <4>2 DEF IInv, Delivering, Typed, TypeOK
        <5>2. QED
          BY <5>1
      <4>3. QED
        BY <3>1, <4>1, <4>2
    <3>4. place = "DISK" => Last(wire) = LastChunk
      BY <1>1, <2>1, <3>2 DEF IInv, Delivering, Last
    <3>5. ASSUME source.kind = "cgi"
          PROVE  /\ Len(verdict.body) = BodySize
                 /\ ~parser.stale => verdict.body = Kept(Octets(source.output))
      <4>1. Answered
        BY <1>1, <2>1, <3>1, <3>5 DEF IInv, Stages
      <4>2. Len(verdict.body) = BodySize
        BY <3>5, <4>1 DEF Answered, BodyOK, BodySize
      <4>3. QED
        BY <1>1, <4>1, <4>2 DEF Answered, Reads
    <3>6. QED
      BY <2>3, <3>1, <3>3, <3>4, <3>5 DEF Delivered
  <2>4. QED
    BY <2>2, <2>3
<1>2. QED
  BY <1>1, AlwaysIInv, AlwaysReads, PTL
=============================================================================
