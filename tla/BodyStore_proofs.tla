--------------------------- MODULE BodyStore_proofs ---------------------------
(***************************************************************************)
(* What BodyStore keeps for every number of slots, names and lengths:      *)
(* first whether or not two slots post to the same name, then what is in   *)
(* the files when none do.                                                 *)
(***************************************************************************)
EXTENDS BodyStore, SequenceTheorems, TLAPS

Contents == Seq(Octets) \cup {None}

\* A slot without a request, or with no headers yet, is as Reset leaves it:
\* nothing of an earlier body is there but its step.
FreshBody == \A s \in Slots :
  conn[s] \in {"free", "head"} =>
    body[s] = [NewBody EXCEPT !.step = body[s].step]

\* The counters of a clsBody agree with the request it serves.
Counted(b, r) ==
  /\ b.written <= r.length
  /\ IF b.isChunk THEN b.step \in {"READING_BODY", "SECOND_CRLF"}
     ELSE b.contentLength <= r.length

Counters == \A s \in Slots :
  /\ conn[s] = "body" => asked[s] \in Requests /\ Counted(body[s], asked[s])
  /\ conn[s] # "body" => body[s].written = 0

\* A name that still leads to an open file is the name of an existing one, and
\* what mkstemp made in /tmp will be removed by Reset.
Linking(b, files) ==
  b.linked => /\ b.open
              /\ b.name \in Files
              /\ files[b.name] \in Seq(Octets)
              /\ b.name \in TempNames => b.removeFile

Links == \A s \in Slots : Linking(body[s], file)

StoreInv == TypeOK /\ FreshBody /\ Counters /\ Links /\ NoTempLeft

\* The clsBody b of slot s, and the files, in the middle of a handler.
Midway(s, b, files, r) ==
  /\ b \in Body
  /\ files \in [Files -> Contents]
  /\ Counted(b, r)
  /\ Linking(b, files)
  /\ \A t \in Slots \ {s} : Linking(body[t], files)
  /\ \A n \in TempNames :
       files[n] # None =>
         \/ b.open /\ b.linked /\ b.name = n
         \/ \E t \in Slots \ {s} : conn[t] # "free" /\ Holds(t, n)

-----------------------------------------------------------------------------
LEMMA LengthsType == \A l \in Lengths : l \in Nat /\ l > 0
  BY StoreAssumption

LEMMA NewBodyType ==
  ASSUME NEW st \in step
  PROVE  [NewBody EXCEPT !.step = st] \in Body
  BY DEF NewBody, Body

\* What write() leaves in a file is a sequence of octets.
LEMMA OverwrittenType ==
  ASSUME NEW octets \in Seq(Octets), NEW from \in Nat, NEW k \in Nat,
         NEW o \in Octets
  PROVE  Overwritten(octets, from, k, o) \in Seq(Octets)
<1> DEFINE m == IF from + k > Len(octets) THEN from + k ELSE Len(octets)
<1>1. Len(octets) \in Nat
  OBVIOUS
<1>2. m \in Nat
  BY <1>1
<1>3. \A i \in 1 .. m : (IF i \in from + 1 .. from + k THEN o
                         ELSE IF i <= Len(octets) THEN octets[i] ELSE None)
                        \in Octets
  <2>1. None \in Octets
    BY DEF Octets
  <2>2. \A i \in 1 .. m : i <= Len(octets) => octets[i] \in Octets
    BY <1>1, <1>2, ElementOfSeq
  <2>3. QED
    BY <2>1, <2>2
<1>4. QED
  BY <1>2, <1>3, SeqDef DEF Overwritten

LEMMA WrittenType ==
  ASSUME NEW b \in Body, NEW files \in [Files -> Contents],
         NEW k \in Nat, NEW o \in Octets, Linking(b, files)
  PROVE  /\ Written(files, b, k, o) \in [Files -> Contents]
         /\ \A n \in Files :
              files[n] \in Seq(Octets) =>
                Written(files, b, k, o)[n] \in Seq(Octets)
         /\ \A n \in Files :
              \/ Written(files, b, k, o)[n] = files[n]
              \/ b.open /\ b.linked /\ b.name = n
<1>1. CASE b.linked /\ k > 0
  <2>1. /\ b.open
        /\ b.name \in Files
        /\ files[b.name] \in Seq(Octets)
    BY <1>1 DEF Linking
  <2>2. b.written \in Nat
    BY DEF Body
  <2>3. Overwritten(files[b.name], b.written, k, o) \in Seq(Octets)
    BY <2>1, <2>2, OverwrittenType
  <2>4. Written(files, b, k, o)
          = [files EXCEPT ![b.name] = Overwritten(files[b.name], b.written, k, o)]
    BY <1>1 DEF Written
  <2>5. Written(files, b, k, o) \in [Files -> Contents]
    BY <2>1, <2>3, <2>4 DEF Contents
  <2>6. \A n \in Files :
          Written(files, b, k, o)[n] = IF n = b.name
            THEN Overwritten(files[b.name], b.written, k, o) ELSE files[n]
    BY <2>1, <2>4
  <2>7. QED
    BY <1>1, <2>1, <2>3, <2>5, <2>6
<1>2. CASE ~(b.linked /\ k > 0)
  <2>1. Written(files, b, k, o) = files
    BY <1>2 DEF Written
  <2>2. QED
    BY <2>1
<1>3. QED
  BY <1>1, <1>2

\* ParseBody counts no further than the length of the body.
LEMMA AdvancedType ==
  ASSUME NEW b \in Body, NEW r \in Requests, Counted(b, r),
         NEW k \in Pieces(b, r), NEW st \in StepsAfter(b, r, k)
  PROVE  LET c == Advanced(b, st, k) IN
         /\ k \in Nat
         /\ st \in step
         /\ c \in Body
         /\ c.open = b.open /\ c.linked = b.linked /\ c.name = b.name
         /\ c.removeFile = b.removeFile
         /\ Counted(c, r)
         /\ st \notin {"READING_BODY", "SECOND_CRLF"} => c.written = 0
<1>1. /\ b.written \in Nat
      /\ b.contentLength \in Nat
      /\ b.step \in step
      /\ b.isChunk \in BOOLEAN
  <2>1. b.contentLength \in Lengths \cup {0}
    BY DEF Body
  <2>2. b.contentLength \in Nat
    BY <2>1, LengthsType
  <2>3. QED
    BY <2>2 DEF Body
<1>2. r.length \in Nat
  BY LengthsType DEF Requests
<1>3. /\ k \in Nat
      /\ b.written + k \in Nat
      /\ b.written + k <= r.length
  BY <1>1, <1>2 DEF Pieces, Counted
<1>4. st \in step
  BY <1>1 DEF StepsAfter, step
<1>5. CASE st \in {"DONE_GOOD", "DONE_WIHTERROR"}
  <2>1. Advanced(b, st, k) = [b EXCEPT !.step = st, !.contentLength = 0,
                                       !.isChunk = FALSE, !.written = 0]
    BY <1>5 DEF Advanced
  <2>2. Advanced(b, st, k) \in Body
    <3>1. Advanced(b, st, k)
            = [step |-> st, open |-> b.open, linked |-> b.linked,
               name |-> b.name, removeFile |-> b.removeFile,
               contentLength |-> 0, isChunk |-> FALSE, written |-> 0]
      BY <2>1 DEF Body
    <3>2. QED
      BY <1>4, <3>1 DEF Body
  <2> DEFINE c == Advanced(b, st, k)
  <2>3. /\ c.written = 0 /\ c.contentLength = 0 /\ c.isChunk = FALSE
        /\ c.open = b.open /\ c.linked = b.linked /\ c.name = b.name
        /\ c.removeFile = b.removeFile
    BY <2>1 DEF Body
  <2>4. Counted(c, r)
    BY <1>2, <2>3 DEF Counted
  <2>5. QED
    BY <1>3, <1>4, <2>2, <2>3, <2>4
<1>6. CASE st \notin {"DONE_GOOD", "DONE_WIHTERROR"}
  <2>1. Advanced(b, st, k) = [b EXCEPT !.step = st, !.written = b.written + k]
    BY <1>6 DEF Advanced
  <2>2. st \in {"READING_BODY", "SECOND_CRLF"}
    BY <1>1, <1>6 DEF StepsAfter, Counted
  <2>3. QED
    BY <1>3, <1>4, <2>1, <2>2 DEF Body, Counted
<1>7. QED
  BY <1>5, <1>6

-----------------------------------------------------------------------------
(***************************************************************************)
(* The handlers.                                                           *)
(***************************************************************************)
\* Whatever the pieces of a body, the end of a handler restores the invariant.
LEMMA ParseBodyKeeps ==
  ASSUME StoreInv, NEW s \in Slots, NEW b, NEW files, NEW r \in Requests,
         Midway(s, b, files, r), ParseBody(s, b, files, r),
         asked' = [asked EXCEPT ![s] = r], errno' \in {"EISDIR", "other"}
  PROVE  StoreInv'
<1>1. PICK k \in Pieces(b, r) : \E st \in StepsAfter(b, r, k) :
        /\ body' = [body EXCEPT ![s] = Advanced(b, st, k)]
        /\ file' = Written(files, b, k, <<s, r.length>>)
        /\ conn' = [conn EXCEPT ![s] =
                      IF st \in {"READING_BODY", "SECOND_CRLF"} THEN "body"
                      ELSE "done"]
  BY DEF ParseBody
<1>2. PICK st \in StepsAfter(b, r, k) :
        /\ body' = [body EXCEPT ![s] = Advanced(b, st, k)]
        /\ file' = Written(files, b, k, <<s, r.length>>)
        /\ conn' = [conn EXCEPT ![s] =
                      IF st \in {"READING_BODY", "SECOND_CRLF"} THEN "body"
                      ELSE "done"]
  BY <1>1
<1> DEFINE c == Advanced(b, st, k)
<1>3. /\ b \in Body
      /\ files \in [Files -> Contents]
      /\ Counted(b, r)
      /\ Linking(b, files)
  BY DEF Midway
<1>4. /\ k \in Nat
      /\ c \in Body
      /\ c.open = b.open /\ c.linked = b.linked /\ c.name = b.name
      /\ c.removeFile = b.removeFile
      /\ Counted(c, r)
      /\ st \notin {"READING_BODY", "SECOND_CRLF"} => c.written = 0
  BY <1>3, AdvancedType
<1>5. <<s, r.length>> \in Octets
  BY DEF Octets, Requests
<1>6. /\ file' \in [Files -> Contents]
      /\ \A n \in Files : files[n] \in Seq(Octets) => file'[n] \in Seq(Octets)
      /\ \A n \in Files :
           \/ file'[n] = files[n]
           \/ b.open /\ b.linked /\ b.name = n
  <2> DEFINE w == Written(files, b, k, <<s, r.length>>)
  <2>1. /\ w \in [Files -> Contents]
        /\ \A n \in Files : files[n] \in Seq(Octets) => w[n] \in Seq(Octets)
        /\ \A n \in Files :
             \/ w[n] = files[n]
             \/ b.open /\ b.linked /\ b.name = n
    <3>1. k \in Nat
      BY <1>4
    <3>2. QED
      BY <1>3, <1>5, <3>1, WrittenType
  <2>2. QED
    BY <1>2, <2>1
<1>7. /\ conn \in [Slots -> {"free", "idle", "head", "body", "done"}]
      /\ body \in [Slots -> Body]
      /\ asked \in [Slots -> Requests \cup {NoRequest}]
      /\ \A t \in Slots : body[t].written <= asked[t].length
  BY DEF StoreInv, TypeOK
<1>8. /\ body'[s] = c
      /\ asked'[s] = r
      /\ conn'[s] = IF st \in {"READING_BODY", "SECOND_CRLF"} THEN "body"
                    ELSE "done"
      /\ \A t \in Slots \ {s} :
           /\ body'[t] = body[t]
           /\ asked'[t] = asked[t]
           /\ conn'[t] = conn[t]
  BY <1>2, <1>7
<1>9. TypeOK'
  <2>1. /\ conn' \in [Slots -> {"free", "idle", "head", "body", "done"}]
        /\ body' \in [Slots -> Body]
        /\ asked' \in [Slots -> Requests \cup {NoRequest}]
    BY <1>2, <1>4, <1>7
  <2>2. \A t \in Slots : body'[t].written <= asked'[t].length
    BY <1>4, <1>7, <1>8 DEF Counted
  <2>3. QED
    BY <1>6, <2>1, <2>2 DEF TypeOK, Contents
<1>10. FreshBody'
  BY <1>8 DEF StoreInv, FreshBody
<1>11. Counters'
  BY <1>4, <1>8 DEF StoreInv, Counters
<1>12. Links'
  <2>1. Linking(c, file')
    BY <1>3, <1>4, <1>6 DEF Linking
  <2>2. \A t \in Slots \ {s} : Linking(body[t], file')
    BY <1>6 DEF Midway, Linking
  <2>3. QED
    BY <1>8, <2>1, <2>2 DEF Links
<1>13. NoTempLeft'
  <2> SUFFICES ASSUME NEW n \in TempNames, file'[n] # None
               PROVE  \E t \in Slots : conn'[t] # "free" /\ Holds(t, n)'
    BY DEF NoTempLeft, Exists, Held
  <2>1. CASE b.open /\ b.linked /\ b.name = n
    <3>1. conn'[s] # "free" /\ Holds(s, n)'
      BY <1>4, <1>8, <2>1 DEF Holds
    <3>2. QED
      BY <3>1
  <2>2. CASE ~(b.open /\ b.linked /\ b.name = n)
    <3>1. n \in Files
      BY DEF Files
    <3>2. files[n] # None
      BY <1>6, <2>2, <3>1
    <3>3. PICK t \in Slots \ {s} : conn[t] # "free" /\ Holds(t, n)
      BY <2>2, <3>2 DEF Midway
    <3>4. conn'[t] # "free" /\ Holds(t, n)'
      BY <1>8, <3>3 DEF Holds
    <3>5. QED
      BY <3>4
  <2>3. QED
    BY <2>1, <2>2
<1>14. QED
  BY <1>9, <1>10, <1>11, <1>12, <1>13 DEF StoreInv

\* Reset, when a request begins and when a connection ends: what is removed is
\* the file of this slot, and a temporary file of this slot is removed.
LEMMA ResetKeeps ==
  ASSUME StoreInv, NEW s \in Slots, Reset(s), NEW to \in {"free", "head"},
         conn' = [conn EXCEPT ![s] = to], errno' = errno
  PROVE  StoreInv'
<1> DEFINE b == body[s]
           gone == Discards(b)
           fresh == [NewBody EXCEPT !.step = b.step]
<1>1. /\ conn \in [Slots -> {"free", "idle", "head", "body", "done"}]
      /\ body \in [Slots -> Body]
      /\ asked \in [Slots -> Requests \cup {NoRequest}]
      /\ \A t \in Slots : body[t].written <= asked[t].length
      /\ file \in [Files -> Contents]
      /\ errno \in {"EISDIR", "other"}
  BY DEF StoreInv, TypeOK, Contents
<1>2. /\ fresh \in Body
      /\ fresh.step = b.step
      /\ fresh.written = 0
      /\ fresh.linked = FALSE
  <2>1. b.step \in step
    BY <1>1 DEF Body
  <2>2. QED
    BY <2>1, NewBodyType DEF NewBody
<1>3. /\ body'[s] = fresh
      /\ body' \in [Slots -> Body]
      /\ \A t \in Slots \ {s} :
           body'[t] = IF gone /\ body[t].name = b.name
                        THEN [body[t] EXCEPT !.linked = FALSE] ELSE body[t]
  <2>1. \A t \in Slots : [body[t] EXCEPT !.linked = FALSE] \in Body
    BY <1>1 DEF Body
  <2>2. Unlinked(body, b.name)
          = [t \in Slots |-> IF body[t].name = b.name
                               THEN [body[t] EXCEPT !.linked = FALSE]
                               ELSE body[t]]
    BY DEF Unlinked
  <2>3. CASE gone
    <3>1. body' = [Unlinked(body, b.name) EXCEPT ![s] = fresh]
      BY <2>3 DEF Reset
    <3>2. QED
      BY <1>2, <2>1, <2>2, <2>3, <3>1, <1>1
  <2>4. CASE ~gone
    <3>1. body' = [body EXCEPT ![s] = fresh]
      BY <2>4 DEF Reset
    <3>2. QED
      BY <1>1, <1>2, <2>4, <3>1
  <2>5. QED
    BY <2>3, <2>4
<1>4. \A t \in Slots \ {s} :
        /\ body'[t].open = body[t].open
        /\ body'[t].name = body[t].name
        /\ body'[t].removeFile = body[t].removeFile
        /\ body'[t].step = body[t].step
        /\ body'[t].written = body[t].written
        /\ body'[t].contentLength = body[t].contentLength
        /\ body'[t].isChunk = body[t].isChunk
        /\ body'[t].linked =
             (body[t].linked /\ ~(gone /\ body[t].name = b.name))
  <2>1. \A t \in Slots \ {s} : body[t] \in Body
    BY <1>1
  <2>2. QED
    BY <1>3, <2>1 DEF Body
<1>5. /\ asked' = [asked EXCEPT ![s] = NoRequest]
      /\ file' = IF gone THEN [file EXCEPT ![b.name] = None] ELSE file
  BY DEF Reset
<1>6. TypeOK'
  <2>1. file' \in [Files -> Contents]
    BY <1>1, <1>5 DEF Contents
  <2>2. \A t \in Slots : body'[t].written <= asked'[t].length
    <3>1. body'[s].written <= asked'[s].length
      BY <1>1, <1>2, <1>3, <1>5 DEF NoRequest
    <3>2. \A t \in Slots \ {s} : asked'[t] = asked[t]
      BY <1>1, <1>5
    <3>3. \A t \in Slots \ {s} : body'[t].written <= asked'[t].length
      BY <1>1, <1>4, <3>2
    <3>4. QED
      BY <3>1, <3>3
  <2>3. QED
    BY <1>1, <1>3, <1>5, <2>1, <2>2 DEF TypeOK, Contents
<1>7. FreshBody'
  <2> SUFFICES ASSUME NEW t \in Slots, conn'[t] \in {"free", "head"}
               PROVE  body'[t] = [NewBody EXCEPT !.step = body'[t].step]
    BY DEF FreshBody
  <2>1. CASE t = s
    BY <1>2, <1>3, <2>1
  <2>2. CASE t # s
    <3>1. body[t] = [NewBody EXCEPT !.step = body[t].step]
      BY <1>1, <2>2 DEF StoreInv, FreshBody
    <3>2. body[t].linked = FALSE /\ body[t] \in Body
      BY <1>1, <3>1 DEF NewBody
    <3>3. [body[t] EXCEPT !.linked = FALSE] = body[t]
      BY <3>2 DEF Body
    <3>4. QED
      BY <1>3, <2>2, <3>1, <3>3
  <2>3. QED
    BY <2>1, <2>2
<1>8. Counters'
  <2>1. conn'[s] # "body" /\ body'[s].written = 0
    BY <1>1, <1>2, <1>3
  <2>2. \A t \in Slots \ {s} : asked'[t] = asked[t] /\ conn'[t] = conn[t]
    BY <1>1, <1>5
  <2>3. \A t \in Slots \ {s} :
          /\ conn[t] = "body" => asked[t] \in Requests /\ Counted(body'[t], asked[t])
          /\ conn[t] # "body" => body'[t].written = 0
    BY <1>4 DEF StoreInv, Counters, Counted
  <2>4. QED
    BY <2>1, <2>2, <2>3 DEF Counters
<1>9. Links'
  <2> SUFFICES ASSUME NEW t \in Slots, body'[t].linked
               PROVE  Linking(body'[t], file')
    BY DEF Links, Linking
  <2>1. t # s
    BY <1>2, <1>3
  <2>2. body[t].linked /\ Linking(body[t], file)
    BY <1>4, <2>1 DEF StoreInv, Links
  <2>3. file'[body[t].name] = file[body[t].name]
    BY <1>1, <1>4, <1>5, <2>1, <2>2 DEF Linking
  <2>4. QED
    BY <1>4, <2>1, <2>2, <2>3 DEF Linking
<1>10. NoTempLeft'
  <2> SUFFICES ASSUME NEW n \in TempNames, file'[n] # None
               PROVE  \E t \in Slots : conn'[t] # "free" /\ Holds(t, n)'
    BY DEF NoTempLeft, Exists, Held
  <2>0. n \in Files
    BY DEF Files
  <2>1. file[n] # None /\ ~(gone /\ b.name = n)
    BY <1>1, <1>5, <2>0
  <2>2. PICK t \in Slots : conn[t] # "free" /\ Holds(t, n)
    BY <2>1 DEF StoreInv, NoTempLeft, Exists, Held
  <2>3. t # s
    <3> SUFFICES ASSUME t = s PROVE FALSE
      OBVIOUS
    <3>1. b.open /\ b.linked /\ b.name = n
      BY <2>2 DEF Holds
    <3>2. b.removeFile
      BY <3>1 DEF StoreInv, Links, Linking
    <3>3. QED
      BY <2>1, <3>1, <3>2 DEF Discards
  <2>4. conn'[t] # "free"
    BY <1>1, <2>2, <2>3
  <2>5. Holds(t, n)'
    BY <1>4, <2>1, <2>2, <2>3 DEF Holds
  <2>6. QED
    BY <2>4, <2>5
<1>11. QED
  BY <1>6, <1>7, <1>8, <1>9, <1>10 DEF StoreInv

LEMMA TruncatedType ==
  ASSUME TypeOK, NEW n \in Files
  PROVE  /\ Truncated(n) \in [Files -> Contents]
         /\ Truncated(n)[n] \in Seq(Octets)
         /\ \A m \in Files : file[m] \in Seq(Octets) =>
                            Truncated(n)[m] \in Seq(Octets)
         /\ \A m \in Files \ {n} : Truncated(n)[m] = file[m]
<1>1. file \in [Files -> Contents]
  BY DEF TypeOK, Contents
<1>2. <<>> \in Seq(Octets) /\ <<>> \in Contents
  BY DEF Contents
<1>3. QED
  BY <1>1, <1>2 DEF Truncated

\* A slot about to open a file holds none.
LEMMA HeadHoldsNothing ==
  ASSUME StoreInv, NEW s \in Slots, conn[s] = "head"
  PROVE  /\ body[s] \in Body
         /\ body[s].open = FALSE
         /\ body[s].linked = FALSE
         /\ body[s].isChunk = FALSE
         /\ body[s].written = 0
         /\ body[s].contentLength = 0
<1>1. body[s] \in Body
  BY DEF StoreInv, TypeOK
<1>2. body[s] = [NewBody EXCEPT !.step = body[s].step]
  BY DEF StoreInv, FreshBody
<1>3. QED
  BY <1>1, <1>2 DEF NewBody

\* open() and mkstemp() hand a file over to a slot: a temporary one only to a
\* request for a CGI.
LEMMA OpenMidway ==
  ASSUME StoreInv, NEW s \in Slots, conn[s] = "head", NEW r \in Requests,
         NEW n \in Files, n \in TempNames => r.kind = "cgi"
  PROVE  Midway(s, Open(body[s], r, n), Truncated(n), r)
<1> DEFINE b == body[s]
           c == Open(b, r, n)
<1>1. /\ b \in Body
      /\ b.written = 0
  BY HeadHoldsNothing
<1>2. /\ r.length \in Lengths
      /\ r.chunked \in BOOLEAN
      /\ r.length \in Nat
  BY LengthsType DEF Requests
<1> DEFINE temporary == r.kind = "cgi"
           total == IF r.chunked THEN 0 ELSE r.length
<1>a. temporary \in BOOLEAN /\ (n \in TempNames => temporary = TRUE)
  OBVIOUS
<1>b. total \in Lengths \cup {0} /\ (r.chunked = FALSE => total = r.length)
  BY <1>2
<1>c. c = [b EXCEPT !.step = "READING_BODY", !.open = TRUE, !.linked = TRUE,
                    !.name = n, !.removeFile = temporary,
                    !.contentLength = total, !.isChunk = r.chunked]
  BY DEF Open
<1> HIDE DEF temporary, total, c
<1>3. c = [step |-> "READING_BODY", open |-> TRUE, linked |-> TRUE, name |-> n,
           removeFile |-> temporary, contentLength |-> total,
           isChunk |-> r.chunked, written |-> 0]
  BY <1>1, <1>c DEF Body
<1>4. c \in Body
  BY <1>2, <1>3, <1>a, <1>b DEF Body, step
<1>5. Counted(c, r)
  BY <1>2, <1>3, <1>b DEF Counted
<1>6. TypeOK
  BY DEF StoreInv
<1>7. Linking(c, Truncated(n))
  BY <1>3, <1>6, <1>a, TruncatedType DEF Linking
<1>8. \A t \in Slots \ {s} : Linking(body[t], Truncated(n))
  BY <1>6, TruncatedType DEF StoreInv, Links, Linking
<1>9. ASSUME NEW m \in TempNames, Truncated(n)[m] # None
      PROVE  \/ c.open /\ c.linked /\ c.name = m
             \/ \E t \in Slots \ {s} : conn[t] # "free" /\ Holds(t, m)
  <2>1. CASE m = n
    BY <1>3, <2>1
  <2>2. CASE m # n
    <3>1. m \in Files
      BY DEF Files
    <3>2. file[m] # None
      BY <1>6, <1>9, <2>2, <3>1, TruncatedType
    <3>3. PICK t \in Slots : conn[t] # "free" /\ Holds(t, m)
      BY <3>2 DEF StoreInv, NoTempLeft, Exists, Held
    <3>4. t # s
      BY <3>3, HeadHoldsNothing DEF Holds
    <3>5. QED
      BY <3>3, <3>4
  <2>3. QED
    BY <2>1, <2>2
<1>10. Truncated(n) \in [Files -> Contents]
  BY <1>6, TruncatedType
<1>11. QED
  BY <1>4, <1>5, <1>7, <1>8, <1>9, <1>10 DEF Midway, c

\* The slot is left as it was but for its step; a file an upload names may have
\* been truncated on the way.
LEMMA FailedKeeps ==
  ASSUME StoreInv, NEW s \in Slots, conn[s] = "head", NEW r \in Requests,
         \/ file' = file
         \/ \E n \in Names : file' = Truncated(n),
         body' = [body EXCEPT ![s] = Failed(body[s])],
         conn' = [conn EXCEPT ![s] = "done"],
         asked' = [asked EXCEPT ![s] = r], errno' \in {"EISDIR", "other"}
  PROVE  StoreInv'
<1> DEFINE c == Failed(body[s])
<1>1. /\ conn \in [Slots -> {"free", "idle", "head", "body", "done"}]
      /\ body \in [Slots -> Body]
      /\ asked \in [Slots -> Requests \cup {NoRequest}]
      /\ \A t \in Slots : body[t].written <= asked[t].length
      /\ file \in [Files -> Contents]
      /\ TypeOK
  BY DEF StoreInv, TypeOK, Contents
<1>2. /\ c \in Body
      /\ c.linked = FALSE
      /\ c.written = 0
  BY HeadHoldsNothing DEF Failed, Body, step
<1>3. /\ body'[s] = c
      /\ asked'[s] = r
      /\ conn'[s] = "done"
      /\ \A t \in Slots \ {s} :
           /\ body'[t] = body[t]
           /\ asked'[t] = asked[t]
           /\ conn'[t] = conn[t]
  BY <1>1
<1>4. /\ file' \in [Files -> Contents]
      /\ \A n \in Files : file[n] \in Seq(Octets) => file'[n] \in Seq(Octets)
      /\ \A n \in TempNames : file'[n] = file[n]
  <2>1. CASE file' = file
    BY <1>1, <2>1
  <2>2. ASSUME NEW n \in Names, file' = Truncated(n)
        PROVE  /\ file' \in [Files -> Contents]
               /\ \A m \in Files :
                    file[m] \in Seq(Octets) => file'[m] \in Seq(Octets)
               /\ \A m \in TempNames : file'[m] = file[m]
    <3>1. n \in Files /\ \A m \in TempNames : m \in Files \ {n}
      BY StoreAssumption DEF Files
    <3>2. QED
      BY <1>1, <2>2, <3>1, TruncatedType
  <2>3. QED
    BY <2>1, <2>2
<1>5. TypeOK'
  <2>1. /\ conn' \in [Slots -> {"free", "idle", "head", "body", "done"}]
        /\ body' \in [Slots -> Body]
        /\ asked' \in [Slots -> Requests \cup {NoRequest}]
    BY <1>1, <1>2
  <2>2. r.length \in Nat
    BY LengthsType DEF Requests
  <2>3. \A t \in Slots : body'[t].written <= asked'[t].length
    BY <1>1, <1>2, <1>3, <2>2
  <2>4. QED
    BY <1>4, <2>1, <2>3 DEF TypeOK, Contents
<1>6. FreshBody'
  BY <1>3 DEF StoreInv, FreshBody
<1>7. Counters'
  BY <1>2, <1>3 DEF StoreInv, Counters
<1>8. Links'
  BY <1>2, <1>3, <1>4 DEF StoreInv, Links, Linking
<1>9. NoTempLeft'
  <2> SUFFICES ASSUME NEW n \in TempNames, file'[n] # None
               PROVE  \E t \in Slots : conn'[t] # "free" /\ Holds(t, n)'
    BY DEF NoTempLeft, Exists, Held
  <2>1. PICK t \in Slots : conn[t] # "free" /\ Holds(t, n)
    BY <1>4 DEF StoreInv, NoTempLeft, Exists, Held
  <2>2. t # s
    BY <2>1, HeadHoldsNothing DEF Holds
  <2>3. conn'[t] # "free" /\ Holds(t, n)'
    BY <1>3, <2>1, <2>2 DEF Holds
  <2>4. QED
    BY <2>3
<1>10. QED
  BY <1>5, <1>6, <1>7, <1>8, <1>9 DEF StoreInv

LEMMA PostKeeps ==
  ASSUME StoreInv, NEW s \in Slots, Post(s)
  PROVE  StoreInv'
<1>1. PICK r \in Requests :
        /\ MayAsk(s, r)
        /\ asked' = [asked EXCEPT ![s] = r]
        /\ \E o \in Openings(body[s], r) :
             /\ errno' = o.errno
             /\ \/ /\ ~o.body.open
                   /\ Turn(s, {"head"}, "done")
                   /\ body' = [body EXCEPT ![s] = o.body]
                   /\ file' = o.file
                \/ /\ o.body.open
                   /\ ParseBody(s, o.body, o.file, r)
  BY DEF Post
<1>2. PICK o \in Openings(body[s], r) :
        /\ errno' = o.errno
        /\ \/ /\ ~o.body.open
              /\ Turn(s, {"head"}, "done")
              /\ body' = [body EXCEPT ![s] = o.body]
              /\ file' = o.file
           \/ /\ o.body.open
              /\ ParseBody(s, o.body, o.file, r)
  BY <1>1
<1>3. conn[s] = "head" /\ errno \in {"EISDIR", "other"}
  BY DEF Post, StoreInv, TypeOK
<1> DEFINE b == body[s]
<1>4. Failed(b).open = FALSE
  BY <1>3, HeadHoldsNothing DEF Failed, Body
<1>5. ASSUME NEW files, NEW e \in {"EISDIR", "other"},
             o = Outcome(Failed(b), files, e),
             files = file \/ \E n \in Names : files = Truncated(n)
      PROVE  StoreInv'
  <2>1. /\ o.body = Failed(b)
        /\ o.file = files
        /\ o.errno = e
    BY <1>5 DEF Outcome
  <2>2. /\ body' = [body EXCEPT ![s] = Failed(body[s])]
        /\ file' = files
        /\ conn' = [conn EXCEPT ![s] = "done"]
        /\ errno' = e
    BY <1>2, <1>4, <2>1 DEF Turn
  <2>3. QED
    BY <1>1, <1>3, <1>5, <2>2, FailedKeeps
<1>6. ASSUME NEW n \in Files, NEW e \in {"EISDIR", "other"},
             o = Outcome(Open(b, r, n), Truncated(n), e),
             n \in TempNames => r.kind = "cgi"
      PROVE  StoreInv'
  <2>1. /\ o.body = Open(b, r, n)
        /\ o.file = Truncated(n)
        /\ o.errno = e
    BY <1>6 DEF Outcome
  <2>2. Open(b, r, n).open
    BY <1>3, HeadHoldsNothing DEF Open, Body
  <2>3. ParseBody(s, Open(b, r, n), Truncated(n), r) /\ errno' = e
    BY <1>2, <2>1, <2>2
  <2>4. Midway(s, Open(b, r, n), Truncated(n), r)
    BY <1>3, <1>6, OpenMidway
  <2>5. QED
    BY <1>1, <1>6, <2>3, <2>4, ParseBodyKeeps
<1>7. CASE o = Outcome(Failed(b), file, "other")
  BY <1>5, <1>7
<1>8. CASE r.kind = "upload" /\ o \in OpenFile(b, r)
  <2>1. r.target \in Names /\ r.target \in Files /\ r.target \notin TempNames
    BY <1>8, StoreAssumption DEF Requests, Files
  <2>2. CASE errno = "EISDIR"
    <3>1. o = Outcome(Failed(b), Truncated(r.target), "other")
      BY <1>8, <2>2 DEF OpenFile
    <3>2. QED
      BY <1>5, <2>1, <3>1
  <2>3. CASE errno # "EISDIR"
    <3>1. o = Outcome(Open(b, r, r.target), Truncated(r.target), errno)
      BY <1>8, <2>3 DEF OpenFile
    <3>2. QED
      BY <1>3, <1>6, <2>1, <3>1
  <2>4. QED
    BY <2>2, <2>3
<1>9. CASE r.kind = "directory" /\ o \in OpenRandom(b, r)
  <2>1. PICK n \in RandomNames : o = Outcome(Open(b, r, n), Truncated(n), "other")
    BY <1>9 DEF OpenRandom, Unused
  <2>2. n \in Files /\ n \notin TempNames
    BY StoreAssumption DEF Files
  <2>3. QED
    BY <1>6, <2>1, <2>2
<1>10. CASE r.kind = "cgi" /\ o \in OpenTemp(b, r)
  <2>1. PICK n \in TempNames : o = Outcome(Open(b, r, n), Truncated(n), errno)
    BY <1>10 DEF OpenTemp, Unused
  <2>2. n \in Files
    BY DEF Files
  <2>3. QED
    BY <1>3, <1>6, <1>10, <2>1, <2>2
<1>11. r.kind \in {"upload", "directory", "cgi"}
  BY DEF Requests
<1>12. QED
  BY <1>2, <1>7, <1>8, <1>9, <1>10, <1>11 DEF Openings

LEMMA PostUnfinishedKeeps ==
  ASSUME StoreInv, NEW s \in Slots, PostUnfinished(s)
  PROVE  StoreInv'
<1>1. PICK r \in Requests :
        /\ asked' = [asked EXCEPT ![s] = r]
        /\ ParseBody(s, body[s], file, r)
  BY DEF PostUnfinished
<1>2. conn[s] = "head" /\ errno' \in {"EISDIR", "other"}
  BY DEF PostUnfinished, StoreInv, TypeOK
<1>3. r.length \in Nat
  BY LengthsType DEF Requests
<1>4. Counted(body[s], r)
  <2>1. /\ body[s].written = 0
        /\ body[s].contentLength = 0
        /\ body[s].isChunk = FALSE
    BY <1>2, HeadHoldsNothing
  <2>2. QED
    BY <1>3, <2>1 DEF Counted
<1>5. ASSUME NEW n \in TempNames, file[n] # None
      PROVE  \E t \in Slots \ {s} : conn[t] # "free" /\ Holds(t, n)
  <2>1. PICK t \in Slots : conn[t] # "free" /\ Holds(t, n)
    BY <1>5 DEF StoreInv, NoTempLeft, Exists, Held
  <2>2. t # s
    BY <1>2, <2>1, HeadHoldsNothing DEF Holds
  <2>3. QED
    BY <2>1, <2>2
<1>6. Midway(s, body[s], file, r)
  BY <1>4, <1>5 DEF StoreInv, TypeOK, Contents, Links, Midway
<1>7. QED
  BY <1>1, <1>2, <1>6, ParseBodyKeeps

LEMMA StoreKeeps ==
  ASSUME StoreInv, NEW s \in Slots, Store(s)
  PROVE  StoreInv'
<1> DEFINE r == asked[s]
<1>1. /\ conn[s] = "body"
      /\ ParseBody(s, body[s], file, r)
      /\ errno' \in {"EISDIR", "other"}
      /\ asked' = [asked EXCEPT ![s] = r]
  BY DEF Store, StoreInv, TypeOK
<1>2. r \in Requests /\ Counted(body[s], r)
  BY <1>1 DEF StoreInv, Counters
<1>3. ASSUME NEW n \in TempNames, file[n] # None
      PROVE  \/ body[s].open /\ body[s].linked /\ body[s].name = n
             \/ \E t \in Slots \ {s} : conn[t] # "free" /\ Holds(t, n)
  <2>1. PICK t \in Slots : conn[t] # "free" /\ Holds(t, n)
    BY <1>3 DEF StoreInv, NoTempLeft, Exists, Held
  <2>2. QED
    BY <2>1 DEF Holds
<1>4. Midway(s, body[s], file, r)
  BY <1>2, <1>3 DEF StoreInv, TypeOK, Contents, Links, Midway
<1>5. QED
  BY <1>1, <1>2, <1>4, ParseBodyKeeps

\* Steps of a connection that touch no body and no file.
LEMMA TurnKeeps ==
  ASSUME StoreInv, NEW s \in Slots, NEW to \in {"idle", "done"},
         conn[s] # "body", conn' = [conn EXCEPT ![s] = to],
         UNCHANGED <<body, file>>, errno' \in {"EISDIR", "other"},
         asked' = asked \/ asked' = [asked EXCEPT ![s] = NoRequest]
  PROVE  StoreInv'
<1>1. /\ conn \in [Slots -> {"free", "idle", "head", "body", "done"}]
      /\ asked \in [Slots -> Requests \cup {NoRequest}]
      /\ \A t \in Slots : body[t].written <= asked[t].length
      /\ body[s].written = 0
  BY DEF StoreInv, TypeOK, Counters
<1>2. /\ conn'[s] = to
      /\ \A t \in Slots \ {s} : conn'[t] = conn[t] /\ asked'[t] = asked[t]
  BY <1>1
<1>3. asked' \in [Slots -> Requests \cup {NoRequest}]
  BY <1>1
<1>4. TypeOK'
  <2>1. body'[s].written <= asked'[s].length
    BY <1>1 DEF NoRequest
  <2>2. \A t \in Slots : body'[t].written <= asked'[t].length
    BY <1>1, <1>2, <2>1
  <2>3. QED
    BY <1>1, <1>3, <2>2 DEF StoreInv, TypeOK
<1>5. FreshBody' /\ Links'
  BY <1>2 DEF StoreInv, FreshBody, Links, Linking
<1>6. Counters'
  BY <1>1, <1>2 DEF StoreInv, Counters, Counted
<1>7. NoTempLeft'
  <2> SUFFICES ASSUME NEW n \in TempNames, file'[n] # None
               PROVE  \E t \in Slots : conn'[t] # "free" /\ Holds(t, n)'
    BY DEF NoTempLeft, Exists, Held
  <2>1. PICK t \in Slots : conn[t] # "free" /\ Holds(t, n)
    BY DEF StoreInv, NoTempLeft, Exists, Held
  <2>2. QED
    BY <1>2, <2>1 DEF Holds
<1>8. QED
  BY <1>4, <1>5, <1>6, <1>7 DEF StoreInv

\* A DELETE names no temporary file, and leaves its name to nobody.
LEMMA DeleteKeeps ==
  ASSUME StoreInv, NEW s \in Slots, NEW n \in Names \cup RandomNames,
         Delete(s, n)
  PROVE  StoreInv'
<1>1. /\ conn[s] = "head"
      /\ conn' = [conn EXCEPT ![s] = "done"]
      /\ file' = [file EXCEPT ![n] = None]
      /\ body' = Unlinked(body, n)
      /\ UNCHANGED <<asked, errno>>
  BY DEF Delete, Turn
<1>2. /\ conn \in [Slots -> {"free", "idle", "head", "body", "done"}]
      /\ body \in [Slots -> Body]
      /\ file \in [Files -> Contents]
      /\ n \in Files /\ n \notin TempNames
  BY StoreAssumption DEF StoreInv, TypeOK, Contents, Files
<1>3. /\ conn'[s] = "done"
      /\ \A t \in Slots \ {s} : conn'[t] = conn[t]
      /\ \A m \in Files \ {n} : file'[m] = file[m]
      /\ file' \in [Files -> Contents]
  BY <1>1, <1>2 DEF Contents
<1>4. \A t \in Slots :
        body'[t] = IF body[t].name = n THEN [body[t] EXCEPT !.linked = FALSE]
                   ELSE body[t]
  BY <1>1 DEF Unlinked
<1>5. \A t \in Slots :
        /\ body'[t] \in Body
        /\ body'[t].open = body[t].open
        /\ body'[t].name = body[t].name
        /\ body'[t].removeFile = body[t].removeFile
        /\ body'[t].step = body[t].step
        /\ body'[t].written = body[t].written
        /\ body'[t].contentLength = body[t].contentLength
        /\ body'[t].isChunk = body[t].isChunk
        /\ body'[t].linked => body[t].linked /\ body[t].name # n
        /\ body[t].linked /\ body[t].name # n => body'[t].linked
  <2> SUFFICES ASSUME NEW t \in Slots
               PROVE  /\ body'[t] \in Body
                      /\ body'[t].open = body[t].open
                      /\ body'[t].name = body[t].name
                      /\ body'[t].removeFile = body[t].removeFile
                      /\ body'[t].step = body[t].step
                      /\ body'[t].written = body[t].written
                      /\ body'[t].contentLength = body[t].contentLength
                      /\ body'[t].isChunk = body[t].isChunk
                      /\ body'[t].linked => body[t].linked /\ body[t].name # n
                      /\ body[t].linked /\ body[t].name # n => body'[t].linked
    OBVIOUS
  <2>1. body[t] \in Body
    BY <1>2
  <2>2. CASE body[t].name = n
    <3>1. body'[t] = [body[t] EXCEPT !.linked = FALSE]
      BY <1>4, <2>2
    <3>2. QED
      BY <2>1, <2>2, <3>1 DEF Body
  <2>3. CASE body[t].name # n
    <3>1. body'[t] = body[t]
      BY <1>4, <2>3
    <3>2. QED
      BY <2>1, <2>3, <3>1
  <2>4. QED
    BY <2>2, <2>3
<1>6. TypeOK'
  <2>1. body' \in [Slots -> Body]
    BY <1>1, <1>5 DEF Unlinked
  <2>2. \A t \in Slots : body'[t].written <= asked'[t].length
    BY <1>1, <1>5 DEF StoreInv, TypeOK
  <2>3. QED
    BY <1>1, <1>2, <1>3, <2>1, <2>2 DEF StoreInv, TypeOK, Contents
<1>7. FreshBody'
  <2> SUFFICES ASSUME NEW t \in Slots, conn'[t] \in {"free", "head"}
               PROVE  body'[t] = [NewBody EXCEPT !.step = body'[t].step]
    BY DEF FreshBody
  <2>1. conn[t] \in {"free", "head"}
    BY <1>1, <1>3
  <2>2. body[t] = [NewBody EXCEPT !.step = body[t].step] /\ body[t] \in Body
    BY <1>2, <2>1 DEF StoreInv, FreshBody
  <2>3. body[t].linked = FALSE
    BY <2>2 DEF NewBody
  <2>4. [body[t] EXCEPT !.linked = FALSE] = body[t]
    BY <2>2, <2>3 DEF Body
  <2>5. QED
    BY <1>4, <2>2, <2>4
<1>8. Counters'
  <2>1. \A t \in Slots :
          /\ conn[t] = "body" => asked[t] \in Requests /\ Counted(body'[t], asked[t])
          /\ conn[t] # "body" => body'[t].written = 0
    BY <1>5 DEF StoreInv, Counters, Counted
  <2>2. QED
    BY <1>1, <1>3, <2>1 DEF Counters
<1>9. Links'
  <2> SUFFICES ASSUME NEW t \in Slots, body'[t].linked
               PROVE  Linking(body'[t], file')
    BY DEF Links, Linking
  <2>1. body[t].linked /\ body[t].name # n /\ Linking(body[t], file)
    BY <1>5 DEF StoreInv, Links
  <2>2. body[t].name \in Files \ {n}
    BY <2>1 DEF Linking
  <2>3. QED
    BY <1>3, <1>5, <2>1, <2>2 DEF Linking
<1>10. NoTempLeft'
  <2> SUFFICES ASSUME NEW m \in TempNames, file'[m] # None
               PROVE  \E t \in Slots : conn'[t] # "free" /\ Holds(t, m)'
    BY DEF NoTempLeft, Exists, Held
  <2>1. m # n /\ m \in Files
    BY <1>2 DEF Files
  <2>2. PICK t \in Slots : conn[t] # "free" /\ Holds(t, m)
    BY <1>3, <2>1 DEF StoreInv, NoTempLeft, Exists, Held
  <2>3. conn'[t] # "free" /\ Holds(t, m)'
    BY <1>3, <1>5, <2>1, <2>2 DEF Holds
  <2>4. QED
    BY <2>3
<1>11. QED
  BY <1>6, <1>7, <1>8, <1>9, <1>10 DEF StoreInv

-----------------------------------------------------------------------------
LEMMA InitKeeps == Init => StoreInv
<1> SUFFICES ASSUME Init PROVE StoreInv
  OBVIOUS
<1>1. NewBody \in Body /\ NewBody.step = "SETTING_VARS"
  BY DEF NewBody, Body, step
<1>2. TypeOK
  BY <1>1 DEF Init, TypeOK, NewBody, NoRequest
<1>3. FreshBody
  BY DEF Init, FreshBody, NewBody
<1>4. Counters /\ Links /\ NoTempLeft
  BY DEF Init, Counters, Links, Linking, NewBody, NoTempLeft, Exists, Files
<1>5. QED
  BY <1>2, <1>3, <1>4 DEF StoreInv

\* The invariant is inductive.
LEMMA StoreInvInductive == Spec => []StoreInv
<1>1. StoreInv /\ [Next]_vars => StoreInv'
  <2> SUFFICES ASSUME StoreInv, [Next]_vars PROVE StoreInv'
    OBVIOUS
  <2>0. errno \in {"EISDIR", "other"}
    BY DEF StoreInv, TypeOK
  <2>1. CASE OtherFailure
    <3>1. UNCHANGED <<conn, asked, body, file>> /\ errno' = "other"
      BY <2>1 DEF OtherFailure
    <3>2. QED
      BY <3>1 DEF StoreInv, TypeOK, FreshBody, Counters, Counted, Links,
                  Linking, NoTempLeft, Exists, Held, Holds
  <2>2. ASSUME NEW s \in Slots, Connect(s) PROVE StoreInv'
    BY <2>0, <2>2, TurnKeeps DEF Connect, Turn
  <2>3. ASSUME NEW s \in Slots, FirstRead(s) PROVE StoreInv'
    BY <2>3, ResetKeeps DEF FirstRead, Turn
  <2>4. ASSUME NEW s \in Slots, NoBody(s) PROVE StoreInv'
    BY <2>0, <2>4, TurnKeeps DEF NoBody, Turn
  <2>5. ASSUME NEW s \in Slots, DeleteDirectory(s) PROVE StoreInv'
    BY <2>5, TurnKeeps DEF DeleteDirectory, Turn
  <2>6. ASSUME NEW s \in Slots, Post(s) PROVE StoreInv'
    BY <2>6, PostKeeps
  <2>7. ASSUME NEW s \in Slots, PostUnfinished(s) PROVE StoreInv'
    BY <2>7, PostUnfinishedKeeps
  <2>8. ASSUME NEW s \in Slots, Store(s) PROVE StoreInv'
    BY <2>8, StoreKeeps
  <2>9. ASSUME NEW s \in Slots, Answer(s) PROVE StoreInv'
    BY <2>0, <2>9, TurnKeeps DEF Answer, Turn
  <2>10. ASSUME NEW s \in Slots, Leave(s) PROVE StoreInv'
    BY <2>10, ResetKeeps DEF Leave, Turn
  <2>11. ASSUME NEW s \in Slots, NEW n \in Names \cup RandomNames, Delete(s, n)
         PROVE  StoreInv'
    BY <2>11, DeleteKeeps
  <2>12. CASE UNCHANGED vars
    BY <2>12 DEF vars, StoreInv, TypeOK, FreshBody, Counters, Counted, Links,
                 Linking, NoTempLeft, Exists, Held, Holds
  <2>13. QED
    BY <2>1, <2>2, <2>3, <2>4, <2>5, <2>6, <2>7, <2>8, <2>9, <2>10, <2>11,
       <2>12 DEF Next
<1>2. QED
  BY InitKeeps, <1>1, PTL DEF Spec

\* The state stays within its types: in particular no body is ever counted past
\* the length its client announced, however it is cut and whatever the slot
\* did before (StoreNormalBodyInDisk, clsBody::Reset).
THEOREM StoreTypeCorrect == Spec => []TypeOK
<1>1. StoreInv => TypeOK
  BY DEF StoreInv
<1>2. QED
  BY <1>1, StoreInvInductive, PTL

\* No temporary file outlives its connection or is forgotten by it, for any
\* number of connections and however they end (clsBody::Reset, removeFile).
THEOREM TempsRemoved == Spec => []NoTempLeft
<1>1. StoreInv => NoTempLeft
  BY DEF StoreInv
<1>2. QED
  BY <1>1, StoreInvInductive, PTL

-----------------------------------------------------------------------------
(***************************************************************************)
(* What is in the files, when no two slots upload to one name.             *)
(***************************************************************************)
\* Two uploads to one name share its file: nothing below holds of them.
Separate == \A s, t \in Slots : s # t => Targets[s] \cap Targets[t] = {}

\* The first w octets of a body of length l.
Part(s, l, w) == [i \in 1 .. w |-> <<s, l>>]

\* The name of an open file says what Reset will do with it.
Named(s, b) ==
  b.open => /\ b.name \in Files
            /\ b.name \in Names => b.name \in Targets[s]
            /\ b.removeFile <=> b.name \in TempNames

\* What the file of a body holds: what was written of it, and all of it when
\* it is done.  A file that lost its name has not been made again.
Exact(s, c, r, b, files) ==
  b.open =>
    /\ ~b.linked => files[b.name] = None
    /\ c = "body" =>
         /\ b.step # "DONE_GOOD"
         /\ ~b.isChunk => b.contentLength = r.length
         /\ b.linked => files[b.name] = Part(s, r.length, b.written)
    /\ b.step = "DONE_GOOD" /\ b.linked => Whole(files[b.name])
    /\ b.step = "DONE_GOOD" /\ b.linked /\ c = "done" =>
         files[b.name] = Content(s, r)

\* No two slots have files of one name open.
NamesApart == \A s, t \in Slots :
  s # t /\ body[s].open /\ body[t].open => body[s].name # body[t].name

ContentInv ==
  /\ \A s \in Slots : Named(s, body[s])
  /\ \A s \in Slots : Exact(s, conn[s], asked[s], body[s], file)
  /\ NamesApart
  /\ NoPartialFile

-----------------------------------------------------------------------------
LEMMA StateTypes ==
  ASSUME StoreInv
  PROVE  /\ conn \in [Slots -> {"free", "idle", "head", "body", "done"}]
         /\ asked \in [Slots -> Requests \cup {NoRequest}]
         /\ body \in [Slots -> Body]
         /\ file \in [Files -> Contents]
  BY DEF StoreInv, TypeOK, Contents

\* A slot with an open file is in use and past its headers.
LEMMA OpenInUse ==
  ASSUME StoreInv, NEW s \in Slots, conn[s] \in {"free", "head"}
  PROVE  /\ body[s] \in Body
         /\ body[s].open = FALSE
         /\ body[s].linked = FALSE
         /\ body[s].name = None
<1>1. body[s] \in Body
  BY StateTypes
<1>2. body[s] = [NewBody EXCEPT !.step = body[s].step]
  BY DEF StoreInv, FreshBody
<1>3. QED
  BY <1>1, <1>2 DEF NewBody

\* A whole body is the content of its request, and the other way round.
LEMMA ContentWhole ==
  ASSUME NEW s \in Slots, NEW r \in Requests
  PROVE  /\ Content(s, r) = Part(s, r.length, r.length)
         /\ Whole(Content(s, r))
<1>1. r.length \in Lengths
  BY DEF Requests
<1>2. Content(s, r) = Content(s, [length |-> r.length])
  BY DEF Content
<1>3. Whole(Content(s, r))
  BY <1>1, <1>2 DEF Whole
<1>4. QED
  BY <1>3 DEF Content, Part

\* write() at the end of a file appends to it.
LEMMA PartGrows ==
  ASSUME NEW s \in Slots, NEW l \in Lengths, NEW w \in Nat, NEW k \in Nat
  PROVE  Overwritten(Part(s, l, w), w, k, <<s, l>>) = Part(s, l, w + k)
<1> DEFINE p == Part(s, l, w)
<1>1. /\ p \in Seq({<<s, l>>})
      /\ Len(p) = w
      /\ DOMAIN p = 1 .. w
      /\ \A i \in 1 .. w : p[i] = <<s, l>>
  BY SeqDef DEF Part
<1>2. (IF w + k > Len(p) THEN w + k ELSE Len(p)) = w + k
  BY <1>1
<1> HIDE DEF p
<1>3. Overwritten(p, w, k, <<s, l>>)
        = [i \in 1 .. w + k |-> IF i \in w + 1 .. w + k THEN <<s, l>>
                                ELSE IF i <= Len(p) THEN p[i] ELSE None]
  BY <1>2 DEF Overwritten
<1>4. \A i \in 1 .. w + k :
        (IF i \in w + 1 .. w + k THEN <<s, l>>
         ELSE IF i <= Len(p) THEN p[i] ELSE None) = <<s, l>>
  BY <1>1
<1>5. Overwritten(p, w, k, <<s, l>>) = [i \in 1 .. w + k |-> <<s, l>>]
  BY <1>3, <1>4
<1>6. QED
  BY <1>5 DEF Part, p

\* A step of slot s that touches no file but m, and m is open in no other slot.
LEMMA OneSlot ==
  ASSUME StoreInv, ContentInv, NEW s \in Slots, NEW m,
         \A t \in Slots \ {s} :
           conn'[t] = conn[t] /\ asked'[t] = asked[t] /\ body'[t] = body[t],
         \A t \in Slots \ {s} : body[t].open => body[t].name # m,
         \A n \in Files \ {m} : file'[n] = file[n],
         Named(s, body'[s]),
         Exact(s, conn'[s], asked'[s], body'[s], file'),
         body'[s].open => \/ body'[s].name = m
                          \/ body[s].open /\ body'[s].name = body[s].name,
         m \in Files /\ file'[m] # None =>
           \/ conn'[s] # "free" /\ Holds(s, m)'
           \/ Whole(file'[m])
           \/ file'[m] = <<>>,
         \A n \in Files \ {m} :
           Holds(s, n) => conn'[s] # "free" /\ Holds(s, n)'
  PROVE  ContentInv'
<1>1. /\ \A t \in Slots : Named(t, body[t])
      /\ \A t \in Slots : Exact(t, conn[t], asked[t], body[t], file)
      /\ NamesApart
      /\ NoPartialFile
  BY DEF ContentInv
<1>2. \A t \in Slots : Named(t, body'[t])
  BY <1>1
<1>3. \A t \in Slots : Exact(t, conn'[t], asked'[t], body'[t], file')
  <2> SUFFICES ASSUME NEW t \in Slots \ {s}
               PROVE  Exact(t, conn'[t], asked'[t], body'[t], file')
    OBVIOUS
  <2>1. Exact(t, conn[t], asked[t], body[t], file)
    BY <1>1
  <2>2. CASE body[t].open
    <3>1. body[t].name \in Files \ {m}
      BY <1>1, <2>2 DEF Named
    <3>2. file'[body[t].name] = file[body[t].name]
      BY <3>1
    <3>3. QED
      BY <2>1, <3>2 DEF Exact
  <2>3. CASE ~body[t].open
    BY <2>3 DEF Exact
  <2>4. QED
    BY <2>2, <2>3
<1>4. NamesApart'
  <2> SUFFICES ASSUME NEW t \in Slots, NEW u \in Slots, t # u,
                      body'[t].open, body'[u].open
               PROVE  body'[t].name # body'[u].name
    BY DEF NamesApart
  <2>1. CASE t # s /\ u # s
    BY <1>1, <2>1 DEF NamesApart
  <2>2. CASE t = s
    BY <1>1, <2>2 DEF NamesApart
  <2>3. CASE u = s
    BY <1>1, <2>3 DEF NamesApart
  <2>4. QED
    BY <2>1, <2>2, <2>3
<1>5. NoPartialFile'
  <2> SUFFICES ASSUME NEW n \in Files, file'[n] # None, ~Held(n)'
               PROVE  Whole(file'[n]) \/ file'[n] = <<>>
    BY DEF NoPartialFile, Exists
  <2>1. CASE n = m
    BY <2>1 DEF Held
  <2>2. CASE n # m
    <3>1. file'[n] = file[n]
      BY <2>2
    <3>2. ~Held(n)
      <4> SUFFICES ASSUME NEW t \in Slots, conn[t] # "free", Holds(t, n)
                   PROVE  FALSE
        BY DEF Held
      <4>1. conn'[t] # "free" /\ Holds(t, n)'
        BY <2>2 DEF Holds
      <4>2. QED
        BY <4>1 DEF Held
    <3>3. QED
      BY <1>1, <3>1, <3>2 DEF NoPartialFile, Exists
  <2>3. QED
    BY <2>1, <2>2
<1>6. QED
  BY <1>2, <1>3, <1>4, <1>5 DEF ContentInv

\* Steps of a connection that touch no body and no file.
LEMMA TurnExact ==
  ASSUME StoreInv, ContentInv, NEW s \in Slots, conn[s] # "body",
         NEW to \in {"idle", "done"}, conn' = [conn EXCEPT ![s] = to],
         to = "done" => conn[s] = "head",
         UNCHANGED <<body, file>>,
         asked' = asked \/ asked' = [asked EXCEPT ![s] = NoRequest]
  PROVE  ContentInv'
<1>1. conn'[s] = to
  BY StateTypes
<1>2. \A t \in Slots \ {s} :
        conn'[t] = conn[t] /\ asked'[t] = asked[t] /\ body'[t] = body[t]
  BY StateTypes
<1>3. \A t \in Slots : body[t].open => body[t].name # None
  BY StoreAssumption DEF ContentInv, Named
<1>4. Named(s, body'[s])
  BY DEF ContentInv
<1>5. Exact(s, conn'[s], asked'[s], body'[s], file')
  <2>1. Exact(s, conn[s], asked[s], body[s], file)
    BY DEF ContentInv
  <2>2. to = "done" => ~body[s].open
    BY OpenInUse
  <2>3. QED
    BY <1>1, <2>1, <2>2 DEF Exact
<1>6. None \notin Files
  BY StoreAssumption
<1>7. \A n \in Files \ {None} :
        Holds(s, n) => conn'[s] # "free" /\ Holds(s, n)'
  BY <1>1 DEF Holds
<1>8. QED
  BY <1>2, <1>3, <1>4, <1>5, <1>6, <1>7, OneSlot

\* Reset removes the file of its own slot or none: a name another slot has open
\* is another name.  What it leaves is a whole body.
LEMMA ResetExact ==
  ASSUME StoreInv, ContentInv, NEW s \in Slots, Reset(s),
         NEW to \in {"free", "head"}, conn' = [conn EXCEPT ![s] = to]
  PROVE  ContentInv'
<1> DEFINE b == body[s]
           gone == Discards(b)
           fresh == [NewBody EXCEPT !.step = b.step]
           m == IF b.open THEN b.name ELSE None
<1>1. /\ b \in Body
      /\ \A t \in Slots : body[t] \in Body
      /\ Named(s, b)
      /\ Exact(s, conn[s], asked[s], b, file)
  BY StateTypes DEF ContentInv
<1>2. /\ fresh.open = FALSE
      /\ gone => b.open
  BY DEF NewBody, Discards
<1>3. \A t \in Slots \ {s} : body[t].open => body[t].name # m
  BY StoreAssumption DEF ContentInv, NamesApart, Named
<1>4. \A t \in Slots \ {s} :
        gone /\ body[t].name = b.name =>
          [body[t] EXCEPT !.linked = FALSE] = body[t]
  <2> SUFFICES ASSUME NEW t \in Slots \ {s}, gone, body[t].name = b.name
               PROVE  [body[t] EXCEPT !.linked = FALSE] = body[t]
    OBVIOUS
  <2>1. ~body[t].open
    BY <1>2, <1>3
  <2>2. body[t].linked = FALSE
    BY <1>1, <2>1 DEF StoreInv, Links, Linking, Body
  <2>3. QED
    BY <1>1, <2>2 DEF Body
<1>5. body' = [body EXCEPT ![s] = fresh]
  <2>1. CASE gone
    <3> DEFINE u == Unlinked(body, b.name)
    <3>1. u = [t \in Slots |-> IF body[t].name = b.name
                                 THEN [body[t] EXCEPT !.linked = FALSE]
                                 ELSE body[t]]
      BY DEF Unlinked
    <3>2. \A t \in Slots \ {s} : u[t] = body[t]
      BY <1>4, <2>1, <3>1
    <3> HIDE DEF u
    <3>3. [u EXCEPT ![s] = fresh] = [body EXCEPT ![s] = fresh]
      BY <3>1, <3>2, StateTypes
    <3>4. QED
      BY <2>1, <3>3 DEF Reset, u
  <2>2. CASE ~gone
    BY <2>2 DEF Reset
  <2>3. QED
    BY <2>1, <2>2
<1>6. /\ file' = IF gone THEN [file EXCEPT ![b.name] = None] ELSE file
      /\ asked' = [asked EXCEPT ![s] = NoRequest]
  BY DEF Reset
<1>7. \A t \in Slots \ {s} :
        conn'[t] = conn[t] /\ asked'[t] = asked[t] /\ body'[t] = body[t]
  BY <1>5, <1>6, StateTypes
<1>8. body'[s] = fresh
  BY <1>5, StateTypes
<1>9. \A n \in Files \ {m} : file'[n] = file[n]
  BY <1>2, <1>6, StateTypes
<1>10. /\ Named(s, body'[s])
       /\ Exact(s, conn'[s], asked'[s], body'[s], file')
       /\ ~body'[s].open
  BY <1>2, <1>8 DEF Named, Exact
<1>11. m \in Files /\ file'[m] # None => Whole(file'[m])
  <2> SUFFICES ASSUME m \in Files, file'[m] # None
               PROVE  Whole(file'[m])
    OBVIOUS
  <2>1. b.open /\ m = b.name
    BY StoreAssumption
  <2>2. ~gone /\ file' = file
    BY <1>6, <2>1, StateTypes
  <2>3. b.step = "DONE_GOOD" /\ b.linked
    BY <1>1, <2>1, <2>2 DEF Discards, Exact
  <2>4. QED
    BY <1>1, <2>1, <2>2, <2>3 DEF Exact
<1>12. \A n \in Files \ {m} : ~Holds(s, n)
  BY DEF Holds
<1> HIDE DEF m
<1>13. QED
  BY <1>3, <1>7, <1>9, <1>10, <1>11, <1>12, OneSlot

\* A DELETE takes the name from whoever is writing the file.
LEMMA DeleteExact ==
  ASSUME StoreInv, ContentInv, NEW s \in Slots, NEW n \in Names \cup RandomNames,
         Delete(s, n)
  PROVE  ContentInv'
<1>1. /\ conn[s] = "head"
      /\ conn' = [conn EXCEPT ![s] = "done"]
      /\ file' = [file EXCEPT ![n] = None]
      /\ body' = Unlinked(body, n)
      /\ asked' = asked
  BY DEF Delete, Turn
<1>2. /\ conn'[s] = "done"
      /\ \A t \in Slots \ {s} : conn'[t] = conn[t]
      /\ n \in Files
      /\ file'[n] = None
      /\ \A m \in Files \ {n} : file'[m] = file[m]
      /\ \A t \in Slots : body[t] \in Body
  BY <1>1, StateTypes DEF Files
<1>3. \A t \in Slots :
        /\ body'[t].open = body[t].open
        /\ body'[t].name = body[t].name
        /\ body'[t].removeFile = body[t].removeFile
        /\ body'[t].step = body[t].step
        /\ body'[t].written = body[t].written
        /\ body'[t].contentLength = body[t].contentLength
        /\ body'[t].isChunk = body[t].isChunk
        /\ body'[t].linked = (body[t].linked /\ body[t].name # n)
  <2> SUFFICES ASSUME NEW t \in Slots
               PROVE  /\ body'[t].open = body[t].open
                      /\ body'[t].name = body[t].name
                      /\ body'[t].removeFile = body[t].removeFile
                      /\ body'[t].step = body[t].step
                      /\ body'[t].written = body[t].written
                      /\ body'[t].contentLength = body[t].contentLength
                      /\ body'[t].isChunk = body[t].isChunk
                      /\ body'[t].linked = (body[t].linked /\ body[t].name # n)
    OBVIOUS
  <2>1. body'[t] = IF body[t].name = n THEN [body[t] EXCEPT !.linked = FALSE]
                   ELSE body[t]
    BY <1>1 DEF Unlinked
  <2>2. QED
    BY <1>2, <2>1 DEF Body
<1>4. \A t \in Slots : Named(t, body'[t])
  BY <1>3 DEF ContentInv, Named
<1>5. \A t \in Slots : Exact(t, conn'[t], asked'[t], body'[t], file')
  <2> SUFFICES ASSUME NEW t \in Slots, body[t].open
               PROVE  Exact(t, conn'[t], asked'[t], body'[t], file')
    BY <1>3 DEF Exact
  <2>1. /\ Exact(t, conn[t], asked[t], body[t], file)
        /\ body[t].name \in Files
    BY DEF ContentInv, Named
  <2>2. t # s /\ conn'[t] = conn[t]
    BY <1>1, <1>2, OpenInUse
  <2>3. CASE body[t].name = n
    BY <1>1, <1>2, <1>3, <2>1, <2>2, <2>3 DEF Exact
  <2>4. CASE body[t].name # n
    <3>1. file'[body[t].name] = file[body[t].name]
      BY <1>2, <2>1, <2>4
    <3>2. body'[t].linked <=> body[t].linked
      BY <1>3, <2>4
    <3>3. QED
      BY <1>1, <1>3, <2>1, <2>2, <3>1, <3>2 DEF Exact
  <2>5. QED
    BY <2>3, <2>4
<1>6. NamesApart'
  BY <1>3 DEF ContentInv, NamesApart
<1>7. NoPartialFile'
  <2> SUFFICES ASSUME NEW m \in Files, file'[m] # None, ~Held(m)'
               PROVE  Whole(file'[m]) \/ file'[m] = <<>>
    BY DEF NoPartialFile, Exists
  <2>1. m # n /\ file'[m] = file[m]
    BY <1>2
  <2>2. ~Held(m)
    <3> SUFFICES ASSUME NEW t \in Slots, conn[t] # "free", Holds(t, m)
                 PROVE  FALSE
      BY DEF Held
    <3>1. conn'[t] # "free"
      BY <1>2
    <3>2. Holds(t, m)'
      BY <1>3, <2>1 DEF Holds
    <3>3. QED
      BY <3>1, <3>2 DEF Held
  <2>3. QED
    BY <2>1, <2>2 DEF ContentInv, NoPartialFile, Exists
<1>8. QED
  BY <1>4, <1>5, <1>6, <1>7 DEF ContentInv

-----------------------------------------------------------------------------
(***************************************************************************)
(* A body that is read.                                                    *)
(***************************************************************************)
\* The clsBody b of slot s, and the files, in the middle of a handler; m is the
\* name the handler may have made or truncated.
Amid(s, b, files, r, m) ==
  /\ b \in Body
  /\ files \in [Files -> Contents]
  /\ Counted(b, r)
  /\ Linking(b, files)
  /\ Named(s, b)
  /\ b.open => /\ b.name = m
               /\ ~b.isChunk => b.contentLength = r.length
               /\ ~b.linked => files[b.name] = None
               /\ b.linked => files[b.name] = Part(s, r.length, b.written)
  /\ ~b.open => m = None
  /\ \A t \in Slots \ {s} : body[t].open => body[t].name # m
  /\ \A n \in Files \ {m} : files[n] = file[n] /\ ~Holds(s, n)

\* Whatever the pieces of a body, its file holds what was written of it.
LEMMA ParseBodyExact ==
  ASSUME StoreInv, ContentInv, NEW s \in Slots, NEW b, NEW files,
         NEW r \in Requests, NEW m, Amid(s, b, files, r, m),
         ParseBody(s, b, files, r), asked' = [asked EXCEPT ![s] = r]
  PROVE  ContentInv'
<1>1. PICK k \in Pieces(b, r) : \E st \in StepsAfter(b, r, k) :
        /\ body' = [body EXCEPT ![s] = Advanced(b, st, k)]
        /\ file' = Written(files, b, k, <<s, r.length>>)
        /\ conn' = [conn EXCEPT ![s] =
                      IF st \in {"READING_BODY", "SECOND_CRLF"} THEN "body"
                      ELSE "done"]
  BY DEF ParseBody
<1>2. PICK st \in StepsAfter(b, r, k) :
        /\ body' = [body EXCEPT ![s] = Advanced(b, st, k)]
        /\ file' = Written(files, b, k, <<s, r.length>>)
        /\ conn' = [conn EXCEPT ![s] =
                      IF st \in {"READING_BODY", "SECOND_CRLF"} THEN "body"
                      ELSE "done"]
  BY <1>1
<1> DEFINE c == Advanced(b, st, k)
           w == Written(files, b, k, <<s, r.length>>)
<1>3. /\ b \in Body
      /\ files \in [Files -> Contents]
      /\ Counted(b, r)
      /\ Linking(b, files)
      /\ Named(s, b)
  BY DEF Amid
<1>4. /\ k \in Nat
      /\ st \in step
      /\ c \in Body
      /\ c.open = b.open /\ c.linked = b.linked /\ c.name = b.name
      /\ c.removeFile = b.removeFile
  BY <1>3, AdvancedType
<1>5. /\ b.written \in Nat
      /\ r.length \in Lengths
      /\ r.length \in Nat
  BY <1>3, LengthsType DEF Body, Requests
<1>6. /\ body'[s] = c
      /\ asked'[s] = r
      /\ conn'[s] = IF st \in {"READING_BODY", "SECOND_CRLF"} THEN "body"
                    ELSE "done"
      /\ \A t \in Slots \ {s} :
           conn'[t] = conn[t] /\ asked'[t] = asked[t] /\ body'[t] = body[t]
  BY <1>2, StateTypes
<1>7. \A n \in Files : (b.open /\ b.name = n) \/ file'[n] = files[n]
  <2>1. <<s, r.length>> \in Octets
    BY <1>5 DEF Octets
  <2>2. k \in Nat
    BY <1>4
  <2>3. /\ w \in [Files -> Contents]
        /\ \A n \in Files : files[n] \in Seq(Octets) => w[n] \in Seq(Octets)
        /\ \A n \in Files :
             \/ w[n] = files[n]
             \/ b.open /\ b.linked /\ b.name = n
    <3>1. /\ b \in Body
          /\ files \in [Files -> Contents]
          /\ Linking(b, files)
      BY <1>3
    <3>2. QED
      BY <2>1, <2>2, <3>1, WrittenType
  <2>4. QED
    BY <1>2, <2>3
<1>8. \A n \in Files \ {m} : file'[n] = file[n] /\ ~Holds(s, n)
  BY <1>7 DEF Amid
<1>9. b.open => /\ b.name = m
                /\ ~b.linked => file'[b.name] = None
                /\ b.linked => file'[b.name] = Part(s, r.length, b.written + k)
  <2> SUFFICES ASSUME b.open
               PROVE  /\ b.name = m
                      /\ ~b.linked => file'[b.name] = None
                      /\ b.linked =>
                           file'[b.name] = Part(s, r.length, b.written + k)
    OBVIOUS
  <2>1. /\ b.name = m /\ b.name \in Files
        /\ ~b.linked => files[b.name] = None
        /\ b.linked => files[b.name] = Part(s, r.length, b.written)
    BY <1>3 DEF Amid, Named
  <2>2. CASE ~b.linked
    <3>1. file' = files
      BY <1>2, <2>2 DEF Written
    <3>2. QED
      BY <2>1, <2>2, <3>1
  <2>3. CASE b.linked /\ k = 0
    <3>1. file' = files
      BY <1>2, <2>3 DEF Written
    <3>2. b.written + k = b.written
      BY <1>5, <2>3
    <3>3. QED
      BY <2>1, <2>3, <3>1, <3>2
  <2>4. CASE b.linked /\ k > 0
    <3>1. file' = [files EXCEPT ![b.name] =
                     Overwritten(files[b.name], b.written, k, <<s, r.length>>)]
      BY <1>2, <2>4 DEF Written
    <3>2. file'[b.name]
            = Overwritten(files[b.name], b.written, k, <<s, r.length>>)
      BY <1>3, <2>1, <3>1
    <3>3. QED
      BY <1>4, <1>5, <2>1, <2>4, <3>2, PartGrows
  <2>5. QED
    BY <1>4, <2>2, <2>3, <2>4
<1>10. b.open /\ st = "DONE_GOOD" => b.written + k = r.length
  <2> SUFFICES ASSUME b.open, st = "DONE_GOOD"
               PROVE  b.written + k = r.length
    OBVIOUS
  <2>1. CASE b.isChunk
    <3>1. b.step # "DONE_GOOD"
      BY <1>3, <2>1 DEF Counted
    <3>2. QED
      BY <2>1, <3>1 DEF StepsAfter
  <2>2. CASE ~b.isChunk
    <3>1. b.contentLength = r.length
      BY <2>2 DEF Amid
    <3>2. QED
      BY <2>2, <3>1 DEF StepsAfter
  <2>3. QED
    BY <2>1, <2>2
<1>11. /\ c.step = st
       /\ st \notin {"DONE_GOOD", "DONE_WIHTERROR"} =>
            /\ c.written = b.written + k
            /\ c.isChunk = b.isChunk
            /\ c.contentLength = b.contentLength
  BY <1>3 DEF Advanced, Body
<1>12. Named(s, body'[s])
  BY <1>3, <1>4, <1>6 DEF Named
<1>13. Exact(s, conn'[s], asked'[s], body'[s], file')
  <2> SUFFICES ASSUME b.open
               PROVE  Exact(s, conn'[s], r, c, file')
    BY <1>4, <1>6 DEF Exact
  <2>1. ~c.linked => file'[c.name] = None
    BY <1>4, <1>9
  <2>2. ASSUME conn'[s] = "body"
        PROVE  /\ c.step # "DONE_GOOD"
               /\ ~c.isChunk => c.contentLength = r.length
               /\ c.linked => file'[c.name] = Part(s, r.length, c.written)
    <3>1. st \in {"READING_BODY", "SECOND_CRLF"}
      BY <1>6, <2>2
    <3>2. ~b.isChunk => b.contentLength = r.length
      BY DEF Amid
    <3>3. QED
      BY <1>4, <1>9, <1>11, <3>1, <3>2
  <2>3. ASSUME c.step = "DONE_GOOD", c.linked
        PROVE  file'[c.name] = Content(s, r) /\ Whole(file'[c.name])
    <3>1. file'[c.name] = Part(s, r.length, r.length)
      BY <1>4, <1>9, <1>10, <1>11, <2>3
    <3>2. QED
      BY <3>1, ContentWhole
  <2>4. QED
    BY <2>1, <2>2, <2>3 DEF Exact
<1>14. m \in Files /\ file'[m] # None => conn'[s] # "free" /\ Holds(s, m)'
  <2> SUFFICES ASSUME m \in Files, file'[m] # None
               PROVE  conn'[s] # "free" /\ Holds(s, m)'
    OBVIOUS
  <2>1. b.open
    BY StoreAssumption DEF Amid
  <2>2. b.name = m /\ b.linked
    BY <1>9, <2>1
  <2>3. QED
    BY <1>4, <1>6, <2>1, <2>2 DEF Holds
<1>15. \A t \in Slots \ {s} : body[t].open => body[t].name # m
  BY DEF Amid
<1>16. body'[s].open => body'[s].name = m
  BY <1>4, <1>6, <1>9
<1>17. QED
  BY <1>6, <1>8, <1>12, <1>13, <1>14, <1>15, <1>16, OneSlot

\* More octets of a body that is read.
LEMMA StoreExact ==
  ASSUME StoreInv, ContentInv, NEW s \in Slots, Store(s)
  PROVE  ContentInv'
<1> DEFINE b == body[s]
           r == asked[s]
           m == IF b.open THEN b.name ELSE None
<1>1. /\ conn[s] = "body"
      /\ ParseBody(s, b, file, r)
      /\ asked' = [asked EXCEPT ![s] = r]
  BY StateTypes DEF Store
<1>2. /\ r \in Requests
      /\ Counted(b, r)
      /\ b \in Body
      /\ Linking(b, file)
      /\ Named(s, b)
      /\ Exact(s, "body", r, b, file)
  BY <1>1, StateTypes DEF StoreInv, Counters, Links, ContentInv
<1>3. \A t \in Slots \ {s} : body[t].open => body[t].name # m
  BY StoreAssumption DEF ContentInv, NamesApart, Named
<1>4. \A n \in Files \ {m} : ~Holds(s, n)
  BY DEF Holds
<1>5. b.open => /\ b.name = m
                /\ ~b.isChunk => b.contentLength = r.length
                /\ ~b.linked => file[b.name] = None
                /\ b.linked => file[b.name] = Part(s, r.length, b.written)
  BY <1>2 DEF Exact
<1>6. ~b.open => m = None
  OBVIOUS
<1> HIDE DEF m
<1>7. Amid(s, b, file, r, m)
  BY <1>2, <1>3, <1>4, <1>5, <1>6, StateTypes DEF Amid
<1>8. QED
  BY <1>1, <1>2, <1>7, ParseBodyExact

\* A body that takes its slot for one that reads already: it has no file.
LEMMA PostUnfinishedExact ==
  ASSUME StoreInv, ContentInv, NEW s \in Slots, PostUnfinished(s)
  PROVE  ContentInv'
<1>1. PICK r \in Requests :
        /\ asked' = [asked EXCEPT ![s] = r]
        /\ ParseBody(s, body[s], file, r)
  BY DEF PostUnfinished
<1>2. conn[s] = "head"
  BY DEF PostUnfinished
<1>3. /\ body[s] \in Body
      /\ body[s].open = FALSE
      /\ body[s].linked = FALSE
      /\ body[s].isChunk = FALSE
      /\ body[s].written = 0
      /\ body[s].contentLength = 0
  BY <1>2, HeadHoldsNothing
<1>4. r.length \in Nat
  BY LengthsType DEF Requests
<1>5. Counted(body[s], r)
  BY <1>3, <1>4 DEF Counted
<1>6. \A t \in Slots \ {s} : body[t].open => body[t].name # None
  BY StoreAssumption DEF ContentInv, Named
<1>7. \A n \in Files : ~Holds(s, n)
  BY <1>3 DEF Holds
<1>8. Named(s, body[s]) /\ Linking(body[s], file)
  BY <1>3 DEF Named, Linking
<1>9. Amid(s, body[s], file, r, None)
  BY <1>3, <1>5, <1>6, <1>7, <1>8, StateTypes DEF Amid
<1>10. QED
  BY <1>1, <1>9, ParseBodyExact

\* A file is made, or truncated, for a slot that held none: it is nobody else's.
LEMMA OpenAmid ==
  ASSUME StoreInv, ContentInv, NEW s \in Slots, conn[s] = "head",
         NEW r \in Requests, NEW n \in Files,
         r.kind = "cgi" <=> n \in TempNames,
         n \in Names => n \in Targets[s],
         \A t \in Slots \ {s} : body[t].open => body[t].name # n
  PROVE  Amid(s, Open(body[s], r, n), Truncated(n), r, n)
<1> DEFINE b == body[s]
           c == Open(b, r, n)
<1>1. Midway(s, c, Truncated(n), r)
  BY OpenMidway
<1>2. /\ b \in Body
      /\ b.written = 0
      /\ b.open = FALSE
  BY HeadHoldsNothing
<1>3. /\ c.open = TRUE
      /\ c.linked = TRUE
      /\ c.name = n
      /\ c.isChunk = r.chunked
      /\ c.written = 0
      /\ c.removeFile <=> r.kind = "cgi"
      /\ c.contentLength = IF r.chunked THEN 0 ELSE r.length
  BY <1>2 DEF Open, Body
<1>4. Named(s, c)
  BY <1>3 DEF Named
<1>5. /\ Truncated(n)[n] = <<>>
      /\ \A f \in Files \ {n} : Truncated(n)[f] = file[f]
  BY StateTypes DEF Truncated
<1>6. Part(s, r.length, 0) = <<>>
  BY DEF Part
<1>7. \A f \in Files : ~Holds(s, f)
  BY <1>2 DEF Holds
<1>8. /\ c \in Body
      /\ Truncated(n) \in [Files -> Contents]
      /\ Counted(c, r)
      /\ Linking(c, Truncated(n))
  BY <1>1 DEF Midway
<1> HIDE DEF c
<1>9. QED
  BY <1>3, <1>4, <1>5, <1>6, <1>7, <1>8 DEF Amid, c

\* An upload that fails leaves the file as it was, or empty.
LEMMA FailedExact ==
  ASSUME StoreInv, ContentInv, NEW s \in Slots, conn[s] = "head",
         NEW r \in Requests, NEW m,
         \/ m = None /\ file' = file
         \/ m \in Files /\ file' = Truncated(m),
         \A t \in Slots \ {s} : body[t].open => body[t].name # m,
         body' = [body EXCEPT ![s] = Failed(body[s])],
         conn' = [conn EXCEPT ![s] = "done"],
         asked' = [asked EXCEPT ![s] = r]
  PROVE  ContentInv'
<1>1. body[s] \in Body /\ body[s].open = FALSE
  BY HeadHoldsNothing
<1>2. /\ body'[s] = Failed(body[s])
      /\ \A t \in Slots \ {s} :
           conn'[t] = conn[t] /\ asked'[t] = asked[t] /\ body'[t] = body[t]
  BY StateTypes
<1>3. body'[s].open = FALSE
  BY <1>1, <1>2 DEF Failed, Body
<1>4. /\ Named(s, body'[s])
      /\ Exact(s, conn'[s], asked'[s], body'[s], file')
  BY <1>3 DEF Named, Exact
<1>5. /\ \A n \in Files \ {m} : file'[n] = file[n]
      /\ m \in Files /\ file'[m] # None => file'[m] = <<>>
  BY StoreAssumption, StateTypes DEF Truncated
<1>6. \A n \in Files : ~Holds(s, n)
  BY <1>1 DEF Holds
<1>7. QED
  BY <1>2, <1>3, <1>4, <1>5, <1>6, OneSlot

LEMMA PostExact ==
  ASSUME Separate, StoreInv, ContentInv, NEW s \in Slots, Post(s)
  PROVE  ContentInv'
<1> DEFINE b == body[s]
<1>1. PICK r \in Requests :
        /\ MayAsk(s, r)
        /\ asked' = [asked EXCEPT ![s] = r]
        /\ \E o \in Openings(b, r) :
             /\ errno' = o.errno
             /\ \/ /\ ~o.body.open
                   /\ Turn(s, {"head"}, "done")
                   /\ body' = [body EXCEPT ![s] = o.body]
                   /\ file' = o.file
                \/ /\ o.body.open
                   /\ ParseBody(s, o.body, o.file, r)
  BY DEF Post
<1>2. PICK o \in Openings(b, r) :
        \/ /\ ~o.body.open
           /\ Turn(s, {"head"}, "done")
           /\ body' = [body EXCEPT ![s] = o.body]
           /\ file' = o.file
        \/ /\ o.body.open
           /\ ParseBody(s, o.body, o.file, r)
  BY <1>1
<1>3. conn[s] = "head" /\ b \in Body /\ b.open = FALSE
  BY HeadHoldsNothing DEF Post
<1>4. ASSUME NEW files, NEW e, NEW m, o = Outcome(Failed(b), files, e),
             \/ m = None /\ files = file
             \/ m \in Files /\ files = Truncated(m),
             \A t \in Slots \ {s} : body[t].open => body[t].name # m
      PROVE  ContentInv'
  <2>1. o.body = Failed(b) /\ o.file = files
    BY <1>4 DEF Outcome
  <2>2. Failed(b).open = FALSE
    BY <1>3 DEF Failed, Body
  <2>3. /\ body' = [body EXCEPT ![s] = Failed(b)]
        /\ file' = files
        /\ conn' = [conn EXCEPT ![s] = "done"]
    BY <1>2, <2>1, <2>2 DEF Turn
  <2>4. QED
    BY <1>1, <1>3, <1>4, <2>3, FailedExact
<1>5. ASSUME NEW n \in Files, NEW e, o = Outcome(Open(b, r, n), Truncated(n), e),
             r.kind = "cgi" <=> n \in TempNames,
             n \in Names => n \in Targets[s],
             \A t \in Slots \ {s} : body[t].open => body[t].name # n
      PROVE  ContentInv'
  <2>1. o.body = Open(b, r, n) /\ o.file = Truncated(n)
    BY <1>5 DEF Outcome
  <2>2. Open(b, r, n).open
    BY <1>3 DEF Open, Body
  <2>3. ParseBody(s, Open(b, r, n), Truncated(n), r)
    BY <1>2, <2>1, <2>2
  <2>4. Amid(s, Open(b, r, n), Truncated(n), r, n)
    BY <1>3, <1>5, OpenAmid
  <2>5. QED
    BY <1>1, <2>3, <2>4, ParseBodyExact
<1>6. \A t \in Slots : Named(t, body[t])
  BY DEF ContentInv
<1>7. CASE o = Outcome(Failed(b), file, "other")
  <2>1. \A t \in Slots \ {s} : body[t].open => body[t].name # None
    BY <1>6, StoreAssumption DEF Named
  <2>2. QED
    BY <1>4, <1>7, <2>1
<1>8. CASE r.kind = "upload" /\ o \in OpenFile(b, r)
  <2> DEFINE n == r.target
  <2>1. /\ n \in Names /\ n \in Files /\ n \notin TempNames
        /\ n \in Targets[s]
    BY <1>1, <1>8, StoreAssumption DEF Requests, Files, MayAsk
  <2>2. \A t \in Slots \ {s} : body[t].open => body[t].name # n
    BY <1>6, <2>1 DEF Separate, Named
  <2>3. CASE errno = "EISDIR"
    <3>1. o = Outcome(Failed(b), Truncated(n), "other")
      BY <1>8, <2>3 DEF OpenFile
    <3>2. QED
      BY <1>4, <2>1, <2>2, <3>1
  <2>4. CASE errno # "EISDIR"
    <3>1. o = Outcome(Open(b, r, n), Truncated(n), errno)
      BY <1>8, <2>4 DEF OpenFile
    <3>2. QED
      BY <1>5, <1>8, <2>1, <2>2, <3>1
  <2>5. QED
    BY <2>3, <2>4
<1>9. CASE r.kind = "directory" /\ o \in OpenRandom(b, r)
  <2>1. PICK n \in Unused(RandomNames) :
          o = Outcome(Open(b, r, n), Truncated(n), "other")
    BY <1>9 DEF OpenRandom
  <2>2. /\ n \in RandomNames
        /\ \A t \in Slots : body[t].open => body[t].name # n
    BY DEF Unused
  <2>3. n \in Files /\ n \notin TempNames /\ n \notin Names
    BY <2>2, StoreAssumption DEF Files
  <2>4. QED
    BY <1>5, <1>9, <2>1, <2>2, <2>3
<1>10. CASE r.kind = "cgi" /\ o \in OpenTemp(b, r)
  <2>1. PICK n \in Unused(TempNames) :
          o = Outcome(Open(b, r, n), Truncated(n), errno)
    BY <1>10 DEF OpenTemp
  <2>2. /\ n \in TempNames
        /\ \A t \in Slots : body[t].open => body[t].name # n
    BY DEF Unused
  <2>3. n \in Files /\ n \notin Names
    BY <2>2, StoreAssumption DEF Files
  <2>4. QED
    BY <1>5, <1>10, <2>1, <2>2, <2>3
<1>11. r.kind \in {"upload", "directory", "cgi"}
  BY DEF Requests
<1>12. QED
  BY <1>2, <1>7, <1>8, <1>9, <1>10, <1>11 DEF Openings

-----------------------------------------------------------------------------
LEMMA InitExact == Init => ContentInv
<1> SUFFICES ASSUME Init PROVE ContentInv
  OBVIOUS
<1>1. \A s \in Slots : body[s].open = FALSE
  BY DEF Init, NewBody
<1>2. \A n \in Files : file[n] = None
  BY DEF Init
<1>3. QED
  BY <1>1, <1>2 DEF ContentInv, Named, Exact, NamesApart, NoPartialFile, Exists

LEMMA StepExact ==
  ASSUME Separate, StoreInv, ContentInv, [Next]_vars
  PROVE  ContentInv'
<1>1. CASE OtherFailure \/ UNCHANGED vars
  <2>1. UNCHANGED <<conn, asked, body, file>>
    BY <1>1 DEF OtherFailure, vars
  <2>2. QED
    BY <2>1 DEF ContentInv, NamesApart, NoPartialFile, Exists, Held, Holds
<1>2. ASSUME NEW s \in Slots, Connect(s) PROVE ContentInv'
  BY <1>2, TurnExact DEF Connect, Turn
<1>3. ASSUME NEW s \in Slots, FirstRead(s) PROVE ContentInv'
  BY <1>3, ResetExact DEF FirstRead, Turn
<1>4. ASSUME NEW s \in Slots, NoBody(s) PROVE ContentInv'
  BY <1>4, TurnExact DEF NoBody, Turn
<1>5. ASSUME NEW s \in Slots, DeleteDirectory(s) PROVE ContentInv'
  BY <1>5, TurnExact DEF DeleteDirectory, Turn
<1>6. ASSUME NEW s \in Slots, Post(s) PROVE ContentInv'
  BY <1>6, PostExact
<1>7. ASSUME NEW s \in Slots, PostUnfinished(s) PROVE ContentInv'
  BY <1>7, PostUnfinishedExact
<1>8. ASSUME NEW s \in Slots, Store(s) PROVE ContentInv'
  BY <1>8, StoreExact
<1>9. ASSUME NEW s \in Slots, Answer(s) PROVE ContentInv'
  BY <1>9, TurnExact DEF Answer, Turn
<1>10. ASSUME NEW s \in Slots, Leave(s) PROVE ContentInv'
  BY <1>10, ResetExact DEF Leave, Turn
<1>11. ASSUME NEW s \in Slots, NEW n \in Names \cup RandomNames, Delete(s, n)
       PROVE  ContentInv'
  BY <1>11, DeleteExact
<1>12. QED
  BY <1>1, <1>2, <1>3, <1>4, <1>5, <1>6, <1>7, <1>8, <1>9, <1>10, <1>11
     DEF Next

LEMMA ContentInvInductive == Separate => (Spec => []ContentInv)
<1> SUFFICES ASSUME Separate PROVE Spec => []ContentInv
  OBVIOUS
<1>1. StoreInv /\ ContentInv /\ [Next]_vars => ContentInv'
  BY StepExact
<1>2. QED
  BY InitExact, StoreInvInductive, <1>1, PTL DEF Spec

\* A body that was cut short, refused or not written leaves nothing of it
\* behind, for any number of connections and files (clsBody::Reset).
THEOREM NothingPartial == Separate => (Spec => []NoPartialFile)
<1>1. ContentInv => NoPartialFile
  BY DEF ContentInv
<1>2. QED
  BY <1>1, ContentInvInductive, PTL

\* A request that is answered as stored has its octets on disk and no others,
\* however long it is and however it was cut (StoreNormalBodyInDisk,
\* _handleChunk).
THEOREM StoredExactly == Separate => (Spec => []StoredExact)
<1>1. ContentInv => StoredExact
  BY DEF ContentInv, Exact, StoredExact
<1>2. QED
  BY <1>1, ContentInvInductive, PTL

-----------------------------------------------------------------------------
\* What Post does to a stored file that it does not name: nothing.
LEMMA PostSpares ==
  ASSUME StoreInv, ContentInv, NEW s \in Slots, Post(s),
         NEW n \in Uploads, Stored(n), asked'[s].target # n
  PROVE  file'[n] = file[n]
<1> DEFINE b == body[s]
<1>1. PICK r \in Requests :
        /\ asked' = [asked EXCEPT ![s] = r]
        /\ \E o \in Openings(b, r) :
             \/ /\ ~o.body.open
                /\ file' = o.file
             \/ /\ o.body.open
                /\ ParseBody(s, o.body, o.file, r)
  BY DEF Post
<1>2. PICK o \in Openings(b, r) :
        \/ /\ ~o.body.open
           /\ file' = o.file
        \/ /\ o.body.open
           /\ ParseBody(s, o.body, o.file, r)
  BY <1>1
<1>3. conn[s] = "head" /\ b \in Body /\ b.open = FALSE
  BY HeadHoldsNothing DEF Post
<1>4. r.target # n /\ n \in Files /\ n \notin TempNames
  BY <1>1, StateTypes, StoreAssumption DEF Uploads, Files
<1>5. ASSUME NEW files, NEW e, o = Outcome(Failed(b), files, e),
             files[n] = file[n]
      PROVE  file'[n] = file[n]
  <2>1. o.body.open = FALSE /\ o.file = files
    BY <1>3, <1>5 DEF Outcome, Failed, Body
  <2>2. QED
    BY <1>2, <1>5, <2>1
<1>6. ASSUME NEW m \in Files, NEW e, o = Outcome(Open(b, r, m), Truncated(m), e),
             m # n
      PROVE  file'[n] = file[n]
  <2> DEFINE c == Open(b, r, m)
  <2>1. o.body = c /\ o.file = Truncated(m)
    BY <1>6 DEF Outcome
  <2>2. c.open = TRUE /\ c.name = m
    BY <1>3 DEF Open, Body
  <2>3. ParseBody(s, c, Truncated(m), r)
    BY <1>2, <2>1, <2>2
  <2>4. PICK k \in Pieces(c, r) : file' = Written(Truncated(m), c, k, <<s, r.length>>)
    BY <2>3 DEF ParseBody
  <2>5. Truncated(m)[n] = file[n] /\ Truncated(m) \in [Files -> Contents]
    BY <1>4, <1>6, StateTypes, TruncatedType DEF StoreInv
  <2>6. Written(Truncated(m), c, k, <<s, r.length>>)[n] = Truncated(m)[n]
    BY <1>4, <1>6, <2>2, <2>5 DEF Written
  <2>7. QED
    BY <2>4, <2>5, <2>6
<1>7. CASE o = Outcome(Failed(b), file, "other")
  BY <1>5, <1>7
<1>8. CASE r.kind = "upload" /\ o \in OpenFile(b, r)
  <2>1. r.target \in Files
    BY <1>8 DEF Requests, Files
  <2>2. Truncated(r.target)[n] = file[n]
    BY <1>4, <2>1, TruncatedType DEF StoreInv
  <2>3. QED
    BY <1>4, <1>5, <1>6, <1>8, <2>1, <2>2 DEF OpenFile
<1>9. CASE r.kind = "directory" /\ o \in OpenRandom(b, r)
  <2>1. PICK m \in Unused(RandomNames) :
          o = Outcome(Open(b, r, m), Truncated(m), "other")
    BY <1>9 DEF OpenRandom
  <2>2. m \in Files /\ m # n
    BY <2>1 DEF Unused, Stored, Files
  <2>3. QED
    BY <1>6, <2>1, <2>2
<1>10. CASE r.kind = "cgi" /\ o \in OpenTemp(b, r)
  <2>1. PICK m \in TempNames :
          o = Outcome(Open(b, r, m), Truncated(m), errno)
    BY <1>10 DEF OpenTemp, Unused
  <2>2. m \in Files /\ m # n
    BY <1>4, <2>1 DEF Files
  <2>3. QED
    BY <1>6, <2>1, <2>2
<1>11. r.kind \in {"upload", "directory", "cgi"}
  BY DEF Requests
<1>12. QED
  BY <1>2, <1>7, <1>8, <1>9, <1>10, <1>11 DEF Openings

\* What the octets of a body do to a stored file: they are never written to it.
LEMMA PiecesSpare ==
  ASSUME StoreInv, ContentInv, NEW s \in Slots, NEW r,
         ParseBody(s, body[s], file, r), conn[s] \in {"head", "body"},
         NEW n \in Uploads, Stored(n)
  PROVE  file'[n] = file[n]
<1>1. PICK k \in Pieces(body[s], r) :
        file' = Written(file, body[s], k, <<s, r.length>>)
  BY DEF ParseBody
<1>2. Exact(s, conn[s], asked[s], body[s], file)
  BY DEF ContentInv
<1>3. body[s].linked => body[s].open /\ conn[s] = "body"
  BY OpenInUse DEF StoreInv, Links, Linking
<1>4. ~(body[s].linked /\ body[s].name = n)
  BY <1>2, <1>3 DEF Exact, Stored, Holds
<1>5. n \in Files
  BY DEF Uploads, Files
<1>6. QED
  BY <1>1, <1>4, <1>5, StateTypes DEF Written

\* What the end of a request or of a connection does to a stored file: nothing.
LEMMA ResetSpares ==
  ASSUME StoreInv, ContentInv, NEW s \in Slots, Reset(s),
         NEW n \in Uploads, Stored(n)
  PROVE  file'[n] = file[n]
<1> DEFINE b == body[s]
<1>1. n \in Files /\ n \notin TempNames
  BY StoreAssumption DEF Uploads, Files
<1>2. file' = IF Discards(b) THEN [file EXCEPT ![b.name] = None] ELSE file
  BY DEF Reset
<1>3. ASSUME Discards(b), b.name = n
      PROVE  FALSE
  <2>1. b.open /\ (b.step # "DONE_GOOD" \/ b.removeFile)
    BY <1>3 DEF Discards
  <2>2. Named(s, b) /\ Exact(s, conn[s], asked[s], b, file)
    BY DEF ContentInv
  <2>3. ~b.removeFile
    BY <1>1, <1>3, <2>1, <2>2 DEF Named
  <2>4. b.linked
    BY <1>3, <2>1, <2>2 DEF Exact, Stored, Exists
  <2>5. QED
    BY <1>3, <2>1, <2>3, <2>4 DEF Stored, Holds
<1>4. QED
  BY <1>1, <1>2, <1>3, StateTypes

LEMMA StepSpares ==
  ASSUME StoreInv, ContentInv, Next, NEW n \in Uploads, Stored(n),
         file'[n] # file[n]
  PROVE  \E s \in Slots :
           conn[s] = "head" /\ (Delete(s, n) \/ asked'[s].target = n)
<1>1. ASSUME NEW s \in Slots, Post(s)
      PROVE  conn[s] = "head" /\ asked'[s].target = n
  BY <1>1, PostSpares DEF Post
<1>2. ASSUME NEW s \in Slots, PostUnfinished(s)
      PROVE  FALSE
  <2>1. PICK r \in Requests : ParseBody(s, body[s], file, r)
    BY <1>2 DEF PostUnfinished
  <2>2. QED
    BY <1>2, <2>1, PiecesSpare DEF PostUnfinished
<1>3. ASSUME NEW s \in Slots, Store(s)
      PROVE  FALSE
  BY <1>3, PiecesSpare DEF Store
<1>4. ASSUME NEW s \in Slots, FirstRead(s) \/ Leave(s)
      PROVE  FALSE
  BY <1>4, ResetSpares DEF FirstRead, Leave
<1>5. ASSUME NEW s \in Slots, NEW m \in Names \cup RandomNames, Delete(s, m)
      PROVE  conn[s] = "head" /\ Delete(s, n)
  <2>1. n \in Files
    BY DEF Uploads, Files
  <2>2. conn[s] = "head" /\ file' = [file EXCEPT ![m] = None]
    BY <1>5 DEF Delete, Turn
  <2>3. m = n
    BY <2>1, <2>2, StateTypes
  <2>4. QED
    BY <1>5, <2>2, <2>3
<1>6. ASSUME NEW s \in Slots,
             Connect(s) \/ NoBody(s) \/ DeleteDirectory(s) \/ Answer(s)
      PROVE  FALSE
  BY <1>6 DEF Connect, NoBody, DeleteDirectory, Answer
<1>7. ~OtherFailure
  BY DEF OtherFailure
<1>8. QED
  BY <1>1, <1>2, <1>3, <1>4, <1>5, <1>6, <1>7 DEF Next

\* A stored upload stays as it is until it is deleted or posted again, for any
\* number of connections that end, time out or reuse its slot (clsBody::Reset).
THEOREM UploadsStay == Separate => (Spec => UploadsKept)
<1> SUFFICES ASSUME Separate PROVE Spec => UploadsKept
  OBVIOUS
<1>1. StoreInv /\ ContentInv /\ [Next]_vars =>
        [\A n \in Uploads :
           Stored(n) /\ file'[n] # file[n] =>
             \E s \in Slots :
               conn[s] = "head" /\ (Delete(s, n) \/ asked'[s].target = n)]_vars
  BY StepSpares
<1>2. QED
  BY <1>1, StoreInvInductive, ContentInvInductive, PTL DEF Spec, UploadsKept
=============================================================================
