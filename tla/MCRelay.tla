------------------------------ MODULE MCRelay -------------------------------
(***************************************************************************)
(* Relay for TLC: outputs of CGIs with every end of the header section,    *)
(* around every limit; files of several chunks; directories whose rows do  *)
(* not fit the buffer at every place.                                      *)
(***************************************************************************)
EXTENDS Relay

Nowhere == [kind |-> "none", output |-> <<>>, size |-> 0, entries |-> <<>>]

L(field) == <<field, "cr", "lf">>
End == <<"cr", "lf">>
Body == <<"b1", "lf", "b2", "b3", "b4", "b5">>

\* Every header section of at most two fields, with the bodies around the size
\* of the memory; and the ones that are cut short, too long or not lines.
Sections == {<<>>} \cup {L(f) : f \in DOMAIN FieldName}
              \cup {L(f) \o L(g) : f, g \in DOMAIN FieldName}
Outputs ==
  {h \o End \o SubSeq(Body, 1, n) : h \in Sections, n \in {0, 1, 4, 6}}
  \cup {L("away") \o L("created") \o L("type") \o End \o <<"b1">>,
        L("type") \o L("cookie") \o L("cookie") \o End \o <<"b1">>,
        L("type") \o L("other") \o L("other") \o L("other") \o End,
        <<"type", "lf">> \o End, L("type") \o <<"b1">>, L("type"), <<>>}
CgiSources == {[Nowhere EXCEPT !.kind = "cgi", !.output = o] : o \in Outputs}
FileSources == {[Nowhere EXCEPT !.kind = "file", !.size = n] : n \in {0, 1, 30, 70, 75}}

Entry(name, bytes, needs) == [name |-> name, bytes |-> bytes, needs |-> needs]
Dot == Entry(".", 7, 8)
Directories ==
  {<<Dot>>,
   <<Entry("a", 8, 9), Dot, Entry("b", 8, 10)>>,
   <<Entry("a", 10, 10), Entry("b", 20, 25), Dot, Entry("c", 10, 12), Entry("d", 9, 9)>>,
   <<Entry("a", 20, 24), Entry("b", 10, 12), Entry("c", 9, 9)>>,
   <<Entry("a", 10, 11), Entry("b", 12, 14), Entry("c", 12, 12)>>}
  \cup {<<Entry("a", n, n)>> : n \in 9 .. 13}
IndexSources ==
  {[Nowhere EXCEPT !.kind = "index", !.entries = d] : d \in Directories}
AllSources == CgiSources \cup FileSources \cup IndexSources
=============================================================================
