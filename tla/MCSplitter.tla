----------------------------- MODULE MCSplitter -----------------------------
(* Arrays of two or three elements chosen from values that share strings,    *)
(* classes and containers with each other.                                   *)
EXTENDS Splitter

MCStrings == {"", "a", "b", "C"}
Of(tag, n) == T(tag, n, "")
A == Str("a")
B == Str("b")

\* The first element stands at offset 3; the others may name what is in it.
Firsts ==
  {<<A>>, <<Of("REFN", 0), Flagged(Of("ARRAY", 2)), A, Flagged(B)>>,
   <<Flagged(A)>>, <<Of("OBJECT", 0), Str("C"), Flagged(Of("HASHREF", 1)), A, B>>,
   <<Of("REFN", 0), Flagged(Of("ARRAY", 1)), Of("REFP", 4)>>}
\* Elements that name offset o, whatever is there.
Others(f, n) ==
  {<<A>>, <<B>>, <<Of("HASHREF", 1), A, Of("INT", 0)>>, <<Of("WEAKEN", 0), Of("REFN", 0), A>>}
  \cup {<<Of("REFP", o)>> : o \in {i \in 3 .. 2 + Len(f) : f[i - 2].trk}}
  \cup {<<Of("ALIAS", o)>> : o \in {i \in 3 .. 2 + Len(f) : f[i - 2].trk /\ f[i - 2].tag = "STR"}}
  \cup {<<Of("COPY", o)>> : o \in {i \in 3 .. 2 + Len(f) : f[i - 2].tag = "STR"}}
  \cup {<<Of("ARRAYREF", 2), Flagged(Of("COPY", o)), Of("ALIAS", n + 1)>> :
          o \in {i \in 3 .. 2 + Len(f) : f[i - 2].tag = "STR" /\ ~f[i - 2].trk}}
  \cup {<<Of("OBJECTV", o), Of("ARRAYREF", 1), A>> : o \in {i \in 3 .. 2 + Len(f) : f[i - 2].s = "C"}}
  \cup {<<Of("REGEXP", 0), A, Str("")>>}

OnlyOneRegexp(d) == Cardinality({i \in DOMAIN d : d[i].tag = "REGEXP"}) <= 1
Arrays ==
  {d \in UNION {{<<Of("REFN", 0), Of("ARRAY", 3)>> \o f \o g \o h :
                   h \in Others(f, 3 + Len(f) + Len(g))} :
                <<f, g>> \in {<<f1, g1>> \in Firsts \X UNION {Others(f2, 3 + Len(f2)) : f2 \in Firsts} :
                                g1 \in Others(f1, 3 + Len(f1))}} : OnlyOneRegexp(d)}
  \cup {<<Of("ARRAYREF", 0)>>, <<Flagged(Of("ARRAYREF", 2)), A, Of("REFP", 1)>>}
\* Offsets of version 1 are followed to the wrong place (README).
MCInputs == {[version |-> 2, body |-> d] : d \in Arrays}
            \cup {[version |-> 1, body |-> d] : d \in {a \in Arrays : \A i \in DOMAIN a : ~HasOffset(a[i])}}
MCSizes == {1, 4, 20}
=============================================================================
