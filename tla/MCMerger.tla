------------------------------ MODULE MCMerger ------------------------------
(* Documents with repeated strings, shared values, objects, cycles, weak      *)
(* references and padding, and documents that fail at every stage.            *)
EXTENDS Merger

MCStrings == {"", "aaaa", "bbbb", "cccc", "dd"}
MCShort == {"", "dd"}
MCHash == [s \in MCStrings |-> CASE s = "aaaa" -> 1 [] s = "bbbb" -> 3 [] s = "cccc" -> 2 [] OTHER -> 0]
A == Str("aaaa")
B == Str("bbbb")
C == Str("cccc")
D == Str("dd")
I == T("INT", 0, "dd")
Of(tag, n) == T(tag, n, "")

Good ==
  {<<A>>,
   <<Of("REFN", 0), Of("ARRAY", 2), A, A>>,
   <<Of("ARRAYREF", 5), B, C, Of("COPY", 3), Of("COPY", 2), Of("COPY", 3)>>,
   <<Of("ARRAYREF", 2), Of("HASHREF", 1), C, I, Of("HASHREF", 1), Of("COPY", 3), I>>,
   <<Of("ARRAYREF", 2), Of("REFN", 0), Flagged(Of("ARRAY", 1)), A, Of("REFP", 3)>>,
   <<Of("ARRAYREF", 2), Flagged(D), Of("ALIAS", 2)>>,
   <<Of("ARRAYREF", 2), Of("OBJECT", 0), C, Of("HASHREF", 0), Of("OBJECTV", 3), Of("REFN", 0), A>>,
   <<Of("ARRAYREF", 2), Of("OBJECT", 0), B, Flagged(Of("ARRAYREF", 0)), Of("REFP", 4)>>,
   <<Of("REFN", 0), Flagged(Of("ARRAY", 1)), Of("REFP", 2)>>,
   <<Of("ARRAYREF", 2), Of("PAD", 0), Of("PAD", 0), Of("REFN", 0), Flagged(Of("UNDEF", 0)),
     Of("WEAKEN", 0), Of("REFP", 5)>>,
   <<Of("OBJECT", 0), C, Of("REGEXP", 0), A, D>>}

\* They fail while they are merged: the input ends, a key or a modifier is no
\* string, an offset names nothing that was merged, nesting is too deep, a
\* reference names itself.
Long == <<Of("ARRAYREF", 3), B, C, A>>
Deep == <<Of("ARRAYREF", 2), Of("OBJECT", 0), C, Of("HASHREF", 1), A, I, B>>
Prefix(d, n) == [i \in 1 .. n |-> d[i]]
Truncated == {Prefix(Long, n) : n \in 0 .. 3} \cup {Prefix(Deep, n) : n \in 1 .. 6}
Bad == Truncated \cup
  {<<Of("HASHREF", 1), I>>, <<Of("REGEXP", 0), B, I>>, <<Of("REGEXP", 0), B>>,
   <<Of("ARRAYREF", 2), B, Of("COPY", 0)>>, <<Of("REFP", 1)>>,
   <<Of("ARRAYREF", 2), B, Of("OBJECT", 0), Of("COPY", 2)>>,
   <<Of("ARRAYREF", 2), I, Of("OBJECT", 0), Of("COPY", 2), I>>,
   <<Of("HASHREF", 1), B, Of("HASHREF", 1), Of("COPY", 1)>>,
   <<Of("OBJECT", 0), I, I>>, <<Flagged(Of("PAD", 0)), I>>,
   [i \in 1 .. 9 |-> IF i < 9 THEN Of("REFN", 0) ELSE B]}

\* They are refused before a byte is merged.
Refused == {<<B, Of("BAD", 0)>>, <<Of("ARRAYREF", 2), B, Of("REFP", 5)>>}

MCDoc(b) == [header |-> TRUE, version |-> 2, body |-> b]
MCDocs == {MCDoc(b) : b \in Good \cup Bad \cup Refused}
          \cup {[header |-> FALSE, version |-> 2, body |-> <<A>>], [header |-> TRUE, version |-> 1, body |-> <<A>>]}
\* Two documents that fail in a row, behind one that just fills an arena.
PurgeDocs == {MCDoc(b) : b \in {<<Of("ARRAYREF", 5), B, C, Of("COPY", 3), Of("COPY", 2), Of("COPY", 3)>>,
                                <<Of("ARRAYREF", 2), A>>, <<Of("ARRAYREF", 1)>>}}
MCLists == {<<>>} \cup {<<MCDoc(<<B>>), MCDoc(b)>> : b \in {<<A>>, <<Of("ARRAYREF", 2), C>>, <<B, Of("BAD", 0)>>}}
MCOption(d, top, v) == [dedupe |-> d, toplevel |-> top, version |-> v]
MCOptions == {MCOption(TRUE, "ARRAY", 2), MCOption(FALSE, "SCALAR", 2), MCOption(FALSE, "ARRAY", 1)}
=============================================================================
