------------------------------ MODULE SrlTrees ------------------------------
(***************************************************************************)
(* What a document body stands for: the value at a token, unfolded to a     *)
(* given depth.  References to earlier tags are followed, so that sharing   *)
(* and the abbreviations COPY and OBJECTV do not show.  A body that is not  *)
(* well formed has "BAD" somewhere in the tree.                             *)
(***************************************************************************)
EXTENDS SrlTokens

Leaf(t, s) == [t |-> t, s |-> s, kids |-> <<>>]
Node(t, s, kids) == [t |-> t, s |-> s, kids |-> kids]

RECURSIVE After(_, _), AfterN(_, _, _)
\* The token behind the value that starts at i, and behind n values.
After(doc, i) ==
  IF i > Len(doc) THEN i
  ELSE LET t == doc[i]
       IN  CASE IsPrefixTag(t) -> After(doc, i + 1)
             [] t.tag \in {"OBJECT", "REGEXP"} -> AfterN(doc, i + 1, 2)
             [] IsArray(t) -> AfterN(doc, i + 1, t.n)
             [] IsHash(t) -> AfterN(doc, i + 1, 2 * t.n)
             [] OTHER -> i + 1
AfterN(doc, i, n) == IF n = 0 THEN i ELSE AfterN(doc, After(doc, i), n - 1)

\* The name a string or a COPY of a string stands for.
Name(doc, i) == CASE i > Len(doc) -> "BAD"
                  [] i <= Len(doc) /\ IsString(doc[i]) -> doc[i].s
                  [] i <= Len(doc) /\ doc[i].tag = "COPY" ->
                       IF doc[i].n \in 1 .. i - 1 /\ IsString(doc[doc[i].n]) THEN doc[doc[i].n].s
                       ELSE "BAD"
                  [] OTHER -> "BAD"

RECURSIVE Tree(_, _, _)
Tree(doc, i, d) ==
  LET t == IF i \in 1 .. Len(doc) THEN doc[i] ELSE T("BAD", 0, "")
      Items(n) == [k \in 1 .. n |-> Tree(doc, AfterN(doc, i + 1, k - 1), d - 1)]
      Refers == t.n \in 1 .. i /\ doc[t.n].trk
  IN  IF d = 0 THEN Leaf("deep", "")
      ELSE CASE t.tag \in {"INT", "STR", "UNDEF"} -> Leaf(t.tag, t.s)
             [] t.tag \in {"PAD", "WEAKEN"} -> Tree(doc, i + 1, d)
             [] t.tag = "COPY" -> Leaf("STR", Name(doc, i))
             [] t.tag = "ALIAS" -> IF Refers /\ t.n < i THEN Tree(doc, t.n, d) ELSE Leaf("BAD", "")
             [] t.tag = "REFP" -> IF Refers THEN Node("REF", "", <<Tree(doc, t.n, d - 1)>>)
                                  ELSE Leaf("BAD", "")
             [] t.tag = "REFN" -> Node("REF", "", <<Tree(doc, i + 1, d - 1)>>)
             [] t.tag = "OBJECT" -> Node("OBJ", Name(doc, i + 1), <<Tree(doc, After(doc, i + 1), d)>>)
             [] t.tag = "OBJECTV" ->
                  Node("OBJ", IF t.n \in 1 .. i - 1 THEN Name(doc, t.n) ELSE "BAD", <<Tree(doc, i + 1, d)>>)
             [] t.tag = "REGEXP" ->      \* the modifiers may not be a COPY
                  Node("RE", Name(doc, i + 1),
                       <<IF i + 2 <= Len(doc) /\ IsString(doc[i + 2]) THEN Leaf("STR", doc[i + 2].s)
                         ELSE Leaf("BAD", "")>>)
             [] t.tag = "ARRAY" -> Node("AV", "", Items(t.n))
             [] t.tag = "HASH" -> Node("HV", "", Items(2 * t.n))
             [] t.tag = "ARRAYREF" -> Node("REF", "", <<Node("AV", "", Items(t.n))>>)
             [] t.tag = "HASHREF" -> Node("REF", "", <<Node("HV", "", Items(2 * t.n))>>)
             [] OTHER -> Leaf("BAD", "")

\* The elements of a document that is a reference to an array.
Elements(doc, d) ==
  LET first == IF doc[1].tag = "REFN" THEN 3 ELSE 2
      n == IF doc[1].tag = "REFN" THEN doc[2].n ELSE doc[1].n
  IN  [k \in 1 .. n |-> Tree(doc, AfterN(doc, first, k - 1), d)]
=============================================================================
