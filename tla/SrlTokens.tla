------------------------------ MODULE SrlTokens ------------------------------
(***************************************************************************)
(* Document bodies as the tools that work on encoded data see them (Merger, *)
(* Splitter, path iterator): a sequence of tokens, one per tag, an offset   *)
(* being the index of a token.                                              *)
(***************************************************************************)
EXTENDS Integers, Sequences, FiniteSets
LOCAL INSTANCE SequencesExt

CONSTANT Strings      \* string values, hash keys, class names

Tags == {"INT", "STR", "UNDEF", "REFN", "REFP", "ALIAS", "COPY", "WEAKEN", "PAD", "OBJECT",
         "OBJECTV", "ARRAY", "HASH", "ARRAYREF", "HASHREF", "REGEXP", "BAD"}
Tok == [tag : Tags, n : Nat, s : Strings, trk : BOOLEAN]

T(tag, n, s) == [tag |-> tag, n |-> n, s |-> s, trk |-> FALSE]
Flagged(t) == [t EXCEPT !.trk = TRUE]
Str(s) == T("STR", 0, s)

\* SRL_SET_TRACK_FLAG on the tag at an offset of a buffer.
SRL_SET_TRACK_FLAG(doc, ofs) == [doc EXCEPT ![ofs].trk = TRUE]

IsString(t) == t.tag = "STR"
IsArray(t) == t.tag \in {"ARRAY", "ARRAYREF"}
IsHash(t) == t.tag \in {"HASH", "HASHREF"}
HasOffset(t) == t.tag \in {"REFP", "ALIAS", "COPY", "OBJECTV"}
\* Tags that stand before a value and are no value themselves.
IsPrefixTag(t) == t.tag \in {"REFN", "WEAKEN", "PAD", "OBJECTV"}

(***************************************************************************)
(* What the tokens from .. to of a body say, whatever abbreviations they    *)
(* use: COPY is the string it names, OBJECTV is OBJECT and the class name,  *)
(* and the target of REFP and ALIAS is the place it has among the tokens    *)
(* written out in this way.                                                 *)
(***************************************************************************)
WrittenOut(doc, i) == i + Cardinality({j \in 1 .. i - 1 : doc[j].tag = "OBJECTV"})

Expand(doc, from, i) ==
  LET t == doc[i]
      name == IF t.n \in 1 .. i - 1 /\ IsString(doc[t.n]) THEN Str(doc[t.n].s) ELSE T("BAD", 0, "")
  IN  CASE t.tag = "COPY" -> <<name>>
        [] t.tag = "OBJECTV" -> <<T("OBJECT", 0, ""), name>>
        [] t.tag \in {"REFP", "ALIAS"} ->
             <<[t EXCEPT !.n = WrittenOut(doc, t.n) - WrittenOut(doc, from)]>>
        [] OTHER -> <<t>>

Meaning(doc, from, to) ==
  FlattenSeq([k \in 1 .. to - from + 1 |-> Expand(doc, from, from + k - 1)])
=============================================================================
