----------------------------- MODULE MCSrlPath -----------------------------
(* Small documents, the calls made on them, and queries for SrlPath.         *)
EXTENDS SrlPath

MCStrings == {"", "a", "b"}
One == T("INT", 0, "")
N(tag, n) == T(tag, n, "")

\* [1, [1, 1], {a => 1}, []] with short tags
Nested == <<N("ARRAYREF", 4), One, N("ARRAYREF", 2), One, One, N("HASHREF", 1), Str("a"), One,
            N("ARRAYREF", 0)>>
\* [$x, $x, 1] and {a => $h, b => [$h, 1]}: REFN with long tags, and REFP
SharedArray == <<N("REFN", 0), N("ARRAY", 3), N("REFN", 0), Flagged(N("ARRAY", 2)), One, One,
                 N("REFP", 4), One>>
SharedHash == <<N("HASHREF", 2), Str("a"), N("REFN", 0), Flagged(N("HASH", 1)), Str("b"), One,
                T("COPY", 5, ""), N("ARRAYREF", 2), N("REFP", 4), One>>
\* two objects of one class, a string repeated
Objects == <<N("ARRAYREF", 4), N("OBJECT", 0), Str("a"), N("HASHREF", 1), T("COPY", 3, ""), One,
             N("OBJECTV", 3), N("REFN", 0), N("ARRAY", 1), One, T("COPY", 3, ""), N("REFN", 0), Str("b")>>
\* padding before a reference, a weak reference, a regexp
Padded == <<N("ARRAYREF", 4), N("PAD", 0), N("PAD", 0), N("REFN", 0), One,
            N("WEAKEN", 0), N("REFN", 0), N("ARRAY", 1), One, N("REGEXP", 0), Str("a"), Str(""), One>>
\* aliases of a string, of a reference to a scalar and of an object
Aliases == <<N("ARRAYREF", 7), Flagged(Str("a")), N("ALIAS", 2), Flagged(N("REFN", 0)), One,
             N("ALIAS", 4), Flagged(N("OBJECT", 0)), Str("b"), N("ARRAYREF", 2), One, One,
             N("ALIAS", 7), One>>
\* [\$x, \$x, an alias of the second, 1]
AliasedRefp == <<N("ARRAYREF", 4), N("REFN", 0), Flagged(One), Flagged(N("REFP", 3)), N("ALIAS", 4), One>>
\* $a = [1, bless(\$a->[0], "a"), 1, 1], where the object is a reference to an earlier item,
\* and [qr/a/, 1]
BlessedRefp == <<N("ARRAYREF", 4), Flagged(One), N("OBJECT", 0), Str("a"), N("REFP", 2), One, One>>
BlessedRegexp == <<N("ARRAYREF", 2), N("OBJECT", 0), Str("b"), N("REFN", 0), N("REGEXP", 0), Str("a"), Str(""), One>>
\* broken: an unknown tag, a class name that is none, a document cut short, padding before a string
Broken == {<<N("ARRAYREF", 2), One, N("BAD", 0)>>, <<N("ARRAYREF", 1), N("OBJECT", 0), One, N("HASHREF", 0)>>,
           <<N("ARRAYREF", 2), One>>, <<N("ARRAYREF", 1), N("PAD", 0), Str("a")>>,
           <<N("REFN", 0), N("REGEXP", 0), One, One>>}

Moves == {"step_in", "next", "step_out", "rewind", "goto", "hash_key", "hash_exists", "reset"}
Program(d, o) == [doc |-> d, ops |-> o]
MCPrograms ==
  {Program(d, Moves \cup {"decode_and_next", "traverse"}) : d \in {Nested, Objects}}
  \cup {Program(d, (Moves \ {"rewind"}) \cup {"decode_and_next", "traverse"}) : d \in {SharedArray, SharedHash}}
  \cup {Program(Padded, {"step_in", "next", "step_out", "goto", "reset"})}
  \cup {Program(Aliases, {"step_in", "next", "step_out", "reset"})}
  \cup {Program(d, {"step_in", "next", "reset"}) : d \in Broken}
  \cup {Program(AliasedRefp, {"step_in", "next", "step_out", "path_set"})}
  \cup {Program(BlessedRefp, {"traverse"}), Program(BlessedRegexp, (Moves \ {"rewind"}) \cup {"traverse"})}
  \cup {Program(<<One>>, {"next", "rewind", "disjoin", "unite"}),
        Program(SharedArray, {"step_in", "step_out", "set", "bad_set"}), Program(Nested, {"step_in", "unite"})}

Star == Loc("all", <<>>, <<>>, FALSE)
Key(s) == Loc("one", <<s>>, <<0>>, FALSE)
Number(n) == Loc("one", <<"">>, <<n>>, TRUE)
Range_(from, to, by) == Loc("range", <<"">>, <<from, to, by>>, FALSE)
KeyList == Loc("list", <<"b", "a", "b">>, <<0, 0, 0>>, FALSE)
NumberList == Loc("list", <<"", "">>, <<-1, 0, 3>>, FALSE)
Single == {Star, Key("a"), Key("b"), Number(0), Number(-1), Range_(0, 2, 1), Range_(-3, 9, 2)}
\* A list is the last location: behind one the iterator is left too deep (README).
ListsLast == {<<l>> : l \in Single \cup {KeyList, NumberList}}
             \cup {<<l, m>> : l \in Single, m \in Single \cup {KeyList, NumberList}}
\* Numbers are not asked of the empty array.
Suits(d, q) == d # Nested \/ \A j \in 2 .. Len(q) : q[j].kind # "list" /\ ~q[j].number
\* Queries do not go into a blessed reference to an earlier item or a blessed regexp (README).
MCQueries == {r \in [doc : {Nested, SharedArray, SharedHash, Objects}, expr : ListsLast] : Suits(r.doc, r.expr)}
             \cup [doc : {BlessedRefp, BlessedRegexp}, expr : {<<l>> : l \in Single \cup {NumberList}}]

MCSteps == 0 .. 2
MCIndices == {-1, 0, 1, 3}
=============================================================================
