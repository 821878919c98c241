---------------------------- MODULE MCRoundTrip ----------------------------
(* Data structures of up to five SVs: a reference to a container whose two   *)
(* slots hold plain values or strong and weak references to anything, the   *)
(* fifth SV being whatever such a reference may need.                       *)
EXTENDS RoundTrip

MCNode == 1 .. 5
MCStrings == {"", "a", "b", "C", "TRUE", "CANONICAL_UNDEF"}

Shapes == {Array(<<3, 4>>), Hash(<<"a", "b">>, <<3, 4>>), Blessed(Array(<<3, 4, 3>>), "C")}
Slots == {Scalar("int", "a"), Scalar("str", "a"), Scalar("imm", "TRUE")}
         \cup {Ref(x) : x \in 2 .. 5} \cup {WeakRef(x) : x \in 2 .. 5}
Others == {Array(<<>>), Blessed(Hash(<<"a">>, <<4>>), "C"), Scalar("str", "a"),
           Blessed(Scalar("undef", ""), "C"), Ref(2), Scalar("code", "a")}

\* What cannot be reached is not there; an SV that nothing in the structure
\* owns, or every SV when held is set, is owned from outside.
Complete(h, held) ==
  LET g == [x \in DOMAIN h |-> IF x \in Reach(h, 1) THEN h[x] ELSE None]
  IN  [x \in DOMAIN g |-> IF g[x].k \notin {"none", "imm"} /\ (held \/ StrongHolders(g, x) = {})
                          THEN Held(g[x]) ELSE g[x]]

Heaps(twos, threes, fours, fives) ==
  {h \in {Complete(<<Ref(2), a, b, c, d>>, held) :
            a \in twos, b \in threes, c \in fours, d \in fives, held \in BOOLEAN} :
     WellFormed(h, 1)}

Default == [canonical_refs |-> FALSE, shared_hashkeys |-> TRUE, sort_keys_perl |-> FALSE,
            dedupe |-> "no", unknown |-> "croak", bless |-> "yes", max_recursion_depth |-> 10]

\* An SV that is visited more than once.
Multiple(h, x) == Cardinality(StrongHolders(h, x)) + Cardinality(WeakHolders(h, x)) > 1

MCLong == {"b"}

\* Structures the encoder is known not to represent (the first have a run of their own):
\* a revisited weak reference to something only weak references reach ...
LostWeakRef(h) == \E x \in MCNode : /\ h[x].weak
                                    /\ Multiple(h, x)
                                    /\ StrongHolders(h, h[x].to[1]) = {}

\* ... a string value dumped by COPY from one that is itself shared ...
CopiedShared(h) == \E x, y \in MCNode : /\ x # y /\ h[x].k = "str" /\ h[y].k = "str"
                                        /\ h[x].v = h[y].v /\ Multiple(h, x)
\* ... a reference to a string that is dumped by ALIAS ...
AliasedReferent(h) == \E x \in MCNode : h[x].k = "rv" /\ h[h[x].to[1]].k = "str"
\* ... a hash key dumped by COPY from a long string that is shared ...
CopiedKey(h) == \E x, y \in MCNode : /\ h[x].k = "str" /\ h[x].v \in MCLong /\ Multiple(h, x)
                                     /\ \E i \in DOMAIN h[y].keys : h[y].keys[i] = h[x].v
\* ... and a weak reference to code that is referred to elsewhere too.
WeakUnknown(h) == \E x \in MCNode : h[x].k = "code" /\ WeakHolders(h, x) # {} /\ Multiple(h, x)

MCHeaps == {h \in Heaps(Shapes, Slots, Slots, Others) : ~LostWeakRef(h)}
MCCases == {[heap |-> h, opt |-> Default] : h \in MCHeaps}

\* The other options, each with the structures that matter to it.
FewSlots == {Scalar("str", "a"), Ref(5), WeakRef(5), Ref(3), Scalar("undef", "")}
Strs == {Scalar("str", "a"), Scalar("str", "b"), Ref(5), Ref(3)}
With(o, twos, slots, fives) ==
  {[heap |-> h, opt |-> o] : h \in {g \in Heaps(twos, slots, slots, fives) : ~LostWeakRef(g)}}
OptionCases ==
  With([Default EXCEPT !.canonical_refs = TRUE, !.shared_hashkeys = FALSE], Shapes, FewSlots,
       {Array(<<4>>), Hash(<<"a">>, <<4>>)})
  \cup With([Default EXCEPT !.bless = "no"], Shapes, FewSlots, {Blessed(Scalar("str", "b"), "C")})
  \cup With([Default EXCEPT !.bless = "croak"], Shapes, FewSlots, {Blessed(Scalar("str", "b"), "C")})
  \cup With([Default EXCEPT !.max_recursion_depth = 2], Shapes, FewSlots, {Array(<<4>>)})
  \cup {c \in UNION {With([Default EXCEPT !.unknown = u], Shapes, FewSlots, {Scalar("code", "b")}) :
                       u \in {"undef", "stringify"}} : ~WeakUnknown(c.heap)}
  \cup {c \in UNION {With([Default EXCEPT !.dedupe = "copy", !.sort_keys_perl = k], Shapes, Strs,
                            {Scalar("str", "a"), Array(<<4, 3>>)}) : k \in BOOLEAN} :
           ~CopiedShared(c.heap) /\ ~CopiedKey(c.heap)}
  \cup {c \in With([Default EXCEPT !.dedupe = "alias"], Shapes, Strs, {Array(<<4, 3>>), Hash(<<"a">>, <<3>>)}) :
           ~AliasedReferent(c.heap)}

AllCases == MCCases \cup OptionCases

\* Nothing is lost, or up to three tokens are.
Whole == {0}
MCCuts == 0 .. 3

\* The structures with the first gap.
LostWeakRefCases == {[heap |-> h, opt |-> Default] : h \in
                       {g \in Heaps({Array(<<3, 4>>)}, Slots, Slots, {WeakRef(2), WeakRef(4), Array(<<>>)}) : LostWeakRef(g)}}
=============================================================================
