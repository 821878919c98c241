------------------------------- MODULE SrlHeap -------------------------------
(***************************************************************************)
(* Perl values as both codecs see them.  A node is an SV; a heap maps every *)
(* node to a record:                                                       *)
(*   k      "int", "str", "undef"   plain scalars (v: the value)           *)
(*          "bool"                  a copy of PL_sv_yes or PL_sv_no        *)
(*          "imm"                   PL_sv_undef/yes/no (v names which)     *)
(*          "rv"                    reference to Head(to); weak if weak    *)
(*          "av", "hv"              containers; to: elements, keys: keys   *)
(*          "code"                  a type Sereal cannot represent         *)
(*          "none"                  no such SV                             *)
(*   class  package the SV is blessed into, "" if none                     *)
(*   ext    strong references from outside the data structure              *)
(***************************************************************************)
EXTENDS Integers, Sequences, FiniteSets

Kinds == {"int", "str", "undef", "imm", "bool", "rv", "av", "hv", "code", "none"}

Blank == [k |-> "undef", v |-> "", to |-> <<>>, keys |-> <<>>,
          weak |-> FALSE, class |-> "", ext |-> 0]

Scalar(k, v) == [Blank EXCEPT !.k = k, !.v = v]
Ref(x) == [Blank EXCEPT !.k = "rv", !.to = <<x>>]
WeakRef(x) == [Ref(x) EXCEPT !.weak = TRUE]
Array(xs) == [Blank EXCEPT !.k = "av", !.to = xs]
Hash(ks, xs) == [Blank EXCEPT !.k = "hv", !.to = xs, !.keys = ks]
Blessed(r, c) == [r EXCEPT !.class = c]
Held(r) == [r EXCEPT !.ext = 1]
None == [Blank EXCEPT !.k = "none"]

IsContainer(r) == r.k \in {"av", "hv"}

\* The places that hold a strong, respectively weak, reference to x.
StrongHolders(h, x) ==
  {p \in UNION {{y} \X DOMAIN h[y].to : y \in DOMAIN h} :
     h[p[1]].to[p[2]] = x /\ ~h[p[1]].weak}
WeakHolders(h, x) == {y \in DOMAIN h : h[y].weak /\ h[y].to[1] = x}

\* SvREFCNT: immortals are shared by the whole interpreter.
SvREFCNT(h, x) == IF h[x].k = "imm" THEN 2
                  ELSE Cardinality(StrongHolders(h, x)) + h[x].ext

\* The nodes reachable from x, along weak references too.
Reach(h, x) ==
  LET succ(S) == S \cup UNION {{h[y].to[i] : i \in DOMAIN h[y].to} : y \in S}
      f[n \in 0 .. Cardinality(DOMAIN h)] == IF n = 0 THEN {x} ELSE LET S == f[n - 1] IN succ(S)
  IN  f[Cardinality(DOMAIN h)]

\* What a Perl program can build: only references point at containers and
\* code, every SV is owned by somebody, there are three immortals, and a hash
\* has distinct keys.
WellFormed(h, root) ==
  /\ h[root].k \notin {"av", "hv", "code", "none"}
  /\ h[root].ext > 0
  /\ \A x \in DOMAIN h :
       /\ h[x].k = "none" <=> x \notin Reach(h, root)
       /\ x \in Reach(h, root) => SvREFCNT(h, x) >= 1
       /\ h[x].k = "rv" => Len(h[x].to) = 1
       /\ h[x].k = "imm" => h[x].v \in {"CANONICAL_UNDEF", "TRUE", "FALSE"}
       /\ IsContainer(h[x]) =>
            \A i \in DOMAIN h[x].to : h[h[x].to[i]].k \notin {"av", "hv", "code"}
       /\ h[x].k = "hv" =>
            /\ Len(h[x].keys) = Len(h[x].to)
            /\ \A i, j \in DOMAIN h[x].keys : h[x].keys[i] = h[x].keys[j] => i = j
=============================================================================
