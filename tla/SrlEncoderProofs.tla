-------------------------- MODULE SrlEncoderProofs --------------------------
(* For every data structure a Perl program can build and all options of the  *)
(* encoder: what the tables remember about the body stays true while the     *)
(* body is rewritten, and every offset in the body resolves.                 *)
EXTENDS SrlEncoder, TLAPS

\* Only references point at containers and code; a reference points at one
\* SV, and an immortal is one of three.
Built ==
  /\ heap \in Heap /\ opt \in OptionSet
  /\ heap[Root].k \notin {"av", "hv", "code"}
  /\ \A x \in Node :
       /\ heap[x].k = "rv" => Len(heap[x].to) = 1
       /\ heap[x].k = "imm" => heap[x].v \in {"CANONICAL_UNDEF", "TRUE", "FALSE"}
       /\ heap[x].k = "hv" => Len(heap[x].keys) = Len(heap[x].to)
       /\ IsContainer(heap[x]) =>
            \A i \in DOMAIN heap[x].to : heap[heap[x].to[i]].k \notin {"av", "hv", "code"}

Types == /\ out \in Seq(Tok) /\ cur \in Local
         /\ ctl \in {"start", "next", "redo", "done", "croak"}
         /\ ref_seenhash \in [Node -> Nat]
         /\ weak_seenhash \in [Node -> Nat \cup {Absent}]
         /\ str_seenhash \in [StrPtr -> Nat] /\ string_deduper_hv \in [Strings -> Nat]

\* What waits to be dumped into a slot is neither a container nor code.
Plain(q) == /\ q \in Seq(Item)
            /\ \A i \in 1 .. Len(q) : q[i].op = "sv" => heap[q[i].x].k \notin {"av", "hv", "code"}

\* What the tables say of body o.
RefsOK(o, rs) == \A x \in Node : rs[x] # 0 => rs[x] \in 1 .. Len(o) /\ o[rs[x]].tag \in TagsOf(x)
StringAt(o, ofs, s) == ofs \in 1 .. Len(o) /\ o[ofs].tag = "STR" /\ o[ofs].s = s
StringsOK(o, ss, ds) ==
  \A s \in Strings :
    /\ ss[Stash(s)] # 0 => /\ StringAt(o, ss[Stash(s)], s)
                           /\ ss[Stash(s)] > 1 /\ o[ss[Stash(s)] - 1].tag = "OBJECT"
    /\ ss[SharedKey(s)] # 0 => StringAt(o, ss[SharedKey(s)], s)
    /\ ds[s] # 0 => StringAt(o, ds[s], s)
WeakensOK(o, ws) == \A x \in Node : ws[x] > 0 => ws[x] \in 1 .. Len(o) /\ o[ws[x]].tag = "WEAKEN"

\* The class of container x, if it is written at all, has been written.
Named(ss, x) == IsContainer(heap[x]) /\ heap[x].class # "" /\ opt.bless = "yes"
                  => ss[Stash(heap[x].class)] # 0

\* A reference is unfinished: its REFN is the last tag, and what an REFP would
\* replace from ref_rewrite_pos on is that tag and an OBJECTV at most, for an
\* OBJECT with its name is only written for an SV not seen before.
Unfinished ==
  LET pos == cur.ref_rewrite_pos
  IN  /\ pos \in 1 .. Len(out) /\ out[Len(out)].tag = "REFN"
      /\ \/ pos = Len(out)
         \/ IsContainer(heap[cur.src]) /\ pos = Len(out) - 1 /\ out[pos].tag = "OBJECTV"
         \/ IsContainer(heap[cur.src]) /\ pos = Len(out) - 2 /\ ref_seenhash[cur.src] = 0
      /\ \A x \in Node : ref_seenhash[x] <= pos
      /\ cur.weakref_ofs # 0 => cur.weakref_ofs < pos /\ out[cur.weakref_ofs].tag = "WEAKEN"
      /\ Named(str_seenhash, cur.src)

\* A slot of a container, or the root, is to be dumped.
InSlot == heap[cur.src].k \notin {"av", "hv", "code"} /\ cur.weakref_ofs = 0

IInv ==
  /\ Built /\ Types /\ Plain(todo)
  /\ ctl # "croak" => RefsOK(out, ref_seenhash)
  /\ StringsOK(out, str_seenhash, string_deduper_hv)
  /\ ctl # "done" => WeakensOK(out, weak_seenhash)
  /\ \A x \in Node : ref_seenhash[x] # 0 => Named(str_seenhash, x)
  /\ ctl = "start" => cur = Enter(Root) /\ todo = <<>>
  /\ ctl = "redo" => IF cur.ref_rewrite_pos = 0 THEN InSlot ELSE Unfinished

-----------------------------------------------------------------------------
(* How the body changes *)

\* The first k tags of o are still there in p; a track flag may have been set.
Keeps(o, p, k) ==
  /\ o \in Seq(Tok) /\ p \in Seq(Tok) /\ k \in 0 .. Len(o) /\ k <= Len(p)
  /\ \A i \in 1 .. k : /\ p[i].tag = o[i].tag /\ p[i].n = o[i].n /\ p[i].s = o[i].s
                       /\ o[i].trk => p[i].trk

LEMMA FlagKeeps ==
  ASSUME NEW o \in Seq(Tok), NEW ofs \in 1 .. Len(o)
  PROVE  LET p == SRL_SET_TRACK_FLAG(o, ofs)
         IN  Keeps(o, p, Len(o)) /\ Len(p) = Len(o) /\ p[ofs].trk
<1> DEFINE t == [o[ofs] EXCEPT !.trk = TRUE]
           p == [o EXCEPT ![ofs] = t]
<1>1. o[ofs] \in Tok
  OBVIOUS
<1>2. t \in Tok /\ t.tag = o[ofs].tag /\ t.n = o[ofs].n /\ t.s = o[ofs].s /\ t.trk
  BY <1>1 DEF Tok
<1>3. SRL_SET_TRACK_FLAG(o, ofs) = p
  BY DEF SRL_SET_TRACK_FLAG
<1> HIDE DEF t
<1>4. p \in Seq(Tok) /\ Len(p) = Len(o) /\ p[ofs] = t /\ \A i \in 1 .. Len(o) : i # ofs => p[i] = o[i]
  BY <1>2
<1> HIDE DEF p
<1>5. Keeps(o, p, Len(o))
  BY <1>2, <1>4 DEF Keeps
<1> QED
  BY <1>2, <1>3, <1>4, <1>5

\* Tags from k + 1 on are replaced by t; with k = Len(o), t is appended.
LEMMA ReplaceKeeps ==
  ASSUME NEW o \in Seq(Tok), NEW k \in 0 .. Len(o), NEW t \in Tok
  PROVE  LET p == Append(SubSeq(o, 1, k), t)
         IN  Keeps(o, p, k) /\ Len(p) = k + 1 /\ p[k + 1] = t
<1> DEFINE c == SubSeq(o, 1, k)
           p == Append(c, t)
<1>1. c \in Seq(Tok) /\ Len(c) = k /\ \A i \in 1 .. k : c[i] = o[i]
  OBVIOUS
<1> HIDE DEF c
<1>2. p \in Seq(Tok) /\ Len(p) = k + 1 /\ p[k + 1] = t /\ \A i \in 1 .. k : p[i] = o[i]
  BY <1>1
<1> HIDE DEF p
<1>3. Keeps(o, p, k)
  BY <1>2 DEF Keeps
<1> QED
  BY <1>2, <1>3 DEF p, c

LEMMA AppendKeeps ==
  ASSUME NEW o \in Seq(Tok), NEW t \in Tok
  PROVE  LET p == Append(o, t)
         IN  Keeps(o, p, Len(o)) /\ Len(p) = Len(o) + 1 /\ p[Len(o) + 1] = t
<1> DEFINE p == Append(o, t)
<1>1. p \in Seq(Tok) /\ Len(p) = Len(o) + 1 /\ p[Len(o) + 1] = t /\ \A i \in 1 .. Len(o) : p[i] = o[i]
  OBVIOUS
<1> HIDE DEF p
<1>2. Keeps(o, p, Len(o))
  BY <1>1 DEF Keeps
<1> QED
  BY <1>1, <1>2 DEF p

LEMMA KeepsTwice ==
  ASSUME NEW o, NEW p, NEW q, NEW k, Keeps(o, p, k), Keeps(p, q, Len(p))
  PROVE  Keeps(o, q, k)
<1>1. o \in Seq(Tok) /\ p \in Seq(Tok) /\ q \in Seq(Tok) /\ k \in 0 .. Len(o) /\ k <= Len(p) /\ Len(p) <= Len(q)
  BY DEF Keeps
<1>2. ASSUME NEW i \in 1 .. k
      PROVE  q[i].tag = o[i].tag /\ q[i].n = o[i].n /\ q[i].s = o[i].s /\ (o[i].trk => q[i].trk)
  <2>1. i \in 1 .. Len(p)
    BY <1>1
  <2> QED
    BY <2>1 DEF Keeps
<1> QED
  BY <1>1, <1>2 DEF Keeps

\* No tag with this name is lost when only k tags are kept.
Spares(o, k, tag) == \A i \in k + 1 .. Len(o) : o[i].tag # tag

LEMMA StringsKept ==
  ASSUME NEW o, NEW p, NEW k, NEW ss, NEW ds, Keeps(o, p, k), Spares(o, k, "STR"), StringsOK(o, ss, ds)
  PROVE  StringsOK(p, ss, ds)
<1>1. Len(o) \in Nat /\ Len(p) \in Nat /\ k \in 0 .. Len(o) /\ k <= Len(p)
  BY DEF Keeps
<1>2. ASSUME NEW ofs, NEW s, StringAt(o, ofs, s) PROVE StringAt(p, ofs, s) /\ ofs \in 1 .. k
  <2>1. ofs \in 1 .. Len(o) /\ o[ofs].tag = "STR" /\ o[ofs].s = s
    BY <1>2 DEF StringAt
  <2>2. ofs \in 1 .. k
    BY <1>1, <2>1 DEF Spares
  <2> QED
    BY <1>1, <2>1, <2>2 DEF Keeps, StringAt
<1>3. ASSUME NEW s \in Strings
      PROVE  /\ ss[Stash(s)] # 0 => /\ StringAt(p, ss[Stash(s)], s)
                                    /\ ss[Stash(s)] > 1 /\ p[ss[Stash(s)] - 1].tag = "OBJECT"
             /\ ss[SharedKey(s)] # 0 => StringAt(p, ss[SharedKey(s)], s)
             /\ ds[s] # 0 => StringAt(p, ds[s], s)
  <2>1. CASE ss[Stash(s)] # 0
    <3>1. /\ StringAt(o, ss[Stash(s)], s)
          /\ ss[Stash(s)] > 1 /\ o[ss[Stash(s)] - 1].tag = "OBJECT"
      BY <2>1 DEF StringsOK
    <3>2. StringAt(p, ss[Stash(s)], s) /\ ss[Stash(s)] \in 1 .. k
      BY <1>2, <3>1
    <3>3. ss[Stash(s)] - 1 \in 1 .. k
      BY <1>1, <3>1, <3>2
    <3> QED
      BY <1>2, <3>1, <3>2, <3>3 DEF Keeps, StringsOK
  <2>2. CASE ss[Stash(s)] = 0
    BY <1>2, <2>2 DEF StringsOK
  <2> QED
    BY <2>1, <2>2
<1> QED
  BY <1>3 DEF StringsOK

LEMMA WeakensKept ==
  ASSUME NEW o, NEW p, NEW k, NEW ws, Keeps(o, p, k), Spares(o, k, "WEAKEN"), WeakensOK(o, ws)
  PROVE  WeakensOK(p, ws)
<1>1. Len(o) \in Nat /\ Len(p) \in Nat /\ k \in 0 .. Len(o) /\ k <= Len(p)
  BY DEF Keeps
<1> SUFFICES ASSUME NEW x \in Node, ws[x] > 0 PROVE ws[x] \in 1 .. Len(p) /\ p[ws[x]].tag = "WEAKEN"
  BY DEF WeakensOK
<1>2. ws[x] \in 1 .. Len(o) /\ o[ws[x]].tag = "WEAKEN"
  BY DEF WeakensOK
<1>3. ws[x] \in 1 .. k
  BY <1>1, <1>2 DEF Spares
<1> QED
  BY <1>1, <1>2, <1>3 DEF Keeps

\* The SVs remembered behind the kept tags are looked at one by one.
LEMMA RefsKept ==
  ASSUME NEW o, NEW p, NEW k, NEW rs \in [Node -> Nat], Keeps(o, p, k), RefsOK(o, rs),
         \A x \in Node : rs[x] > k => rs[x] \in 1 .. Len(p) /\ p[rs[x]].tag \in TagsOf(x)
  PROVE  RefsOK(p, rs)
<1>1. Len(o) \in Nat /\ Len(p) \in Nat /\ k \in 0 .. Len(o) /\ k <= Len(p)
  BY DEF Keeps
<1> SUFFICES ASSUME NEW x \in Node, rs[x] # 0, rs[x] <= k PROVE rs[x] \in 1 .. Len(p) /\ p[rs[x]].tag \in TagsOf(x)
  BY <1>1 DEF RefsOK
<1>2. rs[x] \in 1 .. Len(o) /\ o[rs[x]].tag \in TagsOf(x)
  BY DEF RefsOK
<1>3. rs[x] \in 1 .. k
  BY <1>1, <1>2
<1> QED
  BY <1>1, <1>2, <1>3 DEF Keeps

\* The tag at i, if it holds an offset, names what it should.
Resolves(o, i) ==
  /\ o[i].tag \in {"REFP", "ALIAS"} => o[i].n \in 1 .. i /\ o[o[i].n].trk
  /\ o[i].tag = "ALIAS" => o[i].n < i
  /\ o[i].tag = "COPY" => o[i].n \in 1 .. i - 1 /\ o[o[i].n].tag = "STR"
  /\ o[i].tag = "OBJECTV" => /\ o[i].n \in 2 .. i - 1 /\ o[o[i].n].tag = "STR"
                             /\ o[o[i].n - 1].tag = "OBJECT"
AllResolve(o) == \A i \in 1 .. Len(o) : Resolves(o, i)

LEMMA ResolveKept ==
  ASSUME NEW o, NEW p, NEW k, Keeps(o, p, k), AllResolve(o), \A i \in k + 1 .. Len(p) : Resolves(p, i)
  PROVE  AllResolve(p)
<1>1. Len(o) \in Nat /\ Len(p) \in Nat /\ k \in 0 .. Len(o) /\ k <= Len(p)
  BY DEF Keeps
<1> SUFFICES ASSUME NEW i \in 1 .. k PROVE Resolves(p, i)
  BY <1>1 DEF AllResolve
<1>2. i \in 1 .. Len(o) /\ Resolves(o, i)
  BY <1>1 DEF AllResolve
<1>3. p[i].tag = o[i].tag /\ p[i].n = o[i].n
  BY DEF Keeps
<1>4. \A j \in 1 .. i : p[j].tag = o[j].tag /\ (o[j].trk => p[j].trk)
  BY <1>1 DEF Keeps
<1>5. i \in Nat
  BY <1>1
<1>6. CASE o[i].tag \in {"REFP", "ALIAS"}
  BY <1>2, <1>3, <1>4, <1>6 DEF Resolves
<1>7. CASE o[i].tag = "COPY"
  <2>1. o[i].n \in 1 .. i - 1 /\ o[o[i].n].tag = "STR"
    BY <1>2, <1>7 DEF Resolves
  <2>2. o[i].n \in 1 .. i
    BY <1>5, <2>1
  <2> QED
    BY <1>3, <1>4, <1>7, <2>1, <2>2 DEF Resolves
<1>8. CASE o[i].tag = "OBJECTV"
  <2>1. o[i].n \in 2 .. i - 1 /\ o[o[i].n].tag = "STR" /\ o[o[i].n - 1].tag = "OBJECT"
    BY <1>2, <1>8 DEF Resolves
  <2>2. o[i].n \in 1 .. i /\ o[i].n - 1 \in 1 .. i
    BY <1>5, <2>1
  <2> QED
    BY <1>3, <1>4, <1>8, <2>1, <2>2 DEF Resolves
<1> QED
  BY <1>3, <1>6, <1>7, <1>8 DEF Resolves

-----------------------------------------------------------------------------
(* Records and tags *)

LEMMA TokFacts ==
  ASSUME NEW tag \in Tags, NEW n \in Nat, NEW s \in Strings
  PROVE  T(tag, n, s) \in Tok /\ T(tag, n, s).tag = tag /\ T(tag, n, s).n = n /\ T(tag, n, s).s = s
BY DEF T, Tok

LEMMA NodeFacts ==
  ASSUME Built, NEW x \in Node
  PROVE  /\ heap[x].k \in Kinds /\ heap[x].v \in Strings /\ heap[x].class \in Strings
         /\ heap[x].to \in Seq(Node) /\ heap[x].keys \in Seq(Strings) /\ Len(heap[x].to) \in Nat
         /\ heap[x].k = "rv" => Head(heap[x].to) \in Node
         /\ heap[x].k = "imm" => heap[x].v \in {"CANONICAL_UNDEF", "TRUE", "FALSE"}
         /\ IsContainer(heap[x]) <=> heap[x].k \in {"av", "hv"}
<1>1. heap[x] \in [k : Kinds, v : Strings, to : Seq(Node), keys : Seq(Strings),
                   weak : BOOLEAN, class : Strings, ext : Nat]
  BY DEF Built, Heap
<1>2. /\ heap[x].k \in Kinds /\ heap[x].v \in Strings /\ heap[x].class \in Strings
      /\ heap[x].to \in Seq(Node) /\ heap[x].keys \in Seq(Strings)
  BY <1>1
<1>3. Len(heap[x].to) \in Nat
  BY <1>2
<1>4. ASSUME heap[x].k = "rv" PROVE Head(heap[x].to) \in Node
  <2>1. Len(heap[x].to) = 1
    BY <1>4 DEF Built
  <2> QED
    BY <1>2, <2>1
<1> QED
  BY <1>2, <1>3, <1>4 DEF Built, IsContainer

\* Whoever was remembered at a tag of a reference may find any of these there.
RefTags == {"WEAKEN", "OBJECT", "OBJECTV", "REFN", "REFP", "ARRAYREF", "HASHREF", "PAD", "UNDEF", "STR"}

LEMMA TagsFacts ==
  ASSUME NEW x \in Node
  PROVE  /\ heap[x].k = "int" => TagsOf(x) = {"INT"}
         /\ heap[x].k = "undef" => TagsOf(x) = {"UNDEF"}
         /\ heap[x].k = "str" => TagsOf(x) = {"STR", "COPY", "ALIAS"}
         /\ heap[x].k = "av" => TagsOf(x) = {"ARRAY"}
         /\ heap[x].k = "hv" => TagsOf(x) = {"HASH"}
         /\ heap[x].k = "code" => TagsOf(x) = {}
         /\ heap[x].k = "rv" => TagsOf(x) = RefTags
         /\ TagsOf(x) \cap {"REFN", "OBJECTV", "WEAKEN"} # {} => TagsOf(x) = RefTags
<1>1. CASE heap[x].k \in {"int", "undef", "str", "av", "hv", "code"}
  BY <1>1 DEF TagsOf
<1>2. CASE heap[x].k \notin {"int", "undef", "str", "av", "hv", "code"}
  BY <1>2 DEF TagsOf, RefTags
<1> QED
  BY <1>1, <1>2

-----------------------------------------------------------------------------
(* The rest of the C stack *)

LEMMA PlainTail ==
  ASSUME NEW q, Plain(q), q # <<>>
  PROVE  /\ Plain(Tail(q)) /\ Head(q) \in Item /\ Head(q).x \in Node /\ Head(q).s \in Strings
         /\ Head(q).op = "sv" => heap[Head(q).x].k \notin {"av", "hv", "code"}
<1>1. q \in Seq(Item) /\ Len(q) \in Nat /\ Len(q) >= 1
  BY DEF Plain
<1>2. Head(q) = q[1] /\ q[1] \in Item
  BY <1>1
<1>3. Tail(q) \in Seq(Item) /\ Len(Tail(q)) = Len(q) - 1 /\ \A i \in 1 .. Len(q) - 1 : Tail(q)[i] = q[i + 1]
  BY <1>1
<1>4. Plain(Tail(q))
  BY <1>1, <1>3 DEF Plain
<1> QED
  BY <1>1, <1>2, <1>4 DEF Plain, Item

LEMMA PlainConcat ==
  ASSUME NEW a, NEW b, Plain(a), Plain(b)
  PROVE  Plain(a \o b)
<1> DEFINE c == a \o b
<1>1. a \in Seq(Item) /\ b \in Seq(Item) /\ Len(a) \in Nat /\ Len(b) \in Nat
  BY DEF Plain
<1>2. /\ c \in Seq(Item) /\ Len(c) = Len(a) + Len(b)
      /\ \A i \in 1 .. Len(a) : c[i] = a[i]
      /\ \A i \in Len(a) + 1 .. Len(c) : c[i] = b[i - Len(a)]
  BY <1>1
<1> HIDE DEF c
<1>3. ASSUME NEW i \in 1 .. Len(c), c[i].op = "sv" PROVE heap[c[i].x].k \notin {"av", "hv", "code"}
  <2>1. CASE i \in 1 .. Len(a)
    BY <1>2, <1>3, <2>1 DEF Plain
  <2>2. CASE i \notin 1 .. Len(a)
    <3>1. i \in Len(a) + 1 .. Len(c) /\ i - Len(a) \in 1 .. Len(b)
      BY <1>1, <1>2, <2>2
    <3> QED
      BY <1>2, <1>3, <3>1 DEF Plain
  <2> QED
    BY <2>1, <2>2
<1> QED
  BY <1>2, <1>3 DEF Plain, c

LEMMA PlainReturn == Plain(<<Return>>)
<1>1. Return \in Item /\ Return.op = "return"
  BY RootAssumption, StringsAssumption DEF Return, Item
<1> QED
  BY <1>1 DEF Plain

\* The elements of a container and its keys.
LEMMA PlainChildren ==
  ASSUME Built, NEW x \in Node, IsContainer(heap[x])
  PROVE  /\ Plain(Children(x))
         /\ \A i \in 1 .. Len(Children(x)) : Children(x)[i].op # "return"
<1>1. /\ heap[x].to \in Seq(Node) /\ heap[x].keys \in Seq(Strings)
      /\ heap[x].k = "hv" => Len(heap[x].keys) = Len(heap[x].to)
      /\ \A i \in 1 .. Len(heap[x].to) : heap[x].to[i] \in Node
                                         /\ heap[heap[x].to[i]].k \notin {"av", "hv", "code"}
  <2>1. heap[x].to \in Seq(Node) /\ heap[x].keys \in Seq(Strings)
    BY NodeFacts
  <2> QED
    BY <2>1 DEF Built
<1>2. \A y \in Node : Elem(y) \in Item /\ Elem(y).op = "sv" /\ Elem(y).x = y
  BY StringsAssumption DEF Elem, Item
<1>3. \A s \in Strings : Key(s) \in Item /\ Key(s).op \in {"hk", "hk_sv"}
  BY RootAssumption DEF Key, Item
<1>4. CASE heap[x].k = "av"
  <2> DEFINE f == [i \in 1 .. Len(heap[x].to) |-> Elem(heap[x].to[i])]
  <2>1. Children(x) = f
    BY <1>1, <1>4 DEF Children
  <2>2. f \in Seq(Item) /\ Len(f) = Len(heap[x].to) /\ \A i \in 1 .. Len(f) : f[i] = Elem(heap[x].to[i])
    BY <1>1, <1>2
  <2> HIDE DEF f
  <2> QED
    BY <1>1, <1>2, <2>1, <2>2 DEF Plain
<1>5. CASE heap[x].k = "hv"
  <2> DEFINE ks == heap[x].keys
             xs == heap[x].to
             f == [i \in 1 .. 2 * Len(ks) |-> IF i % 2 = 1 THEN Key(ks[(i + 1) \div 2]) ELSE Elem(xs[i \div 2])]
  <2>1. Children(x) = f
    BY <1>5 DEF Children, Interleave
  <2>2. Len(ks) \in Nat /\ Len(ks) = Len(xs)
    BY <1>1, <1>5
  <2>3. ASSUME NEW i \in 1 .. 2 * Len(ks)
        PROVE  /\ i % 2 = 1 => (i + 1) \div 2 \in 1 .. Len(ks)
               /\ i % 2 # 1 => i \div 2 \in 1 .. Len(ks)
    BY <2>2
  <2>4. \A i \in 1 .. Len(ks) : ks[i] \in Strings
    BY <1>1
  <2>5. ASSUME NEW i \in 1 .. 2 * Len(ks)
        PROVE  /\ f[i] \in Item /\ f[i].op # "return"
               /\ f[i].op = "sv" => heap[f[i].x].k \notin {"av", "hv", "code"}
    <3>1. CASE i % 2 = 1
      <4>1. f[i] = Key(ks[(i + 1) \div 2]) /\ ks[(i + 1) \div 2] \in Strings
        BY <2>3, <2>4, <3>1
      <4> QED
        BY <1>3, <4>1
    <3>2. CASE i % 2 # 1
      <4>1. f[i] = Elem(xs[i \div 2]) /\ xs[i \div 2] \in Node /\ heap[xs[i \div 2]].k \notin {"av", "hv", "code"}
        BY <1>1, <2>2, <2>3, <3>2
      <4> QED
        BY <1>2, <4>1
    <3> QED
      BY <3>1, <3>2
  <2>6. f \in Seq(Item) /\ Len(f) = 2 * Len(ks)
    <3> DEFINE n == 2 * Len(ks)
    <3>1. n \in Nat /\ f = [i \in 1 .. n |-> f[i]]
      BY <2>2
    <3> HIDE DEF f, n
    <3>2. \A i \in 1 .. n : f[i] \in Item
      BY <2>5 DEF n
    <3> QED
      BY <3>1, <3>2 DEF n
  <2> HIDE DEF f
  <2> QED
    BY <2>1, <2>5, <2>6 DEF Plain
<1> QED
  BY <1>4, <1>5 DEF IsContainer

-----------------------------------------------------------------------------
(* What one step writes and remembers *)

\* One tag is added, and it resolves.
Adds(o, p, tags) == /\ Keeps(o, p, Len(o)) /\ Len(p) = Len(o) + 1
                    /\ p[Len(o) + 1].tag \in tags /\ Resolves(p, Len(o) + 1)

LEMMA AddsPlainTag ==
  ASSUME NEW o \in Seq(Tok), NEW t \in Tok, t.tag \notin {"REFP", "ALIAS", "COPY", "OBJECTV"}
  PROVE  Adds(o, Append(o, t), {t.tag})
<1> DEFINE p == Append(o, t)
<1>1. Keeps(o, p, Len(o)) /\ Len(p) = Len(o) + 1 /\ p[Len(o) + 1] = t
  BY AppendKeeps
<1> HIDE DEF p
<1> QED
  BY <1>1 DEF Adds, Resolves, p

\* A COPY of a string that is there.
LEMMA AddsCopy ==
  ASSUME NEW o \in Seq(Tok), NEW ofs, NEW s, StringAt(o, ofs, s)
  PROVE  Adds(o, Append(o, T("COPY", ofs, "")), {"COPY"})
<1> DEFINE t == T("COPY", ofs, "")
           p == Append(o, t)
<1>1. ofs \in 1 .. Len(o) /\ o[ofs].tag = "STR" /\ ofs \in Nat /\ Len(o) \in Nat
  BY DEF StringAt
<1>2. t \in Tok /\ t.tag = "COPY" /\ t.n = ofs
  BY <1>1, StringsAssumption DEF T, Tok, Tags
<1> HIDE DEF t
<1>3. Keeps(o, p, Len(o)) /\ Len(p) = Len(o) + 1 /\ p[Len(o) + 1] = t
  BY <1>2, AppendKeeps
<1> HIDE DEF p
<1>4. p[ofs].tag = "STR"
  BY <1>1, <1>3 DEF Keeps
<1>5. ofs \in 1 .. (Len(o) + 1) - 1
  BY <1>1
<1>6. Resolves(p, Len(o) + 1)
  BY <1>2, <1>3, <1>4, <1>5 DEF Resolves
<1> QED
  BY <1>2, <1>3, <1>6 DEF Adds, p, t

\* An ALIAS for what is at ofs, which gets the track flag, before or after.
LEMMA AddsAlias ==
  ASSUME NEW o \in Seq(Tok), NEW ofs \in 1 .. Len(o)
  PROVE  /\ Adds(o, Append(SRL_SET_TRACK_FLAG(o, ofs), T("ALIAS", ofs, "")), {"ALIAS"})
         /\ Adds(o, SRL_SET_TRACK_FLAG(Append(o, T("ALIAS", ofs, "")), ofs), {"ALIAS"})
<1> DEFINE t == T("ALIAS", ofs, "")
           a == SRL_SET_TRACK_FLAG(o, ofs)
           p == Append(a, t)
           b == Append(o, t)
           q == SRL_SET_TRACK_FLAG(b, ofs)
<1>1. t \in Tok /\ t.tag = "ALIAS" /\ t.n = ofs /\ Len(o) \in Nat /\ ofs < Len(o) + 1
      /\ ofs \in 1 .. Len(o) + 1
  <2>1. ofs \in Nat /\ Len(o) \in Nat /\ ofs < Len(o) + 1 /\ ofs \in 1 .. Len(o) + 1
    OBVIOUS
  <2> QED
    BY <2>1, StringsAssumption DEF T, Tok, Tags
<1> HIDE DEF t
<1>2. Keeps(o, a, Len(o)) /\ Len(a) = Len(o) /\ a[ofs].trk /\ a \in Seq(Tok)
  BY FlagKeeps DEF Keeps
<1> HIDE DEF a
<1>3. Keeps(a, p, Len(a)) /\ Len(p) = Len(a) + 1 /\ p[Len(a) + 1] = t
  BY <1>1, <1>2, AppendKeeps
<1>4. Keeps(o, b, Len(o)) /\ Len(b) = Len(o) + 1 /\ b[Len(o) + 1] = t /\ b \in Seq(Tok)
  BY <1>1, AppendKeeps DEF Keeps
<1> HIDE DEF p, b
<1>5. Keeps(b, q, Len(b)) /\ Len(q) = Len(b) /\ q[ofs].trk
  BY <1>1, <1>4, FlagKeeps
<1> HIDE DEF q
<1>6. Keeps(o, p, Len(o)) /\ Keeps(o, q, Len(o))
  BY <1>2, <1>3, <1>4, <1>5, KeepsTwice
<1>7. p[ofs].trk
  BY <1>2, <1>3 DEF Keeps
<1>8. q[Len(o) + 1].tag = "ALIAS" /\ q[Len(o) + 1].n = ofs
  BY <1>1, <1>4, <1>5 DEF Keeps
<1>9. Resolves(p, Len(o) + 1) /\ Resolves(q, Len(o) + 1)
  BY <1>1, <1>2, <1>3, <1>5, <1>7, <1>8 DEF Resolves
<1>10. Adds(o, p, {"ALIAS"}) /\ Adds(o, q, {"ALIAS"})
  BY <1>1, <1>2, <1>3, <1>4, <1>5, <1>6, <1>8, <1>9 DEF Adds
<1> QED
  BY <1>10 DEF p, a, q, b, t

LEMMA AddsKept ==
  ASSUME NEW o, NEW p, NEW tags, Adds(o, p, tags)
  PROVE  /\ Keeps(o, p, Len(o)) /\ p \in Seq(Tok) /\ Spares(o, Len(o), "STR") /\ Spares(o, Len(o), "WEAKEN")
         /\ AllResolve(o) => AllResolve(p)
<1>1. Keeps(o, p, Len(o)) /\ Len(p) = Len(o) + 1 /\ Len(o) \in Nat /\ p \in Seq(Tok)
  BY DEF Adds, Keeps
<1>2. \A i \in Len(o) + 1 .. Len(p) : Resolves(p, i)
  <2>1. \A i \in Len(o) + 1 .. Len(p) : i = Len(o) + 1
    BY <1>1
  <2> QED
    BY <2>1 DEF Adds
<1>3. AllResolve(o) => AllResolve(p)
  BY <1>1, <1>2, ResolveKept
<1> QED
  BY <1>1, <1>3 DEF Spares

\* srl_dump_svpv writes one tag and what it remembers is a string.
LEMMA SvpvSound ==
  ASSUME IInv, NEW s \in Strings, srl_dump_svpv(s)
  PROVE  /\ Adds(out, out', {"STR", "COPY", "ALIAS"})
         /\ string_deduper_hv' \in [Strings -> Nat]
         /\ StringsOK(out', str_seenhash, string_deduper_hv')
<1>1. /\ out \in Seq(Tok) /\ Len(out) \in Nat /\ string_deduper_hv \in [Strings -> Nat]
      /\ StringsOK(out, str_seenhash, string_deduper_hv)
      /\ opt.dedupe \in {"no", "copy", "alias"}
  BY DEF IInv, Types, Built, OptionSet
<1> DEFINE t == T("STR", 0, s)
<1>2. t \in Tok /\ t.tag = "STR" /\ t.s = s
  BY TokFacts DEF Tags
<1> HIDE DEF t
<1>3. ASSUME NEW ds, Adds(out, out', {"STR", "COPY", "ALIAS"}), ds = string_deduper_hv
      PROVE  StringsOK(out', str_seenhash, ds)
  BY <1>1, <1>3, AddsKept, StringsKept
<1>4. ASSUME NEW p, NEW tag \in {"STR", "COPY", "ALIAS"}, Adds(out, p, {tag})
      PROVE  Adds(out, p, {"STR", "COPY", "ALIAS"})
  BY <1>4 DEF Adds
<1>5. Adds(out, Append(out, t), {"STR"})
  BY <1>1, <1>2, AddsPlainTag
<1>6. CASE opt.dedupe = "no"
  <2>1. out' = Append(out, t) /\ string_deduper_hv' = string_deduper_hv
    BY <1>6 DEF srl_dump_svpv, t
  <2> QED
    BY <1>1, <1>3, <1>4, <1>5, <2>1
<1>7. CASE opt.dedupe # "no" /\ string_deduper_hv[s] = 0
  <2> DEFINE ds == [string_deduper_hv EXCEPT ![s] = Here]
  <2>1. out' = Append(out, t) /\ string_deduper_hv' = ds
    BY <1>7 DEF srl_dump_svpv, t
  <2>2. Adds(out, out', {"STR", "COPY", "ALIAS"}) /\ out'[Here] = t /\ Len(out') = Here
    BY <1>1, <1>2, <1>4, <1>5, <2>1, AppendKeeps DEF Here
  <2>3. StringsOK(out', str_seenhash, string_deduper_hv)
    BY <1>3, <2>2
  <2>4. Here \in Nat /\ ds \in [Strings -> Nat] /\ ds[s] = Here /\ \A r \in Strings : r # s => ds[r] = string_deduper_hv[r]
    BY <1>1 DEF Here
  <2> HIDE DEF ds
  <2>5. StringAt(out', Here, s) /\ Here \in 1 .. Len(out')
    BY <1>1, <1>2, <2>2 DEF StringAt, Here
  <2>6. StringsOK(out', str_seenhash, ds)
    BY <2>3, <2>4, <2>5 DEF StringsOK
  <2> QED
    BY <2>1, <2>2, <2>4, <2>6
<1>8. CASE opt.dedupe # "no" /\ string_deduper_hv[s] # 0
  <2> DEFINE ofs == string_deduper_hv[s]
  <2>1. /\ out' = IF opt.dedupe = "copy" THEN Append(out, T("COPY", ofs, ""))
                  ELSE Append(SRL_SET_TRACK_FLAG(out, ofs), T("ALIAS", ofs, ""))
        /\ string_deduper_hv' = [string_deduper_hv EXCEPT ![s] = ofs]
    BY <1>1, <1>8 DEF srl_dump_svpv
  <2>2. string_deduper_hv' = string_deduper_hv
    BY <1>1, <2>1
  <2>3. StringAt(out, ofs, s) /\ ofs \in 1 .. Len(out)
    BY <1>1, <1>8 DEF StringsOK, StringAt
  <2> HIDE DEF ofs
  <2>4. Adds(out, out', {"COPY"}) \/ Adds(out, out', {"ALIAS"})
    BY <1>1, <2>1, <2>3, AddsCopy, AddsAlias
  <2>5. Adds(out, out', {"STR", "COPY", "ALIAS"})
    BY <1>4, <2>4
  <2> QED
    BY <1>1, <1>3, <2>2, <2>5
<1> QED
  BY <1>6, <1>7, <1>8

\* A plain scalar writes one of its own tags.
LEMMA PlainSound ==
  ASSUME IInv, NEW x \in Node, DumpPlain(x)
  PROVE  /\ Adds(out, out', TagsOf(x))
         /\ string_deduper_hv' \in [Strings -> Nat]
         /\ StringsOK(out', str_seenhash, string_deduper_hv')
<1>1. heap[x].v \in Strings /\ out \in Seq(Tok) /\ string_deduper_hv \in [Strings -> Nat]
      /\ StringsOK(out, str_seenhash, string_deduper_hv)
  BY NodeFacts DEF IInv, Types
<1>2. CASE heap[x].k = "str"
  <2>1. srl_dump_svpv(heap[x].v)
    BY <1>2 DEF DumpPlain
  <2>2. TagsOf(x) = {"STR", "COPY", "ALIAS"}
    BY <1>2, TagsFacts
  <2> QED
    BY <1>1, <2>1, <2>2, SvpvSound
<1>3. CASE heap[x].k \in {"int", "undef"}
  <2> DEFINE t == IF heap[x].k = "int" THEN T("INT", 0, heap[x].v) ELSE T("UNDEF", 0, "")
  <2>1. out' = Append(out, t) /\ string_deduper_hv' = string_deduper_hv
    BY <1>3 DEF DumpPlain
  <2>2. t \in Tok /\ t.tag = (IF heap[x].k = "int" THEN "INT" ELSE "UNDEF")
    BY <1>1, StringsAssumption DEF T, Tok, Tags
  <2>3. TagsOf(x) = {t.tag}
    BY <1>3, <2>2, TagsFacts
  <2> HIDE DEF t
  <2>4. t.tag \notin {"REFP", "ALIAS", "COPY", "OBJECTV"}
    BY <2>2
  <2>5. Adds(out, out', TagsOf(x))
    BY <1>1, <2>1, <2>2, <2>3, <2>4, AddsPlainTag
  <2> QED
    BY <1>1, <2>1, <2>5, AddsKept, StringsKept
<1> QED
  BY <1>2, <1>3 DEF DumpPlain

\* Some tags are written over what is behind the first k.
Writes(o, p, k) == /\ Keeps(o, p, k) /\ Spares(o, k, "STR") /\ Spares(o, k, "WEAKEN")
                   /\ \A i \in k + 1 .. Len(p) : Resolves(p, i)

LEMMA AddsWrites ==
  ASSUME NEW o, NEW p, NEW tags, Adds(o, p, tags)
  PROVE  Writes(o, p, Len(o)) /\ p \in Seq(Tok) /\ Len(o) \in Nat
<1>1. Keeps(o, p, Len(o)) /\ Len(p) = Len(o) + 1 /\ Len(o) \in Nat /\ p \in Seq(Tok)
  BY DEF Adds, Keeps
<1>2. \A i \in Len(o) + 1 .. Len(p) : i = Len(o) + 1
  BY <1>1
<1> QED
  BY <1>1, <1>2, AddsKept DEF Writes, Adds

\* A pass that has written its tags ends, or goes on to the referent.
LEMMA PassSound ==
  ASSUME IInv, ctl # "done", heap' = heap, opt' = opt, NEW k, Writes(out, out', k),
         Plain(todo'), cur' \in Local, ctl' \in {"next", "redo"},
         ref_seenhash' \in [Node -> Nat], RefsOK(out', ref_seenhash'),
         weak_seenhash' \in [Node -> Nat \cup {Absent}], WeakensOK(out, weak_seenhash'),
         str_seenhash' \in [StrPtr -> Nat], string_deduper_hv' \in [Strings -> Nat],
         StringsOK(out', str_seenhash', string_deduper_hv'),
         \A x \in Node : ref_seenhash'[x] # 0 => Named(str_seenhash', x),
         ctl' = "redo" => cur'.ref_rewrite_pos # 0 /\ Unfinished'
  PROVE  IInv' /\ (AllResolve(out) => AllResolve(out'))
<1>1. Built' /\ Types'
  BY DEF IInv, Built, Types, Writes, Keeps
<1>2. WeakensOK(out', weak_seenhash')
  BY WeakensKept DEF Writes
<1>3. AllResolve(out) => AllResolve(out')
  BY ResolveKept DEF Writes
<1>4. RefsOK(out, ref_seenhash)'
  BY DEF RefsOK, TagsOf
<1>5. Plain(todo)'
  BY DEF Plain
<1>6. \A x \in Node : ref_seenhash'[x] # 0 => Named(str_seenhash, x)'
  BY DEF Named
<1>7. ctl' # "start" /\ ctl' # "done" /\ ctl' # "croak"
  OBVIOUS
<1> QED
  BY <1>1, <1>2, <1>3, <1>4, <1>5, <1>6, <1>7 DEF IInv

\* The weak reference an SV was reached through is noted at its WEAKEN.
LEMMA NoteSound ==
  ASSUME IInv, ctl = "redo"
  PROVE  /\ NoteWeak(cur.src) \in [Node -> Nat \cup {Absent}]
         /\ WeakensOK(out, NoteWeak(cur.src))
         /\ cur.src \in Node /\ cur.ref_rewrite_pos \in Nat /\ cur.weakref_ofs \in Nat
<1>1. /\ cur.src \in Node /\ cur.ref_rewrite_pos \in Nat /\ cur.weakref_ofs \in Nat
      /\ weak_seenhash \in [Node -> Nat \cup {Absent}] /\ WeakensOK(out, weak_seenhash)
      /\ out \in Seq(Tok) /\ Len(out) \in Nat
  BY DEF IInv, Types, Local
<1>2. cur.weakref_ofs # 0 => cur.weakref_ofs \in 1 .. Len(out) /\ out[cur.weakref_ofs].tag = "WEAKEN"
  <2>1. CASE cur.ref_rewrite_pos = 0
    BY <2>1 DEF IInv, InSlot
  <2>2. CASE cur.ref_rewrite_pos # 0
    <3>1. Unfinished
      BY <2>2 DEF IInv
    <3> QED
      BY <1>1, <3>1 DEF Unfinished
  <2> QED
    BY <2>1, <2>2
<1>3. CASE HasBackrefs(cur.src) /\ weak_seenhash[cur.src] # 0
  <2> DEFINE ws == [weak_seenhash EXCEPT ![cur.src] = cur.weakref_ofs]
  <2>1. NoteWeak(cur.src) = ws
    BY <1>3 DEF NoteWeak
  <2>2. /\ ws \in [Node -> Nat \cup {Absent}] /\ ws[cur.src] = cur.weakref_ofs
        /\ \A x \in Node : x # cur.src => ws[x] = weak_seenhash[x]
    BY <1>1
  <2> HIDE DEF ws
  <2>3. WeakensOK(out, ws)
    BY <1>1, <1>2, <2>2 DEF WeakensOK
  <2> QED
    BY <1>1, <2>1, <2>2, <2>3
<1>4. CASE ~(HasBackrefs(cur.src) /\ weak_seenhash[cur.src] # 0)
  <2>1. NoteWeak(cur.src) = weak_seenhash
    BY <1>4 DEF NoteWeak
  <2> QED
    BY <1>1, <2>1
<1> QED
  BY <1>3, <1>4

\* Offsets that were valid stay valid when a tag is added.
LEMMA RefsAdds ==
  ASSUME NEW p, NEW tags, Adds(out, p, tags), NEW rs \in [Node -> Nat], RefsOK(out, rs)
  PROVE  RefsOK(p, rs)
<1>1. Keeps(out, p, Len(out)) /\ Len(out) \in Nat
  BY AddsWrites DEF Writes
<1>2. \A x \in Node : ~(rs[x] > Len(out))
  BY <1>1 DEF RefsOK
<1> QED
  BY <1>1, <1>2, RefsKept

\* The SV that is being dumped is remembered at its first tag.
LEMMA RememberSound ==
  ASSUME IInv, ctl = "redo", NEW p, Keeps(out, p, Len(out)), Len(p) >= Here, p[Here].tag \in TagsOf(cur.src)
  PROVE  /\ RememberRef(cur.src) \in [Node -> Nat] /\ RefsOK(p, RememberRef(cur.src))
         /\ \A x \in Node : x # cur.src => RememberRef(cur.src)[x] = ref_seenhash[x]
         /\ RememberRef(cur.src)[cur.src] \in {ref_seenhash[cur.src], Here}
<1>1. /\ cur.src \in Node /\ ref_seenhash \in [Node -> Nat] /\ RefsOK(out, ref_seenhash)
      /\ out \in Seq(Tok) /\ Len(out) \in Nat /\ Here = Len(out) + 1 /\ p \in Seq(Tok)
  BY DEF IInv, Types, Local, Here, Keeps
<1>2. \A x \in Node : ~(ref_seenhash[x] > Len(out))
  BY <1>1 DEF RefsOK
<1>3. RefsOK(p, ref_seenhash)
  BY <1>1, <1>2, RefsKept
<1>4. CASE refcount(cur.src) > 1
  <2> DEFINE rs == [ref_seenhash EXCEPT ![cur.src] = Here]
  <2>1. RememberRef(cur.src) = rs
    BY <1>4 DEF RememberRef
  <2>2. /\ rs \in [Node -> Nat] /\ rs[cur.src] = Here
        /\ \A x \in Node : x # cur.src => rs[x] = ref_seenhash[x]
    BY <1>1
  <2> HIDE DEF rs
  <2>3. Here \in 1 .. Len(p)
    BY <1>1
  <2>4. RefsOK(p, rs)
    BY <1>3, <2>2, <2>3 DEF RefsOK
  <2> QED
    BY <2>1, <2>2, <2>4
<1>5. CASE ~(refcount(cur.src) > 1)
  <2>1. RememberRef(cur.src) = ref_seenhash
    BY <1>5 DEF RememberRef
  <2> QED
    BY <1>1, <1>3, <2>1
<1> QED
  BY <1>4, <1>5

\* Facts about the start of a pass that the steps share.
LEMMA PassFacts ==
  ASSUME IInv, ctl = "redo"
  PROVE  /\ Plain(todo) /\ cur \in Local /\ cur.src \in Node /\ out \in Seq(Tok) /\ Len(out) \in Nat
         /\ Here = Len(out) + 1
         /\ ref_seenhash \in [Node -> Nat] /\ RefsOK(out, ref_seenhash)
         /\ str_seenhash \in [StrPtr -> Nat] /\ string_deduper_hv \in [Strings -> Nat]
         /\ StringsOK(out, str_seenhash, string_deduper_hv) /\ Built
         /\ \A x \in Node : ref_seenhash[x] # 0 => Named(str_seenhash, x)
         /\ cur.ref_rewrite_pos # 0 => Unfinished
         /\ cur.ref_rewrite_pos = 0 => heap[cur.src].k \notin {"av", "hv", "code"}
BY DEF IInv, Types, Local, Here, InSlot

-----------------------------------------------------------------------------
(* The steps.  Each keeps the invariant, and the offsets in the body good.   *)

Sound == IInv /\ AllResolve(out)

LEMMA InitSound == Init => Sound
<1> SUFFICES ASSUME Init PROVE Sound
  OBVIOUS
<1>1. PICK c \in Cases : heap = c.heap /\ opt = c.opt
  BY DEF Init
<1>2. heap \in Heap /\ opt \in OptionSet /\ WellFormed(heap, Root)
  BY <1>1, CasesAssumption
<1>3. DOMAIN heap = Node
  BY <1>2 DEF Heap
<1>4. Built
  BY <1>2, <1>3, RootAssumption DEF Built, WellFormed
<1>5. /\ out = <<>> /\ todo = <<>> /\ cur = Enter(Root) /\ ctl = "start"
      /\ ref_seenhash = [x \in Node |-> 0] /\ weak_seenhash = [x \in Node |-> Absent]
      /\ str_seenhash = [p \in StrPtr |-> 0] /\ string_deduper_hv = [s \in Strings |-> 0]
  BY DEF Init
<1>6. \A s \in Strings : Stash(s) \in StrPtr /\ SharedKey(s) \in StrPtr
  BY DEF Stash, SharedKey, StrPtr
<1>7. Types
  BY <1>5, RootAssumption DEF Types, Enter, Local, Absent
<1>8. Plain(todo)
  BY <1>5 DEF Plain
<1>9. RefsOK(out, ref_seenhash) /\ StringsOK(out, str_seenhash, string_deduper_hv)
      /\ WeakensOK(out, weak_seenhash)
  BY <1>5, <1>6 DEF RefsOK, StringsOK, WeakensOK, Absent
<1> QED
  BY <1>4, <1>5, <1>7, <1>8, <1>9 DEF IInv, Sound, AllResolve

\* A call of srl_dump_sv for the root or a slot.
LEMMA CallSound ==
  ASSUME Sound, ctl \in {"start", "next"}, NEW x \in Node, heap[x].k \notin {"av", "hv", "code"},
         NEW rest, Plain(rest), CallDumpSv(x, rest)
  PROVE  Sound'
<1>1. /\ heap' = heap /\ opt' = opt /\ out' = out /\ todo' = rest /\ cur' = Enter(x)
      /\ ref_seenhash' = ref_seenhash /\ weak_seenhash' = weak_seenhash
      /\ str_seenhash' = str_seenhash /\ string_deduper_hv' = string_deduper_hv
      /\ ctl' \in {"croak", "redo"}
  BY DEF CallDumpSv, seen
<1>2. cur' \in Local /\ cur'.src = x /\ cur'.ref_rewrite_pos = 0 /\ cur'.weakref_ofs = 0
  BY <1>1 DEF Enter, Local
<1>3. Built' /\ Types' /\ InSlot'
  BY <1>1, <1>2 DEF Sound, IInv, Built, Types, InSlot
<1>4. RefsOK(out, ref_seenhash)' /\ WeakensOK(out, weak_seenhash)'
      /\ StringsOK(out, str_seenhash, string_deduper_hv)'
  BY <1>1 DEF Sound, IInv, RefsOK, TagsOf
<1>5. Plain(todo)'
  BY <1>1 DEF Plain
<1>6. \A y \in Node : ref_seenhash'[y] # 0 => Named(str_seenhash, y)'
  BY <1>1 DEF Sound, IInv, Named
<1>7. ctl' # "start" /\ ctl' # "done"
  BY <1>1
<1> QED
  BY <1>1, <1>2, <1>3, <1>4, <1>5, <1>6, <1>7 DEF Sound, IInv

\* A slot or a key is dumped without a call.
LEMMA SlotSound ==
  ASSUME Sound, ctl = "next", NEW tags, Adds(out, out', tags), Plain(todo'),
         UNCHANGED <<heap, opt, cur, ctl, ref_seenhash, weak_seenhash>>,
         str_seenhash' \in [StrPtr -> Nat], string_deduper_hv' \in [Strings -> Nat],
         StringsOK(out', str_seenhash', string_deduper_hv'),
         \A s \in Strings : str_seenhash'[Stash(s)] = str_seenhash[Stash(s)]
  PROVE  Sound'
<1>1. /\ RefsOK(out, ref_seenhash) /\ ref_seenhash \in [Node -> Nat] /\ cur \in Local
      /\ WeakensOK(out, weak_seenhash) /\ weak_seenhash \in [Node -> Nat \cup {Absent}] /\ Built /\ IInv
  BY DEF Sound, IInv, Types
<1>2. Writes(out, out', Len(out)) /\ RefsOK(out', ref_seenhash)
  BY <1>1, AddsWrites, RefsAdds
<1>3. \A x \in Node : ref_seenhash'[x] # 0 => Named(str_seenhash', x)
  BY <1>1, NodeFacts DEF IInv, Named
<1>4. ctl # "done" /\ ctl' = "next"
  OBVIOUS
<1>5. IInv' /\ (AllResolve(out) => AllResolve(out'))
  BY <1>1, <1>2, <1>3, <1>4, PassSound
<1> QED
  BY <1>5 DEF Sound

LEMMA StartSound == ASSUME Sound, Start PROVE Sound'
BY CallSound, PlainReturn, RootAssumption DEF Start, Sound, IInv, Built

LEMMA ElementSound == ASSUME Sound, DumpElement PROVE Sound'
<1>1. ctl = "next" /\ todo # <<>> /\ Head(todo).op = "sv" /\ CallDumpSv(Head(todo).x, <<Return>> \o Tail(todo))
  BY DEF DumpElement, NextIs
<1>2. Plain(todo)
  BY DEF Sound, IInv
<1>3. /\ Plain(Tail(todo)) /\ Head(todo).x \in Node
      /\ heap[Head(todo).x].k \notin {"av", "hv", "code"}
  BY <1>1, <1>2, PlainTail
<1>4. Plain(<<Return>> \o Tail(todo))
  BY <1>3, PlainReturn, PlainConcat
<1> QED
  BY <1>1, <1>3, <1>4, CallSound

LEMMA ElementDirectSound == ASSUME Sound, DumpElementDirect PROVE Sound'
<1>1. /\ ctl = "next" /\ todo # <<>> /\ DumpPlain(Head(todo).x) /\ todo' = Tail(todo)
      /\ UNCHANGED <<heap, opt, cur, ctl, ref_seenhash, weak_seenhash, str_seenhash>>
  BY DEF DumpElementDirect, NextIs
<1>2. Plain(todo) /\ IInv /\ str_seenhash \in [StrPtr -> Nat]
  BY DEF Sound, IInv, Types
<1>3. Plain(Tail(todo)) /\ Head(todo).x \in Node
  BY <1>1, <1>2, PlainTail
<1>4. /\ Adds(out, out', TagsOf(Head(todo).x)) /\ string_deduper_hv' \in [Strings -> Nat]
      /\ StringsOK(out', str_seenhash, string_deduper_hv')
  BY <1>1, <1>2, <1>3, PlainSound
<1>5. /\ str_seenhash' \in [StrPtr -> Nat] /\ StringsOK(out', str_seenhash', string_deduper_hv')
      /\ \A s \in Strings : str_seenhash'[Stash(s)] = str_seenhash[Stash(s)]
  BY <1>1, <1>2, <1>4
<1> QED
  BY <1>1, <1>3, <1>4, <1>5, SlotSound

LEMMA KeyAsSvSound == ASSUME Sound, DumpKeyAsSv PROVE Sound'
<1>1. /\ ctl = "next" /\ todo # <<>> /\ srl_dump_svpv(Head(todo).s) /\ todo' = Tail(todo)
      /\ UNCHANGED <<heap, opt, cur, ctl, ref_seenhash, weak_seenhash, str_seenhash>>
  BY DEF DumpKeyAsSv, NextIs
<1>2. Plain(todo) /\ IInv /\ str_seenhash \in [StrPtr -> Nat]
  BY DEF Sound, IInv, Types
<1>3. Plain(Tail(todo)) /\ Head(todo).s \in Strings
  BY <1>1, <1>2, PlainTail
<1>4. /\ Adds(out, out', {"STR", "COPY", "ALIAS"}) /\ string_deduper_hv' \in [Strings -> Nat]
      /\ StringsOK(out', str_seenhash, string_deduper_hv')
  BY <1>1, <1>2, <1>3, SvpvSound
<1>5. /\ str_seenhash' \in [StrPtr -> Nat] /\ StringsOK(out', str_seenhash', string_deduper_hv')
      /\ \A s \in Strings : str_seenhash'[Stash(s)] = str_seenhash[Stash(s)]
  BY <1>1, <1>2, <1>4
<1> QED
  BY <1>1, <1>3, <1>4, <1>5, SlotSound

LEMMA ReturnSound == ASSUME Sound, DumpReturn PROVE Sound'
<1>1. /\ ctl = "next" /\ todo # <<>> /\ todo' = Tail(todo)
      /\ UNCHANGED <<heap, opt, out, cur, ctl, ref_seenhash, weak_seenhash, str_seenhash, string_deduper_hv>>
  BY DEF DumpReturn, NextIs, seen
<1>2. Plain(todo)
  BY DEF Sound, IInv
<1>3. Plain(Tail(todo))
  BY <1>1, <1>2, PlainTail
<1>4. Built' /\ Types' /\ AllResolve(out)'
  BY <1>1 DEF Sound, IInv, Built, Types, AllResolve, Resolves
<1>5. RefsOK(out, ref_seenhash)' /\ WeakensOK(out, weak_seenhash)'
      /\ StringsOK(out, str_seenhash, string_deduper_hv)'
  BY <1>1 DEF Sound, IInv, RefsOK, TagsOf
<1>6. Plain(todo)'
  BY <1>1, <1>3 DEF Plain
<1>7. \A y \in Node : ref_seenhash'[y] # 0 => Named(str_seenhash, y)'
  BY <1>1 DEF Sound, IInv, Named
<1> QED
  BY <1>1, <1>4, <1>5, <1>6, <1>7 DEF Sound, IInv

\* A hash key is a pointer of its own kind in str_seenhash.
LEMMA KeySound == ASSUME Sound, srl_dump_hk PROVE Sound'
<1> DEFINE s == Head(todo).s
           ptr == SharedKey(s)
           ofs == str_seenhash[ptr]
           t == T("STR", 0, s)
<1>1. /\ ctl = "next" /\ todo # <<>> /\ todo' = Tail(todo)
      /\ UNCHANGED <<heap, opt, cur, ctl, ref_seenhash, weak_seenhash, string_deduper_hv>>
  BY DEF srl_dump_hk, NextIs
<1>2. /\ Plain(todo) /\ IInv /\ str_seenhash \in [StrPtr -> Nat] /\ out \in Seq(Tok) /\ Len(out) \in Nat
      /\ StringsOK(out, str_seenhash, string_deduper_hv) /\ string_deduper_hv \in [Strings -> Nat]
  BY DEF Sound, IInv, Types
<1>3. Plain(Tail(todo)) /\ s \in Strings
  BY <1>1, <1>2, PlainTail
<1> HIDE DEF s
<1>4. CASE opt.shared_hashkeys /\ ofs # 0
  <2>1. out' = Append(out, T("COPY", ofs, "")) /\ str_seenhash' = str_seenhash
    BY <1>4 DEF srl_dump_hk, s
  <2>2. StringAt(out, ofs, s)
    BY <1>2, <1>3, <1>4 DEF StringsOK
  <2> HIDE DEF ofs
  <2>3. Adds(out, out', {"COPY"})
    BY <1>2, <2>1, <2>2, AddsCopy
  <2>4. StringsOK(out', str_seenhash', string_deduper_hv')
    <3>1. StringsOK(out', str_seenhash, string_deduper_hv)
      BY <1>2, <2>3, AddsKept, StringsKept
    <3> QED
      BY <1>1, <2>1, <3>1
  <2>5. /\ str_seenhash' \in [StrPtr -> Nat] /\ string_deduper_hv' \in [Strings -> Nat]
        /\ \A r \in Strings : str_seenhash'[Stash(r)] = str_seenhash[Stash(r)]
    BY <1>1, <1>2, <2>1
  <2> QED
    BY <1>1, <1>3, <2>3, <2>4, <2>5, SlotSound
<1>5. CASE ~(opt.shared_hashkeys /\ ofs # 0)
  <2>1. /\ out' = Append(out, t)
        /\ str_seenhash' = IF opt.shared_hashkeys THEN [str_seenhash EXCEPT ![ptr] = Here] ELSE str_seenhash
    BY <1>5 DEF srl_dump_hk, s
  <2>2. t \in Tok /\ t.tag = "STR" /\ t.s = s
    BY <1>3 DEF T, Tok, Tags
  <2> HIDE DEF t
  <2>3. Adds(out, out', {"STR"}) /\ out'[Here] = t /\ Len(out') = Here
    BY <1>2, <2>1, <2>2, AddsPlainTag, AppendKeeps DEF Here
  <2>4. StringsOK(out', str_seenhash, string_deduper_hv)
    BY <1>2, <2>3, AddsKept, StringsKept
  <2>5. Here \in Nat /\ StringAt(out', Here, s)
    BY <1>2, <2>2, <2>3 DEF Here, StringAt
  <2>6. /\ ptr \in StrPtr /\ \A r \in Strings : /\ Stash(r) \in StrPtr /\ Stash(r) # ptr
                                                /\ SharedKey(r) \in StrPtr /\ (SharedKey(r) = ptr => r = s)
    BY <1>3 DEF StrPtr, SharedKey, Stash
  <2> HIDE DEF ptr
  <2>7. /\ str_seenhash' \in [StrPtr -> Nat]
        /\ \A p \in StrPtr : p # ptr => str_seenhash'[p] = str_seenhash[p]
        /\ str_seenhash'[ptr] \in {str_seenhash[ptr], Here}
    BY <1>2, <2>1, <2>5, <2>6
  <2>8. ASSUME NEW r \in Strings
        PROVE  /\ str_seenhash'[Stash(r)] = str_seenhash[Stash(r)]
               /\ str_seenhash'[SharedKey(r)] # 0 => StringAt(out', str_seenhash'[SharedKey(r)], r)
    <3>1. CASE SharedKey(r) = ptr
      BY <2>4, <2>5, <2>6, <2>7, <3>1 DEF StringsOK
    <3>2. CASE SharedKey(r) # ptr
      BY <2>4, <2>6, <2>7, <3>2 DEF StringsOK
    <3> QED
      BY <3>1, <3>2
  <2>9. StringsOK(out', str_seenhash', string_deduper_hv')
    BY <1>1, <2>4, <2>8 DEF StringsOK
  <2>10. string_deduper_hv' \in [Strings -> Nat]
    BY <1>1, <1>2
  <2> QED
    BY <1>1, <1>3, <2>3, <2>7, <2>8, <2>9, <2>10, SlotSound
<1> QED
  BY <1>4, <1>5

\* The encoder croaks: what it remembered last has no tag, but is not used.
LEMMA CroakSound ==
  ASSUME Sound, ctl = "redo", ctl' = "croak", heap[cur.src].k \in {"rv", "code"},
         UNCHANGED <<heap, opt, out, todo, cur, str_seenhash, string_deduper_hv>>,
         ref_seenhash' = RememberRef(cur.src), weak_seenhash' = NoteWeak(cur.src)
  PROVE  Sound'
<1>1. IInv
  BY DEF Sound
<1>2. /\ NoteWeak(cur.src) \in [Node -> Nat \cup {Absent}] /\ WeakensOK(out, NoteWeak(cur.src))
      /\ cur.src \in Node
  BY <1>1, NoteSound
<1>3. ref_seenhash \in [Node -> Nat] /\ Here \in Nat
  BY <1>1 DEF IInv, Types, Here
<1>4. /\ ref_seenhash' \in [Node -> Nat]
      /\ \A y \in Node : y # cur.src => ref_seenhash'[y] = ref_seenhash[y]
  BY <1>2, <1>3 DEF RememberRef
<1>5. Built' /\ Types' /\ AllResolve(out)'
  BY <1>1, <1>2, <1>4 DEF Sound, IInv, Built, Types, AllResolve, Resolves
<1>6. Plain(todo)'
  BY <1>1 DEF IInv, Plain
<1>7. WeakensOK(out, weak_seenhash)' /\ StringsOK(out, str_seenhash, string_deduper_hv)'
  BY <1>1, <1>2 DEF IInv
<1>8. \A y \in Node : ref_seenhash'[y] # 0 => Named(str_seenhash, y)'
  BY <1>1, <1>2, <1>4 DEF IInv, Named, IsContainer
<1> QED
  BY <1>5, <1>6, <1>7, <1>8 DEF Sound, IInv

LEMMA ImmortalSound == ASSUME Sound, DumpImmortal PROVE Sound'
<1> DEFINE t == T(heap[cur.src].v, 0, "")
<1>0. IInv /\ ctl = "redo" /\ heap[cur.src].k = "imm"
  BY DEF Sound, DumpImmortal
<1>1. /\ out' = Append(out, t) /\ weak_seenhash' = NoteWeak(cur.src) /\ ctl' = "next"
      /\ UNCHANGED <<heap, opt, todo, cur, ref_seenhash, str_seenhash, string_deduper_hv>>
  BY DEF DumpImmortal
<1>2. /\ NoteWeak(cur.src) \in [Node -> Nat \cup {Absent}] /\ WeakensOK(out, NoteWeak(cur.src))
      /\ cur.src \in Node
  BY <1>0, NoteSound
<1>3. /\ Plain(todo) /\ cur \in Local /\ out \in Seq(Tok)
      /\ ref_seenhash \in [Node -> Nat] /\ RefsOK(out, ref_seenhash)
      /\ str_seenhash \in [StrPtr -> Nat] /\ string_deduper_hv \in [Strings -> Nat]
      /\ StringsOK(out, str_seenhash, string_deduper_hv) /\ Built
      /\ \A x \in Node : ref_seenhash[x] # 0 => Named(str_seenhash, x)
  BY <1>0, PassFacts
<1>4. heap[cur.src].v \in {"CANONICAL_UNDEF", "TRUE", "FALSE"}
  BY <1>0, <1>2, <1>3, NodeFacts
<1>5. t \in Tok /\ t.tag \in {"CANONICAL_UNDEF", "TRUE", "FALSE"}
  BY <1>4, StringsAssumption DEF T, Tok, Tags
<1> HIDE DEF t
<1>6. Adds(out, out', {t.tag})
  BY <1>1, <1>3, <1>5, AddsPlainTag
<1>7. RefsOK(out', ref_seenhash) /\ StringsOK(out', str_seenhash, string_deduper_hv) /\ Writes(out, out', Len(out))
  BY <1>3, <1>6, RefsAdds, AddsKept, StringsKept, AddsWrites
<1>8. IInv' /\ (AllResolve(out) => AllResolve(out'))
  <2>1. /\ heap' = heap /\ opt' = opt /\ Plain(todo') /\ cur' \in Local
        /\ ref_seenhash' = ref_seenhash /\ str_seenhash' = str_seenhash /\ string_deduper_hv' = string_deduper_hv
        /\ ctl # "done" /\ ctl' = "next"
    BY <1>0, <1>1, <1>3
  <2> QED
    BY <1>0, <1>1, <1>2, <1>3, <1>7, <2>1, PassSound
<1> QED
  BY <1>8 DEF Sound

LEMMA ScalarSound == ASSUME Sound, DumpScalar PROVE Sound'
<1>0. IInv /\ ctl = "redo" /\ heap[cur.src].k \in {"int", "str", "undef"}
  BY DEF Sound, DumpScalar, FirstVisit, IsPlain
<1>1. /\ DumpPlain(cur.src) /\ weak_seenhash' = NoteWeak(cur.src) /\ ctl' = "next"
      /\ ref_seenhash' = RememberRef(cur.src)
      /\ heap' = heap /\ opt' = opt /\ todo' = todo /\ cur' = cur /\ str_seenhash' = str_seenhash
  BY DEF DumpScalar, FirstVisit
<1>2. /\ NoteWeak(cur.src) \in [Node -> Nat \cup {Absent}] /\ WeakensOK(out, NoteWeak(cur.src))
      /\ cur.src \in Node
  BY <1>0, NoteSound
<1>3. /\ Plain(todo) /\ cur \in Local /\ out \in Seq(Tok) /\ Here = Len(out) + 1
      /\ str_seenhash \in [StrPtr -> Nat] /\ Built
      /\ \A x \in Node : ref_seenhash[x] # 0 => Named(str_seenhash, x)
  BY <1>0, PassFacts
<1>4. /\ Adds(out, out', TagsOf(cur.src)) /\ string_deduper_hv' \in [Strings -> Nat]
      /\ StringsOK(out', str_seenhash, string_deduper_hv')
  BY <1>0, <1>1, <1>2, PlainSound
<1>5. Keeps(out, out', Len(out)) /\ Len(out') >= Here /\ out'[Here].tag \in TagsOf(cur.src)
  BY <1>3, <1>4 DEF Adds
<1>6. /\ RememberRef(cur.src) \in [Node -> Nat] /\ RefsOK(out', RememberRef(cur.src))
      /\ \A x \in Node : x # cur.src => RememberRef(cur.src)[x] = ref_seenhash[x]
  BY <1>0, <1>5, RememberSound
<1>7. \A x \in Node : ref_seenhash'[x] # 0 => Named(str_seenhash', x)
  BY <1>0, <1>1, <1>3, <1>6 DEF Named, IsContainer
<1>8. IInv' /\ (AllResolve(out) => AllResolve(out'))
  <2>1. /\ Writes(out, out', Len(out)) /\ ctl # "done" /\ ctl' = "next" /\ Plain(todo') /\ cur' \in Local
        /\ str_seenhash' \in [StrPtr -> Nat] /\ StringsOK(out', str_seenhash', string_deduper_hv')
    BY <1>0, <1>1, <1>3, <1>4, AddsWrites
  <2> QED
    BY <1>0, <1>1, <1>2, <1>4, <1>6, <1>7, <2>1, PassSound
<1> QED
  BY <1>8 DEF Sound

\* Something known is written over an unfinished reference to it, or by ALIAS.
LEMMA SeenBeforeSound == ASSUME Sound, DumpSeenBefore PROVE Sound'
<1> DEFINE ofs == ref_seenhash[cur.src]
           pos == cur.ref_rewrite_pos
<1>0. IInv /\ ctl = "redo" /\ ofs # 0
  BY DEF Sound, DumpSeenBefore, SeenBefore
<1>1. /\ out' = SRL_SET_TRACK_FLAG(Append(IF pos = 0 THEN out ELSE SubSeq(out, 1, pos - 1),
                                          T(IF pos = 0 THEN "ALIAS" ELSE "REFP", ofs, "")), ofs)
      /\ weak_seenhash' = NoteWeak(cur.src) /\ ctl' = "next"
      /\ heap' = heap /\ opt' = opt /\ todo' = todo /\ cur' = cur /\ ref_seenhash' = ref_seenhash
      /\ str_seenhash' = str_seenhash /\ string_deduper_hv' = string_deduper_hv
  BY DEF DumpSeenBefore
<1>2. /\ NoteWeak(cur.src) \in [Node -> Nat \cup {Absent}] /\ WeakensOK(out, NoteWeak(cur.src))
      /\ cur.src \in Node /\ pos \in Nat
  BY <1>0, NoteSound
<1>3. /\ Plain(todo) /\ cur \in Local /\ out \in Seq(Tok) /\ Len(out) \in Nat
      /\ ref_seenhash \in [Node -> Nat] /\ RefsOK(out, ref_seenhash)
      /\ str_seenhash \in [StrPtr -> Nat] /\ string_deduper_hv \in [Strings -> Nat]
      /\ StringsOK(out, str_seenhash, string_deduper_hv) /\ Built
      /\ \A x \in Node : ref_seenhash[x] # 0 => Named(str_seenhash, x)
      /\ pos # 0 => Unfinished
  BY <1>0, PassFacts
<1>4. ofs \in 1 .. Len(out) /\ out[ofs].tag \in TagsOf(cur.src)
  BY <1>0, <1>2, <1>3 DEF RefsOK
<1>5. ASSUME NEW k, Writes(out, out', k), RefsOK(out', ref_seenhash), StringsOK(out', str_seenhash, string_deduper_hv)
      PROVE  Sound'
  <2>1. ctl # "done" /\ ctl' = "next" /\ Plain(todo') /\ cur' \in Local
    BY <1>0, <1>1, <1>3
  <2>2. IInv' /\ (AllResolve(out) => AllResolve(out'))
    BY <1>0, <1>1, <1>2, <1>3, <1>5, <2>1, PassSound
  <2> QED
    BY <2>2 DEF Sound
<1>6. CASE pos = 0
  <2>1. Adds(out, out', {"ALIAS"})
    BY <1>1, <1>3, <1>4, <1>6, AddsAlias
  <2>2. Writes(out, out', Len(out)) /\ RefsOK(out', ref_seenhash) /\ StringsOK(out', str_seenhash, string_deduper_hv)
    BY <1>3, <2>1, RefsAdds, AddsKept, StringsKept, AddsWrites
  <2> QED
    BY <1>5, <2>2
<1>7. CASE pos # 0
  <2> DEFINE k == pos - 1
             t == T("REFP", ofs, "")
             p == Append(SubSeq(out, 1, k), t)
  <2>1. out' = SRL_SET_TRACK_FLAG(p, ofs)
    BY <1>1, <1>7
  <2>2. t \in Tok /\ t.tag = "REFP" /\ t.n = ofs /\ ofs \in Nat
    <3>1. ofs \in Nat
      BY <1>2, <1>3
    <3> HIDE DEF ofs
    <3> QED
      BY <3>1, StringsAssumption DEF T, Tok, Tags
  <2>3. /\ pos \in 1 .. Len(out) /\ out[Len(out)].tag = "REFN" /\ ofs <= pos
        /\ pos = Len(out) \/ (pos = Len(out) - 1 /\ out[pos].tag = "OBJECTV")
        /\ \A x \in Node : ref_seenhash[x] <= pos
    BY <1>0, <1>2, <1>3, <1>7 DEF Unfinished
  <2> HIDE DEF t, ofs, pos
  <2>4. k \in 0 .. Len(out) /\ k + 1 = pos
    BY <1>3, <2>3
  <2>5. Keeps(out, p, k) /\ Len(p) = k + 1 /\ p[k + 1] = t /\ p \in Seq(Tok)
    BY <1>3, <2>2, <2>4, ReplaceKeeps DEF Keeps
  <2> HIDE DEF p, k
  <2>6. ofs \in 1 .. Len(p)
    BY <1>4, <2>3, <2>4, <2>5
  <2>7. Keeps(p, out', Len(p)) /\ Len(out') = Len(p) /\ out'[ofs].trk
    BY <2>1, <2>5, <2>6, FlagKeeps
  <2>8. Keeps(out, out', k)
    BY <2>5, <2>7, KeepsTwice
  <2>9. out'[pos].tag = "REFP" /\ out'[pos].n = ofs /\ Len(out') = pos
    <3>1. pos \in 1 .. Len(p)
      BY <1>3, <2>3, <2>4, <2>5
    <3> QED
      BY <2>2, <2>4, <2>5, <2>7, <3>1 DEF Keeps
  <2>10. \A i \in pos .. Len(out) : out[i].tag \in {"REFN", "OBJECTV"}
    BY <1>3, <2>3
  <2>11. Resolves(out', pos)
    BY <2>4, <2>5, <2>6, <2>7, <2>9 DEF Resolves
  <2>12. Writes(out, out', k)
    <3>1. \A i \in k + 1 .. Len(out') : i = pos
      BY <1>3, <2>3, <2>4, <2>9
    <3> QED
      BY <2>4, <2>8, <2>10, <2>11, <3>1 DEF Writes, Spares
  <2>13. ASSUME NEW x \in Node, ref_seenhash[x] > k
         PROVE  ref_seenhash[x] \in 1 .. Len(out') /\ out'[ref_seenhash[x]].tag \in TagsOf(x)
    <3>1. ref_seenhash[x] = pos
      BY <1>3, <2>3, <2>4, <2>13
    <3>2. out[pos].tag \in TagsOf(x) /\ out[pos].tag \in {"REFN", "OBJECTV"}
      BY <1>3, <2>3, <2>10, <3>1 DEF RefsOK
    <3>3. TagsOf(x) = RefTags
      BY <3>2, TagsFacts
    <3> QED
      BY <2>3, <2>9, <3>1, <3>3 DEF RefTags
  <2>14. RefsOK(out', ref_seenhash)
    BY <1>3, <2>8, <2>13, RefsKept
  <2>15. StringsOK(out', str_seenhash, string_deduper_hv)
    BY <1>3, <2>12, StringsKept DEF Writes
  <2> QED
    BY <1>5, <2>12, <2>14, <2>15
<1> QED
  BY <1>6, <1>7

\* The last tag, the REFN of the unfinished reference, is replaced by another tag
\* that the reference may have.
LEMMA LastReplaced ==
  ASSUME IInv, ctl = "redo", Unfinished, NEW t \in Tok,
         t.tag \in {"ARRAYREF", "HASHREF", "UNDEF", "STR"},
         NEW p, p = Append(SubSeq(out, 1, Len(out) - 1), t),
         NEW rs \in [Node -> Nat], RefsOK(out, rs)
  PROVE  /\ Writes(out, p, Len(out) - 1) /\ RefsOK(p, rs)
         /\ StringsOK(p, str_seenhash, string_deduper_hv)
<1> DEFINE n == Len(out)
           k == n - 1
<1>1. /\ out \in Seq(Tok) /\ n \in Nat /\ StringsOK(out, str_seenhash, string_deduper_hv)
  BY PassFacts
<1>2. n >= 1 /\ out[n].tag = "REFN" /\ k \in 0 .. n
  BY <1>1 DEF Unfinished
<1>3. Keeps(out, p, k) /\ Len(p) = k + 1 /\ p[k + 1] = t
  BY <1>1, <1>2, ReplaceKeeps
<1>4. Len(p) = n /\ p[n] = t
  BY <1>1, <1>3
<1>5. \A i \in k + 1 .. n : i = n
  BY <1>1
<1>6. Resolves(p, n)
  BY <1>4 DEF Resolves
<1>7. Writes(out, p, k)
  BY <1>2, <1>3, <1>4, <1>5, <1>6 DEF Writes, Spares
<1>8. ASSUME NEW x \in Node, rs[x] > k PROVE rs[x] \in 1 .. Len(p) /\ p[rs[x]].tag \in TagsOf(x)
  <2>1. rs[x] = n /\ out[n].tag \in TagsOf(x)
    <3>1. rs[x] # 0
      BY <1>2, <1>8
    <3>2. rs[x] \in 1 .. n /\ out[rs[x]].tag \in TagsOf(x)
      BY <3>1 DEF RefsOK
    <3> QED
      BY <1>1, <1>8, <3>2
  <2>2. TagsOf(x) = RefTags
    BY <1>2, <2>1, TagsFacts
  <2> QED
    BY <1>1, <1>2, <1>4, <2>1, <2>2 DEF RefTags
<1>9. RefsOK(p, rs)
  <2>1. /\ rs \in [Node -> Nat] /\ RefsOK(out, rs) /\ Keeps(out, p, k)
        /\ \A x \in Node : rs[x] > k => rs[x] \in 1 .. Len(p) /\ p[rs[x]].tag \in TagsOf(x)
    BY <1>3, <1>8
  <2> HIDE DEF k, n
  <2> QED
    BY ONLY <2>1, RefsKept
<1> HIDE DEF k, n
<1>10. StringsOK(p, str_seenhash, string_deduper_hv)
  BY <1>1, <1>7, StringsKept DEF Writes
<1> QED
  BY <1>7, <1>9, <1>10 DEF k, n

LEMMA ContainerSound == ASSUME Sound, DumpContainer PROVE Sound'
<1> DEFINE x == cur.src
           n == Len(heap[x].to)
           tag == IF heap[x].k = "av" THEN "ARRAY" ELSE "HASH"
           ref == IF heap[x].k = "av" THEN "ARRAYREF" ELSE "HASHREF"
<1>0. IInv /\ ctl = "redo" /\ IsContainer(heap[x])
  BY DEF Sound, DumpContainer, FirstVisit
<1>1. /\ out' = IF Inlined(x) THEN Append(SubSeq(out, 1, Len(out) - 1), T(ref, n, ""))
                ELSE Append(out, T(tag, n, ""))
      /\ todo' = Children(x) \o todo /\ weak_seenhash' = NoteWeak(x) /\ ctl' = "next"
      /\ ref_seenhash' = RememberRef(x) /\ heap' = heap /\ opt' = opt /\ cur' = cur
      /\ str_seenhash' = str_seenhash /\ string_deduper_hv' = string_deduper_hv
  BY DEF DumpContainer, FirstVisit
<1>2. /\ NoteWeak(x) \in [Node -> Nat \cup {Absent}] /\ WeakensOK(out, NoteWeak(x)) /\ x \in Node
  BY <1>0, NoteSound
<1>3. /\ Plain(todo) /\ cur \in Local /\ out \in Seq(Tok) /\ Len(out) \in Nat /\ Here = Len(out) + 1
      /\ ref_seenhash \in [Node -> Nat] /\ RefsOK(out, ref_seenhash)
      /\ str_seenhash \in [StrPtr -> Nat] /\ string_deduper_hv \in [Strings -> Nat]
      /\ StringsOK(out, str_seenhash, string_deduper_hv) /\ Built
      /\ \A y \in Node : ref_seenhash[y] # 0 => Named(str_seenhash, y)
      /\ Unfinished
  BY <1>0, PassFacts DEF IsContainer
<1>4. Named(str_seenhash, x)
  BY <1>3 DEF Unfinished
<1>5. Plain(todo')
  BY <1>0, <1>1, <1>2, <1>3, PlainChildren, PlainConcat
<1>6. n \in Nat
  BY <1>2, <1>3, NodeFacts
<1>7. ASSUME NEW k, Writes(out, out', k), ref_seenhash' \in [Node -> Nat], RefsOK(out', ref_seenhash'),
             StringsOK(out', str_seenhash, string_deduper_hv),
             \A y \in Node : y # x => ref_seenhash'[y] = ref_seenhash[y]
      PROVE  Sound'
  <2>1. \A y \in Node : ref_seenhash'[y] # 0 => Named(str_seenhash', y)
    BY <1>1, <1>3, <1>4, <1>7
  <2>2. ctl # "done" /\ ctl' = "next" /\ cur' \in Local
    BY <1>0, <1>1, <1>3
  <2>3. IInv' /\ (AllResolve(out) => AllResolve(out'))
    BY <1>0, <1>1, <1>2, <1>3, <1>5, <1>7, <2>1, <2>2, PassSound
  <2> QED
    BY <2>3 DEF Sound
<1>8. CASE Inlined(x)
  <2> DEFINE t == T(ref, n, "")
  <2>1. t \in Tok /\ t.tag \in {"ARRAYREF", "HASHREF"}
    <3> HIDE DEF n
    <3> QED
      BY <1>6, StringsAssumption DEF T, Tok, Tags
  <2>2. out' = Append(SubSeq(out, 1, Len(out) - 1), t)
    BY <1>1, <1>8
  <2>3. ref_seenhash' = ref_seenhash
    <3>1. ~(refcount(x) > 1)
      BY <1>8 DEF Inlined
    <3> QED
      BY <1>1, <3>1 DEF RememberRef
  <2> HIDE DEF t
  <2>4. /\ Writes(out, out', Len(out) - 1) /\ RefsOK(out', ref_seenhash)
        /\ StringsOK(out', str_seenhash, string_deduper_hv)
    BY <1>0, <1>3, <2>1, <2>2, LastReplaced
  <2> QED
    BY <1>3, <1>7, <2>3, <2>4
<1>9. CASE ~Inlined(x)
  <2> DEFINE t == T(tag, n, "")
  <2>1. t \in Tok /\ t.tag = tag
    <3> HIDE DEF n
    <3> QED
      BY <1>6, StringsAssumption DEF T, Tok, Tags
  <2>2. out' = Append(out, t)
    BY <1>1, <1>9
  <2>3. t.tag \in TagsOf(x) /\ t.tag \in {"ARRAY", "HASH"}
    BY <1>0, <1>2, <2>1, TagsFacts DEF IsContainer
  <2> HIDE DEF t
  <2>4. Adds(out, out', {t.tag})
    BY <1>3, <2>1, <2>2, <2>3, AddsPlainTag
  <2>5. Keeps(out, out', Len(out)) /\ Len(out') >= Here /\ out'[Here].tag \in TagsOf(x)
    BY <1>3, <2>3, <2>4 DEF Adds
  <2>6. /\ RememberRef(x) \in [Node -> Nat] /\ RefsOK(out', RememberRef(x))
        /\ \A y \in Node : y # x => RememberRef(x)[y] = ref_seenhash[y]
    BY <1>0, <2>5, RememberSound
  <2>7. Writes(out, out', Len(out)) /\ StringsOK(out', str_seenhash, string_deduper_hv)
    BY <1>3, <2>4, AddsKept, StringsKept, AddsWrites
  <2> QED
    BY <1>1, <1>7, <2>6, <2>7
<1> QED
  BY <1>8, <1>9

LEMMA UnsupportedSound == ASSUME Sound, DumpUnsupported PROVE Sound'
<1> DEFINE x == cur.src
<1>0. IInv /\ ctl = "redo" /\ heap[x].k = "code"
  BY DEF Sound, DumpUnsupported, FirstVisit
<1>1. /\ weak_seenhash' = NoteWeak(x) /\ heap' = heap /\ opt' = opt /\ todo' = todo /\ cur' = cur
      /\ str_seenhash' = str_seenhash /\ string_deduper_hv' = string_deduper_hv
  BY DEF DumpUnsupported, FirstVisit
<1>2. CASE opt.unknown = "croak"
  <2>1. ctl' = "croak" /\ ref_seenhash' = RememberRef(x) /\ out' = out
    BY <1>2 DEF DumpUnsupported
  <2> QED
    BY <1>0, <1>1, <2>1, CroakSound
<1>3. CASE opt.unknown # "croak"
  <2> DEFINE t == IF opt.unknown = "undef" THEN T("UNDEF", 0, "") ELSE T("STR", 0, heap[x].v)
             rs == [ref_seenhash EXCEPT ![x] = 0]
  <2>1. /\ ctl' = "next" /\ ref_seenhash' = rs
        /\ out' = Append(SubSeq(out, 1, cur.ref_rewrite_pos - 1), t)
    BY <1>3 DEF DumpUnsupported, UnknownForgotten
  <2>2. /\ NoteWeak(x) \in [Node -> Nat \cup {Absent}] /\ WeakensOK(out, NoteWeak(x)) /\ x \in Node
    BY <1>0, NoteSound
  <2>3. /\ Plain(todo) /\ cur \in Local /\ out \in Seq(Tok) /\ Len(out) \in Nat
        /\ ref_seenhash \in [Node -> Nat] /\ RefsOK(out, ref_seenhash)
        /\ str_seenhash \in [StrPtr -> Nat] /\ string_deduper_hv \in [Strings -> Nat] /\ Built
        /\ \A y \in Node : ref_seenhash[y] # 0 => Named(str_seenhash, y)
        /\ Unfinished
    BY <1>0, PassFacts
  <2>4. cur.ref_rewrite_pos = Len(out)
    BY <1>0, <2>3 DEF Unfinished, IsContainer
  <2>5. t \in Tok /\ t.tag \in {"UNDEF", "STR"}
    <3>1. heap[x].v \in Strings
      BY <2>2, <2>3, NodeFacts
    <3> QED
      BY <3>1, StringsAssumption DEF T, Tok, Tags
  <2>6. /\ rs \in [Node -> Nat] /\ rs[x] = 0 /\ \A y \in Node : y # x => rs[y] = ref_seenhash[y]
    BY <2>2, <2>3
  <2> HIDE DEF t, rs
  <2>7. RefsOK(out, rs)
    BY <2>3, <2>6 DEF RefsOK
  <2>8. /\ Writes(out, out', Len(out) - 1) /\ RefsOK(out', rs)
        /\ StringsOK(out', str_seenhash, string_deduper_hv)
    BY <1>0, <2>1, <2>3, <2>4, <2>5, <2>6, <2>7, LastReplaced
  <2>9. \A y \in Node : ref_seenhash'[y] # 0 => Named(str_seenhash', y)
    BY <1>1, <2>1, <2>3, <2>6
  <2>10. ctl # "done" /\ cur' \in Local /\ Plain(todo')
    BY <1>0, <1>1, <2>3
  <2>11. IInv' /\ (AllResolve(out) => AllResolve(out'))
    BY <1>0, <1>1, <2>1, <2>2, <2>3, <2>6, <2>8, <2>9, <2>10, PassSound
  <2> QED
    BY <2>11 DEF Sound
<1> QED
  BY <1>2, <1>3

LEMMA ReferenceCroakSound == ASSUME Sound, DumpReferenceCroak PROVE Sound'
<1>1. /\ ctl = "redo" /\ ctl' = "croak" /\ heap[cur.src].k = "rv"
      /\ ref_seenhash' = RememberRef(cur.src) /\ weak_seenhash' = NoteWeak(cur.src)
      /\ UNCHANGED <<heap, opt, out, todo, cur, str_seenhash, string_deduper_hv>>
  BY DEF DumpReferenceCroak, FirstVisit
<1> QED
  BY <1>1, CroakSound

LEMMA TokConcat ==
  ASSUME NEW a \in Seq(Tok), NEW b \in Seq(Tok)
  PROVE  /\ a \o b \in Seq(Tok) /\ Len(a \o b) = Len(a) + Len(b) /\ Len(a) \in Nat /\ Len(b) \in Nat
         /\ \A i \in 1 .. Len(a) : (a \o b)[i] = a[i]
         /\ \A i \in 1 .. Len(b) : (a \o b)[Len(a) + i] = b[i]
OBVIOUS

\* The parts a, b and t of what is written for a reference, behind o.
Parts(o, a, b, t, p) ==
  /\ Keeps(o, p, Len(o)) /\ Len(p) = Len(o) + Len(a) + Len(b) + 1
  /\ \A i \in 1 .. Len(o) : p[i] = o[i]
  /\ \A i \in 1 .. Len(a) : p[Len(o) + i] = a[i]
  /\ \A i \in 1 .. Len(b) : p[Len(o) + Len(a) + i] = b[i]
  /\ p[Len(o) + Len(a) + Len(b) + 1] = t

LEMMA ReferenceParts ==
  ASSUME NEW o \in Seq(Tok), NEW a \in Seq(Tok), NEW b \in Seq(Tok), NEW t \in Tok
  PROVE  Parts(o, a, b, t, o \o a \o b \o <<t>>)
<1> DEFINE p1 == o \o a
           p2 == p1 \o b
           p == p2 \o <<t>>
<1>1. /\ p1 \in Seq(Tok) /\ Len(p1) = Len(o) + Len(a) /\ Len(o) \in Nat /\ Len(a) \in Nat
      /\ \A i \in 1 .. Len(o) : p1[i] = o[i]
      /\ \A i \in 1 .. Len(a) : p1[Len(o) + i] = a[i]
  BY TokConcat
<1> HIDE DEF p1
<1>2. /\ p2 \in Seq(Tok) /\ Len(p2) = Len(p1) + Len(b) /\ Len(b) \in Nat
      /\ \A i \in 1 .. Len(p1) : p2[i] = p1[i]
      /\ \A i \in 1 .. Len(b) : p2[Len(p1) + i] = b[i]
  BY <1>1, TokConcat
<1> HIDE DEF p2
<1>3. /\ p \in Seq(Tok) /\ Len(p) = Len(p2) + 1
      /\ \A i \in 1 .. Len(p2) : p[i] = p2[i]
      /\ p[Len(p2) + 1] = t
  BY <1>2
<1> HIDE DEF p
<1>4. \A i \in 1 .. Len(o) : p[i] = o[i]
  BY <1>1, <1>2, <1>3
<1>5. Keeps(o, p, Len(o))
  BY <1>1, <1>2, <1>3, <1>4 DEF Keeps
<1>6. ASSUME NEW i \in 1 .. Len(a) PROVE p[Len(o) + i] = a[i]
  <2>1. Len(o) + i \in 1 .. Len(p1) /\ Len(o) + i \in 1 .. Len(p2)
    BY <1>1, <1>2
  <2> QED
    BY <1>1, <1>2, <1>3, <2>1
<1>7. \A i \in 1 .. Len(b) : p[Len(o) + Len(a) + i] = b[i]
  BY <1>1, <1>2, <1>3
<1>8. Len(p) = Len(o) + Len(a) + Len(b) + 1 /\ p[Len(o) + Len(a) + Len(b) + 1] = t
  BY <1>1, <1>2, <1>3
<1>9. Parts(o, a, b, t, p)
  BY <1>4, <1>5, <1>6, <1>7, <1>8 DEF Parts
<1> QED
  BY <1>9 DEF p, p2, p1

\* srl_dump_classname writes nothing, an OBJECTV, or OBJECT and the name.
LEMMA ClassTokensFacts ==
  ASSUME IInv, NEW x \in Node
  PROVE  LET ct == ClassTokens(x)
             c == heap[x].class
             ofs == str_seenhash[Stash(c)]
         IN  /\ ct \in Seq(Tok) /\ Len(ct) \in 0 .. 2 /\ c \in Strings
             /\ WantsClass(x) <=> Len(ct) # 0
             /\ Len(ct) = 1 => ofs # 0 /\ ct[1].tag = "OBJECTV" /\ ct[1].n = ofs
             /\ Len(ct) = 2 => /\ ofs = 0 /\ ct[1].tag = "OBJECT"
                               /\ ct[2].tag = "STR" /\ ct[2].s = c
<1> DEFINE ct == ClassTokens(x)
           c == heap[x].class
           ofs == str_seenhash[Stash(c)]
           tv == T("OBJECTV", ofs, "")
           to == T("OBJECT", 0, "")
           ts == T("STR", 0, c)
<1>1. c \in Strings
  BY NodeFacts DEF IInv
<1>2. Stash(c) \in StrPtr
  BY <1>1 DEF Stash, StrPtr
<1>3. ofs \in Nat
  BY <1>2 DEF IInv, Types
<1>4. \/ ~WantsClass(x) /\ ct = <<>>
      \/ WantsClass(x) /\ ofs # 0 /\ ct = <<tv>>
      \/ WantsClass(x) /\ ofs = 0 /\ ct = <<to, ts>>
  BY DEF ClassTokens
<1> HIDE DEF ct, ofs, c
<1>5. /\ tv \in Tok /\ tv.tag = "OBJECTV" /\ tv.n = ofs
      /\ to \in Tok /\ to.tag = "OBJECT"
      /\ ts \in Tok /\ ts.tag = "STR" /\ ts.s = c
  <2>1. tv \in Tok /\ tv.tag = "OBJECTV" /\ tv.n = ofs
    BY <1>3, StringsAssumption DEF T, Tok, Tags
  <2>2. to \in Tok /\ to.tag = "OBJECT"
    BY StringsAssumption DEF T, Tok, Tags
  <2>3. ts \in Tok /\ ts.tag = "STR" /\ ts.s = c
    BY <1>1 DEF T, Tok, Tags
  <2> QED
    BY <2>1, <2>2, <2>3
<1> HIDE DEF tv, to, ts
<1>6. CASE ~WantsClass(x) /\ ct = <<>>
  BY <1>1, <1>6 DEF ct, c
<1>7. CASE WantsClass(x) /\ ofs # 0 /\ ct = <<tv>>
  <2>1. ct \in Seq(Tok) /\ Len(ct) = 1 /\ ct[1] = tv
    BY <1>5, <1>7
  <2> QED
    BY <1>1, <1>5, <1>7, <2>1 DEF ct, c, ofs
<1>8. CASE WantsClass(x) /\ ofs = 0 /\ ct = <<to, ts>>
  <2>1. ct \in Seq(Tok) /\ Len(ct) = 2 /\ ct[1] = to /\ ct[2] = ts
    BY <1>5, <1>8
  <2> QED
    BY <1>1, <1>5, <1>8, <2>1 DEF ct, c, ofs
<1> QED
  BY <1>4, <1>6, <1>7, <1>8

\* The table entry made for a class is the offset of its name, and with it
\* every class that had a name still has one.
LEMMA ClassSound ==
  ASSUME IInv, NEW x \in Node, NEW p, Keeps(out, p, Len(out)), NEW at \in Nat, at > Len(out),
         at + Len(ClassTokens(x)) <= Len(p),
         \A i \in 1 .. Len(ClassTokens(x)) : p[at + i - 1] = ClassTokens(x)[i]
  PROVE  LET ss == ClassRemembered(x, at, at + Len(ClassTokens(x)))
         IN  /\ ss \in [StrPtr -> Nat] /\ StringsOK(p, ss, string_deduper_hv)
             /\ \A y \in Node : Named(str_seenhash, y) => Named(ss, y)
             /\ Named(ss, x)
             /\ \A i \in at .. at + Len(ClassTokens(x)) - 1 : Resolves(p, i)
<1> DEFINE ct == ClassTokens(x)
           c == heap[x].class
           st == Stash(c)
           ofs == str_seenhash[st]
           sv == <<"sv", x>>
           after == at + Len(ct)
           ss == ClassRemembered(x, at, after)
<1>1. /\ ct \in Seq(Tok) /\ Len(ct) \in 0 .. 2 /\ c \in Strings
      /\ WantsClass(x) <=> Len(ct) # 0
      /\ Len(ct) = 1 => ofs # 0 /\ ct[1].tag = "OBJECTV" /\ ct[1].n = ofs
      /\ Len(ct) = 2 => /\ ofs = 0 /\ ct[1].tag = "OBJECT"
                        /\ ct[2].tag = "STR" /\ ct[2].s = c
  BY ClassTokensFacts
<1>2. /\ str_seenhash \in [StrPtr -> Nat] /\ out \in Seq(Tok) /\ Len(out) \in Nat /\ Built
      /\ StringsOK(out, str_seenhash, string_deduper_hv) /\ p \in Seq(Tok) /\ Len(p) \in Nat
  BY DEF IInv, Types, Keeps
<1>3. /\ st \in StrPtr /\ sv \in StrPtr /\ st # sv
      /\ \A s \in Strings : /\ Stash(s) \in StrPtr /\ Stash(s) # sv
                            /\ SharedKey(s) \in StrPtr /\ SharedKey(s) # sv /\ SharedKey(s) # st
                            /\ Stash(s) = st => s = c
  BY <1>1 DEF StrPtr, Stash, SharedKey
<1>4. StringsOK(p, str_seenhash, string_deduper_hv)
  <2>1. Spares(out, Len(out), "STR")
    BY <1>2 DEF Spares
  <2> QED
    BY <1>2, <2>1, StringsKept
<1> DEFINE named == IF ofs = 0 THEN [str_seenhash EXCEPT ![st] = at + 1] ELSE str_seenhash
<1>5. ss = CASE ~WantsClass(x) -> str_seenhash
             [] WantsClass(x) /\ IsContainer(heap[x]) -> named
             [] WantsClass(x) /\ ~IsContainer(heap[x]) -> [named EXCEPT ![sv] = after]
  BY DEF ClassRemembered
<1> HIDE DEF ct, st, sv, ofs, ss, c
<1>6. after \in Nat /\ at + 1 \in Nat
  BY <1>1
<1>7. named \in [StrPtr -> Nat] /\ \A q \in StrPtr : q # st => named[q] = str_seenhash[q]
  BY <1>2, <1>3, <1>6
<1>8. named[st] # 0 /\ named[st] = IF ofs = 0 THEN at + 1 ELSE str_seenhash[st]
  BY <1>2, <1>3 DEF ofs
<1> HIDE DEF named, after
<1>9. /\ ss \in [StrPtr -> Nat]
      /\ \A q \in StrPtr : q # st /\ q # sv => ss[q] = str_seenhash[q]
      /\ ss[st] = IF WantsClass(x) THEN named[st] ELSE str_seenhash[st]
  BY <1>2, <1>3, <1>5, <1>6, <1>7
<1>10. ASSUME WantsClass(x), ofs = 0
       PROVE  StringAt(p, at + 1, c) /\ at + 1 > 1 /\ p[at].tag = "OBJECT"
  <2>1. Len(ct) = 2
    BY <1>1, <1>2, <1>10
  <2>2. p[at + 1 - 1] = ct[1] /\ p[at + 2 - 1] = ct[2]
    BY <2>1 DEF ct
  <2>3. at + 1 - 1 = at /\ at + 2 - 1 = at + 1 /\ at + 1 \in 1 .. Len(p) /\ at + 1 > 1
    BY <1>2, <2>1 DEF ct
  <2> QED
    BY <1>1, <2>1, <2>2, <2>3 DEF StringAt
<1>11. StringsOK(p, ss, string_deduper_hv)
  <2> SUFFICES ASSUME NEW s \in Strings
               PROVE  /\ ss[Stash(s)] # 0 => /\ StringAt(p, ss[Stash(s)], s)
                                             /\ ss[Stash(s)] > 1 /\ p[ss[Stash(s)] - 1].tag = "OBJECT"
                      /\ ss[SharedKey(s)] # 0 => StringAt(p, ss[SharedKey(s)], s)
                      /\ string_deduper_hv[s] # 0 => StringAt(p, string_deduper_hv[s], s)
    BY DEF StringsOK
  <2>1. ss[SharedKey(s)] = str_seenhash[SharedKey(s)]
    BY <1>3, <1>9
  <2>2. CASE Stash(s) = st /\ WantsClass(x) /\ ofs = 0
    <3>1. s = c /\ ss[Stash(s)] = at + 1 /\ at + 1 - 1 = at
      BY <1>3, <1>8, <1>9, <2>2
    <3> QED
      BY <1>4, <1>10, <2>1, <2>2, <3>1 DEF StringsOK
  <2>3. CASE ~(Stash(s) = st /\ WantsClass(x) /\ ofs = 0)
    <3>1. ss[Stash(s)] = str_seenhash[Stash(s)]
      BY <1>3, <1>8, <1>9, <2>3
    <3> QED
      BY <1>4, <2>1, <3>1 DEF StringsOK
  <2> QED
    BY <2>2, <2>3
<1>12. ASSUME NEW y \in Node, Named(str_seenhash, y) PROVE Named(ss, y)
  <2> SUFFICES ASSUME IsContainer(heap[y]), heap[y].class # "", opt.bless = "yes"
               PROVE  ss[Stash(heap[y].class)] # 0
    BY DEF Named
  <2>1. heap[y].class \in Strings
    BY <1>2, NodeFacts
  <2>2. str_seenhash[Stash(heap[y].class)] # 0
    BY <1>12 DEF Named
  <2>3. CASE Stash(heap[y].class) = st
    BY <1>8, <1>9, <2>2, <2>3
  <2>4. CASE Stash(heap[y].class) # st
    BY <1>3, <1>9, <2>1, <2>2, <2>4
  <2> QED
    BY <2>3, <2>4
<1>13. Named(ss, x)
  <2> SUFFICES ASSUME IsContainer(heap[x]), heap[x].class # "", opt.bless = "yes"
               PROVE  ss[st] # 0
    BY DEF Named, st, c
  <2>1. WantsClass(x)
    BY DEF WantsClass, IsContainer
  <2> QED
    BY <1>8, <1>9, <2>1
<1>14. ASSUME NEW i \in at .. after - 1 PROVE Resolves(p, i)
  <2>1. i \in Nat /\ i - at + 1 \in 1 .. Len(ct) /\ at + (i - at + 1) - 1 = i
    BY <1>1, <1>6, <1>14 DEF after
  <2>2. p[i] = ct[i - at + 1]
    BY <2>1 DEF ct
  <2>3. CASE Len(ct) = 1
    <3>1. i = at /\ p[i].tag = "OBJECTV" /\ p[i].n = ofs /\ ofs # 0
      <4>1. i - at + 1 = 1 /\ i = at
        BY <2>1, <2>3
      <4> QED
        BY <1>1, <2>2, <2>3, <4>1
    <3>2. /\ StringAt(out, ofs, c) /\ ofs > 1 /\ out[ofs - 1].tag = "OBJECT"
      BY <1>1, <1>2, <3>1 DEF StringsOK, ofs, st
    <3>3. ofs \in 1 .. Len(out) /\ ofs - 1 \in 1 .. Len(out) /\ out[ofs].tag = "STR"
      BY <1>2, <3>2 DEF StringAt
    <3>4. p[ofs].tag = "STR" /\ p[ofs - 1].tag = "OBJECT"
      BY <3>2, <3>3 DEF Keeps
    <3>5. ofs \in 2 .. i - 1
      BY <1>2, <3>1, <3>2, <3>3
    <3> QED
      BY <3>1, <3>4, <3>5 DEF Resolves
  <2>4. CASE Len(ct) = 2
    <3>1. i - at + 1 = 1 \/ i - at + 1 = 2
      BY <2>1, <2>4
    <3>2. p[i].tag \in {"OBJECT", "STR"}
      BY <1>1, <2>2, <2>4, <3>1
    <3> QED
      BY <3>2 DEF Resolves
  <2>5. Len(ct) # 0
    BY <2>1
  <2> QED
    BY <1>1, <2>3, <2>4, <2>5
<1> QED
  BY <1>9, <1>11, <1>12, <1>13, <1>14 DEF ss, after, ct

LEMMA ReferenceSound == ASSUME Sound, DumpReference PROVE Sound'
<1> DEFINE r == cur.src
           x == Head(heap[r].to)
           t == T("REFN", 0, "")
           tw == T("WEAKEN", 0, "")
           weaken == IF heap[r].weak THEN <<tw>> ELSE <<>>
           ct == ClassTokens(x)
           w == Len(weaken)
           c == Len(ct)
           n == Len(out)
           at == Here + w
           after == at + c
<1>1. /\ IInv /\ ctl = "redo" /\ ctl' = ctl /\ heap[r].k = "rv" /\ heap' = heap /\ opt' = opt /\ todo' = todo
      /\ out' = out \o weaken \o ct \o <<t>>
      /\ cur' = [src |-> x, weakref_ofs |-> WeakrefOfs(r),
                 ref_rewrite_pos |-> IF IsContainer(heap[x]) THEN at ELSE after]
      /\ str_seenhash' = ClassRemembered(x, at, after)
      /\ ref_seenhash' = RememberRef(r) /\ weak_seenhash' = NoteWeak(r)
      /\ string_deduper_hv' = string_deduper_hv
  BY DEF Sound, DumpReference, FirstVisit
<1>2. /\ Plain(todo) /\ cur \in Local /\ r \in Node /\ out \in Seq(Tok) /\ n \in Nat
      /\ Here = n + 1
      /\ ref_seenhash \in [Node -> Nat] /\ RefsOK(out, ref_seenhash)
      /\ str_seenhash \in [StrPtr -> Nat] /\ string_deduper_hv \in [Strings -> Nat]
      /\ StringsOK(out, str_seenhash, string_deduper_hv) /\ Built
      /\ \A y \in Node : ref_seenhash[y] # 0 => Named(str_seenhash, y)
  BY <1>1, PassFacts
<1>3. NoteWeak(r) \in [Node -> Nat \cup {Absent}] /\ WeakensOK(out, NoteWeak(r))
  BY <1>1, NoteSound
<1>4. x \in Node
  BY <1>1, <1>2, NodeFacts
<1>5. t \in Tok /\ tw \in Tok /\ t.tag = "REFN" /\ tw.tag = "WEAKEN"
  BY StringsAssumption DEF T, Tok, Tags
<1> HIDE DEF x, t, tw, r, n
<1>6. /\ weaken \in Seq(Tok) /\ w = (IF heap[r].weak THEN 1 ELSE 0)
      /\ heap[r].weak => weaken[1] = tw
  BY <1>5
<1>7. /\ ct \in Seq(Tok) /\ c \in 0 .. 2
      /\ WantsClass(x) <=> c # 0
      /\ c = 1 => ct[1].tag = "OBJECTV"
      /\ c = 2 => str_seenhash[Stash(heap[x].class)] = 0 /\ ct[1].tag = "OBJECT"
  BY <1>1, <1>4, ClassTokensFacts
<1> HIDE DEF ct, weaken
<1>8. /\ Keeps(out, out', n) /\ Len(out') = n + w + c + 1
      /\ \A i \in 1 .. w : out'[n + i] = weaken[i]
      /\ \A i \in 1 .. c : out'[n + w + i] = ct[i]
      /\ out'[n + w + c + 1] = t
  <2>1. out' = out \o weaken \o ct \o <<t>> /\ out \in Seq(Tok) /\ weaken \in Seq(Tok) /\ ct \in Seq(Tok) /\ t \in Tok
    BY <1>1, <1>2, <1>5, <1>6, <1>7
  <2>2. Parts(out, weaken, ct, t, out')
    BY ONLY <2>1, ReferenceParts
  <2> QED
    BY ONLY <2>2 DEF Parts, n
<1> HIDE DEF w, c
<1>9. /\ w \in 0 .. 1 /\ at \in Nat /\ after \in Nat /\ at > n /\ after = n + w + c + 1 /\ at = n + w + 1
      /\ Here \in Nat /\ Here <= at /\ at <= after /\ Len(out') = after
  <2>1. w \in 0 .. 1 /\ c \in 0 .. 2 /\ n \in Nat /\ Here = n + 1 /\ Len(out') = n + w + c + 1
    BY <1>2, <1>6, <1>7, <1>8
  <2> QED
    BY ONLY <2>1
<1>10. /\ out'[after] = t
       /\ heap[r].weak => out'[Here] = tw /\ Here < at
  <2>1. out'[after] = t
    BY <1>8, <1>9
  <2>2. ASSUME heap[r].weak PROVE out'[Here] = tw /\ Here < at
    <3>1. w = 1 /\ weaken[1] = tw /\ Here = n + 1 /\ Here < at
      BY <1>2, <1>6, <1>9, <2>2
    <3>2. out'[n + 1] = weaken[1]
      BY <1>8, <3>1
    <3> QED
      BY <3>1, <3>2
  <2> QED
    BY <2>1, <2>2
<1>11. \A i \in 1 .. Len(ClassTokens(x)) : out'[at + i - 1] = ClassTokens(x)[i]
  <2> SUFFICES ASSUME NEW i \in 1 .. c PROVE out'[at + i - 1] = ct[i]
    BY DEF ct, c
  <2>1. at + i - 1 = n + w + i
    BY <1>2, <1>7, <1>9
  <2> QED
    BY <1>8, <2>1
<1> HIDE DEF at, after
<1>12. /\ str_seenhash' \in [StrPtr -> Nat] /\ StringsOK(out', str_seenhash', string_deduper_hv)
       /\ \A y \in Node : Named(str_seenhash, y) => Named(str_seenhash', y)
       /\ Named(str_seenhash', x)
       /\ \A i \in at .. after - 1 : Resolves(out', i)
  <2>1. /\ at > Len(out) /\ at + Len(ClassTokens(x)) <= Len(out') /\ after = at + Len(ClassTokens(x))
        /\ Keeps(out, out', Len(out)) /\ at \in Nat
    BY <1>2, <1>7, <1>8, <1>9 DEF ct, c, after, n
  <2>2. IInv /\ x \in Node /\ str_seenhash' = ClassRemembered(x, at, at + Len(ClassTokens(x)))
    BY <1>1, <1>4, <2>1
  <2>3. \A i \in at .. at + Len(ClassTokens(x)) - 1 : Resolves(out', i)
    BY ONLY <1>11, <2>1, <2>2, ClassSound
  <2>4. /\ str_seenhash' \in [StrPtr -> Nat] /\ StringsOK(out', str_seenhash', string_deduper_hv)
        /\ \A y \in Node : Named(str_seenhash, y) => Named(str_seenhash', y)
        /\ Named(str_seenhash', x)
    BY ONLY <1>11, <2>1, <2>2, ClassSound
  <2> QED
    BY <2>1, <2>3, <2>4
<1>13. Writes(out, out', Len(out))
  <2>1. \A i \in Len(out) + 1 .. Len(out') : i \in at .. after - 1 \/ i = after \/ (i = Here /\ Here < at)
    BY <1>2, <1>9 DEF n
  <2>2. Resolves(out', after)
    BY <1>5, <1>10 DEF Resolves
  <2>3. Here < at => Resolves(out', Here)
    <3>1. Here < at => heap[r].weak
      BY <1>2, <1>6, <1>9
    <3> QED
      BY <1>5, <1>10, <3>1 DEF Resolves
  <2>4. Spares(out, Len(out), "STR") /\ Spares(out, Len(out), "WEAKEN")
    BY <1>2 DEF Spares
  <2> QED
    BY <1>8, <1>12, <2>1, <2>2, <2>3, <2>4 DEF Writes, n
<1>14. out'[Here].tag \in TagsOf(r)
  <2>1. TagsOf(r) = RefTags
    BY <1>1, <1>2, TagsFacts
  <2>2. CASE heap[r].weak
    BY <1>5, <1>10, <2>1, <2>2 DEF RefTags
  <2>3. CASE ~heap[r].weak /\ c = 0
    <3>1. Here = after
      BY <1>2, <1>6, <1>9, <2>3
    <3> QED
      BY <1>5, <1>10, <2>1, <3>1 DEF RefTags
  <2>4. CASE ~heap[r].weak /\ c # 0
    <3>1. Here = n + w + 1 /\ 1 \in 1 .. c
      BY <1>2, <1>6, <1>7, <1>9, <2>4
    <3>2. out'[Here] = ct[1]
      BY <1>8, <3>1
    <3>3. c = 1 \/ c = 2
      BY <1>7, <2>4
    <3> QED
      BY <1>7, <2>1, <3>2, <3>3 DEF RefTags
  <2> QED
    BY <2>2, <2>3, <2>4
<1>15. /\ RememberRef(r) \in [Node -> Nat] /\ RefsOK(out', RememberRef(r))
       /\ \A y \in Node : y # r => RememberRef(r)[y] = ref_seenhash[y]
       /\ RememberRef(r)[r] \in {ref_seenhash[r], Here}
  <2>1. Keeps(out, out', Len(out)) /\ Len(out') >= Here /\ out'[Here].tag \in TagsOf(cur.src)
    BY <1>2, <1>8, <1>9, <1>14 DEF r, n
  <2> QED
    BY <1>1, <2>1, RememberSound DEF r
<1>16. ASSUME NEW y \in Node, ref_seenhash'[y] # 0 PROVE Named(str_seenhash', y)
  <2>1. CASE y = r
    BY <1>1, <2>1 DEF Named, IsContainer
  <2>2. CASE y # r
    BY <1>1, <1>2, <1>12, <1>15, <1>16, <2>2
  <2> QED
    BY <2>1, <2>2
<1>17. /\ cur'.src = x /\ cur'.weakref_ofs = (IF heap[r].weak THEN Here ELSE 0)
       /\ cur'.ref_rewrite_pos = (IF IsContainer(heap[x]) THEN at ELSE after)
       /\ cur' \in Local
  BY <1>1, <1>4, <1>9 DEF WeakrefOfs, Local
<1>18. \A y \in Node : ref_seenhash'[y] \in Nat /\ ref_seenhash'[y] <= Here
  <2>1. \A y \in Node : ref_seenhash[y] \in Nat /\ ref_seenhash[y] <= n
    BY <1>2 DEF RefsOK, n
  <2>2. ref_seenhash' = RememberRef(r) /\ n \in Nat /\ Here = n + 1 /\ Here \in Nat
    BY <1>1, <1>2, <1>9
  <2> SUFFICES ASSUME NEW y \in Node PROVE ref_seenhash'[y] \in Nat /\ ref_seenhash'[y] <= Here
    OBVIOUS
  <2>3. ref_seenhash'[y] = ref_seenhash[y] \/ ref_seenhash'[y] = Here
    BY <1>15, <2>2
  <2> QED
    BY <2>1, <2>2, <2>3
<1>19. cur'.ref_rewrite_pos \in 1 .. after /\ at <= cur'.ref_rewrite_pos
  BY <1>2, <1>9, <1>17
<1>20. ASSUME IsContainer(heap[x]), c = 2 PROVE ref_seenhash'[x] = 0
  <2>1. x # r
    BY <1>1, <1>20 DEF IsContainer
  <2>2. WantsClass(x) /\ str_seenhash[Stash(heap[x].class)] = 0
    BY <1>7, <1>20
  <2>3. ~Named(str_seenhash, x)
    BY <1>20, <2>2 DEF Named, WantsClass
  <2> QED
    BY <1>1, <1>2, <1>4, <1>15, <2>1, <2>3
<1>21. ASSUME IsContainer(heap[x]), c = 1 PROVE out'[at].tag = "OBJECTV" /\ at = after - 1
  <2>1. at = n + w + 1 /\ 1 \in 1 .. c /\ at = after - 1
    BY <1>2, <1>9, <1>21
  <2> QED
    BY <1>7, <1>8, <1>21, <2>1
<1>22. Unfinished'
  <2> DEFINE pos == cur'.ref_rewrite_pos
  <2>1. /\ pos \in 1 .. Len(out') /\ out'[Len(out')].tag = "REFN"
    BY <1>5, <1>9, <1>10, <1>19
  <2>2. \/ pos = Len(out')
        \/ IsContainer(heap[x]) /\ pos = Len(out') - 1 /\ out'[pos].tag = "OBJECTV"
        \/ IsContainer(heap[x]) /\ pos = Len(out') - 2 /\ ref_seenhash'[x] = 0
    <3>1. CASE ~IsContainer(heap[x]) \/ c = 0
      BY <1>2, <1>9, <1>17, <3>1
    <3>2. CASE IsContainer(heap[x]) /\ c = 1
      BY <1>9, <1>17, <1>21, <3>2
    <3>3. CASE IsContainer(heap[x]) /\ c = 2
      BY <1>2, <1>9, <1>17, <1>20, <3>3
    <3> QED
      BY <1>7, <3>1, <3>2, <3>3
  <2>3. \A y \in Node : ref_seenhash'[y] <= pos
    BY <1>9, <1>18, <1>19
  <2>4. cur'.weakref_ofs # 0 => cur'.weakref_ofs < pos /\ out'[cur'.weakref_ofs].tag = "WEAKEN"
    BY <1>5, <1>9, <1>10, <1>17, <1>19
  <2>5. Named(str_seenhash', cur'.src)
    BY <1>12, <1>17
  <2> QED
    BY <1>1, <1>17, <2>1, <2>2, <2>3, <2>4, <2>5 DEF Unfinished, Named
<1>23. IInv' /\ (AllResolve(out) => AllResolve(out'))
  <2>1. ctl # "done" /\ ctl' \in {"next", "redo"} /\ Plain(todo') /\ cur'.ref_rewrite_pos # 0
    BY <1>1, <1>2, <1>19
  <2>2. StringsOK(out', str_seenhash', string_deduper_hv') /\ string_deduper_hv' \in [Strings -> Nat]
    BY <1>1, <1>2, <1>12
  <2> QED
    BY <1>1, <1>3, <1>12, <1>13, <1>15, <1>16, <1>17, <1>22, <2>1, <2>2, PassSound
<1> QED
  BY <1>23 DEF Sound

-----------------------------------------------------------------------------
(* srl_fixup_weakrefs *)

\* It changes only tags that are a WEAKEN, each into a PAD.
LEMMA FixupWrites ==
  ASSUME IInv, srl_fixup_weakrefs
  PROVE  /\ out' \in Seq(Tok) /\ Len(out') = Len(out) /\ Len(out) \in Nat
         /\ \A i \in 1 .. Len(out) :
              \/ out'[i] = out[i] /\ \A x \in Node : weak_seenhash[x] # i
              \/ /\ out'[i] = T("PAD", 0, "") /\ out[i].tag = "WEAKEN"
                 /\ \E x \in Node : weak_seenhash[x] = i
<1> DEFINE t == T("PAD", 0, "")
<1>1. /\ out \in Seq(Tok) /\ Len(out) \in Nat /\ DOMAIN out = 1 .. Len(out)
      /\ WeakensOK(out, weak_seenhash)
  <2>1. ctl # "done"
    BY DEF srl_fixup_weakrefs
  <2>2. out \in Seq(Tok) /\ WeakensOK(out, weak_seenhash)
    BY <2>1 DEF IInv, Types
  <2> QED
    BY <2>2
<1>2. out' = [i \in DOMAIN out |-> IF \E x \in Node : weak_seenhash[x] = i THEN t ELSE out[i]]
  BY DEF srl_fixup_weakrefs
<1>3. t \in Tok
  BY StringsAssumption DEF T, Tok, Tags
<1> HIDE DEF t
<1>4. \A i \in 1 .. Len(out) : out[i] \in Tok
  BY <1>1
<1>5. ASSUME NEW i \in 1 .. Len(out)
      PROVE  /\ out'[i] \in Tok
             /\ \/ out'[i] = out[i] /\ \A x \in Node : weak_seenhash[x] # i
                \/ /\ out'[i] = t /\ out[i].tag = "WEAKEN"
                   /\ \E x \in Node : weak_seenhash[x] = i
  <2>1. CASE \E x \in Node : weak_seenhash[x] = i
    <3>1. PICK x \in Node : weak_seenhash[x] = i
      BY <2>1
    <3>2. i > 0
      BY <1>1
    <3>3. out[i].tag = "WEAKEN"
      BY <1>1, <3>1, <3>2 DEF WeakensOK
    <3>4. out'[i] = t
      BY <1>1, <1>2, <2>1
    <3> QED
      BY <1>3, <2>1, <3>3, <3>4
  <2>2. CASE ~\E x \in Node : weak_seenhash[x] = i
    BY <1>1, <1>2, <1>4, <2>2
  <2> QED
    BY <2>1, <2>2
<1>6. out' = [i \in 1 .. Len(out) |-> out'[i]]
  BY <1>1, <1>2
<1>7. out' \in Seq(Tok) /\ Len(out') = Len(out)
  BY <1>1, <1>5, <1>6
<1> QED
  BY <1>1, <1>5, <1>7 DEF t

LEMMA FixupIInv == ASSUME IInv, srl_fixup_weakrefs PROVE IInv'
<1>1. /\ ctl = "next" /\ ctl' = "done"
      /\ UNCHANGED <<heap, opt, todo, cur, ref_seenhash, weak_seenhash, str_seenhash, string_deduper_hv>>
  BY DEF srl_fixup_weakrefs, seen
<1>2. /\ out' \in Seq(Tok) /\ Len(out') = Len(out) /\ Len(out) \in Nat
      /\ \A i \in 1 .. Len(out) : out'[i] = out[i] \/ (out'[i] = T("PAD", 0, "") /\ out[i].tag = "WEAKEN")
  BY FixupWrites
<1>3. T("PAD", 0, "").tag = "PAD"
  BY DEF T
<1>4. \A i \in 1 .. Len(out) : out'[i] = out[i] \/ (out'[i].tag = "PAD" /\ out[i].tag = "WEAKEN")
  BY <1>2, <1>3
<1>5. RefsOK(out', ref_seenhash)
  <2> SUFFICES ASSUME NEW x \in Node, ref_seenhash[x] # 0
               PROVE  ref_seenhash[x] \in 1 .. Len(out') /\ out'[ref_seenhash[x]].tag \in TagsOf(x)
    BY DEF RefsOK
  <2>1. ref_seenhash[x] \in 1 .. Len(out) /\ out[ref_seenhash[x]].tag \in TagsOf(x)
    BY <1>1 DEF IInv, RefsOK
  <2>2. "WEAKEN" \in TagsOf(x) => "PAD" \in TagsOf(x)
    BY TagsFacts DEF RefTags
  <2> QED
    BY <1>2, <1>4, <2>1, <2>2
<1>6. StringsOK(out', str_seenhash, string_deduper_hv)
  <2>1. ASSUME NEW ofs, NEW s, StringAt(out, ofs, s) PROVE StringAt(out', ofs, s)
    BY <1>2, <1>4, <2>1 DEF StringAt
  <2>2. ASSUME NEW s \in Strings, str_seenhash[Stash(s)] # 0
        PROVE  /\ StringAt(out', str_seenhash[Stash(s)], s)
               /\ str_seenhash[Stash(s)] > 1 /\ out'[str_seenhash[Stash(s)] - 1].tag = "OBJECT"
    <3> DEFINE ofs == str_seenhash[Stash(s)]
    <3>1. StringAt(out, ofs, s) /\ ofs > 1 /\ out[ofs - 1].tag = "OBJECT"
      BY <2>2 DEF IInv, StringsOK
    <3>2. ofs - 1 \in 1 .. Len(out)
      <4>1. ofs \in 1 .. Len(out) /\ ofs > 1 /\ Len(out) \in Nat
        BY <1>2, <3>1 DEF StringAt
      <4> QED
        BY ONLY <4>1
    <3> QED
      BY <1>4, <2>1, <3>1, <3>2
  <2>3. StringsOK(out, str_seenhash, string_deduper_hv)
    BY DEF IInv
  <2> QED
    BY <2>1, <2>2, <2>3 DEF StringsOK
<1>7. Built' /\ Types' /\ Plain(todo)'
  BY <1>1, <1>2 DEF IInv, Built, Types, Plain
<1>8. RefsOK(out, ref_seenhash)' /\ StringsOK(out, str_seenhash, string_deduper_hv)'
  BY <1>1, <1>5, <1>6 DEF RefsOK, TagsOf, StringsOK, StringAt
<1>9. \A x \in Node : ref_seenhash'[x] # 0 => Named(str_seenhash, x)'
  BY <1>1 DEF IInv, Named
<1> QED
  BY <1>1, <1>7, <1>8, <1>9 DEF IInv

\* A WEAKEN without track flag is nobody's target.
LEMMA FixupResolves ==
  ASSUME IInv, AllResolve(out), FixupFindsWeaken, srl_fixup_weakrefs PROVE AllResolve(out')
<1>0. Len(out) \in Nat
  BY FixupWrites
<1>1. /\ out' \in Seq(Tok) /\ Len(out') = Len(out) /\ Len(out) \in Nat
      /\ \A i \in 1 .. Len(out) :
           \/ out'[i] = out[i] /\ \A x \in Node : weak_seenhash[x] # i
           \/ /\ out'[i] = T("PAD", 0, "") /\ out[i].tag = "WEAKEN"
              /\ \E x \in Node : weak_seenhash[x] = i
  BY FixupWrites
<1>2. T("PAD", 0, "").tag = "PAD" /\ T("WEAKEN", 0, "").trk = FALSE
  BY DEF T
<1>3. ASSUME NEW i \in 1 .. Len(out)
      PROVE  \/ out'[i] = out[i]
             \/ out'[i].tag = "PAD" /\ out[i].tag = "WEAKEN" /\ ~out[i].trk
  <2>1. CASE \E x \in Node : weak_seenhash[x] = i
    <3>1. PICK x \in Node : weak_seenhash[x] = i
      BY <2>1
    <3>2. weak_seenhash[x] > 0
      BY <1>0, <3>1
    <3>3. out[i] = T("WEAKEN", 0, "")
      BY <3>1, <3>2 DEF FixupFindsWeaken, srl_fixup_weakrefs
    <3>4. ~out[i].trk
      BY <1>2, <3>3
    <3> QED
      BY <1>1, <1>2, <2>1, <3>4
  <2>2. CASE ~\E x \in Node : weak_seenhash[x] = i
    BY <1>1, <2>2
  <2> QED
    BY <2>1, <2>2
<1> SUFFICES ASSUME NEW i \in 1 .. Len(out) PROVE Resolves(out', i)
  BY <1>1 DEF AllResolve
<1>4. Resolves(out, i) /\ i \in Nat /\ i <= Len(out)
  BY <1>0 DEF AllResolve
<1>5. CASE out'[i].tag = "PAD"
  BY <1>5 DEF Resolves
<1>6. CASE out'[i] = out[i]
  <2>1. \A j \in 1 .. i : j \in 1 .. Len(out)
    BY <1>0, <1>4
  <2>2. CASE out[i].tag \in {"REFP", "ALIAS"}
    <3>1. out[i].n \in 1 .. i /\ out[out[i].n].trk /\ (out[i].tag = "ALIAS" => out[i].n < i)
      BY <1>4, <2>2 DEF Resolves
    <3>2. out'[out[i].n] = out[out[i].n]
      BY <1>3, <2>1, <3>1
    <3> QED
      BY <1>6, <2>2, <3>1, <3>2 DEF Resolves
  <2>3. CASE out[i].tag = "COPY"
    <3>1. out[i].n \in 1 .. i - 1 /\ out[out[i].n].tag = "STR"
      BY <1>4, <2>3 DEF Resolves
    <3>2. out[i].n \in 1 .. Len(out)
      BY <1>0, <1>4, <3>1
    <3>3. out'[out[i].n] = out[out[i].n]
      BY <1>3, <3>1, <3>2
    <3> QED
      BY <1>6, <2>3, <3>1, <3>3 DEF Resolves
  <2>4. CASE out[i].tag = "OBJECTV"
    <3>1. out[i].n \in 2 .. i - 1 /\ out[out[i].n].tag = "STR" /\ out[out[i].n - 1].tag = "OBJECT"
      BY <1>4, <2>4 DEF Resolves
    <3>2. out[i].n \in 1 .. Len(out) /\ out[i].n - 1 \in 1 .. Len(out)
      BY <1>0, <1>4, <3>1
    <3>3. out'[out[i].n] = out[out[i].n] /\ out'[out[i].n - 1] = out[out[i].n - 1]
      BY <1>3, <3>1, <3>2
    <3> QED
      BY <1>6, <2>4, <3>1, <3>3 DEF Resolves
  <2> QED
    BY <1>6, <2>2, <2>3, <2>4 DEF Resolves
<1> QED
  BY <1>3, <1>5, <1>6

-----------------------------------------------------------------------------
(* The theorems *)

\* Until the weak references are fixed up every offset in the body resolves.
Good == IInv /\ (ctl # "done" => AllResolve(out))

LEMMA InitGood == Init => Good
BY InitSound DEF Good, Sound

LEMMA NextGood == Good /\ [Next]_vars => Good'
<1> SUFFICES ASSUME Good, [Next]_vars PROVE Good'
  OBVIOUS
<1>1. ASSUME ctl # "done", Sound => Sound' PROVE Good'
  BY <1>1 DEF Good, Sound
<1>2. CASE Start
  BY <1>1, <1>2, StartSound DEF Start
<1>3. CASE DumpElementDirect
  BY <1>1, <1>3, ElementDirectSound DEF DumpElementDirect, NextIs
<1>4. CASE DumpElement
  BY <1>1, <1>4, ElementSound DEF DumpElement, NextIs
<1>5. CASE DumpReturn
  BY <1>1, <1>5, ReturnSound DEF DumpReturn, NextIs
<1>6. CASE srl_dump_hk
  BY <1>1, <1>6, KeySound DEF srl_dump_hk, NextIs
<1>7. CASE DumpKeyAsSv
  BY <1>1, <1>7, KeyAsSvSound DEF DumpKeyAsSv, NextIs
<1>8. CASE DumpSeenBefore
  BY <1>1, <1>8, SeenBeforeSound DEF DumpSeenBefore
<1>9. CASE DumpImmortal
  BY <1>1, <1>9, ImmortalSound DEF DumpImmortal
<1>10. CASE DumpScalar
  BY <1>1, <1>10, ScalarSound DEF DumpScalar, FirstVisit
<1>11. CASE DumpReference
  BY <1>1, <1>11, ReferenceSound DEF DumpReference, FirstVisit
<1>12. CASE DumpReferenceCroak
  BY <1>1, <1>12, ReferenceCroakSound DEF DumpReferenceCroak, FirstVisit
<1>13. CASE DumpContainer
  BY <1>1, <1>13, ContainerSound DEF DumpContainer, FirstVisit
<1>14. CASE DumpUnsupported
  BY <1>1, <1>14, UnsupportedSound DEF DumpUnsupported, FirstVisit
<1>15. CASE srl_fixup_weakrefs
  BY <1>15, FixupIInv DEF Good, srl_fixup_weakrefs
<1>16. CASE UNCHANGED vars
  <2>1. UNCHANGED <<heap, opt, out, todo, cur, ctl, ref_seenhash, weak_seenhash, str_seenhash,
                    string_deduper_hv>>
    BY <1>16 DEF vars, seen
  <2>2. Built' /\ Types' /\ Plain(todo)'
    BY <2>1 DEF Good, IInv, Built, Types, Plain
  <2>3. /\ RefsOK(out, ref_seenhash)' <=> RefsOK(out, ref_seenhash)
        /\ StringsOK(out, str_seenhash, string_deduper_hv)' <=> StringsOK(out, str_seenhash, string_deduper_hv)
        /\ WeakensOK(out, weak_seenhash)' <=> WeakensOK(out, weak_seenhash)
        /\ (\A x \in Node : ref_seenhash[x] # 0 => Named(str_seenhash, x))'
             <=> (\A x \in Node : ref_seenhash[x] # 0 => Named(str_seenhash, x))
    BY <2>1 DEF RefsOK, TagsOf, StringsOK, StringAt, WeakensOK, Named
  <2>4. InSlot' <=> InSlot
    BY <2>1 DEF InSlot
  <2>5. Unfinished' <=> Unfinished
    BY <2>1 DEF Unfinished, Named
  <2>6. Enter(Root)' = Enter(Root)
    BY DEF Enter
  <2> QED
    BY <2>1, <2>2, <2>3, <2>4, <2>5, <2>6 DEF Good, IInv, AllResolve, Resolves
<1> QED
  BY <1>2, <1>3, <1>4, <1>5, <1>6, <1>7, <1>8, <1>9, <1>10, <1>11, <1>12, <1>13, <1>14, <1>15,
     <1>16 DEF Next, DumpNext, EncoderStops

\* The tables and the body agree in every state of every encode call.
THEOREM Invariance == Spec => []Good
<1>1. Init => Good
  BY InitGood
<1>2. Good /\ [Next]_vars => Good'
  BY NextGood
<1> QED
  BY <1>1, <1>2, PTL DEF Spec

\* Whatever REFP, ARRAYREF_n, HASHREF_n and UNDEF overwrite, and wherever the
\* buffer position is moved back to, every offset in ref_seenhash, str_seenhash
\* and string_deduper_hv is that of what was remembered.
THEOREM SeenOffsets == Spec => []SeenOffsetsValid
<1>1. Good => SeenOffsetsValid
  <2> SUFFICES ASSUME Good PROVE SeenOffsetsValid
    OBVIOUS
  <2>1. /\ DOMAIN out = 1 .. Len(out) /\ StringsOK(out, str_seenhash, string_deduper_hv)
        /\ ctl # "croak" => RefsOK(out, ref_seenhash)
    BY DEF Good, IInv, Types
  <2> QED
    BY <2>1 DEF SeenOffsetsValid, RefsOK, StringsOK, StringAt, IsString
<1> QED
  BY <1>1, Invariance, PTL

\* Before srl_fixup_weakrefs runs, every REFP, ALIAS, COPY and OBJECTV in the body
\* points back at what it should, at a tag with the track flag where one is needed.
THEOREM ResolveBeforeFixup == Spec => [](ctl # "done" => BackReferencesResolve)
<1>1. Good => (ctl # "done" => BackReferencesResolve)
  <2> SUFFICES ASSUME Good, ctl # "done" PROVE BackReferencesResolve
    OBVIOUS
  <2>1. DOMAIN out = 1 .. Len(out) /\ AllResolve(out)
    BY DEF Good, IInv, Types
  <2> QED
    BY <2>1 DEF BackReferencesResolve, AllResolve, Resolves
<1> QED
  BY <1>1, Invariance, PTL

\* The finished document resolves as well, as long as the assertion in
\* srl_fixup_weakrefs holds: what it turns into PAD is a WEAKEN nothing refers to.
THEOREM BackReferences == Spec /\ []FixupFindsWeaken => []BackReferencesResolve
<1> DEFINE G == IInv /\ AllResolve(out)
<1>1. Init => G
  BY InitSound DEF Sound
<1>2. G /\ Good /\ FixupFindsWeaken /\ [Next]_vars /\ Good' => G'
  <2> SUFFICES ASSUME G, Good, FixupFindsWeaken, [Next]_vars, Good' PROVE G'
    OBVIOUS
  <2>1. IInv'
    BY DEF Good
  <2>2. CASE ctl' # "done"
    BY <2>1, <2>2 DEF Good
  <2>3. CASE srl_fixup_weakrefs
    BY <2>1, <2>3, FixupResolves
  <2>4. CASE UNCHANGED vars
    BY <2>1, <2>4 DEF vars, AllResolve, Resolves
  <2>5. ctl' # "done" \/ srl_fixup_weakrefs \/ UNCHANGED vars
    <3>1. CASE DumpNext
      BY <3>1 DEF DumpNext, Start, DumpElementDirect, DumpElement, DumpReturn, srl_dump_hk, DumpKeyAsSv,
            DumpSeenBefore, DumpImmortal, DumpScalar, DumpReference, DumpReferenceCroak,
            DumpContainer, DumpUnsupported, NextIs, FirstVisit, CallDumpSv
    <3> QED
      BY <3>1 DEF Next, EncoderStops
  <2> QED
    BY <2>2, <2>3, <2>4, <2>5
<1>3. G => BackReferencesResolve
  <2> SUFFICES ASSUME G PROVE BackReferencesResolve
    OBVIOUS
  <2>1. DOMAIN out = 1 .. Len(out)
    BY DEF IInv, Types
  <2> QED
    BY <2>1 DEF BackReferencesResolve, AllResolve, Resolves
<1> HIDE DEF G
<1> QED
  BY <1>1, <1>2, <1>3, Invariance, PTL DEF Spec

-----------------------------------------------------------------------------
(* recursion_depth *)

\* With recursion_depth d and q left to do, every return finds a depth to give
\* back, and none is left at the end: f is the depth before each item.
Balanced(q, d) ==
  \E f \in [1 .. Len(q) + 1 -> Nat] :
    /\ f[1] = d /\ f[Len(q) + 1] = 0
    /\ \A i \in 1 .. Len(q) : f[i + 1] = f[i] - (IF q[i].op = "return" THEN 1 ELSE 0)

LEMMA BalancedPop ==
  ASSUME NEW q \in Seq(Item), q # <<>>, NEW d, Balanced(q, d)
  PROVE  Balanced(Tail(q), d - (IF Head(q).op = "return" THEN 1 ELSE 0))
<1> DEFINE n == Len(q)
           r == Tail(q)
<1>1. n \in Nat /\ n >= 1 /\ Head(q) = q[1]
      /\ Len(r) = n - 1 /\ \A i \in 1 .. n - 1 : r[i] = q[i + 1]
  OBVIOUS
<1>2. PICK f \in [1 .. n + 1 -> Nat] :
           /\ f[1] = d /\ f[n + 1] = 0
           /\ \A i \in 1 .. n : f[i + 1] = f[i] - (IF q[i].op = "return" THEN 1 ELSE 0)
  BY DEF Balanced
<1> HIDE DEF n, r
<1> DEFINE g == [i \in 1 .. Len(r) + 1 |-> f[i + 1]]
<1>3. Len(r) + 1 = n /\ \A i \in 1 .. n : i + 1 \in 1 .. n + 1
  BY <1>1
<1>4. g \in [1 .. Len(r) + 1 -> Nat] /\ \A i \in 1 .. n : g[i] = f[i + 1]
  BY <1>3
<1> HIDE DEF g
<1>5. g[1] = d - (IF Head(q).op = "return" THEN 1 ELSE 0) /\ g[Len(r) + 1] = 0
  BY <1>1, <1>2, <1>3, <1>4
<1>6. ASSUME NEW i \in 1 .. Len(r)
      PROVE  g[i + 1] = g[i] - (IF r[i].op = "return" THEN 1 ELSE 0)
  <2>1. i \in 1 .. n /\ i + 1 \in 1 .. n /\ i \in 1 .. n - 1
    BY <1>1
  <2> QED
    BY <1>1, <1>2, <1>4, <2>1
<1> QED
  BY <1>4, <1>5, <1>6 DEF Balanced, r

LEMMA BalancedCall ==
  ASSUME NEW q \in Seq(Item), NEW d, Balanced(q, d)
  PROVE  Balanced(<<Return>> \o q, d + 1)
<1> DEFINE n == Len(q)
           r == <<Return>> \o q
<1>1. Return.op = "return"
  BY DEF Return
<1>2. n \in Nat /\ Len(r) = n + 1 /\ r[1] = Return /\ \A i \in 1 .. n : r[i + 1] = q[i]
  OBVIOUS
<1>3. PICK f \in [1 .. n + 1 -> Nat] :
           /\ f[1] = d /\ f[n + 1] = 0
           /\ \A i \in 1 .. n : f[i + 1] = f[i] - (IF q[i].op = "return" THEN 1 ELSE 0)
  BY DEF Balanced
<1> HIDE DEF n, r
<1>4. d \in Nat
  BY <1>2, <1>3
<1> DEFINE g == [i \in 1 .. Len(r) + 1 |-> IF i = 1 THEN d + 1 ELSE f[i - 1]]
<1>5. /\ g \in [1 .. Len(r) + 1 -> Nat] /\ g[1] = d + 1
      /\ \A i \in 2 .. n + 2 : g[i] = f[i - 1]
  <2>1. Len(r) + 1 = n + 2 /\ \A i \in 2 .. n + 2 : i - 1 \in 1 .. n + 1
    BY <1>2
  <2>2. \A i \in 1 .. n + 2 : i = 1 \/ i \in 2 .. n + 2
    BY <1>2
  <2> QED
    BY <1>2, <1>4, <2>1, <2>2
<1> HIDE DEF g
<1>6. g[Len(r) + 1] = 0
  BY <1>2, <1>3, <1>5
<1>7. ASSUME NEW i \in 1 .. Len(r)
      PROVE  g[i + 1] = g[i] - (IF r[i].op = "return" THEN 1 ELSE 0)
  <2>1. CASE i = 1
    <3>1. g[2] = f[1]
      BY <1>2, <1>5
    <3> QED
      BY <1>1, <1>2, <1>3, <1>4, <1>5, <2>1, <3>1
  <2>2. CASE i # 1
    <3>1. i - 1 \in 1 .. n /\ i \in 2 .. n + 2 /\ i + 1 \in 2 .. n + 2 /\ (i - 1) + 1 = i /\ (i + 1) - 1 = i
      BY <1>2, <2>2
    <3>2. r[i] = q[i - 1] /\ g[i] = f[i - 1] /\ g[i + 1] = f[i]
      BY <1>2, <1>5, <3>1
    <3>3. f[i] = f[i - 1] - (IF q[i - 1].op = "return" THEN 1 ELSE 0)
      BY <1>3, <3>1
    <3> QED
      BY <3>2, <3>3
  <2> QED
    BY <2>1, <2>2
<1> QED
  BY <1>5, <1>6, <1>7 DEF Balanced, r

LEMMA BalancedPrefix ==
  ASSUME NEW a \in Seq(Item), \A i \in 1 .. Len(a) : a[i].op # "return",
         NEW q \in Seq(Item), NEW d, Balanced(q, d)
  PROVE  Balanced(a \o q, d)
<1> DEFINE m == Len(a)
           n == Len(q)
           r == a \o q
<1>1. /\ m \in Nat /\ n \in Nat /\ Len(r) = m + n
      /\ \A i \in 1 .. m : r[i] = a[i]
      /\ \A i \in m + 1 .. m + n : r[i] = q[i - m]
  OBVIOUS
<1>2. PICK f \in [1 .. n + 1 -> Nat] :
           /\ f[1] = d /\ f[n + 1] = 0
           /\ \A i \in 1 .. n : f[i + 1] = f[i] - (IF q[i].op = "return" THEN 1 ELSE 0)
  BY DEF Balanced
<1>3. \A i \in 1 .. m : a[i].op # "return"
  OBVIOUS
<1> HIDE DEF m, n, r
<1>4. d \in Nat
  BY <1>1, <1>2
<1> DEFINE g == [i \in 1 .. Len(r) + 1 |-> IF i <= m THEN d ELSE f[i - m]]
<1>5. /\ g \in [1 .. Len(r) + 1 -> Nat]
      /\ \A i \in 1 .. m + 1 : g[i] = d
      /\ \A i \in m + 1 .. m + n + 1 : g[i] = f[i - m]
  <2>1. Len(r) + 1 = m + n + 1 /\ \A i \in m + 1 .. m + n + 1 : i - m \in 1 .. n + 1 /\ ~(i <= m)
    BY <1>1
  <2>2. \A i \in 1 .. m + n + 1 : i <= m \/ i \in m + 1 .. m + n + 1
    BY <1>1
  <2>3. g \in [1 .. Len(r) + 1 -> Nat]
    BY <1>4, <2>1, <2>2
  <2>4. ASSUME NEW i \in m + 1 .. m + n + 1 PROVE g[i] = f[i - m]
    <3>1. i \in 1 .. Len(r) + 1 /\ ~(i <= m)
      BY <1>1
    <3> QED
      BY <3>1
  <2>5. ASSUME NEW i \in 1 .. m + 1 PROVE g[i] = d
    <3>1. i \in 1 .. Len(r) + 1 /\ (i <= m \/ i = m + 1)
      BY <1>1
    <3>2. CASE i <= m
      BY <3>1, <3>2
    <3>3. CASE i = m + 1
      <4>1. i \in m + 1 .. m + n + 1 /\ i - m = 1
        BY <1>1, <3>3
      <4> QED
        BY <1>2, <2>4, <4>1
    <3> QED
      BY <3>1, <3>2, <3>3
  <2> QED
    BY <2>3, <2>4, <2>5
<1> HIDE DEF g
<1>6. g[1] = d /\ g[Len(r) + 1] = 0
  <2>1. 1 \in 1 .. m + 1 /\ m + n + 1 \in m + 1 .. m + n + 1 /\ Len(r) + 1 = m + n + 1 /\ (m + n + 1) - m = n + 1
    BY <1>1
  <2> QED
    BY <1>2, <1>5, <2>1
<1>7. ASSUME NEW i \in 1 .. Len(r)
      PROVE  g[i + 1] = g[i] - (IF r[i].op = "return" THEN 1 ELSE 0)
  <2>1. CASE i <= m
    <3>1. i \in 1 .. m /\ i \in 1 .. m + 1 /\ i + 1 \in 1 .. m + 1
      BY <1>1, <2>1
    <3>2. r[i].op # "return" /\ g[i] = d /\ g[i + 1] = d
      BY <1>1, <1>3, <1>5, <3>1
    <3> QED
      BY <1>4, <3>2
  <2>2. CASE ~(i <= m)
    <3>1. /\ i - m \in 1 .. n /\ i \in m + 1 .. m + n /\ i \in m + 1 .. m + n + 1
          /\ i + 1 \in m + 1 .. m + n + 1 /\ (i + 1) - m = (i - m) + 1
      BY <1>1, <2>2
    <3>2. r[i] = q[i - m] /\ g[i] = f[i - m] /\ g[i + 1] = f[(i - m) + 1]
      BY <1>1, <1>5, <3>1
    <3>3. f[(i - m) + 1] = f[i - m] - (IF q[i - m].op = "return" THEN 1 ELSE 0)
      BY <1>2, <3>1
    <3> QED
      BY <3>2, <3>3
  <2> QED
    BY <2>1, <2>2
<1> QED
  BY <1>5, <1>6, <1>7 DEF Balanced, r

LEMMA NextBalanced == Good /\ Balanced(todo, depth) /\ [Next]_vars => Balanced(todo, depth)'
<1> SUFFICES ASSUME Good, Balanced(todo, depth), [Next]_vars PROVE Balanced(todo', depth')
  BY DEF Balanced
<1>1. Plain(todo) /\ todo \in Seq(Item) /\ Built /\ cur.src \in Node
  BY DEF Good, IInv, Plain, Types, Local
<1>2. depth \in Nat /\ depth - 0 = depth
  BY <1>1 DEF Balanced
<1>3. ASSUME NEW op, NextIs(op), op # "return" PROVE Balanced(Tail(todo), depth) /\ Tail(todo) \in Seq(Item)
  <2>1. todo # <<>> /\ Head(todo).op # "return"
    BY <1>3 DEF NextIs
  <2>2. Balanced(Tail(todo), depth - 0)
    BY <1>1, <2>1, BalancedPop
  <2>3. Tail(todo) \in Seq(Item)
    BY <1>1, <2>1
  <2> QED
    BY <1>2, <2>2, <2>3
<1>4. CASE UNCHANGED <<todo, depth>>
  BY <1>4
<1>5. CASE Start
  <2>1. ctl = "start" /\ todo' = <<Return>> /\ depth' = depth + 1
    BY <1>5 DEF Start, CallDumpSv
  <2>2. todo = <<>>
    BY <2>1 DEF Good, IInv
  <2>3. <<Return>> = <<Return>> \o <<>>
    OBVIOUS
  <2> QED
    BY <1>1, <2>1, <2>2, <2>3, BalancedCall
<1>6. CASE DumpElement
  <2>1. NextIs("sv") /\ todo' = <<Return>> \o Tail(todo) /\ depth' = depth + 1
    BY <1>6 DEF DumpElement, CallDumpSv
  <2>2. Balanced(Tail(todo), depth) /\ Tail(todo) \in Seq(Item)
    BY <1>3, <2>1
  <2> QED
    BY <2>1, <2>2, BalancedCall
<1>7. CASE DumpElementDirect \/ srl_dump_hk \/ DumpKeyAsSv
  <2>1. PICK op \in {"sv", "hk", "hk_sv"} : NextIs(op) /\ todo' = Tail(todo) /\ depth' = depth
    BY <1>7 DEF DumpElementDirect, srl_dump_hk, DumpKeyAsSv
  <2> QED
    BY <1>3, <2>1
<1>8. CASE DumpReturn
  <2>1. todo # <<>> /\ Head(todo).op = "return" /\ todo' = Tail(todo) /\ depth' = depth - 1
    BY <1>8 DEF DumpReturn, NextIs
  <2> QED
    BY <1>1, <2>1, BalancedPop
<1>9. CASE DumpContainer
  <2>1. todo' = Children(cur.src) \o todo /\ depth' = depth /\ IsContainer(heap[cur.src])
    BY <1>9 DEF DumpContainer
  <2>2. /\ Children(cur.src) \in Seq(Item)
        /\ \A i \in 1 .. Len(Children(cur.src)) : Children(cur.src)[i].op # "return"
    BY <1>1, <2>1, PlainChildren DEF Plain
  <2> QED
    BY <1>1, <2>1, <2>2, BalancedPrefix
<1>10. CASE \/ DumpSeenBefore \/ DumpImmortal \/ DumpScalar \/ DumpReference \/ DumpReferenceCroak
            \/ DumpUnsupported \/ srl_fixup_weakrefs \/ UNCHANGED vars
  <2>1. UNCHANGED <<todo, depth>>
    BY <1>10 DEF DumpSeenBefore, DumpImmortal, DumpScalar, DumpReference, DumpReferenceCroak,
          DumpUnsupported, srl_fixup_weakrefs, vars
  <2> QED
    BY <1>4, <2>1
<1> QED
  BY <1>5, <1>6, <1>7, <1>8, <1>9, <1>10 DEF Next, DumpNext, EncoderStops

LEMMA Balance == Spec => []Balanced(todo, depth)
<1>1. Init => Balanced(todo, depth)
  <2> SUFFICES ASSUME Init PROVE Balanced(todo, depth)
    OBVIOUS
  <2>1. todo = <<>> /\ depth = 0 /\ Len(todo) = 0
    BY DEF Init
  <2> DEFINE f == [i \in 1 .. 1 |-> 0]
  <2>2. f \in [1 .. Len(todo) + 1 -> Nat] /\ f[1] = depth /\ f[Len(todo) + 1] = 0
    BY <2>1
  <2>3. \A i \in 1 .. Len(todo) : f[i + 1] = f[i] - (IF todo[i].op = "return" THEN 1 ELSE 0)
    BY <2>1
  <2> HIDE DEF f
  <2> QED
    BY <2>2, <2>3 DEF Balanced
<1> QED
  BY <1>1, NextBalanced, Invariance, PTL DEF Spec

\* The body holds known tags only and every table and counter keeps its type:
\* recursion_depth, an unsigned counter in the code, never wraps below zero.
THEOREM EncoderTypes == Spec => []TypeOK
<1>1. Good /\ Balanced(todo, depth) => TypeOK
  <2> SUFFICES ASSUME Good, Balanced(todo, depth) PROVE TypeOK
    OBVIOUS
  <2>1. todo \in Seq(Item) /\ Types /\ heap \in Heap /\ opt \in OptionSet
    BY DEF Good, IInv, Plain, Built
  <2>2. depth \in Nat
    BY <2>1 DEF Balanced
  <2> QED
    BY <2>1, <2>2 DEF TypeOK, Types
<1> QED
  BY <1>1, Invariance, Balance, PTL

\* Every increment of enc->recursion_depth is undone on the way out, whichever
\* exit each srl_dump_sv took: a finished document leaves the counter at 0.
THEOREM DepthReturns == Spec => [](ctl = "done" => depth = 0)
<1> DEFINE Ended == ctl = "done" => todo = <<>>
<1>1. Init => Ended
  BY DEF Init
<1>2. Ended /\ [Next]_vars => Ended'
  <2> SUFFICES ASSUME Ended, [Next]_vars, ctl' = "done" PROVE todo' = <<>>
    OBVIOUS
  <2>1. CASE srl_fixup_weakrefs
    BY <2>1 DEF srl_fixup_weakrefs
  <2>2. CASE UNCHANGED vars
    BY <2>2 DEF vars
  <2>3. CASE DumpNext /\ ~srl_fixup_weakrefs
    BY <2>3 DEF DumpNext, Start, DumpElementDirect, DumpElement, DumpReturn, srl_dump_hk, DumpKeyAsSv,
          DumpSeenBefore, DumpImmortal, DumpScalar, DumpReference, DumpReferenceCroak,
          DumpContainer, DumpUnsupported, NextIs, FirstVisit, CallDumpSv
  <2> QED
    BY <2>1, <2>2, <2>3 DEF Next, EncoderStops
<1>3. Ended /\ Balanced(todo, depth) => (ctl = "done" => depth = 0)
  <2> SUFFICES ASSUME todo = <<>>, Balanced(todo, depth) PROVE depth = 0
    OBVIOUS
  <2>1. Len(todo) = 0 /\ Len(todo) + 1 = 1
    OBVIOUS
  <2> QED
    BY <2>1 DEF Balanced
<1> QED
  BY <1>1, <1>2, <1>3, Balance, PTL DEF Spec

-----------------------------------------------------------------------------
(* The assertion of srl_fixup_weakrefs *)

\* No weak reference is itself referred to more than once.
WeakRefsUnshared == \A x \in Node : heap[x].weak => ~(refcount(x) > 1)

\* A WEAKEN is as it was written, and no table leads to one.
WeakensBare ==
  /\ \A i \in 1 .. Len(out) : out[i].tag = "WEAKEN" => out[i] = T("WEAKEN", 0, "")
  /\ \A x \in Node : ref_seenhash[x] # 0 => ~heap[x].weak /\ out[ref_seenhash[x]].tag # "WEAKEN"

WInv == WeakRefsUnshared /\ (ctl \notin {"done", "croak"} => WeakensBare)

\* Every WEAKEN of p was in o, at the same place and with the same flag.
NoNewWeaken(o, p) ==
  /\ o \in Seq(Tok) /\ p \in Seq(Tok)
  /\ \A i \in 1 .. Len(p) : p[i].tag = "WEAKEN" => i \in 1 .. Len(o) /\ p[i] = o[i]

LEMMA WeakenAppend ==
  ASSUME NEW o \in Seq(Tok), NEW t \in Tok, t.tag # "WEAKEN"
  PROVE  NoNewWeaken(o, Append(o, t))
<1> DEFINE p == Append(o, t)
<1>1. /\ p \in Seq(Tok) /\ Len(p) = Len(o) + 1 /\ p[Len(o) + 1] = t /\ Len(o) \in Nat
      /\ \A i \in 1 .. Len(o) : p[i] = o[i]
  OBVIOUS
<1>2. \A i \in 1 .. Len(p) : i \in 1 .. Len(o) \/ i = Len(o) + 1
  BY <1>1
<1> HIDE DEF p
<1> QED
  BY <1>1, <1>2 DEF NoNewWeaken, p

LEMMA WeakenReplace ==
  ASSUME NEW o \in Seq(Tok), NEW k \in 0 .. Len(o), NEW t \in Tok, t.tag # "WEAKEN"
  PROVE  NoNewWeaken(o, Append(SubSeq(o, 1, k), t))
<1> DEFINE c == SubSeq(o, 1, k)
           p == Append(c, t)
<1>1. c \in Seq(Tok) /\ Len(c) = k /\ \A i \in 1 .. k : c[i] = o[i] /\ i \in 1 .. Len(o)
  OBVIOUS
<1> HIDE DEF c
<1>2. NoNewWeaken(c, p)
  BY <1>1, WeakenAppend
<1> HIDE DEF p
<1> QED
  BY <1>1, <1>2 DEF NoNewWeaken, p, c

LEMMA WeakenFlag ==
  ASSUME NEW o, NEW p, NoNewWeaken(o, p), NEW ofs \in 1 .. Len(p), p[ofs].tag # "WEAKEN"
  PROVE  NoNewWeaken(o, SRL_SET_TRACK_FLAG(p, ofs))
<1> DEFINE q == SRL_SET_TRACK_FLAG(p, ofs)
<1>1. o \in Seq(Tok) /\ p \in Seq(Tok)
  BY DEF NoNewWeaken
<1>2. Keeps(p, q, Len(p)) /\ Len(q) = Len(p)
  BY <1>1, FlagKeeps
<1>3. \A i \in 1 .. Len(p) : i # ofs => q[i] = p[i]
  BY <1>1 DEF SRL_SET_TRACK_FLAG
<1> HIDE DEF q
<1>4. q \in Seq(Tok) /\ q[ofs].tag = p[ofs].tag
  BY <1>2 DEF Keeps
<1> QED
  BY <1>1, <1>2, <1>3, <1>4 DEF NoNewWeaken, q

LEMMA SvpvWeaken ==
  ASSUME IInv, NEW s \in Strings, srl_dump_svpv(s)
  PROVE  NoNewWeaken(out, out')
<1> DEFINE t == T("STR", 0, s)
           ofs == string_deduper_hv[s]
           copy == T("COPY", ofs, "")
           alias == T("ALIAS", ofs, "")
           flagged == SRL_SET_TRACK_FLAG(out, ofs)
<1>1. /\ out \in Seq(Tok) /\ Len(out) \in Nat /\ ofs \in Nat
      /\ StringsOK(out, str_seenhash, string_deduper_hv)
      /\ opt.dedupe \in {"no", "copy", "alias"}
  BY DEF IInv, Types, Built, OptionSet
<1>2. \/ out' = Append(out, t)
      \/ ofs # 0 /\ out' = Append(out, copy)
      \/ ofs # 0 /\ out' = Append(flagged, alias)
  BY <1>1 DEF srl_dump_svpv
<1>3. ofs # 0 => ofs \in 1 .. Len(out) /\ out[ofs].tag = "STR"
  BY <1>1 DEF StringsOK, StringAt
<1> HIDE DEF ofs, flagged
<1>4. /\ t \in Tok /\ t.tag = "STR"
  BY DEF T, Tok, Tags
<1>5. /\ copy \in Tok /\ copy.tag = "COPY"
      /\ alias \in Tok /\ alias.tag = "ALIAS"
  BY <1>1, StringsAssumption DEF T, Tok, Tags
<1> HIDE DEF t, copy, alias
<1>6. NoNewWeaken(out, Append(out, t)) /\ NoNewWeaken(out, Append(out, copy))
  BY <1>1, <1>4, <1>5, WeakenAppend
<1>7. ASSUME ofs # 0 PROVE NoNewWeaken(out, Append(flagged, alias))
  <2>1. NoNewWeaken(out, out)
    BY <1>1 DEF NoNewWeaken
  <2>2. NoNewWeaken(out, flagged)
    BY <1>3, <1>7, <2>1, WeakenFlag DEF flagged
  <2>3. NoNewWeaken(flagged, Append(flagged, alias))
    BY <1>5, <2>2, WeakenAppend DEF NoNewWeaken
  <2> QED
    BY <2>2, <2>3 DEF NoNewWeaken
<1> QED
  BY <1>2, <1>6, <1>7

LEMMA PlainWeaken ==
  ASSUME IInv, NEW x \in Node, DumpPlain(x)
  PROVE  NoNewWeaken(out, out')
<1>1. heap[x].v \in Strings /\ out \in Seq(Tok)
  BY NodeFacts DEF IInv, Types
<1>2. CASE heap[x].k = "str"
  <2>1. srl_dump_svpv(heap[x].v)
    BY <1>2 DEF DumpPlain
  <2> QED
    BY <1>1, <2>1, SvpvWeaken
<1>3. CASE heap[x].k \in {"int", "undef"}
  <2> DEFINE t == IF heap[x].k = "int" THEN T("INT", 0, heap[x].v) ELSE T("UNDEF", 0, "")
  <2>1. out' = Append(out, t)
    BY <1>3 DEF DumpPlain
  <2>2. t \in Tok /\ t.tag # "WEAKEN"
    BY <1>1, StringsAssumption DEF T, Tok, Tags
  <2> HIDE DEF t
  <2> QED
    BY <1>1, <2>1, <2>2, WeakenAppend
<1> QED
  BY <1>2, <1>3 DEF DumpPlain

LEMMA UnsharedKept == ASSUME WeakRefsUnshared, heap' = heap PROVE WeakRefsUnshared'
<1>1. \A x \in Node : refcount(x)' = refcount(x)
  BY DEF refcount, HasBackrefs
<1> QED
  BY <1>1 DEF WeakRefsUnshared

\* A step adds a WEAKEN at most for a weak reference, which is not remembered.
LEMMA BareKept ==
  ASSUME IInv, WInv, ctl \notin {"done", "croak"}, heap' = heap,
         out' \in Seq(Tok),
         \A i \in 1 .. Len(out') : out'[i].tag = "WEAKEN" =>
            \/ i \in 1 .. Len(out) /\ out'[i] = out[i]
            \/ i = Here /\ heap[cur.src].weak /\ out'[i] = T("WEAKEN", 0, ""),
         \A x \in Node : \/ ref_seenhash'[x] \in {0, ref_seenhash[x]}
                         \/ x = cur.src /\ refcount(x) > 1 /\ ref_seenhash'[x] = Here,
         RefsOK(out', ref_seenhash')
  PROVE  WInv'
<1>0. Len(out) \in Nat /\ Here = Len(out) + 1 /\ Here \notin 1 .. Len(out)
  <2>1. out \in Seq(Tok)
    BY DEF IInv, Types
  <2>2. Len(out) \in Nat
    BY ONLY <2>1
  <2> QED
    BY ONLY <2>2 DEF Here
<1>1. WeakRefsUnshared /\ WeakensBare /\ RefsOK(out, ref_seenhash)
  BY DEF WInv, IInv
<1>2. ASSUME NEW i \in 1 .. Len(out'), out'[i].tag = "WEAKEN" PROVE out'[i] = T("WEAKEN", 0, "")
  <2>1. CASE i \in 1 .. Len(out) /\ out'[i] = out[i]
    BY <1>1, <1>2, <2>1 DEF WeakensBare
  <2>2. CASE ~(i \in 1 .. Len(out) /\ out'[i] = out[i])
    BY <1>2, <2>2
  <2> QED
    BY <2>1, <2>2
<1>3. ASSUME NEW x \in Node, ref_seenhash'[x] # 0
      PROVE  ~heap[x].weak /\ out'[ref_seenhash'[x]].tag # "WEAKEN"
  <2> DEFINE ofs == ref_seenhash'[x]
  <2>1. ofs \in 1 .. Len(out')
    BY <1>3 DEF RefsOK
  <2>2. CASE ofs = ref_seenhash[x]
    <3>1. ~heap[x].weak /\ out[ofs].tag # "WEAKEN" /\ ofs \in 1 .. Len(out)
      BY <1>1, <1>3, <2>2 DEF WeakensBare, RefsOK
    <3>2. ofs # Here
      BY <1>0, <3>1
    <3> QED
      BY <2>1, <3>1, <3>2
  <2>3. CASE x = cur.src /\ refcount(x) > 1 /\ ofs = Here
    <3>1. ~heap[x].weak
      BY <1>1, <2>3 DEF WeakRefsUnshared
    <3> QED
      BY <1>0, <2>1, <2>3, <3>1
  <2> QED
    BY <1>3, <2>2, <2>3
<1>4. WeakensBare'
  BY <1>2, <1>3 DEF WeakensBare
<1> QED
  BY <1>1, <1>4, UnsharedKept DEF WInv

LEMMA BareNoNew ==
  ASSUME IInv, WInv, IInv', ctl \notin {"done", "croak"}, ctl' # "croak", heap' = heap,
         NoNewWeaken(out, out'),
         \/ ref_seenhash' = ref_seenhash
         \/ ref_seenhash' = RememberRef(cur.src)
         \/ ref_seenhash' = UnknownForgotten(cur.src)
  PROVE  WInv'
<1>1. /\ ref_seenhash \in [Node -> Nat] /\ cur.src \in Node
      /\ RefsOK(out, ref_seenhash)'
  BY DEF IInv, Types, Local
<1>2. RefsOK(out', ref_seenhash')
  BY <1>1 DEF RefsOK, TagsOf
<1>3. \A x \in Node : \/ ref_seenhash'[x] \in {0, ref_seenhash[x]}
                      \/ x = cur.src /\ refcount(x) > 1 /\ ref_seenhash'[x] = Here
  BY <1>1 DEF RememberRef, UnknownForgotten
<1>4. out' \in Seq(Tok) /\ \A i \in 1 .. Len(out') :
        out'[i].tag = "WEAKEN" => i \in 1 .. Len(out) /\ out'[i] = out[i]
  BY DEF NoNewWeaken
<1> QED
  BY <1>2, <1>3, <1>4, BareKept

LEMMA SeenBeforeWeaken == ASSUME IInv, WInv, DumpSeenBefore PROVE NoNewWeaken(out, out')
<1> DEFINE ofs == ref_seenhash[cur.src]
           pos == cur.ref_rewrite_pos
           t == T(IF pos = 0 THEN "ALIAS" ELSE "REFP", ofs, "")
           p == Append(IF pos = 0 THEN out ELSE SubSeq(out, 1, pos - 1), t)
<1>1. ctl = "redo" /\ ofs # 0 /\ out' = SRL_SET_TRACK_FLAG(p, ofs)
  BY DEF DumpSeenBefore, SeenBefore
<1>2. /\ cur.src \in Node /\ out \in Seq(Tok) /\ Len(out) \in Nat /\ RefsOK(out, ref_seenhash)
      /\ pos # 0 => Unfinished
  BY <1>1, PassFacts
<1>3. ofs \in 1 .. Len(out) /\ ofs \in Nat
  <2>1. ofs \in 1 .. Len(out)
    BY <1>1, <1>2 DEF RefsOK
  <2> HIDE DEF ofs
  <2> QED
    BY <1>2, <2>1
<1>4. out[ofs].tag # "WEAKEN"
  BY <1>1, <1>2 DEF WInv, WeakensBare
<1>5. t \in Tok /\ t.tag # "WEAKEN"
  <2> HIDE DEF ofs
  <2> QED
    BY <1>3, StringsAssumption DEF T, Tok, Tags
<1> HIDE DEF t
<1>6. NoNewWeaken(out, p) /\ ofs \in 1 .. Len(p) /\ p[ofs].tag # "WEAKEN"
  <2>1. CASE pos = 0
    <3>1. p = Append(out, t)
      BY <2>1
    <3>2. NoNewWeaken(out, p)
      BY <1>2, <1>5, <3>1, WeakenAppend
    <3> HIDE DEF p, ofs
    <3>3. ofs \in 1 .. Len(p) /\ p[ofs].tag = out[ofs].tag
      BY <1>2, <1>3, <1>5, <3>1, AppendKeeps DEF Keeps
    <3> QED
      BY <1>4, <3>2, <3>3
  <2>2. CASE pos # 0
    <3>1. pos \in 1 .. Len(out) /\ ofs <= pos
      BY <1>2, <2>2 DEF Unfinished
    <3>2. pos - 1 \in 0 .. Len(out) /\ p = Append(SubSeq(out, 1, pos - 1), t)
      BY <1>2, <2>2, <3>1
    <3> HIDE DEF p, pos
    <3>3. NoNewWeaken(out, p)
      BY <1>2, <1>5, <3>2, WeakenReplace
    <3>4. Keeps(out, p, pos - 1) /\ Len(p) = (pos - 1) + 1 /\ p[(pos - 1) + 1] = t
      BY <1>2, <1>5, <3>2, ReplaceKeeps
    <3>5. Len(p) = pos /\ p[pos] = t
      BY <1>2, <3>1, <3>4
    <3>6. ofs \in 1 .. pos - 1 \/ ofs = pos
      BY <1>2, <1>3, <3>1
    <3>7. ofs \in 1 .. Len(p) /\ p[ofs].tag # "WEAKEN"
      BY <1>2, <1>3, <1>4, <1>5, <3>1, <3>4, <3>5, <3>6 DEF Keeps
    <3> QED
      BY <3>3, <3>7
  <2> QED
    BY <2>1, <2>2
<1> HIDE DEF p, ofs
<1> QED
  BY <1>1, <1>6, WeakenFlag

LEMMA ReferenceBare == ASSUME IInv, WInv, IInv', DumpReference PROVE WInv'
<1> DEFINE r == cur.src
           x == Head(heap[r].to)
           t == T("REFN", 0, "")
           tw == T("WEAKEN", 0, "")
           weaken == IF heap[r].weak THEN <<tw>> ELSE <<>>
           ct == ClassTokens(x)
           n == Len(out)
           w == Len(weaken)
           c == Len(ct)
<1>1. /\ ctl = "redo" /\ ctl' = ctl /\ heap[r].k = "rv" /\ heap' = heap
      /\ out' = out \o weaken \o ct \o <<t>> /\ ref_seenhash' = RememberRef(r)
  BY DEF DumpReference, FirstVisit
<1>2. r \in Node /\ out \in Seq(Tok) /\ n \in Nat /\ Here = n + 1 /\ ref_seenhash \in [Node -> Nat] /\ Built
  BY <1>1, PassFacts
<1>3. x \in Node
  BY <1>1, <1>2, NodeFacts
<1>4. t \in Tok /\ tw \in Tok /\ t.tag = "REFN" /\ tw.tag = "WEAKEN"
  BY StringsAssumption DEF T, Tok, Tags
<1>5. /\ ct \in Seq(Tok) /\ c \in 0 .. 2
      /\ \A i \in 1 .. c : ct[i].tag # "WEAKEN"
  <2>1. /\ ct \in Seq(Tok) /\ c \in 0 .. 2
        /\ c = 1 => ct[1].tag = "OBJECTV"
        /\ c = 2 => ct[1].tag = "OBJECT" /\ ct[2].tag = "STR"
    BY <1>3, ClassTokensFacts
  <2> HIDE DEF ct, c
  <2>2. \A i \in 1 .. c : (i = 1 \/ (i = 2 /\ c = 2)) /\ (c = 1 \/ c = 2)
    <3>1. c \in 0 .. 2
      BY <2>1
    <3> QED
      BY ONLY <3>1
  <2> QED
    BY <2>1, <2>2
<1> HIDE DEF x, t, tw, r, n, ct
<1>6. weaken \in Seq(Tok) /\ w = (IF heap[r].weak THEN 1 ELSE 0) /\ (heap[r].weak => weaken[1] = tw)
  BY <1>4
<1> HIDE DEF weaken
<1>7. Parts(out, weaken, ct, t, out')
  <2>1. out' = out \o weaken \o ct \o <<t>> /\ out \in Seq(Tok) /\ weaken \in Seq(Tok) /\ ct \in Seq(Tok) /\ t \in Tok
    BY <1>1, <1>2, <1>4, <1>5, <1>6
  <2> QED
    BY ONLY <2>1, ReferenceParts
<1>8. /\ Keeps(out, out', n) /\ Len(out') = n + w + c + 1
      /\ \A i \in 1 .. w : out'[n + i] = weaken[i]
      /\ \A i \in 1 .. c : out'[n + w + i] = ct[i]
      /\ out'[n + w + c + 1] = t
  BY ONLY <1>7 DEF Parts, n
<1>9. \A i \in 1 .. n : out'[i] = out[i]
  BY ONLY <1>7 DEF Parts, n
<1> HIDE DEF w, c
<1>10. ASSUME NEW i \in 1 .. Len(out'), out'[i].tag = "WEAKEN"
       PROVE  \/ i \in 1 .. Len(out) /\ out'[i] = out[i]
              \/ i = Here /\ heap[r].weak /\ out'[i] = tw
  <2>1. n \in Nat /\ w \in 0 .. 1 /\ c \in 0 .. 2 /\ i \in 1 .. n + w + c + 1
    BY <1>2, <1>5, <1>6, <1>8
  <2>2. \/ i \in 1 .. n
        \/ i = n + 1 /\ w = 1
        \/ i - n - w \in 1 .. c /\ n + w + (i - n - w) = i
        \/ i = n + w + c + 1
    BY ONLY <2>1
  <2>3. CASE i \in 1 .. n
    BY <1>9, <2>3 DEF n
  <2>4. CASE i = n + 1 /\ w = 1
    <3>1. out'[n + 1] = weaken[1] /\ heap[r].weak
      BY <1>6, <1>8, <2>4
    <3> QED
      BY <1>2, <1>6, <2>4, <3>1
  <2>5. CASE i - n - w \in 1 .. c /\ n + w + (i - n - w) = i
    BY <1>5, <1>8, <1>10, <2>5
  <2>6. CASE i = n + w + c + 1
    BY <1>4, <1>8, <1>10, <2>6
  <2> QED
    BY <2>2, <2>3, <2>4, <2>5, <2>6
<1>11. \A y \in Node : \/ ref_seenhash'[y] \in {0, ref_seenhash[y]}
                       \/ y = r /\ refcount(y) > 1 /\ ref_seenhash'[y] = Here
  <2>1. ref_seenhash' = RememberRef(r)
    BY <1>1
  <2> QED
    BY <1>2, <2>1 DEF RememberRef
<1>12. RefsOK(out', ref_seenhash') /\ out' \in Seq(Tok)
  <2>1. RefsOK(out, ref_seenhash)' /\ Types'
    BY <1>1 DEF IInv
  <2> QED
    BY <1>1, <2>1 DEF RefsOK, TagsOf, Types
<1> QED
  BY <1>1, <1>10, <1>11, <1>12, BareKept DEF r, tw

LEMMA NextBare == Good /\ WInv /\ [Next]_vars /\ Good' => WInv'
<1> SUFFICES ASSUME Good, WInv, [Next]_vars, Good' PROVE WInv'
  OBVIOUS
<1>0. IInv /\ IInv' /\ out \in Seq(Tok) /\ cur.src \in Node /\ Built
  BY DEF Good, IInv, Types, Local
<1>1. ASSUME ctl \notin {"done", "croak"}, ctl' # "croak", heap' = heap, NoNewWeaken(out, out'),
             ref_seenhash' \in {ref_seenhash, RememberRef(cur.src), UnknownForgotten(cur.src)}
      PROVE  WInv'
  BY <1>0, <1>1, BareNoNew
<1>2. ASSUME ctl' \in {"done", "croak"}, heap' = heap PROVE WInv'
  BY <1>2, UnsharedKept DEF WInv
<1>3. NoNewWeaken(out, out)
  BY <1>0 DEF NoNewWeaken
<1>4. ASSUME NEW t \in Tok, t.tag # "WEAKEN" PROVE NoNewWeaken(out, Append(out, t))
  BY <1>0, <1>4, WeakenAppend
<1>5. ASSUME NEW x, NEW rest, CallDumpSv(x, rest), ctl \notin {"done", "croak"} PROVE WInv'
  <2>1. heap' = heap /\ out' = out /\ ref_seenhash' = ref_seenhash
    BY <1>5 DEF CallDumpSv, seen
  <2> QED
    BY <1>1, <1>2, <1>3, <1>5, <2>1
<1>6. CASE Start \/ DumpElement
  BY <1>5, <1>6 DEF Start, DumpElement, NextIs
<1>7. CASE DumpReturn
  <2>1. ctl = "next" /\ ctl' = ctl /\ heap' = heap /\ out' = out /\ ref_seenhash' = ref_seenhash
    BY <1>7 DEF DumpReturn, NextIs, seen
  <2> QED
    BY <1>1, <1>3, <2>1
<1>8. ASSUME NextIs("sv") \/ NextIs("hk") \/ NextIs("hk_sv")
      PROVE  Head(todo).x \in Node /\ Head(todo).s \in Strings /\ ctl = "next"
  BY <1>0, <1>8, PlainTail DEF NextIs, IInv
<1>9. CASE DumpElementDirect
  <2>1. /\ NextIs("sv") /\ DumpPlain(Head(todo).x) /\ ctl' = ctl /\ heap' = heap
        /\ ref_seenhash' = ref_seenhash
    BY <1>9 DEF DumpElementDirect
  <2> QED
    BY <1>0, <1>1, <1>8, <2>1, PlainWeaken
<1>10. CASE DumpKeyAsSv
  <2>1. /\ NextIs("hk_sv") /\ srl_dump_svpv(Head(todo).s) /\ ctl' = ctl /\ heap' = heap
        /\ ref_seenhash' = ref_seenhash
    BY <1>10 DEF DumpKeyAsSv
  <2> QED
    BY <1>0, <1>1, <1>8, <2>1, SvpvWeaken
<1>11. CASE srl_dump_hk
  <2> DEFINE s == Head(todo).s
             ofs == str_seenhash[SharedKey(s)]
  <2>1. /\ NextIs("hk") /\ ctl' = ctl /\ heap' = heap /\ ref_seenhash' = ref_seenhash
        /\ out' = Append(out, T("COPY", ofs, "")) \/ out' = Append(out, T("STR", 0, s))
    BY <1>11 DEF srl_dump_hk
  <2>2. s \in Strings /\ ctl = "next"
    BY <1>8, <2>1
  <2>3. ofs \in Nat
    <3>1. SharedKey(s) \in StrPtr
      BY <2>2 DEF SharedKey, StrPtr
    <3> QED
      BY <1>0, <3>1 DEF IInv, Types
  <2> HIDE DEF s, ofs
  <2>4. /\ T("COPY", ofs, "") \in Tok /\ T("COPY", ofs, "").tag # "WEAKEN"
        /\ T("STR", 0, s) \in Tok /\ T("STR", 0, s).tag # "WEAKEN"
    BY <2>2, <2>3, StringsAssumption DEF T, Tok, Tags
  <2>5. NoNewWeaken(out, out')
    BY <1>4, <2>1, <2>4
  <2> QED
    BY <1>1, <2>1, <2>2, <2>5
<1>12. CASE DumpSeenBefore
  <2>1. ctl = "redo" /\ ctl' = "next" /\ heap' = heap /\ ref_seenhash' = ref_seenhash
    BY <1>12 DEF DumpSeenBefore
  <2> QED
    BY <1>0, <1>1, <1>12, <2>1, SeenBeforeWeaken
<1>13. CASE DumpImmortal
  <2> DEFINE t == T(heap[cur.src].v, 0, "")
  <2>1. /\ ctl = "redo" /\ ctl' = "next" /\ heap' = heap /\ ref_seenhash' = ref_seenhash
        /\ out' = Append(out, t) /\ heap[cur.src].k = "imm"
    BY <1>13 DEF DumpImmortal
  <2>2. heap[cur.src].v \in {"CANONICAL_UNDEF", "TRUE", "FALSE"}
    BY <1>0, <2>1, NodeFacts
  <2>3. t \in Tok /\ t.tag # "WEAKEN"
    BY <2>2, StringsAssumption DEF T, Tok, Tags
  <2> HIDE DEF t
  <2>4. NoNewWeaken(out, out')
    BY <1>4, <2>1, <2>3
  <2> QED
    BY <1>1, <2>1, <2>4
<1>14. CASE DumpScalar
  <2>1. /\ ctl = "redo" /\ ctl' = "next" /\ heap' = heap /\ ref_seenhash' = RememberRef(cur.src)
        /\ DumpPlain(cur.src)
    BY <1>14 DEF DumpScalar, FirstVisit
  <2> QED
    BY <1>0, <1>1, <2>1, PlainWeaken
<1>15. CASE DumpReference
  BY <1>0, <1>15, ReferenceBare
<1>16. CASE DumpReferenceCroak
  BY <1>2, <1>16 DEF DumpReferenceCroak
<1>17. CASE DumpContainer
  <2> DEFINE x == cur.src
             n == Len(heap[x].to)
             tag == IF heap[x].k = "av" THEN "ARRAY" ELSE "HASH"
             ref == IF heap[x].k = "av" THEN "ARRAYREF" ELSE "HASHREF"
  <2>1. /\ ctl = "redo" /\ ctl' = "next" /\ heap' = heap /\ ref_seenhash' = RememberRef(cur.src)
        /\ IsContainer(heap[x])
        /\ \/ out' = Append(SubSeq(out, 1, Len(out) - 1), T(ref, n, ""))
           \/ out' = Append(out, T(tag, n, ""))
    BY <1>17 DEF DumpContainer, FirstVisit
  <2>2. n \in Nat
    BY <1>0, NodeFacts
  <2>3. Len(out) - 1 \in 0 .. Len(out)
    <3>1. Unfinished /\ Len(out) \in Nat
      BY <1>0, <2>1, PassFacts DEF IsContainer
    <3> QED
      BY <3>1 DEF Unfinished
  <2> HIDE DEF n
  <2>4. /\ T(ref, n, "") \in Tok /\ T(ref, n, "").tag # "WEAKEN"
        /\ T(tag, n, "") \in Tok /\ T(tag, n, "").tag # "WEAKEN"
    BY <2>2, StringsAssumption DEF T, Tok, Tags
  <2>5. NoNewWeaken(out, out')
    BY <1>0, <1>4, <2>1, <2>3, <2>4, WeakenReplace
  <2> QED
    BY <1>1, <2>1, <2>5
<1>18. CASE DumpUnsupported
  <2> DEFINE t == IF opt.unknown = "undef" THEN T("UNDEF", 0, "") ELSE T("STR", 0, heap[cur.src].v)
             pos == cur.ref_rewrite_pos
  <2>1. /\ ctl = "redo" /\ heap' = heap /\ heap[cur.src].k = "code"
        /\ \/ ctl' = "croak"
           \/ /\ ctl' = "next" /\ ref_seenhash' = UnknownForgotten(cur.src)
              /\ out' = Append(SubSeq(out, 1, pos - 1), t)
    BY <1>18 DEF DumpUnsupported, FirstVisit
  <2>2. heap[cur.src].v \in Strings
    BY <1>0, NodeFacts
  <2>3. t \in Tok /\ t.tag # "WEAKEN"
    BY <2>2, StringsAssumption DEF T, Tok, Tags
  <2>4. pos - 1 \in 0 .. Len(out)
    <3>1. Unfinished /\ Len(out) \in Nat
      BY <1>0, <2>1, PassFacts
    <3> QED
      BY <3>1 DEF Unfinished
  <2> HIDE DEF t, pos
  <2>5. NoNewWeaken(out, Append(SubSeq(out, 1, pos - 1), t))
    BY <1>0, <2>3, <2>4, WeakenReplace
  <2>6. CASE ctl' = "croak"
    BY <1>2, <2>1, <2>6
  <2>7. CASE ctl' # "croak"
    BY <1>1, <2>1, <2>5, <2>7
  <2> QED
    BY <2>6, <2>7
<1>19. CASE srl_fixup_weakrefs
  BY <1>2, <1>19 DEF srl_fixup_weakrefs
<1>20. CASE UNCHANGED vars
  <2>1. heap' = heap /\ ctl' = ctl /\ out' = out /\ ref_seenhash' = ref_seenhash
    BY <1>20 DEF vars, seen
  <2> QED
    BY <1>1, <1>2, <1>3, <2>1
<1> QED
  BY <1>6, <1>7, <1>9, <1>10, <1>11, <1>12, <1>13, <1>14, <1>15, <1>16, <1>17, <1>18, <1>19,
     <1>20 DEF Next, DumpNext, EncoderStops

\* The assertion in srl_fixup_weakrefs holds for every structure in which no weak
\* reference is itself shared: what becomes PAD is a WEAKEN as it was written.
\* (Run lost_weak_ref shows that it can fail for a shared one.)
THEOREM FixupAssertion == Spec /\ WeakRefsUnshared => []FixupFindsWeaken
<1>1. Init /\ WeakRefsUnshared => WInv
  BY DEF Init, WInv, WeakensBare
<1>2. Good /\ WInv => FixupFindsWeaken
  <2> SUFFICES ASSUME Good, WInv, ctl = "next", NEW x \in Node, weak_seenhash[x] > 0
               PROVE  out[weak_seenhash[x]] = T("WEAKEN", 0, "")
    BY DEF FixupFindsWeaken
  <2>1. WeakensOK(out, weak_seenhash) /\ WeakensBare
    BY DEF Good, IInv, WInv
  <2> QED
    BY <2>1 DEF WeakensOK, WeakensBare
<1> QED
  BY <1>1, <1>2, NextBare, Invariance, PTL DEF Spec

\* So for these structures every finished document resolves, padded ones included.
THEOREM ResolveUnshared == Spec /\ WeakRefsUnshared => []BackReferencesResolve
BY FixupAssertion, BackReferences, PTL
=============================================================================
