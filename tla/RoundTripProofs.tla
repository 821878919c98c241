-------------------------- MODULE RoundTripProofs --------------------------
(* For every data structure a Perl program can build, all encoder options    *)
(* and every truncation: while the decoder reads what the encoder wrote, the *)
(* SVs it remembers by offset, and the SVs that slots and references point   *)
(* at, have owners, although the decoder counts neither kind of pointer.     *)
EXTENDS RoundTrip, SrlEncoderProofs, FiniteSetTheorems, SequenceTheorems

-----------------------------------------------------------------------------
(* The document: what the decoder relies on.                                 *)

NoPad(o) == \A i \in 1 .. Len(o) : o[i].tag # "PAD"

\* Only srl_fixup_weakrefs writes PAD, without the track flag, and a COPY names
\* a tag of the body.
DocOK(o) == \A i \in 1 .. Len(o) : /\ o[i].tag = "PAD" => ~o[i].trk
                                   /\ o[i].tag = "COPY" => o[i].n >= 1

DocInv == /\ Good
          /\ ctl # "done" => NoPad(out)
          /\ ctl = "done" => DocOK(out)

LEMMA NoPadKept ==
  ASSUME NEW o, NEW p, NEW k, Keeps(o, p, k), NoPad(o), \A i \in k + 1 .. Len(p) : p[i].tag # "PAD"
  PROVE  NoPad(p)
<1>1. k \in 0 .. Len(o) /\ k <= Len(p) /\ Len(o) \in Nat /\ Len(p) \in Nat
  BY DEF Keeps
<1> SUFFICES ASSUME NEW i \in 1 .. Len(p) PROVE p[i].tag # "PAD"
  BY DEF NoPad
<1>2. CASE i \in 1 .. k
  <2>1. i \in 1 .. Len(o) /\ p[i].tag = o[i].tag
    BY <1>1, <1>2 DEF Keeps
  <2> QED
    BY <2>1 DEF NoPad
<1>3. CASE i \notin 1 .. k
  BY <1>1, <1>3
<1> QED
  BY <1>2, <1>3

LEMMA NoPadAppend ==
  ASSUME NEW o \in Seq(Tok), NEW t \in Tok, NoPad(o), t.tag # "PAD"
  PROVE  Append(o, t) \in Seq(Tok) /\ NoPad(Append(o, t))
<1> DEFINE p == Append(o, t)
<1>1. Keeps(o, p, Len(o)) /\ Len(p) = Len(o) + 1 /\ p[Len(o) + 1] = t /\ Len(o) \in Nat
  BY AppendKeeps
<1> HIDE DEF p
<1>2. \A i \in Len(o) + 1 .. Len(p) : p[i].tag # "PAD"
  <2>1. \A i \in Len(o) + 1 .. Len(p) : i = Len(o) + 1
    BY <1>1
  <2> QED
    BY <1>1, <2>1
<1> QED
  BY <1>1, <1>2, NoPadKept DEF Keeps, p

LEMMA NoPadReplace ==
  ASSUME NEW o \in Seq(Tok), NEW k \in 0 .. Len(o), NEW t \in Tok, NoPad(o), t.tag # "PAD"
  PROVE  Append(SubSeq(o, 1, k), t) \in Seq(Tok) /\ NoPad(Append(SubSeq(o, 1, k), t))
<1> DEFINE p == Append(SubSeq(o, 1, k), t)
<1>1. Keeps(o, p, k) /\ Len(p) = k + 1 /\ p[k + 1] = t /\ k \in Nat
  BY ReplaceKeeps
<1> HIDE DEF p
<1>2. \A i \in k + 1 .. Len(p) : p[i].tag # "PAD"
  <2>1. \A i \in k + 1 .. Len(p) : i = k + 1
    BY <1>1
  <2> QED
    BY <1>1, <2>1
<1> QED
  BY <1>1, <1>2, NoPadKept DEF Keeps, p

LEMMA NoPadFlag ==
  ASSUME NEW o \in Seq(Tok), NEW ofs \in 1 .. Len(o), NoPad(o)
  PROVE  SRL_SET_TRACK_FLAG(o, ofs) \in Seq(Tok) /\ NoPad(SRL_SET_TRACK_FLAG(o, ofs))
<1> DEFINE p == SRL_SET_TRACK_FLAG(o, ofs)
<1>1. Keeps(o, p, Len(o)) /\ Len(p) = Len(o) /\ Len(o) \in Nat
  BY FlagKeeps
<1> HIDE DEF p
<1>2. \A i \in Len(o) + 1 .. Len(p) : p[i].tag # "PAD"
  BY <1>1
<1> QED
  BY <1>1, <1>2, NoPadKept DEF Keeps, p

LEMMA SvpvNoPad ==
  ASSUME IInv, NoPad(out), NEW s \in Strings, srl_dump_svpv(s)
  PROVE  NoPad(out')
<1> DEFINE t == T("STR", 0, s)
           ofs == string_deduper_hv[s]
           copy == T("COPY", ofs, "")
           alias == T("ALIAS", ofs, "")
           flagged == SRL_SET_TRACK_FLAG(out, ofs)
<1>1. /\ out \in Seq(Tok) /\ ofs \in Nat /\ StringsOK(out, str_seenhash, string_deduper_hv)
      /\ opt.dedupe \in {"no", "copy", "alias"}
  BY DEF IInv, Types, Built, OptionSet
<1>2. \/ out' = Append(out, t)
      \/ ofs # 0 /\ out' = Append(out, copy)
      \/ ofs # 0 /\ out' = Append(flagged, alias)
  BY <1>1 DEF srl_dump_svpv
<1>3. ofs # 0 => ofs \in 1 .. Len(out)
  BY <1>1 DEF StringsOK, StringAt
<1> HIDE DEF ofs
<1>4. t \in Tok /\ t.tag # "PAD"
  BY DEF T, Tok, Tags
<1>5. copy \in Tok /\ copy.tag # "PAD" /\ alias \in Tok /\ alias.tag # "PAD"
  BY <1>1, StringsAssumption DEF T, Tok, Tags
<1>6. ofs # 0 => flagged \in Seq(Tok) /\ NoPad(flagged)
  BY <1>1, <1>3, NoPadFlag
<1> HIDE DEF t, copy, alias, flagged
<1> QED
  BY <1>1, <1>2, <1>4, <1>5, <1>6, NoPadAppend

LEMMA PlainNoPad ==
  ASSUME IInv, NoPad(out), NEW x \in Node, DumpPlain(x)
  PROVE  NoPad(out')
<1>1. heap[x].v \in Strings /\ out \in Seq(Tok)
  BY NodeFacts DEF IInv, Types
<1>2. CASE heap[x].k = "str"
  BY <1>1, <1>2, SvpvNoPad DEF DumpPlain
<1>3. CASE heap[x].k \in {"int", "undef"}
  <2> DEFINE t == IF heap[x].k = "int" THEN T("INT", 0, heap[x].v) ELSE T("UNDEF", 0, "")
  <2>1. out' = Append(out, t)
    BY <1>3 DEF DumpPlain
  <2>2. t \in Tok /\ t.tag # "PAD"
    BY <1>1, StringsAssumption DEF T, Tok, Tags
  <2> HIDE DEF t
  <2> QED
    BY <1>1, <2>1, <2>2, NoPadAppend
<1> QED
  BY <1>2, <1>3 DEF DumpPlain

LEMMA SeenBeforeNoPad == ASSUME IInv, NoPad(out), DumpSeenBefore PROVE NoPad(out')
<1> DEFINE ofs == ref_seenhash[cur.src]
           rp == cur.ref_rewrite_pos
           t == T(IF rp = 0 THEN "ALIAS" ELSE "REFP", ofs, "")
           p == Append(IF rp = 0 THEN out ELSE SubSeq(out, 1, rp - 1), t)
<1>1. ctl = "redo" /\ ofs # 0 /\ out' = SRL_SET_TRACK_FLAG(p, ofs)
  BY DEF DumpSeenBefore, SeenBefore
<1>2. /\ cur.src \in Node /\ out \in Seq(Tok) /\ Len(out) \in Nat /\ RefsOK(out, ref_seenhash)
      /\ rp # 0 => Unfinished
  BY <1>1, PassFacts
<1>3. ofs \in 1 .. Len(out) /\ ofs \in Nat
  <2>1. ofs \in 1 .. Len(out)
    BY <1>1, <1>2 DEF RefsOK
  <2> HIDE DEF ofs
  <2> QED
    BY <1>2, <2>1
<1>4. t \in Tok /\ t.tag # "PAD"
  <2> HIDE DEF ofs
  <2> QED
    BY <1>3, StringsAssumption DEF T, Tok, Tags
<1>5. rp # 0 => rp - 1 \in 0 .. Len(out) /\ rp \in Nat /\ ofs <= rp
  BY <1>2 DEF Unfinished
<1> HIDE DEF t, ofs, rp
<1>6. p \in Seq(Tok) /\ NoPad(p) /\ ofs \in 1 .. Len(p)
  <2>1. CASE rp = 0
    <3>1. p = Append(out, t)
      BY <2>1
    <3> HIDE DEF p
    <3> QED
      BY <1>2, <1>3, <1>4, <3>1, NoPadAppend, AppendKeeps
  <2>2. CASE rp # 0
    <3>1. p = Append(SubSeq(out, 1, rp - 1), t) /\ rp - 1 \in 0 .. Len(out)
      BY <1>5, <2>2
    <3> HIDE DEF p
    <3>2. Len(p) = (rp - 1) + 1
      BY <1>2, <1>4, <3>1, ReplaceKeeps
    <3> QED
      BY <1>2, <1>3, <1>4, <1>5, <2>2, <3>1, <3>2, NoPadReplace
  <2> QED
    BY <2>1, <2>2
<1> HIDE DEF p
<1> QED
  BY <1>1, <1>6, NoPadFlag

LEMMA ReferenceNoPad == ASSUME IInv, NoPad(out), DumpReference PROVE NoPad(out')
<1> DEFINE r == cur.src
           x == Head(heap[r].to)
           t == T("REFN", 0, "")
           tw == T("WEAKEN", 0, "")
           weaken == IF heap[r].weak THEN <<tw>> ELSE <<>>
           ct == ClassTokens(x)
<1>1. ctl = "redo" /\ heap[r].k = "rv" /\ out' = out \o weaken \o ct \o <<t>>
  BY DEF DumpReference, FirstVisit
<1>2. r \in Node /\ out \in Seq(Tok) /\ Len(out) \in Nat /\ Built
  BY <1>1, PassFacts
<1>3. x \in Node
  BY <1>1, <1>2, NodeFacts
<1>4. t \in Tok /\ tw \in Tok /\ t.tag = "REFN" /\ tw.tag = "WEAKEN"
  BY StringsAssumption DEF T, Tok, Tags
<1>5. /\ ct \in Seq(Tok) /\ Len(ct) \in 0 .. 2
      /\ Len(ct) = 1 => ct[1].tag = "OBJECTV"
      /\ Len(ct) = 2 => ct[1].tag = "OBJECT" /\ ct[2].tag = "STR"
  BY <1>3, ClassTokensFacts
<1> HIDE DEF x, t, tw, r, ct
<1>6. /\ weaken \in Seq(Tok) /\ Len(weaken) \in Nat
      /\ \A i \in 1 .. Len(weaken) : weaken[i] = tw
  BY <1>4
<1> HIDE DEF weaken
<1>7. Parts(out, weaken, ct, t, out')
  <2>1. out' = out \o weaken \o ct \o <<t>> /\ out \in Seq(Tok) /\ weaken \in Seq(Tok) /\ ct \in Seq(Tok) /\ t \in Tok
    BY <1>1, <1>2, <1>4, <1>5, <1>6
  <2> QED
    BY ONLY <2>1, ReferenceParts
<1>8. ASSUME NEW i \in Len(out) + 1 .. Len(out') PROVE out'[i].tag # "PAD"
  <2> DEFINE n == Len(out)
             w == Len(weaken)
             c == Len(ct)
  <2>1. Len(out') = n + w + c + 1 /\ n \in Nat /\ w \in Nat /\ c \in 0 .. 2
    BY <1>2, <1>5, <1>6, <1>7 DEF Parts
  <2>2. /\ \A j \in 1 .. w : out'[n + j] = weaken[j]
        /\ \A j \in 1 .. c : out'[n + w + j] = ct[j]
        /\ out'[n + w + c + 1] = t
    BY <1>7 DEF Parts
  <2> HIDE DEF n, w, c
  <2>3. \/ i - n \in 1 .. w /\ n + (i - n) = i
        \/ i - n - w \in 1 .. c /\ n + w + (i - n - w) = i
        \/ i = n + w + c + 1
    <3>1. i \in n + 1 .. n + w + c + 1
      BY <2>1 DEF n
    <3> QED
      BY ONLY <2>1, <3>1
  <2>4. CASE i - n \in 1 .. w /\ n + (i - n) = i
    <3>1. out'[i] = weaken[i - n] /\ weaken[i - n] = tw
      BY <1>6, <2>2, <2>4 DEF w
    <3> QED
      BY <1>4, <3>1
  <2>5. CASE i - n - w \in 1 .. c /\ n + w + (i - n - w) = i
    <3>1. out'[i] = ct[i - n - w]
      BY <2>2, <2>5
    <3>2. c \in 1 .. 2 /\ i - n - w \in {1, 2} /\ (i - n - w = 2 => c = 2)
      BY ONLY <2>1, <2>5
    <3>3. ct[i - n - w].tag \in {"OBJECTV", "OBJECT", "STR"}
      BY <1>5, <3>2 DEF c
    <3> QED
      BY <3>1, <3>3
  <2>6. CASE i = n + w + c + 1
    BY <1>4, <2>2, <2>6
  <2> QED
    BY <2>3, <2>4, <2>5, <2>6
<1> QED
  BY <1>7, <1>8, NoPadKept DEF Parts

LEMMA PadFacts ==
  ASSUME NEW n, NEW s
  PROVE  T("PAD", n, s).tag = "PAD" /\ T("PAD", n, s).trk = FALSE
BY DEF T

LEMMA NextDoc == DocInv /\ [Next]_vars => DocInv'
<1> SUFFICES ASSUME DocInv, [Next]_vars PROVE DocInv'
  OBVIOUS
<1>0. Good /\ Good' /\ IInv /\ out \in Seq(Tok) /\ cur.src \in Node /\ Built
  BY NextGood DEF DocInv, Good, IInv, Types, Local
<1>1. ASSUME ctl' # "done", NoPad(out') PROVE DocInv'
  BY <1>0, <1>1 DEF DocInv, NoPad
<1>2. ASSUME ctl # "done" PROVE NoPad(out)
  BY <1>2 DEF DocInv
<1>3. ASSUME NEW x, NEW rest, CallDumpSv(x, rest), ctl # "done" PROVE DocInv'
  BY <1>1, <1>2, <1>3 DEF CallDumpSv, seen
<1>4. ASSUME NEW op, NextIs(op)
      PROVE  Head(todo).x \in Node /\ Head(todo).s \in Strings /\ ctl = "next" /\ NoPad(out)
  BY <1>0, <1>2, <1>4, PlainTail DEF NextIs, IInv
<1>5. CASE Start \/ DumpElement
  BY <1>3, <1>5 DEF Start, DumpElement, NextIs
<1>6. CASE DumpReturn
  BY <1>1, <1>4, <1>6 DEF DumpReturn
<1>7. CASE DumpElementDirect
  BY <1>0, <1>1, <1>4, <1>7, PlainNoPad DEF DumpElementDirect
<1>8. CASE DumpKeyAsSv
  BY <1>0, <1>1, <1>4, <1>8, SvpvNoPad DEF DumpKeyAsSv
<1>9. CASE srl_dump_hk
  <2> DEFINE s == Head(todo).s
             ofs == str_seenhash[SharedKey(s)]
  <2>1. /\ NextIs("hk") /\ ctl' = ctl
        /\ out' = Append(out, T("COPY", ofs, "")) \/ out' = Append(out, T("STR", 0, s))
    BY <1>9 DEF srl_dump_hk
  <2>2. s \in Strings /\ ctl = "next" /\ NoPad(out)
    BY <1>4, <2>1
  <2>3. ofs \in Nat
    <3>1. SharedKey(s) \in StrPtr
      BY <2>2 DEF SharedKey, StrPtr
    <3> QED
      BY <1>0, <3>1 DEF IInv, Types
  <2> HIDE DEF s, ofs
  <2>4. /\ T("COPY", ofs, "") \in Tok /\ T("COPY", ofs, "").tag # "PAD"
        /\ T("STR", 0, s) \in Tok /\ T("STR", 0, s).tag # "PAD"
    BY <2>2, <2>3, StringsAssumption DEF T, Tok, Tags
  <2>5. NoPad(out')
    BY <1>0, <2>1, <2>2, <2>4, NoPadAppend
  <2> QED
    BY <1>1, <2>1, <2>2, <2>5
<1>10. CASE DumpSeenBefore
  BY <1>0, <1>1, <1>2, <1>10, SeenBeforeNoPad DEF DumpSeenBefore
<1>11. CASE DumpImmortal
  <2> DEFINE t == T(heap[cur.src].v, 0, "")
  <2>1. ctl = "redo" /\ ctl' = "next" /\ out' = Append(out, t) /\ heap[cur.src].k = "imm"
    BY <1>11 DEF DumpImmortal
  <2>2. heap[cur.src].v \in {"CANONICAL_UNDEF", "TRUE", "FALSE"}
    BY <1>0, <2>1, NodeFacts
  <2>3. t \in Tok /\ t.tag # "PAD"
    BY <2>2, StringsAssumption DEF T, Tok, Tags
  <2> HIDE DEF t
  <2> QED
    BY <1>0, <1>1, <1>2, <2>1, <2>3, NoPadAppend
<1>12. CASE DumpScalar
  BY <1>0, <1>1, <1>2, <1>12, PlainNoPad DEF DumpScalar, FirstVisit
<1>13. CASE DumpReference
  BY <1>0, <1>1, <1>2, <1>13, ReferenceNoPad DEF DumpReference, FirstVisit
<1>14. CASE DumpReferenceCroak
  BY <1>1, <1>2, <1>14 DEF DumpReferenceCroak, FirstVisit
<1>15. CASE DumpContainer
  <2> DEFINE x == cur.src
             n == Len(heap[x].to)
             tag == IF heap[x].k = "av" THEN "ARRAY" ELSE "HASH"
             ref == IF heap[x].k = "av" THEN "ARRAYREF" ELSE "HASHREF"
  <2>1. /\ ctl = "redo" /\ ctl' = "next" /\ IsContainer(heap[x])
        /\ \/ out' = Append(SubSeq(out, 1, Len(out) - 1), T(ref, n, ""))
           \/ out' = Append(out, T(tag, n, ""))
    BY <1>15 DEF DumpContainer, FirstVisit
  <2>2. n \in Nat
    BY <1>0, NodeFacts
  <2>3. Len(out) - 1 \in 0 .. Len(out)
    <3>1. Unfinished /\ Len(out) \in Nat
      BY <1>0, <2>1, PassFacts DEF IsContainer
    <3> QED
      BY <3>1 DEF Unfinished
  <2> HIDE DEF n
  <2>4. /\ T(ref, n, "") \in Tok /\ T(ref, n, "").tag # "PAD"
        /\ T(tag, n, "") \in Tok /\ T(tag, n, "").tag # "PAD"
    BY <2>2, StringsAssumption DEF T, Tok, Tags
  <2>5. NoPad(out')
    BY <1>0, <1>2, <2>1, <2>3, <2>4, NoPadReplace, NoPadAppend
  <2> QED
    BY <1>1, <2>1, <2>5
<1>16. CASE DumpUnsupported
  <2> DEFINE t == IF opt.unknown = "undef" THEN T("UNDEF", 0, "") ELSE T("STR", 0, heap[cur.src].v)
             rp == cur.ref_rewrite_pos
  <2>1. /\ ctl = "redo" /\ heap[cur.src].k = "code" /\ ctl' # "done"
        /\ out' = out \/ out' = Append(SubSeq(out, 1, rp - 1), t)
    BY <1>16 DEF DumpUnsupported, FirstVisit
  <2>2. heap[cur.src].v \in Strings
    BY <1>0, NodeFacts
  <2>3. t \in Tok /\ t.tag # "PAD"
    BY <2>2, StringsAssumption DEF T, Tok, Tags
  <2>4. rp - 1 \in 0 .. Len(out)
    <3>1. Unfinished /\ Len(out) \in Nat
      BY <1>0, <2>1, PassFacts
    <3> QED
      BY <3>1 DEF Unfinished
  <2> HIDE DEF t, rp
  <2> QED
    BY <1>0, <1>1, <1>2, <2>1, <2>3, <2>4, NoPadReplace
<1>17. CASE srl_fixup_weakrefs
  <2>1. ctl = "next" /\ ctl' = "done"
    BY <1>17 DEF srl_fixup_weakrefs
  <2>2. NoPad(out) /\ AllResolve(out)
    BY <1>0, <1>2, <2>1 DEF Good
  <2>3. /\ Len(out') = Len(out)
        /\ \A i \in 1 .. Len(out) : out'[i] = out[i] \/ out'[i] = T("PAD", 0, "")
    BY <1>0, <1>17, FixupWrites
  <2>4. ASSUME NEW i \in 1 .. Len(out')
        PROVE  (out'[i].tag = "PAD" => ~out'[i].trk) /\ (out'[i].tag = "COPY" => out'[i].n >= 1)
    <3>1. CASE out'[i] = out[i]
      <4>1. i \in 1 .. Len(out) /\ Resolves(out, i) /\ out[i].tag # "PAD"
        BY <2>2, <2>3 DEF NoPad, AllResolve
      <4>2. out[i].tag = "COPY" => out[i].n \in 1 .. i - 1
        BY <4>1 DEF Resolves
      <4>3. \A n \in 1 .. i - 1 : n >= 1
        BY <1>0, <4>1
      <4> QED
        BY <3>1, <4>1, <4>2, <4>3
    <3>2. CASE out'[i] = T("PAD", 0, "")
      <4>1. out'[i].tag = "PAD" /\ out'[i].trk = FALSE
        BY <3>2, PadFacts
      <4> QED
        BY <4>1
    <3> QED
      BY <2>3, <3>1, <3>2
  <2> QED
    BY <1>0, <2>1, <2>4 DEF DocInv, DocOK
<1>18. CASE UNCHANGED vars
  BY <1>0, <1>18 DEF vars, DocInv, NoPad, DocOK
<1> QED
  BY <1>5, <1>6, <1>7, <1>8, <1>9, <1>10, <1>11, <1>12, <1>13, <1>14, <1>15, <1>16, <1>17,
     <1>18 DEF Next, DumpNext, EncoderStops

LEMMA InitDoc == Init => DocInv
BY InitGood DEF Init, DocInv, NoPad

-----------------------------------------------------------------------------
(* The decoder's memory.  h: the SVs, w: weakref_av, b: ref_bless_av, tr:    *)
(* ref_seenhash, q: the rest of the C stack, p: the position, sp: save_pos.  *)

SvRec == [k : Kinds, v : Strings \cup Tags, to : Seq(Nat), keys : Seq(Strings),
          weak : BOOLEAN, class : Strings, ext : Nat]
TaskRec == [op : {"value", "leave", "weaken", "copied", "element", "pair", "objectv"},
            into : Nat, container : Nat, ofs : Nat]
Bless == [rv : Nat, ofs : Nat]

\* Something other than a weak reference owns SV x.
Holds(h, y, x) == \E i \in 1 .. Len(h[y].to) : h[y].to[i] = x
Owned(h, w, b, x) ==
  \/ h[x].k = "imm" \/ h[x].ext > 0 \/ x \in w
  \/ \E i \in 1 .. Len(b) : b[i].rv = x
  \/ \E y \in 1 .. Len(h) : ~h[y].weak /\ Holds(h, y, x)

\* Pointers lead to SVs, a blank SV has none, and only references are weak.
NodeOK(r, n) == /\ \A i \in 1 .. Len(r.to) : r.to[i] \in 1 .. n
                /\ r.k = "undef" => Len(r.to) = 0
                /\ r.k = "rv" => Len(r.to) = 1
                /\ r.weak => r.k = "rv"
HeapOK(h) == /\ h \in Seq(SvRec) /\ Len(h) >= 4
             /\ \A x \in 1 .. Len(h) : NodeOK(h[x], Len(h))
             /\ \A x \in 1 .. 3 : h[x].k = "imm"

\* What is remembered by offset and what is pointed at is owned.
Kept(h, w, b, tr) ==
  /\ HeapOK(h) /\ b \in Seq(Bless)
  /\ \A o \in DOMAIN tr : tr[o] \in 1 .. Len(h) /\ Owned(h, w, b, tr[o])
  /\ \A x, y \in 1 .. Len(h) : Holds(h, y, x) => Owned(h, w, b, x)

\* A value is read into an SV that is blank and owned; if it is a slot of a
\* container, nothing else knows it yet.
Ready(h, w, b, tr, t) ==
  /\ t.op = "value" /\ t.into \in 1 .. Len(h) /\ h[t.into].k = "undef" /\ Owned(h, w, b, t.into)
  /\ t.container # 0 => /\ t.container \in 1 .. Len(h)
                        /\ \A o \in DOMAIN tr : tr[o] # t.into
                        /\ \A y \in 1 .. Len(h) : Holds(h, y, t.into) => y = t.container

\* Whatever waits behind it finds its SV.
PlainTask(h, t) ==
  /\ t \in TaskRec /\ t.op # "value"
  /\ t.op \in {"element", "pair"} => t.into \in 1 .. Len(h) /\ h[t.into].k \in {"av", "hv"}
  /\ t.op = "weaken" => t.into \in 1 .. Len(h)
PlainTasks(h, q) == q \in Seq(TaskRec) /\ \A i \in 1 .. Len(q) : PlainTask(h, q[i])

Stack(h, w, b, tr, q) ==
  /\ q \in Seq(TaskRec)
  /\ q # <<>> => /\ PlainTasks(h, Tail(q))
                 /\ Ready(h, w, b, tr, Head(q)) \/ PlainTask(h, Head(q))

\* At most one COPY is pending, and then there is a position to go back to.
CopyOK(q, sp) ==
  \A i \in 1 .. Len(q) : q[i].op = "copied" => /\ sp # 0
                                               /\ \A j \in 1 .. Len(q) : q[j].op = "copied" => j = i

Reading(h, w, b, tr, q, p, sp) ==
  /\ Kept(h, w, b, tr) /\ Stack(h, w, b, tr, q) /\ CopyOK(q, sp)
  /\ p \in Nat \ {0} /\ sp \in Nat

DInv == state = "reading" => Reading(sv, weakref_av, ref_bless_av, tracked, work, pos, save_pos)

-----------------------------------------------------------------------------
(* A heap that grows *)

\* Every SV of h is in g, with all its pointers.
Grows(h, g) ==
  /\ Len(h) <= Len(g)
  /\ \A y \in 1 .. Len(h) :
       /\ g[y].ext = h[y].ext /\ (h[y].k # "undef" => g[y].k = h[y].k)
       /\ ~h[y].weak => ~g[y].weak
       /\ Len(h[y].to) <= Len(g[y].to)
       /\ \A i \in 1 .. Len(h[y].to) : g[y].to[i] = h[y].to[i]

LEMMA NodeTypes ==
  ASSUME NEW h, HeapOK(h)
  PROVE  /\ Len(h) \in Nat
         /\ \A y \in 1 .. Len(h) : /\ h[y] \in SvRec /\ h[y].k \in Kinds /\ h[y].to \in Seq(Nat)
                                   /\ Len(h[y].to) \in Nat /\ h[y].weak \in BOOLEAN /\ h[y].ext \in Nat
                                   /\ NodeOK(h[y], Len(h))
<1>1. h \in Seq(SvRec) /\ Len(h) \in Nat
  BY DEF HeapOK
<1> SUFFICES ASSUME NEW y \in 1 .. Len(h)
             PROVE  /\ h[y] \in SvRec /\ h[y].k \in Kinds /\ h[y].to \in Seq(Nat)
                    /\ Len(h[y].to) \in Nat /\ h[y].weak \in BOOLEAN /\ h[y].ext \in Nat
                    /\ NodeOK(h[y], Len(h))
  BY <1>1
<1>2. h[y] \in SvRec
  BY <1>1
<1>3. h[y].k \in Kinds /\ h[y].to \in Seq(Nat) /\ h[y].weak \in BOOLEAN /\ h[y].ext \in Nat
  BY <1>2 DEF SvRec
<1> QED
  BY <1>2, <1>3 DEF HeapOK

LEMMA OwnedGrows ==
  ASSUME NEW h, NEW g, NEW w, NEW b, HeapOK(h), HeapOK(g), Grows(h, g), NEW x \in 1 .. Len(h),
         Owned(h, w, b, x)
  PROVE  Owned(g, w, b, x)
<1>1. Len(h) \in Nat /\ Len(g) \in Nat /\ Len(h) <= Len(g)
  BY NodeTypes DEF Grows
<1>2. CASE h[x].k = "imm" \/ h[x].ext > 0 \/ x \in w \/ \E i \in 1 .. Len(b) : b[i].rv = x
  BY <1>2 DEF Owned, Grows
<1>3. CASE \E y \in 1 .. Len(h) : ~h[y].weak /\ Holds(h, y, x)
  <2>1. PICK y \in 1 .. Len(h) : ~h[y].weak /\ Holds(h, y, x)
    BY <1>3
  <2>2. PICK i \in 1 .. Len(h[y].to) : h[y].to[i] = x
    BY <2>1 DEF Holds
  <2>3. y \in 1 .. Len(g)
    BY <1>1
  <2>4. Len(h[y].to) <= Len(g[y].to) /\ ~g[y].weak /\ g[y].to[i] = x
    BY <2>1, <2>2 DEF Grows
  <2>5. Len(h[y].to) \in Nat /\ Len(g[y].to) \in Nat
    BY <2>3, NodeTypes
  <2>6. i \in 1 .. Len(g[y].to)
    BY <2>4, <2>5
  <2> QED
    BY <2>3, <2>4, <2>6 DEF Owned, Holds
<1> QED
  BY <1>2, <1>3 DEF Owned

\* Queueing a reference to bless makes one more owner.
LEMMA OwnedQueued ==
  ASSUME NEW h, NEW w, NEW b \in Seq(Bless), NEW e \in Bless, NEW x, Owned(h, w, b, x)
  PROVE  Owned(h, w, Append(b, e), x)
<1> DEFINE c == Append(b, e)
<1>1. Len(c) = Len(b) + 1 /\ Len(b) \in Nat /\ \A i \in 1 .. Len(b) : c[i] = b[i]
  OBVIOUS
<1> HIDE DEF c
<1>2. \A i \in 1 .. Len(b) : i \in 1 .. Len(c)
  BY <1>1
<1>3. Owned(h, w, c, x)
  BY <1>1, <1>2 DEF Owned
<1> QED
  BY <1>3 DEF c

LEMMA PlainTasksGrow ==
  ASSUME NEW h, NEW g, NEW q, PlainTasks(h, q), HeapOK(h), HeapOK(g), Grows(h, g)
  PROVE  PlainTasks(g, q)
<1>1. Len(h) \in Nat /\ Len(g) \in Nat /\ Len(h) <= Len(g)
  BY NodeTypes DEF Grows
<1>2. \A x \in 1 .. Len(h) : x \in 1 .. Len(g) /\ (h[x].k \in {"av", "hv"} => g[x].k \in {"av", "hv"})
  BY <1>1 DEF Grows
<1> QED
  BY <1>2 DEF PlainTasks, PlainTask

\* A heap in which x was written and perhaps one SV was added; the SVs x now
\* points at besides the old ones are owned.
Fills(h, g, x) ==
  /\ x \in 1 .. Len(h) /\ g \in Seq(SvRec)
  /\ Len(g) = Len(h) \/ /\ Len(g) = Len(h) + 1
                        /\ Len(g[Len(g)].to) = 0 /\ ~g[Len(g)].weak /\ g[Len(g)].k # "rv"
  /\ \A y \in 1 .. Len(h) : y # x => g[y] = h[y]
  /\ NodeOK(g[x], Len(g)) /\ g[x].ext = h[x].ext /\ ~g[x].weak
  /\ h[x].k # "undef" => g[x].k = h[x].k
  /\ Len(h[x].to) <= Len(g[x].to)
  /\ \A i \in 1 .. Len(h[x].to) : g[x].to[i] = h[x].to[i]

LEMMA FillsGrows ==
  ASSUME NEW h, NEW g, NEW x, HeapOK(h), Fills(h, g, x)
  PROVE  HeapOK(g) /\ Grows(h, g)
<1>1. Len(h) \in Nat /\ Len(g) \in Nat /\ Len(h) <= Len(g) /\ x \in 1 .. Len(h)
  BY NodeTypes DEF Fills
<1>2. Grows(h, g)
  <2>1. ASSUME NEW y \in 1 .. Len(h)
        PROVE  /\ g[y].ext = h[y].ext /\ (h[y].k # "undef" => g[y].k = h[y].k)
               /\ ~h[y].weak => ~g[y].weak
               /\ Len(h[y].to) <= Len(g[y].to)
               /\ \A i \in 1 .. Len(h[y].to) : g[y].to[i] = h[y].to[i]
    <3>1. CASE y = x
      BY <3>1 DEF Fills
    <3>2. CASE y # x
      BY <3>2, NodeTypes DEF Fills
    <3> QED
      BY <3>1, <3>2
  <2> QED
    BY <1>1, <2>1 DEF Grows
<1>3. ASSUME NEW y \in 1 .. Len(g) PROVE NodeOK(g[y], Len(g))
  <2>1. CASE y = x
    BY <2>1 DEF Fills
  <2>2. CASE y # x /\ y \in 1 .. Len(h)
    <3>1. NodeOK(h[y], Len(h)) /\ g[y] = h[y]
      BY <2>2, NodeTypes DEF Fills
    <3>2. \A z \in 1 .. Len(h) : z \in 1 .. Len(g)
      BY <1>1
    <3> QED
      BY <3>1, <3>2 DEF NodeOK
  <2>3. CASE y \notin 1 .. Len(h)
    <3>1. y = Len(g) /\ Len(g) = Len(h) + 1
      BY <1>1, <2>3 DEF Fills
    <3>2. Len(g[y].to) = 0 /\ ~g[y].weak /\ g[y].k # "rv"
      BY <1>1, <3>1 DEF Fills
    <3> QED
      BY <3>2 DEF NodeOK
  <2> QED
    BY <2>1, <2>2, <2>3
<1>4. \A y \in 1 .. 3 : g[y].k = "imm"
  <2>1. \A y \in 1 .. 3 : y \in 1 .. Len(h) /\ h[y].k = "imm"
    BY <1>1 DEF HeapOK
  <2> QED
    BY <1>2, <2>1 DEF Grows
<1> QED
  BY <1>1, <1>2, <1>3, <1>4 DEF HeapOK, Fills

LEMMA KeptFills ==
  ASSUME NEW h, NEW g, NEW w, NEW b, NEW tr, NEW x, Kept(h, w, b, tr), Fills(h, g, x),
         \A i \in 1 .. Len(g[x].to) : i > Len(h[x].to) => Owned(g, w, b, g[x].to[i])
  PROVE  Kept(g, w, b, tr)
<1>1. HeapOK(h) /\ HeapOK(g) /\ Grows(h, g) /\ b \in Seq(Bless)
  BY FillsGrows DEF Kept
<1>2. Len(h) \in Nat /\ Len(g) \in Nat /\ Len(h) <= Len(g) /\ x \in 1 .. Len(h)
  BY <1>1, NodeTypes DEF Fills
<1>3. \A y \in 1 .. Len(h) : y \in 1 .. Len(g)
  BY <1>2
<1>4. \A y \in 1 .. Len(h) : Owned(h, w, b, y) => Owned(g, w, b, y)
  BY <1>1, OwnedGrows
<1>5. \A o \in DOMAIN tr : tr[o] \in 1 .. Len(g) /\ Owned(g, w, b, tr[o])
  BY <1>3, <1>4 DEF Kept
<1>6. ASSUME NEW z \in 1 .. Len(g), NEW y \in 1 .. Len(g), Holds(g, y, z) PROVE Owned(g, w, b, z)
  <2>1. PICK i \in 1 .. Len(g[y].to) : g[y].to[i] = z
    BY <1>6 DEF Holds
  <2>2. ASSUME y \in 1 .. Len(h), i \in 1 .. Len(h[y].to), h[y].to[i] = z PROVE Owned(g, w, b, z)
    <3>1. z \in 1 .. Len(h)
      BY <1>1, <2>2, NodeTypes DEF NodeOK
    <3> QED
      BY <1>4, <2>2, <3>1 DEF Kept, Holds
  <2>3. CASE y \in 1 .. Len(h) /\ y # x
    <3>1. g[y] = h[y]
      BY <2>3 DEF Fills
    <3> QED
      BY <2>1, <2>2, <2>3, <3>1
  <2>4. CASE y = x /\ i > Len(h[x].to)
    BY <2>1, <2>4
  <2>5. CASE y = x /\ ~(i > Len(h[x].to))
    <3>1. i \in 1 .. Len(h[x].to)
      BY <1>1, <1>2, <2>1, <2>5, NodeTypes
    <3>2. h[x].to[i] = z
      BY <2>1, <2>5, <3>1 DEF Fills
    <3> QED
      BY <1>2, <2>2, <2>5, <3>1, <3>2
  <2>6. CASE y \notin 1 .. Len(h)
    <3>1. y = Len(g) /\ Len(g) = Len(h) + 1
      BY <1>2, <2>6 DEF Fills
    <3>2. Len(g[y].to) = 0
      BY <1>2, <3>1 DEF Fills
    <3> QED
      BY <2>1, <3>2
  <2> QED
    BY <2>3, <2>4, <2>5, <2>6
<1> QED
  BY <1>1, <1>5, <1>6 DEF Kept

-----------------------------------------------------------------------------
(* The rest of the C stack *)

LEMMA TaskFacts ==
  ASSUME NEW op \in {"leave", "weaken", "copied", "element", "pair", "objectv"},
         NEW x \in Nat, NEW c \in Nat, NEW ofs \in Nat
  PROVE  /\ D!Value(x, c) \in TaskRec /\ D!Value(x, c).op = "value" /\ D!Value(x, c).into = x
         /\ D!Value(x, c).container = c
         /\ D!Task(op, x, ofs) \in TaskRec /\ D!Task(op, x, ofs).op = op /\ D!Task(op, x, ofs).into = x
BY DEF D!Value, D!Task, TaskRec

LEMMA ValueFacts ==
  ASSUME NEW x \in Nat, NEW c \in Nat
  PROVE  /\ D!Value(x, c) \in TaskRec /\ D!Value(x, c).op = "value" /\ D!Value(x, c).into = x
         /\ D!Value(x, c).container = c
BY DEF D!Value, TaskRec

LEMMA TailTasks ==
  ASSUME NEW q \in Seq(TaskRec), q # <<>>
  PROVE  /\ Head(q) \in TaskRec /\ Head(q) = q[1] /\ Tail(q) \in Seq(TaskRec)
         /\ Len(q) \in Nat /\ Len(q) >= 1 /\ Len(Tail(q)) = Len(q) - 1
         /\ \A i \in 1 .. Len(Tail(q)) : i + 1 \in 2 .. Len(q) /\ Tail(q)[i] = q[i + 1]
<1>1. Len(q) \in Nat /\ Len(q) >= 1
  OBVIOUS
<1> QED
  BY <1>1

LEMMA ConcatTasks ==
  ASSUME NEW a \in Seq(TaskRec), NEW q \in Seq(TaskRec)
  PROVE  /\ a \o q \in Seq(TaskRec) /\ Len(a \o q) = Len(a) + Len(q) /\ Len(a) \in Nat /\ Len(q) \in Nat
         /\ \A i \in 1 .. Len(a \o q) :
              \/ i \in 1 .. Len(a) /\ (a \o q)[i] = a[i]
              \/ i - Len(a) \in 1 .. Len(q) /\ i > Len(a) /\ (a \o q)[i] = q[i - Len(a)]
OBVIOUS

\* A task is popped ...
LEMMA Popped ==
  ASSUME NEW h, NEW w, NEW b, NEW tr, NEW q, NEW sp, q # <<>>, Stack(h, w, b, tr, q), CopyOK(q, sp)
  PROVE  /\ Head(q) \in TaskRec /\ PlainTasks(h, Tail(q)) /\ CopyOK(Tail(q), sp)
         /\ Head(q).op = "copied" => CopyOK(Tail(q), 0) /\ sp # 0
         /\ Head(q).op = "value" => Ready(h, w, b, tr, Head(q))
         /\ Head(q).op # "value" => PlainTask(h, Head(q))
<1>1. /\ Head(q) \in TaskRec /\ Head(q) = q[1] /\ Tail(q) \in Seq(TaskRec)
      /\ Len(q) \in Nat /\ Len(q) >= 1 /\ Len(Tail(q)) = Len(q) - 1
      /\ \A i \in 1 .. Len(Tail(q)) : i + 1 \in 2 .. Len(q) /\ Tail(q)[i] = q[i + 1]
  BY TailTasks DEF Stack
<1>2. \A i, j \in 1 .. Len(Tail(q)) : i + 1 = j + 1 => i = j
  BY <1>1
<1>3. \A i \in 1 .. Len(Tail(q)) : i + 1 \in 1 .. Len(q) /\ i + 1 # 1
  BY <1>1
<1>4. CopyOK(Tail(q), sp)
  BY <1>1, <1>2, <1>3 DEF CopyOK
<1>5. ASSUME Head(q).op = "copied" PROVE CopyOK(Tail(q), 0) /\ sp # 0
  <2>1. 1 \in 1 .. Len(q) /\ q[1].op = "copied"
    BY <1>1, <1>5
  <2>2. sp # 0 /\ \A j \in 1 .. Len(q) : q[j].op = "copied" => j = 1
    BY <2>1 DEF CopyOK
  <2> QED
    BY <1>1, <1>3, <2>2 DEF CopyOK
<1> QED
  BY <1>1, <1>4, <1>5 DEF Stack, Ready, PlainTask

\* ... and what is left is a stack again.
LEMMA PlainStack ==
  ASSUME NEW h, NEW w, NEW b, NEW tr, NEW q, PlainTasks(h, q)
  PROVE  Stack(h, w, b, tr, q)
<1>1. q \in Seq(TaskRec)
  BY DEF PlainTasks
<1> SUFFICES ASSUME q # <<>> PROVE PlainTasks(h, Tail(q)) /\ PlainTask(h, Head(q))
  BY <1>1 DEF Stack
<1>2. /\ Head(q) = q[1] /\ Tail(q) \in Seq(TaskRec) /\ 1 \in 1 .. Len(q)
      /\ \A i \in 1 .. Len(Tail(q)) : i + 1 \in 1 .. Len(q) /\ Tail(q)[i] = q[i + 1]
  <2>1. /\ Head(q) = q[1] /\ Tail(q) \in Seq(TaskRec) /\ Len(q) \in Nat /\ Len(q) >= 1
        /\ \A i \in 1 .. Len(Tail(q)) : i + 1 \in 2 .. Len(q) /\ Tail(q)[i] = q[i + 1]
    BY <1>1, TailTasks
  <2> QED
    BY <2>1
<1> QED
  BY <1>2 DEF PlainTasks

LEMMA PlainConcats ==
  ASSUME NEW h, NEW a, NEW q, PlainTasks(h, a), PlainTasks(h, q)
  PROVE  PlainTasks(h, a \o q)
<1>1. a \in Seq(TaskRec) /\ q \in Seq(TaskRec)
  BY DEF PlainTasks
<1> DEFINE c == a \o q
<1>2. /\ c \in Seq(TaskRec)
      /\ \A i \in 1 .. Len(c) : \/ i \in 1 .. Len(a) /\ c[i] = a[i]
                                \/ i - Len(a) \in 1 .. Len(q) /\ c[i] = q[i - Len(a)]
  BY <1>1, ConcatTasks
<1> HIDE DEF c
<1>3. PlainTasks(h, c)
  BY <1>2 DEF PlainTasks
<1> QED
  BY <1>3 DEF c

LEMMA PlainSingle ==
  ASSUME NEW h, NEW t, PlainTask(h, t)
  PROVE  PlainTasks(h, <<t>>)
<1>1. t \in TaskRec
  BY DEF PlainTask
<1>2. <<t>> \in Seq(TaskRec) /\ \A i \in 1 .. Len(<<t>>) : <<t>>[i] = t
  BY <1>1
<1> QED
  BY <1>2 DEF PlainTasks

LEMMA PlainRepeat ==
  ASSUME NEW h, NEW t, PlainTask(h, t), NEW n \in Nat
  PROVE  PlainTasks(h, D!Repeat(t, n))
<1> DEFINE q == D!Repeat(t, n)
<1>1. t \in TaskRec
  BY DEF PlainTask
<1>2. q = [i \in 1 .. n |-> t]
  BY DEF D!Repeat
<1>3. q \in Seq(TaskRec) /\ Len(q) = n /\ \A i \in 1 .. n : q[i] = t
  BY <1>1, <1>2
<1> HIDE DEF q
<1>4. PlainTasks(h, q)
  BY <1>3 DEF PlainTasks
<1> QED
  BY <1>4 DEF q

LEMMA CopyConcat ==
  ASSUME NEW a \in Seq(TaskRec), NEW q \in Seq(TaskRec), NEW sp, CopyOK(q, sp),
         \A i \in 1 .. Len(a) : a[i].op # "copied"
  PROVE  CopyOK(a \o q, sp)
<1> DEFINE c == a \o q
<1>1. /\ Len(a) \in Nat
      /\ \A i \in 1 .. Len(c) : \/ i \in 1 .. Len(a) /\ c[i] = a[i]
                                \/ i - Len(a) \in 1 .. Len(q) /\ c[i] = q[i - Len(a)]
      /\ Len(c) \in Nat
  BY ConcatTasks
<1> HIDE DEF c
<1>2. \A i \in 1 .. Len(c) : c[i].op = "copied" => i - Len(a) \in 1 .. Len(q) /\ c[i] = q[i - Len(a)]
  BY <1>1
<1>3. \A i, j \in 1 .. Len(c) : i - Len(a) = j - Len(a) => i = j
  BY <1>1
<1>4. CopyOK(c, sp)
  BY <1>2, <1>3 DEF CopyOK
<1> QED
  BY <1>4 DEF c

\* A value to read is pushed.
LEMMA Pushed ==
  ASSUME NEW h, NEW w, NEW b, NEW tr, NEW q, NEW t \in TaskRec, NEW sp,
         Ready(h, w, b, tr, t), PlainTasks(h, q), CopyOK(q, sp)
  PROVE  Stack(h, w, b, tr, <<t>> \o q) /\ CopyOK(<<t>> \o q, sp)
<1> DEFINE a == <<t>>
           c == a \o q
<1>1. q \in Seq(TaskRec) /\ a \in Seq(TaskRec) /\ \A i \in 1 .. Len(a) : a[i] = t
  BY DEF PlainTasks
<1>2. c \in Seq(TaskRec) /\ c # <<>> /\ Head(c) = t /\ Tail(c) = q
  BY <1>1
<1>3. CopyOK(c, sp)
  BY <1>1, CopyConcat DEF Ready
<1> HIDE DEF c
<1>4. Stack(h, w, b, tr, c)
  BY <1>2 DEF Stack
<1> QED
  BY <1>3, <1>4 DEF c

LEMMA TwoTasks ==
  ASSUME NEW s \in TaskRec, NEW t \in TaskRec, NEW q \in Seq(TaskRec)
  PROVE  <<s, t>> \o q = <<s>> \o (<<t>> \o q)
<1>1. <<s>> \in Seq(TaskRec) /\ <<t>> \in Seq(TaskRec)
  OBVIOUS
<1>2. (<<s>> \o <<t>>) \o q = <<s>> \o (<<t>> \o q)
  BY <1>1, ConcatAssociative
<1>3. <<s>> \o <<t>> = <<s, t>>
  <2> DEFINE c == <<s>> \o <<t>>
  <2>1. c \in Seq(TaskRec) /\ Len(c) = 2 /\ c[1] = s /\ c[2] = t
    BY <1>1
  <2>2. <<s, t>> \in Seq(TaskRec) /\ Len(<<s, t>>) = 2
    OBVIOUS
  <2> HIDE DEF c
  <2>3. \A i \in 1 .. Len(c) : c[i] = <<s, t>>[i]
    BY <2>1
  <2>4. c = <<s, t>>
    BY <2>1, <2>2, <2>3, SeqEqual
  <2> QED
    BY <2>4 DEF c
<1> QED
  BY <1>2, <1>3

\* A value and what is to be done once it is read are pushed.
LEMMA PushedTwo ==
  ASSUME NEW h, NEW w, NEW b, NEW tr, NEW q, NEW s \in TaskRec, NEW t, NEW sp,
         Ready(h, w, b, tr, s), PlainTask(h, t), t.op # "copied", PlainTasks(h, q), CopyOK(q, sp)
  PROVE  Stack(h, w, b, tr, <<s, t>> \o q) /\ CopyOK(<<s, t>> \o q, sp)
<1>1. t \in TaskRec /\ q \in Seq(TaskRec)
  BY DEF PlainTask, PlainTasks
<1>2. PlainTasks(h, <<t>> \o q)
  BY PlainSingle, PlainConcats
<1>3. <<t>> \in Seq(TaskRec) /\ \A i \in 1 .. Len(<<t>>) : <<t>>[i].op # "copied"
  BY <1>1
<1>4. CopyOK(<<t>> \o q, sp)
  BY <1>1, <1>3, CopyConcat
<1>5. <<s, t>> \o q = <<s>> \o (<<t>> \o q)
  BY <1>1, TwoTasks
<1> DEFINE c == <<t>> \o q
<1>6. PlainTasks(h, c) /\ CopyOK(c, sp) /\ <<s, t>> \o q = <<s>> \o c
  BY <1>2, <1>4, <1>5
<1> HIDE DEF c
<1>7. Stack(h, w, b, tr, <<s>> \o c) /\ CopyOK(<<s>> \o c, sp)
  BY <1>6, Pushed
<1> QED
  BY <1>6, <1>7

\* A COPY starts: there was none before.
LEMMA PushedCopy ==
  ASSUME NEW h, NEW w, NEW b, NEW tr, NEW q, NEW s \in TaskRec, NEW t, NEW sp, sp # 0,
         Ready(h, w, b, tr, s), PlainTask(h, t), PlainTasks(h, q), CopyOK(q, 0)
  PROVE  Stack(h, w, b, tr, <<s, t>> \o q) /\ CopyOK(<<s, t>> \o q, sp)
<1>1. t \in TaskRec /\ q \in Seq(TaskRec)
  BY DEF PlainTask, PlainTasks
<1>2. PlainTasks(h, <<t>> \o q)
  BY PlainSingle, PlainConcats
<1> DEFINE c == <<t>> \o q
<1>3. CopyOK(c, sp)
  <2>1. \A i \in 1 .. Len(q) : q[i].op # "copied"
    BY DEF CopyOK
  <2>2. \A i \in 1 .. Len(c) : i = 1 \/ (i - 1 \in 1 .. Len(q) /\ c[i] = q[i - 1])
    <3>1. <<t>> \in Seq(TaskRec) /\ Len(<<t>>) = 1
      BY <1>1
    <3>2. \A i \in 1 .. Len(c) : \/ i \in 1 .. Len(<<t>>) /\ c[i] = <<t>>[i]
                                 \/ i - Len(<<t>>) \in 1 .. Len(q) /\ c[i] = q[i - Len(<<t>>)]
      BY <1>1, <3>1, ConcatTasks
    <3> QED
      BY <3>1, <3>2
  <2> HIDE DEF c
  <2>3. \A i \in 1 .. Len(c) : c[i].op = "copied" => i = 1
    BY <2>1, <2>2
  <2> QED
    BY <2>3 DEF CopyOK
<1>4. PlainTasks(h, c) /\ <<s, t>> \o q = <<s>> \o c
  BY <1>1, <1>2, TwoTasks
<1> HIDE DEF c
<1>5. Stack(h, w, b, tr, <<s>> \o c) /\ CopyOK(<<s>> \o c, sp)
  BY <1>3, <1>4, Pushed
<1> QED
  BY <1>4, <1>5

-----------------------------------------------------------------------------
(* SVs as they are made *)

LEMMA BlankFacts ==
  /\ D!Blank \in SvRec /\ D!Blank.k = "undef" /\ Len(D!Blank.to) = 0 /\ ~D!Blank.weak /\ D!Blank.ext = 0
<1>1. PICK none \in Strings : none = ""
  BY StringsAssumption, Zenon
<1>2. D!Blank = [k |-> "undef", v |-> none, to |-> <<>>, keys |-> <<>>, weak |-> FALSE, class |-> none,
                 ext |-> 0]
  BY <1>1, Zenon DEF D!Blank
<1> QED
  BY <1>2 DEF SvRec, Kinds

LEMMA RecordFacts ==
  /\ \A x \in Nat : /\ D!Ref(x) \in SvRec /\ D!Ref(x).k = "rv" /\ Len(D!Ref(x).to) = 1
                    /\ D!Ref(x).to[1] = x /\ ~D!Ref(x).weak
  /\ \A kind \in Kinds, v \in Strings \cup Tags :
       /\ D!Scalar(kind, v) \in SvRec /\ D!Scalar(kind, v).k = kind
       /\ Len(D!Scalar(kind, v).to) = 0 /\ ~D!Scalar(kind, v).weak
  /\ D!Array(<<>>) \in SvRec /\ D!Array(<<>>).k = "av" /\ Len(D!Array(<<>>).to) = 0 /\ ~D!Array(<<>>).weak
  /\ D!Hash(<<>>, <<>>) \in SvRec /\ D!Hash(<<>>, <<>>).k = "hv" /\ Len(D!Hash(<<>>, <<>>).to) = 0
  /\ ~D!Hash(<<>>, <<>>).weak
  /\ \A r \in SvRec : /\ D!Held(r) \in SvRec /\ D!Held(r).k = r.k /\ D!Held(r).to = r.to
                      /\ D!Held(r).weak = r.weak /\ D!Held(r).ext = 1
<1>1. D!Blank \in SvRec /\ Len(D!Blank.to) = 0 /\ ~D!Blank.weak
  BY BlankFacts
<1>2. ASSUME NEW x \in Nat
      PROVE  /\ D!Ref(x) \in SvRec /\ D!Ref(x).k = "rv" /\ Len(D!Ref(x).to) = 1
             /\ D!Ref(x).to[1] = x /\ ~D!Ref(x).weak
  <2> DEFINE one == <<x>>
  <2>1. one \in Seq(Nat) /\ Len(one) = 1 /\ one[1] = x
    OBVIOUS
  <2>2. D!Ref(x) = [D!Blank EXCEPT !.k = "rv", !.to = one]
    BY DEF D!Ref
  <2> HIDE DEF one
  <2> QED
    BY <1>1, <2>1, <2>2 DEF SvRec, Kinds
<1>3. ASSUME NEW kind \in Kinds, NEW v \in Strings \cup Tags
      PROVE  /\ D!Scalar(kind, v) \in SvRec /\ D!Scalar(kind, v).k = kind
             /\ Len(D!Scalar(kind, v).to) = 0 /\ ~D!Scalar(kind, v).weak
  BY <1>1 DEF D!Scalar, SvRec
<1>4. D!Array(<<>>) \in SvRec /\ D!Array(<<>>).k = "av" /\ Len(D!Array(<<>>).to) = 0 /\ ~D!Array(<<>>).weak
  <2> DEFINE none == <<>>
  <2>1. none \in Seq(Nat) /\ Len(none) = 0
    OBVIOUS
  <2>2. D!Array(<<>>) = [D!Blank EXCEPT !.k = "av", !.to = none]
    BY DEF D!Array
  <2> HIDE DEF none
  <2> QED
    BY <1>1, <2>1, <2>2 DEF SvRec, Kinds
<1>5. /\ D!Hash(<<>>, <<>>) \in SvRec /\ D!Hash(<<>>, <<>>).k = "hv" /\ Len(D!Hash(<<>>, <<>>).to) = 0
      /\ ~D!Hash(<<>>, <<>>).weak
  <2> DEFINE none == <<>>
  <2>1. none \in Seq(Nat) /\ none \in Seq(Strings) /\ Len(none) = 0
    OBVIOUS
  <2>2. D!Hash(<<>>, <<>>) = [D!Blank EXCEPT !.k = "hv", !.to = none, !.keys = none]
    BY DEF D!Hash
  <2> HIDE DEF none
  <2> QED
    BY <1>1, <2>1, <2>2 DEF SvRec, Kinds
<1>6. ASSUME NEW r \in SvRec
      PROVE  /\ D!Held(r) \in SvRec /\ D!Held(r).k = r.k /\ D!Held(r).to = r.to
             /\ D!Held(r).weak = r.weak /\ D!Held(r).ext = 1
  BY DEF D!Held, SvRec
<1> QED
  BY <1>2, <1>3, <1>4, <1>5, <1>6

\* A record is stored over a blank SV, and perhaps another SV is made.
LEMMA Stored ==
  ASSUME HeapOK(sv), NEW x \in 1 .. Len(sv), sv[x].k = "undef", NEW r \in SvRec, ~r.weak,
         NEW e \in SvRec, Len(e.to) = 0, ~e.weak, e.k # "rv"
  PROVE  /\ NodeOK(r, Len(sv)) => Fills(sv, D!Store(x, r), x)
         /\ NodeOK(r, Len(sv) + 1) => Fills(sv, Append(D!Store(x, r), e), x)
         /\ Len(D!Store(x, r)) = Len(sv) /\ D!Store(x, r)[x].to = r.to /\ D!Store(x, r)[x].k = r.k
         /\ LET g == Append(D!Store(x, r), e)
            IN  /\ Len(g) = Len(sv) + 1 /\ g[x].to = r.to /\ g[x].k = r.k /\ g[Len(sv) + 1] = e
                /\ \A y \in 1 .. Len(sv) : y # x => g[y] = sv[y]
<1> DEFINE s == [r EXCEPT !.ext = sv[x].ext]
           g == D!Store(x, r)
           f == Append(g, e)
<1>1. /\ sv \in Seq(SvRec) /\ Len(sv) \in Nat /\ sv[x].ext \in Nat /\ Len(sv[x].to) = 0
      /\ sv[x].to \in Seq(Nat)
  BY NodeTypes DEF HeapOK, NodeOK
<1>2. /\ s \in SvRec /\ s.to = r.to /\ s.k = r.k /\ s.weak = r.weak /\ s.ext = sv[x].ext
      /\ r.to \in Seq(Nat)
  BY <1>1 DEF SvRec
<1>3. g = [sv EXCEPT ![x] = s]
  BY DEF D!Store
<1> HIDE DEF s
<1>4. g \in Seq(SvRec) /\ Len(g) = Len(sv) /\ g[x] = s /\ \A y \in 1 .. Len(sv) : y # x => g[y] = sv[y]
  BY <1>1, <1>2, <1>3
<1> HIDE DEF g
<1>5. /\ f \in Seq(SvRec) /\ Len(f) = Len(sv) + 1 /\ f[x] = s /\ f[Len(sv) + 1] = e
      /\ \A y \in 1 .. Len(sv) : y # x => f[y] = sv[y]
  <2>1. f \in Seq(SvRec) /\ Len(f) = Len(g) + 1 /\ f[Len(g) + 1] = e /\ \A y \in 1 .. Len(g) : f[y] = g[y]
    BY <1>4
  <2> HIDE DEF f
  <2> QED
    BY <1>1, <1>4, <2>1
<1> HIDE DEF f
<1>6. Len(r.to) \in Nat /\ Len(sv[x].to) <= Len(r.to) /\ \A i \in 1 .. Len(sv[x].to) : FALSE
  BY <1>1, <1>2
<1>7. ASSUME NodeOK(r, Len(sv)) PROVE Fills(sv, g, x)
  <2>1. NodeOK(g[x], Len(g)) /\ ~g[x].weak
    BY <1>2, <1>4, <1>7 DEF NodeOK
  <2> QED
    BY <1>2, <1>4, <1>6, <2>1 DEF Fills
<1>8. ASSUME NodeOK(r, Len(sv) + 1) PROVE Fills(sv, f, x)
  <2>1. NodeOK(f[x], Len(f)) /\ ~f[x].weak
    BY <1>2, <1>5, <1>8 DEF NodeOK
  <2> QED
    BY <1>2, <1>5, <1>6, <2>1 DEF Fills
<1> QED
  BY <1>2, <1>4, <1>5, <1>7, <1>8 DEF g, f

-----------------------------------------------------------------------------
(* Tokens *)

LEMMA ReceivedFacts ==
  ASSUME out \in Seq(Tok), cut \in Nat
  PROVE  /\ Received \in Seq(Tok) /\ Len(Received) \in Nat /\ Len(Received) <= Len(out)
         /\ \A i \in 1 .. Len(Received) : Received[i] = out[i]
<1> DEFINE n == Len(out) - cut
<1>1. Len(out) \in Nat /\ n \in Int /\ n <= Len(out)
  OBVIOUS
<1>2. \A i \in 1 .. n : i \in 1 .. Len(out) /\ out[i] \in Tok
  BY <1>1
<1> HIDE DEF n
<1>3. /\ SubSeq(out, 1, n) \in Seq(Tok)
      /\ Len(SubSeq(out, 1, n)) = IF 1 <= n THEN n - 1 + 1 ELSE 0
      /\ \A i \in 1 .. n - 1 + 1 : SubSeq(out, 1, n)[i] = out[1 + i - 1]
  BY <1>1, <1>2, SubSeqProperties
<1>4. Received = SubSeq(out, 1, n)
  BY DEF Received, n
<1> DEFINE r == Received
<1>5. /\ r \in Seq(Tok) /\ Len(r) = (IF 1 <= n THEN n ELSE 0)
      /\ \A i \in 1 .. n : r[i] = out[i]
  BY <1>1, <1>3, <1>4
<1> HIDE DEF r
<1>6. Len(r) \in Nat /\ Len(r) <= Len(out) /\ \A i \in 1 .. Len(r) : i \in 1 .. n
  BY <1>1, <1>5
<1> QED
  BY <1>5, <1>6 DEF r

LEMMA TokenFacts ==
  ASSUME DocInv, ctl = "done", cut \in Nat, NEW i \in Nat \ {0}, i <= Len(Received)
  PROVE  /\ i \in 1 .. Len(Received) /\ Received[i] \in Tok
         /\ Received[i].tag \in Tags /\ Received[i].n \in Nat /\ Received[i].s \in Strings
         /\ Received[i].trk \in BOOLEAN
         /\ Received[i].tag = "PAD" => ~Received[i].trk
         /\ Received[i].tag = "COPY" => Received[i].n # 0
<1>1. out \in Seq(Tok) /\ DocOK(out)
  BY DEF DocInv, Good, IInv, Types
<1>2. /\ Received \in Seq(Tok) /\ Len(Received) \in Nat /\ Len(Received) <= Len(out)
      /\ \A j \in 1 .. Len(Received) : Received[j] = out[j]
  BY <1>1, ReceivedFacts
<1>3. i \in 1 .. Len(Received) /\ i \in 1 .. Len(out)
  BY <1>1, <1>2
<1>4. Received[i] \in Tok /\ Received[i] = out[i]
  BY <1>2, <1>3
<1>5. /\ Received[i].tag \in Tags /\ Received[i].n \in Nat /\ Received[i].s \in Strings
      /\ Received[i].trk \in BOOLEAN
  BY <1>4 DEF Tok
<1>6. (out[i].tag = "PAD" => ~out[i].trk) /\ (out[i].tag = "COPY" => out[i].n >= 1)
  BY <1>1, <1>3 DEF DocOK
<1> QED
  BY <1>3, <1>4, <1>5, <1>6

-----------------------------------------------------------------------------
(* Owners are counted *)

\* The decoder's copy of FiniteSets is FiniteSets.
LEMMA SameCardinality == \A S : D!Cardinality(S) = Cardinality(S)
BY Zenon DEF D!Cardinality, Cardinality

LEMMA HoldersFinite ==
  ASSUME NEW h, HeapOK(h), NEW x
  PROVE  /\ IsFiniteSet(D!StrongHolders(h, x))
         /\ \A y \in 1 .. Len(h) : \A i \in 1 .. Len(h[y].to) :
              ~h[y].weak /\ h[y].to[i] = x => <<y, i>> \in D!StrongHolders(h, x)
<1> DEFINE places == [y \in DOMAIN h |-> {y} \X DOMAIN h[y].to]
           sets == {{y} \X DOMAIN h[y].to : y \in DOMAIN h}
<1>1. Len(h) \in Nat /\ DOMAIN h = 1 .. Len(h)
  BY NodeTypes DEF HeapOK
<1>2. \A y \in DOMAIN h : DOMAIN h[y].to = 1 .. Len(h[y].to) /\ Len(h[y].to) \in Nat
  BY <1>1, NodeTypes
<1>3. IsFiniteSet(DOMAIN h) /\ \A y \in DOMAIN h : IsFiniteSet(DOMAIN h[y].to)
  <2>1. IsFiniteSet(DOMAIN h)
    BY <1>1, FS_Interval
  <2>2. ASSUME NEW y \in DOMAIN h PROVE IsFiniteSet(DOMAIN h[y].to)
    BY <1>2, FS_Interval
  <2> QED
    BY <2>1, <2>2
<1>4. \A s \in sets : IsFiniteSet(s)
  <2> SUFFICES ASSUME NEW y \in DOMAIN h PROVE IsFiniteSet({y} \X DOMAIN h[y].to)
    OBVIOUS
  <2>1. IsFiniteSet({y})
    BY FS_Singleton
  <2> QED
    BY <1>3, <2>1, FS_Product
<1>5. places \in Surjection(DOMAIN h, sets)
  BY DEF Surjection
<1>6. IsFiniteSet(sets)
  <2> HIDE DEF places, sets
  <2> QED
    BY <1>3, <1>5, FS_Surjection
<1>7. IsFiniteSet(UNION sets)
  <2> HIDE DEF sets
  <2> QED
    BY <1>4, <1>6, FS_UNION
<1>8. D!StrongHolders(h, x) \in SUBSET UNION sets
  BY DEF D!StrongHolders
<1>9. IsFiniteSet(D!StrongHolders(h, x))
  <2> HIDE DEF sets
  <2> QED
    BY <1>7, <1>8, FS_Subset
<1>10. ASSUME NEW y \in 1 .. Len(h), NEW i \in 1 .. Len(h[y].to), ~h[y].weak, h[y].to[i] = x
       PROVE  <<y, i>> \in D!StrongHolders(h, x)
  <2>1. y \in DOMAIN h /\ i \in DOMAIN h[y].to
    BY <1>1, <1>2
  <2> QED
    BY <1>10, <2>1 DEF D!StrongHolders
<1> QED
  BY <1>9, <1>10

LEMMA QueuedFinite ==
  ASSUME NEW b \in Seq(Bless), NEW x
  PROVE  LET queued == {i \in DOMAIN b : b[i].rv = x}
         IN  /\ IsFiniteSet(queued) /\ Cardinality(queued) \in Nat
             /\ (\E i \in 1 .. Len(b) : b[i].rv = x) => Cardinality(queued) >= 1
             /\ ~(\E i \in 1 .. Len(b) : b[i].rv = x) => Cardinality(queued) = 0
<1> DEFINE queued == {i \in DOMAIN b : b[i].rv = x}
<1>1. Len(b) \in Nat /\ DOMAIN b = 1 .. Len(b)
  OBVIOUS
<1>2. IsFiniteSet(DOMAIN b)
  BY <1>1, FS_Interval
<1>3. queued \in SUBSET DOMAIN b /\ (queued = {} <=> ~\E i \in 1 .. Len(b) : b[i].rv = x)
  BY <1>1
<1> HIDE DEF queued
<1>4. IsFiniteSet(queued)
  BY <1>2, <1>3, FS_Subset
<1>5. Cardinality(queued) \in Nat /\ (Cardinality(queued) = 0 <=> queued = {})
  BY <1>4, FS_CardinalityType, FS_EmptySet
<1> QED
  BY <1>3, <1>4, <1>5 DEF queued

\* An owned SV is counted at least once.
LEMMA OwnersCounted ==
  ASSUME HeapOK(sv), ref_bless_av \in Seq(Bless), NEW x \in 1 .. Len(sv),
         Owned(sv, weakref_av, ref_bless_av, x)
  PROVE  D!Owners(x) >= 1
<1> DEFINE sh == Cardinality(D!StrongHolders(sv, x))
           wk == IF x \in weakref_av THEN 1 ELSE 0
           bl == Cardinality({i \in DOMAIN ref_bless_av : ref_bless_av[i].rv = x})
           rc == IF sv[x].k = "imm" THEN 2 ELSE sh + sv[x].ext
<1>1. D!Owners(x) = rc + wk + bl
  <2>1. /\ D!Cardinality(D!StrongHolders(sv, x)) = sh
        /\ D!Cardinality({i \in DOMAIN ref_bless_av : ref_bless_av[i].rv = x}) = bl
    BY SameCardinality
  <2> QED
    BY <2>1, Zenon DEF D!Owners, D!SvREFCNT
<1>2. IsFiniteSet(D!StrongHolders(sv, x))
  BY HoldersFinite
<1>3. sh \in Nat /\ (sh = 0 <=> D!StrongHolders(sv, x) = {})
  BY <1>2, FS_CardinalityType, FS_EmptySet
<1>4. wk \in Nat /\ (x \in weakref_av => wk >= 1)
  OBVIOUS
<1>5. bl \in Nat /\ ((\E i \in 1 .. Len(ref_bless_av) : ref_bless_av[i].rv = x) => bl >= 1)
  BY QueuedFinite
<1>6. sv[x].ext \in Nat
  BY NodeTypes
<1>7. (\E y \in 1 .. Len(sv) : ~sv[y].weak /\ Holds(sv, y, x)) => sh >= 1
  <2> SUFFICES ASSUME NEW y \in 1 .. Len(sv), ~sv[y].weak, Holds(sv, y, x) PROVE sh >= 1
    OBVIOUS
  <2>1. PICK i \in 1 .. Len(sv[y].to) : sv[y].to[i] = x
    BY DEF Holds
  <2>2. <<y, i>> \in D!StrongHolders(sv, x)
    BY <2>1, HoldersFinite
  <2>3. sh # 0
    BY <1>3, <2>2
  <2> HIDE DEF sh
  <2> QED
    BY <1>3, <2>3
<1> HIDE DEF sh, wk, bl
<1>8. rc \in Nat /\ (sv[x].k = "imm" \/ sv[x].ext > 0 \/ sh >= 1 => rc >= 1)
  BY <1>3, <1>6
<1> HIDE DEF rc
<1>9. rc >= 1 \/ wk >= 1 \/ bl >= 1
  BY <1>4, <1>5, <1>7, <1>8 DEF Owned
<1> QED
  BY <1>1, <1>4, <1>5, <1>8, <1>9

\* If the only place that owns x is one reference, it has exactly one owner.
LEMMA OwnersOne ==
  ASSUME HeapOK(sv), ref_bless_av \in Seq(Bless), NEW x \in 1 .. Len(sv), NEW r \in 1 .. Len(sv),
         sv[x].k # "imm", ~(sv[x].ext > 0), x \notin weakref_av,
         ~\E i \in 1 .. Len(ref_bless_av) : ref_bless_av[i].rv = x,
         Len(sv[r].to) = 1, sv[r].to[1] = x, ~sv[r].weak,
         \A y \in 1 .. Len(sv) : ~sv[y].weak /\ Holds(sv, y, x) => y = r
  PROVE  D!Owners(x) = 1
<1>1. DOMAIN sv = 1 .. Len(sv) /\ \A y \in 1 .. Len(sv) : DOMAIN sv[y].to = 1 .. Len(sv[y].to)
  BY NodeTypes DEF HeapOK
<1>2. D!StrongHolders(sv, x) = {<<r, 1>>}
  <2>1. <<r, 1>> \in D!StrongHolders(sv, x)
    BY HoldersFinite
  <2>2. ASSUME NEW p \in D!StrongHolders(sv, x) PROVE p = <<r, 1>>
    <3>1. PICK y \in DOMAIN sv : p \in {y} \X DOMAIN sv[y].to
      BY <2>2 DEF D!StrongHolders
    <3>2. p = <<y, p[2]>> /\ p[1] = y /\ p[2] \in DOMAIN sv[y].to
      BY <3>1
    <3>3. sv[y].to[p[2]] = x /\ ~sv[y].weak
      BY <2>2, <3>2 DEF D!StrongHolders
    <3>4. y = r
      BY <1>1, <3>2, <3>3 DEF Holds
    <3>5. p[2] = 1
      BY <1>1, <3>2, <3>4
    <3> QED
      BY <3>2, <3>4, <3>5
  <2> QED
    BY <2>1, <2>2
<1>3. Cardinality(D!StrongHolders(sv, x)) = 1
  BY <1>2, FS_Singleton
<1> DEFINE queued == {i \in DOMAIN ref_bless_av : ref_bless_av[i].rv = x}
<1>4. Cardinality(queued) = 0
  <2>1. queued = {}
    <3>1. DOMAIN ref_bless_av = 1 .. Len(ref_bless_av)
      OBVIOUS
    <3> QED
      BY <3>1
  <2> QED
    BY <2>1, FS_EmptySet
<1>5. sv[x].ext = 0
  BY NodeTypes
<1>6. /\ D!Cardinality(D!StrongHolders(sv, x)) = 1 /\ D!Cardinality(queued) = 0
  BY <1>3, <1>4, SameCardinality
<1>7. D!Owners(x) = D!SvREFCNT(sv, x) + 0 + D!Cardinality(queued)
  BY Zenon DEF D!Owners
<1>8. D!SvREFCNT(sv, x) = D!Cardinality(D!StrongHolders(sv, x)) + sv[x].ext
  BY DEF D!SvREFCNT
<1> HIDE DEF queued
<1> QED
  BY <1>5, <1>6, <1>7, <1>8

-----------------------------------------------------------------------------
(* The steps of the decoder *)

\* A whole document, or what is left of it, is being read.
Decoding == DocInv /\ ctl = "done" /\ cut \in Nat /\ DInv /\ state = "reading"

LEMMA KeptTracked ==
  ASSUME NEW h, NEW w, NEW b, NEW tr, NEW p, NEW x \in 1 .. Len(h), Kept(h, w, b, tr), Owned(h, w, b, x)
  PROVE  Kept(h, w, b, D!Put(tr, p, x))
<1> DEFINE t == D!Put(tr, p, x)
<1>1. \A o \in DOMAIN t : t[o] = x \/ (o \in DOMAIN tr /\ t[o] = tr[o])
  BY DEF D!Put
<1> HIDE DEF t
<1>2. Kept(h, w, b, t)
  BY <1>1 DEF Kept
<1> QED
  BY <1>2 DEF t

LEMMA DoingFacts ==
  ASSUME Decoding, work # <<>>
  PROVE  /\ Kept(sv, weakref_av, ref_bless_av, tracked) /\ HeapOK(sv) /\ ref_bless_av \in Seq(Bless)
         /\ Len(sv) \in Nat /\ pos \in Nat \ {0} /\ save_pos \in Nat
         /\ Head(work) \in TaskRec /\ D!into = Head(work).into /\ D!into \in Nat
         /\ PlainTasks(sv, Tail(work)) /\ CopyOK(Tail(work), save_pos)
         /\ Head(work).op = "value" => Ready(sv, weakref_av, ref_bless_av, tracked, Head(work))
         /\ Head(work).op # "value" => PlainTask(sv, Head(work))
         /\ Head(work).op = "copied" => CopyOK(Tail(work), 0) /\ save_pos # 0
<1>1. Reading(sv, weakref_av, ref_bless_av, tracked, work, pos, save_pos)
  BY DEF Decoding, DInv
<1>2. /\ Kept(sv, weakref_av, ref_bless_av, tracked) /\ HeapOK(sv) /\ ref_bless_av \in Seq(Bless)
      /\ Stack(sv, weakref_av, ref_bless_av, tracked, work) /\ CopyOK(work, save_pos)
      /\ pos \in Nat \ {0} /\ save_pos \in Nat
  BY <1>1 DEF Reading, Kept
<1>3. /\ Head(work) \in TaskRec /\ PlainTasks(sv, Tail(work)) /\ CopyOK(Tail(work), save_pos)
      /\ Head(work).op = "copied" => CopyOK(Tail(work), 0) /\ save_pos # 0
      /\ Head(work).op = "value" => Ready(sv, weakref_av, ref_bless_av, tracked, Head(work))
      /\ Head(work).op # "value" => PlainTask(sv, Head(work))
  BY <1>2, Popped
<1>4. D!into = Head(work).into /\ D!into \in Nat
  BY <1>3 DEF D!into, TaskRec
<1> QED
  BY <1>2, <1>3, <1>4, NodeTypes

\* A value is read: the SV for it is blank and owned, and may be remembered.
LEMMA NextTagFacts ==
  ASSUME Decoding, NEW tags, D!NextTag(tags)
  PROVE  /\ work # <<>> /\ pos \in Nat \ {0} /\ save_pos \in Nat /\ Len(sv) \in Nat
         /\ HeapOK(sv) /\ ref_bless_av \in Seq(Bless)
         /\ Kept(sv, weakref_av, ref_bless_av, tracked)
         /\ Kept(sv, weakref_av, ref_bless_av, D!TrackSv(D!into))
         /\ Head(work) \in TaskRec /\ Ready(sv, weakref_av, ref_bless_av, tracked, Head(work))
         /\ D!into \in 1 .. Len(sv) /\ D!into \in Nat /\ sv[D!into].k = "undef"
         /\ Owned(sv, weakref_av, ref_bless_av, D!into) /\ D!into = Head(work).into
         /\ PlainTasks(sv, Tail(work)) /\ CopyOK(Tail(work), save_pos)
         /\ pos <= Len(Received) /\ D!tok \in Tok /\ D!tok.tag \in tags /\ D!tok.n \in Nat
         /\ D!tok.s \in Strings /\ D!tok.tag \in Tags /\ D!tok.trk \in BOOLEAN
         /\ D!tok.tag = "PAD" => ~D!tok.trk
         /\ D!tok.tag = "COPY" => D!tok.n # 0
<1>1. work # <<>> /\ Head(work).op = "value" /\ D!tok.tag \in tags /\ ~(pos > Len(Received))
  BY DEF D!NextTag, D!Doing, D!AtEnd
<1>2. /\ Kept(sv, weakref_av, ref_bless_av, tracked) /\ HeapOK(sv) /\ ref_bless_av \in Seq(Bless)
      /\ Len(sv) \in Nat /\ pos \in Nat \ {0} /\ save_pos \in Nat
      /\ Head(work) \in TaskRec /\ D!into = Head(work).into /\ D!into \in Nat
      /\ PlainTasks(sv, Tail(work)) /\ CopyOK(Tail(work), save_pos)
      /\ Ready(sv, weakref_av, ref_bless_av, tracked, Head(work))
  BY <1>1, DoingFacts
<1>3. /\ D!into \in 1 .. Len(sv) /\ sv[D!into].k = "undef"
      /\ Owned(sv, weakref_av, ref_bless_av, D!into)
  BY <1>2 DEF Ready
<1>4. Kept(sv, weakref_av, ref_bless_av, D!TrackSv(D!into))
  <2>1. D!TrackSv(D!into) = D!Put(tracked, pos, D!into) \/ D!TrackSv(D!into) = tracked
    BY DEF D!TrackSv
  <2> QED
    BY <1>2, <1>3, <2>1, KeptTracked
<1>5. out \in Seq(Tok)
  BY DEF Decoding, DocInv, Good, IInv, Types
<1>6. pos <= Len(Received)
  BY <1>1, <1>2, <1>5, ReceivedFacts DEF Decoding
<1>7. D!tok = Received[pos]
  BY DEF D!tok
<1>8. /\ D!tok \in Tok /\ D!tok.n \in Nat /\ D!tok.s \in Strings /\ D!tok.tag \in Tags
      /\ D!tok.trk \in BOOLEAN
      /\ D!tok.tag = "PAD" => ~D!tok.trk
  BY <1>2, <1>6, <1>7, TokenFacts DEF Decoding
<1>9. D!tok.tag = "COPY" => D!tok.n # 0
  BY <1>2, <1>6, <1>7, TokenFacts DEF Decoding
<1> QED
  BY <1>1, <1>2, <1>3, <1>4, <1>6, <1>8, <1>9

\* Most steps write one SV and leave a stack without a value to read.
LEMMA FilledOver ==
  ASSUME NEW h, NEW g, NEW w, NEW b, NEW tr, NEW x, NEW q, NEW p \in Nat \ {0}, NEW sp \in Nat,
         Kept(h, w, b, tr), Fills(h, g, x), PlainTasks(h, q), CopyOK(q, sp),
         \A i \in 1 .. Len(g[x].to) : i > Len(h[x].to) => Owned(g, w, b, g[x].to[i])
  PROVE  Reading(g, w, b, tr, q, p, sp)
<1>1. Kept(g, w, b, tr)
  BY KeptFills
<1>2. HeapOK(h) /\ HeapOK(g) /\ Grows(h, g)
  BY FillsGrows DEF Kept
<1>3. PlainTasks(g, q)
  BY <1>2, PlainTasksGrow
<1> QED
  BY <1>1, <1>3, PlainStack DEF Reading

LEMMA ScalarStep == ASSUME Decoding, D!ReadScalar PROVE DInv'
<1> DEFINE x == D!into
           r == D!ScalarOf(D!tok)
           g == D!Store(x, r)
<1>1. /\ D!NextTag(D!ScalarTags) /\ sv' = g /\ tracked' = D!TrackSv(x) /\ pos' = pos + 1
      /\ work' = Tail(work)
      /\ UNCHANGED <<save_pos, ref_stashes, ref_bless_av, weakref_av, level, state>>
  BY DEF D!ReadScalar
<1>2. /\ HeapOK(sv) /\ x \in 1 .. Len(sv) /\ sv[x].k = "undef" /\ D!tok.tag \in D!ScalarTags
      /\ Kept(sv, weakref_av, ref_bless_av, D!TrackSv(x)) /\ pos \in Nat \ {0} /\ save_pos \in Nat
      /\ PlainTasks(sv, Tail(work)) /\ CopyOK(Tail(work), save_pos)
      /\ D!tok.s \in Strings /\ D!tok.tag \in Tags
  BY <1>1, NextTagFacts
<1>3. r \in SvRec /\ r.k \notin {"rv"} /\ Len(r.to) = 0 /\ ~r.weak
  <2>1. PICK none \in Strings : none = ""
    BY StringsAssumption, Zenon
  <2>2. \E kind \in Kinds \ {"rv"}, v \in Strings \cup Tags : r = D!Scalar(kind, v)
    <3>1. CASE D!tok.tag = "INT"
      BY <1>2, <3>1 DEF D!ScalarOf, Kinds
    <3>2. CASE D!tok.tag = "STR"
      BY <1>2, <3>2 DEF D!ScalarOf, Kinds
    <3>3. CASE D!tok.tag \in {"UNDEF", "CANONICAL_UNDEF"}
      <4>1. r = D!Scalar("undef", none)
        BY <2>1, <3>3 DEF D!ScalarOf
      <4> QED
        BY <4>1 DEF Kinds
    <3>4. CASE D!tok.tag \in {"TRUE", "FALSE"}
      BY <1>2, <3>4 DEF D!ScalarOf, Kinds
    <3> QED
      BY <1>2, <3>1, <3>2, <3>3, <3>4 DEF D!ScalarTags
  <2> QED
    BY <2>2, RecordFacts
<1> HIDE DEF r, x
<1>4. NodeOK(r, Len(sv))
  BY <1>3 DEF NodeOK
<1>5. Fills(sv, g, x) /\ g[x].to = r.to
  BY <1>2, <1>3, <1>4, Stored, BlankFacts
<1> HIDE DEF g
<1>6. Reading(g, weakref_av, ref_bless_av, D!TrackSv(x), Tail(work), pos + 1, save_pos)
  BY <1>2, <1>3, <1>5, FilledOver
<1> QED
  BY <1>1, <1>6 DEF DInv

LEMMA PadStep == ASSUME Decoding, D!ReadPad PROVE DInv'
<1>1. /\ D!NextTag({"PAD"}) /\ tracked' = D!TrackSv(D!into) /\ pos' = pos + 1
      /\ UNCHANGED <<save_pos, sv, work, ref_stashes, ref_bless_av, weakref_av, level, state>>
  BY DEF D!ReadPad
<1>2. D!tok.tag = "PAD" /\ ~D!tok.trk /\ pos \in Nat \ {0}
  BY <1>1, NextTagFacts
<1>3. tracked' = tracked /\ pos' \in Nat \ {0}
  BY <1>1, <1>2 DEF D!TrackSv
<1> QED
  BY <1>1, <1>3 DEF Decoding, DInv, Reading

LEMMA LeaveStep == ASSUME Decoding, D!Leave PROVE DInv'
<1>1. /\ D!Doing("leave") /\ work' = Tail(work)
      /\ UNCHANGED <<pos, save_pos, sv, tracked, ref_stashes, ref_bless_av, weakref_av, state>>
  BY DEF D!Leave
<1>2. work # <<>>
  BY <1>1 DEF D!Doing
<1> QED
  BY <1>1, <1>2, DoingFacts, PlainStack DEF DInv, Reading

LEMMA CopyDoneStep == ASSUME Decoding, D!CopyDone PROVE DInv'
<1>1. /\ D!Doing("copied") /\ work' = Tail(work) /\ pos' = save_pos /\ save_pos' = 0
      /\ UNCHANGED <<sv, tracked, ref_stashes, ref_bless_av, weakref_av, level, state>>
  BY DEF D!CopyDone
<1>2. work # <<>> /\ Head(work).op = "copied"
  BY <1>1 DEF D!Doing
<1> QED
  BY <1>1, <1>2, DoingFacts, PlainStack DEF DInv, Reading

LEMMA ReadyBlank ==
  ASSUME NEW h, NEW w, NEW b, NEW tr, NEW x \in Nat, x \in 1 .. Len(h), h[x].k = "undef", Owned(h, w, b, x)
  PROVE  D!Value(x, 0) \in TaskRec /\ Ready(h, w, b, tr, D!Value(x, 0))
<1>1. /\ D!Value(x, 0) \in TaskRec /\ D!Value(x, 0).op = "value" /\ D!Value(x, 0).into = x
      /\ D!Value(x, 0).container = 0
  BY TaskFacts
<1> QED
  BY <1>1 DEF Ready

LEMMA PlainMade ==
  ASSUME NEW h, NEW x \in Nat, NEW ofs \in Nat
  PROVE  /\ PlainTask(h, D!Task("leave", x, ofs)) /\ PlainTask(h, D!Task("copied", x, ofs))
         /\ PlainTask(h, D!Task("objectv", x, ofs))
         /\ x \in 1 .. Len(h) => PlainTask(h, D!Task("weaken", x, ofs))
         /\ x \in 1 .. Len(h) /\ h[x].k \in {"av", "hv"} =>
              PlainTask(h, D!Task("element", x, ofs)) /\ PlainTask(h, D!Task("pair", x, ofs))
BY TaskFacts DEF PlainTask

LEMMA WeakenTagStep == ASSUME Decoding, D!ReadWeakenTag PROVE DInv'
<1> DEFINE x == D!into
           q == Tail(work)
           s == D!Value(x, 0)
           t == D!Task("weaken", x, 0)
<1>1. /\ D!NextTag({"WEAKEN"}) /\ tracked' = D!TrackSv(x) /\ pos' = pos + 1 /\ work' = <<s, t>> \o q
      /\ UNCHANGED <<save_pos, sv, ref_stashes, ref_bless_av, weakref_av, level, state>>
  BY DEF D!ReadWeakenTag
<1>2. /\ x \in 1 .. Len(sv) /\ x \in Nat /\ sv[x].k = "undef" /\ Owned(sv, weakref_av, ref_bless_av, x)
      /\ Kept(sv, weakref_av, ref_bless_av, D!TrackSv(x)) /\ pos \in Nat \ {0} /\ save_pos \in Nat
      /\ PlainTasks(sv, q) /\ CopyOK(q, save_pos)
  BY <1>1, NextTagFacts
<1> HIDE DEF x, q
<1>3. s \in TaskRec /\ Ready(sv, weakref_av, ref_bless_av, D!TrackSv(x), s)
  BY <1>2, ReadyBlank
<1>4. PlainTask(sv, t) /\ t.op # "copied"
  <2>1. PlainTask(sv, t)
    BY <1>2, PlainMade
  <2>2. t.op # "copied"
    BY DEF D!Task
  <2> QED
    BY <2>1, <2>2
<1> HIDE DEF s, t
<1>5. Stack(sv, weakref_av, ref_bless_av, D!TrackSv(x), <<s, t>> \o q) /\ CopyOK(<<s, t>> \o q, save_pos)
  BY <1>2, <1>3, <1>4, PushedTwo
<1>6. pos + 1 \in Nat \ {0}
  BY <1>2
<1> QED
  BY <1>1, <1>2, <1>5, <1>6 DEF DInv, Reading

LEMMA ObjectvTagStep == ASSUME Decoding, D!ReadObjectvTag PROVE DInv'
<1> DEFINE x == D!into
           q == Tail(work)
           s == D!Value(x, 0)
           t == D!Task("objectv", x, D!tok.n)
<1>1. /\ D!NextTag({"OBJECTV"}) /\ tracked' = D!TrackSv(x) /\ pos' = pos + 1 /\ work' = <<s, t>> \o q
      /\ UNCHANGED <<save_pos, sv, ref_stashes, ref_bless_av, weakref_av, level, state>>
  BY DEF D!ReadObjectvTag
<1>2. /\ x \in 1 .. Len(sv) /\ x \in Nat /\ sv[x].k = "undef" /\ Owned(sv, weakref_av, ref_bless_av, x)
      /\ Kept(sv, weakref_av, ref_bless_av, D!TrackSv(x)) /\ pos \in Nat \ {0} /\ save_pos \in Nat
      /\ PlainTasks(sv, q) /\ CopyOK(q, save_pos) /\ D!tok.n \in Nat
  BY <1>1, NextTagFacts
<1> HIDE DEF x, q
<1>3. s \in TaskRec /\ Ready(sv, weakref_av, ref_bless_av, D!TrackSv(x), s)
  BY <1>2, ReadyBlank
<1>4. PlainTask(sv, t) /\ t.op # "copied"
  <2>1. PlainTask(sv, t)
    BY <1>2, PlainMade
  <2>2. t.op # "copied"
    BY DEF D!Task
  <2> QED
    BY <2>1, <2>2
<1> HIDE DEF s, t
<1>5. Stack(sv, weakref_av, ref_bless_av, D!TrackSv(x), <<s, t>> \o q) /\ CopyOK(<<s, t>> \o q, save_pos)
  BY <1>2, <1>3, <1>4, PushedTwo
<1>6. pos + 1 \in Nat \ {0}
  BY <1>2
<1> QED
  BY <1>1, <1>2, <1>5, <1>6 DEF DInv, Reading

LEMMA CopyStep == ASSUME Decoding, D!srl_read_copy PROVE DInv'
<1> DEFINE x == D!into
           q == Tail(work)
           s == D!Value(x, 0)
           t == D!Task("copied", 0, 0)
<1>1. /\ D!NextTag({"COPY"}) /\ save_pos = 0 /\ tracked' = D!TrackSv(x) /\ pos' = D!tok.n
      /\ save_pos' = pos + 1 /\ work' = <<s, t>> \o q
      /\ UNCHANGED <<sv, ref_stashes, ref_bless_av, weakref_av, level, state>>
  BY DEF D!srl_read_copy
<1>2. /\ x \in 1 .. Len(sv) /\ x \in Nat /\ sv[x].k = "undef" /\ Owned(sv, weakref_av, ref_bless_av, x)
      /\ Kept(sv, weakref_av, ref_bless_av, D!TrackSv(x)) /\ pos \in Nat \ {0}
      /\ PlainTasks(sv, q) /\ CopyOK(q, 0) /\ D!tok.n \in Nat \ {0}
  BY <1>1, NextTagFacts
<1> HIDE DEF x, q
<1>3. s \in TaskRec /\ Ready(sv, weakref_av, ref_bless_av, D!TrackSv(x), s)
  BY <1>2, ReadyBlank
<1>4. PlainTask(sv, t)
  BY PlainMade
<1>5. pos + 1 \in Nat /\ pos + 1 # 0
  BY <1>2
<1> HIDE DEF s, t
<1>6. Stack(sv, weakref_av, ref_bless_av, D!TrackSv(x), <<s, t>> \o q) /\ CopyOK(<<s, t>> \o q, pos + 1)
  BY <1>2, <1>3, <1>4, <1>5, PushedCopy
<1> QED
  BY <1>1, <1>2, <1>5, <1>6 DEF DInv, Reading

LEMMA KeptQueued ==
  ASSUME NEW h, NEW w, NEW b, NEW tr, NEW e \in Bless, Kept(h, w, b, tr)
  PROVE  Kept(h, w, Append(b, e), tr)
<1>1. b \in Seq(Bless)
  BY DEF Kept
<1>2. \A x : Owned(h, w, b, x) => Owned(h, w, Append(b, e), x)
  BY <1>1, OwnedQueued
<1>3. Append(b, e) \in Seq(Bless)
  BY <1>1
<1> DEFINE c == Append(b, e)
<1> HIDE DEF c
<1>4. Kept(h, w, c, tr)
  BY <1>2, <1>3 DEF Kept, c
<1> QED
  BY <1>4 DEF c

LEMMA ObjectStep == ASSUME Decoding, D!srl_read_object PROVE DInv'
<1> DEFINE x == D!into
           q == Tail(work)
           s == D!Value(x, 0)
           e == [rv |-> x, ofs |-> D!ClassOfs]
           c == Append(ref_bless_av, e)
<1>1. /\ D!NextTag({"OBJECT"}) /\ D!ClassOk /\ tracked' = D!TrackSv(x) /\ pos' = pos + 2
      /\ ref_bless_av' = c /\ work' = <<s>> \o q
      /\ UNCHANGED <<save_pos, sv, weakref_av, level, state>>
  BY DEF D!srl_read_object
<1>2. /\ x \in 1 .. Len(sv) /\ x \in Nat /\ sv[x].k = "undef" /\ Owned(sv, weakref_av, ref_bless_av, x)
      /\ Kept(sv, weakref_av, ref_bless_av, D!TrackSv(x)) /\ pos \in Nat \ {0} /\ save_pos \in Nat
      /\ PlainTasks(sv, q) /\ CopyOK(q, save_pos) /\ ref_bless_av \in Seq(Bless)
  BY <1>1, NextTagFacts
<1>3. D!ClassOfs \in Nat
  <2>1. out \in Seq(Tok)
    BY DEF Decoding, DocInv, Good, IInv, Types
  <2>2. pos + 1 \in Nat \ {0} /\ pos + 1 <= Len(Received)
    <3>1. pos < Len(Received) /\ Len(Received) \in Nat
      BY <1>1, <2>1, ReceivedFacts DEF Decoding, D!ClassOk
    <3> QED
      BY <1>2, <3>1
  <2>3. Received[pos + 1].n \in Nat
    BY <2>2, TokenFacts DEF Decoding
  <2> QED
    BY <2>2, <2>3 DEF D!ClassOfs
<1>4. e \in Bless
  BY <1>2, <1>3 DEF Bless
<1> HIDE DEF x, q, e
<1>5. /\ Kept(sv, weakref_av, c, D!TrackSv(x)) /\ Owned(sv, weakref_av, c, x)
  BY <1>2, <1>4, KeptQueued, OwnedQueued
<1> HIDE DEF c
<1>6. s \in TaskRec /\ Ready(sv, weakref_av, c, D!TrackSv(x), s)
  BY <1>2, <1>5, ReadyBlank
<1> HIDE DEF s
<1>7. Stack(sv, weakref_av, c, D!TrackSv(x), <<s>> \o q) /\ CopyOK(<<s>> \o q, save_pos)
  BY <1>2, <1>6, Pushed
<1>8. pos + 2 \in Nat \ {0}
  BY <1>2
<1> QED
  BY <1>1, <1>2, <1>5, <1>7, <1>8 DEF DInv, Reading

LEMMA ObjectvStep == ASSUME Decoding, D!srl_read_objectv PROVE DInv'
<1> DEFINE e == [rv |-> D!into, ofs |-> Head(work).ofs]
           c == Append(ref_bless_av, e)
<1>1. /\ work # <<>> /\ ref_bless_av' = c /\ work' = Tail(work)
      /\ UNCHANGED <<pos, save_pos, sv, tracked, ref_stashes, weakref_av, level, state>>
  BY DEF D!srl_read_objectv, D!Doing
<1>2. /\ Kept(sv, weakref_av, ref_bless_av, tracked) /\ pos \in Nat \ {0} /\ save_pos \in Nat
      /\ Head(work) \in TaskRec /\ D!into \in Nat
      /\ PlainTasks(sv, Tail(work)) /\ CopyOK(Tail(work), save_pos)
  BY <1>1, DoingFacts
<1>3. e \in Bless
  BY <1>2 DEF Bless, TaskRec
<1> HIDE DEF e
<1>4. Kept(sv, weakref_av, c, tracked)
  BY <1>2, <1>3, KeptQueued
<1> HIDE DEF c
<1> QED
  BY <1>1, <1>2, <1>4, PlainStack DEF DInv, Reading

LEMMA RefpStep == ASSUME Decoding, D!srl_read_refp PROVE DInv'
<1> DEFINE x == D!into
           tr == D!TrackSv(x)
           y == tr[D!tok.n]
           r == D!Ref(y)
           g == D!Store(x, r)
<1>1. /\ D!NextTag({"REFP"}) /\ D!tok.n \in DOMAIN tr /\ tracked' = tr /\ pos' = pos + 1
      /\ sv' = g /\ work' = Tail(work)
      /\ UNCHANGED <<save_pos, ref_stashes, ref_bless_av, weakref_av, level, state>>
  BY DEF D!srl_read_refp
<1>2. /\ HeapOK(sv) /\ x \in 1 .. Len(sv) /\ sv[x].k = "undef" /\ Len(sv) \in Nat
      /\ Kept(sv, weakref_av, ref_bless_av, tr) /\ pos \in Nat \ {0} /\ save_pos \in Nat
      /\ PlainTasks(sv, Tail(work)) /\ CopyOK(Tail(work), save_pos)
  BY <1>1, NextTagFacts
<1> HIDE DEF x, tr
<1>3. y \in 1 .. Len(sv) /\ Owned(sv, weakref_av, ref_bless_av, y)
  BY <1>1, <1>2 DEF Kept
<1> HIDE DEF y
<1>4. r \in SvRec /\ r.k = "rv" /\ Len(r.to) = 1 /\ r.to[1] = y /\ ~r.weak
  BY <1>2, <1>3, RecordFacts
<1> HIDE DEF r
<1>5. NodeOK(r, Len(sv))
  BY <1>3, <1>4 DEF NodeOK
<1>6. Fills(sv, g, x) /\ g[x].to = r.to
  BY <1>2, <1>4, <1>5, Stored, BlankFacts
<1> HIDE DEF g
<1>7. Owned(g, weakref_av, ref_bless_av, y)
  BY <1>2, <1>3, <1>6, FillsGrows, OwnedGrows
<1>8. \A i \in 1 .. Len(g[x].to) : g[x].to[i] = y
  BY <1>4, <1>6
<1>9. Reading(g, weakref_av, ref_bless_av, tr, Tail(work), pos + 1, save_pos)
  <2>1. pos + 1 \in Nat \ {0}
    BY <1>2
  <2> QED
    BY <1>2, <1>6, <1>7, <1>8, <2>1, FilledOver
<1> QED
  BY <1>1, <1>9 DEF DInv

\* The heap when x becomes a reference to a new SV that starts as e.
WithReferent(x, e) == Append(D!Store(x, D!Ref(D!Fresh)), e)

\* A reference is stored over a blank SV, and the SV it refers to is made.
LEMMA ReferentMade ==
  ASSUME NEW tr, NEW x, NEW e \in SvRec, Len(e.to) = 0, ~e.weak, e.k # "rv",
         Kept(sv, weakref_av, ref_bless_av, tr), x \in 1 .. Len(sv), sv[x].k = "undef"
  PROVE  LET g == WithReferent(x, e)
         IN  /\ Kept(g, weakref_av, ref_bless_av, tr) /\ HeapOK(g) /\ HeapOK(sv) /\ Grows(sv, g)
             /\ D!Fresh \in Nat /\ D!Fresh \in 1 .. Len(g) /\ g[D!Fresh] = e
             /\ Owned(g, weakref_av, ref_bless_av, D!Fresh)
<1> DEFINE n == D!Fresh
           r == D!Ref(n)
           g == Append(D!Store(x, r), e)
<1>1. HeapOK(sv) /\ Len(sv) \in Nat
  BY NodeTypes DEF Kept
<1>2. n = Len(sv) + 1 /\ n \in Nat
  BY <1>1 DEF D!Fresh
<1> HIDE DEF n
<1>3. r \in SvRec /\ r.k = "rv" /\ Len(r.to) = 1 /\ r.to[1] = n /\ ~r.weak
  BY <1>2, RecordFacts
<1> HIDE DEF r
<1>4. NodeOK(r, Len(sv) + 1)
  BY <1>1, <1>2, <1>3 DEF NodeOK
<1>5. Fills(sv, g, x) /\ Len(g) = Len(sv) + 1 /\ g[x].to = r.to /\ g[Len(sv) + 1] = e
  BY <1>1, <1>3, <1>4, Stored
<1> HIDE DEF g
<1>6. HeapOK(g) /\ Grows(sv, g)
  BY <1>1, <1>5, FillsGrows
<1>7. Holds(g, x, n) /\ ~g[x].weak /\ x \in 1 .. Len(g)
  BY <1>1, <1>3, <1>5 DEF Holds, Fills
<1>8. Owned(g, weakref_av, ref_bless_av, n)
  BY <1>7 DEF Owned
<1>9. \A i \in 1 .. Len(g[x].to) : g[x].to[i] = n
  BY <1>3, <1>5
<1>10. Kept(g, weakref_av, ref_bless_av, tr)
  BY <1>5, <1>8, <1>9, KeptFills
<1>11. n \in 1 .. Len(g) /\ g[n] = e
  BY <1>1, <1>2, <1>5
<1> QED
  BY <1>1, <1>2, <1>6, <1>8, <1>10, <1>11 DEF g, r, n, WithReferent

LEMMA RefnStep == ASSUME Decoding, D!srl_read_refn PROVE DInv'
<1> DEFINE x == D!into
           tr == D!TrackSv(x)
           q == Tail(work)
<1>1. /\ D!NextTag({"REFN"}) /\ tracked' = tr
      /\ UNCHANGED <<save_pos, ref_stashes, ref_bless_av, weakref_av, state>>
  BY DEF D!srl_read_refn
<1>2. /\ HeapOK(sv) /\ x \in 1 .. Len(sv) /\ sv[x].k = "undef" /\ Len(sv) \in Nat
      /\ Kept(sv, weakref_av, ref_bless_av, tr) /\ pos \in Nat \ {0} /\ save_pos \in Nat
      /\ PlainTasks(sv, q) /\ CopyOK(q, save_pos)
  BY <1>1, NextTagFacts
<1>3. CASE D!AheadIsImmortal
  <2> DEFINE y == D!Immortal(Received[pos + 1].tag)
             r == D!Ref(y)
             g == D!Store(x, r)
  <2>1. sv' = g /\ pos' = pos + 2 /\ work' = q
    BY <1>3 DEF D!srl_read_refn
  <2>2. y \in 1 .. 3
    <3>1. Received[pos + 1].tag \in {"TRUE", "FALSE", "CANONICAL_UNDEF"}
      BY <1>3 DEF D!AheadIsImmortal
    <3> QED
      BY <3>1 DEF D!Immortal, D!Yes, D!No, D!Undef
  <2> HIDE DEF x, tr, q, y
  <2>3. y \in 1 .. Len(sv) /\ y \in Nat /\ sv[y].k = "imm"
    <3>1. Len(sv) >= 4 /\ sv[y].k = "imm"
      BY <1>2, <2>2 DEF HeapOK
    <3> QED
      BY <1>2, <2>2, <3>1
  <2>4. Owned(sv, weakref_av, ref_bless_av, y)
    BY <2>3 DEF Owned
  <2>5. r \in SvRec /\ r.k = "rv" /\ Len(r.to) = 1 /\ r.to[1] = y /\ ~r.weak
    BY <2>3, RecordFacts
  <2> HIDE DEF r
  <2>6. NodeOK(r, Len(sv))
    BY <2>3, <2>5 DEF NodeOK
  <2>7. Fills(sv, g, x) /\ g[x].to = r.to
    BY <1>2, <2>5, <2>6, Stored, BlankFacts
  <2> HIDE DEF g
  <2>8. Owned(g, weakref_av, ref_bless_av, y)
    BY <1>2, <2>3, <2>4, <2>7, FillsGrows, OwnedGrows
  <2>9. \A i \in 1 .. Len(g[x].to) : g[x].to[i] = y
    BY <2>5, <2>7
  <2>10. pos + 2 \in Nat \ {0}
    BY <1>2
  <2>11. Reading(g, weakref_av, ref_bless_av, tr, q, pos + 2, save_pos)
    BY <1>2, <2>7, <2>8, <2>9, <2>10, FilledOver
  <2> QED
    BY <1>1, <2>1, <2>11 DEF DInv
<1>4. CASE ~D!AheadIsImmortal
  <2> DEFINE n == D!Fresh
             g == WithReferent(x, D!Blank)
             s == D!Value(n, 0)
             t == D!Task("leave", 0, 0)
  <2>1. sv' = g /\ pos' = pos + 1 /\ work' = <<s, t>> \o q
    BY <1>4 DEF D!srl_read_refn, WithReferent
  <2>2. /\ Kept(g, weakref_av, ref_bless_av, tr) /\ HeapOK(g) /\ Grows(sv, g)
        /\ n \in Nat /\ n \in 1 .. Len(g) /\ g[n] = D!Blank /\ Owned(g, weakref_av, ref_bless_av, n)
    BY <1>2, ReferentMade, BlankFacts
  <2> HIDE DEF g, n, tr, q, x
  <2>3. PlainTasks(g, q)
    BY <1>2, <2>2, PlainTasksGrow
  <2>4. s \in TaskRec /\ Ready(g, weakref_av, ref_bless_av, tr, s)
    BY <2>2, BlankFacts, ReadyBlank
  <2>5. PlainTask(g, t) /\ t.op # "copied"
    <3>1. PlainTask(g, t)
      BY PlainMade
    <3>2. t.op # "copied"
      BY DEF D!Task
    <3> QED
      BY <3>1, <3>2
  <2> HIDE DEF s, t
  <2>6. Stack(g, weakref_av, ref_bless_av, tr, <<s, t>> \o q) /\ CopyOK(<<s, t>> \o q, save_pos)
    BY <1>2, <2>3, <2>4, <2>5, PushedTwo
  <2>7. pos + 1 \in Nat \ {0}
    BY <1>2
  <2> QED
    BY <1>1, <1>2, <2>1, <2>2, <2>6, <2>7 DEF DInv, Reading
<1> QED
  BY <1>3, <1>4

\* The members of a container wait on the stack.
LEMMA MembersPlain ==
  ASSUME NEW h, NEW x \in Nat, x \in 1 .. Len(h), h[x].k \in {"av", "hv"}, D!tok.n \in Nat
  PROVE  PlainTasks(h, D!MembersOf(x)) /\ \A i \in 1 .. Len(D!MembersOf(x)) : D!MembersOf(x)[i].op # "copied"
<1> DEFINE m == D!MembersOf(x)
<1>1. PICK t \in {D!Task("element", x, 0), D!Task("pair", x, 0)} : m = D!Repeat(t, D!tok.n)
  BY DEF D!MembersOf
<1>2. PlainTask(h, t) /\ t.op # "copied"
  <2>1. PlainTask(h, t)
    BY PlainMade
  <2>2. t.op # "copied"
    BY DEF D!Task
  <2> QED
    BY <2>1, <2>2
<1>3. m = [i \in 1 .. D!tok.n |-> t] /\ PlainTasks(h, m)
  BY <1>1, <1>2, PlainRepeat DEF D!Repeat
<1> HIDE DEF m
<1>4. m \in Seq(TaskRec) /\ DOMAIN m = 1 .. Len(m)
  BY <1>3 DEF PlainTasks
<1>5. \A i \in 1 .. Len(m) : m[i] = t
  BY <1>3, <1>4
<1> QED
  BY <1>2, <1>3, <1>5 DEF m

LEMMA EmptyFacts ==
  LET e == D!EmptyContainer
  IN  e \in SvRec /\ e.k \in {"av", "hv"} /\ Len(e.to) = 0 /\ ~e.weak
<1>1. D!EmptyContainer = D!Array(<<>>) \/ D!EmptyContainer = D!Hash(<<>>, <<>>)
  BY DEF D!EmptyContainer
<1> QED
  BY <1>1, RecordFacts

LEMMA ContainerStep == ASSUME Decoding, D!ReadContainer PROVE DInv'
<1> DEFINE x == D!into
           tr == D!TrackSv(x)
           q == Tail(work)
           e == D!EmptyContainer
<1>1. /\ D!NextTag({"ARRAY", "HASH", "ARRAYREF", "HASHREF"}) /\ tracked' = tr /\ pos' = pos + 1
      /\ UNCHANGED <<save_pos, ref_stashes, ref_bless_av, weakref_av, state>>
  BY DEF D!ReadContainer
<1>2. /\ HeapOK(sv) /\ x \in 1 .. Len(sv) /\ x \in Nat /\ sv[x].k = "undef" /\ Len(sv) \in Nat
      /\ Kept(sv, weakref_av, ref_bless_av, tr) /\ pos \in Nat \ {0} /\ save_pos \in Nat
      /\ PlainTasks(sv, q) /\ CopyOK(q, save_pos) /\ D!tok.n \in Nat
  BY <1>1, NextTagFacts
<1>3. e \in SvRec /\ e.k \in {"av", "hv"} /\ Len(e.to) = 0 /\ ~e.weak
  BY EmptyFacts
<1>4. pos + 1 \in Nat \ {0}
  BY <1>2
<1>5. CASE D!IsRefTag
  <2> DEFINE n == D!Fresh
             g == WithReferent(x, e)
             m == D!MembersOf(n)
             t == D!Task("leave", 0, 0)
             a == m \o <<t>>
  <2>1. sv' = g /\ work' = a \o q
    BY <1>5 DEF D!ReadContainer, WithReferent
  <2> HIDE DEF e, tr, q, x
  <2>2. /\ Kept(g, weakref_av, ref_bless_av, tr) /\ HeapOK(g) /\ Grows(sv, g)
        /\ n \in Nat /\ n \in 1 .. Len(g) /\ g[n] = e
    <3>1. e \in SvRec /\ Len(e.to) = 0 /\ ~e.weak /\ e.k # "rv"
      BY <1>3
    <3>2. Kept(sv, weakref_av, ref_bless_av, tr) /\ x \in 1 .. Len(sv) /\ sv[x].k = "undef"
      BY <1>2
    <3> HIDE DEF n, g
    <3> QED
      BY <3>1, <3>2, ReferentMade, Zenon DEF n, g
  <2> HIDE DEF g, n
  <2>3. PlainTasks(g, q)
    BY <1>2, <2>2, PlainTasksGrow
  <2>4. PlainTasks(g, m) /\ \A i \in 1 .. Len(m) : m[i].op # "copied"
    BY <1>2, <1>3, <2>2, MembersPlain
  <2>5. PlainTask(g, t) /\ t.op # "copied"
    <3>1. PlainTask(g, t)
      BY PlainMade
    <3>2. t.op # "copied"
      BY DEF D!Task
    <3> QED
      BY <3>1, <3>2
  <2> HIDE DEF m, t
  <2>6. PlainTasks(g, a) /\ a \in Seq(TaskRec)
    <3>1. PlainTasks(g, a)
      BY <2>4, <2>5, PlainSingle, PlainConcats
    <3> QED
      BY <3>1 DEF PlainTasks
  <2>7. \A i \in 1 .. Len(a) : a[i].op # "copied"
    <3>1. m \in Seq(TaskRec) /\ <<t>> \in Seq(TaskRec) /\ \A i \in 1 .. Len(<<t>>) : <<t>>[i] = t
      BY <2>4, <2>5 DEF PlainTasks, PlainTask
    <3>2. \A i \in 1 .. Len(a) : \/ i \in 1 .. Len(m) /\ a[i] = m[i]
                                 \/ i - Len(m) \in 1 .. Len(<<t>>) /\ a[i] = <<t>>[i - Len(m)]
      BY <3>1, ConcatTasks
    <3> HIDE DEF a
    <3> QED
      BY <2>4, <2>5, <3>1, <3>2
  <2> HIDE DEF a
  <2>8. q \in Seq(TaskRec)
    BY <1>2 DEF PlainTasks
  <2>9. PlainTasks(g, a \o q) /\ CopyOK(a \o q, save_pos)
    BY <1>2, <2>3, <2>6, <2>7, <2>8, PlainConcats, CopyConcat
  <2>10. Reading(g, weakref_av, ref_bless_av, tr, a \o q, pos + 1, save_pos)
    BY <1>2, <1>4, <2>2, <2>9, PlainStack DEF Reading
  <2> QED
    BY <1>1, <2>1, <2>10 DEF DInv
<1>6. CASE ~D!IsRefTag
  <2> DEFINE g == D!Store(x, e)
             m == D!MembersOf(x)
  <2>1. sv' = g /\ work' = m \o q
    BY <1>6 DEF D!ReadContainer
  <2> HIDE DEF e, x, tr, q
  <2>2. NodeOK(e, Len(sv))
    BY <1>3 DEF NodeOK
  <2>3. Fills(sv, g, x) /\ g[x].to = e.to /\ g[x].k = e.k /\ Len(g) = Len(sv)
    BY <1>2, <1>3, <2>2, Stored, BlankFacts
  <2> HIDE DEF g
  <2>4. Kept(g, weakref_av, ref_bless_av, tr)
    BY <1>2, <1>3, <2>3, KeptFills
  <2>5. PlainTasks(g, q)
    BY <1>2, <2>3, FillsGrows, PlainTasksGrow
  <2>6. PlainTasks(g, m) /\ \A i \in 1 .. Len(m) : m[i].op # "copied"
    BY <1>2, <1>3, <2>3, MembersPlain
  <2> HIDE DEF m
  <2>7. q \in Seq(TaskRec) /\ m \in Seq(TaskRec)
    BY <1>2, <2>6 DEF PlainTasks
  <2>8. PlainTasks(g, m \o q) /\ CopyOK(m \o q, save_pos)
    BY <1>2, <2>5, <2>6, <2>7, PlainConcats, CopyConcat
  <2>9. Reading(g, weakref_av, ref_bless_av, tr, m \o q, pos + 1, save_pos)
    BY <1>2, <1>4, <2>4, <2>8, PlainStack DEF Reading
  <2> QED
    BY <1>1, <2>1, <2>9 DEF DInv
<1> QED
  BY <1>5, <1>6

\* A container gets a slot: a fresh blank SV that only the slot points at.
LEMMA SlotMade ==
  ASSUME NEW x \in Nat, x \in 1 .. Len(sv), sv[x].k \in {"av", "hv"},
         NEW r \in SvRec, r.k = sv[x].k, r.weak = sv[x].weak, r.ext = sv[x].ext,
         r.to = Append(sv[x].to, D!Fresh), NEW q, PlainTasks(sv, q), NEW p \in Nat \ {0},
         NEW sp \in Nat, CopyOK(q, sp), Kept(sv, weakref_av, ref_bless_av, tracked)
  PROVE  Reading(Append([sv EXCEPT ![x] = r], D!Blank), weakref_av, ref_bless_av, tracked,
                 <<D!Value(D!Fresh, x)>> \o q, p, sp)
<1> DEFINE n == D!Fresh
           f == [sv EXCEPT ![x] = r]
           g == Append(f, D!Blank)
           s == D!Value(n, x)
           l == Len(sv[x].to)
<1>1. HeapOK(sv) /\ sv \in Seq(SvRec) /\ Len(sv) \in Nat
  BY NodeTypes DEF Kept, HeapOK
<1>2. n = Len(sv) + 1 /\ n \in Nat
  BY <1>1 DEF D!Fresh
<1> HIDE DEF n
<1>3. /\ sv[x].to \in Seq(Nat) /\ l \in Nat /\ NodeOK(sv[x], Len(sv)) /\ sv[x].weak \in BOOLEAN
  BY <1>1, NodeTypes
<1>4. ~sv[x].weak
  BY <1>3 DEF NodeOK
<1>5. /\ Len(r.to) = l + 1 /\ r.to[l + 1] = n /\ \A i \in 1 .. l : r.to[i] = sv[x].to[i]
  BY <1>2, <1>3 DEF n
<1>6. f \in Seq(SvRec) /\ Len(f) = Len(sv) /\ f[x] = r /\ \A y \in 1 .. Len(sv) : y # x => f[y] = sv[y]
  BY <1>1
<1> HIDE DEF f
<1>7. /\ g \in Seq(SvRec) /\ Len(g) = Len(sv) + 1 /\ g[Len(sv) + 1] = D!Blank
      /\ \A y \in 1 .. Len(sv) : g[y] = f[y]
  BY <1>6, BlankFacts
<1> HIDE DEF g
<1>8. Fills(sv, g, x)
  <2>1. NodeOK(r, Len(g))
    <3>1. \A i \in 1 .. Len(r.to) : r.to[i] \in 1 .. Len(g)
      <4> SUFFICES ASSUME NEW i \in 1 .. Len(r.to) PROVE r.to[i] \in 1 .. Len(g)
        OBVIOUS
      <4>1. CASE i \in 1 .. l
        <5>1. sv[x].to[i] \in 1 .. Len(sv)
          BY <1>3, <4>1 DEF NodeOK
        <5> QED
          BY <1>1, <1>5, <1>7, <4>1, <5>1
      <4>2. CASE i = l + 1
        BY <1>1, <1>2, <1>5, <1>7, <4>2
      <4> QED
        BY <1>3, <1>5, <4>1, <4>2
    <3> QED
      BY <1>4, <3>1 DEF NodeOK
  <2>2. g[x] = r /\ \A y \in 1 .. Len(sv) : y # x => g[y] = sv[y]
    BY <1>6, <1>7
  <2>3. l <= Len(r.to)
    BY <1>3, <1>5
  <2> QED
    BY <1>4, <1>5, <1>7, <2>1, <2>2, <2>3, BlankFacts DEF Fills
<1>9. HeapOK(g) /\ Grows(sv, g)
  BY <1>1, <1>8, FillsGrows
<1>10. g[x] = r /\ x \in 1 .. Len(g) /\ n \in 1 .. Len(g) /\ g[n] = D!Blank
  BY <1>1, <1>2, <1>6, <1>7
<1>11. Owned(g, weakref_av, ref_bless_av, n)
  <2>1. l + 1 \in 1 .. Len(r.to)
    BY <1>3, <1>5
  <2>2. Holds(g, x, n) /\ ~g[x].weak
    BY <1>4, <1>5, <1>10, <2>1 DEF Holds
  <2> QED
    BY <1>10, <2>2 DEF Owned
<1>12. Kept(g, weakref_av, ref_bless_av, tracked)
  <2>1. \A i \in 1 .. Len(g[x].to) : i > l => g[x].to[i] = n
    <3> HIDE DEF l
    <3>1. ASSUME NEW i \in 1 .. Len(r.to), i > l PROVE r.to[i] = n
      <4>1. i = l + 1
        BY <1>3, <1>5, <3>1
      <4> QED
        BY <1>5, <4>1
    <3> QED
      BY <1>10, <3>1
  <2> QED
    BY <1>8, <1>11, <2>1, KeptFills
<1>13. s \in TaskRec /\ Ready(g, weakref_av, ref_bless_av, tracked, s)
  <2>1. s \in TaskRec /\ s.op = "value" /\ s.into = n /\ s.container = x
    BY <1>2, ValueFacts
  <2>2. \A o \in DOMAIN tracked : tracked[o] # n
    <3>1. \A z \in 1 .. Len(sv) : z # n
      BY <1>1, <1>2
    <3> QED
      BY <3>1 DEF Kept
  <2>3. ASSUME NEW y \in 1 .. Len(g), Holds(g, y, n) PROVE y = x
    <3>1. SUFFICES ASSUME y # x PROVE FALSE
      OBVIOUS
    <3>2. PICK i \in 1 .. Len(g[y].to) : g[y].to[i] = n
      BY <2>3 DEF Holds
    <3>3. CASE y \in 1 .. Len(sv)
      <4>1. g[y] = sv[y]
        BY <1>6, <1>7, <3>1, <3>3
      <4>2. sv[y].to[i] \in 1 .. Len(sv)
        BY <1>1, <3>2, <3>3, <4>1, NodeTypes DEF NodeOK
      <4> QED
        BY <1>1, <1>2, <3>2, <4>1, <4>2
    <3>4. CASE y \notin 1 .. Len(sv)
      <4>1. y = Len(sv) + 1
        BY <1>1, <1>7, <3>4
      <4>2. Len(g[y].to) = 0
        BY <1>7, <4>1, BlankFacts
      <4> QED
        BY <3>2, <4>2
    <3> QED
      BY <3>3, <3>4
  <2> QED
    BY <1>10, <1>11, <2>1, <2>2, <2>3, BlankFacts DEF Ready
<1> HIDE DEF s
<1>14. PlainTasks(g, q)
  BY <1>1, <1>9, PlainTasksGrow
<1>15. Stack(g, weakref_av, ref_bless_av, tracked, <<s>> \o q) /\ CopyOK(<<s>> \o q, sp)
  BY <1>13, <1>14, Pushed
<1>16. Reading(g, weakref_av, ref_bless_av, tracked, <<s>> \o q, p, sp)
  BY <1>12, <1>15 DEF Reading
<1> QED
  BY <1>16 DEF g, f, s, n

LEMMA ElementStep == ASSUME Decoding, D!ReadElement PROVE DInv'
<1> DEFINE x == D!into
           r == [sv[x] EXCEPT !.to = Append(sv[x].to, D!Fresh)]
           q == Tail(work)
<1>1. /\ D!Doing("element") /\ work' = <<D!Value(D!Fresh, x)>> \o q
      /\ UNCHANGED <<pos, save_pos, tracked, ref_stashes, ref_bless_av, weakref_av, level, state>>
      /\ sv' = Append([sv EXCEPT ![x] = r], D!Blank)
  BY DEF D!ReadElement
<1>2. work # <<>> /\ Head(work).op = "element"
  BY <1>1 DEF D!Doing
<1>3. /\ Kept(sv, weakref_av, ref_bless_av, tracked) /\ HeapOK(sv) /\ Len(sv) \in Nat
      /\ pos \in Nat \ {0} /\ save_pos \in Nat /\ x \in Nat /\ x = Head(work).into
      /\ PlainTasks(sv, q) /\ CopyOK(q, save_pos) /\ PlainTask(sv, Head(work))
  BY <1>2, DoingFacts
<1>4. x \in 1 .. Len(sv) /\ sv[x].k \in {"av", "hv"}
  BY <1>2, <1>3 DEF PlainTask
<1> HIDE DEF x
<1>5. sv[x] \in SvRec /\ sv[x].to \in Seq(Nat) /\ D!Fresh \in Nat
  BY <1>3, <1>4, NodeTypes DEF D!Fresh
<1>6. /\ r \in SvRec /\ r.k = sv[x].k /\ r.weak = sv[x].weak /\ r.ext = sv[x].ext
      /\ r.to = Append(sv[x].to, D!Fresh)
  <2> DEFINE s == Append(sv[x].to, D!Fresh)
  <2>1. s \in Seq(Nat)
    BY <1>5
  <2> HIDE DEF s
  <2>2. LET rr == [sv[x] EXCEPT !.to = s]
        IN  rr \in SvRec /\ rr.k = sv[x].k /\ rr.weak = sv[x].weak /\ rr.ext = sv[x].ext /\ rr.to = s
    BY <1>5, <2>1 DEF SvRec
  <2> QED
    BY <2>2 DEF s
<1> HIDE DEF r, q
<1>7. Reading(Append([sv EXCEPT ![x] = r], D!Blank), weakref_av, ref_bless_av, tracked,
              <<D!Value(D!Fresh, x)>> \o q, pos, save_pos)
  BY <1>3, <1>4, <1>6, SlotMade
<1> QED
  BY <1>1, <1>7 DEF DInv

\* A key is a string, its own or that of the token a COPY names.
LEMMA KeyFacts ==
  ASSUME Decoding, D!KeyOk, pos \in Nat \ {0}
  PROVE  D!KeyString \in Strings
<1>1. out \in Seq(Tok)
  BY DEF Decoding, DocInv, Good, IInv, Types
<1>2. Len(Received) \in Nat
  BY <1>1, ReceivedFacts DEF Decoding
<1>3. pos <= Len(Received)
  BY <1>2 DEF D!KeyOk, D!AtEnd
<1>4. D!tok.s \in Strings /\ D!tok.n \in Nat /\ (D!tok.tag = "COPY" => D!tok.n # 0)
  BY <1>3, TokenFacts DEF Decoding, D!tok
<1>5. CASE D!tok.tag = "STR"
  BY <1>4, <1>5 DEF D!KeyString
<1>6. CASE D!tok.tag # "STR"
  <2>1. D!tok.tag = "COPY" /\ ~(D!tok.n > pos)
    BY <1>6 DEF D!KeyOk, D!BadOffset
  <2>2. D!tok.n \in Nat \ {0} /\ D!tok.n <= Len(Received)
    BY <1>2, <1>3, <1>4, <2>1
  <2>3. Received[D!tok.n].s \in Strings
    BY <2>2, TokenFacts DEF Decoding
  <2> QED
    BY <1>6, <2>3 DEF D!KeyString
<1> QED
  BY <1>5, <1>6

LEMMA PairStep == ASSUME Decoding, KeysNew, D!ReadPair PROVE DInv'
<1> DEFINE x == D!into
           r == [sv[x] EXCEPT !.to = Append(sv[x].to, D!Fresh), !.keys = Append(sv[x].keys, D!KeyString)]
           q == Tail(work)
<1>1. /\ D!Doing("pair") /\ D!KeyOk /\ pos' = pos + 1
      /\ UNCHANGED <<save_pos, tracked, ref_stashes, ref_bless_av, weakref_av, level, state>>
  BY DEF D!ReadPair
<1>2. work # <<>> /\ Head(work).op = "pair"
  BY <1>1 DEF D!Doing
<1>3. /\ Kept(sv, weakref_av, ref_bless_av, tracked) /\ HeapOK(sv) /\ Len(sv) \in Nat
      /\ pos \in Nat \ {0} /\ save_pos \in Nat /\ x \in Nat /\ x = Head(work).into
      /\ PlainTasks(sv, q) /\ CopyOK(q, save_pos) /\ PlainTask(sv, Head(work))
  BY <1>2, DoingFacts
<1>4. x \in 1 .. Len(sv) /\ sv[x].k \in {"av", "hv"}
  BY <1>2, <1>3 DEF PlainTask
<1>5. D!OldSlot = {}
  BY <1>1 DEF KeysNew
<1>6. /\ sv' = Append([sv EXCEPT ![x].to = Append(@, D!Fresh), ![x].keys = Append(@, D!KeyString)], D!Blank)
      /\ work' = <<D!Value(D!Fresh, x)>> \o q
  BY <1>5 DEF D!ReadPair
<1>7. D!KeyString \in Strings
  BY <1>1, <1>3, KeyFacts
<1> HIDE DEF x
<1>8. sv \in Seq(SvRec) /\ sv[x] \in SvRec /\ sv[x].to \in Seq(Nat) /\ D!Fresh \in Nat
  BY <1>3, <1>4, NodeTypes DEF D!Fresh, HeapOK
<1>9. sv[x].keys \in Seq(Strings)
  BY <1>8 DEF SvRec
<1>10. /\ r \in SvRec /\ r.k = sv[x].k /\ r.weak = sv[x].weak /\ r.ext = sv[x].ext
       /\ r.to = Append(sv[x].to, D!Fresh)
  <2> DEFINE s == Append(sv[x].to, D!Fresh)
             t == Append(sv[x].keys, D!KeyString)
  <2>1. s \in Seq(Nat) /\ t \in Seq(Strings)
    BY <1>7, <1>8, <1>9
  <2> HIDE DEF s, t
  <2>2. LET rr == [sv[x] EXCEPT !.to = s, !.keys = t]
        IN  rr \in SvRec /\ rr.k = sv[x].k /\ rr.weak = sv[x].weak /\ rr.ext = sv[x].ext /\ rr.to = s
    BY <1>8, <2>1 DEF SvRec
  <2> QED
    BY <2>2 DEF s, t
<1>11. [sv EXCEPT ![x].to = Append(@, D!Fresh), ![x].keys = Append(@, D!KeyString)] = [sv EXCEPT ![x] = r]
  <2> DEFINE s == Append(sv[x].to, D!Fresh)
             t == Append(sv[x].keys, D!KeyString)
             f == [sv EXCEPT ![x].to = s]
  <2>1. x \in DOMAIN sv
    BY <1>4, <1>8
  <2>2. f[x] = [sv[x] EXCEPT !.to = s] /\ f[x].keys = sv[x].keys
    BY <1>8, <2>1 DEF SvRec
  <2>3. [sv EXCEPT ![x].to = Append(@, D!Fresh), ![x].keys = Append(@, D!KeyString)]
          = [f EXCEPT ![x].keys = t]
    BY <2>1, <2>2
  <2> HIDE DEF s, t
  <2>4. [f EXCEPT ![x].keys = t] = [sv EXCEPT ![x] = [sv[x] EXCEPT !.to = s, !.keys = t]]
    BY <2>1, <2>2
  <2> QED
    BY <2>3, <2>4 DEF s, t
<1> HIDE DEF r, q
<1>12. pos + 1 \in Nat \ {0}
  BY <1>3
<1>13. Reading(Append([sv EXCEPT ![x] = r], D!Blank), weakref_av, ref_bless_av, tracked,
               <<D!Value(D!Fresh, x)>> \o q, pos + 1, save_pos)
  BY <1>3, <1>4, <1>10, <1>12, SlotMade
<1> QED
  BY <1>1, <1>6, <1>11, <1>13 DEF DInv

-----------------------------------------------------------------------------
(* Steps that take an owner away *)

LEMMA PlainTasksSame ==
  ASSUME NEW h, NEW g, NEW q, PlainTasks(h, q), Len(g) = Len(h), \A y \in 1 .. Len(h) : g[y].k = h[y].k
  PROVE  PlainTasks(g, q)
BY DEF PlainTasks, PlainTask

\* srl_read_weaken: who counts only the reference that becomes weak is put
\* into weakref_av, whoever else is owned has another owner.
LEMMA WeakenKeeps ==
  ASSUME Kept(sv, weakref_av, ref_bless_av, tracked), NEW x \in 1 .. Len(sv), sv[x].k = "rv"
  PROVE  LET g == [sv EXCEPT ![x].weak = TRUE]
         IN  /\ Kept(g, D!KeptAlive(sv[x].to[1]), ref_bless_av, tracked) /\ Len(g) = Len(sv)
             /\ \A y \in 1 .. Len(sv) : g[y].k = sv[y].k
<1> DEFINE g == [sv EXCEPT ![x].weak = TRUE]
           z == sv[x].to[1]
           w == D!KeptAlive(z)
           b == ref_bless_av
           s == [sv[x] EXCEPT !.weak = TRUE]
<1>1. HeapOK(sv) /\ sv \in Seq(SvRec) /\ Len(sv) \in Nat /\ Len(sv) >= 4 /\ b \in Seq(Bless)
  BY NodeTypes DEF Kept, HeapOK
<1>2. /\ sv[x] \in SvRec /\ NodeOK(sv[x], Len(sv)) /\ sv[x].weak \in BOOLEAN
  BY <1>1, NodeTypes
<1>3. Len(sv[x].to) = 1 /\ z \in 1 .. Len(sv)
  BY <1>2 DEF NodeOK
<1>4. s \in SvRec /\ s.to = sv[x].to /\ s.k = sv[x].k /\ s.ext = sv[x].ext /\ s.weak
  BY <1>2 DEF SvRec
<1>5. g = [sv EXCEPT ![x] = s]
  OBVIOUS
<1> HIDE DEF s, g
<1>6. g \in Seq(SvRec) /\ Len(g) = Len(sv) /\ g[x] = s /\ \A y \in 1 .. Len(sv) : y # x => g[y] = sv[y]
  BY <1>1, <1>4, <1>5
<1>7. \A y \in 1 .. Len(sv) : g[y].to = sv[y].to /\ g[y].k = sv[y].k /\ g[y].ext = sv[y].ext
  BY <1>4, <1>6
<1>8. HeapOK(g)
  <2>1. ASSUME NEW y \in 1 .. Len(g) PROVE NodeOK(g[y], Len(g))
    <3>1. NodeOK(sv[y], Len(sv))
      BY <1>1, <1>6, NodeTypes
    <3>2. CASE y = x
      BY <1>6, <1>7, <3>1, <3>2 DEF NodeOK
    <3>3. CASE y # x
      BY <1>6, <3>1, <3>3
    <3> QED
      BY <3>2, <3>3
  <2>2. \A y \in 1 .. 3 : g[y].k = "imm"
    BY <1>1, <1>7 DEF HeapOK
  <2> QED
    BY <1>1, <1>6, <2>1, <2>2 DEF HeapOK
<1>9. \A y, a \in 1 .. Len(sv) : Holds(g, y, a) <=> Holds(sv, y, a)
  BY <1>7 DEF Holds
<1>10. weakref_av \subseteq w /\ (D!Owners(z) = 1 => z \in w)
  BY DEF D!KeptAlive
<1> HIDE DEF w
<1>11. ASSUME NEW a \in 1 .. Len(sv), Owned(sv, weakref_av, b, a) PROVE Owned(g, w, b, a)
  <2>1. CASE sv[a].k = "imm" \/ sv[a].ext > 0 \/ a \in weakref_av \/ \E i \in 1 .. Len(b) : b[i].rv = a
    BY <1>7, <1>10, <2>1 DEF Owned
  <2>2. ASSUME NEW y \in 1 .. Len(sv), y # x, ~sv[y].weak, Holds(sv, y, a) PROVE Owned(g, w, b, a)
    <3>1. ~g[y].weak /\ Holds(g, y, a) /\ y \in 1 .. Len(g)
      BY <1>6, <1>9, <2>2
    <3> QED
      BY <3>1 DEF Owned
  <2>3. CASE ~sv[x].weak /\ Holds(sv, x, a) /\ ~(sv[a].k = "imm" \/ sv[a].ext > 0 \/ a \in weakref_av
                                                 \/ \E i \in 1 .. Len(b) : b[i].rv = a)
    <3>1. a = z
      <4>1. PICK i \in 1 .. Len(sv[x].to) : sv[x].to[i] = a
        BY <2>3 DEF Holds
      <4> QED
        BY <1>3, <4>1
    <3>2. CASE \A y \in 1 .. Len(sv) : ~sv[y].weak /\ Holds(sv, y, a) => y = x
      <4>1. D!Owners(a) = 1
        BY <1>1, <1>3, <2>3, <3>1, <3>2, OwnersOne
      <4> QED
        BY <1>10, <3>1, <4>1 DEF Owned
    <3> QED
      BY <2>2, <3>2
  <2> QED
    BY <1>11, <2>1, <2>2, <2>3 DEF Owned
<1>12. Kept(g, w, b, tracked)
  <2>1. \A o \in DOMAIN tracked : tracked[o] \in 1 .. Len(g) /\ Owned(g, w, b, tracked[o])
    BY <1>6, <1>11 DEF Kept
  <2>2. \A a, y \in 1 .. Len(g) : Holds(g, y, a) => Owned(g, w, b, a)
    BY <1>6, <1>9, <1>11 DEF Kept
  <2> QED
    BY <1>1, <1>8, <2>1, <2>2 DEF Kept
<1> QED
  BY <1>6, <1>7, <1>12 DEF g, w

LEMMA WeakenStep == ASSUME Decoding, D!srl_read_weaken PROVE DInv'
<1> DEFINE x == D!into
           g == [sv EXCEPT ![x].weak = TRUE]
           w == D!KeptAlive(sv[x].to[1])
           q == Tail(work)
<1>1. /\ D!Doing("weaken") /\ sv[x].k = "rv" /\ weakref_av' = w /\ sv' = g /\ work' = q
      /\ UNCHANGED <<pos, save_pos, tracked, ref_stashes, ref_bless_av, level, state>>
  BY DEF D!srl_read_weaken
<1>2. work # <<>> /\ Head(work).op = "weaken"
  BY <1>1 DEF D!Doing
<1>3. /\ Kept(sv, weakref_av, ref_bless_av, tracked) /\ pos \in Nat \ {0} /\ save_pos \in Nat
      /\ x = Head(work).into
      /\ PlainTasks(sv, q) /\ CopyOK(q, save_pos) /\ PlainTask(sv, Head(work))
  BY <1>2, DoingFacts
<1>4. x \in 1 .. Len(sv)
  BY <1>2, <1>3 DEF PlainTask
<1> HIDE DEF x, q
<1>5. /\ Kept(g, w, ref_bless_av, tracked) /\ Len(g) = Len(sv)
      /\ \A y \in 1 .. Len(sv) : g[y].k = sv[y].k
  BY <1>1, <1>3, <1>4, WeakenKeeps
<1> HIDE DEF g, w
<1>6. PlainTasks(g, q)
  BY <1>3, <1>5, PlainTasksSame
<1>7. Reading(g, w, ref_bless_av, tracked, q, pos, save_pos)
  BY <1>3, <1>5, <1>6, PlainStack DEF Reading
<1> QED
  BY <1>1, <1>7 DEF DInv

\* The heap when container c has SV a in the place of x.
Replaced(c, x, a) == [sv EXCEPT ![c].to = [i \in DOMAIN sv[c].to |->
                                             IF sv[c].to[i] = x THEN a ELSE sv[c].to[i]]]

\* An ALIAS in a slot: the SV made for the slot is released, which nothing
\* else knows, and the slot owns an SV that was owned before.
LEMMA AliasKeeps ==
  ASSUME Kept(sv, weakref_av, ref_bless_av, tracked), NEW x \in 1 .. Len(sv), NEW c \in 1 .. Len(sv),
         NEW a \in 1 .. Len(sv), Owned(sv, weakref_av, ref_bless_av, a),
         a # x => /\ \A o \in DOMAIN tracked : tracked[o] # x
                  /\ \A y \in 1 .. Len(sv) : Holds(sv, y, x) => y = c
  PROVE  LET g == Replaced(c, x, a)
         IN  /\ Kept(g, weakref_av, ref_bless_av, tracked) /\ Len(g) = Len(sv)
             /\ \A y \in 1 .. Len(sv) : g[y].k = sv[y].k
             /\ Owned(g, weakref_av, ref_bless_av, a)
<1> DEFINE t == [i \in DOMAIN sv[c].to |-> IF sv[c].to[i] = x THEN a ELSE sv[c].to[i]]
           s == [sv[c] EXCEPT !.to = t]
           g == [sv EXCEPT ![c].to = t]
           w == weakref_av
           b == ref_bless_av
<1>1. HeapOK(sv) /\ sv \in Seq(SvRec) /\ Len(sv) \in Nat /\ Len(sv) >= 4 /\ b \in Seq(Bless)
  BY NodeTypes DEF Kept, HeapOK
<1>2. /\ sv[c] \in SvRec /\ NodeOK(sv[c], Len(sv)) /\ sv[c].to \in Seq(Nat) /\ Len(sv[c].to) \in Nat
      /\ DOMAIN sv[c].to = 1 .. Len(sv[c].to)
  BY <1>1, NodeTypes
<1>3. a \in Nat /\ \A i \in 1 .. Len(sv[c].to) : sv[c].to[i] \in Nat /\ sv[c].to[i] \in 1 .. Len(sv)
  BY <1>1, <1>2 DEF NodeOK
<1>4. /\ t \in Seq(Nat) /\ Len(t) = Len(sv[c].to)
      /\ \A i \in 1 .. Len(sv[c].to) : t[i] = IF sv[c].to[i] = x THEN a ELSE sv[c].to[i]
  BY <1>2, <1>3
<1> HIDE DEF t
<1>5. s \in SvRec /\ s.to = t /\ s.k = sv[c].k /\ s.ext = sv[c].ext /\ s.weak = sv[c].weak
  BY <1>2, <1>4 DEF SvRec
<1>6. g = [sv EXCEPT ![c] = s]
  OBVIOUS
<1> HIDE DEF s, g
<1>7. g \in Seq(SvRec) /\ Len(g) = Len(sv) /\ g[c] = s /\ \A y \in 1 .. Len(sv) : y # c => g[y] = sv[y]
  BY <1>1, <1>5, <1>6
<1>8. \A y \in 1 .. Len(sv) : /\ g[y].k = sv[y].k /\ g[y].ext = sv[y].ext /\ g[y].weak = sv[y].weak
                              /\ Len(g[y].to) = Len(sv[y].to)
                              /\ \A i \in 1 .. Len(sv[y].to) :
                                   g[y].to[i] = IF y = c /\ sv[y].to[i] = x THEN a ELSE sv[y].to[i]
  BY <1>4, <1>5, <1>7
<1>9. HeapOK(g)
  <2>1. ASSUME NEW y \in 1 .. Len(g) PROVE NodeOK(g[y], Len(g))
    <3>1. NodeOK(sv[y], Len(sv)) /\ y \in 1 .. Len(sv)
      BY <1>1, <1>7, NodeTypes
    <3>2. \A i \in 1 .. Len(g[y].to) : g[y].to[i] \in 1 .. Len(g)
      BY <1>7, <1>8, <3>1 DEF NodeOK
    <3> QED
      BY <1>8, <3>1, <3>2 DEF NodeOK
  <2>2. \A y \in 1 .. 3 : g[y].k = "imm"
    BY <1>1, <1>8 DEF HeapOK
  <2> QED
    BY <1>1, <1>7, <2>1, <2>2 DEF HeapOK
<1>10. ASSUME NEW z \in 1 .. Len(sv), z # x \/ a = x, Owned(sv, w, b, z) PROVE Owned(g, w, b, z)
  <2>1. CASE sv[z].k = "imm" \/ sv[z].ext > 0 \/ z \in w \/ \E i \in 1 .. Len(b) : b[i].rv = z
    BY <1>8, <2>1 DEF Owned
  <2>2. CASE \E y \in 1 .. Len(sv) : ~sv[y].weak /\ Holds(sv, y, z)
    <3>1. PICK y \in 1 .. Len(sv) : ~sv[y].weak /\ Holds(sv, y, z)
      BY <2>2
    <3>2. PICK i \in 1 .. Len(sv[y].to) : sv[y].to[i] = z
      BY <3>1 DEF Holds
    <3>3. i \in 1 .. Len(g[y].to) /\ ~g[y].weak /\ y \in 1 .. Len(g)
      BY <1>7, <1>8, <3>1, <3>2
    <3>4. g[y].to[i] = IF y = c /\ sv[y].to[i] = x THEN a ELSE sv[y].to[i]
      BY <1>8, <3>2
    <3>5. g[y].to[i] = z
      BY <1>10, <3>2, <3>4
    <3> QED
      BY <3>3, <3>5 DEF Owned, Holds
  <2> QED
    BY <1>10, <2>1, <2>2 DEF Owned
<1>11. Owned(g, w, b, a)
  BY <1>10
<1>12. \A o \in DOMAIN tracked : tracked[o] \in 1 .. Len(g) /\ Owned(g, w, b, tracked[o])
  BY <1>7, <1>10 DEF Kept
<1>13. ASSUME NEW z \in 1 .. Len(g), NEW y \in 1 .. Len(g), Holds(g, y, z) PROVE Owned(g, w, b, z)
  <2>1. PICK i \in 1 .. Len(g[y].to) : g[y].to[i] = z
    BY <1>13 DEF Holds
  <2>2. y \in 1 .. Len(sv) /\ i \in 1 .. Len(sv[y].to) /\ z \in 1 .. Len(sv)
    BY <1>7, <1>8, <2>1
  <2>3. CASE y = c /\ sv[y].to[i] = x
    BY <1>8, <1>11, <2>1, <2>2, <2>3
  <2>4. CASE ~(y = c /\ sv[y].to[i] = x)
    <3>1. sv[y].to[i] = z
      BY <1>8, <2>1, <2>2, <2>4
    <3>2. Holds(sv, y, z) /\ Owned(sv, w, b, z)
      BY <2>2, <3>1 DEF Holds, Kept
    <3>3. z # x \/ a = x
      BY <2>2, <2>4, <3>1, <3>2
    <3> QED
      BY <1>10, <2>2, <3>2, <3>3
  <2> QED
    BY <2>3, <2>4
<1>14. Kept(g, w, b, tracked)
  BY <1>1, <1>9, <1>12, <1>13 DEF Kept
<1> QED
  BY <1>7, <1>8, <1>11, <1>14 DEF g, t, Replaced

LEMMA AliasStep == ASSUME Decoding, D!ReadAlias PROVE DInv'
<1> DEFINE x == D!into
           c == Head(work).container
           a == D!TrackSv(x)[D!tok.n]
           g == Replaced(c, x, a)
           q == Tail(work)
           tr == D!TrackSv(a)
<1>1. /\ D!NextTag({"ALIAS"}) /\ c # 0 /\ D!tok.n \in DOMAIN D!TrackSv(x)
      /\ sv' = g /\ tracked' = tr /\ pos' = pos + 1 /\ work' = q
      /\ UNCHANGED <<save_pos, ref_stashes, ref_bless_av, weakref_av, level, state>>
  BY DEF D!ReadAlias, Replaced
<1>2. /\ Kept(sv, weakref_av, ref_bless_av, tracked) /\ pos \in Nat \ {0} /\ save_pos \in Nat
      /\ Kept(sv, weakref_av, ref_bless_av, D!TrackSv(x)) /\ x \in 1 .. Len(sv)
      /\ Ready(sv, weakref_av, ref_bless_av, tracked, Head(work)) /\ x = Head(work).into
      /\ PlainTasks(sv, q) /\ CopyOK(q, save_pos)
  BY <1>1, NextTagFacts
<1>3. a \in 1 .. Len(sv) /\ Owned(sv, weakref_av, ref_bless_av, a)
  BY <1>1, <1>2 DEF Kept
<1>4. /\ c \in 1 .. Len(sv) /\ \A o \in DOMAIN tracked : tracked[o] # x
      /\ \A y \in 1 .. Len(sv) : Holds(sv, y, x) => y = c
  BY <1>1, <1>2 DEF Ready
<1>5. tr = D!Put(tracked, pos, a) \/ tr = tracked
  BY DEF D!TrackSv
<1> HIDE DEF x, c, a, q, tr
<1>6. /\ Kept(g, weakref_av, ref_bless_av, tracked) /\ Len(g) = Len(sv)
      /\ \A y \in 1 .. Len(sv) : g[y].k = sv[y].k
      /\ Owned(g, weakref_av, ref_bless_av, a)
  <2>1. a # x => /\ \A o \in DOMAIN tracked : tracked[o] # x
                 /\ \A y \in 1 .. Len(sv) : Holds(sv, y, x) => y = c
    BY <1>4, Zenon
  <2> QED
    BY <1>2, <1>3, <1>4, <2>1, AliasKeeps, Zenon
<1> HIDE DEF g
<1>7. Kept(g, weakref_av, ref_bless_av, tr)
  BY <1>3, <1>5, <1>6, KeptTracked
<1>8. PlainTasks(g, q)
  BY <1>2, <1>6, PlainTasksSame
<1>9. pos + 1 \in Nat \ {0}
  BY <1>2
<1>10. Reading(g, weakref_av, ref_bless_av, tr, q, pos + 1, save_pos)
  BY <1>2, <1>7, <1>8, <1>9, PlainStack DEF Reading
<1> QED
  BY <1>1, <1>10 DEF DInv

-----------------------------------------------------------------------------
(* The two halves together *)

RTInv == DocInv /\ cut \in Nat /\ DInv

LEMMA StartInv == RTInit => RTInv
<1> SUFFICES ASSUME RTInit PROVE RTInv
  OBVIOUS
<1>1. DocInv /\ cut \in Nat
  BY InitDoc, CutsAssumption DEF RTInit
<1> DEFINE t == D!Held(D!Scalar("imm", "TRUE"))
           f == D!Held(D!Scalar("imm", "FALSE"))
           u == D!Held(D!Scalar("imm", "CANONICAL_UNDEF"))
           r == D!Held(D!Blank)
           s == D!Value(4, 0)
<1>2. /\ pos = 1 /\ save_pos = 0 /\ sv = <<t, f, u, r>> /\ work = <<s>> /\ tracked = <<>>
      /\ ref_bless_av = <<>> /\ weakref_av = {}
  BY DEF RTInit, D!DecoderInit, D!Into
<1>3. /\ t \in SvRec /\ t.k = "imm" /\ Len(t.to) = 0 /\ ~t.weak
      /\ f \in SvRec /\ f.k = "imm" /\ Len(f.to) = 0 /\ ~f.weak
      /\ u \in SvRec /\ u.k = "imm" /\ Len(u.to) = 0 /\ ~u.weak
  <2>1. "imm" \in Kinds /\ {"TRUE", "FALSE", "CANONICAL_UNDEF"} \subseteq Strings \cup Tags
    BY DEF Kinds, Tags
  <2>2. \A v \in {"TRUE", "FALSE", "CANONICAL_UNDEF"} :
          LET e == D!Scalar("imm", v) IN e \in SvRec /\ e.k = "imm" /\ Len(e.to) = 0 /\ ~e.weak
    BY <2>1, RecordFacts
  <2>3. \A e \in SvRec : /\ D!Held(e) \in SvRec /\ D!Held(e).k = e.k /\ D!Held(e).to = e.to
                         /\ D!Held(e).weak = e.weak
    BY RecordFacts
  <2> QED
    BY <2>2, <2>3
<1>4. r \in SvRec /\ r.k = "undef" /\ Len(r.to) = 0 /\ ~r.weak /\ r.ext = 1
  BY BlankFacts, RecordFacts
<1> HIDE DEF t, f, u, r
<1>5. /\ sv \in Seq(SvRec) /\ Len(sv) = 4 /\ sv[1] = t /\ sv[2] = f /\ sv[3] = u /\ sv[4] = r
  BY <1>2, <1>3, <1>4
<1>6. \A y \in 1 .. Len(sv) : Len(sv[y].to) = 0 /\ ~sv[y].weak /\ sv[y].k # "rv"
  <2>1. \A y \in 1 .. 4 : y = 1 \/ y = 2 \/ y = 3 \/ y = 4
    OBVIOUS
  <2> QED
    BY <1>3, <1>4, <1>5, <2>1
<1>7. HeapOK(sv)
  <2>1. \A y \in 1 .. Len(sv) : NodeOK(sv[y], Len(sv))
    BY <1>6 DEF NodeOK
  <2>2. \A y \in 1 .. 3 : y = 1 \/ y = 2 \/ y = 3
    OBVIOUS
  <2> QED
    BY <1>3, <1>5, <2>1, <2>2 DEF HeapOK
<1>8. Kept(sv, weakref_av, ref_bless_av, tracked)
  <2>1. \A x, y \in 1 .. Len(sv) : ~Holds(sv, y, x)
    BY <1>6 DEF Holds
  <2>2. DOMAIN tracked = {} /\ ref_bless_av \in Seq(Bless)
    BY <1>2
  <2> QED
    BY <1>7, <2>1, <2>2 DEF Kept
<1>9. s \in TaskRec /\ Ready(sv, weakref_av, ref_bless_av, tracked, s) /\ s.op = "value"
  <2>1. Owned(sv, weakref_av, ref_bless_av, 4)
    BY <1>4, <1>5 DEF Owned
  <2>2. 4 \in Nat /\ 4 \in 1 .. Len(sv) /\ sv[4].k = "undef"
    BY <1>4, <1>5
  <2>3. s \in TaskRec /\ Ready(sv, weakref_av, ref_bless_av, tracked, s)
    BY <2>1, <2>2, ReadyBlank
  <2> QED
    BY <2>3 DEF Ready
<1> HIDE DEF s
<1>10. Stack(sv, weakref_av, ref_bless_av, tracked, work) /\ CopyOK(work, save_pos)
  <2>1. work \in Seq(TaskRec) /\ Len(work) = 1 /\ Head(work) = s /\ Len(Tail(work)) = 0 /\ work[1] = s
        /\ Tail(work) \in Seq(TaskRec)
    BY <1>2, <1>9
  <2>2. PlainTasks(sv, Tail(work))
    <3> DEFINE e == Tail(work)
    <3>1. e \in Seq(TaskRec) /\ \A i \in 1 .. Len(e) : FALSE
      BY <2>1
    <3> HIDE DEF e
    <3>2. PlainTasks(sv, e)
      BY <3>1 DEF PlainTasks
    <3> QED
      BY <3>2 DEF e
  <2>3. CopyOK(work, save_pos)
    BY <1>9, <2>1 DEF CopyOK
  <2> QED
    BY <1>9, <2>1, <2>2, <2>3 DEF Stack
<1>11. pos \in Nat \ {0} /\ save_pos \in Nat
  BY <1>2
<1> QED
  BY <1>1, <1>8, <1>10, <1>11 DEF RTInv, DInv, Reading

LEMMA DecoderKeeps ==
  ASSUME Decoding, KeysNew, D!DecoderNext
  PROVE  DInv'
<1>1. CASE D!ReleaseWeakrefs \/ D!Reject
  BY <1>1 DEF D!ReleaseWeakrefs, D!Reject, DInv
<1>2. CASE D!Free \/ D!srl_finalize_structure
  BY <1>2 DEF D!Free, D!srl_finalize_structure, Decoding
<1> QED
  BY <1>1, <1>2, ScalarStep, PadStep, RefnStep, LeaveStep, RefpStep, AliasStep, WeakenTagStep,
     WeakenStep, CopyStep, CopyDoneStep, ContainerStep, ElementStep, PairStep, ObjectStep,
     ObjectvTagStep, ObjectvStep
     DEF D!DecoderNext

\* Once srl_finalize_structure has begun, nothing is read any more.
LEMMA ReadingOver == ASSUME D!DecoderNext, state # "reading" PROVE state' # "reading"
<1>1. ~\E op \in {"value", "leave", "weaken", "copied", "element", "pair", "objectv"} : D!Doing(op)
  BY DEF D!Doing
<1>2. \A tags : ~D!NextTag(tags)
  BY <1>1 DEF D!NextTag
<1>3. CASE D!Free
  BY <1>3 DEF D!Free
<1>4. CASE D!srl_finalize_structure
  BY <1>4 DEF D!srl_finalize_structure
<1>5. CASE D!Reject
  BY <1>5 DEF D!Reject
<1>6. CASE D!ReleaseWeakrefs
  BY <1>6 DEF D!ReleaseWeakrefs
<1>7. ~(D!ReadScalar \/ D!ReadPad \/ D!srl_read_refn \/ D!srl_read_refp \/ D!ReadAlias \/ D!ReadWeakenTag)
  BY <1>2 DEF D!ReadScalar, D!ReadPad, D!srl_read_refn, D!srl_read_refp, D!ReadAlias, D!ReadWeakenTag
<1>8. ~(D!srl_read_copy \/ D!ReadContainer \/ D!srl_read_object \/ D!ReadObjectvTag)
  BY <1>2 DEF D!srl_read_copy, D!ReadContainer, D!srl_read_object, D!ReadObjectvTag
<1>9. ~(D!Leave \/ D!srl_read_weaken \/ D!CopyDone \/ D!ReadElement \/ D!ReadPair \/ D!srl_read_objectv)
  BY <1>1 DEF D!Leave, D!srl_read_weaken, D!CopyDone, D!ReadElement, D!ReadPair, D!srl_read_objectv
<1> QED
  BY <1>3, <1>4, <1>5, <1>6, <1>7, <1>8, <1>9 DEF D!DecoderNext

LEMMA NextInv == RTInv /\ KeysNew /\ [RTNext]_rtvars => RTInv'
<1> SUFFICES ASSUME RTInv, KeysNew, [RTNext]_rtvars PROVE RTInv'
  OBVIOUS
<1>1. CASE Encode
  <2>1. DocInv'
    BY <1>1, NextDoc DEF RTInv, Encode, Next
  <2>2. UNCHANGED <<cut, pos, save_pos, sv, work, tracked, ref_bless_av, weakref_av, state>>
    BY <1>1 DEF Encode, dvars
  <2> QED
    BY <2>1, <2>2 DEF RTInv, DInv
<1>2. CASE Decode
  <2>1. ctl = "done" /\ D!DecoderNext /\ cut' = cut /\ UNCHANGED vars
    BY <1>2 DEF Decode
  <2>2. DocInv'
    BY <2>1, NextDoc DEF RTInv
  <2>3. DInv'
    <3>1. CASE state = "reading"
      BY <2>1, <3>1, DecoderKeeps DEF RTInv, Decoding
    <3>2. CASE state # "reading"
      BY <2>1, <3>2, ReadingOver DEF DInv
    <3> QED
      BY <3>1, <3>2
  <2> QED
    BY <2>1, <2>2, <2>3 DEF RTInv
<1>3. CASE UNCHANGED rtvars
  <2>1. UNCHANGED <<cut, pos, save_pos, sv, work, tracked, ref_bless_av, weakref_av, state>> /\ UNCHANGED vars
    BY <1>3 DEF rtvars, dvars
  <2>2. DocInv'
    BY <2>1, NextDoc DEF RTInv
  <2> QED
    BY <2>1, <2>2 DEF RTInv, DInv
<1> QED
  BY <1>1, <1>2, <1>3 DEF RTNext, Idle

\* ref_seenhash (srl_track_sv) does not count its pointers: whatever the encoder
\* writes, whole or without its last tokens, an SV that a later REFP or ALIAS may
\* name has an owner until the document has been read.  This holds for every
\* structure and all options of the encoder, every recursion limit and every
\* number of missing tokens, as long as no hash of the document has a key twice:
\* srl_read_hash would read the second value into an SV that is known already,
\* and an ALIAS there would release it.  That the encoder writes no such hash is
\* a conjunct of NoReject.
THEOREM TrackedSvsAlive == RTSpec /\ []KeysNew => []TrackedAlive
<1>1. RTInv => TrackedAlive
  <2> SUFFICES ASSUME RTInv, state = "reading", NEW o \in DOMAIN tracked PROVE D!Owners(tracked[o]) >= 1
    BY DEF TrackedAlive
  <2>1. Kept(sv, weakref_av, ref_bless_av, tracked)
    BY DEF RTInv, DInv, Reading
  <2> QED
    BY <2>1, OwnersCounted DEF Kept
<1> QED
  BY <1>1, StartInv, NextInv, PTL DEF RTSpec
=============================================================================
