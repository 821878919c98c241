----------------------------- MODULE SrlDecoder -----------------------------
(***************************************************************************)
(* srl_read_single_value and what it calls (Perl/Decoder/srl_decoder.c):   *)
(* rebuilding Perl values from a document body.                            *)
(*                                                                         *)
(* The body is a sequence of tokens, offsets are token indices.  Values    *)
(* are allocated in the sequence sv, an SV is its index.  The C stack is   *)
(* the sequence work.  Reference counts are not stored but counted: an SV  *)
(* is owned by the slots and references that point at it, by weakref_av    *)
(* and ref_bless_av, and the root by the caller.                           *)
(***************************************************************************)
EXTENDS SrlHeap

CONSTANTS MaxDepth,        \* dec->max_recursion_depth
          Long             \* strings written as BINARY or STR_UTF8, not SHORT_BINARY
VARIABLES doc,             \* the document body
          pos,             \* dec->buf.pos
          save_pos,        \* dec->save_pos, 0 if NULL
          sv,              \* the values allocated so far
          work,            \* rest of the C stack
          tracked,         \* dec->ref_seenhash: offset -> SV
          ref_stashes,     \* offset -> class
          ref_bless_av,    \* references to bless at the end, with their offset
          weakref_av,      \* referents kept alive until the end
          level,           \* dec->recursion_depth
          state            \* "reading", "finalizing", "done" or "error"

dvars == <<pos, save_pos, sv, work, tracked, ref_stashes, ref_bless_av, weakref_av,
           level, state>>

\* The immortals come first, then the SV the caller wants filled.
Yes == 1
No == 2
Undef == 3
Into == 4
Immortal(tag) == CASE tag = "TRUE" -> Yes [] tag = "FALSE" -> No
                   [] tag = "CANONICAL_UNDEF" -> Undef

Value(into, container) == [op |-> "value", into |-> into, container |-> container, ofs |-> 0]
Task(op, into, ofs) == [op |-> op, into |-> into, container |-> 0, ofs |-> ofs]
Repeat(t, n) == [i \in 1 .. n |-> t]

Put(f, key, val) == [k \in DOMAIN f \cup {key} |-> IF k = key THEN val ELSE f[k]]

DecoderInit ==
  /\ pos = 1 /\ save_pos = 0
  /\ sv = <<Held(Scalar("imm", "TRUE")), Held(Scalar("imm", "FALSE")),
            Held(Scalar("imm", "CANONICAL_UNDEF")), Held(Blank)>>
  /\ work = <<Value(Into, 0)>>
  /\ tracked = <<>> /\ ref_stashes = <<>>
  /\ ref_bless_av = <<>> /\ weakref_av = {}
  /\ level = 0
  /\ state = "reading"

-----------------------------------------------------------------------------
(* Looking at the next tag *)

Doing(op) == state = "reading" /\ work # <<>> /\ Head(work).op = op
AtEnd == pos > Len(doc)
tok == doc[pos]
into == Head(work).into

\* Reading a value whose tag is one of tags.
NextTag(tags) == Doing("value") /\ ~AtEnd /\ tok.tag \in tags

\* Mutant: the offset behind the tag.
TrackSvLate(x) == IF tok.trk THEN Put(tracked, pos + 1, x) ELSE tracked

\* The track flag makes the decoder remember the SV under the tag's offset.
TrackSv(x) == IF tok.trk THEN Put(tracked, pos, x) ELSE tracked

Fresh == Len(sv) + 1
Store(x, r) == [sv EXCEPT ![x] = [r EXCEPT !.ext = sv[x].ext]]

Owners(x) == SvREFCNT(sv, x) + (IF x \in weakref_av THEN 1 ELSE 0)
             + Cardinality({i \in DOMAIN ref_bless_av : ref_bless_av[i].rv = x})

\* srl_read_varint_uv_offset refuses what does not point back.
BadOffset(n) == n > pos

-----------------------------------------------------------------------------
(* Plain values *)

ScalarTags == {"INT", "STR", "UNDEF", "CANONICAL_UNDEF", "TRUE", "FALSE"}

ScalarOf(t) == CASE t.tag = "INT" -> Scalar("int", t.s)
                 [] t.tag = "STR" -> Scalar("str", t.s)
                 [] t.tag \in {"UNDEF", "CANONICAL_UNDEF"} -> Scalar("undef", "")
                 [] t.tag \in {"TRUE", "FALSE"} -> Scalar("bool", t.tag)

ReadScalar ==
  /\ NextTag(ScalarTags)
  /\ sv' = Store(into, ScalarOf(tok))
  /\ tracked' = TrackSv(into)
  /\ pos' = pos + 1
  /\ work' = Tail(work)
  /\ UNCHANGED <<save_pos, ref_stashes, ref_bless_av, weakref_av, level, state>>

\* Mutant: looks at the same byte again and again.
ReadPadForever ==
  /\ NextTag({"PAD"})
  /\ tracked' = TrackSv(into)
  /\ UNCHANGED <<pos, save_pos, sv, work, ref_stashes, ref_bless_av, weakref_av, level, state>>

\* Padding is skipped, but its track flag counts for the value that follows.
ReadPad ==
  /\ NextTag({"PAD"})
  /\ tracked' = TrackSv(into)
  /\ pos' = pos + 1
  /\ UNCHANGED <<save_pos, sv, work, ref_stashes, ref_bless_av, weakref_av, level, state>>

-----------------------------------------------------------------------------
(* References *)

\* TRUE, FALSE and CANONICAL_UNDEF behind a REFN are the immortals themselves.
AheadIsImmortal == /\ pos + 1 <= Len(doc) /\ ~doc[pos + 1].trk
                   /\ doc[pos + 1].tag \in {"TRUE", "FALSE", "CANONICAL_UNDEF"}

srl_read_refn ==
  /\ NextTag({"REFN"}) /\ pos < Len(doc)
  /\ tracked' = TrackSv(into)
  /\ IF AheadIsImmortal
     THEN /\ sv' = Store(into, Ref(Immortal(doc[pos + 1].tag)))
          /\ pos' = pos + 2
          /\ work' = Tail(work)
          /\ UNCHANGED level
     ELSE /\ level < MaxDepth
          /\ sv' = Append(Store(into, Ref(Fresh)), Blank)
          /\ pos' = pos + 1
          /\ level' = level + 1
          /\ work' = <<Value(Fresh, 0), Task("leave", 0, 0)>> \o Tail(work)
  /\ UNCHANGED <<save_pos, ref_stashes, ref_bless_av, weakref_av, state>>

Leave ==
  /\ Doing("leave")
  /\ level' = level - 1
  /\ work' = Tail(work)
  /\ UNCHANGED <<pos, save_pos, sv, tracked, ref_stashes, ref_bless_av, weakref_av, state>>

srl_read_refp ==
  /\ NextTag({"REFP"}) /\ ~BadOffset(tok.n) /\ tok.n \in DOMAIN TrackSv(into)
  /\ tracked' = TrackSv(into)
  /\ sv' = Store(into, Ref(TrackSv(into)[tok.n]))
  /\ pos' = pos + 1
  /\ work' = Tail(work)
  /\ UNCHANGED <<save_pos, ref_stashes, ref_bless_av, weakref_av, level, state>>

\* The slot gets the earlier SV; the fresh one made for it is released.
ReadAlias ==
  /\ NextTag({"ALIAS"}) /\ ~BadOffset(tok.n)
  /\ Head(work).container # 0
  /\ tok.n \in DOMAIN TrackSv(into)
  /\ LET alias == TrackSv(into)[tok.n]
         c == Head(work).container
     IN  /\ sv' = [sv EXCEPT ![c].to = [i \in DOMAIN sv[c].to |->
                                          IF sv[c].to[i] = into THEN alias ELSE sv[c].to[i]]]
         /\ tracked' = TrackSv(alias)
  /\ pos' = pos + 1
  /\ work' = Tail(work)
  /\ UNCHANGED <<save_pos, ref_stashes, ref_bless_av, weakref_av, level, state>>

ReadWeakenTag ==
  /\ NextTag({"WEAKEN"})
  /\ tracked' = TrackSv(into)
  /\ pos' = pos + 1
  /\ work' = <<Value(into, 0), Task("weaken", into, 0)>> \o Tail(work)
  /\ UNCHANGED <<save_pos, sv, ref_stashes, ref_bless_av, weakref_av, level, state>>

\* Mutant: the referent is not kept.
NothingKept(x) == weakref_av

KeptAlive(x) == IF Owners(x) = 1 THEN weakref_av \cup {x} ELSE weakref_av

\* The rest of srl_read_weaken: a referent with no other owner is kept in
\* weakref_av, since a strong reference to it may still follow.
srl_read_weaken ==
  /\ Doing("weaken") /\ sv[into].k = "rv"
  /\ weakref_av' = KeptAlive(sv[into].to[1])
  /\ sv' = [sv EXCEPT ![into].weak = TRUE]
  /\ work' = Tail(work)
  /\ UNCHANGED <<pos, save_pos, tracked, ref_stashes, ref_bless_av, level, state>>

-----------------------------------------------------------------------------
\* COPY reads the tag it names in place of itself, then goes on behind it.
srl_read_copy ==
  /\ NextTag({"COPY"}) /\ ~BadOffset(tok.n) /\ save_pos = 0
  /\ tracked' = TrackSv(into)
  /\ save_pos' = pos + 1
  /\ pos' = tok.n
  /\ work' = <<Value(into, 0), Task("copied", 0, 0)>> \o Tail(work)
  /\ UNCHANGED <<sv, ref_stashes, ref_bless_av, weakref_av, level, state>>

\* Mutant: save_pos is not reset.
CopyStillOn ==
  /\ Doing("copied")
  /\ pos' = save_pos
  /\ work' = Tail(work)
  /\ UNCHANGED <<save_pos, sv, tracked, ref_stashes, ref_bless_av, weakref_av, level, state>>

CopyDone ==
  /\ Doing("copied")
  /\ pos' = save_pos
  /\ save_pos' = 0
  /\ work' = Tail(work)
  /\ UNCHANGED <<sv, tracked, ref_stashes, ref_bless_av, weakref_av, level, state>>

-----------------------------------------------------------------------------
(* Containers *)

\* srl_read_array, srl_read_hash: the REF variants make the referent too.
IsRefTag == tok.tag \in {"ARRAYREF", "HASHREF"}
MembersOf(x) == IF tok.tag \in {"ARRAY", "ARRAYREF"} THEN Repeat(Task("element", x, 0), tok.n)
                ELSE Repeat(Task("pair", x, 0), tok.n)
EmptyContainer == IF tok.tag \in {"ARRAY", "ARRAYREF"} THEN Array(<<>>) ELSE Hash(<<>>, <<>>)

ReadContainer ==
  /\ NextTag({"ARRAY", "HASH", "ARRAYREF", "HASHREF"})
  /\ tracked' = TrackSv(into)
  /\ pos' = pos + 1
  /\ IF IsRefTag
     THEN /\ level < MaxDepth
          /\ level' = level + 1
          /\ sv' = Append(Store(into, Ref(Fresh)), EmptyContainer)
          /\ work' = MembersOf(Fresh) \o <<Task("leave", 0, 0)>> \o Tail(work)
     ELSE /\ sv' = Store(into, EmptyContainer)
          /\ work' = MembersOf(into) \o Tail(work)
          /\ UNCHANGED level
  /\ UNCHANGED <<save_pos, ref_stashes, ref_bless_av, weakref_av, state>>

\* Mutant: an array that ends early is taken for a shorter one.
ReadElementIfAny ==
  /\ Doing("element")
  /\ IF AtEnd THEN sv' = sv /\ work' = Tail(work)
     ELSE /\ sv' = Append([sv EXCEPT ![into].to = Append(@, Fresh)], Blank)
          /\ work' = <<Value(Fresh, into)>> \o Tail(work)
  /\ UNCHANGED <<pos, save_pos, tracked, ref_stashes, ref_bless_av, weakref_av, level, state>>

ReadElement ==
  /\ Doing("element")
  /\ sv' = Append([sv EXCEPT ![into].to = Append(@, Fresh)], Blank)
  /\ work' = <<Value(Fresh, into)>> \o Tail(work)
  /\ UNCHANGED <<pos, save_pos, tracked, ref_stashes, ref_bless_av, weakref_av, level, state>>

\* A tag found through COPY is compared with its track flag, which only
\* SHORT_BINARY survives.
CopiedString(ofs) == doc[ofs].tag = "STR" /\ (doc[ofs].trk => doc[ofs].s \notin Long)

\* A key is a string, its track flag being masked off, or a COPY of one.
KeyOk == ~AtEnd /\ \/ tok.tag = "STR"
                   \/ tok.tag = "COPY" /\ ~BadOffset(tok.n) /\ CopiedString(tok.n)
KeyString == IF tok.tag = "STR" THEN tok.s ELSE doc[tok.n].s
OldSlot == {sv[into].to[i] : i \in {j \in DOMAIN sv[into].keys : sv[into].keys[j] = KeyString}}

\* A key that was read before is only noticed if its value is not undef.
DuplicateKey == \E x \in OldSlot : sv[x].k # "undef"

ReadPair ==
  /\ Doing("pair") /\ KeyOk /\ ~DuplicateKey
  /\ pos' = pos + 1
  /\ IF OldSlot = {}
     THEN /\ sv' = Append([sv EXCEPT ![into].to = Append(@, Fresh),
                                     ![into].keys = Append(@, KeyString)], Blank)
          /\ work' = <<Value(Fresh, into)>> \o Tail(work)
     ELSE /\ work' = <<Value(CHOOSE x \in OldSlot : TRUE, into)>> \o Tail(work)
          /\ UNCHANGED sv
  /\ UNCHANGED <<save_pos, tracked, ref_stashes, ref_bless_av, weakref_av, level, state>>

-----------------------------------------------------------------------------
(* Objects: the reference is queued and blessed when all has been read *)

\* The class name is a string or a COPY of one, and is known by its offset.
ClassOfs == IF doc[pos + 1].tag = "COPY" THEN doc[pos + 1].n ELSE pos + 1
ClassOk == /\ pos < Len(doc) /\ doc[pos + 1].tag \in {"STR", "COPY"}
           /\ ClassOfs <= pos + 1
           /\ ClassOfs \in DOMAIN ref_stashes \/ CopiedString(ClassOfs)

srl_read_object ==
  /\ NextTag({"OBJECT"}) /\ ClassOk
  /\ tracked' = TrackSv(into)
  /\ ref_stashes' = Put(ref_stashes, ClassOfs, doc[ClassOfs].s)
  /\ ref_bless_av' = Append(ref_bless_av, [rv |-> into, ofs |-> ClassOfs])
  /\ pos' = pos + 2
  /\ work' = <<Value(into, 0)>> \o Tail(work)
  /\ UNCHANGED <<save_pos, sv, weakref_av, level, state>>

ReadObjectvTag ==
  /\ NextTag({"OBJECTV"}) /\ ~BadOffset(tok.n) /\ tok.n \in DOMAIN ref_stashes
  /\ tracked' = TrackSv(into)
  /\ pos' = pos + 1
  /\ work' = <<Value(into, 0), Task("objectv", into, tok.n)>> \o Tail(work)
  /\ UNCHANGED <<save_pos, sv, ref_stashes, ref_bless_av, weakref_av, level, state>>

\* The rest of srl_read_objectv: here the value is read before it is queued.
srl_read_objectv ==
  /\ Doing("objectv")
  /\ ref_bless_av' = Append(ref_bless_av, [rv |-> into, ofs |-> Head(work).ofs])
  /\ work' = Tail(work)
  /\ UNCHANGED <<pos, save_pos, sv, tracked, ref_stashes, weakref_av, level, state>>

-----------------------------------------------------------------------------
(* The end *)

\* srl_finalize_structure starts with av_clear(weakref_av), which releases
\* the referents that were kept alive ...
ReleaseWeakrefs ==
  /\ state = "reading" /\ work = <<>>
  /\ weakref_av' = {}
  /\ state' = "finalizing"
  /\ UNCHANGED <<pos, save_pos, sv, work, tracked, ref_stashes, ref_bless_av, level>>

\* ... and what nobody owns now is freed; weak references to it become undef.
Unowned == {x \in DOMAIN sv : sv[x].k # "none" /\ Owners(x) = 0}

Free ==
  /\ state = "finalizing" /\ Unowned # {}
  /\ LET x == CHOOSE x \in Unowned : TRUE
     IN  sv' = [y \in DOMAIN sv |-> CASE y = x -> None
                                      [] y # x /\ sv[y].weak /\ sv[y].to = <<x>> ->
                                           [Blank EXCEPT !.ext = sv[y].ext]
                                      [] OTHER -> sv[y]]
  /\ UNCHANGED <<pos, save_pos, work, tracked, ref_stashes, ref_bless_av, weakref_av, level, state>>

\* A queued reference is blessed only if somebody beside the queue owns it.
Blessable == {i \in DOMAIN ref_bless_av : Owners(ref_bless_av[i].rv) > 1}
CannotBless == \E i \in Blessable : sv[ref_bless_av[i].rv].k # "rv"

ClassGiven(x) ==
  LET by == {i \in Blessable : sv[ref_bless_av[i].rv].to[1] = x}
  IN  IF by = {} THEN sv[x].class
      ELSE ref_stashes[ref_bless_av[CHOOSE i \in by : TRUE].ofs]

srl_finalize_structure ==
  /\ state = "finalizing" /\ Unowned = {} /\ ~CannotBless
  /\ sv' = [x \in DOMAIN sv |-> Blessed(sv[x], ClassGiven(x))]
  /\ ref_bless_av' = <<>>
  /\ state' = "done"
  /\ UNCHANGED <<pos, save_pos, work, tracked, ref_stashes, weakref_av, level>>

\* Everything that makes the decoder croak.
Rejected ==
  \/ Doing("value") /\ AtEnd
  \/ NextTag({"REFN"}) /\ (pos = Len(doc) \/ (~AheadIsImmortal /\ level >= MaxDepth))
  \/ NextTag({"ARRAYREF", "HASHREF"}) /\ level >= MaxDepth
  \/ NextTag({"REFP", "ALIAS", "COPY", "OBJECTV"}) /\ BadOffset(tok.n)
  \/ NextTag({"REFP", "ALIAS"}) /\ tok.n \notin DOMAIN TrackSv(into)
  \/ NextTag({"ALIAS"}) /\ Head(work).container = 0
  \/ NextTag({"COPY"}) /\ save_pos # 0
  \/ NextTag({"OBJECT"}) /\ ~ClassOk
  \/ NextTag({"OBJECTV"}) /\ tok.n \notin DOMAIN ref_stashes
  \/ Doing("weaken") /\ sv[into].k # "rv"
  \/ Doing("pair") /\ (KeyOk => DuplicateKey)
  \/ state = "finalizing" /\ Unowned = {} /\ CannotBless

Reject ==
  /\ Rejected
  /\ state' = "error"
  /\ UNCHANGED <<pos, save_pos, sv, work, tracked, ref_stashes, ref_bless_av, weakref_av, level>>

DecoderNext ==
  \/ ReadScalar \/ ReadPad \/ srl_read_refn \/ Leave \/ srl_read_refp \/ ReadAlias
  \/ ReadWeakenTag \/ srl_read_weaken \/ srl_read_copy \/ CopyDone \/ ReadContainer
  \/ ReadElement \/ ReadPair \/ srl_read_object \/ ReadObjectvTag \/ srl_read_objectv
  \/ ReleaseWeakrefs \/ Free \/ srl_finalize_structure \/ Reject
=============================================================================
