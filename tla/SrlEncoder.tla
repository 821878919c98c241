----------------------------- MODULE SrlEncoder -----------------------------
(***************************************************************************)
(* srl_dump_sv and what it calls (Perl/Encoder/srl_encoder.c): the walk    *)
(* over a Perl data structure that writes the document body.               *)
(*                                                                         *)
(* The body is a sequence of tokens, one per tag; an offset is the index   *)
(* of a token (BODY_POS_OFS starts at 1).  The C stack is the sequence     *)
(* todo of what is left to do: dump an element, dump a hash key, return.   *)
(***************************************************************************)
EXTENDS SrlHeap

CONSTANTS Node,       \* SV addresses
          Root,       \* the SV passed to encode()
          Cases,      \* the data structures considered, with encoder options
          Strings,    \* string values, hash keys, class names
          InlineMax   \* ARRAYREF_n/HASHREF_n exist for n below this (16)

ASSUME RootAssumption == Root \in Node
ASSUME InlineAssumption == InlineMax \in Nat

Heap == [Node -> [k : Kinds, v : Strings, to : Seq(Node), keys : Seq(Strings),
                  weak : BOOLEAN, class : Strings, ext : Nat]]
OptionSet == [canonical_refs : BOOLEAN,       \* SRL_F_CANONICAL_REFS
              shared_hashkeys : BOOLEAN,      \* SRL_F_SHARED_HASHKEYS
              sort_keys_perl : BOOLEAN,       \* SRL_F_SORT_KEYS_PERL
              dedupe : {"no", "copy", "alias"},
              unknown : {"croak", "undef", "stringify"},
              bless : {"yes", "no", "croak"},
              max_recursion_depth : Nat]

ASSUME StringsAssumption == "" \in Strings
ASSUME CasesAssumption == \A c \in Cases : /\ c.heap \in Heap /\ c.opt \in OptionSet
                                           /\ WellFormed(c.heap, Root)

VARIABLES heap, opt,         \* inputs, constant once chosen
          out,               \* the body written so far
          todo,              \* rest of the C stack
          cur,               \* locals of the innermost srl_dump_sv
          ctl,               \* control point
          depth,             \* enc->recursion_depth
          ref_seenhash,      \* SV -> offset, 0 if absent
          weak_seenhash,     \* SV -> offset of a WEAKEN, 0, or Absent
          str_seenhash,      \* stash, shared key or blessed scalar -> offset
          string_deduper_hv  \* string value -> offset

seen == <<ref_seenhash, weak_seenhash, str_seenhash, string_deduper_hv>>
vars == <<heap, opt, out, todo, cur, ctl, depth, seen>>

Absent == -1
Tags == {"INT", "STR", "UNDEF", "CANONICAL_UNDEF", "TRUE", "FALSE", "REFN", "REFP",
         "ALIAS", "COPY", "WEAKEN", "PAD", "OBJECT", "OBJECTV", "ARRAY", "HASH",
         "ARRAYREF", "HASHREF"}
Tok == [tag : Tags, n : Nat, s : Strings, trk : BOOLEAN]
Item == [op : {"sv", "hk", "hk_sv", "return"}, x : Node, s : Strings]
Local == [src : Node, weakref_ofs : Nat, ref_rewrite_pos : Nat]

T(tag, n, s) == [tag |-> tag, n |-> n, s |-> s, trk |-> FALSE]
Here == Len(out) + 1                        \* BODY_POS_OFS of the next tag
Elem(x) == [op |-> "sv", x |-> x, s |-> ""]
Key(s) == [op |-> IF opt.sort_keys_perl THEN "hk_sv" ELSE "hk", x |-> Root, s |-> s]
Return == [op |-> "return", x |-> Root, s |-> ""]
Enter(x) == [src |-> x, weakref_ofs |-> 0, ref_rewrite_pos |-> 0]

\* str_seenhash is one pointer table for three kinds of pointers.
Stash(c) == <<"stash", c>>
SharedKey(s) == <<"key", s>>
StrPtr == ({"stash", "key"} \X Strings) \cup ({"sv"} \X Node)

\* Mutant: the flag is not set.
TrackFlagForgotten(doc, ofs) == doc

SRL_SET_TRACK_FLAG(doc, ofs) == [doc EXCEPT ![ofs].trk = TRUE]

Init == /\ \E c \in Cases : heap = c.heap /\ opt = c.opt
        /\ out = <<>>
        /\ todo = <<>>
        /\ cur = Enter(Root)
        /\ ctl = "start"
        /\ depth = 0
        /\ ref_seenhash = [x \in Node |-> 0]
        /\ weak_seenhash = [x \in Node |-> Absent]
        /\ str_seenhash = [p \in StrPtr |-> 0]
        /\ string_deduper_hv = [s \in Strings |-> 0]

-----------------------------------------------------------------------------
(* Strings and scalars *)

\* srl_dump_svpv: a value dumped before is replaced by COPY, or by ALIAS.
srl_dump_svpv(s) ==
  IF opt.dedupe = "no"
  THEN /\ out' = Append(out, T("STR", 0, s))
       /\ UNCHANGED string_deduper_hv
  ELSE LET ofs == string_deduper_hv[s]
       IN  /\ out' = CASE ofs = 0 -> Append(out, T("STR", 0, s))
                       [] ofs # 0 /\ opt.dedupe = "copy" -> Append(out, T("COPY", ofs, ""))
                       [] ofs # 0 /\ opt.dedupe = "alias" ->
                            Append(SRL_SET_TRACK_FLAG(out, ofs), T("ALIAS", ofs, ""))
           /\ string_deduper_hv' = [string_deduper_hv EXCEPT
                                      ![s] = IF ofs = 0 THEN Here ELSE ofs]

\* _SRL_IF_SIMPLE_DIRECT_DUMP_SV, and the undef branch of srl_dump_sv.
DumpPlain(x) ==
  \/ /\ heap[x].k = "str"
     /\ srl_dump_svpv(heap[x].v)
  \/ /\ heap[x].k \in {"int", "undef"}
     /\ out' = Append(out, IF heap[x].k = "int" THEN T("INT", 0, heap[x].v)
                                                ELSE T("UNDEF", 0, ""))
     /\ UNCHANGED string_deduper_hv

IsPlain(x) == heap[x].k \in {"int", "str", "undef"}

-----------------------------------------------------------------------------
(* Calls and returns *)

\* srl_dump_sv on the root value.  It checks the recursion limit first.
CallDumpSv(x, rest) ==
  /\ depth' = depth + 1
  /\ ctl' = IF depth + 1 = opt.max_recursion_depth THEN "croak" ELSE "redo"
  /\ cur' = Enter(x)
  /\ todo' = rest
  /\ UNCHANGED <<heap, opt, out, seen>>

Start == ctl = "start" /\ CallDumpSv(Root, <<Return>>)

NextIs(op) == ctl = "next" /\ todo # <<>> /\ Head(todo).op = op

HasBackrefs(x) == WeakHolders(heap, x) # {}

\* CALL_SRL_DUMP_SV: an unshared defined scalar is dumped without a call.
IsDirect(x) == /\ heap[x].k \in {"int", "str"} /\ heap[x].class = ""
               /\ SvREFCNT(heap, x) = 1
               /\ ~HasBackrefs(x)

DumpElementDirect ==
  /\ NextIs("sv") /\ IsDirect(Head(todo).x)
  /\ DumpPlain(Head(todo).x)
  /\ todo' = Tail(todo)
  /\ UNCHANGED <<heap, opt, cur, ctl, depth, ref_seenhash, weak_seenhash, str_seenhash>>

DumpElement ==
  /\ NextIs("sv") /\ ~IsDirect(Head(todo).x)
  /\ CallDumpSv(Head(todo).x, <<Return>> \o Tail(todo))

DumpReturn ==
  /\ NextIs("return")
  /\ depth' = depth - 1
  /\ todo' = Tail(todo)
  /\ UNCHANGED <<heap, opt, out, cur, ctl, seen>>

\* srl_dump_hk: keys live in perl's shared string table, so the pointer
\* identifies the string.
srl_dump_hk ==
  /\ NextIs("hk")
  /\ LET p == SharedKey(Head(todo).s)
         ofs == str_seenhash[p]
     IN  IF opt.shared_hashkeys /\ ofs # 0
         THEN /\ out' = Append(out, T("COPY", ofs, ""))
              /\ UNCHANGED str_seenhash
         ELSE /\ out' = Append(out, T("STR", 0, Head(todo).s))
              /\ str_seenhash' = IF opt.shared_hashkeys
                                 THEN [str_seenhash EXCEPT ![p] = Here] ELSE str_seenhash
  /\ todo' = Tail(todo)
  /\ UNCHANGED <<heap, opt, cur, ctl, depth, ref_seenhash, weak_seenhash, string_deduper_hv>>

\* srl_dump_hv_sorted_sv_slow dumps the key like any string value.
DumpKeyAsSv ==
  /\ NextIs("hk_sv")
  /\ srl_dump_svpv(Head(todo).s)
  /\ todo' = Tail(todo)
  /\ UNCHANGED <<heap, opt, cur, ctl, depth, ref_seenhash, weak_seenhash, str_seenhash>>

-----------------------------------------------------------------------------
(* One pass of the redo_dump loop over cur.src.                            *)
(*                                                                         *)
(* Every pass starts by accounting for weak references: an SV with         *)
(* backreferences is remembered with the WEAKEN through which it was       *)
(* reached, or 0 once something that owns it was seen, and counts one      *)
(* reference more.                                                         *)

\* Mutant: forgets that an owner was seen.
NoteLastWeak(x) == IF HasBackrefs(x) THEN [weak_seenhash EXCEPT ![x] = cur.weakref_ofs]
                   ELSE weak_seenhash

NoteWeak(x) ==
  IF HasBackrefs(x) /\ weak_seenhash[x] # 0
  THEN [weak_seenhash EXCEPT ![x] = cur.weakref_ofs]
  ELSE weak_seenhash

refcount(x) == SvREFCNT(heap, x) + IF HasBackrefs(x) THEN 1 ELSE 0

SeenBefore(x) == refcount(x) > 1 /\ ref_seenhash[x] # 0

\* The shared start of a pass that goes on to dump x itself.
FirstVisit(x) ==
  /\ ctl = "redo" /\ cur.src = x
  /\ heap[x].k # "imm"
  /\ ~SeenBefore(x)
  /\ weak_seenhash' = NoteWeak(x)

RememberRef(x) == IF refcount(x) > 1 THEN [ref_seenhash EXCEPT ![x] = Here]
                                     ELSE ref_seenhash

\* REFP over the unfinished reference, or ALIAS in a container slot.
DumpSeenBefore ==
  /\ ctl = "redo" /\ SeenBefore(cur.src) /\ heap[cur.src].k # "imm"
  /\ LET ofs == ref_seenhash[cur.src]
         kept == IF cur.ref_rewrite_pos = 0 THEN out
                 ELSE SubSeq(out, 1, cur.ref_rewrite_pos - 1)
         tag == IF cur.ref_rewrite_pos = 0 THEN "ALIAS" ELSE "REFP"
     IN  out' = SRL_SET_TRACK_FLAG(Append(kept, T(tag, ofs, "")), ofs)
  /\ weak_seenhash' = NoteWeak(cur.src)
  /\ ctl' = "next"
  /\ UNCHANGED <<heap, opt, todo, cur, depth, ref_seenhash, str_seenhash, string_deduper_hv>>

DumpImmortal ==
  /\ ctl = "redo" /\ heap[cur.src].k = "imm"
  /\ out' = Append(out, T(heap[cur.src].v, 0, ""))
  /\ weak_seenhash' = NoteWeak(cur.src)
  /\ ctl' = "next"
  /\ UNCHANGED <<heap, opt, todo, cur, depth, ref_seenhash, str_seenhash, string_deduper_hv>>

DumpScalar ==
  /\ FirstVisit(cur.src) /\ IsPlain(cur.src)
  /\ ref_seenhash' = RememberRef(cur.src)
  /\ DumpPlain(cur.src)
  /\ ctl' = "next"
  /\ UNCHANGED <<heap, opt, todo, cur, depth, str_seenhash>>

\* srl_dump_classname.  A class is named once and referred to by OBJECTV; a
\* blessed scalar is marked so that its bless operator is written only once.
WantsClass(x) == /\ heap[x].class # "" /\ opt.bless = "yes"
                 /\ heap[x].k # "code"
                 /\ IsContainer(heap[x]) \/ str_seenhash[<<"sv", x>>] = 0

ClassTokens(x) ==
  LET ofs == str_seenhash[Stash(heap[x].class)]
  IN  CASE ~WantsClass(x) -> <<>>
        [] WantsClass(x) /\ ofs # 0 -> <<T("OBJECTV", ofs, "")>>
        [] WantsClass(x) /\ ofs = 0 -> <<T("OBJECT", 0, ""), T("STR", 0, heap[x].class)>>

\* at: offset of the OBJECT tag, after: offset behind the class name.
ClassRemembered(x, at, after) ==
  LET c == Stash(heap[x].class)
      named == IF str_seenhash[c] = 0 THEN [str_seenhash EXCEPT ![c] = at + 1] ELSE str_seenhash
  IN  CASE ~WantsClass(x) -> str_seenhash
        [] WantsClass(x) /\ IsContainer(heap[x]) -> named
        [] WantsClass(x) /\ ~IsContainer(heap[x]) -> [named EXCEPT ![<<"sv", x>>] = after]

\* Mutant: the offset is taken behind the WEAKEN.
WeakrefOfsLate(x) == IF heap[x].weak THEN Here + 1 ELSE 0

WeakrefOfs(x) == IF heap[x].weak THEN Here ELSE 0

DumpReference ==
  /\ FirstVisit(cur.src) /\ heap[cur.src].k = "rv"
  /\ LET x == Head(heap[cur.src].to)
         weaken == IF heap[cur.src].weak THEN <<T("WEAKEN", 0, "")>> ELSE <<>>
         at == Here + Len(weaken)
         after == at + Len(ClassTokens(x))
     IN  /\ ~(heap[x].class # "" /\ opt.bless = "croak")
         /\ out' = out \o weaken \o ClassTokens(x) \o <<T("REFN", 0, "")>>
         /\ cur' = [src |-> x,
                    weakref_ofs |-> WeakrefOfs(cur.src),
                    ref_rewrite_pos |-> IF IsContainer(heap[x]) THEN at ELSE after]
         /\ str_seenhash' = ClassRemembered(x, at, after)
  /\ ref_seenhash' = RememberRef(cur.src)
  /\ UNCHANGED <<heap, opt, todo, ctl, depth, string_deduper_hv>>

\* 'croak_on_bless'
DumpReferenceCroak ==
  /\ FirstVisit(cur.src) /\ heap[cur.src].k = "rv"
  /\ heap[Head(heap[cur.src].to)].class # "" /\ opt.bless = "croak"
  /\ ref_seenhash' = RememberRef(cur.src)
  /\ ctl' = "croak"
  /\ UNCHANGED <<heap, opt, out, todo, cur, depth, str_seenhash, string_deduper_hv>>

\* srl_dump_av, srl_dump_hv: an unshared small container replaces the REFN
\* before it; the elements are dumped next, then srl_dump_sv returns.
Inlined(x) == /\ Len(heap[x].to) < InlineMax
              /\ refcount(x) = 1
              /\ ~opt.canonical_refs

Interleave(ks, xs) ==
  [i \in 1 .. 2 * Len(ks) |-> IF i % 2 = 1 THEN Key(ks[(i + 1) \div 2]) ELSE Elem(xs[i \div 2])]

Children(x) == IF heap[x].k = "av" THEN [i \in DOMAIN heap[x].to |-> Elem(heap[x].to[i])]
               ELSE Interleave(heap[x].keys, heap[x].to)

DumpContainer ==
  /\ FirstVisit(cur.src) /\ IsContainer(heap[cur.src])
  /\ LET x == cur.src
         n == Len(heap[x].to)
         tag == IF heap[x].k = "av" THEN "ARRAY" ELSE "HASH"
     IN  /\ out' = IF Inlined(x)
                   THEN Append(SubSeq(out, 1, Len(out) - 1),
                               T(IF tag = "ARRAY" THEN "ARRAYREF" ELSE "HASHREF", n, ""))
                   ELSE Append(out, T(tag, n, ""))
         /\ todo' = Children(x) \o todo
  /\ ref_seenhash' = RememberRef(cur.src)
  /\ ctl' = "next"
  /\ UNCHANGED <<heap, opt, cur, depth, str_seenhash, string_deduper_hv>>

\* Mutant: without PTABLE_delete.
UnknownRemembered(x) == RememberRef(x)

UnknownForgotten(x) == [ref_seenhash EXCEPT ![x] = 0]

\* SRL_HANDLE_UNSUPPORTED_SvTYPE: the reference is rewritten and forgotten.
DumpUnsupported ==
  /\ FirstVisit(cur.src) /\ heap[cur.src].k = "code"
  /\ IF opt.unknown = "croak"
     THEN /\ ctl' = "croak"
          /\ ref_seenhash' = RememberRef(cur.src)
          /\ UNCHANGED out
     ELSE /\ ctl' = "next"
          /\ ref_seenhash' = UnknownForgotten(cur.src)
          /\ out' = Append(SubSeq(out, 1, cur.ref_rewrite_pos - 1),
                           IF opt.unknown = "undef" THEN T("UNDEF", 0, "")
                                                    ELSE T("STR", 0, heap[cur.src].v))
  /\ UNCHANGED <<heap, opt, todo, cur, depth, str_seenhash, string_deduper_hv>>

-----------------------------------------------------------------------------
\* srl_fixup_weakrefs: a referent nobody owned loses its last WEAKEN.
srl_fixup_weakrefs ==
  /\ ctl = "next" /\ todo = <<>>
  /\ out' = [i \in DOMAIN out |-> IF \E x \in Node : weak_seenhash[x] = i
                                  THEN T("PAD", 0, "") ELSE out[i]]
  /\ ctl' = "done"
  /\ UNCHANGED <<heap, opt, todo, cur, depth, seen>>

DumpNext == \/ Start \/ DumpElementDirect \/ DumpElement \/ DumpReturn
            \/ srl_dump_hk \/ DumpKeyAsSv
            \/ DumpSeenBefore \/ DumpImmortal \/ DumpScalar \/ DumpReference
            \/ DumpReferenceCroak \/ DumpContainer \/ DumpUnsupported
            \/ srl_fixup_weakrefs

Finished == ctl \in {"done", "croak"}
EncoderStops == Finished /\ UNCHANGED vars
Next == DumpNext \/ EncoderStops
Spec == Init /\ [][Next]_vars /\ WF_vars(DumpNext)
-----------------------------------------------------------------------------
(* Properties *)

\* Type invariant: among others recursion_depth, an unsigned counter, never
\* goes below zero and only known tags are written.
TypeOK == /\ heap \in Heap /\ opt \in OptionSet
          /\ out \in Seq(Tok) /\ todo \in Seq(Item) /\ cur \in Local
          /\ ctl \in {"start", "next", "redo", "done", "croak"} /\ depth \in Nat
          /\ ref_seenhash \in [Node -> Nat]
          /\ weak_seenhash \in [Node -> Nat \cup {Absent}]
          /\ str_seenhash \in [StrPtr -> Nat] /\ string_deduper_hv \in [Strings -> Nat]

\* Tags that may open the encoding of x.
TagsOf(x) == CASE heap[x].k = "int" -> {"INT"}
               [] heap[x].k = "undef" -> {"UNDEF"}
               [] heap[x].k = "str" -> {"STR", "COPY", "ALIAS"}
               [] heap[x].k = "av" -> {"ARRAY"}
               [] heap[x].k = "hv" -> {"HASH"}
               [] heap[x].k = "code" -> {}
               [] OTHER -> {"WEAKEN", "OBJECT", "OBJECTV", "REFN", "REFP", "ARRAYREF",
                            "HASHREF", "PAD", "UNDEF", "STR"}

IsString(ofs, s) == ofs \in DOMAIN out /\ out[ofs].tag = "STR" /\ out[ofs].s = s

\* The pointer tables never go stale: although REFP, ARRAYREF_n and UNDEF
\* overwrite bytes already written and move the buffer position back, every
\* remembered offset still is the offset of what was remembered: the SV's own
\* tag, the class name behind its OBJECT, the key, the string.
SeenOffsetsValid ==
  /\ \A x \in Node : ref_seenhash[x] # 0 /\ ctl # "croak" =>
       ref_seenhash[x] \in DOMAIN out /\ out[ref_seenhash[x]].tag \in TagsOf(x)
  /\ \A s \in Strings :
       /\ str_seenhash[Stash(s)] # 0 => /\ IsString(str_seenhash[Stash(s)], s)
                                        /\ out[str_seenhash[Stash(s)] - 1].tag = "OBJECT"
       /\ str_seenhash[SharedKey(s)] # 0 => IsString(str_seenhash[SharedKey(s)], s)
       /\ string_deduper_hv[s] # 0 => IsString(string_deduper_hv[s], s)

\* Every reference written into the document points back (a REFP at most at
\* itself, for a reference to itself), REFP and ALIAS to a tag that carries the
\* track flag, COPY to a string and OBJECTV to the name in an OBJECT.
BackReferencesResolve ==
  \A i \in DOMAIN out :
    LET t == out[i]
    IN  /\ t.tag \in {"REFP", "ALIAS"} => t.n \in 1 .. i /\ out[t.n].trk
        /\ t.tag = "ALIAS" => t.n < i
        /\ t.tag = "COPY" => t.n \in 1 .. i - 1 /\ out[t.n].tag = "STR"
        /\ t.tag = "OBJECTV" => /\ t.n \in 2 .. i - 1 /\ out[t.n].tag = "STR"
                                /\ out[t.n - 1].tag = "OBJECT"

\* assert(*pos == SRL_HDR_WEAKEN) in srl_fixup_weakrefs: what is about to be
\* replaced by PAD is a plain WEAKEN.
FixupFindsWeaken ==
  ctl = "next" /\ todo = <<>> =>
    \A x \in Node : weak_seenhash[x] > 0 =>
      out[weak_seenhash[x]] = T("WEAKEN", 0, "")
=============================================================================
