---------------------------- MODULE SrlIterator ----------------------------
(***************************************************************************)
(* Sereal::Path::Iterator (Perl/Path/Iterator/srl_iterator.c): a position   *)
(* in an encoded document and a stack of the containers it is in.  A call   *)
(* is a sequence of commands on `work', its top first, one loop iteration   *)
(* of the C code each.                                                      *)
(***************************************************************************)
EXTENDS SrlTrees
LOCAL INSTANCE SequencesExt

CONSTANTS Programs,   \* [doc, ops]: a document and the calls made on its iterator
          Steps,      \* numbers of steps asked for
          Indices,    \* array indices asked for
          MaxCalls    \* bound on the calls

VARIABLES doc, ops,   \* constant once chosen
          pos,        \* index into doc
          stack,      \* every slot used so far, those above the top too
          depth,      \* index of the top slot, counted from 0; -1: empty
          work, found,
          status,     \* "ok", "croak", "astray" (reading at a wrong place), "crash"
          calls
place == <<pos, stack, depth>>
vars == <<doc, ops, place, work, found, status, calls>>

C(op) == [op |-> op, n |-> 0, d |-> 0, e |-> 0, k |-> "", to |-> 0, by |-> 0]
CN(op, n) == [C(op) EXCEPT !.n = n]

Frame(tag, length, first) ==
  [idx |-> 0, length |-> length, first |-> first, end |-> 0, tag |-> tag]
top == stack[depth + 1]
Exhausted == top.idx >= top.length
OnRoot(i) == stack[i + 1].tag = "ROOT"
WithTop(f) == [stack EXCEPT ![depth + 1] = f]
OneMore == WithTop([top EXCEPT !.idx = @ + 1])
\* srl_stack_push_ptr: the slot above the top, the array grown if it has none.
srl_stack_push(s, f) == IF depth + 2 <= Len(s) THEN [s EXCEPT ![depth + 2] = f] ELSE Append(s, f)

\* srl_build_iterator_struct and srl_iterator_set.
Init ==
  /\ \E p \in Programs : doc = p.doc /\ ops = p.ops
  /\ pos = 1
  /\ stack = <<Frame("ROOT", 1, 1)>> /\ depth = 0
  /\ work = <<>> /\ found = FALSE /\ status = "ok" /\ calls = 0

At(op) == status = "ok" /\ work # <<>> /\ Head(work).op = op
cmd == Head(work)
\* The command is done, and replaced by others.
Then(cmds) == work' = cmds \o Tail(work) /\ UNCHANGED status
Return == Then(<<>>)
Fails(how) == status' = how /\ work' = <<>>
Croak == Fails("croak")
fixed == <<doc, ops, calls>>

-----------------------------------------------------------------------------
(* What a tag and the tags behind it open: where the contents start, under   *)
(* which tag they are put on the stack, and how many they are.  first = 0:   *)
(* the C code croaks.                                                        *)

Opens(tag, length, first) == [tag |-> tag, length |-> length, first |-> first]
Refused == Opens("BAD", 0, 0)
Items(t) == IF IsHash(t) THEN 2 * t.n ELSE t.n
TagAt(i) == IF i \in 1 .. Len(doc) THEN doc[i] ELSE T("BAD", 0, "")

\* srl_iterator_read_stringish accepts the token.
Stringish(i) == \/ IsString(TagAt(i))
                \/ TagAt(i).tag = "COPY" /\ IsString(TagAt(TagAt(i).n))

\* srl_iterator_read_refn, and srl_iterator_read_refp at the offset it names.
srl_iterator_read_refn(i) ==
  CASE TagAt(i).tag \in {"ARRAY", "HASH"} -> Opens(TagAt(i).tag, Items(TagAt(i)), i + 1)
    [] i > Len(doc) -> Refused
    [] OTHER -> Opens(TagAt(i).tag, 1, i)

\* i: behind the class name.
srl_iterator_read_object(i) ==
  CASE TagAt(i).tag \in {"ARRAYREF", "HASHREF"} -> Opens(TagAt(i).tag, Items(TagAt(i)), i + 1)
    [] TagAt(i).tag = "REFN" -> srl_iterator_read_refn(i + 1)
    [] TagAt(i).tag = "REFP" -> srl_iterator_read_refn(TagAt(i).n)
    [] OTHER -> Refused

ObjectAt(i) == CASE TagAt(i).tag = "OBJECTV" -> srl_iterator_read_object(i + 1)
                 [] Stringish(i + 1) -> srl_iterator_read_object(i + 2)
                 [] OTHER -> Refused

\* An ALIAS is followed if the item it names is a reference.
AliasOfRef(i) == TagAt(i).tag \in {"ARRAYREF", "HASHREF", "REFN", "REFP", "OBJECT", "OBJECTV"}
srl_iterator_read_alias(i) ==
  IF TagAt(i).tag \in {"OBJECT", "OBJECTV"} THEN ObjectAt(i) ELSE Opens(TagAt(i).tag, 1, i + 1)

Enters(i) ==
  LET t == doc[i]
  IN  CASE t.tag \in {"ARRAYREF", "HASHREF"} -> Opens(t.tag, Items(t), i + 1)
        [] t.tag = "REFN" -> srl_iterator_read_refn(i + 1)
        [] t.tag = "REFP" -> srl_iterator_read_refn(t.n)
        [] t.tag = "ALIAS" -> srl_iterator_read_alias(t.n)
        [] OTHER -> ObjectAt(i)

-----------------------------------------------------------------------------
(* srl_iterator_step_in *)

StepIn ==
  /\ At("step_in")
  /\ UNCHANGED <<fixed, pos, depth, found>>
  /\ CASE cmd.n = 0 -> Return /\ UNCHANGED stack
       [] cmd.n > 0 /\ Exhausted -> Croak /\ UNCHANGED stack
       [] OTHER -> stack' = OneMore /\ Then(<<C("read_in"), CN("step_in", cmd.n - 1)>>)

Reads(op, tags) == At(op) /\ pos <= Len(doc) /\ doc[pos].tag \in tags
Scalars == {"INT", "STR", "UNDEF", "COPY"}

ReadInScalar ==
  /\ Reads("read_in", Scalars)
  /\ pos' = pos + 1 /\ Return
  /\ UNCHANGED <<fixed, stack, depth, found>>

ReadInWeaken ==
  /\ Reads("read_in", {"WEAKEN"})
  /\ pos' = pos + 1
  /\ UNCHANGED <<fixed, stack, depth, work, found, status>>

\* The frame left behind remembers where a followed offset was written, unless
\* it stood behind a class name.  The contents of an ALIAS of a REFP are taken to
\* start at the bytes of its offset, which are not followed here.
ReadInReference ==
  /\ Reads("read_in", {"ARRAYREF", "HASHREF", "REFN", "REFP", "OBJECT", "OBJECTV", "ALIAS"})
  /\ doc[pos].tag = "ALIAS" => AliasOfRef(doc[pos].n)
  /\ LET o == Enters(pos)
         under == IF doc[pos].tag \in {"REFP", "ALIAS"} THEN WithTop([top EXCEPT !.end = pos + 1])
                  ELSE stack
         stray == doc[pos].tag = "ALIAS" /\ TagAt(doc[pos].n).tag = "REFP"
     IN  IF o.first = 0 THEN Croak /\ UNCHANGED place
         ELSE /\ stack' = srl_stack_push(under, Frame(o.tag, o.length, o.first))
              /\ depth' = depth + 1 /\ pos' = o.first /\ IF stray THEN Fails("astray") ELSE Return
  /\ UNCHANGED <<fixed, found>>

\* An ALIAS of a scalar is stepped over, and may not be the last tag.
ReadInAlias ==
  /\ Reads("read_in", {"ALIAS"}) /\ ~AliasOfRef(doc[pos].n)
  /\ pos' = pos + 1
  /\ IF pos = Len(doc) THEN Croak ELSE Return
  /\ UNCHANGED <<fixed, stack, depth, found>>

ReadInRefused ==
  /\ \/ Reads("read_in", {"ARRAY", "HASH", "REGEXP", "BAD"})
     \/ At("read_in") /\ pos > Len(doc)
  /\ Croak /\ UNCHANGED <<fixed, place, found>>

(***************************************************************************)
(* Padding: the loop that skips PADs has read the first other tag as well.  *)
(* A tag without a payload is lost; of any other the payload is read as     *)
(* tags, which is not followed here.                                        *)
(***************************************************************************)
ReadPad ==
  /\ Reads("read_in", {"PAD"}) \/ Reads("read_over", {"PAD"})
  /\ LET next == SelectInSubSeq(doc, pos, Len(doc), LAMBDA t : t.tag # "PAD")
     IN  CASE next = 0 -> pos' = Len(doc) + 1 /\ UNCHANGED <<work, status>>
           [] TagAt(next).tag \in {"INT", "UNDEF", "REFN", "WEAKEN", "ARRAYREF", "HASHREF",
                                   "OBJECT", "REGEXP"} -> pos' = next + 1 /\ UNCHANGED <<work, status>>
           [] OTHER -> pos' = next /\ Fails("astray")
  /\ UNCHANGED <<fixed, stack, depth, found>>

-----------------------------------------------------------------------------
(* srl_iterator_wrap_stack, srl_iterator_next, srl_iterator_step_out *)

\* Mutant: the position behind a followed reference is not restored.
UnwoundOnly(f) == [pos |-> pos, frame |-> f]

Unwound(f) == IF f.end # 0 THEN [pos |-> f.end, frame |-> [f EXCEPT !.end = 0]]
              ELSE [pos |-> pos, frame |-> f]

WrapStack ==
  /\ At("wrap")
  /\ UNCHANGED <<fixed, found>>
  /\ IF depth > cmd.d /\ top.idx = top.length /\ ~OnRoot(depth)
     THEN LET u == Unwound(stack[depth])
          IN  /\ depth' = depth - 1 /\ pos' = u.pos /\ stack' = [stack EXCEPT ![depth] = u.frame]
              /\ UNCHANGED <<work, status>>
     ELSE Return /\ UNCHANGED place

Wrap(d) == [C("wrap") EXCEPT !.d = d]
Advance(n, d) == [C("advance") EXCEPT !.n = n, !.d = d]

Next_ ==
  /\ At("next")
  /\ UNCHANGED <<fixed, place, found>>
  /\ CASE cmd.n = 0 -> Return
       [] cmd.n > 0 /\ Exhausted -> Croak
       [] OTHER -> Then(<<Wrap(depth), Advance(cmd.n, depth)>>)

AdvanceOne ==
  /\ At("advance")
  /\ UNCHANGED <<fixed, pos, depth, found>>
  /\ LET n == IF depth = cmd.d THEN cmd.n - 1 ELSE cmd.n
     IN  CASE depth = cmd.d /\ cmd.n = 0 -> Return /\ UNCHANGED stack
           [] (depth # cmd.d \/ cmd.n > 0) /\ Exhausted -> Croak /\ UNCHANGED stack
           [] OTHER -> /\ stack' = OneMore
                       /\ Then(<<C("read_over"), Wrap(cmd.d), Advance(n, cmd.d)>>)

ReadOverScalar ==
  /\ Reads("read_over", Scalars \cup {"REFP", "ALIAS"})
  /\ pos' = pos + 1 /\ Return
  /\ UNCHANGED <<fixed, stack, depth, found>>

ReadOverContainer ==
  /\ Reads("read_over", {"ARRAY", "HASH", "ARRAYREF", "HASHREF"})
  /\ stack' = srl_stack_push(stack, Frame(doc[pos].tag, Items(doc[pos]), pos + 1))
  /\ depth' = depth + 1 /\ pos' = pos + 1 /\ Return
  /\ UNCHANGED <<fixed, found>>

\* Mutant: the tag is read again and again.
OverNothing == IF doc[pos].tag = "OBJECT" /\ ~Stringish(pos + 1) THEN 0 ELSE pos

OverPrefix == CASE doc[pos].tag # "OBJECT" -> pos + 1
                [] Stringish(pos + 1) -> pos + 2
                [] OTHER -> 0

ReadOverPrefix ==
  /\ Reads("read_over", {"REFN", "WEAKEN", "OBJECT", "OBJECTV"})
  /\ IF OverPrefix = 0 THEN Croak /\ UNCHANGED pos
     ELSE pos' = OverPrefix /\ UNCHANGED <<work, status>>
  /\ UNCHANGED <<fixed, stack, depth, found>>

ReadOverRegexp ==
  /\ Reads("read_over", {"REGEXP"})
  /\ IF Stringish(pos + 1) /\ Stringish(pos + 2) THEN pos' = pos + 3 /\ Return
     ELSE Croak /\ UNCHANGED pos
  /\ UNCHANGED <<fixed, stack, depth, found>>

ReadOverRefused ==
  /\ Reads("read_over", {"BAD"}) \/ (At("read_over") /\ pos > Len(doc))
  /\ Croak /\ UNCHANGED <<fixed, place, found>>

Out(d) == [C("out") EXCEPT !.d = d]

StepOut ==
  /\ At("step_out")
  /\ UNCHANGED <<fixed, place, found>>
  /\ CASE cmd.n = 0 -> Return
       [] cmd.n > depth -> Croak
       [] OTHER -> Then(<<Out(depth - cmd.n)>>)

StepOutOne ==
  /\ At("out")
  /\ UNCHANGED <<fixed, place, found>>
  /\ CASE depth <= cmd.d -> Return
       [] depth > cmd.d /\ OnRoot(depth) -> Croak
       [] OTHER -> Then(<<CN("next", top.length - top.idx), Wrap(cmd.d), cmd>>)

-----------------------------------------------------------------------------
(* Going back, arrays, hashes *)

\* The frames above the nearest root.
Levels == depth - Max({i \in 0 .. depth : OnRoot(i)})
AtFirst(d) == /\ depth' = d
              /\ stack' = [stack EXCEPT ![d + 1].idx = 0]
              /\ pos' = stack[d + 1].first

srl_iterator_rewind ==
  /\ At("rewind")
  /\ UNCHANGED <<fixed, found>>
  /\ IF cmd.n > Levels THEN Croak /\ depth' = depth - Levels /\ UNCHANGED <<pos, stack>>
     ELSE AtFirst(depth - cmd.n) /\ Return

\* srl_iterator_array_exists: the index counted from 0, or -1; croaks on an exhausted frame.
Normalized(i) ==
  LET k == IF i < 0 THEN top.length + i ELSE i
  IN  IF k \in 0 .. top.length - 1 THEN k ELSE -1

srl_iterator_array_goto ==
  /\ At("goto")
  /\ UNCHANGED <<fixed, place, found>>
  /\ LET k == Normalized(cmd.n)
     IN  CASE Exhausted \/ k = -1 -> Croak
           [] ~Exhausted /\ k >= top.idx -> Then(<<CN("next", k - top.idx)>>)
           [] OTHER -> Then(<<C("rewind"), CN("next", k)>>)

\* srl_iterator_hash_key reads a key and is then at its value.
AtKey == /\ top.tag \in {"HASH", "HASHREF"} /\ ~Exhausted
         /\ top.idx % 2 = 0 /\ Stringish(pos)

srl_iterator_hash_key ==
  /\ At("hash_key")
  /\ UNCHANGED <<fixed, depth, found>>
  /\ IF AtKey THEN pos' = pos + 1 /\ stack' = OneMore /\ Return
     ELSE Croak /\ UNCHANGED <<pos, stack>>

HashExists ==
  /\ At("hash_exists")
  /\ Then(<<C("rewind"), [C("scan") EXCEPT !.k = cmd.k]>>)
  /\ UNCHANGED <<fixed, place, found>>

HashScan ==
  /\ At("scan")
  /\ UNCHANGED <<fixed, depth>>
  /\ CASE Exhausted -> Return /\ found' = FALSE /\ UNCHANGED <<pos, stack>>
       [] ~Exhausted /\ ~AtKey -> Croak /\ UNCHANGED <<pos, stack, found>>
       [] OTHER -> /\ pos' = pos + 1 /\ stack' = OneMore
                   /\ IF Name(doc, pos) = cmd.k THEN Return /\ found' = TRUE
                      ELSE Then(<<CN("next", 1), cmd>>) /\ UNCHANGED found

Machine ==
  \/ StepIn \/ ReadInScalar \/ ReadInWeaken \/ ReadInReference \/ ReadInAlias \/ ReadInRefused
  \/ ReadPad \/ WrapStack \/ Next_ \/ AdvanceOne
  \/ ReadOverScalar \/ ReadOverContainer \/ ReadOverPrefix \/ ReadOverRegexp \/ ReadOverRefused
  \/ StepOut \/ StepOutOne
  \/ srl_iterator_rewind \/ srl_iterator_array_goto \/ srl_iterator_hash_key \/ HashExists \/ HashScan

-----------------------------------------------------------------------------
(* srl_iterator_info: what is at a position; kind "BAD": the C code croaks.  *)

Info(kind, ref_to, blessed, length) ==
  [kind |-> kind, ref_to |-> ref_to, blessed |-> blessed, length |-> length]
KindOf(t) == IF IsHash(t) THEN "HASH" ELSE "ARRAY"

\* What a reference refers to: labels read_ref and, of an object, read_item.
RECURSIVE InfoReferent(_, _)
InfoReferent(i, blessed) ==
  LET t == TagAt(i)
  IN  CASE t.tag \in {"REFN", "REFP", "ARRAYREF", "HASHREF", "OBJECT", "OBJECTV"} ->
             Info("REF", TRUE, blessed, 1)
        [] t.tag \in {"ARRAY", "HASH"} -> Info(KindOf(t), TRUE, blessed, t.n)
        [] t.tag \in {"INT", "STR", "UNDEF"} -> Info("SCALAR", TRUE, blessed, 1)
        [] t.tag = "REGEXP" /\ ~blessed -> Info("REGEXP", TRUE, blessed, 1)
        [] t.tag = "PAD" \/ (t.tag = "WEAKEN" /\ ~blessed) -> InfoReferent(i + 1, blessed)
        [] t.tag = "COPY" -> InfoReferent(t.n, blessed)
        [] OTHER -> Info("BAD", FALSE, FALSE, 0)

RECURSIVE InfoObject(_)
InfoObject(i) ==
  LET t == TagAt(i)
  IN  CASE t.tag = "REFP" -> InfoReferent(t.n, TRUE)
        [] t.tag = "REFN" -> InfoReferent(i + 1, TRUE)
        [] t.tag \in {"ARRAYREF", "HASHREF"} -> Info(KindOf(t), TRUE, TRUE, t.n)
        [] t.tag = "PAD" -> InfoObject(i + 1)
        [] OTHER -> Info("BAD", FALSE, FALSE, 0)

\* Mutant: the offset of a REFP is not followed.
RECURSIVE InfoInPlace(_)
InfoInPlace(i) ==
  LET t == TagAt(i)
  IN  CASE t.tag \in {"REFN", "REFP"} -> InfoReferent(i + 1, FALSE)
        [] t.tag \in {"ARRAYREF", "HASHREF"} -> Info(KindOf(t), TRUE, FALSE, t.n)
        [] t.tag \in {"PAD", "WEAKEN"} -> InfoInPlace(i + 1)
        [] OTHER -> Info("SCALAR", FALSE, FALSE, 1)

RECURSIVE srl_iterator_info(_)
srl_iterator_info(i) ==
  LET t == TagAt(i)
  IN  CASE t.tag = "OBJECTV" -> IF Stringish(t.n) THEN InfoObject(i + 1) ELSE Info("BAD", FALSE, FALSE, 0)
        [] t.tag = "OBJECT" -> IF Stringish(i + 1) THEN InfoObject(i + 2) ELSE Info("BAD", FALSE, FALSE, 0)
        [] t.tag = "REFP" -> InfoReferent(t.n, FALSE)
        [] t.tag = "REFN" -> InfoReferent(i + 1, FALSE)
        [] t.tag \in {"ARRAYREF", "HASHREF"} -> Info(KindOf(t), TRUE, FALSE, t.n)
        [] t.tag \in {"INT", "STR", "UNDEF"} -> Info("SCALAR", FALSE, FALSE, 1)
        [] t.tag = "REGEXP" -> Info("REGEXP", FALSE, FALSE, 1)
        [] t.tag \in {"PAD", "WEAKEN"} -> srl_iterator_info(i + 1)
        [] t.tag \in {"COPY", "ALIAS"} -> srl_iterator_info(t.n)
        [] OTHER -> Info("BAD", FALSE, FALSE, 0)

-----------------------------------------------------------------------------
(* Calls from Perl.  After a croak the caller starts again with reset.       *)

Idle == work = <<>> /\ status = "ok"
MayCall(op) == /\ op \in ops /\ calls < MaxCalls /\ calls' = calls + 1
               /\ UNCHANGED <<doc, ops>>

Call(op, c) == Idle /\ MayCall(op) /\ work' = <<c>> /\ UNCHANGED <<place, found, status>>

CallCounted == \E op \in {"step_in", "next", "step_out", "rewind"}, n \in Steps : Call(op, CN(op, n))
CallGoto == \E i \in Indices : Call("goto", CN("goto", i))
CallHashKey == Call("hash_key", C("hash_key"))
CallHashExists == \E s \in Strings : Call("hash_exists", [C("hash_exists") EXCEPT !.k = s])

\* The decoder stops behind the value; for an ALIAS it was started at the item named.
srl_iterator_decode_and_next ==
  /\ Idle /\ MayCall("decode_and_next") /\ UNCHANGED <<depth, found>>
  /\ IF pos > Len(doc) \/ Exhausted THEN Croak /\ UNCHANGED <<pos, stack>>
     ELSE /\ pos' = After(doc, IF doc[pos].tag = "ALIAS" THEN doc[pos].n ELSE pos)
          /\ stack' = OneMore /\ UNCHANGED <<work, status>>

\* The frame's `end' is what the slot happened to hold.
srl_iterator_disjoin ==
  /\ Idle /\ MayCall("disjoin") /\ UNCHANGED <<pos, work, found, status>>
  /\ depth' = depth + 1
  /\ \E e \in IF depth + 2 <= Len(stack) THEN {stack[depth + 2].end} ELSE 0 .. Len(doc) :
       stack' = srl_stack_push(stack, [Frame("ROOT", 1, pos) EXCEPT !.end = e])

\* Without a root of its own below, the stack is emptied and then read.
srl_iterator_unite ==
  /\ Idle /\ MayCall("unite") /\ UNCHANGED <<stack, found>>
  /\ LET d == depth - Levels
     IN  CASE depth <= 0 -> Croak /\ UNCHANGED <<pos, depth>>
           [] depth > 0 /\ d = 0 -> Fails("crash") /\ depth' = -1 /\ UNCHANGED pos
           [] OTHER -> /\ depth' = d - 1
                       /\ IF stack[d].idx >= stack[d].length THEN Croak /\ UNCHANGED pos
                          ELSE pos' = stack[d + 1].first /\ UNCHANGED <<work, status>>

srl_iterator_reset ==
  /\ work = <<>> /\ status \in {"ok", "croak"} /\ depth >= 0 /\ MayCall("reset")
  /\ AtFirst(depth - Levels) /\ status' = "ok" /\ UNCHANGED <<work, found>>

\* The same document again: its root is pushed on the stack as it is.
srl_iterator_set ==
  /\ Idle /\ MayCall("set") /\ UNCHANGED <<work, found, status>>
  /\ stack' = srl_stack_push(stack, Frame("ROOT", 1, 1)) /\ depth' = depth + 1 /\ pos' = 1

\* A document with a bad header: the buffer is its own, body_pos the old one's.
SetRefused == /\ Idle /\ MayCall("bad_set") /\ Fails("astray") /\ UNCHANGED <<place, found>>

Calls ==
  \/ CallCounted \/ CallGoto \/ CallHashKey \/ CallHashExists \/ srl_iterator_decode_and_next
  \/ srl_iterator_disjoin \/ srl_iterator_unite \/ srl_iterator_reset \/ srl_iterator_set \/ SetRefused
-----------------------------------------------------------------------------
(* Where a position is, by the structure of the document alone.              *)

\* The value at i is in a container, or in a reference that opens as one of 1.
RECURSIVE Contents(_)
Contents(i) ==
  LET t == TagAt(i)
  IN  CASE t.tag \in {"PAD", "WEAKEN", "OBJECTV"} -> Contents(i + 1)
        [] t.tag = "OBJECT" -> Contents(i + 2)
        [] t.tag = "ALIAS" -> Contents(t.n)
        [] t.tag \in {"ARRAYREF", "HASHREF"} -> [first |-> i + 1, length |-> Items(t)]
        [] t.tag \in {"REFN", "REFP"} ->
             LET r == IF t.tag = "REFP" THEN t.n ELSE i + 1
             IN  IF TagAt(r).tag \in {"ARRAY", "HASH"} THEN [first |-> r + 1, length |-> Items(TagAt(r))]
                 ELSE [first |-> r, length |-> 1]
        [] OTHER -> [first |-> 0, length |-> 0]

\* The element a frame is at; the one before it is the one that was entered.
Element(f) == AfterN(doc, f.first, f.idx)
Entered(f) == AfterN(doc, f.first, f.idx - 1)

\* Between calls the position is that of the element the top of the stack is
\* at, and every other frame holds the contents of the element its parent
\* entered: srl_iterator_next, step_out and rewind count elements and move
\* the position separately, through references to earlier items and back.  It
\* holds while no object is a reference to an earlier item (OBJECT, then REFP):
\* the way back from there is not remembered.
PositionSound ==
  Idle =>
    /\ pos = Element(top)
    /\ \A i \in 1 .. depth :
         \/ OnRoot(i)
         \/ [first |-> stack[i + 1].first, length |-> stack[i + 1].length] = Contents(Entered(stack[i]))

\* srl_iterator_info says of every well formed element reached what the
\* decoder would make of it, but for a blessed regexp, which it refuses (README).
Described(tr) ==
  LET Kind(t) == CASE t = "AV" -> "ARRAY" [] t = "HV" -> "HASH" [] t \in {"REF", "OBJ"} -> "REF"
                   [] t = "RE" -> "REGEXP" [] t = "BAD" -> "BAD" [] OTHER -> "SCALAR"
      Size(r) == CASE r.t = "AV" -> Len(r.kids) [] r.t = "HV" -> Len(r.kids) \div 2 [] OTHER -> 1
  IN  CASE tr.t = "REF" -> Info(Kind(tr.kids[1].t), TRUE, FALSE, Size(tr.kids[1]))
        [] tr.t = "OBJ" -> Info(Kind(tr.kids[1].kids[1].t), TRUE, TRUE, Size(tr.kids[1].kids[1]))
        [] OTHER -> Info(Kind(tr.t), FALSE, FALSE, 1)
IsBlessedRegexp(tr) == tr.t = "OBJ" /\ tr.kids[1].kids[1].t = "RE"
InfoSound ==
  Idle /\ ~Exhausted =>
    LET tr == Tree(doc, pos, 4)
    IN  tr.t # "BAD" /\ tr.s # "BAD" /\ ~IsBlessedRegexp(tr) => srl_iterator_info(pos) = Described(tr)
=============================================================================
