-------------------------- MODULE DecoderLifecycle --------------------------
(***************************************************************************)
(* One Sereal::Decoder object over many decode calls                       *)
(* (Perl/Decoder/srl_decoder.c): the DIRTY flag, the clone made for a call *)
(* that starts while another one is under way (a THAW method that decodes  *)
(* with the same object), cleaning up by a destructor on perl's save       *)
(* stack, exceptions, and what the object reports afterwards.              *)
(*                                                                         *)
(* stack is the perl stack with the save stack in one sequence:            *)
(*   "block"  a perl scope: the program, or a THAW method                  *)
(*   "call"   a decode call under way                                      *)
(*   "hook"   srl_decoder_destructor_hook, run when the scope is left.     *)
(* A call made as a custom op has no scope of its own: its hook lies under *)
(* it, in the block, and outlives it.  An XSUB's hook lies on top of it.   *)
(*                                                                         *)
(* Neither holds a reference count on the object: perl may destroy it, and *)
(* so free its struct, while a call or a hook has still to use that.  What *)
(* the code does then is undefined, and the model ends.                    *)
(***************************************************************************)
EXTENDS Integers, Sequences, FiniteSets

CONSTANTS Decoders,   \* addresses of srl_decoder_t
          User,       \* the one behind the Sereal::Decoder object
          Docs,       \* inputs: [len, packed, bad] bytes, compressed?, offset beyond the end?
          ReadOnly,   \* the object was made with set_readonly
          MaxCalls    \* bound: decode calls in all

ASSUME UserAssumption == User \in Decoders
ASSUME DocsAssumption == Docs # {} /\ Docs \subseteq [len : Nat, packed : BOOLEAN, bad : BOOLEAN]
ASSUME ReadOnlyAssumption == ReadOnly \in BOOLEAN
ASSUME BoundAssumption == MaxCalls \in Nat

VARIABLES dec,      \* the structs
          stack,
          calls,    \* decode calls so far; a call is known by its number
          result,   \* what the last call that returned has left for its caller, and
                    \* whether no call was made from within it, on the object's own struct
          object    \* the Sereal::Decoder object: "held" by the program, "released", or
                    \* released "early", when its struct was still in use

vars == <<dec, stack, calls, result, object>>

Parts == {"header", "body"}
None == <<0, "body">>
Decoder == [live : BOOLEAN, reuse : BOOLEAN, dirty : BOOLEAN,
            loaded : BOOLEAN,              \* buf.start # buf.end
            seen : Nat \X Parts,           \* call and part whose SVs ref_seenhash holds
            thawed : Nat,                  \* call whose SVs ref_thawhash holds
            consumed : Nat,                \* bytes_consumed
            flags_readonly : BOOLEAN]
Item == [t : {"block", "call", "hook"}, d : Decoders, id : Nat, doc : Docs,
         phase : Parts \cup {"failed"}, only_header : BOOLEAN, xsub : BOOLEAN]

Zeroed == [live |-> FALSE, reuse |-> FALSE, dirty |-> FALSE, loaded |-> FALSE, seen |-> None,
           thawed |-> 0, consumed |-> 0, flags_readonly |-> FALSE]

AnyDoc == CHOOSE doc \in Docs : TRUE
Block == [t |-> "block", d |-> User, id |-> 0, doc |-> AnyDoc, phase |-> "body",
          only_header |-> FALSE, xsub |-> FALSE]
Hook(d) == [Block EXCEPT !.t = "hook", !.d = d]

\* srl_build_decoder_struct for the object; nothing has been called yet.
Init == /\ dec = [d \in Decoders |->
                    IF d = User THEN [Zeroed EXCEPT !.live = TRUE, !.reuse = TRUE,
                                                    !.flags_readonly = ReadOnly]
                    ELSE Zeroed]
        /\ stack = <<Block>>
        /\ calls = 0
        /\ result = [len |-> 0, consumed |-> 0, readonly |-> ReadOnly, alone |-> TRUE, own |-> TRUE]
        /\ object = "held"

-----------------------------------------------------------------------------
(* Cleaning up *)

\* Mutant: the tables keep their entries.
KeepsBodyState(r) == r

srl_clear_decoder_body_state(r) == [r EXCEPT !.seen = None]

\* Mutant: the buffer pointers stay.
ClearForgetsBuffer(r) == [srl_clear_decoder_body_state(r) EXCEPT !.dirty = FALSE]

\* Returns at once for an empty buffer.
srl_clear_decoder(r) ==
  IF ~r.loaded THEN r
  ELSE [srl_clear_decoder_body_state(r) EXCEPT !.dirty = FALSE, !.loaded = FALSE]

\* Mutant: frees the object's own decoder too.
HookAlwaysFrees(r) == Zeroed

srl_decoder_destructor_hook(r) == IF r.reuse THEN srl_clear_decoder(r) ELSE Zeroed

\* Leaving the scopes above stack[k] runs their hooks.
Unwound(k) == [d \in Decoders |->
                 IF \E i \in k + 1 .. Len(stack) : stack[i].t = "hook" /\ stack[i].d = d
                 THEN srl_decoder_destructor_hook(dec[d]) ELSE dec[d]]

\* What runs now is the topmost block or call.
Running == CHOOSE i \in DOMAIN stack : /\ stack[i].t # "hook"
                                       /\ \A j \in i + 1 .. Len(stack) : stack[j].t = "hook"
InPerl == stack[Running].t = "block"
InCall(phases) == stack[Running].t = "call" /\ stack[Running].phase \in phases
call == stack[Running]

-----------------------------------------------------------------------------
(* Starting *)

\* srl_build_decoder_struct_alike: what it does not copy stays zero.
srl_build_decoder_struct_alike(d) == [Zeroed EXCEPT !.live = TRUE]

\* Mutant: the object's decoder whatever it is doing.
UserAlways(d) == d = User

\* The decoder a call gets: the object's own, or a new one while that is DIRTY.
Chosen(d) == IF dec[User].dirty THEN ~dec[d].live ELSE d = User

\* Mutant: the count of an earlier document stays.
StartKeepsCount(r, doc) == [r EXCEPT !.dirty = TRUE, !.loaded = IF doc.bad THEN @ ELSE doc.len > 0]

Start(r, doc) == [r EXCEPT !.dirty = TRUE,
                           !.loaded = IF doc.bad THEN @ ELSE doc.len > 0,
                           !.consumed = IF doc.bad THEN @ ELSE 0]

\* srl_begin_decoding; an empty document then fails in srl_read_header.
srl_begin_decoding(d, doc, only_header, xsub) ==
  LET fresh == IF d = User THEN dec[d] ELSE srl_build_decoder_struct_alike(d)
      new == [t |-> "call", d |-> d, id |-> calls + 1, doc |-> doc,
              phase |-> IF doc.bad \/ doc.len = 0 THEN "failed" ELSE "header",
              only_header |-> only_header, xsub |-> xsub]
  IN  /\ dec' = [dec EXCEPT ![d] = Start(fresh, doc)]
      /\ stack' = stack \o (IF xsub THEN <<new, Hook(d)>> ELSE <<Hook(d), new>>)

Decode ==
  /\ InPerl /\ object = "held" /\ calls < MaxCalls
  /\ \E d \in Decoders, doc \in Docs, only_header \in BOOLEAN, xsub \in BOOLEAN :
       /\ Chosen(d)
       /\ srl_begin_decoding(d, doc, only_header, xsub)
  /\ calls' = calls + 1
  /\ UNCHANGED result

-----------------------------------------------------------------------------
(* Reading *)

srl_track_sv ==
  /\ InCall(Parts)
  /\ dec' = [dec EXCEPT ![call.d].seen = <<call.id, call.phase>>]
  /\ UNCHANGED <<stack, calls, result>>

\* The user header has been read or skipped; the body follows, after
\* decompression, which counts the bytes of both decoders.
srl_read_header ==
  /\ InCall({"header"}) /\ ~call.only_header
  /\ dec' = [d \in Decoders |->
               LET r == IF d = call.d THEN srl_clear_decoder_body_state(dec[d]) ELSE dec[d]
               IN  IF d \in {call.d, User} /\ call.doc.packed
                   THEN [r EXCEPT !.consumed = call.doc.len] ELSE r]
  /\ stack' = [stack EXCEPT ![Running].phase = "body"]
  /\ UNCHANGED <<calls, result>>

\* srl_read_frozen_object calls THAW; what THAW returns replaces what was read.
Thaw ==
  /\ InCall(Parts)
  /\ stack' = Append(stack, Block)
  /\ UNCHANGED <<dec, calls, result>>

\* THAW returns a reference, tracked like any SV, or something else, which
\* goes to ref_thawhash when other references to the object follow.
ThawReturns ==
  /\ InPerl /\ Running > 1
  /\ LET c == CHOOSE i \in 1 .. Running - 1 : /\ stack[i].t = "call"
                                              /\ \A j \in i + 1 .. Running - 1 : stack[j].t # "call"
         after == Unwound(Running)
     IN  \/ dec' = after
         \/ dec' = [after EXCEPT ![stack[c].d].seen = <<stack[c].id, stack[c].phase>>]
         \/ dec' = [after EXCEPT ![stack[c].d].thawed = stack[c].id]
  /\ stack' = SubSeq(stack, 1, Running - 1)
  /\ UNCHANGED <<calls, result>>

-----------------------------------------------------------------------------
(* Ending *)

\* bytes_consumed is only set if it is still 0, for both decoders.
Counted(d) == IF dec[call.d].consumed = 0 /\ d \in {call.d, User}
              THEN [dec[d] EXCEPT !.consumed = call.doc.len] ELSE dec[d]

\* srl_decode_into_internal ends with srl_clear_decoder.
Cleared(d) == IF d = call.d THEN srl_clear_decoder(Counted(d)) ELSE Counted(d)

\* An XSUB leaves its scope on return, a custom op does not.
AfterReturn(r, d) == IF call.xsub /\ d = call.d THEN srl_decoder_destructor_hook(r) ELSE r

Return ==
  /\ stack' = SubSeq(stack, 1, Running - 1)
  /\ UNCHANGED calls

srl_decode_into_internal ==
  /\ InCall({"body"})
  /\ dec' = [d \in Decoders |-> AfterReturn(Cleared(d), d)]
  /\ result' = [len |-> call.doc.len, consumed |-> Cleared(User).consumed,
                readonly |-> dec[call.d].flags_readonly,
                alone |-> calls = call.id, own |-> call.d = User]
  /\ Return

\* srl_decode_header_into leaves all clearing to the hook.
srl_decode_header_into ==
  /\ InCall({"header"}) /\ call.only_header
  /\ dec' = [d \in Decoders |-> AfterReturn(dec[d], d)]
  /\ UNCHANGED result
  /\ Return

\* A croak in a decode call or a die in THAW, caught by an eval in an outer block.
Die ==
  /\ InCall(Parts \cup {"failed"}) \/ Running > 1
  /\ \E k \in 1 .. Running - 1 : /\ stack[k].t = "block"
                                 /\ dec' = Unwound(k)
                                 /\ stack' = SubSeq(stack, 1, k)
  /\ UNCHANGED <<calls, result>>

\* The outermost scope is left, and another one entered.
LeaveBlock ==
  /\ Running = 1 /\ Len(stack) > 1
  /\ dec' = Unwound(1)
  /\ stack' = <<Block>>
  /\ UNCHANGED <<calls, result>>

\* The last reference to the object goes, anywhere in perl code: a THAW method and
\* the rest of a block in which a custom op has decoded are no exceptions.  Every
\* call under way, a clone's too, has still to count its bytes in the object's struct.
DESTROY ==
  /\ InPerl /\ object = "held"
  /\ dec' = [dec EXCEPT ![User] = Zeroed]
  /\ object' = IF \E i \in DOMAIN stack :
                    stack[i].t = "call" \/ (stack[i].t = "hook" /\ stack[i].d = User)
               THEN "early" ELSE "released"
  /\ UNCHANGED <<stack, calls, result>>

Over == object = "early" \/ (stack = <<Block>> /\ (calls = MaxCalls \/ object = "released"))
Done == Over /\ UNCHANGED vars

Steps == \/ Decode \/ srl_track_sv \/ srl_read_header \/ Thaw \/ ThawReturns
         \/ srl_decode_into_internal \/ srl_decode_header_into \/ Die \/ LeaveBlock
Next == (object # "early" /\ Steps /\ UNCHANGED object) \/ DESTROY \/ Done
Spec == Init /\ [][Next]_vars
-----------------------------------------------------------------------------
(* Properties *)

\* Type invariant of the structs, the stack and what decode reports.
TypeOK == /\ dec \in [Decoders -> Decoder] /\ stack \in Seq(Item) /\ calls \in Nat
          /\ result \in [len : Nat, consumed : Nat, readonly : BOOLEAN,
                         alone : BOOLEAN, own : BOOLEAN]
          /\ object \in {"held", "released", "early"}

Calls == {i \in DOMAIN stack : stack[i].t = "call"}
Hooks == {i \in DOMAIN stack : stack[i].t = "hook"}

\* A decoder struct is never used by two calls at once: a call that starts in
\* a THAW method works on a struct of its own.
ExclusiveUse == \A i, j \in Calls : stack[i].d = stack[j].d => i = j

\* Cleaning up neither frees what is in use, nor frees the object's own struct,
\* nor frees twice, nor leaks: every clone that is alive has exactly one destructor
\* to come.  Only the program can pull a struct from under a call or a pending
\* hook: the object's own, by releasing the object in a THAW method or where a
\* custom op's hook is pending; a clone never.
NoDanglingDecoder ==
  /\ object = "held" => dec[User].live
  /\ \A i \in Calls \cup Hooks :
       dec[stack[i].d].live \/ (object = "early" /\ stack[i].d = User)
  /\ Calls # {} => dec[User].live \/ object = "early"
  /\ \A d \in Decoders \ {User} : dec[d].live =>
       Cardinality({i \in Hooks : stack[i].d = d}) = 1

\* Offsets are only meaningful within one body: while a call reads, ref_seenhash
\* holds no entry of another document, nor one of the user header while the
\* body is read, whatever was nested, abandoned or only half read before.
OnlyOwnEntries ==
  \A i \in Calls : stack[i].phase \in Parts =>
    dec[stack[i].d].seen \in {None, <<stack[i].id, stack[i].phase>>}

\* When all scopes are left no struct points into an input or holds an offset of
\* one, and the clones are gone with all their tables.  The object's ref_thawhash is
\* the exception: nothing clears it before the object itself is released.
NoInputKept ==
  stack = <<Block>> =>
    /\ dec[User].seen = None /\ ~dec[User].loaded
    /\ \A d \in Decoders : d # User \/ object = "released" => dec[d] = Zeroed

\* bytes_consumed, which only a count of 0 lets a call set, is the number of bytes
\* of the call that just returned, unless its THAW methods decoded with the same
\* object; and what the object's own struct decodes is as read-only as asked.
ReportsOwnBytes == /\ result.alone => result.consumed = result.len
                   /\ result.own => result.readonly = ReadOnly
=============================================================================
