-------------------------- MODULE EncoderLifecycle --------------------------
(***************************************************************************)
(* One Sereal::Encoder object over many encode calls                       *)
(* (Perl/Encoder/srl_encoder.c): the DIRTY flag, the clone for a call that *)
(* starts while another is under way (a FREEZE method that encodes with    *)
(* the same object), the tables that only make sense within one body, and  *)
(* cleaning up by a destructor on perl's save stack.                       *)
(*                                                                         *)
(* As in DecoderLifecycle, stack is the perl stack with the save stack in  *)
(* one sequence of "block" (a perl scope), "call" (an encode call) and     *)
(* "hook" (a pending srl_destructor_hook).  A call made as a custom op has *)
(* no scope of its own, its hook lies under it; an XSUB's lies on top.     *)
(*                                                                         *)
(* Neither holds a reference count on the object: perl may destroy it, and *)
(* so free its struct, while a call or a hook has still to use that.  What *)
(* the code does then is undefined, and the model ends.                    *)
(***************************************************************************)
EXTENDS Integers, Sequences, FiniteSets

CONSTANTS Encoders,   \* addresses of srl_encoder_t
          User,       \* the one behind the Sereal::Encoder object
          Objects,    \* blessed referents whose class has a FREEZE method
          Single,     \* those with a reference count of 1 (but maybe weak references)
          Level,      \* the object's compress_level
          MaxCalls,   \* bound: encode calls in all
          MaxDepth    \* bound: nesting of srl_dump_sv within one call

ASSUME UserAssumption == User \in Encoders
ASSUME SingleAssumption == Single \subseteq Objects
ASSUME LevelAssumption == Level \in Nat \ {0}
ASSUME BoundAssumption == MaxCalls \in Nat /\ MaxDepth \in Nat

VARIABLES enc,      \* the structs
          stack,
          calls,    \* encode calls so far; a call is known by its number
          level,    \* compress_level used for the last document written
          object    \* the Sereal::Encoder object: "held" by the program, "released", or
                    \* released "early", when its struct was still in use

vars == <<enc, stack, calls, level, object>>

Parts == {"header", "body"}
Nobody == <<0, "body">>
Encoder == [live : BOOLEAN, reuse : BOOLEAN, dirty : BOOLEAN,
            depth : Nat,                  \* recursion_depth
            seen : Nat \X Parts,          \* call and part whose SVs the seen tables hold
            svhash : SUBSET (Nat \X Parts \X Objects),   \* freezeobj_svhash, likewise
            compress_level : Nat]
Item == [t : {"block", "call", "hook"}, e : Encoders, id : Nat, phase : Parts,
         xsub : BOOLEAN]

Zeroed == [live |-> FALSE, reuse |-> FALSE, dirty |-> FALSE, depth |-> 0, seen |-> Nobody,
           svhash |-> {}, compress_level |-> 0]

Block == [t |-> "block", e |-> User, id |-> 0, phase |-> "body", xsub |-> FALSE]
Hook(e) == [Block EXCEPT !.t = "hook", !.e = e]

\* srl_build_encoder_struct and SRL_F_REUSE_ENCODER for the object.
Init == /\ enc = [e \in Encoders |->
                    IF e = User THEN [Zeroed EXCEPT !.live = TRUE, !.reuse = TRUE,
                                                    !.compress_level = Level]
                    ELSE Zeroed]
        /\ stack = <<Block>>
        /\ calls = 0
        /\ level = Level
        /\ object = "held"

-----------------------------------------------------------------------------
(* Cleaning up *)

\* Mutant: freezeobj_svhash keeps its entries.
KeepsFrozen(r) == [r EXCEPT !.seen = Nobody]

srl_clear_seen_hashes(r) == [r EXCEPT !.seen = Nobody, !.svhash = {}]

\* Mutant: the recursion depth of a document that croaked stays.
ClearKeepsDepth(r) == [srl_clear_seen_hashes(r) EXCEPT !.dirty = FALSE]

srl_clear_encoder(r) == [srl_clear_seen_hashes(r) EXCEPT !.depth = 0, !.dirty = FALSE]

\* Mutant: frees the object's own encoder too.
HookAlwaysDestroys(r) == Zeroed

srl_destructor_hook(r) == IF r.reuse THEN srl_clear_encoder(r) ELSE Zeroed

\* Leaving the scopes above stack[k] runs their hooks.
Unwound(k) == [e \in Encoders |->
                 IF \E i \in k + 1 .. Len(stack) : stack[i].t = "hook" /\ stack[i].e = e
                 THEN srl_destructor_hook(enc[e]) ELSE enc[e]]

Leave(k) == enc' = Unwound(k) /\ stack' = SubSeq(stack, 1, k)

\* What runs now is the topmost block or call.
Running == CHOOSE i \in DOMAIN stack : /\ stack[i].t # "hook"
                                       /\ \A j \in i + 1 .. Len(stack) : stack[j].t = "hook"
InPerl == stack[Running].t = "block"
InCall == stack[Running].t = "call"
call == stack[Running]
this == enc[call.e]

-----------------------------------------------------------------------------
(* Starting *)

\* What srl_build_encoder_struct_alike does not copy stays zero.
srl_build_encoder_struct_alike == [Zeroed EXCEPT !.live = TRUE]

\* Mutant: the object's encoder whatever it is doing.
UserAlways(e) == e = User

\* The encoder a call gets: the object's own, or a new one while that is DIRTY.
Chosen(e) == IF enc[User].dirty THEN ~enc[e].live ELSE e = User

InUse(r) == [r EXCEPT !.dirty = TRUE]

\* srl_prepare_encoder; a user header, if any, is dumped before the body.
srl_prepare_encoder ==
  /\ InPerl /\ object = "held" /\ calls < MaxCalls
  /\ \E e \in Encoders, phase \in Parts, xsub \in BOOLEAN :
       /\ Chosen(e)
       /\ enc' = [enc EXCEPT ![e] = InUse(IF e = User THEN @ ELSE srl_build_encoder_struct_alike)]
       /\ LET new == [t |-> "call", e |-> e, id |-> calls + 1, phase |-> phase, xsub |-> xsub]
          IN  stack' = stack \o (IF xsub THEN <<new, Hook(e)>> ELSE <<Hook(e), new>>)
  /\ calls' = calls + 1
  /\ UNCHANGED level

-----------------------------------------------------------------------------
(* Dumping *)

\* srl_dump_sv enters; sharing makes it remember SVs in the seen tables.
Enter ==
  /\ InCall /\ this.depth < MaxDepth
  /\ \E remember \in BOOLEAN :
       enc' = [enc EXCEPT ![call.e].depth = @ + 1,
                          ![call.e].seen = IF remember THEN <<call.id, call.phase>> ELSE @]
  /\ UNCHANGED <<stack, calls, level>>

Return ==
  /\ InCall /\ this.depth > 1
  /\ enc' = [enc EXCEPT ![call.e].depth = @ - 1]
  /\ UNCHANGED <<stack, calls, level>>

\* srl_get_frozen_object: what FREEZE returned for an object in this body is
\* used again if the object is shared; the empty replacement is stored before
\* FREEZE is called.
srl_get_frozen_object ==
  /\ InCall /\ this.depth > 0
  /\ \E o \in Objects :
       /\ o \in Single \/ \A f \in this.svhash : f[3] # o
       /\ enc' = [enc EXCEPT ![call.e].svhash = @ \cup {<<call.id, call.phase, o>>}]
       /\ stack' = Append(stack, Block)
  /\ UNCHANGED <<calls, level>>

\* FREEZE returns: the innermost call goes on.
FreezeReturns ==
  /\ InPerl /\ Running > 1
  /\ Leave(Running - 1)
  /\ UNCHANGED <<calls, level>>

-----------------------------------------------------------------------------
(* Ending *)

\* The user header has been dumped: the tables are cleared for the body.
WriteHeaderEnds ==
  /\ InCall /\ call.phase = "header" /\ this.depth = 1
  /\ enc' = [enc EXCEPT ![call.e] = srl_clear_seen_hashes([@ EXCEPT !.depth = 0])]
  /\ stack' = [stack EXCEPT ![Running].phase = "body"]
  /\ UNCHANGED <<calls, level>>

\* The rest of srl_dump_data_structure compresses; DIRTY stays until the hook
\* runs, which is at once for an XSUB.
srl_dump_data_structure ==
  /\ InCall /\ call.phase = "body" /\ this.depth = 1
  /\ level' = this.compress_level
  /\ LET done == [enc EXCEPT ![call.e].depth = 0]
     IN  enc' = IF call.xsub THEN [done EXCEPT ![call.e] = srl_destructor_hook(@)] ELSE done
  /\ stack' = SubSeq(stack, 1, Running - 1)
  /\ UNCHANGED calls

\* A croak in a call or a die in FREEZE, caught by an eval in an outer block.
Die ==
  /\ InCall \/ Running > 1
  /\ \E k \in 1 .. Running - 1 : stack[k].t = "block" /\ Leave(k)
  /\ UNCHANGED <<calls, level>>

\* The outermost scope is left, and another one entered.
LeaveBlock ==
  /\ Running = 1 /\ Len(stack) > 1
  /\ Leave(1)
  /\ UNCHANGED <<calls, level>>

\* The last reference to the object goes, anywhere in perl code: a FREEZE method
\* and the rest of a block in which a custom op has encoded are no exceptions.
DESTROY ==
  /\ InPerl /\ object = "held"
  /\ enc' = [enc EXCEPT ![User] = Zeroed]
  /\ object' = IF \E i \in DOMAIN stack : stack[i].t # "block" /\ stack[i].e = User
               THEN "early" ELSE "released"
  /\ UNCHANGED <<stack, calls, level>>

Over == object = "early" \/ (stack = <<Block>> /\ (calls = MaxCalls \/ object = "released"))
Done == Over /\ UNCHANGED vars

Steps == \/ srl_prepare_encoder \/ Enter \/ Return \/ srl_get_frozen_object \/ FreezeReturns
         \/ WriteHeaderEnds \/ srl_dump_data_structure \/ Die \/ LeaveBlock
Next == (object # "early" /\ Steps /\ UNCHANGED object) \/ DESTROY \/ Done
Spec == Init /\ [][Next]_vars
-----------------------------------------------------------------------------
(* Properties *)

\* Type invariant of the structs, the stack and the counters.
TypeOK == /\ enc \in [Encoders -> Encoder] /\ stack \in Seq(Item) /\ calls \in Nat
          /\ level \in Nat /\ object \in {"held", "released", "early"}

Calls == {i \in DOMAIN stack : stack[i].t = "call"}
Hooks == {i \in DOMAIN stack : stack[i].t = "hook"}

\* An encoder struct is never used by two calls at once: a call that starts in
\* a FREEZE method works on a struct of its own.
ExclusiveUse == \A i, j \in Calls : stack[i].e = stack[j].e => i = j

\* Cleaning up neither frees what is in use, nor frees the object's own struct,
\* nor frees twice, nor leaks a clone.  Only the program can pull a struct from
\* under a call or a pending hook: the object's own, by releasing the object in a
\* FREEZE method or where a custom op's hook is pending; a clone never.
NoDanglingEncoder ==
  /\ object = "held" => enc[User].live
  /\ \A i \in Calls \cup Hooks :
       enc[stack[i].e].live \/ (object = "early" /\ stack[i].e = User)
  /\ \A e \in Encoders \ {User} : enc[e].live =>
       Cardinality({i \in Hooks : stack[i].e = e}) = 1

\* Offsets and replacements only make sense within one body: while a call is
\* under way its tables hold nothing of another document, nor of the user
\* header once the body is written, whatever was nested or abandoned before.
OnlyOwnEntries ==
  \A i \in Calls :
    LET r == enc[stack[i].e]
        own == <<stack[i].id, stack[i].phase>>
    IN  r.seen \in {Nobody, own} /\ \A f \in r.svhash : <<f[1], f[2]>> = own

\* An encoder that is free for the next call is as good as new: no table entry
\* and no recursion depth is left over from a document that croaked.
IdleIsClean == \A e \in Encoders : enc[e].live /\ ~enc[e].dirty =>
                 enc[e].depth = 0 /\ enc[e].seen = Nobody /\ enc[e].svhash = {}
=============================================================================
