------------------------------ MODULE Splitter ------------------------------
(***************************************************************************)
(* The Splitter (Perl/Splitter/srl_splitter.c): an array document is cut    *)
(* into documents of about chunk_size each.  Input is copied to the chunk   *)
(* lazily, from chunk_iter_start to pos; the tags that name offsets are     *)
(* replaced on the way.  What is left to do is on a stack of commands that  *)
(* outlives the chunk.                                                      *)
(***************************************************************************)
EXTENDS SrlTrees
LOCAL INSTANCE SequencesExt

CONSTANTS Inputs,     \* documents to be split, [version, body]; version 2 stands for the later ones
          Sizes,      \* values of chunk_size, in tokens
          Depth       \* bound: how deep values are compared

VARIABLES input, size_limit, version,   \* constant once chosen
          pos, chunk_iter_start,   \* indices into input
          status_stack,            \* its top first
          deepness,
          chunk, chunk_size, chunk_nb_elts,
          dedupe_hashtable,        \* string -> offset in the chunk, 0 if absent
          offset_hashtable,        \* offset in the input -> offset in the chunk, 0 if absent
          dont_check_for_duplicate, force_tracking_tag,
          phase,                   \* "idle", "parsing", "end"
          chunks                   \* history: the chunks returned

chosen == <<input, size_limit, version>>
scan == <<pos, chunk_iter_start, status_stack, deepness>>
output == <<chunk, chunk_size, chunk_nb_elts>>
hashes == <<dedupe_hashtable, offset_hashtable>>
flags == <<dont_check_for_duplicate, force_tracking_tag>>
vars == <<chosen, scan, output, hashes, flags, phase, chunks>>

\* Commands; a jump carries its address, in C the next stack slot.
Do(op) == [op |-> op, at |-> 0]
Value == Do("VALUE")
Jump(p) == [op |-> "ABSOLUTE_JUMP", at |-> p]
Times(n) == [i \in 1 .. n |-> Value]

NoStrings == [s \in Strings |-> 0]
NoOffsets == [i \in 1 .. Len(input) + 1 |-> 0]
ChunkStart == <<T("REFN", 0, ""), T("ARRAY", 0, "")>>

\* srl_build_splitter_struct: one VALUE per element of the top level array.
Init ==
  /\ \E d \in Inputs : input = d.body /\ version = d.version
  /\ size_limit \in Sizes
  /\ LET r == input[1].tag = "REFN"
     IN  /\ pos = IF r THEN 3 ELSE 2
         /\ status_stack = Times(IF r THEN input[2].n ELSE input[1].n)
  /\ chunk_iter_start = pos
  /\ deepness = 0
  /\ chunk = <<>> /\ chunk_size = 0 /\ chunk_nb_elts = 0
  /\ dedupe_hashtable = NoStrings /\ offset_hashtable = NoOffsets
  /\ dont_check_for_duplicate = FALSE /\ force_tracking_tag = FALSE
  /\ phase = "idle"
  /\ chunks = <<>>

-----------------------------------------------------------------------------
(* Chunks *)

\* Mutant: the offsets of the chunk before are kept.
EmptyStringsOnly == dedupe_hashtable' = NoStrings /\ UNCHANGED offset_hashtable

_empty_hashes == dedupe_hashtable' = NoStrings /\ offset_hashtable' = NoOffsets

srl_splitter_next_chunk ==
  /\ phase = "idle"
  /\ _empty_hashes
  /\ chunk' = ChunkStart /\ chunk_size' = 0 /\ chunk_nb_elts' = 0
  /\ chunk_iter_start' = pos
  /\ force_tracking_tag' = FALSE
  /\ phase' = "parsing"
  /\ UNCHANGED <<chosen, pos, status_stack, deepness,
                 dont_check_for_duplicate, chunks>>

\* What _maybe_flush_chunk adds: the input from chunk_iter_start up to end.
Pending(end) == SubSeq(input, chunk_iter_start, end - 1)

\* The chunk is returned with its number of elements filled in.
ReturnChunk(c, n) ==
  /\ chunks' = Append(chunks, [c EXCEPT ![2].n = n])
  /\ phase' = "idle"
  /\ chunk' = c
  /\ chunk_iter_start' = pos'

\* The last part of _parse: nothing is left on the stack.  deepness is 0 then, as
\* every level has its DEEPNESS_UP on the stack: its croak is never reached.
ParseEnds ==
  /\ phase = "parsing" /\ status_stack = <<>>
  /\ UNCHANGED <<chosen, pos, status_stack, deepness, chunk_size, chunk_nb_elts,
                 hashes, flags>>
  /\ IF Pending(pos) # <<>> \/ chunk_size > 0
     THEN ReturnChunk(chunk \o Pending(pos), chunk_nb_elts)
     ELSE phase' = "end" /\ UNCHANGED <<chunk, chunk_iter_start, chunks>>

(***************************************************************************)
(* Every command of _parse ends with the test at the bottom of the loop: at *)
(* the top level an element is complete, and the chunk too if it is large   *)
(* enough.  After(c, from, size) is the chunk, its unflushed start and its  *)
(* size after the command.                                                  *)
(***************************************************************************)
Then(c, from, size, deep) ==
  LET rest == SubSeq(input, from, pos' - 1)
      total == size + Len(rest)
  IN  /\ deepness' = deep
      /\ chunk_nb_elts' = IF deep = 0 THEN chunk_nb_elts + 1 ELSE chunk_nb_elts
      /\ IF deep = 0 /\ total >= size_limit
         THEN ReturnChunk(c \o rest, chunk_nb_elts') /\ chunk_size' = total
         ELSE /\ chunk' = c /\ chunk_iter_start' = from /\ chunk_size' = size
              /\ UNCHANGED <<phase, chunks>>
Kept(deep) == Then(chunk, chunk_iter_start, chunk_size, deep)
\* Flush up to the tag at pos, then write toks in its place, going on at from.
Replaced(toks, from, deep) ==
  Then(chunk \o Pending(pos) \o toks, from, chunk_size + Len(Pending(pos)) + Len(toks), deep)

-----------------------------------------------------------------------------
(* Commands *)

Popped(op) == phase = "parsing" /\ status_stack # <<>> /\ Head(status_stack).op = op
Rest == Tail(status_stack)

\* Mutant: the level of a replaced tag is left without a command to leave it.
NoDeepnessUp == <<>>

DeepnessUp == <<Do("DEEPNESS_UP")>>

LeaveLevel ==
  /\ Popped("DEEPNESS_UP")
  /\ pos' = pos /\ status_stack' = Rest
  /\ Kept(deepness - 1)
  /\ UNCHANGED <<chosen, hashes, flags>>

\* Mutant: the command stays on the stack.
TrackAgain ==
  /\ Popped("TRACK_NEXT_VALUE")
  /\ force_tracking_tag' = TRUE
  /\ pos' = pos /\ status_stack' = status_stack
  /\ Kept(deepness)
  /\ UNCHANGED <<chosen, hashes, dont_check_for_duplicate>>

TrackNext ==
  /\ Popped("TRACK_NEXT_VALUE")
  /\ force_tracking_tag' = TRUE
  /\ pos' = pos /\ status_stack' = Rest
  /\ Kept(deepness)
  /\ UNCHANGED <<chosen, hashes, dont_check_for_duplicate>>

DontCheck ==
  /\ Popped("DONT_CHECK_FOR_DUPLICATE")
  /\ dont_check_for_duplicate' = TRUE
  /\ pos' = pos /\ status_stack' = Rest
  /\ Kept(deepness)
  /\ UNCHANGED <<chosen, hashes, force_tracking_tag>>

JumpBack ==
  /\ Popped("ABSOLUTE_JUMP")
  /\ pos' = Head(status_stack).at
  /\ status_stack' = Rest
  /\ Then(chunk \o Pending(pos), pos', chunk_size + Len(Pending(pos)), deepness)
  /\ UNCHANGED <<chosen, hashes, flags>>

(***************************************************************************)
(* The VALUE command.  A tag that must become tracked is written at once    *)
(* with its flag, the rest of the value follows from the input; with one    *)
(* token per tag that is the whole token.                                   *)
(***************************************************************************)
AtValue == Popped("VALUE") /\ pos <= Len(input)
Cur == input[pos]
Tracked == Cur.trk \/ force_tracking_tag
\* An offset of the input is pos - input_body_pos + 1.  With version 1 offsets
\* count from 0 at the start of the document, where input_body_pos is then: what
\* the code computes is one byte off, a token where the tag before has one byte.
BodyBias == IF version = 1 THEN 1 ELSE 0
OriginOffset == pos + BodyBias
LandingPos(offset) == offset - BodyBias
NewOffset == Len(chunk) + 1 + Len(Pending(pos))
Mapped == IF Tracked /\ offset_hashtable[OriginOffset] = 0
          THEN [offset_hashtable EXCEPT ![OriginOffset] = NewOffset] ELSE offset_hashtable
Flag(t) == [t EXCEPT !.trk = Tracked]

\* The copy of the tag itself, flushed later or, if it was forced, now.
Copied(deep) == IF force_tracking_tag THEN Replaced(<<Flagged(Cur)>>, pos + 1, deep) ELSE Kept(deep)

ValueDone == /\ offset_hashtable' = Mapped
             /\ dont_check_for_duplicate' = FALSE
             /\ force_tracking_tag' = FALSE
             /\ UNCHANGED chosen

\* Tags without contents.  PAD is one of them and takes a value's slot.
ReadPlain ==
  /\ AtValue /\ Cur.tag \in {"INT", "UNDEF", "PAD"}
  /\ pos' = pos + 1 /\ status_stack' = Rest
  /\ Copied(deepness)
  /\ ValueDone
  /\ UNCHANGED dedupe_hashtable

\* _check_for_duplicates
Duplicate == ~dont_check_for_duplicate /\ dedupe_hashtable[Cur.s] # 0
ReadString ==
  /\ AtValue /\ IsString(Cur)
  /\ pos' = pos + 1 /\ status_stack' = Rest
  /\ IF Duplicate THEN Replaced(<<Flag(T("COPY", dedupe_hashtable[Cur.s], ""))>>, pos + 1, deepness)
     ELSE Copied(deepness)
  /\ dedupe_hashtable' = IF Duplicate \/ dont_check_for_duplicate THEN dedupe_hashtable
                         ELSE [dedupe_hashtable EXCEPT ![Cur.s] = NewOffset]
  /\ ValueDone

Contents == CASE IsArray(Cur) -> Cur.n
              [] IsHash(Cur) -> 2 * Cur.n
              [] Cur.tag \in {"OBJECT", "REGEXP"} -> 2
              [] Cur.tag \in {"REFN", "WEAKEN"} -> 1
ReadNested ==
  /\ AtValue
  /\ IsArray(Cur) \/ IsHash(Cur) \/ Cur.tag \in {"OBJECT", "REGEXP", "REFN", "WEAKEN"}
  /\ pos' = pos + 1
  /\ status_stack' = Times(Contents) \o DeepnessUp \o Rest
  /\ Copied(deepness + 1)
  /\ ValueDone
  /\ UNCHANGED dedupe_hashtable

\* REFP and ALIAS to something this chunk has get its new offset ...
ReadKnown ==
  /\ AtValue /\ Cur.tag \in {"REFP", "ALIAS"} /\ Mapped[Cur.n] # 0
  /\ pos' = pos + 1 /\ status_stack' = Rest
  /\ Replaced(<<Flag(T(Cur.tag, Mapped[Cur.n], ""))>>, pos + 1, deepness)
  /\ ValueDone
  /\ UNCHANGED dedupe_hashtable

\* ... anything else is read where it is, behind REFN for a REFP, and then
\* reading goes on behind the tag.  COPY and OBJECTV always do this; a tracked
\* COPY hands its flag to the string.
Instead == CASE Cur.tag = "REFP" -> <<Flag(T("REFN", 0, ""))>>
             [] Cur.tag = "OBJECTV" -> <<Flag(T("OBJECT", 0, ""))>>
             [] Cur.tag \in {"COPY", "ALIAS"} -> <<>>
ThereAndBack == <<Value, Jump(pos + 1)>>
Commands == CASE Cur.tag \in {"REFP", "ALIAS"} -> ThereAndBack \o DeepnessUp
              [] Cur.tag = "OBJECTV" -> ThereAndBack \o <<Value>> \o DeepnessUp
              [] Cur.tag = "COPY" ->
                   (IF Tracked THEN <<Do("DONT_CHECK_FOR_DUPLICATE"), Do("TRACK_NEXT_VALUE")>> ELSE <<>>)
                   \o ThereAndBack \o DeepnessUp
ReadElsewhere ==
  /\ AtValue /\ HasOffset(Cur)
  /\ Cur.tag \in {"REFP", "ALIAS"} => Mapped[Cur.n] = 0
  /\ pos' = LandingPos(Cur.n)
  /\ status_stack' = Commands \o Rest
  /\ Replaced(Instead, LandingPos(Cur.n), deepness + 1)
  /\ ValueDone
  /\ UNCHANGED dedupe_hashtable

ParseStep ==
  LeaveLevel \/ TrackNext \/ DontCheck \/ JumpBack \/ ReadPlain \/ ReadString \/ ReadNested
  \/ ReadKnown \/ ReadElsewhere \/ ParseEnds

Done == phase = "end" /\ UNCHANGED vars
Next == srl_splitter_next_chunk \/ ParseStep \/ Done
Spec == Init /\ [][Next]_vars /\ WF_vars(srl_splitter_next_chunk \/ ParseStep)

-----------------------------------------------------------------------------
(* Properties *)

\* The elements of the chunks, one chunk after the other, are the elements of
\* the input in their order: none is lost, torn or written twice, and every
\* offset in a chunk names a tag of that chunk.  A chunk can be handed out
\* before the next one is asked for.  It holds for input of version 2 and later,
\* and of version 1 where no tag names an offset: those are not followed to their tags.
Together(cs) == FlattenSeq([k \in DOMAIN cs |-> Elements(cs[k], Depth)])
SplitIsConcatenation ==
  /\ phase = "end" => Together(chunks) = Elements(input, Depth)
  /\ phase = "idle" => IsPrefix(Together(chunks), Elements(input, Depth))

\* No chunk is empty, and a chunk exceeds the limit by its last element only.
ChunkSizesHonoured ==
  \A k \in DOMAIN chunks :
    /\ chunks[k][2].n >= 1
    /\ LET last == AfterN(chunks[k], 3, chunks[k][2].n - 1) IN last - 3 < size_limit

\* The input is used up after finitely many calls.
SplittingEnds == <>(phase = "end")
=============================================================================
