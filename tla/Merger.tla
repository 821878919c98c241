------------------------------- MODULE Merger -------------------------------
(***************************************************************************)
(* The Merger (Perl/Merger/srl_merger.c): documents are appended one after  *)
(* the other to one output document.  Offsets are translated on the way,    *)
(* strings written before are replaced by COPY, class names by OBJECTV.     *)
(* An append that fails leaves what it wrote behind; the next operation     *)
(* takes it away.                                                           *)
(*                                                                          *)
(* A document is [header, version, body]: header says whether the packet is *)
(* a Sereal document in a known encoding; version 2 stands for the later    *)
(* ones too.  Offsets count the tokens of the body.  One step merges one tag; the C stack is   *)
(* the sequence work.                                                       *)
(***************************************************************************)
EXTENDS SrlTokens, StrTable
LOCAL INSTANCE SequencesExt

CONSTANTS Docs,          \* documents passed to append
          Lists,         \* sequences of documents passed to append_all
          Valid,         \* the bodies among them that are well formed
          Options,       \* records [dedupe, toplevel, version]
          Short,         \* strings of fewer than three bytes, never deduplicated
          MaxDepth,      \* max_recursion_depth
          MaxCalls,      \* bound: calls of append, append_all and finish
          MaxOffset      \* bound: the longest body

ASSUME ShortAssumption == Short \subseteq Strings
ASSUME HashAssumption == Hash \in [Strings -> Nat] /\ "" \in Strings
ASSUME OptionsAssumption == Options \subseteq [dedupe : BOOLEAN, toplevel : {"SCALAR", "ARRAY", "HASH"}, version : {1, 2}]
ASSUME BoundAssumption == MaxOffset \in Nat \ {0, 1} /\ MaxDepth \in Nat /\ MaxCalls \in Nat

Document == {d \in [header : BOOLEAN, version : {1, 2}, body : Seq(Tok)] : Len(d.body) < MaxOffset}
ASSUME DocsAssumption == Docs \subseteq Document
ASSUME ListsAssumption == \A ds \in Lists : ds \in Seq(Document)

VARIABLES opt,
          out,                     \* obuf, the body from body_pos + 1 on
          obuf_last_successfull_offset,
          cnt_of_merged_elements,
          tracked_offsets,         \* a stack, its top first
          tracked_offsets_tbl,     \* input offset -> output offset, 0 if absent
          string_deduper_tbl, classname_deduper_tbl,
          queue,                   \* documents of the call still to be merged
          ibuf, ipos,              \* the input body and the tag to be read
          work,                    \* rest of the C stack
          recursion_depth,
          phase,                   \* "idle", "next", "merging", "finished", "corrupt"
          calls,
          source,                  \* history: the document being merged
          segments                 \* history: the documents merged and where they start

input == <<source, queue, ibuf, ipos, work, recursion_depth>>
tables == <<tracked_offsets, tracked_offsets_tbl, string_deduper_tbl, classname_deduper_tbl>>
vars == <<opt, out, obuf_last_successfull_offset, cnt_of_merged_elements, tables, input,
          phase, calls, segments>>

Here == Len(out) + 1               \* BODY_POS_OFS(&mrg->obuf)

\* srl_build_merger_struct: unless the result is a plain sequence of values
\* it is a reference to a container whose count is written at the end.
TopLevel(o) == IF o.toplevel = "SCALAR" THEN <<>>
               ELSE <<T("REFN", 0, ""), T(o.toplevel, 0, ""), T("PAD", 0, "")>>
CountAt == 2

NoDocument == [header |-> FALSE, version |-> 2, body |-> <<>>]
Init == /\ opt \in Options
        /\ out = TopLevel(opt)
        /\ obuf_last_successfull_offset = 0
        /\ cnt_of_merged_elements = 0
        /\ tracked_offsets = <<>>
        /\ tracked_offsets_tbl = [i \in 0 .. MaxOffset |-> 0]
        /\ string_deduper_tbl = STRTABLE_new
        /\ classname_deduper_tbl = STRTABLE_new
        /\ queue = <<>> /\ ibuf = <<>> /\ ipos = 1 /\ work = <<>> /\ recursion_depth = 0
        /\ phase = "idle" /\ calls = 0 /\ source = NoDocument /\ segments = <<>>

-----------------------------------------------------------------------------
(* Cleaning up after a failed merge *)

\* srl_cleanup_dedup_tlbs
PurgeFrom(t, ofs) == IF opt.dedupe THEN STRTABLE_purge(t, ofs) ELSE t

\* The part of the output that earlier calls completed.
Committed == IF obuf_last_successfull_offset = 0 THEN out
             ELSE SubSeq(out, 1, obuf_last_successfull_offset - 1)

\* Mutant: the output is not rewound.
CleanupForgetsOutput ==
  /\ UNCHANGED out
  /\ string_deduper_tbl' = PurgeFrom(string_deduper_tbl, obuf_last_successfull_offset)
  /\ classname_deduper_tbl' = PurgeFrom(classname_deduper_tbl, obuf_last_successfull_offset)

Cleanup ==
  /\ out' = Committed
  /\ IF obuf_last_successfull_offset = 0
     THEN UNCHANGED <<string_deduper_tbl, classname_deduper_tbl>>
     ELSE /\ string_deduper_tbl' = PurgeFrom(string_deduper_tbl, obuf_last_successfull_offset)
          /\ classname_deduper_tbl' = PurgeFrom(classname_deduper_tbl, obuf_last_successfull_offset)

-----------------------------------------------------------------------------
(* srl_build_track_table: the offsets any tag of the input names, smallest  *)
(* on top.  It passes over the whole input before a byte is merged.         *)

BadInput(d) == \/ ~d.header
               \/ \E i \in DOMAIN d.body :
                    LET t == d.body[i] IN t.tag = "BAD" \/ (HasOffset(t) /\ t.n > i)

\* Mutant: the stack is left in the order the offsets were found.
TrackUnsorted(b) == LET Named(t) == HasOffset(t)
                        found == SelectSeq(b, Named)
                    IN  [i \in DOMAIN found |-> found[i].n]

srl_build_track_table(b) ==
  LET Below(x, y) == x < y
  IN  SetToSortSeq({b[i].n : i \in {j \in DOMAIN b : HasOffset(b[j])}}, Below)

-----------------------------------------------------------------------------
(* The calls *)

CanCall == phase = "idle" /\ calls < MaxCalls
Failed == phase' = "idle" /\ queue' = <<>>

Broken(t1, t2) == t1.corrupt \/ t2.corrupt

\* What is read from body_pos + 1 on.  In a document of version 1 body_pos is the
\* start of the document, and the header's second byte the tag of a string of 19
\* bytes: the input ends within it, or it is the value.
ReadFrom(d) == IF d.version = 1 THEN {<<>>} \cup {<<Str(s)>> : s \in Strings \ Short} ELSE {d.body}

\* srl_merge_single_value is called for the document's value.  The offsets that
\* only the body of a misread document names are never reached.
BeginMerge(d, first) ==
  /\ obuf_last_successfull_offset' = first
  /\ ibuf' \in ReadFrom(d) /\ source' = d /\ ipos' = 1 /\ work' = <<"value">> /\ recursion_depth' = 0
  /\ tracked_offsets' = srl_build_track_table(ibuf')
  /\ UNCHANGED <<opt, cnt_of_merged_elements, tracked_offsets_tbl, segments>>

\* srl_merger_append: the input is looked at before the clean-up.
Append1Refused(d) ==
  /\ CanCall /\ BadInput(d)
  /\ calls' = calls + 1
  /\ UNCHANGED <<opt, out, obuf_last_successfull_offset, cnt_of_merged_elements, tables, input,
                 phase, segments>>

Append1(d) ==
  /\ CanCall /\ ~BadInput(d)
  /\ calls' = calls + 1
  /\ Cleanup
  /\ BeginMerge(d, Len(out') + 1)
  /\ queue' = <<>>
  /\ phase' = IF Broken(string_deduper_tbl', classname_deduper_tbl') THEN "corrupt" ELSE "merging"

\* srl_merger_append_all: the clean-up comes first.
AppendAll(ds) ==
  /\ CanCall
  /\ calls' = calls + 1
  /\ Cleanup
  /\ queue' = ds
  /\ phase' = IF Broken(string_deduper_tbl', classname_deduper_tbl') THEN "corrupt" ELSE "next"
  /\ UNCHANGED <<opt, obuf_last_successfull_offset, cnt_of_merged_elements, tracked_offsets,
                 tracked_offsets_tbl, source, ibuf, ipos, work, recursion_depth, segments>>

NextDocument ==
  /\ phase = "next" /\ queue # <<>> /\ ~BadInput(Head(queue))
  /\ BeginMerge(Head(queue), Here)
  /\ queue' = Tail(queue)
  /\ phase' = "merging"
  /\ UNCHANGED <<out, string_deduper_tbl, classname_deduper_tbl, calls>>

NextRefused ==
  /\ phase = "next" /\ queue # <<>> /\ BadInput(Head(queue))
  /\ Failed
  /\ UNCHANGED <<opt, out, obuf_last_successfull_offset, cnt_of_merged_elements, tables,
                 source, ibuf, ipos, work, recursion_depth, calls, segments>>

AllMerged ==
  /\ phase = "next" /\ queue = <<>>
  /\ phase' = "idle"
  /\ UNCHANGED <<opt, out, obuf_last_successfull_offset, cnt_of_merged_elements, tables, input,
                 calls, segments>>

\* The value of a document has been merged; append returns, append_all goes on.
DocumentMerged ==
  /\ phase = "merging" /\ work = <<>>
  /\ cnt_of_merged_elements' = cnt_of_merged_elements + 1
  /\ segments' = Append(segments, [doc |-> source, from |-> obuf_last_successfull_offset])
  /\ obuf_last_successfull_offset' = 0
  /\ phase' = "next"
  /\ UNCHANGED <<opt, out, tables, input, calls>>

\* Mutant: the count is written one place too far.
FinishCountsBehind ==
  /\ CanCall
  /\ calls' = calls + 1
  /\ out' = IF opt.toplevel = "SCALAR" THEN Committed
            ELSE [Committed EXCEPT ![CountAt + 1].n = cnt_of_merged_elements]
  /\ phase' \in {"finished", "idle"}
  /\ UNCHANGED <<opt, obuf_last_successfull_offset, cnt_of_merged_elements, tables, input, segments>>

\* srl_merger_finish: rewinds, but leaves tables and mark alone; the count
\* goes over the padding.  A user header may be refused after that.
Finish ==
  /\ CanCall
  /\ calls' = calls + 1
  /\ out' = IF opt.toplevel = "SCALAR" THEN Committed
            ELSE [Committed EXCEPT ![CountAt].n = cnt_of_merged_elements]
  /\ phase' \in {"finished", "idle"}
  /\ UNCHANGED <<opt, obuf_last_successfull_offset, cnt_of_merged_elements, tables, input, segments>>

\* The string it returns ends one byte before pos.  Writing the header has put pos
\* one byte behind the body; with version 1 the header was written at the start,
\* and the last byte of the body is missing.
Returned == IF opt.version = 1 THEN Front(out) ELSE out

-----------------------------------------------------------------------------
(* Merging one tag *)

Reading(what) == phase = "merging" /\ work # <<>> /\ Head(work) = what
Cur == ibuf[ipos]
Rest == Tail(work)
CanEnter == recursion_depth < MaxDepth
AtValue == Reading("value") /\ CanEnter /\ ipos <= Len(ibuf)
Times(x, n) == [i \in 1 .. n |-> x]
HashItems(n) == [i \in 1 .. 2 * n |-> IF i % 2 = 1 THEN "string" ELSE "value"]

\* The top of the stack is the offset of the tag being merged: it is popped
\* and the tag's place in the output is stored.
IsTracked(i) == tracked_offsets # <<>> /\ Head(tracked_offsets) = i
Track(i, to) ==
  IF IsTracked(i)
  THEN /\ tracked_offsets' = Tail(tracked_offsets)
       /\ tracked_offsets_tbl' = [tracked_offsets_tbl EXCEPT ![i] = to]
  ELSE UNCHANGED <<tracked_offsets, tracked_offsets_tbl>>

unreached == <<opt, obuf_last_successfull_offset, cnt_of_merged_elements, calls, source, segments>>

\* srl_lookup_tracked_offset, after the tag itself has been tracked.
Target(n) == IF n >= ipos /\ tracked_offsets # <<>> /\ Head(tracked_offsets) >= ipos THEN Here
             ELSE tracked_offsets_tbl[n]
Resolves(n) == Target(n) # 0 /\ Target(n) < Here

\* A value is complete: ++ and -- of recursion_depth cancel out.
MergeScalar ==
  /\ AtValue /\ Cur.tag \in {"INT", "UNDEF"}
  /\ Track(ipos, Here)
  /\ out' = Append(out, T(Cur.tag, 0, Cur.s))
  /\ ipos' = ipos + 1
  /\ work' = Rest
  /\ UNCHANGED <<unreached, string_deduper_tbl, classname_deduper_tbl, queue, ibuf,
                 recursion_depth, phase>>

\* srl_lookup_string / srl_lookup_classname: 0, or the offset of an equal
\* string; flagged and unflagged tags are different bytes.
Duplicate(tbl, t) ==
  IF ~opt.dedupe \/ t.s \in Short THEN 0
  ELSE LET found == STRTABLE_lookup(tbl, out, t)
       IN  IF found = {} THEN 0 ELSE CHOOSE o \in found : TRUE
Remember(tbl, s, ofs) ==
  IF opt.dedupe /\ s \notin Short THEN STRTABLE_insert(tbl, s, ofs) ELSE tbl

TrackString(t, dup) == Track(ipos, IF dup # 0 THEN dup ELSE Here)

\* srl_merge_short_binary, srl_merge_binary_utf8
MergeString ==
  /\ Reading("string") \/ (Reading("value") /\ CanEnter)
  /\ ipos <= Len(ibuf) /\ IsString(Cur)
  /\ LET dup == Duplicate(string_deduper_tbl, Cur)
     IN  /\ out' = Append(out, IF dup # 0 THEN T("COPY", dup, "") ELSE Cur)
         /\ string_deduper_tbl' = IF dup # 0 THEN string_deduper_tbl
                                  ELSE Remember(string_deduper_tbl, Cur.s, Here)
         /\ TrackString(Cur, dup)
  /\ ipos' = ipos + 1
  /\ work' = Rest
  /\ UNCHANGED <<unreached, classname_deduper_tbl, queue, ibuf, recursion_depth, phase>>

MergeContainer ==
  /\ AtValue /\ (IsArray(Cur) \/ IsHash(Cur))
  /\ Track(ipos, Here)
  /\ out' = Append(out, T(Cur.tag, Cur.n, ""))
  /\ ipos' = ipos + 1
  /\ recursion_depth' = recursion_depth + 1
  /\ work' = (IF IsArray(Cur) THEN Times("value", Cur.n) ELSE HashItems(Cur.n))
             \o <<"leave">> \o Rest
  /\ UNCHANGED <<unreached, string_deduper_tbl, classname_deduper_tbl, queue, ibuf, phase>>

Leave ==
  /\ Reading("leave")
  /\ recursion_depth' = recursion_depth - 1
  /\ work' = Rest
  /\ UNCHANGED <<unreached, out, tables, queue, ibuf, ipos, phase>>

\* REFN and WEAKEN go back to read_again, which counts a level that is not
\* given back.
MergePrefix ==
  /\ AtValue /\ Cur.tag \in {"REFN", "WEAKEN"}
  /\ Track(ipos, Here)
  /\ out' = Append(out, T(Cur.tag, 0, ""))
  /\ ipos' = ipos + 1
  /\ recursion_depth' = recursion_depth + 1
  /\ UNCHANGED <<unreached, string_deduper_tbl, classname_deduper_tbl, queue, ibuf, work, phase>>

\* All PADs in a row are copied at once, those with the track flag not at all.
PadRun == LET stop == {j \in ipos .. Len(ibuf) : ibuf[j] # T("PAD", 0, "")}
          IN  IF stop = {} THEN Len(ibuf) + 1 - ipos
              ELSE (CHOOSE j \in stop : \A k \in stop : j <= k) - ipos
\* Mutant: read_again without counting a level.
MergePadForever ==
  /\ AtValue /\ Cur.tag = "PAD"
  /\ Track(ipos, Here)
  /\ out' = out \o Times(T("PAD", 0, ""), PadRun)
  /\ ipos' = ipos + PadRun
  /\ UNCHANGED <<unreached, string_deduper_tbl, classname_deduper_tbl, queue, ibuf, work,
                 recursion_depth, phase>>

MergePad ==
  /\ AtValue /\ Cur.tag = "PAD"
  /\ Track(ipos, Here)
  /\ out' = out \o Times(T("PAD", 0, ""), PadRun)
  /\ ipos' = ipos + PadRun
  /\ recursion_depth' = recursion_depth + 1
  /\ UNCHANGED <<unreached, string_deduper_tbl, classname_deduper_tbl, queue, ibuf, work, phase>>

FlagTarget(doc, t, to) ==
  IF t.tag \in {"REFP", "ALIAS"} THEN SRL_SET_TRACK_FLAG(doc, to) ELSE doc

\* COPY, REFP and ALIAS as values; OBJECTV, behind which a value follows.
MergeOffset ==
  /\ AtValue /\ HasOffset(Cur) /\ Resolves(Cur.n)
  /\ Track(ipos, Here)
  /\ out' = FlagTarget(Append(out, T(Cur.tag, Target(Cur.n), "")), Cur, Target(Cur.n))
  /\ ipos' = ipos + 1
  /\ work' = IF Cur.tag = "OBJECTV" THEN work ELSE Rest
  /\ recursion_depth' = IF Cur.tag = "OBJECTV" THEN recursion_depth + 1 ELSE recursion_depth
  /\ UNCHANGED <<unreached, string_deduper_tbl, classname_deduper_tbl, queue, ibuf, phase>>

\* The COPY branch of srl_merge_stringish: the copy must name a string, or a
\* tag whose track flag makes its byte look like one.
CopyResolves(n) == Resolves(n) /\ (IsString(out[Target(n)]) \/ out[Target(n)].trk)
MergeKeyCopy ==
  /\ Reading("string") /\ ipos <= Len(ibuf) /\ Cur.tag = "COPY"
  /\ CopyResolves(Cur.n)
  /\ Track(ipos, Here)
  /\ out' = Append(out, T("COPY", Target(Cur.n), ""))
  /\ ipos' = ipos + 1
  /\ work' = Rest
  /\ UNCHANGED <<unreached, string_deduper_tbl, classname_deduper_tbl, queue, ibuf,
                 recursion_depth, phase>>

\* srl_merge_object with a class name; OBJECT itself is tracked by its
\* caller, the name by srl_merge_object, one behind the tag to come.
ClassName == ibuf[ipos + 1]
ClassTable(to) ==
  LET top == IF IsTracked(ipos) THEN Tail(tracked_offsets) ELSE tracked_offsets
      tbl == IF IsTracked(ipos) THEN [tracked_offsets_tbl EXCEPT ![ipos] = Here]
             ELSE tracked_offsets_tbl
  IN  IF top # <<>> /\ Head(top) = ipos + 1
      THEN tracked_offsets' = Tail(top) /\ tracked_offsets_tbl' = [tbl EXCEPT ![ipos + 1] = to]
      ELSE tracked_offsets' = top /\ tracked_offsets_tbl' = tbl
MergeObject ==
  /\ AtValue /\ Cur.tag = "OBJECT"
  /\ ipos < Len(ibuf) /\ IsString(ClassName)
  /\ LET dup == Duplicate(classname_deduper_tbl, ClassName)
     IN  /\ out' = IF dup # 0 THEN Append(out, T("OBJECTV", dup, ""))
                   ELSE out \o <<T("OBJECT", 0, ""), ClassName>>
         /\ classname_deduper_tbl' = IF dup # 0 THEN classname_deduper_tbl
                                     ELSE Remember(classname_deduper_tbl, ClassName.s, Here + 1)
         /\ ClassTable(IF dup # 0 THEN dup ELSE Here + 1)
  /\ ipos' = ipos + 2
  /\ work' = <<"value", "leave">> \o Rest
  /\ recursion_depth' = recursion_depth + 1
  /\ UNCHANGED <<unreached, string_deduper_tbl, queue, ibuf, phase>>

\* With a COPY for the class name no OBJECT tag is written.
MergeObjectCopy ==
  /\ AtValue /\ Cur.tag = "OBJECT"
  /\ ipos < Len(ibuf) /\ ClassName.tag = "COPY"
  /\ CopyResolves(ClassName.n)
  /\ out' = Append(out, T("COPY", Target(ClassName.n), ""))
  /\ ClassTable(Here + 1)
  /\ ipos' = ipos + 2
  /\ work' = <<"value", "leave">> \o Rest
  /\ recursion_depth' = recursion_depth + 1
  /\ UNCHANGED <<unreached, string_deduper_tbl, classname_deduper_tbl, queue, ibuf, phase>>

\* REGEXP: a pattern, then modifiers that are copied as they are.
MergeRegexp ==
  /\ AtValue /\ Cur.tag = "REGEXP"
  /\ Track(ipos, Here)
  /\ out' = Append(out, T("REGEXP", 0, ""))
  /\ ipos' = ipos + 1
  /\ work' = <<"string", "modifiers">> \o Rest
  /\ UNCHANGED <<unreached, string_deduper_tbl, classname_deduper_tbl, queue, ibuf,
                 recursion_depth, phase>>
MergeModifiers ==
  /\ Reading("modifiers") /\ ipos <= Len(ibuf) /\ IsString(Cur)
  /\ out' = Append(out, Cur)
  /\ ipos' = ipos + 1
  /\ work' = Rest
  /\ UNCHANGED <<unreached, tables, queue, ibuf, recursion_depth, phase>>

\* SRL_RDR_ERROR*: the input ends early, nesting is too deep, an offset does
\* not resolve, a string is expected and something else found.  What was
\* written stays, and so does a table entry made for the tag itself.
BadClass == IF ipos = Len(ibuf) THEN TRUE
            ELSE ~IsString(ClassName) /\ ~(ClassName.tag = "COPY" /\ CopyResolves(ClassName.n))
Misplaced ==
  CASE Head(work) = "value" -> \/ ~CanEnter
                               \/ HasOffset(Cur) /\ ~Resolves(Cur.n)
                               \/ Cur.tag = "OBJECT" /\ BadClass
    [] Head(work) = "string" -> ~IsString(Cur) /\ ~(Cur.tag = "COPY" /\ CopyResolves(Cur.n))
    [] Head(work) = "modifiers" -> ~IsString(Cur)
    [] Head(work) = "leave" -> FALSE

MergeFails ==
  /\ phase = "merging" /\ work # <<>> /\ Head(work) # "leave"
  /\ IF ipos > Len(ibuf) THEN TRUE ELSE Misplaced
  /\ IF ipos > Len(ibuf) \/ Head(work) = "modifiers" \/ (Head(work) = "value" /\ ~CanEnter)
     THEN UNCHANGED <<tracked_offsets, tracked_offsets_tbl>>
     ELSE IF Head(work) = "value" /\ Cur.tag = "OBJECT" THEN ClassTable(Here + 1)
     ELSE Track(ipos, Here)
  /\ Failed
  /\ UNCHANGED <<unreached, out, string_deduper_tbl, classname_deduper_tbl, ibuf, ipos, work,
                 recursion_depth>>

MergeStep ==
  \/ MergeScalar \/ MergeString \/ MergeContainer \/ Leave \/ MergePrefix \/ MergePad
  \/ MergeOffset \/ MergeKeyCopy \/ MergeObject \/ MergeObjectCopy \/ MergeRegexp
  \/ MergeModifiers \/ MergeFails \/ DocumentMerged \/ NextDocument \/ NextRefused \/ AllMerged

Idle == (phase \in {"finished", "corrupt"} \/ (phase = "idle" /\ calls = MaxCalls)) /\ UNCHANGED vars

Next == \/ \E d \in Docs : Append1(d) \/ Append1Refused(d)
        \/ \E ds \in Lists : AppendAll(ds)
        \/ Finish \/ MergeStep \/ Idle

Spec == Init /\ [][Next]_vars /\ WF_vars(MergeStep)

-----------------------------------------------------------------------------
(* Properties *)

TypeOK ==
  /\ opt \in Options
  /\ out \in Seq(Tok)
  /\ obuf_last_successfull_offset \in 0 .. Here
  /\ cnt_of_merged_elements \in Nat
  /\ tracked_offsets \in Seq(Nat)
  /\ tracked_offsets_tbl \in [0 .. MaxOffset -> Nat]
  /\ ibuf \in Seq(Tok) /\ ipos \in 1 .. Len(ibuf) + 2
  /\ work \in Seq({"value", "string", "modifiers", "leave"})
  /\ recursion_depth \in 0 .. MaxDepth
  /\ phase \in {"idle", "next", "merging", "finished", "corrupt"}

\* The result of the calls that succeeded is the documents they were given, one
\* after the other: same values, same sharing within each document, whatever
\* failed in between (Merger.pm: a failed append does not affect the result of
\* previous ones).  A document of version 1 is counted and leaves the others alone,
\* but is not read itself, and of a result of version 1 the end is missing (README).
Result == IF phase = "finished" THEN Returned ELSE Committed
EndOf(k) == IF k = Len(segments) THEN Len(Result) ELSE segments[k + 1].from - 1
Whole == phase = "idle" \/ opt.version > 1
OwnMeaning(body) == Meaning(body, 1, Len(body))
MergedIsConcatenation ==
  phase \in {"idle", "finished"} =>
    /\ cnt_of_merged_elements = Len(segments)
    /\ segments = <<>> => Len(Committed) = Len(TopLevel(opt))
    /\ \A k \in DOMAIN segments :
         segments[k].doc.version > 1 /\ (Whole \/ k < Len(segments)) =>
           Meaning(Result, segments[k].from, EndOf(k)) = OwnMeaning(segments[k].doc.body)

\* What the calls so far completed stays in the output, tag for tag, whatever the
\* next ones do, fail at and clean up; the tags only gain track flags, and the
\* count at the top is written by finish.
SameTag(x, y) == x.tag = y.tag /\ x.s = y.s
KeepsCommitted ==
  /\ Len(Committed) <= Len(Committed')
  /\ \A i \in 1 .. Len(Committed) :
       /\ SameTag(Committed'[i], Committed[i])
       /\ (i # CountAt \/ opt.toplevel = "SCALAR") => Committed'[i].n = Committed[i].n
CommittedKept == [][KeepsCommitted]_vars

\* Every entry of the string tables is linked where a lookup finds it, and the
\* entries that belong to completed documents name the string they were made
\* for, also after part of the tables was purged and the output rewound.
NamesItsString(t) ==
  \A p \in Slots(t) : LET o == Entry(t, p).offset
                      IN  o <= Len(Committed) => IsString(out[o]) /\ Hash[out[o].s] = Entry(t, p).hash
TablesSound ==
  phase # "corrupt" => /\ Consistent(string_deduper_tbl) /\ NamesItsString(string_deduper_tbl)
                       /\ Consistent(classname_deduper_tbl) /\ NamesItsString(classname_deduper_tbl)

\* No well formed document of version 2 or later is refused: every offset it
\* names is found in the track table when its tag comes, whatever earlier
\* documents left there.
AcceptsValid ==
  [][phase = "merging" /\ phase' = "idle" => source.version = 1 \/ source.body \notin Valid]_vars

\* STRTABLE_purge never looks at memory before an arena (its assertion that
\* entry is next - 1).
PurgeStaysInside == phase # "corrupt"

\* Every call comes to an end.
CallsEnd == phase = "merging" ~> phase # "merging"
=============================================================================
