# A TLA+ model of Sereal

Sereal is a binary serialization format for Perl-like data.  The repository holds
the format's specification, the C/XS implementation for Perl (Encoder, Decoder,
Merger, Splitter, Path) and ports to Go, Java, Erlang, Ruby, Python, JavaScript and
Objective-C.  This directory models the Perl implementation, which is the reference
one and carries the hard algorithms: sharing, cycles, aliases and weak references,
in-place rewriting of output, re-entrancy through callbacks, cleaning up after
exceptions, and the tools that work on documents without decoding them (Merger,
Splitter, Path).

`PROJECT.json` lists every component, run, mutant, theorem, finding and hazard and
maps each definition to the source lines it models.

## 1. Inventory

| Component | State it keeps | Operations | What makes it correct |
|---|---|---|---|
| Encoder buffer (`Encoder/srl_buffer.h`) | start, pos, end, body_pos of two buffers | size assertion and growth, checked and unchecked writers, rewinding, swapping, compressing into a fresh buffer | no unchecked writer leaves the allocation; offsets survive reallocation and never are 0 |
| Encoder walk (`Encoder/srl_encoder.c`) | ref_seenhash, weak_seenhash, str_seenhash, string deduper, recursion depth, output | srl_dump_sv and what it calls, srl_fixup_weakrefs | every table entry remains the offset of what was remembered, although output is overwritten; the document stands for the structure |
| Encoder object (`Encoder/srl_encoder.c`, `Encoder.xs`) | operational and option flags, the tables, freezeobj_svhash, destructor hooks | prepare, clone, dump, FREEZE callback, clear, destroy | one call per struct, no leak, no double free, nothing of one document in the next |
| Decoder reader (`Decoder/srl_decoder.c`, `shared/srl_reader*.h`) | position, save_pos, ref_seenhash, ref_stashes, ref_bless_av, weakref_av, recursion depth | srl_read_single_value and one handler per tag, finalization | reads back what was written, uses no freed SV, refuses what is cut off |
| Decoder object (`Decoder/srl_decoder.c`, `Decoder.xs`) | operational flags, tables, bytes_consumed, ref_thawhash | begin, header, body, THAW callback, clear, hook, destroy | as for the encoder object |
| Pointer table (`shared/ptable.h`) | hash chains, size | find, store, delete, clear, iterate | behaves as a finite map through growth and deletion |
| Varints (`shared/srl_reader_varint.h`) | position | read, read with limits, offsets | exact for all values of a word, nothing read behind the buffer |
| Packet (`srl_reader_decompress.h`, `srl_reader_misc.h`, `srl_compress.h`) | header, buffer re-basing | header validation, (de)compression | offsets after decompression mean what they meant before; a cut packet is refused |
| Merger (`Merger/srl_merger.c`, `strtable.h`) | output, two string tables, tracked offsets, position of the last good document | append, append_all, finish, roll-back of a failed append | the merged document is the sequence of the inputs; a failed append leaves no trace |
| Splitter (`Splitter/srl_splitter.c`) | command stack, chunk, dedupe and offset tables | next_chunk | each chunk is a document; chunks concatenate to the input array |
| Path iterator (`Path/Iterator/srl_iterator.c`) | position, stack of containers with index and place to return to | next, step_in, step_out, rewind, goto, keys, info, disjoin, unite, set | positions agree with a full traversal |
| Path (`Path/srl_path.c`) | query, results | traverse | the results are what the query names, in order |
| Go, Java, Erlang and the other ports | own coders | own coders | same format |

Interaction: the encoder object owns the walk's tables and the buffers; the walk
writes to the buffer and stores its offsets in the tables; the decoder reads the same
offsets back.  FREEZE and THAW call user code in the middle of a document, and that
code may use the same object.  The Merger and the Splitter copy tags and rewrite
offsets; Path moves an iterator, which never decodes more than it is asked for.
All keep addresses or offsets in pointer tables.  Perl's save stack runs the destructor hooks that clean
up.  Nothing runs in parallel (perl interpreters do not share these structs); the
interleavings that matter are re-entrant calls and exceptions.

Hard behaviours: bytes already written are overwritten (REFP over REFN, ARRAYREF_n
over REFN, PAD over WEAKEN) while tables hold offsets into them; weak references whose
owner is met later or never; SVs tracked without a reference count; a call nested in a
call of the same object; exceptions between any two steps; unchecked writes that rely
on a space check made earlier; offsets that mean something else in the merged document or
the chunk; a failed document that has to be taken back; a stack that is unwound only when
the next call needs it.

## 2. Modules

| Module | Models | Checked by |
|---|---|---|
| `SrlBuffer` | encoder buffer under `srl_dump_data_structure` | run `buffer`, proofs in `SrlBufferProofs` |
| `SrlHeap` | Perl values: kinds, references, reference counts | extended by the two below |
| `SrlEncoder` | the walk `srl_dump_sv` | through `RoundTrip`, proofs in `SrlEncoderProofs` |
| `SrlDecoder` | the reader `srl_read_single_value` | through `RoundTrip` |
| `RoundTrip` | encoder, a document that may be cut, decoder | runs `roundtrip`, `lost_weak_ref`, proofs in `RoundTripProofs` |
| `EncoderLifecycle` | an encoder object over many calls | run `encoder_lifecycle`, proofs in `EncoderLifecycleProofs` |
| `DecoderLifecycle` | a decoder object over many calls | run `decoder_lifecycle`, proofs in `DecoderLifecycleProofs` |
| `PointerMap` | what a pointer table promises: a finite map with an iteration | through `PTable` |
| `PTable` | `ptable.h` | run `ptable`, proofs in `PTableProofs` |
| `Varint` | writing, padding and reading varints | through `Packet` |
| `Packet` | header, compression, transmission, decompression, one value | runs `packet`, `truncated_varint` |
| `SrlTokens` | documents as sequences of tags, and what a stretch of one means | extended by the modules below |
| `SrlTrees` | the tree that a document stands for | extended by `Splitter`, `SrlIterator` |
| `StrTable` | `strtable.h` | through `Merger`, proofs in `MergerProofs` |
| `Merger` | a merger object over many calls | runs `merger`, `merger_purge`, proofs in `MergerProofs` |
| `Splitter` | one document cut into chunks | run `splitter` |
| `SrlIterator` | an iterator over many calls | through `SrlPath` |
| `SrlPath` | queries on top of the iterator | run `path` |
| `NatLemmas` | least and greatest elements, remainders; used by four of the proof modules | |
| `MC*` | the instances TLC explores | |

`RoundTrip` composes the codec halves: it extends `SrlEncoder` and instantiates
`SrlDecoder` with the encoder's output, less its last `cut` tokens, as its document.
`PTable` instantiates `PointerMap` with what `PTABLE_fetch` returns for each key, the keys
the iterator has still to return and the number of its returns, and `ImplementsMap` says
that every step of the table is a step of the map: in `PointerMap` an iteration returns one
key of those left per step, and is at its end when none is left and not before.  `SrlPath` runs its
commands on the same work stack as the iterator's, so a query and single calls interleave
on one iterator.

### Correspondence with the code

**SrlBuffer.** A buffer is the record of its pointers as offsets from `start`.  One
action per writer; each applies the writer's own space assertion, growth rule
(`OVERALLOC_FUNC`) and advance.  `spare` is the room left behind the furthest byte the
last step wrote or asserted (`DEBUG_ASSERT_BUF_SPACE`), so `spare >= 0` says that no
unchecked write, and no debug assertion, exceeded what was secured.  `phase` follows
`srl_dump_data_structure`; the user header is dumped with the two buffers swapped, and
`srl_clear_encoder` may come at any point, as any step may croak.  Handing the buffer to the
caller in the functional interface (`srl_encoder.c:1062-1073`) ends the struct's life and
is not an action.

**SrlEncoder.** The body is a sequence of tokens, one per tag, and an offset is a token's
index.  This keeps everything the code does with offsets (store, compare with 0, rewind,
overwrite) and leaves out how many bytes a tag takes, which is `SrlBuffer`'s subject.  `todo` is the C stack: what
remains to be dumped, and the returns that decrement `recursion_depth`.  One pass of the
`redo_dump` loop is one action, chosen by the kind of `cur.src`.  Strings are members of
a small set and stand for strings longer than three bytes, the ones that are deduplicated;
`Long` are those that need BINARY or STR_UTF8.  `InlineMax = 2`
stands for the limit of 16 on ARRAYREF_n and HASHREF_n.  Keys live in perl's shared string table; the code's refcount check on a key is abstracted,
since a key with a count of one occurs once.

**SrlDecoder.** One action per tag handler; a handler that reads a value in its middle is
split there, and `work`, the C stack, holds its second half.  SVs are entries of `sv`;
reference counts are counted from who points at an SV rather than stored.  The end of
decoding is `ReleaseWeakrefs`, then `Free`, one SV per step, then `srl_finalize_structure`.
`Rejected` lists every croak.  The early space check for an element count shows up as a
rejection at the end of input, a little later.

**Lifecycles.** `stack` is perl's context stack together with the save stack.  An XSUB's
destructor hook lies on top of the call and runs when it returns; a custom op has no scope
of its own, so its hook lies under it and runs when the enclosing block is left.  `Die` unwinds to any enclosing
block and runs the hooks on the way.  A table is represented by the call and the part (user
header or body) whose entries it holds.  `DESTROY` may come wherever perl code runs, the FREEZE
and THAW methods included, and frees the object's struct.  Neither a call nor a hook holds a
reference count on the object (`Encoder.xs:43-66`, `Decoder.xs:106`), so `object` becomes
`early` if one of them has still to use the struct.  What the code does from then on is undefined, and
the behaviour ends there: `NoDanglingEncoder` and `NoDanglingDecoder` say that this is the
only way for a call or a hook to be left with a freed struct, that it is the object's own
one, never a clone, and that only the program brings it about.

**PTable.** A bucket is the set of its entries; the order of a chain is irrelevant to what
the table returns.  `tbl_items` is kept as the code keeps it: `PTABLE_delete` does not
count down.  The hash is a constant function, `& tbl_max` is a remainder.  An iterator
holds the bucket it comes to next and the entries of the current chain it has still to return; the
code keeps one autoclean iterator, which clearing and freeing the table dispose of.
`assert(iter->cur_entry != NULL)` (`ptable.h:317`) does not guard the action, as it does not in a
build without assertions; it fails for a table whose entries were all deleted.

**Varint, Packet.** A byte carries `ByteBits` bits and a continuation bit, a word has
`WordBits` bits; the unrolled reader reads as many bytes as a word needs and the limit of
11 bytes is one more, as in the code.  A reader's record has the bytes, the position, and
what lies in memory behind the bytes, so that reading too far is a defined, visible event
(`inside`).  Each stage of `srl_dump_data_structure` and of `srl_decode_into_internal` is an action; a compressor's
output is any number of bytes within its bound, and the transport may cut the packet or
append to it.

**SrlTokens, SrlTrees.** As in `SrlEncoder` an offset is a token's index.  `Meaning` writes a stretch of a document
out in place: strings for COPY, positions within the stretch for REFP and ALIAS.  Two
stretches with the same meaning decode to the same values with the same sharing.  `Tree`
unfolds a document to a given depth, which is what a chunk can be compared with when a
shared value had to be written twice.

**Merger.** `work` is the C stack of `srl_merge_single_value`, one action per group of tags that the
switch treats alike.  `append` and `append_all` start with the clean-up of what a failed
call left behind, exactly as in the code, where it happens at the start of the next call
and not when the failing one croaks.  `StrTable` keeps arenas of `ArenaSize` entries and
chains per bucket, a chain being the set of its slots, since no operation depends on its
order; `STRTABLE_purge` is its loop over three pointers.  A purge whose pointer
leaves the arenas marks the table corrupt and ends the behaviour.  `segments` is history: which document
starts where.  A document and the options have a protocol version.  For an input of version 1
`ReadFrom` is what the code reads from its header's second byte on: `s` is the tag of a
string of 19 bytes, and the input ends within it or it is the value; `Returned` is what `finish` hands out, less the last byte for version 1.

**Splitter.** The command stack is the code's, one action per command and per group of tags;
`Pending` is the part of the input that was parsed and not yet copied to the chunk.
`BodyBias`, `OriginOffset` and `LandingPos` are the offset arithmetic of the two protocol
generations (`srl_splitter.c:365-369, 501, 752`).

**SrlIterator, SrlPath.** The stack keeps the frames above the current depth, as
`srl_stack` keeps its memory, since a later push of the same level overwrites field by
field.  The functions are small machines: a call pushes a command, commands push others, and
`Machine` runs them to the end or to a croak.  After a croak the caller may only reset or
start a query, as both put position and stack back; the code allows other calls too, with no
promise about the result.  Status `astray` is the state after a refused `set`, an
unmatched `unite`, or a `step_in` on an ALIAS of a REFP, which leaves the position on the bytes of the
REFP's offset (`srl_iterator.c:1358-1368`): those are not tags of the model.  `srl_path_set`
gives the path an iterator of its own, or the one of an Iterator object, wherever that
stands.

## 3. Runs

Passing runs, with the reasons why their bounds suffice:

* `buffer` - `InitSize` 8, `MaxVarint` 3, magic of 2 bytes, lengths 0 and 3, bodies that
  start no write at or after offset 10.  The proportions of the code (64, 11, 4) at a size where each writer
  meets too little, just enough and more than enough room, both protocol rules for body_pos occur, and
  several growths happen in one document.  The theorems remove these bounds.
* `roundtrip` - all well-formed structures of up to five SVs: a reference to an array, a
  hash or an object with a repeated element, whose two slots hold scalars, immortals or strong or
  weak references to anything, and a fifth SV.  Five SVs
  allow a cycle through a container, a weak reference before and after its owner, an
  owner outside the structure, a shared slot (ALIAS), a shared referent (REFP), and a class used twice
  (OBJECTV).  Options are varied one at a time, with the structures they matter to.
  It checks that table entries never go stale (`SeenOffsetsValid`), references in the
  document resolve (`BackReferencesResolve`), the fix-up finds what it expects
  (`FixupFindsWeaken`), the decoder accepts the document and meets no key twice in a hash (`NoReject`), rebuilds the structure
  (`RoundTripIso`), ends exactly behind it (`ConsumesDocument`), never tracks a freed SV
  (`TrackedAlive`), and that all this ends (`RoundTripEnds`).  Each document is also read
  without its last one to three tokens, and then refused (`TruncationDetected`).
* `decoder_lifecycle`, `encoder_lifecycle` - the object's struct and two clones, three
  calls: nesting two deep, siblings, and calls after nested ones ended, each as XSUB or
  custom op, with exceptions anywhere, and `DESTROY` anywhere in perl code.  `NoInputKept`:
with all scopes left, no struct points into an input or has an offset of one, and no clone is
left; the object's `ref_thawhash` is not part of it, as the code never clears that.  `ReportsOwnBytes`: a decode in whose course no other
  one ran reports its own length, and data decoded with the object's own struct are
  read-only if the object says so.
* `merger` - three calls out of eleven good documents (repeated strings, shared and cyclic
  values, objects, weak references, padding, a regexp), twenty-one that fail at different
  stages, three that are refused at once and one of protocol 1; arenas of two entries and two buckets to start with, so that
  a document crosses arenas and makes the table grow.  `MergedIsConcatenation`: what stands
  in the result means the good documents, in order.  It says nothing of what became of a document of protocol 1,
  which the code misreads, but that those before and behind it are intact; nor of the last
  document in a result of protocol 1, whose end is missing.  `TablesSound`:
  every entry is where a lookup finds it and names the string it was made for.
  `CommittedKept`: no step, failed appends and their clean-up included, changes a tag of
  what successful appends wrote, nor a count or offset other than the top-level count.
  `AcceptsValid`: no good document of protocol 2 or later is refused after whatever came before.  `CallsEnd`.
* `splitter` - arrays of three elements, where the second and third may share anything with
  the first or with each other, at three chunk sizes: one element per chunk, some, all.  Documents of
  protocol 1 are among them if they name no offset.
  `SplitIsConcatenation`, `ChunkSizesHonoured` (a chunk stops at the first element that
  reaches the limit, and is never empty), `SplittingEnds`.
* `path` - documents that contain every tag, five broken ones, four calls in any order;
  and queries of one or two locations of every form.  `PositionSound` relates position and
  stack: the position is that of the element the top frame counts, for every frame below too.
  `InfoSound` compares `info` with the tree at the position.  `QueryAnswered` compares the results with a definition
  of the query on the tree.  `CallsEnd`.  On two forms the encoder writes the
  code goes wrong (see the divergences below): a blessed reference to something seen before
  (OBJECT or OBJECTV, then REFP) and a `qr//` (OBJECT REFN REGEXP).  Such documents are in the run, but
  the first is only read by queries that pass it by, queries do not go into the second, and
  `InfoSound` spares it by name.
* `ptable` - four keys whose hashes collide in a table of 2, 4 and 8 buckets, at most six
  counted items: growth in the middle of an iteration's life, deletion that leaves the count
  stale, clearing with and without entries.  `ImplementsMap` holds the iterator to returning every
  key exactly once.
* `packet` - three-bit bytes, eight-bit words: numbers at every edge of the varint lengths,
  strings short and long, every version and encoding, compressors that shrink a lot, a little, or
  not enough; user headers; size limits; bytes behind the packet; and packets that
  lost one to nine bytes.  `PacketsRead`: value, length and offset base survive and no reader
  looks behind the bytes.  `TruncatedRefused`: a cut packet is not accepted, apart from the case of the finding below.

`RoundTripIso` compares the two structures by walking them in step: equal values, classes
and keys; the same sharing; weak references still weak, except that exactly one of them
keeps a referent nothing else in the document owns.  Two losses of identity are part of the
format and allowed: copies of an immortal, and equal strings that `aliased_dedupe_strings`
merges on purpose.

**Fairness.** Weak fairness of the next step of a call under way: the encoder's or decoder's
(`RoundTrip`), the merge's (`MergeStep`), the parser's and the call for the next chunk (`Splitter`: a
caller that wants all chunks), the iterator's and the query's (`Steps_`).  The code is
sequential C without waiting, so a call that has begun does take its next step.  Nothing is
assumed of callers otherwise, and the lifecycle, buffer, table and packet modules claim no liveness.

**Deadlock** is checked where a finished behaviour stutters explicitly (`Idle`, `Done`).  It is
not checked in `ptable` (a freed table takes no step), `packet` (a packet is read once) and
`path` (a croaked or astray iterator, or one that was called often enough, stops).

### Findings

Each violation run checks one statement of the documentation, a comment or an assertion that
the code does not keep.

* `lost_weak_ref` - `srl_fixup_weakrefs` asserts that it overwrites a plain WEAKEN
  (`srl_encoder.c:1097`).  A weak reference that is itself shared has the track flag set on
  that byte, and PAD erases the flag.
* `merger_purge` - when `STRTABLE_purge` stops exactly at an arena boundary it leaves an
  empty arena at the head of the list; the next purge begins one entry before that arena's array
  (`strtable.h:404`).
* `truncated_varint` - `srl_read_varint_uv` concludes from the last byte of the buffer that
  the unrolled reader will stop inside it (`srl_reader_varint.h:160-173`).  When the buffer
  ends right behind a tag, that byte is the tag, and the reader goes on behind the end.

Other divergences met while modelling.  The instances of the passing runs leave out the inputs that
show them (predicates and comments in the MC modules), or the model contains them and no
property speaks about them.

* Pointer table.  After store and delete `tbl_items` is 1 and the table empty, and the
  assertion in `PTABLE_iter_new_flags` (`ptable.h:317`) fails.  No caller meets it: only
  `ref_seenhash` is deleted from, and nobody iterates that.
* Encoder and decoder.  THAW returning no reference for an object nobody else refers to leaves the
  unthawed argument array in place (`srl_decoder.c:1588`).  COPY of a string that carries the track flag moves the tracked
  entry to the copy, against `sereal_spec.pod:394-399` (`CopiedShared`).
  `aliased_dedupe_strings` writes REFN ALIAS, which `srl_decoder.c:1819` refuses
  (`AliasedReferent`).  With `sort_keys_perl` and `dedupe_strings` a key written as COPY of a
  tracked long string is refused, `srl_decoder.c:1086-1116` (`CopiedKey`).  With
  `undef_unknown` a weak reference among several to a code value becomes WEAKEN UNDEF
  (`WeakUnknown`).
* Objects.  Releasing the object in FREEZE or THAW, or in the block where a custom op has run,
  frees a struct that is still used (no reference count is taken, `Encoder.xs:57`,
  `Decoder.xs:106`).  A decode nested in THAW leaves its own count in `bytes_consumed`
  (`srl_decoder.c:446`).  The clone for a nested call lacks `flags_readonly` (349) and, in the
  encoder, `compress_level` (`srl_encoder.c:638`).  `ref_thawhash` survives from one document
  to the next (`srl_decoder.c:517`).  The early return in `srl_clear_decoder` (508-509)
  leaves DIRTY on after a refused or empty input, so that later calls use clones.  A clone or
  functional encoder that is destroyed releases its freeze replacements with `PTABLE_free`
  (389-390) rather than `PTABLE_clear_dec` (346-347).  The comment at 1089-1092 speaks of the
  first weak reference where the last one is padded.
* Merger.  `recursion_depth` is not decremented after REFN, WEAKEN, OBJECTV and PAD, so a long
  flat document meets the depth limit.  An object whose class name is a COPY is written
  without its OBJECT tag when the name was seen (so such documents are not among the good ones).  With
  deduplication, two equal strings that are both referred to become one.  A reference to itself
  is refused.  A protocol 1 document is accepted (`srl_merger.c:624`), but its `body_pos` is
  the start of the document (645, `srl_reader.h:27-28`) and reading starts at `body_pos + 1`
  (385, 433), in the magic string, against `Merger.pm:128-131` ("The result of merging is eqvivalent to").  With
  `protocol_version` 1, which `Merger.pm:111-112` allows, and no user header `finish` returns
  the document without its last byte (531, 558).  The model has both.  `tracked_offsets_tbl` is never cleared between documents: only offsets in the
  sorted list are looked up.  Zstd input is refused.
* Splitter.  Offsets of protocol 1 count from 0 at the start of the document
  (`srl_splitter.c:365-366`), but 752, 803, 856 and 908 subtract 1 as for protocol 2, and 501
  adds it: COPY, and REFP to an earlier chunk, are followed to the byte before their target.
  PAD takes the slot of a value (`sereal_spec.pod:305` wants it skipped), so
  inputs with PAD are left out.  Regexp modifiers that were deduplicated to COPY are refused by the
  decoder (`OnlyOneRegexp`).  The test for an array at the top also accepts HASHREF and
  SHORT_BINARY tags.  Its two hash tables are file-level globals, shared by all splitters.
* Iterator and Path.  `srl_iterator_read_object` drops the return position that
  `srl_iterator_read_refp` gives it (`srl_iterator.c:1334`): `step_out` of a blessed reference
  to something seen before lands behind the referent, against `Iterator.pm:219-220`.  Behind
  OBJECT and REFN `info` has no case for REGEXP and croaks (1097), so that `SRL_INFO_REGEXP`
  (`Iterator.pm:148`) is never seen for a `qr//`.  A path set to an Iterator object keeps no
  reference count of it (`srl_path.c:136`).  `rewind`, `reset` and `unite` keep the frame's old return position
  `end`, so documents with REFP are not rewound in the run; a list behind a
  list or before a nested location is searched one level too deep (the assertion in
  `srl_parse_hash_list` says otherwise), so lists come last; `[0]` on an empty array croaks; the
  tag behind a PAD is taken to be a reference; ALIAS of an ARRAYREF or HASHREF opens with
  length 1; `step_in` on an ALIAS that is the last tag croaks; a regexp is refused by
  `step_in`; decoding an ALIAS and going on moves behind the aliased value; `disjoin` leaves
  `end` uninitialised; `unite` without `disjoin` below the root dereferences NULL; a `set`
  that fails leaves the buffer new and `body_pos` old.

## 4. Proofs

Each theorem holds for every value of the constants that satisfies the named assumptions of
the module it is about; TLC evaluates those on every run.  No invariant below is inductive as
it stands.  Each proof module therefore states an inductive one (`IInv`, `Good`, `RTInv`),
shows that every step keeps it, and derives the theorems from it.

### SrlBufferProofs

For every buffer size, varint length, magic length, set of lengths,
slack and set of versions (`SizesAssumption`, `LensAssumption`, `VersionsAssumption`):
`BufferSafety`, `NocheckSafety`, `OffsetSafety`, `TmpBufferSafety`,
`TypeSafety` and the action property `BodyPosStability`.  `IInv` adds to their conjunction:

* `tmp` is empty outside the user header, and `buf` while idle or before the header: without it the swap
  at the start of the user header could continue a stale buffer;
* in protocol version 1 `body_pos` is 0 while a body is written: without it a rewind to the
  start of the body could reach offset 0.

Two lemmas carry the argument: `SizeAssertSpec` (a size assertion keeps pos and body_pos
and leaves the room asked for, whatever `OVERALLOC_FUNC` adds) and `AdvanceSane` (advancing
within that room stays sane).  Each action is then one step: room, advance, new body_pos.

### SrlEncoderProofs

For every set of SVs and strings, every well-formed data structure over them and every
combination of options (`RootAssumption`, `InlineAssumption`, `StringsAssumption`,
`CasesAssumption`, the last one with `WellFormed`: only references point at containers and code, a reference has
one referent, an immortal is one of three):

* `SeenOffsets` - every offset in the tables stays that of what was remembered.
* `ResolveBeforeFixup` - until `srl_fixup_weakrefs` runs, every REFP, ALIAS, COPY and OBJECTV resolves.
* `BackReferences` - it does so in the finished document too if the assertion in
  `srl_fixup_weakrefs` (`FixupFindsWeaken`) holds.
* `FixupAssertion`, `ResolveUnshared` - the assertion, and therefore the conclusion, holds
  for every structure in which no weak reference is itself referred to more than once
  (`WeakRefsUnshared`).  The hypothesis is not a convenience: the run `lost_weak_ref` shows the
  assertion violated without it.
* `EncoderTypes`, `DepthReturns` - `recursion_depth`, unsigned in the code, is never
  decremented below 0 and is 0 after a finished document, whichever of its exits each `srl_dump_sv` took.

The difficulty is that the body is rewritten.  When a reference turns out to lead to something seen, the
code goes back to `ref_rewrite_pos` and drops what it wrote since, while tables hold
offsets into the body.  `Unfinished` states why that is safe: what would be dropped is a REFN and at most an
OBJECTV, and no table leads behind `ref_rewrite_pos`.  An OBJECT with its class
name, which `str_seenhash` does remember, cannot be among it.  That needs `Named`: the
class of every container in `ref_seenhash` has already been written, so a second visit finds it and
writes OBJECTV.  With this and the tables' meaning (`RefsOK`, `StringsOK`, `WeakensOK`) `IInv` is inductive; `Good` adds
`AllResolve` until the fix-up.  Every write is an instance of `Keeps(o, p, k)`
(the first k tags of o are those of p, up to track flags), from which `StringsKept`, `WeakensKept`, `RefsKept` and
`ResolveKept` derive that each part of the invariant survives; the proofs of the
actions only say what they keep and what they add.

For the depth, `Balanced` relates the counter to the whole of `todo` by the depth before each item;
counting the pending returns would need a recursive function.  For the assertion, `WInv`
says that each WEAKEN is as it was written and that no table leads to one: the first needs the
second, as a track flag is only set where a table leads.

### EncoderLifecycleProofs, DecoderLifecycleProofs

For any number of structs and calls, any nesting, XSUB or custom op, exceptions anywhere
(`UserAssumption`, `SingleAssumption`, `LevelAssumption`, `BoundAssumption` of the encoder;
`UserAssumption`, `DocsAssumption` - there is a document at all -, `ReadOnlyAssumption`,
`BoundAssumption` of the decoder): `EncoderExclusive`, `EncoderNotDangling`, `EncoderOwnEntries`, `EncoderIdleClean`,
`EncoderTypes`; `DecoderExclusive`, `DecoderNotDangling`, `DecoderOwnEntries`, `DecoderNoInputKept`,
`DecoderReportsOwnBytes`, `DecoderTypes`.

`Shape` describes the stacks that calls build: a call lies directly below its hook (XSUB) or above
it (custom op), only a perl scope comes between a call and what runs in it, a clone has one hook.  `Owned` ties the structs to the
stack: a clone is alive exactly as long as its hook is pending.  The two halves differ in what DIRTY means, and with it in
the argument for `ExclusiveUse`:

* in the encoder DIRTY is set exactly while a hook is pending, so a struct that is free for the next call
  has no hook at all, and one hook per struct is enough;
* the decoder clears its struct before the call returns, so the object's own struct may have
  several hooks of earlier custom ops pending while it is used again.  The invariant says that
  such a hook never lies above the call that uses the struct (except the call's own), hence
  none of them runs before the call ends.  DIRTY may also stay on without a hook after a
  refused document, which is why `Owned` demands a hook for a loaded buffer only.

`DESTROY` splits the inductive invariant in two.  As long as the object was not released
early, `Sound` holds of the structs as they are (`ReleaseSound`: releasing an object
whose struct no call and no hook will use keeps it).  After an early release it holds of the structs as they were: there are structs for which
`Sound` holds and from which the present ones differ in the object's own only (`Robbed`).  That is
enough for every property to hold of the clones, and of the object's struct what the property says of it
(`FittingStructs`).

`DecoderReportsOwnBytes` needs the history of `bytes_consumed`: the last call made finds in
it either 0 or its own length (`Reads`), calls being numbered in stack order.

### PTableProofs

For every set of keys and values, hash function and initial size (`HashAssumption`,
`SizeAssumption`, `NullAssumption`): `EntriesPlaced`, `IteratorComplete` and the
refinement `Refinement`, `Spec => ImplementsMap`.  `IterInv` strengthens `IteratesAll`: the keys
read so far are those of the entries that are neither left in the current chain nor in a later
bucket, and an iterator whose chain is used up stands behind the last bucket.  Growth rests on
`ModDoubled` (in a table twice as large an entry stays in its bucket or moves up by the old
size) and `GrowSpec`; `StoreSpec`, `DeleteSpec`, `ClearSpec` say what the operations do to the set of
entries and `StepRefines` takes them to the steps of `PointerMap`, one by one.  `NoIter` (no
returns are counted while no iterator is open) and `EndSpec` (an iterator is at its end exactly
when no key is left) carry the iteration half of the refinement.

### MergerProofs

For every set of strings, hash function, arena size, initial table size, limits, options and
sequence of calls on documents, good or broken (`ShortAssumption`, `HashAssumption`,
`OptionsAssumption`, `BoundAssumption`, `DocsAssumption`, `ListsAssumption`,
`ArenaAssumption`, `SizeAssumption`): `MergerTables`, `Spec => []TablesSound`, and the action
property `MergerKeepsCommitted`, `Spec => CommittedKept`.  Both spare the states after a purge
that left its arenas, which the run `merger_purge` shows to exist.

The tables are only right again when a call has cleaned up after the failed one before it, so
`TablesSound` is not inductive.  `TableInv` says for both tables that they are `Sound` (counted, linked
where a lookup finds them, slots filled in order of their offsets), that an entry names a string of the
output or a place behind its end (`NamesIn`), and that from the clean-up to the end
of the call no entry points behind the output (`Tidy => UpTo`).  `Backward` is needed for the offsets
a merge translates.

What the operations do is stated once: `GrowSpec` and `InsertSpec` for
`STRTABLE_insert`, `PurgeSpec` for `STRTABLE_purge`: unless it leaves the arenas, it removes exactly the
entries from the given offset on.  The purge is a loop that walks back over slots and
arenas.  `LoopInv` says which slots remain at each turn; that it holds at every turn is shown without
an induction principle, by the least turn at which it fails (`NatLemmas`).  The actions of the merge then only have to show that
the output is `Grown` (`GrownNames`) or cut back to the last good document (`CutNames`).

### RoundTripProofs

`TrackedSvsAlive`, `RTSpec /\ []KeysNew => []TrackedAlive`: for every data structure and all
options covered by the assumptions of `SrlEncoder`, every recursion limit, every choice of long
strings and every number of tokens missing at the end (`CutsAssumption`, `LongAssumption`), an SV in the
decoder's `ref_seenhash` has an owner until the document has been read.  The hypothesis says that
no hash of the document has a key twice; it is a conjunct of `NoReject`, which the run
checks.  It is needed: on a repeated key whose first value is undef, `srl_read_hash` reads into an SV that may be
tracked already, and an ALIAS there would release it.

`TrackedAlive` is not inductive.  WEAKEN gives up a reference to an SV that may be tracked or only
pointed at by others, and ALIAS releases an SV.  The invariant `Reading` consists of

* `Kept`: what is tracked *and what anything points at, weak references included,* is owned.
  `Owned` says so by an owner, `OwnersCounted` and `OwnersOne` relate it to the number
  `srl_read_weaken` tests.  Whoever has just the reference being weakened as owner has a count of one, and
  goes to `weakref_av` (`WeakenKeeps`);
* `Ready`: the SV a value is read into is blank and owned, and if it is a slot of a container,
  then it is neither tracked nor held elsewhere.  So the SV that ALIAS releases is known to
  nobody else (`AliasKeeps`).  This fails for a value behind PAD if the PAD is tracked;
* `Stack`, `CopyOK`: only the top of the C stack is a value to be read, the tasks below find their
  SVs, and at most one COPY is pending.

For the second point the encoder has to be looked at again.  `DocInv` adds to its
invariant that only `srl_fixup_weakrefs` writes PAD, without the track flag, and that COPY never
has offset 0.  Each decoder action is a lemma (`ScalarStep` to `AliasStep`); most of them fill a
blank SV and are instances of `Fills`, for which `KeptFills` shows once that owners stay owners.

### Only model-checked

* Liveness (`RoundTripEnds`, `CallsEnd`, `SplittingEnds`): out of the prover's reach.
* `RoundTripIso`, `MergedIsConcatenation`, `SplitIsConcatenation`, `PositionSound`,
  `InfoSound`, `QueryAnswered`: they compare with what recursive definitions compute, and
  would need induction over data.  So would `NoReject` (with `KeysNew`), `ConsumesDocument` and
  `TruncationDetected`, since they say that the decoder follows the encoder's recursion, and
  `AcceptsValid`, which is about documents that are good as a whole.
* `ChunkSizesHonoured`: `Splitter` reaches the RECURSIVE operators of `SrlTrees`, as
  `SrlIterator` and `SrlPath` do; the prover has no arithmetic in such modules.
* `PacketsRead`, `TruncatedRefused`: they rest on what the varint functions compute for every number.

## 5. Not modelled

* In the encoder and decoder: FREEZE/THAW replacement data inside bodies, regular
  expressions, tied and magical containers, number formats, `use_undef`, `alias_smallint`,
  marking values read-only, `no_bless_objects` and the size limits of the decoder.  They are
  conversions of single values or configuration tests; what they do to the control is in the
  lifecycle modules.
* In Path, perl's reference count of an Iterator object that a path was set to.
* In the Merger: append after finish, compression of the result, its user header, inputs
  that are compressed (`Packet` has that code).  In the Splitter: compression of chunks and the
  header template.  In the varint readers: the 32-bit reader and `srl_skip_varint`, which
  accepts one byte more than the readers.
* `Path::Tie`: tie magic around calls that `SrlIterator` has.
* The ports to other languages: separate implementations of the same format, with the tests
  of the Perl one as their reference.
* Third-party and generated code: of the 76,556 lines that count as implementation about
  50,000 are `ppport.h`, miniz, zstd, csnappy and uthash, which the Perl code only calls, and
  most of the rest are the ports.  Of the 11,500 lines of the Perl implementation's
  own C and XS files named here the map covers 6,500; the others are mostly option parsing, debugging output,
  perl glue and declarations.

## 6. Plan

1. That no hash of a document has a key twice (`KeysNew`), the hypothesis of `TrackedSvsAlive`:
   needs the position of each member in the document, from the encoder's walk to the decoder's.
2. FREEZE/THAW data in `SrlEncoder` and `SrlDecoder`; the Java token encoder's call protocol.
