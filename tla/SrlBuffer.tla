------------------------------ MODULE SrlBuffer ------------------------------
(***************************************************************************)
(* The encoder's growable output buffer (Perl/Encoder/srl_buffer.h) under  *)
(* the call sequence srl_dump_data_structure drives it through: fixed      *)
(* header, optional user header written through a second buffer, body,     *)
(* optional compression into a fresh buffer, and the destructor hook that  *)
(* clears the encoder after success and after an exception alike.          *)
(*                                                                         *)
(* A buffer is the record of its pointers as offsets from buf->start:      *)
(*   alloc  bytes really allocated (0: start is NULL)                      *)
(*   pos    write position,  end  end pointer,  body  body_pos.            *)
(* Bytes are not represented; what counts is where they land.              *)
(***************************************************************************)
EXTENDS Integers

CONSTANTS InitSize,    \* INITIALIZATION_SIZE
          MaxVarint,   \* SRL_MAX_VARINT_LENGTH
          MagicLen,    \* length of SRL_MAGIC_STRING without its NUL
          Versions,    \* protocol versions the encoder may be built with
          Lens,        \* lengths of strings and element counts in one call
          Slack,       \* worst case growth a compressor may report
          MaxPos       \* bound: no body write starts at or after this offset

ASSUME SizesAssumption == /\ InitSize \in Nat /\ InitSize >= 1
                          /\ MaxVarint \in Nat /\ MaxVarint >= 2
                          /\ MagicLen \in Nat /\ MagicLen >= 1
                          /\ Slack \in Nat /\ MaxPos \in Nat
ASSUME LensAssumption == Lens \subseteq Nat
ASSUME VersionsAssumption == Versions \subseteq Nat \ {0}

VARIABLES buf,    \* enc->buf
          tmp,    \* enc->tmp_buf
          ver,    \* enc->protocol_version
          phase,  \* where srl_dump_data_structure stands
          spare   \* room the last step left between the furthest byte it wrote, or
                  \* asserted space for, and the end of the buffer it wrote to

vars == <<buf, tmp, ver, phase, spare>>

Buffer == [alloc : Nat, pos : Nat, end : Nat, body : Int]
Phases == {"idle", "header", "user_header", "body", "finished"}
VarintLens == 1 .. MaxVarint - 1     \* a 64 bit varint never needs the last byte
NullBuffer == [alloc |-> 0, pos |-> 0, end |-> 0, body |-> 0]

MaxOf(a, b) == IF a > b THEN a ELSE b

-----------------------------------------------------------------------------
(* srl_buffer.h *)

srl_buf_init_buffer(size) ==
  [alloc |-> size, pos |-> 0, end |-> size - 1, body |-> 0]

OVERALLOC_FUNC(cur, req) == cur + (req \div 4)

\* Mutants: reallocates less than it records; loses the body offset.
GrowTooLittle(b, minlen) == [b EXCEPT !.alloc = minlen,
                                      !.end = MaxOf(minlen, OVERALLOC_FUNC(b.end, minlen))]
GrowLosesBody(b, minlen) ==
  LET size == MaxOf(minlen, OVERALLOC_FUNC(b.end, minlen))
  IN  [b EXCEPT !.alloc = size, !.end = size, !.body = 0]

\* Renew never shrinks; pos and body_pos keep their offsets.
srl_buf_grow_nocheck(b, minlen) ==
  LET size == MaxOf(minlen, OVERALLOC_FUNC(b.end, minlen))
  IN  [b EXCEPT !.alloc = size, !.end = size]

BODY_POS_OFS(b) == b.pos - b.body

BUF_NEED_GROW(b, minlen) == b.end - b.pos <= minlen

BUF_SIZE_ASSERT(b, minlen) ==
  IF BUF_NEED_GROW(b, minlen) THEN srl_buf_grow_nocheck(b, b.end + minlen) ELSE b

\* Mutant: offsets start at 0.
BodyPosAtPos(b) == [b EXCEPT !.body = IF ver = 1 THEN 0 ELSE b.pos]

SRL_UPDATE_BODY_POS(b) ==
  [b EXCEPT !.body = IF ver = 1 THEN 0 ELSE b.pos - 1]

Advance(b, n) == [b EXCEPT !.pos = @ + n]

-----------------------------------------------------------------------------
(* Setting up one document *)

Init == /\ buf = srl_buf_init_buffer(InitSize)
        /\ tmp = NullBuffer
        /\ ver \in Versions
        /\ phase = "idle"
        /\ spare = 0

\* srl_prepare_encoder: the encoder is taken into use.
Prepare == /\ phase = "idle"
           /\ phase' = "header"
           /\ spare' = 0
           /\ UNCHANGED <<buf, tmp, ver>>

\* Magic, version byte and, when there is no user header, a zero length byte.
HeaderRoom(b) == BUF_SIZE_ASSERT(b, MagicLen + 3)

WriteHeader ==
  /\ phase = "header"
  /\ LET b == Advance(HeaderRoom(buf), MagicLen + 2)
     IN  buf' = SRL_UPDATE_BODY_POS(b) /\ spare' = b.end - b.pos
  /\ phase' = "body"
  /\ UNCHANGED <<tmp, ver>>

\* The user header is dumped into tmp_buf, swapped in as the current buffer.
WriteUserHeaderBegin ==
  /\ phase = "header" /\ ver >= 2
  /\ LET b == Advance(HeaderRoom(buf), MagicLen + 1)
         t == IF tmp.alloc = 0 THEN srl_buf_init_buffer(InitSize) ELSE tmp
     IN  buf' = SRL_UPDATE_BODY_POS(t) /\ tmp' = b /\ spare' = b.end - b.pos
  /\ phase' = "user_header"
  /\ UNCHANGED ver

\* Swap back, write length, bit field and the copied user header.
WriteUserHeaderEnd ==
  /\ phase = "user_header" /\ buf.pos >= 1
  /\ \E k \in VarintLens :
       LET len == buf.pos
           b == BUF_SIZE_ASSERT(tmp, len + 1 + MaxVarint)
           w == Advance(b, k + 1 + len)
       IN  buf' = SRL_UPDATE_BODY_POS(w) /\ spare' = b.end - MaxOf(b.pos + MaxVarint, w.pos)
  /\ tmp' = [buf EXCEPT !.pos = 0]
  /\ phase' = "body"
  /\ UNCHANGED ver

-----------------------------------------------------------------------------
(* Writing items, in the user header or in the body *)

\* Offset of the first byte of the body being written.
HeaderLength == IF ver = 1 THEN MagicLen + 2 ELSE buf.body + 1

Dumping == phase \in {"user_header", "body"} /\ buf.pos < MaxPos

srl_buf_cat_char ==
  /\ Dumping
  /\ buf' = Advance(BUF_SIZE_ASSERT(buf, 1), 1)
  /\ spare' = buf'.end - (buf.pos + 1)
  /\ UNCHANGED <<tmp, ver, phase>>

\* A varint writer asserts room for the longest varint whatever it writes.
srl_buf_cat_varint(b, k) == Advance(BUF_SIZE_ASSERT(b, MaxVarint + 1), 1 + k)

CatVarint ==
  /\ Dumping
  /\ \E k \in VarintLens : buf' = srl_buf_cat_varint(buf, k)
  /\ spare' = buf'.end - (buf.pos + 1 + MaxVarint)
  /\ UNCHANGED <<tmp, ver, phase>>

\* One space check up front, then a tag (short string) or tag and varint,
\* then the bytes, all unchecked.
srl_dump_pv ==
  /\ Dumping
  /\ \E len \in Lens, k \in {0} \cup VarintLens :
       /\ buf' = Advance(BUF_SIZE_ASSERT(buf, 1 + MaxVarint + len), 1 + k + len)
       /\ spare' = buf'.end - MaxOf(buf'.pos, IF k = 0 THEN 0 ELSE buf.pos + 1 + MaxVarint)
  /\ UNCHANGED <<tmp, ver, phase>>

\* ARRAY/HASH head. ARRAYREF_n/HASHREF_n overwrites the REFN just written.
srl_dump_av ==
  /\ Dumping
  /\ \E n \in Lens, bytes \in {1, 2} :
       LET b == BUF_SIZE_ASSERT(buf, 2 + MaxVarint + bytes * n)
       IN  \/ /\ buf.pos > HeaderLength
              /\ buf' = Advance(Advance(b, -1), 1)
              /\ spare' = b.end - buf.pos
           \/ /\ \E k \in VarintLens : buf' = Advance(b, 1 + k)
              /\ spare' = b.end - (buf.pos + 1 + MaxVarint)
  /\ UNCHANGED <<tmp, ver, phase>>

\* An item seen before: back to ref_rewrite_pos, REFP over what was there.
RewriteAsRefp ==
  /\ Dumping
  /\ \E p \in HeaderLength .. buf.pos, k \in VarintLens :
       LET b == [buf EXCEPT !.pos = p]
       IN  buf' = srl_buf_cat_varint(b, k) /\ spare' = buf'.end - (b.pos + 1 + MaxVarint)
  /\ UNCHANGED <<tmp, ver, phase>>

-----------------------------------------------------------------------------
(* Finishing the document *)

FinishRaw == /\ phase = "body" /\ buf.pos > HeaderLength
             /\ phase' = "finished"
             /\ spare' = 0
             /\ UNCHANGED <<buf, tmp, ver>>

Kinds == {"snappy", "incremental", "zstd", "zlib"}

\* Length varints embedded before the compressed bytes: zlib stores the
\* uncompressed length first, all but plain snappy the compressed length.
PlainLenVarint(kind) == IF kind = "zlib" THEN VarintLens ELSE {0}
PackedLenVarint(kind) == IF kind = "snappy" THEN {0} ELSE VarintLens
\* Mutant: zlib's second varint is forgotten.
VarintRoomOne(kind) == IF kind = "snappy" THEN 0 ELSE MaxVarint

VarintRoom(kind) == CASE kind = "snappy" -> 0
                      [] kind = "zlib"   -> 2 * MaxVarint
                      [] OTHER           -> MaxVarint

\* A fresh buffer of the size the compressor may need; the old one is swapped
\* back in when compression does not help.  n is the compressed length.
srl_compress_body ==
  /\ phase = "body" /\ buf.pos > HeaderLength
  /\ \E kind \in Kinds : \E j \in PlainLenVarint(kind), k \in PackedLenVarint(kind) :
       LET hdr == HeaderLength
           body == buf.pos - hdr
           new == srl_buf_init_buffer(hdr + body + Slack + VarintRoom(kind) + 1)
       IN  \E n \in 1 .. body + Slack :
             /\ spare' = new.end - MaxOf(hdr + j + k + n,
                                         IF kind = "snappy" THEN 0 ELSE hdr + j + MaxVarint)
             /\ buf' = SRL_UPDATE_BODY_POS(IF n >= body THEN buf
                                           ELSE Advance(new, hdr + j + k + n))
  /\ phase' = "finished"
  /\ UNCHANGED <<tmp, ver>>

\* Mutant: tmp_buf keeps what an exception left.
ClearKeepsTmp ==
  /\ phase # "idle"
  /\ buf' = [buf EXCEPT !.pos = 0, !.body = 0]
  /\ phase' = "idle"
  /\ spare' = 0
  /\ UNCHANGED <<tmp, ver>>

\* srl_destructor_hook on a reusable encoder, after a result was copied out
\* or after any croak: srl_clear_encoder.
srl_clear_encoder ==
  /\ phase # "idle"
  /\ buf' = [buf EXCEPT !.pos = 0, !.body = 0]
  /\ tmp' = [tmp EXCEPT !.pos = 0]
  /\ phase' = "idle"
  /\ spare' = 0
  /\ UNCHANGED ver

Next == \/ Prepare \/ WriteHeader \/ WriteUserHeaderBegin \/ WriteUserHeaderEnd
        \/ srl_buf_cat_char \/ CatVarint \/ srl_dump_pv \/ srl_dump_av
        \/ RewriteAsRefp \/ FinishRaw \/ srl_compress_body \/ srl_clear_encoder

Spec == Init /\ [][Next]_vars
-----------------------------------------------------------------------------
(* Properties *)

\* Type invariant of srl_buffer_t: pos and end never lie before start.
TypeOK == /\ buf \in Buffer /\ tmp \in Buffer
          /\ ver \in Versions /\ phase \in Phases /\ spare \in Int

SaneBuffer(b) == b.pos <= b.end /\ b.end <= b.alloc /\ b.body >= -1

\* DEBUG_ASSERT_BUF_SANE for both buffers, across every growth, swap, rewind
\* and compression: pos never passes end and end never passes the allocation
\* (the end pointer is one byte short after srl_buf_init_buffer and exact
\* after srl_buf_grow_nocheck).
BuffersSane == SaneBuffer(buf) /\ SaneBuffer(tmp)

\* No unchecked writer (srl_buf_cat_*_nocheck, the Copy in srl_dump_pv, the
\* compressors) writes, or asserts DEBUG_ASSERT_BUF_SPACE, beyond the room the
\* preceding BUF_SIZE_ASSERT or allocation secured.
NocheckFits == spare >= 0

\* Offsets of items are what the encoder's pointer tables store and 0 there
\* means "not seen": while items are written, the offset of the next item is
\* never 0.
OffsetsPositive == phase \in {"user_header", "body"} => BODY_POS_OFS(buf) >= 1

\* The user header is dumped into an empty buffer: its length is taken from
\* BUF_POS_OFS, so bytes left over from an earlier document, or from one that
\* croaked between the two buffer swaps, would end up in the header.
TmpBufferEmpty == phase = "header" => tmp.pos = 0 /\ buf.pos = 0

\* Growing the buffer moves the memory but no offset: as long as one body is
\* written body_pos keeps its offset, so table entries stay meaningful.
BodyPosStable ==
  [][phase' = phase /\ phase \in {"user_header", "body"} => buf'.body = buf.body]_vars
=============================================================================
