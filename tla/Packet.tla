------------------------------- MODULE Packet -------------------------------
(***************************************************************************)
(* A document from header to last byte: written and perhaps compressed by   *)
(* srl_dump_data_structure, cut short or followed by other data on its way,  *)
(* and read by srl_decode_into_internal.  The body is one number or string   *)
(* (RoundTrip has the structures); magic string, version and encoding are    *)
(* one element of the buffer, every other element is a byte.                 *)
(***************************************************************************)
EXTENDS Varint

CONSTANTS Jobs,       \* what is encoded, how, and what becomes of the packet
          Slack,      \* how much longer than its input a compressor's output may be
          Small       \* numbers from -Small to Small - 1 have tags of their own
ASSUME PacketAssumption == Slack \in Nat /\ Small \in Nat \ {0} /\ 4 + 2 * Small <= High

VARIABLES job, stage,
          buf,        \* the encoder's buffer, then the packet
          enc_base,   \* how far behind body_pos the body starts, for the encoder ...
          dec_base,   \* ... and for the decoder
          header,     \* sereal_header_len
          rdr,        \* the decoder's buffer
          bytes_consumed, got,
          inside      \* history: no reader has looked behind its bytes
vars == <<job, stage, buf, enc_base, dec_base, header, rdr, bytes_consumed, got, inside>>
encoder == <<buf, enc_base, header>>
decoder == <<dec_base, rdr, bytes_consumed, got, inside>>

Number(v) == [kind |-> "number", v |-> v]
String(n) == [kind |-> "string", v |-> n]
Fill(n, last) == [i \in 1 .. n |-> IF i = n THEN last ELSE 0]

VARINT == 0
ZIGZAG == 1
BINARY == 2
POS(v) == 4 + v
NEG(v) == 4 + 2 * Small + v

Init ==
  /\ job \in Jobs
  /\ stage = "header"
  /\ buf = <<>> /\ enc_base = 0 /\ dec_base = 0 /\ header = 0
  /\ rdr = [bytes |-> <<>>, pos |-> 1, beyond |-> job.beyond]
  /\ bytes_consumed = 0 /\ got = Number(0) /\ inside = TRUE

-----------------------------------------------------------------------------
(* The encoder *)

\* body_pos is the start of the packet in version 1, else the byte before the body.
BodyBase(ofs) == IF job.version = 1 THEN ofs ELSE 1

UserHeader == srl_buf_cat_varint_raw[job.header + 1] \o <<1>> \o Fill(job.header, job.last)

srl_write_header ==
  LET start == <<[version |-> job.version, encoding |-> job.encoding]>>
  IN  /\ stage = "header"
      /\ IF job.header > 0 /\ job.version < 2
         THEN stage' = "croak" /\ UNCHANGED encoder
         ELSE /\ buf' = start \o (IF job.header = 0 THEN <<0>> ELSE UserHeader)
              /\ header' = Len(buf')
              /\ enc_base' = BodyBase(header')
              /\ stage' = "body"
      /\ UNCHANGED <<job, decoder>>

\* srl_dump_ivuv and srl_dump_pv
Dumped(d) ==
  CASE d.kind = "string" -> <<BINARY>> \o srl_buf_cat_varint_raw[d.v] \o Fill(d.v, job.last)
    [] d.kind = "number" /\ d.v \in 0 .. Small - 1 -> <<POS(d.v)>>
    [] d.kind = "number" /\ d.v >= Small -> <<VARINT>> \o srl_buf_cat_varint_raw[d.v]
    [] d.kind = "number" /\ d.v \in -Small .. -1 -> <<NEG(d.v)>>
    [] OTHER -> <<ZIGZAG>> \o srl_buf_cat_varint_raw[srl_zigzag_iv(d.v)]

\* A body below the threshold is not compressed.
DumpBody ==
  LET body == Dumped(job.data)
      small == Len(body) < job.threshold
  IN  /\ stage = "body"
      /\ buf' = (IF small THEN [buf EXCEPT ![1].encoding = "raw"] ELSE buf) \o body
      /\ stage' = IF job.encoding = "raw" \/ small THEN "send" ELSE "compress"
      /\ UNCHANGED <<job, enc_base, header, decoder>>

\* External: a compressor makes job.packed bytes of the body.
Packed == Fill(job.packed, job.last)

\* The room reserved for the compressed body and its lengths.
Estimate(plain) ==
  plain + Slack + SRL_MAX_VARINT_LENGTH
    * (CASE job.encoding = "snappy" -> 0 [] job.encoding = "zlib" -> 2 [] OTHER -> 1)

\* The length of the compressed body, written over the bytes its estimate took.
PackedLength(plain) ==
  LET estimate == srl_buf_cat_varint_raw[Estimate(plain)]
      length == srl_update_varint_from_to(Len(estimate), job.packed)
  IN  length \o SubSeq(estimate, Len(length) + 1, Len(estimate))

\* The compressed body replaces the plain one only if it is shorter.  (body_pos
\* is set again, but nothing is written relative to it any more.)
srl_compress_body ==
  LET plain == Len(buf) - header
      lengths == CASE job.encoding = "snappy" -> <<>>
                   [] job.encoding = "zlib" -> srl_buf_cat_varint_raw[plain] \o PackedLength(plain)
                   [] OTHER -> PackedLength(plain)
  IN  /\ stage = "compress"
      /\ IF job.packed >= plain
         THEN buf' = [buf EXCEPT ![1].encoding = "raw"]
         ELSE buf' = SubSeq(buf, 1, header) \o lengths \o Packed
      /\ stage' = "send"
      /\ UNCHANGED <<job, enc_base, header, decoder>>

\* External: the packet loses its last job.cut bytes, or other data follow it.
Send ==
  /\ stage = "send" /\ job.cut < Len(buf)
  /\ rdr' = [rdr EXCEPT !.bytes = SubSeq(buf, 1, Len(buf) - job.cut) \o job.follow]
  /\ stage' = "read_header"
  /\ UNCHANGED <<job, encoder, dec_base, bytes_consumed, got, inside>>

-----------------------------------------------------------------------------
(* The decoder *)

Refuse(saw) == /\ stage' = "error" /\ inside' = (inside /\ saw)
               /\ UNCHANGED <<rdr, dec_base, bytes_consumed, got>>

\* srl_validate_header_version wants a byte of header length and one of body.
ValidHeader == Len(rdr.bytes) >= 3

\* The user header is read, or skipped when nobody asked for it.
srl_read_header ==
  LET len == srl_read_varint_uv_length([rdr EXCEPT !.pos = 2])
      user == job.version > 1 /\ len.uv > 0
      at == [rdr EXCEPT !.pos = len.pos]
      behind == [at EXCEPT !.pos = @ + 1]
      fits == user => /\ SRL_RDR_ASSERT_SPACE(at, 1)
                      /\ SRL_RDR_ASSERT_SPACE(behind, IF job.wanted THEN len.uv - 1 ELSE len.uv)
  IN  /\ stage = "read_header"
      /\ IF ~ValidHeader \/ rdr.bytes[1].encoding \in job.refused THEN Refuse(TRUE)
         ELSE IF ~len.ok \/ ~fits THEN Refuse(len.inside)
         ELSE /\ rdr' = [rdr EXCEPT !.pos = len.pos + len.uv]
              /\ inside' = (inside /\ len.inside)
              /\ stage' = IF rdr.bytes[1].encoding = "raw" THEN "read_body" ELSE "decompress"
              /\ dec_base' = BodyBase(len.pos + len.uv - 1)
              /\ UNCHANGED <<bytes_consumed, got>>
      /\ UNCHANGED <<job, encoder>>

\* External: a decompressor gives the body back, given all that was made of it.
Unpacks(r, len) == len = job.packed /\ \A i \in 1 .. len : At(r, r.pos + i - 1) = Packed[i]

\* The body goes behind as many bytes as the header has, in a buffer of its own.
srl_realloc_empty_buffer(header_len, body) ==
  [rdr EXCEPT !.bytes = Fill(header_len, 0) \o body, !.pos = header_len + 1]

\* srl_decompress_body_snappy, _zlib and _zstd
srl_decompress_body ==
  LET encoding == rdr.bytes[1].encoding
      body == Dumped(job.data)
      plain == srl_read_varint_uv(rdr)
      behind == IF encoding = "zlib" THEN [rdr EXCEPT !.pos = plain.pos] ELSE rdr
      rest == [ok |-> TRUE, pos |-> rdr.pos, inside |-> TRUE, uv |-> End(rdr) - rdr.pos]
      len == IF encoding = "snappy" THEN rest ELSE srl_read_varint_uv_length(behind)
      at == [rdr EXCEPT !.pos = len.pos]
      saw == (encoding = "zlib" => plain.inside) /\ len.inside
  IN  /\ stage = "decompress"
      /\ IF encoding = "zlib" /\ ~plain.ok THEN Refuse(plain.inside)
         ELSE IF \/ ~len.ok \/ ~Unpacks(at, len.uv)
                 \/ encoding = "zlib" /\ plain.uv < Len(body)
                 \/ job.max > 0 /\ Len(body) > job.max
              THEN Refuse(saw)
         ELSE /\ rdr' = srl_realloc_empty_buffer(rdr.pos - 1, body)
              /\ dec_base' = BodyBase(rdr.pos - 1)
              /\ bytes_consumed' = len.uv + len.pos - 1
              /\ inside' = (inside /\ saw)
              /\ stage' = "read_body"
              /\ UNCHANGED got
      /\ UNCHANGED <<job, encoder>>

\* What a body starting with this tag is read as: srl_read_varint_into,
\* srl_read_zigzag_into, srl_read_string, and the small numbers.
Value(r, tag) ==
  LET v == srl_read_varint_uv(r)
      len == srl_read_varint_uv_length(r)
      As(d, res) == [data |-> d, ok |-> res.ok, pos |-> res.pos, inside |-> res.inside]
      here == [ok |-> TRUE, pos |-> r.pos, inside |-> TRUE]
  IN  CASE tag = VARINT -> As(Number(v.uv), v)
        [] tag = ZIGZAG -> As(Number(srl_read_zigzag_iv(v.uv)), v)
        [] tag = BINARY -> As(String(len.uv), [len EXCEPT !.pos = @ + len.uv])
        [] tag \in 4 .. 3 + Small -> As(Number(tag - 4), here)
        [] OTHER -> As(Number(tag - 4 - 2 * Small), here)

\* Nothing was consumed by a decompressor: the position counts.
srl_read_single_value ==
  LET v == Value([rdr EXCEPT !.pos = @ + 1], rdr.bytes[rdr.pos])
  IN  /\ stage = "read_body"
      /\ IF rdr.pos >= End(rdr) THEN Refuse(TRUE)
         ELSE IF ~v.ok THEN Refuse(v.inside)
         ELSE /\ got' = v.data /\ stage' = "done"
              /\ rdr' = [rdr EXCEPT !.pos = v.pos]
              /\ bytes_consumed' = IF bytes_consumed = 0 THEN v.pos - 1 ELSE bytes_consumed
              /\ inside' = (inside /\ v.inside)
              /\ UNCHANGED dec_base
      /\ UNCHANGED <<job, encoder>>

Next == srl_write_header \/ DumpBody \/ srl_compress_body \/ Send
        \/ srl_read_header \/ srl_decompress_body \/ srl_read_single_value
Spec == Init /\ [][Next]_vars

-----------------------------------------------------------------------------
(* Properties *)

Whole == job.cut = 0 /\ stage \in {"read_body", "done", "error"}
Allowed == job.refused = {} /\ job.max = 0

\* A whole packet, whatever follows it, however its lengths are padded and
\* whichever of the varint readers its last byte selects, is read as the value
\* that was written; bytes_consumed ends where it ends; offsets mean to the
\* decoder, also in a decompressed buffer, what they meant to the encoder; and
\* no reader looks behind its buffer.
PacketsRead ==
  /\ Whole => inside
  /\ Whole /\ Allowed => stage # "error"
  /\ stage = "done" /\ job.cut = 0 =>
        got = job.data /\ bytes_consumed = Len(buf) /\ dec_base = enc_base

\* A packet that lost its end, wherever, is refused.
TruncatedRefused == job.cut > 0 => stage # "done"
=============================================================================
