------------------------------- MODULE Varint -------------------------------
(***************************************************************************)
(* Variable length integers: written by Perl/Encoder/srl_buffer.h and       *)
(* srl_compress.h, read by Perl/shared/srl_reader_varint.h.  A byte has      *)
(* ByteBits bits of payload (7) and a continuation bit, a UV WordBits (64).  *)
(***************************************************************************)
EXTENDS Integers, Sequences, FiniteSetsExt

CONSTANTS ByteBits, WordBits
\* Both readers then give up after the same number of bytes.
ASSUME WidthAssumption == ByteBits > 0 /\ WordBits % ByteBits # 0

High == 2 ^ ByteBits
Byte == 0 .. 2 * High - 1
\* Bytes of the longest varint (10), and what is reserved for one (11).
Unrolled == WordBits \div ByteBits + 1
SRL_MAX_VARINT_LENGTH == Unrolled + 1

srl_buf_cat_varint_raw[v \in Nat] ==
  IF v < High THEN <<v>> ELSE <<(v % High) + High>> \o srl_buf_cat_varint_raw[v \div High]

\* Mutant: the reserved bytes behind a shorter varint are left as they are.
CanonicalOnly(width, v) == srl_buf_cat_varint_raw[v]

\* What is written over a varint of width bytes: empty groups fill it up.  A
\* value that needs more bytes runs over its end.
srl_update_varint_from_to(width, v) ==
  LET c == srl_buf_cat_varint_raw[v]
      total == Max({width, Len(c) + 1})
  IN  IF Len(c) = width THEN c
      ELSE [i \in 1 .. total |-> CASE i < Len(c) -> c[i]
                                   [] i = Len(c) -> c[i] + High
                                   [] i = total -> 0
                                   [] OTHER -> High]

\* Negative numbers and others take turns.
srl_zigzag_iv(v) == IF v >= 0 THEN 2 * v ELSE -2 * v - 1
srl_read_zigzag_iv(n) == IF n % 2 = 0 THEN n \div 2 ELSE -((n + 1) \div 2)

-----------------------------------------------------------------------------
(***************************************************************************)
(* A reader: bytes, the index pos of the next one, and what may lie in      *)
(* memory behind them.                                                      *)
(***************************************************************************)
End(r) == Len(r.bytes) + 1
At(r, i) == IF i < End(r) THEN r.bytes[i] ELSE r.beyond[((i - End(r)) % Len(r.beyond)) + 1]

\* How many continuation bytes stand before the last byte, if that comes in time.
Length(r) == {n \in 0 .. Unrolled - 1 : /\ At(r, r.pos + n) < High
                                        /\ \A i \in 0 .. n - 1 : At(r, r.pos + i) >= High}

\* Bits that are shifted out of the word are lost.
Result(r, n) ==
  [ok |-> TRUE, pos |-> r.pos + n + 1, inside |-> r.pos + n < End(r),
   uv |-> MapThenSumSet(LAMBDA i : (At(r, r.pos + i) % High) * 2 ^ (ByteBits * i), 0 .. n)
            % 2 ^ WordBits]
Failed(inside) == [ok |-> FALSE, pos |-> 0, inside |-> inside, uv |-> 0]

srl_read_varint_u64_nocheck(r) ==
  IF Length(r) = {} THEN Failed(r.pos + Unrolled <= End(r)) ELSE Result(r, Max(Length(r)))

srl_read_varint_uv_safe(r) ==
  LET before == {n \in Length(r) : r.pos + n < End(r)}
  IN  IF before = {} THEN Failed(TRUE) ELSE Result(r, Max(before))

srl_read_varint_uv(r) ==
  IF End(r) - r.pos >= SRL_MAX_VARINT_LENGTH \/ r.bytes[Len(r.bytes)] < High
  THEN srl_read_varint_u64_nocheck(r) ELSE srl_read_varint_uv_safe(r)

\* Mutant: lengths are taken on trust.
SpaceTrusted(r, len) == TRUE

\* SRL_RDR_ASSERT_SPACE, with the length as a signed number.
SRL_RDR_ASSERT_SPACE(r, len) == len < 2 ^ (WordBits - 1) /\ End(r) - r.pos >= len

\* A length that must fit into what is left.
srl_read_varint_uv_length(r) ==
  LET v == srl_read_varint_uv(r)
  IN  IF v.ok /\ ~SRL_RDR_ASSERT_SPACE([r EXCEPT !.pos = v.pos], v.uv) THEN Failed(v.inside) ELSE v
=============================================================================
