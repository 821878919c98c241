-------------------------- MODULE SrlBufferProofs --------------------------
(* For every initial size, varint length, string length and compression    *)
(* slack: the buffer invariants of SrlBuffer hold in every reachable state. *)
EXTENDS SrlBuffer, TLAPS

Writing == phase \in {"user_header", "body"}

\* The inductive strengthening.  BuffersSane alone is not preserved: a rewind
\* needs to know that the body starts at or after offset 0 (and at 0 exactly
\* in protocol version 1), and a swap that the other buffer is empty.
IInv == /\ TypeOK
        /\ BuffersSane
        /\ NocheckFits
        /\ OffsetsPositive
        /\ (phase # "user_header" => tmp.pos = 0)
        /\ (phase \in {"idle", "header"} => buf.pos = 0)
        /\ (Writing /\ ver = 1 => buf.body = 0)

\* Allocating a virgin buffer yields a sane, empty one.
LEMMA InitBufferSane ==
  ASSUME NEW n \in Nat, n >= 1
  PROVE  LET b == srl_buf_init_buffer(n)
         IN  b \in Buffer /\ SaneBuffer(b) /\ b.pos = 0 /\ b.end = n - 1
  BY DEF srl_buf_init_buffer, Buffer, SaneBuffer

\* BUF_SIZE_ASSERT keeps pos and body_pos and leaves at least minlen bytes.
LEMMA SizeAssertSpec ==
  ASSUME NEW b \in Buffer, SaneBuffer(b), NEW m \in Nat
  PROVE  LET c == BUF_SIZE_ASSERT(b, m)
         IN  /\ c \in Buffer /\ SaneBuffer(c)
             /\ c.pos = b.pos /\ c.body = b.body
             /\ c.end - c.pos >= m
<1> DEFINE size == MaxOf(b.end + m, OVERALLOC_FUNC(b.end, b.end + m))
           g == [b EXCEPT !.alloc = size, !.end = size]
<1>1. (b.end + m) \div 4 \in Nat
  BY DEF Buffer
<1>2. size \in Nat /\ size >= b.end + m
  BY <1>1 DEF MaxOf, OVERALLOC_FUNC, Buffer
<1>3. CASE b.end - b.pos <= m
  <2>1. BUF_SIZE_ASSERT(b, m) = g
    BY <1>3 DEF BUF_SIZE_ASSERT, BUF_NEED_GROW, srl_buf_grow_nocheck
  <2>2. /\ g \in Buffer /\ g.end = size /\ g.alloc = size
        /\ g.pos = b.pos /\ g.body = b.body
    BY <1>2 DEF Buffer
  <2>3. g.pos <= g.end /\ g.end <= g.alloc /\ g.body >= -1 /\ g.end - g.pos >= m
    BY <1>2, <2>2 DEF Buffer, SaneBuffer
  <2> QED
    BY <2>1, <2>2, <2>3 DEF SaneBuffer
<1>4. CASE ~(b.end - b.pos <= m)
  BY <1>4 DEF BUF_SIZE_ASSERT, BUF_NEED_GROW, Buffer, SaneBuffer
<1> QED
  BY <1>3, <1>4

\* Advancing the write position inside the secured room stays sane.
LEMMA AdvanceSane ==
  ASSUME NEW b \in Buffer, SaneBuffer(b), NEW n \in Nat, n <= b.end - b.pos
  PROVE  LET c == Advance(b, n)
         IN  /\ c \in Buffer /\ SaneBuffer(c)
             /\ c.pos = b.pos + n /\ c.body = b.body /\ c.end = b.end
  BY DEF Advance, Buffer, SaneBuffer

\* Setting body_pos keeps everything else and makes the next offset positive.
LEMMA UpdateBodyPosSane ==
  ASSUME NEW b \in Buffer, SaneBuffer(b), ver \in Nat
  PROVE  LET c == SRL_UPDATE_BODY_POS(b)
         IN  /\ c \in Buffer /\ SaneBuffer(c)
             /\ c.pos = b.pos /\ c.end = b.end
             /\ ver = 1 => c.body = 0
             /\ ver # 1 => c.body = b.pos - 1
<1> DEFINE v == IF ver = 1 THEN 0 ELSE b.pos - 1
<1>1. v \in Int /\ v >= -1
  BY DEF Buffer
<1>2. SRL_UPDATE_BODY_POS(b) = [b EXCEPT !.body = v]
  BY DEF SRL_UPDATE_BODY_POS
<1> HIDE DEF v
<1>3. /\ [b EXCEPT !.body = v] \in Buffer
      /\ SaneBuffer([b EXCEPT !.body = v])
  BY <1>1 DEF Buffer, SaneBuffer
<1> QED
  BY <1>2, <1>3 DEF Buffer, v

\* A varint writer fits in the room it secured, however long the varint is.
LEMMA CatVarintSane ==
  ASSUME NEW b \in Buffer, SaneBuffer(b), NEW k \in VarintLens
  PROVE  LET c == srl_buf_cat_varint(b, k)
         IN  /\ c \in Buffer /\ SaneBuffer(c)
             /\ c.pos = b.pos + 1 + k /\ c.body = b.body
             /\ c.end - (b.pos + 1 + MaxVarint) \in Nat
<1> DEFINE r == BUF_SIZE_ASSERT(b, MaxVarint + 1)
<1>1. MaxVarint + 1 \in Nat /\ 1 + k \in Nat /\ 1 + k <= MaxVarint + 1
  BY SizesAssumption DEF VarintLens
<1>2. /\ r \in Buffer /\ SaneBuffer(r) /\ r.pos = b.pos /\ r.body = b.body
      /\ r.end - r.pos >= MaxVarint + 1
  BY <1>1, SizeAssertSpec
<1>3. 1 + k <= r.end - r.pos
  BY <1>1, <1>2 DEF Buffer
<1> HIDE DEF r
<1>4. LET c == Advance(r, 1 + k)
      IN  /\ c \in Buffer /\ SaneBuffer(c)
          /\ c.pos = r.pos + (1 + k) /\ c.body = r.body /\ c.end = r.end
  BY <1>1, <1>2, <1>3, AdvanceSane
<1>5. r.end - (b.pos + 1 + MaxVarint) \in Nat
  BY <1>1, <1>2, SizesAssumption DEF Buffer
<1>6. b.pos \in Nat /\ k \in Nat
  BY DEF Buffer, VarintLens
<1> QED
  BY <1>1, <1>2, <1>4, <1>5, <1>6 DEF srl_buf_cat_varint, r

\* A new encoder satisfies the strengthened invariant.
LEMMA InitIInv == Init => IInv
<1> SUFFICES ASSUME Init PROVE IInv
  OBVIOUS
<1>1. buf \in Buffer /\ SaneBuffer(buf) /\ buf.pos = 0
  BY InitBufferSane, SizesAssumption DEF Init
<1>2. tmp \in Buffer /\ SaneBuffer(tmp) /\ tmp.pos = 0
  BY DEF Init, NullBuffer, Buffer, SaneBuffer
<1> QED
  BY <1>1, <1>2 DEF Init, IInv, TypeOK, BuffersSane, NocheckFits,
     OffsetsPositive, Writing, Phases

\* Every step keeps the strengthened invariant: one case per action.
LEMMA NextIInv == IInv /\ [Next]_vars => IInv'
<1> SUFFICES ASSUME IInv, [Next]_vars PROVE IInv'
  OBVIOUS
<1> USE DEF IInv, TypeOK, BuffersSane, NocheckFits, OffsetsPositive, Writing, Phases
<1>0. /\ MaxVarint \in Nat /\ MaxVarint >= 2 /\ MagicLen \in Nat /\ MagicLen >= 1
      /\ ver \in Nat /\ ver >= 1 /\ Slack \in Nat
  BY SizesAssumption, VersionsAssumption
<1>1. CASE Prepare
  BY <1>1 DEF Prepare, BODY_POS_OFS
<1>2. CASE WriteHeader
  <2> DEFINE r == HeaderRoom(buf)
             b == Advance(r, MagicLen + 2)
             c == SRL_UPDATE_BODY_POS(b)
  <2>1. MagicLen + 3 \in Nat /\ MagicLen + 2 \in Nat
    BY <1>0
  <2>2. /\ r \in Buffer /\ SaneBuffer(r) /\ r.pos = buf.pos
        /\ r.end - r.pos >= MagicLen + 3
    BY <2>1, SizeAssertSpec DEF HeaderRoom
  <2>3. MagicLen + 2 <= r.end - r.pos
    BY <1>0, <2>2 DEF Buffer
  <2> HIDE DEF r
  <2>4. b \in Buffer /\ SaneBuffer(b) /\ b.pos = r.pos + (MagicLen + 2) /\ b.end = r.end
    BY <2>1, <2>2, <2>3, AdvanceSane
  <2> HIDE DEF b
  <2>5. /\ c \in Buffer /\ SaneBuffer(c) /\ c.pos = b.pos
        /\ ver = 1 => c.body = 0
        /\ ver # 1 => c.body = b.pos - 1
    BY <1>0, <2>4, UpdateBodyPosSane
  <2>6. buf' = c /\ spare' = b.end - b.pos
    BY <1>2 DEF WriteHeader, b, r
  <2> HIDE DEF c
  <2>7. c.pos - c.body >= 1
    BY <1>0, <2>2, <2>4, <2>5 DEF Buffer
  <2>8. spare' \in Int /\ spare' >= 0
    BY <2>4, <2>6 DEF Buffer, SaneBuffer
  <2> QED
    BY <1>2, <2>5, <2>6, <2>7, <2>8 DEF WriteHeader, BODY_POS_OFS
<1>3. CASE WriteUserHeaderBegin
  <2> DEFINE r == HeaderRoom(buf)
             b == Advance(r, MagicLen + 1)
             t == IF tmp.alloc = 0 THEN srl_buf_init_buffer(InitSize) ELSE tmp
             c == SRL_UPDATE_BODY_POS(t)
  <2>1. MagicLen + 3 \in Nat /\ MagicLen + 1 \in Nat
    BY <1>0
  <2>2. /\ r \in Buffer /\ SaneBuffer(r) /\ r.pos = buf.pos
        /\ r.end - r.pos >= MagicLen + 3
    BY <2>1, SizeAssertSpec DEF HeaderRoom
  <2>3. MagicLen + 1 <= r.end - r.pos
    BY <1>0, <2>2 DEF Buffer
  <2> HIDE DEF r
  <2>4. b \in Buffer /\ SaneBuffer(b)
    BY <2>1, <2>2, <2>3, AdvanceSane
  <2>5. t \in Buffer /\ SaneBuffer(t) /\ t.pos = 0
    BY <1>3, InitBufferSane, SizesAssumption DEF WriteUserHeaderBegin
  <2> HIDE DEF b, t
  <2>6. /\ c \in Buffer /\ SaneBuffer(c) /\ c.pos = 0
        /\ ver # 1 => c.body = 0 - 1
    BY <1>0, <2>5, UpdateBodyPosSane
  <2>7. buf' = c /\ tmp' = b /\ spare' = b.end - b.pos /\ ver' = ver /\ ver # 1
        /\ phase' = "user_header"
    BY <1>0, <1>3 DEF WriteUserHeaderBegin, b, r, t
  <2>8. spare' \in Int /\ spare' >= 0
    BY <2>4, <2>7 DEF Buffer, SaneBuffer
  <2> HIDE DEF c
  <2> QED
    BY <2>4, <2>6, <2>7, <2>8 DEF BODY_POS_OFS
<1>4. CASE WriteUserHeaderEnd
  <2>1. PICK k \in VarintLens :
          LET b == BUF_SIZE_ASSERT(tmp, buf.pos + 1 + MaxVarint)
              w == Advance(b, k + 1 + buf.pos)
          IN  buf' = SRL_UPDATE_BODY_POS(w) /\ spare' = b.end - MaxOf(b.pos + MaxVarint, w.pos)
    BY <1>4 DEF WriteUserHeaderEnd
  <2> DEFINE b == BUF_SIZE_ASSERT(tmp, buf.pos + 1 + MaxVarint)
             w == Advance(b, k + 1 + buf.pos)
             c == SRL_UPDATE_BODY_POS(w)
  <2>2. /\ buf.pos + 1 + MaxVarint \in Nat /\ k + 1 + buf.pos \in Nat
        /\ k + 1 + buf.pos <= buf.pos + 1 + MaxVarint
        /\ k + 1 + buf.pos >= 1
    BY <1>0 DEF VarintLens, Buffer
  <2>3. /\ b \in Buffer /\ SaneBuffer(b) /\ b.pos = tmp.pos
        /\ b.end - b.pos >= buf.pos + 1 + MaxVarint
    BY <2>2, SizeAssertSpec
  <2>4. k + 1 + buf.pos <= b.end - b.pos
    BY <2>2, <2>3 DEF Buffer
  <2>5. buf' = c /\ spare' = b.end - MaxOf(b.pos + MaxVarint, w.pos)
    BY <2>1
  <2> HIDE DEF b
  <2>6. /\ w \in Buffer /\ SaneBuffer(w) /\ w.pos = b.pos + (k + 1 + buf.pos)
        /\ w.end = b.end
    BY <2>2, <2>3, <2>4, AdvanceSane
  <2> HIDE DEF w
  <2>7. /\ c \in Buffer /\ SaneBuffer(c) /\ c.pos = w.pos
        /\ ver = 1 => c.body = 0
        /\ ver # 1 => c.body = w.pos - 1
    BY <1>0, <2>6, UpdateBodyPosSane
  <2> HIDE DEF c
  <2>8. c.pos - c.body >= 1
    BY <2>2, <2>3, <2>6, <2>7 DEF Buffer
  <2>9. b.pos + MaxVarint <= b.end /\ w.pos <= b.end
    BY <1>0, <2>3, <2>6 DEF Buffer, SaneBuffer
  <2>10. spare' \in Int /\ spare' >= 0
    BY <1>0, <2>3, <2>5, <2>6, <2>9 DEF MaxOf, Buffer
  <2>11. tmp' \in Buffer /\ SaneBuffer(tmp') /\ tmp'.pos = 0 /\ ver' = ver /\ phase' = "body"
    BY <1>4 DEF WriteUserHeaderEnd, Buffer, SaneBuffer
  <2> QED
    BY <2>5, <2>7, <2>8, <2>10, <2>11 DEF BODY_POS_OFS
<1>5. CASE srl_buf_cat_char
  <2> DEFINE r == BUF_SIZE_ASSERT(buf, 1)
             b == Advance(r, 1)
  <2>1. /\ r \in Buffer /\ SaneBuffer(r) /\ r.pos = buf.pos /\ r.body = buf.body
        /\ r.end - r.pos >= 1
    BY SizeAssertSpec
  <2> HIDE DEF r
  <2>2. /\ b \in Buffer /\ SaneBuffer(b) /\ b.pos = r.pos + 1 /\ b.body = r.body /\ b.end = r.end
    BY <2>1, AdvanceSane DEF Buffer
  <2>3. buf' = b /\ spare' = b.end - (buf.pos + 1)
    BY <1>5 DEF srl_buf_cat_char, r
  <2> HIDE DEF b
  <2>4. spare' \in Int /\ spare' >= 0 /\ b.pos - b.body >= 1
    BY <1>5, <2>1, <2>2, <2>3 DEF Buffer, Dumping, BODY_POS_OFS, srl_buf_cat_char
  <2> QED
    BY <1>5, <2>1, <2>2, <2>3, <2>4 DEF srl_buf_cat_char, Dumping, BODY_POS_OFS
<1>6. CASE CatVarint
  <2>1. PICK k \in VarintLens : buf' = srl_buf_cat_varint(buf, k)
    BY <1>6 DEF CatVarint
  <2>2. /\ buf' \in Buffer /\ SaneBuffer(buf')
        /\ buf'.pos = buf.pos + 1 + k /\ buf'.body = buf.body
        /\ buf'.end - (buf.pos + 1 + MaxVarint) \in Nat
    BY <2>1, CatVarintSane
  <2>3. buf'.pos - buf'.body >= 1
    BY <1>6, <2>2 DEF CatVarint, Dumping, BODY_POS_OFS, VarintLens, Buffer
  <2>4. spare' \in Int /\ spare' >= 0
    BY <1>6, <2>2 DEF CatVarint
  <2> QED
    BY <1>6, <2>2, <2>3, <2>4 DEF CatVarint, Dumping, BODY_POS_OFS
<1>7. CASE srl_dump_pv
  <2>1. PICK len \in Lens, k \in {0} \cup VarintLens :
          /\ buf' = Advance(BUF_SIZE_ASSERT(buf, 1 + MaxVarint + len), 1 + k + len)
          /\ spare' = buf'.end - MaxOf(buf'.pos, IF k = 0 THEN 0 ELSE buf.pos + 1 + MaxVarint)
    BY <1>7 DEF srl_dump_pv
  <2> DEFINE r == BUF_SIZE_ASSERT(buf, 1 + MaxVarint + len)
  <2>2. /\ len \in Nat /\ k \in Nat /\ 1 + MaxVarint + len \in Nat /\ 1 + k + len \in Nat
        /\ 1 + k + len <= 1 + MaxVarint + len
    BY <1>0, LensAssumption DEF VarintLens
  <2>3. /\ r \in Buffer /\ SaneBuffer(r) /\ r.pos = buf.pos /\ r.body = buf.body
        /\ r.end - r.pos >= 1 + MaxVarint + len
    BY <2>2, SizeAssertSpec
  <2>4. 1 + k + len <= r.end - r.pos
    BY <2>2, <2>3 DEF Buffer
  <2>5. buf' = Advance(r, 1 + k + len)
    BY <2>1
  <2> HIDE DEF r
  <2>6. /\ buf' \in Buffer /\ SaneBuffer(buf')
        /\ buf'.pos = r.pos + (1 + k + len) /\ buf'.body = r.body /\ buf'.end = r.end
    BY <2>2, <2>3, <2>4, <2>5, AdvanceSane
  <2>7. buf'.pos <= buf'.end /\ buf.pos + 1 + MaxVarint <= buf'.end
    BY <1>0, <2>2, <2>3, <2>6 DEF Buffer, SaneBuffer
  <2>8. spare' \in Int /\ spare' >= 0
    BY <1>0, <2>1, <2>6, <2>7 DEF MaxOf, Buffer
  <2>9. buf'.pos - buf'.body >= 1
    BY <1>7, <2>2, <2>3, <2>6 DEF srl_dump_pv, Dumping, BODY_POS_OFS, Buffer
  <2> QED
    BY <1>7, <2>3, <2>6, <2>8, <2>9 DEF srl_dump_pv, Dumping, BODY_POS_OFS
<1>8. CASE srl_dump_av
  <2>1. PICK n \in Lens, bytes \in {1, 2} :
          LET b == BUF_SIZE_ASSERT(buf, 2 + MaxVarint + bytes * n)
          IN  \/ /\ buf.pos > HeaderLength
                 /\ buf' = Advance(Advance(b, -1), 1)
                 /\ spare' = b.end - buf.pos
              \/ /\ \E k \in VarintLens : buf' = Advance(b, 1 + k)
                 /\ spare' = b.end - (buf.pos + 1 + MaxVarint)
    BY <1>8 DEF srl_dump_av
  <2> DEFINE b == BUF_SIZE_ASSERT(buf, 2 + MaxVarint + bytes * n)
  <2>2. bytes * n \in Nat
    BY LensAssumption
  <2>3. 2 + MaxVarint + bytes * n \in Nat /\ 2 + MaxVarint + bytes * n >= 2 + MaxVarint
    BY <1>0, <2>2
  <2>4. /\ b \in Buffer /\ SaneBuffer(b) /\ b.pos = buf.pos /\ b.body = buf.body
        /\ b.end - b.pos >= 2 + MaxVarint + bytes * n
    BY <2>3, SizeAssertSpec
  <2>5. b.end - b.pos >= 2 + MaxVarint
    BY <1>0, <2>2, <2>4 DEF Buffer
  <2>6. \/ /\ buf' = Advance(Advance(b, -1), 1)
           /\ spare' = b.end - buf.pos
        \/ /\ \E k \in VarintLens : buf' = Advance(b, 1 + k)
           /\ spare' = b.end - (buf.pos + 1 + MaxVarint)
    BY <2>1
  <2> HIDE DEF b
  <2>7. buf.pos - buf.body >= 1
    BY <1>8 DEF srl_dump_av, Dumping, BODY_POS_OFS
  <2>8. CASE buf' = Advance(Advance(b, -1), 1) /\ spare' = b.end - buf.pos
    <3> DEFINE a == [b EXCEPT !.pos = b.pos + (-1)]
    <3>a. a = [alloc |-> b.alloc, pos |-> b.pos - 1, end |-> b.end, body |-> b.body]
      BY <2>4 DEF Buffer
    <3>b. buf' = [a EXCEPT !.pos = a.pos + 1]
      BY <2>8 DEF Advance
    <3>1. /\ buf' \in Buffer /\ SaneBuffer(buf')
          /\ buf'.pos = b.pos /\ buf'.body = b.body
      <4>1. buf' = [alloc |-> b.alloc, pos |-> (b.pos - 1) + 1, end |-> b.end, body |-> b.body]
        BY <3>a, <3>b
      <4>2. (b.pos - 1) + 1 = b.pos
        BY <2>4 DEF Buffer
      <4>3. buf' = [alloc |-> b.alloc, pos |-> b.pos, end |-> b.end, body |-> b.body]
        BY <4>1, <4>2
      <4> QED
        BY <2>4, <4>3 DEF Buffer, SaneBuffer
    <3>2. spare' \in Int /\ spare' >= 0
      BY <1>0, <2>4, <2>5, <2>8 DEF Buffer
    <3> QED
      BY <1>8, <2>4, <2>7, <3>1, <3>2 DEF srl_dump_av, Dumping, BODY_POS_OFS
  <2>9. CASE /\ \E k \in VarintLens : buf' = Advance(b, 1 + k)
             /\ spare' = b.end - (buf.pos + 1 + MaxVarint)
    <3>1. PICK k \in VarintLens : buf' = Advance(b, 1 + k)
      BY <2>9
    <3>2. k \in Nat /\ 1 + k \in Nat /\ 1 + k <= b.end - b.pos
      BY <1>0, <2>4, <2>5 DEF VarintLens, Buffer
    <3>3. /\ buf' \in Buffer /\ SaneBuffer(buf')
          /\ buf'.pos = b.pos + (1 + k) /\ buf'.body = b.body
      BY <2>4, <3>1, <3>2, AdvanceSane
    <3>4. spare' \in Int /\ spare' >= 0
      BY <1>0, <2>4, <2>5, <2>9 DEF Buffer
    <3>5. buf'.pos - buf'.body >= 1
      BY <2>4, <2>7, <3>2, <3>3 DEF Buffer
    <3> QED
      BY <1>8, <2>4, <3>3, <3>4, <3>5 DEF srl_dump_av, Dumping, BODY_POS_OFS
  <2> QED
    BY <2>6, <2>8, <2>9
<1>9. CASE RewriteAsRefp
  <2>1. PICK p \in HeaderLength .. buf.pos, k \in VarintLens :
          LET b == [buf EXCEPT !.pos = p]
          IN  buf' = srl_buf_cat_varint(b, k) /\ spare' = buf'.end - (b.pos + 1 + MaxVarint)
    BY <1>9 DEF RewriteAsRefp
  <2> DEFINE b == [buf EXCEPT !.pos = p]
  <2>2. HeaderLength \in Nat /\ buf.pos \in Nat
    BY <1>0, <1>9 DEF HeaderLength, Buffer, SaneBuffer
  <2>3. p \in Nat /\ p <= buf.pos /\ p >= HeaderLength
    BY <2>2
  <2>4. b \in Buffer /\ SaneBuffer(b) /\ b.pos = p /\ b.body = buf.body
    BY <2>3 DEF Buffer, SaneBuffer
  <2>5. buf' = srl_buf_cat_varint(b, k) /\ spare' = buf'.end - (b.pos + 1 + MaxVarint)
    BY <2>1
  <2> HIDE DEF b
  <2>6. /\ buf' \in Buffer /\ SaneBuffer(buf')
        /\ buf'.pos = b.pos + 1 + k /\ buf'.body = b.body
        /\ buf'.end - (b.pos + 1 + MaxVarint) \in Nat
    BY <2>4, <2>5, CatVarintSane
  <2>7. p - buf.body >= 1
    BY <1>0, <1>9, <2>3 DEF HeaderLength, RewriteAsRefp, Dumping, Buffer
  <2>8. buf'.pos - buf'.body >= 1
    BY <2>3, <2>4, <2>6, <2>7 DEF VarintLens, Buffer
  <2>9. spare' \in Int /\ spare' >= 0
    BY <2>5, <2>6
  <2> QED
    BY <1>9, <2>4, <2>6, <2>8, <2>9 DEF RewriteAsRefp, Dumping, BODY_POS_OFS
<1>10. CASE FinishRaw
  BY <1>10 DEF FinishRaw, BODY_POS_OFS
<1>11. CASE srl_compress_body
  <2>1. PICK kind \in Kinds : \E j \in PlainLenVarint(kind), k \in PackedLenVarint(kind) :
          LET hdr == HeaderLength
              body == buf.pos - hdr
              new == srl_buf_init_buffer(hdr + body + Slack + VarintRoom(kind) + 1)
          IN  \E n \in 1 .. body + Slack :
                /\ spare' = new.end - MaxOf(hdr + j + k + n,
                                            IF kind = "snappy" THEN 0 ELSE hdr + j + MaxVarint)
                /\ buf' = SRL_UPDATE_BODY_POS(IF n >= body THEN buf
                                              ELSE Advance(new, hdr + j + k + n))
    BY <1>11 DEF srl_compress_body
  <2> DEFINE hdr == HeaderLength
             body == buf.pos - hdr
             size == hdr + body + Slack + VarintRoom(kind) + 1
             new == srl_buf_init_buffer(size)
  <2>2. PICK j \in PlainLenVarint(kind), k \in PackedLenVarint(kind), n \in 1 .. body + Slack :
                /\ spare' = new.end - MaxOf(hdr + j + k + n,
                                            IF kind = "snappy" THEN 0 ELSE hdr + j + MaxVarint)
                /\ buf' = SRL_UPDATE_BODY_POS(IF n >= body THEN buf
                                              ELSE Advance(new, hdr + j + k + n))
    BY <2>1
  <2>3. hdr \in Nat /\ body \in Nat /\ body >= 1
    BY <1>0, <1>11 DEF HeaderLength, srl_compress_body, Buffer, SaneBuffer
  <2>4. /\ j \in Nat /\ k \in Nat /\ VarintRoom(kind) \in Nat
        /\ j + k <= VarintRoom(kind)
        /\ kind # "snappy" => j + MaxVarint <= VarintRoom(kind)
    BY <1>0 DEF Kinds, PlainLenVarint, PackedLenVarint, VarintRoom, VarintLens
  <2> HIDE DEF hdr, body
  <2>5. n \in Nat /\ n <= body + Slack /\ size \in Nat /\ size >= 1
    BY <1>0, <2>3, <2>4
  <2>6. new \in Buffer /\ SaneBuffer(new) /\ new.pos = 0 /\ new.end = size - 1
    BY <2>5, InitBufferSane
  <2>7. hdr + j + k + n <= new.end /\ (kind # "snappy" => hdr + j + MaxVarint <= new.end)
    BY <1>0, <2>3, <2>4, <2>5, <2>6
  <2>8. hdr + j + k + n \in Nat /\ hdr + j + k + n <= new.end - new.pos
    BY <2>3, <2>4, <2>5, <2>6, <2>7
  <2> HIDE DEF new, size
  <2>9. spare' \in Int /\ spare' >= 0
    BY <1>0, <2>2, <2>3, <2>4, <2>6, <2>7, <2>8 DEF MaxOf, Buffer
  <2>10. Advance(new, hdr + j + k + n) \in Buffer /\ SaneBuffer(Advance(new, hdr + j + k + n))
    BY <2>6, <2>8, AdvanceSane
  <2> DEFINE c == IF n >= body THEN buf ELSE Advance(new, hdr + j + k + n)
  <2>11. c \in Buffer /\ SaneBuffer(c)
    BY <2>10
  <2>12. buf' = SRL_UPDATE_BODY_POS(c)
    BY <2>2
  <2> HIDE DEF c
  <2>13. buf' \in Buffer /\ SaneBuffer(buf')
    BY <1>0, <2>11, <2>12, UpdateBodyPosSane
  <2> QED
    BY <1>11, <2>9, <2>13 DEF srl_compress_body, BODY_POS_OFS
<1>12. CASE srl_clear_encoder
  <2>1. /\ buf' \in Buffer /\ SaneBuffer(buf') /\ buf'.pos = 0
        /\ tmp' \in Buffer /\ SaneBuffer(tmp') /\ tmp'.pos = 0
    <3>1. buf' = [buf EXCEPT !.pos = 0, !.body = 0] /\ tmp' = [tmp EXCEPT !.pos = 0]
      BY <1>12 DEF srl_clear_encoder
    <3>2. buf' = [alloc |-> buf.alloc, pos |-> 0, end |-> buf.end, body |-> 0]
      BY <3>1 DEF Buffer
    <3>3. tmp' = [alloc |-> tmp.alloc, pos |-> 0, end |-> tmp.end, body |-> tmp.body]
      BY <3>1 DEF Buffer
    <3>4. buf' \in Buffer /\ SaneBuffer(buf') /\ buf'.pos = 0
      BY <3>2 DEF Buffer, SaneBuffer
    <3>5. tmp' \in Buffer /\ SaneBuffer(tmp') /\ tmp'.pos = 0
      BY <3>3 DEF Buffer, SaneBuffer
    <3> QED
      BY <3>4, <3>5
  <2> QED
    BY <1>12, <2>1 DEF srl_clear_encoder, BODY_POS_OFS
<1>13. CASE UNCHANGED vars
  BY <1>13 DEF vars, BODY_POS_OFS
<1> QED
  BY <1>1, <1>2, <1>3, <1>4, <1>5, <1>6, <1>7, <1>8, <1>9, <1>10, <1>11, <1>12, <1>13
  DEF Next

\* srl_buffer.h, for all sizes: both buffers stay sane through every document,
\* successful or not.
THEOREM BufferSafety == Spec => []BuffersSane
<1>1. IInv => BuffersSane
  BY DEF IInv
<1> QED
  BY InitIInv, NextIInv, <1>1, PTL DEF Spec

\* No nocheck writer and no compressor ever goes beyond the secured room.
THEOREM NocheckSafety == Spec => []NocheckFits
<1>1. IInv => NocheckFits
  BY DEF IInv
<1> QED
  BY InitIInv, NextIInv, <1>1, PTL DEF Spec

\* No item is ever recorded at offset 0, which the tables read as "unseen".
THEOREM OffsetSafety == Spec => []OffsetsPositive
<1>1. IInv => OffsetsPositive
  BY DEF IInv
<1> QED
  BY InitIInv, NextIInv, <1>1, PTL DEF Spec

\* Each document starts from two empty buffers, whatever happened before.
THEOREM TmpBufferSafety == Spec => []TmpBufferEmpty
<1>1. IInv => TmpBufferEmpty
  BY DEF IInv, TmpBufferEmpty
<1> QED
  BY InitIInv, NextIInv, <1>1, PTL DEF Spec

\* The pointers of both buffers stay offsets of the modelled kind: none becomes
\* negative, whatever is rewound or cleared.
THEOREM TypeSafety == Spec => []TypeOK
<1>1. IInv => TypeOK
  BY DEF IInv
<1> QED
  BY InitIInv, NextIInv, <1>1, PTL DEF Spec

\* The write position and body_pos survive BUF_SIZE_ASSERT, so a step that only
\* writes items leaves body_pos at its offset.
LEMMA WriterKeepsBody ==
  ASSUME IInv, [Next]_vars, phase' = phase, Writing
  PROVE  buf'.body = buf.body
<1>0. /\ buf \in Buffer /\ SaneBuffer(buf)
      /\ MaxVarint \in Nat
  BY SizesAssumption DEF IInv, TypeOK, BuffersSane
<1>1. CASE srl_buf_cat_char
  BY <1>0, <1>1, SizeAssertSpec DEF srl_buf_cat_char, Advance
<1>2. CASE CatVarint
  BY <1>0, <1>2, CatVarintSane DEF CatVarint
<1>3. CASE srl_dump_pv
  <2> PICK len \in Lens, k \in {0} \cup VarintLens :
        buf' = Advance(BUF_SIZE_ASSERT(buf, 1 + MaxVarint + len), 1 + k + len)
    BY <1>3 DEF srl_dump_pv
  <2>1. 1 + MaxVarint + len \in Nat
    BY <1>0, LensAssumption
  <2>2. /\ BUF_SIZE_ASSERT(buf, 1 + MaxVarint + len) \in Buffer
        /\ BUF_SIZE_ASSERT(buf, 1 + MaxVarint + len).body = buf.body
    BY <1>0, <2>1, SizeAssertSpec
  <2> QED
    BY <2>2 DEF Advance, Buffer
<1>4. CASE srl_dump_av
  <2> PICK n \in Lens, bytes \in {1, 2} :
        \/ buf' = Advance(Advance(BUF_SIZE_ASSERT(buf, 2 + MaxVarint + bytes * n), -1), 1)
        \/ \E k \in VarintLens :
             buf' = Advance(BUF_SIZE_ASSERT(buf, 2 + MaxVarint + bytes * n), 1 + k)
    BY <1>4 DEF srl_dump_av
  <2>1. 2 + MaxVarint + bytes * n \in Nat
    <3>1. n \in Nat /\ (bytes = 1 \/ bytes = 2)
      BY LensAssumption
    <3>2. bytes * n \in Nat
      BY <3>1
    <3> QED
      BY <1>0, <3>2
  <2>2. /\ BUF_SIZE_ASSERT(buf, 2 + MaxVarint + bytes * n) \in Buffer
        /\ BUF_SIZE_ASSERT(buf, 2 + MaxVarint + bytes * n).body = buf.body
    BY <1>0, <2>1, SizeAssertSpec
  <2> QED
    BY <2>2 DEF Advance, Buffer
<1>5. CASE RewriteAsRefp
  <2> PICK p \in HeaderLength .. buf.pos, k \in VarintLens :
        buf' = srl_buf_cat_varint([buf EXCEPT !.pos = p], k)
    BY <1>5 DEF RewriteAsRefp
  <2>1. HeaderLength \in Nat
    BY <1>0, SizesAssumption DEF HeaderLength, IInv, Buffer, SaneBuffer, Writing
  <2>2. p \in Nat /\ p <= buf.pos
    BY <1>0, <2>1 DEF Buffer
  <2>3. /\ [buf EXCEPT !.pos = p] \in Buffer /\ SaneBuffer([buf EXCEPT !.pos = p])
        /\ [buf EXCEPT !.pos = p].body = buf.body
    BY <1>0, <2>2 DEF Buffer, SaneBuffer
  <2> QED
    BY <2>3, CatVarintSane
<1>6. CASE UNCHANGED vars
  BY <1>6 DEF vars
<1>7. CASE \/ Prepare \/ WriteHeader \/ WriteUserHeaderBegin \/ WriteUserHeaderEnd
           \/ FinishRaw \/ srl_compress_body \/ srl_clear_encoder
  BY <1>7 DEF Prepare, WriteHeader, WriteUserHeaderBegin, WriteUserHeaderEnd,
     FinishRaw, srl_compress_body, srl_clear_encoder, Writing
<1> QED
  BY <1>1, <1>2, <1>3, <1>4, <1>5, <1>6, <1>7 DEF Next

\* However often srl_buf_grow_nocheck moves the memory, the offsets stored while
\* one body is written stay relative to the same body_pos.
THEOREM BodyPosStability == Spec => BodyPosStable
<1>1. IInv /\ [Next]_vars =>
        [phase' = phase /\ phase \in {"user_header", "body"} => buf'.body = buf.body]_vars
  BY WriterKeepsBody DEF Writing
<1> QED
  BY InitIInv, NextIInv, <1>1, PTL DEF Spec, BodyPosStable
=============================================================================
