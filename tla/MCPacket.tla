------------------------------ MODULE MCPacket ------------------------------
(* Bytes of three bits and words of eight, so that varints have one to three *)
(* bytes; bodies of one byte up to ones whose estimated compressed length     *)
(* needs three bytes.                                                         *)
EXTENDS Packet

Numbers == {Number(v) : v \in {0, 1, -2, 2, 7, 8, 63, 127, 255, -3, -32, -33, -128}}
MCStrings == {String(n) : n \in {0, 1, 7, 8, 54}}
Encodings == {<<1, "raw">>, <<1, "snappy">>, <<1, "snappy_incr">>, <<3, "raw">>,
              <<3, "snappy_incr">>, <<3, "zlib">>, <<3, "zstd">>}

Job(d, e, h, packed, last) ==
  [data |-> d, version |-> e[1], encoding |-> e[2], header |-> h, packed |-> packed, last |-> last,
   threshold |-> 0, cut |-> 0, follow |-> <<>>, beyond |-> <<0>>, wanted |-> FALSE,
   refused |-> {}, max |-> 0]

Made(data, headers, packed) == {Job(d, e, h, p, l) : d \in data, e \in Encodings, h \in headers,
                                                     p \in packed, l \in {0, High}}
Plain == Made(Numbers \cup MCStrings, {0, 1, 7}, {1, 2, 8, 40, 57})
\* The options, and data behind the packet, of which traditional snappy knows nothing.
Options ==
  {[j EXCEPT !.threshold = t, !.wanted = w, !.follow = f, !.refused = r, !.max = m] :
     j \in {k \in Made({Number(63), String(8)}, {0, 7}, {1, 8}) : k.encoding # "snappy"},
     t \in {0, 5}, w \in BOOLEAN, f \in {<<0>>, <<High, High>>}, r \in {{}, {"zlib"}}, m \in {0, 5}}
\* Truncated packets, with anything in memory behind them.
Lossy ==
  {[j EXCEPT !.cut = c, !.beyond = b] :
     j \in Made({Number(63), Number(-30), Number(1), String(1), String(8)}, {0, 7}, {1, 8}),
     c \in 1 .. 9, b \in {<<0>>, <<1, 0>>, <<High>>, <<High + 1, 0>>}}

\* The varint of a number, lost as a whole.
NumberLost(j) == j.data \in {Number(63), Number(-30)} /\ j.cut = 2
                 /\ (j.encoding = "raw" \/ j.packed >= 3)

MCJobs == Plain \cup Options \cup {j \in Lossy : ~NumberLost(j)}
LostJobs == {j \in Lossy : NumberLost(j)}
=============================================================================
