---------------------------- MODULE MergerProofs ----------------------------
(* For all documents, options and sizes of arenas and tables: as long as      *)
(* STRTABLE_purge stays inside the arenas, the Merger's string tables are     *)
(* consistent and name the strings they were made for, whatever failed.       *)
EXTENDS Merger, NatLemmas, FiniteSetTheorems, SequenceTheorems, TLAPS

-----------------------------------------------------------------------------
(* Tables *)

EntryT == [hash : Nat, offset : Nat]
AryT == UNION {[0 .. n - 1 -> SUBSET (Nat \X Nat)] : n \in Nat \ {0}}
TableT == [ary : AryT, arenas : Seq(Seq(EntryT)), next : Nat, items : Nat, corrupt : BOOLEAN]

\* All arenas but the newest are full, and that one up to tbl_arena_next.
Shape(t) ==
  /\ t \in TableT /\ t.next \in 1 .. ArenaSize + 1
  /\ \A a \in 1 .. Len(t.arenas) :
       Len(t.arenas[a]) = IF a < Len(t.arenas) THEN ArenaSize ELSE t.next - 1
  /\ Len(t.arenas) = 0 => t.next = ArenaSize + 1

Sound(t) == Shape(t) /\ Consistent(t) /\ ~t.corrupt

LEMMA AryFacts ==
  ASSUME NEW ary \in AryT
  PROVE  /\ Cardinality(DOMAIN ary) \in Nat \ {0}
         /\ DOMAIN ary = 0 .. Cardinality(DOMAIN ary) - 1
         /\ ary \in [0 .. Cardinality(DOMAIN ary) - 1 -> SUBSET (Nat \X Nat)]
<1>1. PICK n \in Nat \ {0} : ary \in [0 .. n - 1 -> SUBSET (Nat \X Nat)]
  BY DEF AryT
<1>2. DOMAIN ary = 0 .. n - 1
  BY <1>1
<1>3. Cardinality(0 .. n - 1) = n
  BY FS_Interval
<1> QED
  BY <1>1, <1>2, <1>3

LEMMA SlotFacts ==
  ASSUME NEW t, Shape(t), NEW p \in Slots(t)
  PROVE  /\ p = <<p[1], p[2]>> /\ p[1] \in 1 .. Len(t.arenas) /\ p[2] \in 1 .. ArenaSize
         /\ p[2] \in 1 .. Len(t.arenas[p[1]])
         /\ Entry(t, p) \in EntryT /\ Entry(t, p).hash \in Nat /\ Entry(t, p).offset \in Nat
<1>1. /\ p = <<p[1], p[2]>> /\ p[1] \in 1 .. Len(t.arenas) /\ p[2] \in 1 .. ArenaSize
      /\ p[1] < Len(t.arenas) \/ p[2] < t.next
  BY DEF Slots
<1>2. t.arenas \in Seq(Seq(EntryT)) /\ Len(t.arenas) \in Nat /\ t.next \in 1 .. ArenaSize + 1
  BY DEF Shape, TableT
<1>3. Len(t.arenas[p[1]]) = IF p[1] < Len(t.arenas) THEN ArenaSize ELSE t.next - 1
  BY <1>1 DEF Shape
<1>4. p[2] \in 1 .. Len(t.arenas[p[1]])
  BY <1>1, <1>2, <1>3, ArenaAssumption
<1>5. t.arenas[p[1]] \in Seq(EntryT)
  BY <1>1, <1>2
<1>6. Entry(t, p) \in EntryT
  BY <1>4, <1>5 DEF Entry
<1> QED
  BY <1>1, <1>4, <1>6 DEF EntryT

LEMMA SlotsFinite ==
  ASSUME NEW t, Shape(t)
  PROVE  IsFiniteSet(Slots(t)) /\ Cardinality(Slots(t)) \in Nat
<1>1. Len(t.arenas) \in Int /\ ArenaSize \in Int
  BY ArenaAssumption DEF Shape, TableT
<1>2. IsFiniteSet(1 .. Len(t.arenas)) /\ IsFiniteSet(1 .. ArenaSize)
  BY <1>1, FS_Interval
<1>3. IsFiniteSet((1 .. Len(t.arenas)) \X (1 .. ArenaSize))
  BY <1>2, FS_Product
<1>4. Slots(t) \subseteq (1 .. Len(t.arenas)) \X (1 .. ArenaSize)
  BY DEF Slots
<1>5. IsFiniteSet(Slots(t))
  BY <1>3, <1>4, FS_Subset
<1> QED
  BY <1>5, FS_CardinalityType

LEMMA NewSound == Sound(STRTABLE_new) /\ Slots(STRTABLE_new) = {}
<1> DEFINE t == STRTABLE_new
<1>1. InitialSize \in Nat \ {0} /\ ArenaSize \in Nat \ {0}
  BY SizeAssumption, ArenaAssumption
<1>2. Chains(InitialSize) \in [0 .. InitialSize - 1 -> SUBSET (Nat \X Nat)]
  BY DEF Chains
<1>3. Chains(InitialSize) \in AryT
  BY <1>1, <1>2 DEF AryT
<1>4. t \in TableT /\ t.arenas = <<>> /\ t.next = ArenaSize + 1 /\ ~t.corrupt /\ t.items = 0
      /\ t.ary = Chains(InitialSize)
  BY <1>1, <1>3 DEF STRTABLE_new, TableT
<1>5. Shape(t)
  BY <1>1, <1>4 DEF Shape
<1>6. Slots(t) = {}
  BY <1>4 DEF Slots
<1>7. Consistent(t)
  BY <1>4, <1>6, FS_EmptySet DEF Consistent, Chains
<1> QED
  BY <1>4, <1>5, <1>6, <1>7 DEF Sound

-----------------------------------------------------------------------------
(* Growing and inserting *)

\* Splitting the chains keeps every slot in the chain of its hash.
LEMMA GrowSpec ==
  ASSUME NEW t, Shape(t),
         \A b \in DOMAIN t.ary : t.ary[b] = {p \in Slots(t) : Bucket(t, Entry(t, p).hash) = b}
  PROVE  LET u == STRTABLE_grow(t)
         IN  /\ Shape(u) /\ u.arenas = t.arenas /\ u.next = t.next /\ u.items = t.items
             /\ u.corrupt = t.corrupt
             /\ \A b \in DOMAIN u.ary : u.ary[b] = {p \in Slots(t) : Bucket(u, Entry(t, p).hash) = b}
<1> DEFINE old == Cardinality(DOMAIN t.ary)
           ary == [b \in 0 .. 2 * old - 1 |-> {p \in t.ary[b % old] : Entry(t, p).hash % (2 * old) = b}]
           u == STRTABLE_grow(t)
<1>1. t \in TableT /\ t.ary \in AryT
  BY DEF Shape, TableT
<1>2. old \in Nat \ {0} /\ DOMAIN t.ary = 0 .. old - 1 /\ t.ary \in [0 .. old - 1 -> SUBSET (Nat \X Nat)]
  BY <1>1, AryFacts
<1> HIDE DEF old
<1>3. \A b \in 0 .. 2 * old - 1 : b % old \in 0 .. old - 1
  BY <1>2
<1>4. ary \in [0 .. 2 * old - 1 -> SUBSET (Nat \X Nat)] /\ 2 * old \in Nat \ {0}
  <2>1. \A b \in 0 .. 2 * old - 1 : t.ary[b % old] \in SUBSET (Nat \X Nat)
    BY <1>2, <1>3
  <2>2. \A b \in 0 .. 2 * old - 1 : ary[b] \in SUBSET (Nat \X Nat)
    BY <2>1
  <2>3. 2 * old \in Nat \ {0}
    BY <1>2
  <2> QED
    BY <2>2, <2>3
<1>5. ary \in AryT /\ DOMAIN ary = 0 .. 2 * old - 1 /\ Cardinality(DOMAIN ary) = 2 * old
  <2>1. ary \in AryT
    BY <1>4 DEF AryT
  <2>2. Cardinality(0 .. 2 * old - 1) = 2 * old
    BY <1>4, FS_Interval
  <2> QED
    BY <2>1, <2>2
<1>6. u = [t EXCEPT !.ary = ary]
  BY DEF STRTABLE_grow, old
<1>7. /\ u \in TableT /\ u.arenas = t.arenas /\ u.next = t.next /\ u.items = t.items
      /\ u.corrupt = t.corrupt /\ u.ary = ary
  BY <1>1, <1>5, <1>6 DEF TableT
<1>8. Shape(u)
  BY <1>7 DEF Shape
<1>9. ASSUME NEW b \in 0 .. 2 * old - 1
      PROVE  ary[b] = {p \in Slots(t) : Bucket(u, Entry(t, p).hash) = b}
  <2>1. ary[b] = {p \in t.ary[b % old] : Entry(t, p).hash % (2 * old) = b}
    OBVIOUS
  <2>2. t.ary[b % old] = {p \in Slots(t) : Entry(t, p).hash % old = b % old}
    BY <1>2, <1>3 DEF Bucket, old
  <2>3. \A h : Bucket(u, h) = h % (2 * old)
    BY <1>5, <1>7 DEF Bucket
  <2>4. ASSUME NEW p \in Slots(t), Entry(t, p).hash % (2 * old) = b
        PROVE  Entry(t, p).hash % old = b % old
    <3>1. Entry(t, p).hash \in Nat
      BY SlotFacts
    <3> DEFINE h == Entry(t, p).hash
    <3>2. h % old \in 0 .. old - 1 /\ (b = h % old \/ b = (h % old) + old)
      BY <1>2, <2>4, <3>1, ModDoubled
    <3>3. (old * 0 + (h % old)) % old = h % old /\ (old * 1 + (h % old)) % old = h % old
      BY <1>2, <3>2, ModUnique
    <3> HIDE DEF h
    <3>4. b = old * 0 + (h % old) \/ b = old * 1 + (h % old)
      BY <1>2, <3>2
    <3> QED
      BY <3>3, <3>4 DEF h
  <2> QED
    BY <2>1, <2>2, <2>3, <2>4
<1> QED
  BY <1>5, <1>7, <1>8, <1>9

\* The slot <<l, i>> is the next one to be used for a new entry.
Free(t, l, i) == IF t.next = ArenaSize + 1 THEN l = Len(t.arenas) + 1 /\ i = 1
                 ELSE l = Len(t.arenas) /\ i = t.next

LEMMA FreeSlot ==
  ASSUME NEW t, Shape(t), NEW l, NEW i, Free(t, l, i)
  PROVE  /\ l \in Nat \ {0} /\ i \in 1 .. ArenaSize /\ <<l, i>> \in Nat \X Nat
         /\ l \in 1 .. Len(t.arenas) + 1
         /\ <<l, i>> \notin Slots(t)
         /\ \A p \in Slots(t) : ~Before(<<l, i>>, p)
         /\ Slots(t) \cup {<<l, i>>} =
              {p \in (1 .. l) \X (1 .. ArenaSize) : p[1] < l \/ p[2] < i + 1}
<1>1. /\ t.next \in 1 .. ArenaSize + 1 /\ ArenaSize \in Nat \ {0} /\ Len(t.arenas) \in Nat
      /\ Len(t.arenas) = 0 => t.next = ArenaSize + 1
  BY ArenaAssumption DEF Shape, TableT
<1>2. l \in Nat \ {0} /\ i \in 1 .. ArenaSize /\ l \in 1 .. Len(t.arenas) + 1
  BY <1>1 DEF Free
<1> DEFINE n == Len(t.arenas)
           N == ArenaSize
<1>3. Slots(t) = {p \in (1 .. n) \X (1 .. N) : p[1] < n \/ p[2] < t.next}
  BY DEF Slots
<1>4. ASSUME NEW a \in Nat, NEW b \in Nat
      PROVE  <<a, b>> \in Slots(t) <=> a \in 1 .. n /\ b \in 1 .. N /\ (a < n \/ b < t.next)
  BY <1>3
<1>5. ASSUME NEW a \in Nat, NEW b \in 1 .. N
      PROVE  /\ <<a, b>> \in Slots(t) => a <= l /\ (a = l => b < i)
             /\ a \in 1 .. l /\ (a < l \/ b < i) => <<a, b>> \in Slots(t)
  BY <1>1, <1>2, <1>4 DEF Free
<1> HIDE DEF n, N
<1>6. \A p \in Slots(t) : p = <<p[1], p[2]>> /\ p[1] \in Nat /\ p[2] \in 1 .. N
  BY <1>1, <1>3 DEF n, N
<1>7. <<l, i>> \notin Slots(t)
  BY <1>2, <1>5 DEF N
<1>8. ASSUME NEW p \in Slots(t) PROVE ~Before(<<l, i>>, p)
  <2>1. p[1] <= l /\ (p[1] = l => p[2] < i) /\ p[1] \in Nat /\ p[2] \in Nat
    BY <1>1, <1>5, <1>6 DEF N
  <2> QED
    BY <1>2, <2>1 DEF Before
<1>9. Slots(t) \cup {<<l, i>>} = {p \in (1 .. l) \X (1 .. N) : p[1] < l \/ p[2] < i + 1}
  <2>1. ASSUME NEW p \in Slots(t) PROVE p \in (1 .. l) \X (1 .. N) /\ (p[1] < l \/ p[2] < i + 1)
    <3>1. p = <<p[1], p[2]>> /\ p[1] \in 1 .. l /\ p[2] \in 1 .. N /\ (p[1] = l => p[2] < i)
      BY <1>1, <1>2, <1>3, <1>5, <1>6 DEF n, N
    <3> QED
      BY <1>2, <3>1
  <2>2. ASSUME NEW p \in (1 .. l) \X (1 .. N), p[1] < l \/ p[2] < i + 1
        PROVE  p \in Slots(t) \/ p = <<l, i>>
    <3>1. p = <<p[1], p[2]>> /\ p[1] \in 1 .. l /\ p[2] \in 1 .. N
      OBVIOUS
    <3>2. CASE p[1] < l \/ p[2] < i
      BY <1>2, <1>5, <3>1, <3>2
    <3>3. CASE p[1] = l /\ p[2] = i
      BY <3>1, <3>3
    <3> QED
      BY <1>2, <2>2, <3>1, <3>2, <3>3
  <2>3. <<l, i>> \in {p \in (1 .. l) \X (1 .. N) : p[1] < l \/ p[2] < i + 1}
    BY <1>2 DEF N
  <2> QED
    BY <2>1, <2>2, <2>3
<1> QED
  BY <1>2, <1>7, <1>8, <1>9 DEF N

\* Writing there keeps what is in the other slots.
Filled(t, l, new) == IF t.next = ArenaSize + 1 THEN Append(t.arenas, <<new>>)
                     ELSE [t.arenas EXCEPT ![l] = Append(@, new)]
Extension(t, l, i, new, arenas) ==
  /\ arenas \in Seq(Seq(EntryT)) /\ Len(arenas) = l
  /\ \A a \in 1 .. l : Len(arenas[a]) = IF a < l THEN ArenaSize ELSE i
  /\ \A a \in 1 .. Len(t.arenas) : \A j \in 1 .. Len(t.arenas[a]) : arenas[a][j] = t.arenas[a][j]
  /\ arenas[l][i] = new
LEMMA FilledArenas ==
  ASSUME NEW t, Shape(t), NEW l, NEW i, Free(t, l, i), NEW new \in EntryT
  PROVE  Extension(t, l, i, new, Filled(t, l, new))
<1> DEFINE arenas == Filled(t, l, new)
<1>1. /\ t.next \in 1 .. ArenaSize + 1 /\ ArenaSize \in Nat \ {0} /\ Len(t.arenas) \in Nat
      /\ Len(t.arenas) = 0 => t.next = ArenaSize + 1
      /\ t.arenas \in Seq(Seq(EntryT))
  BY ArenaAssumption DEF Shape, TableT
<1>2. \A a \in 1 .. Len(t.arenas) :
        /\ t.arenas[a] \in Seq(EntryT)
        /\ Len(t.arenas[a]) = IF a < Len(t.arenas) THEN ArenaSize ELSE t.next - 1
  BY <1>1 DEF Shape
<1>3. CASE t.next = ArenaSize + 1
  <2>1. <<new>> \in Seq(EntryT) /\ Len(<<new>>) = 1 /\ <<new>>[1] = new
    OBVIOUS
  <2>2. /\ arenas \in Seq(Seq(EntryT)) /\ Len(arenas) = Len(t.arenas) + 1
        /\ arenas[Len(t.arenas) + 1] = <<new>>
        /\ \A a \in 1 .. Len(t.arenas) : arenas[a] = t.arenas[a]
    BY <1>1, <1>3, <2>1 DEF Filled
  <2>3. l = Len(t.arenas) + 1 /\ i = 1
    BY <1>3 DEF Free
  <2>4. \A a \in 1 .. Len(t.arenas) : Len(t.arenas[a]) = ArenaSize
    BY <1>1, <1>2, <1>3
  <2>5. \A a \in 1 .. l : Len(arenas[a]) = IF a < l THEN ArenaSize ELSE i
    <3> SUFFICES ASSUME NEW a \in 1 .. l PROVE Len(arenas[a]) = IF a < l THEN ArenaSize ELSE i
      OBVIOUS
    <3>1. CASE a < l
      <4>1. a \in 1 .. Len(t.arenas)
        BY <1>1, <2>3, <3>1
      <4> QED
        BY <2>2, <2>4, <3>1, <4>1
    <3>2. CASE a = l
      <4>1. arenas[a] = <<new>>
        BY <2>2, <2>3, <3>2, Zenon
      <4>2. ~(a < l)
        BY <1>1, <2>3, <3>2
      <4> QED
        BY <2>1, <2>3, <4>1, <4>2, Zenon
    <3> QED
      BY <1>1, <2>3, <3>1, <3>2
  <2> QED
    BY <2>1, <2>2, <2>3, <2>5, Zenon DEF Extension
<1>4. CASE t.next # ArenaSize + 1
  <2>1. l = Len(t.arenas) /\ l \in 1 .. Len(t.arenas) /\ i = t.next
    BY <1>1, <1>4 DEF Free
  <2> DEFINE last == Append(t.arenas[l], new)
  <2>2. t.arenas[l] \in Seq(EntryT) /\ Len(t.arenas[l]) = t.next - 1
    <3>1. /\ t.arenas[l] \in Seq(EntryT)
          /\ Len(t.arenas[l]) = IF l < Len(t.arenas) THEN ArenaSize ELSE t.next - 1
      BY <1>2, <2>1, Zenon
    <3>2. ~(l < Len(t.arenas))
      BY <1>1, <2>1
    <3> QED
      BY <3>1, <3>2, Zenon
  <2>3. /\ last \in Seq(EntryT) /\ Len(last) = t.next /\ last[t.next] = new
        /\ \A j \in 1 .. Len(t.arenas[l]) : last[j] = t.arenas[l][j]
    BY <1>1, <2>2
  <2>4. arenas = [t.arenas EXCEPT ![l] = last]
    BY <1>4 DEF Filled
  <2> HIDE DEF last
  <2>5. /\ arenas \in Seq(Seq(EntryT)) /\ Len(arenas) = Len(t.arenas) /\ arenas[l] = last
        /\ \A a \in 1 .. Len(t.arenas) : a # l => arenas[a] = t.arenas[a]
    <3> HIDE DEF arenas
    <3> QED
      BY <1>1, <2>1, <2>3, <2>4
  <2> HIDE DEF arenas
  <2>6. \A a \in 1 .. l : Len(arenas[a]) = IF a < l THEN ArenaSize ELSE i
    BY <1>1, <1>2, <2>1, <2>3, <2>5
  <2>7. ASSUME NEW a \in 1 .. Len(t.arenas), NEW j \in 1 .. Len(t.arenas[a])
        PROVE  arenas[a][j] = t.arenas[a][j]
    <3>1. CASE a = l
      BY <2>3, <2>5, <3>1, Zenon
    <3>2. CASE a # l
      BY <2>5, <3>2, Zenon
    <3> QED
      BY <3>1, <3>2
  <2>8. arenas[l][i] = new /\ Len(arenas) = l
    BY <2>1, <2>3, <2>5, Zenon
  <2> QED
    BY <2>5, <2>6, <2>7, <2>8, Zenon DEF Extension, arenas
<1> QED
  BY <1>3, <1>4

\* An entry with a larger offset than all others goes behind them, and into the
\* chain of its hash.
LEMMA InsertSpec ==
  ASSUME NEW t, Sound(t), NEW s \in Strings, NEW ofs \in Nat,
         \A p \in Slots(t) : Entry(t, p).offset < ofs
  PROVE  LET u == STRTABLE_insert(t, s, ofs)
         IN  /\ Sound(u)
             /\ \A p \in Slots(u) : \/ p \in Slots(t) /\ Entry(u, p) = Entry(t, p)
                                    \/ Entry(u, p) = [hash |-> Hash[s], offset |-> ofs]
<1> DEFINE full == t.next = ArenaSize + 1
           slot == IF full THEN <<Len(t.arenas) + 1, 1>> ELSE <<Len(t.arenas), t.next>>
           l == slot[1]
           i == slot[2]
           b0 == Bucket(t, Hash[s])
           new == [hash |-> Hash[s], offset |-> ofs]
           arenas == IF full THEN Append(t.arenas, <<new>>)
                     ELSE [t.arenas EXCEPT ![slot[1]] = Append(@, new)]
           w == [t EXCEPT !.arenas = arenas, !.next = slot[2] + 1, !.items = @ + 1,
                          !.ary[b0] = @ \cup {slot}]
           n == Cardinality(DOMAIN t.ary)
<1>1. /\ t \in TableT /\ t.ary \in AryT /\ t.next \in 1 .. ArenaSize + 1 /\ ArenaSize \in Nat \ {0}
      /\ t.arenas \in Seq(Seq(EntryT)) /\ Len(t.arenas) \in Nat /\ t.items \in Nat /\ ~t.corrupt
      /\ Shape(t) /\ Consistent(t)
  BY ArenaAssumption DEF Sound, Shape, TableT
<1>2. n \in Nat \ {0} /\ DOMAIN t.ary = 0 .. n - 1 /\ t.ary \in [0 .. n - 1 -> SUBSET (Nat \X Nat)]
  BY <1>1, AryFacts
<1>3. Hash[s] \in Nat /\ new \in EntryT
  BY HashAssumption DEF EntryT
<1>4. b0 \in 0 .. n - 1
  BY <1>2, <1>3 DEF Bucket
<1> HIDE DEF n
<1>5. Free(t, l, i) /\ slot = <<l, i>>
  BY DEF Free
<1>6. /\ l \in Nat \ {0} /\ i \in 1 .. ArenaSize /\ slot \in Nat \X Nat
      /\ slot \notin Slots(t) /\ \A p \in Slots(t) : ~Before(slot, p)
      /\ Slots(t) \cup {slot} = {p \in (1 .. l) \X (1 .. ArenaSize) : p[1] < l \/ p[2] < i + 1}
  <2> HIDE DEF slot, l, i
  <2> QED
    BY <1>1, <1>5, FreeSlot
<1>7. /\ arenas \in Seq(Seq(EntryT)) /\ Len(arenas) = l
      /\ \A a \in 1 .. l : Len(arenas[a]) = IF a < l THEN ArenaSize ELSE i
      /\ \A a \in 1 .. Len(t.arenas) : \A j \in 1 .. Len(t.arenas[a]) : arenas[a][j] = t.arenas[a][j]
      /\ arenas[l][i] = new
  <2>1. arenas = Filled(t, l, new)
    BY DEF Filled
  <2> HIDE DEF slot, l, i, arenas, new
  <2>2. Extension(t, l, i, new, Filled(t, l, new))
    BY <1>1, <1>3, <1>5, FilledArenas
  <2> QED
    BY <2>1, <2>2 DEF Extension
<1> HIDE DEF arenas, new, b0, slot
<1>8. /\ w \in TableT /\ w.arenas = arenas /\ w.next = i + 1 /\ w.items = t.items + 1
      /\ w.corrupt = t.corrupt /\ DOMAIN w.ary = DOMAIN t.ary
      /\ \A b \in 0 .. n - 1 : w.ary[b] = IF b = b0 THEN t.ary[b] \cup {slot} ELSE t.ary[b]
  <2> DEFINE ary == [t.ary EXCEPT ![b0] = @ \cup {slot}]
  <2>1. ary \in [0 .. n - 1 -> SUBSET (Nat \X Nat)] /\ DOMAIN ary = DOMAIN t.ary
        /\ \A b \in 0 .. n - 1 : ary[b] = IF b = b0 THEN t.ary[b] \cup {slot} ELSE t.ary[b]
    BY <1>2, <1>4, <1>6
  <2>2. ary \in AryT
    BY <1>2, <2>1 DEF AryT
  <2>3. w = [t EXCEPT !.arenas = arenas, !.next = slot[2] + 1, !.items = @ + 1, !.ary = ary]
    BY <1>1 DEF TableT
  <2> HIDE DEF ary, w, l, i
  <2>4. slot[2] + 1 \in Nat /\ t.items + 1 \in Nat
    BY <1>1, <1>6 DEF i
  <2> QED
    BY <1>1, <1>7, <2>1, <2>2, <2>3, <2>4 DEF TableT, i
<1> HIDE DEF w, l, i
<1>9. Shape(w)
  <2>1. w.next \in 1 .. ArenaSize + 1 /\ Len(w.arenas) = l /\ w.next - 1 = i
    BY <1>1, <1>6, <1>7, <1>8
  <2> QED
    BY <1>6, <1>7, <1>8, <2>1 DEF Shape
<1>10. Slots(w) = Slots(t) \cup {slot}
  BY <1>6, <1>7, <1>8 DEF Slots
<1>11. Entry(w, slot) = new /\ \A p \in Slots(t) : Entry(w, p) = Entry(t, p)
  <2>1. Entry(w, slot) = new
    BY <1>7, <1>8 DEF Entry, l, i
  <2>2. ASSUME NEW p \in Slots(t) PROVE Entry(w, p) = Entry(t, p)
    <3>1. p[1] \in 1 .. Len(t.arenas) /\ p[2] \in 1 .. Len(t.arenas[p[1]])
      BY <1>1, SlotFacts
    <3> QED
      BY <1>7, <1>8, <3>1 DEF Entry
  <2> QED
    BY <2>1, <2>2
<1> HIDE DEF full
<1>12. \A b \in DOMAIN w.ary : w.ary[b] = {p \in Slots(w) : Bucket(w, Entry(w, p).hash) = b}
  <2>1. \A h : Bucket(w, h) = Bucket(t, h)
    BY <1>8 DEF Bucket
  <2>2. \A b \in DOMAIN t.ary : t.ary[b] = {p \in Slots(t) : Bucket(t, Entry(t, p).hash) = b}
    BY <1>1 DEF Consistent
  <2>3. Bucket(w, Entry(w, slot).hash) = b0
    BY <1>11, <2>1 DEF b0, new
  <2> SUFFICES ASSUME NEW b \in 0 .. n - 1
               PROVE  w.ary[b] = {p \in Slots(w) : Bucket(w, Entry(w, p).hash) = b}
    BY <1>2, <1>8
  <2>4. t.ary[b] = {p \in Slots(t) : Bucket(w, Entry(w, p).hash) = b}
    BY <1>2, <1>11, <2>1, <2>2
  <2>5. CASE b = b0
    BY <1>8, <1>10, <2>3, <2>4, <2>5
  <2>6. CASE b # b0
    BY <1>8, <1>10, <2>3, <2>4, <2>6
  <2> QED
    BY <2>5, <2>6
<1>13. w.items = Cardinality(Slots(w))
  <2>1. IsFiniteSet(Slots(t)) /\ t.items = Cardinality(Slots(t))
    BY <1>1, SlotsFinite DEF Consistent
  <2>2. Cardinality(Slots(t) \cup {slot}) = Cardinality(Slots(t)) + 1
    BY <1>6, <2>1, FS_AddElement
  <2> QED
    BY <1>8, <1>10, <2>1, <2>2
<1>14. \A p, q \in Slots(w) : Before(p, q) => Entry(w, p).offset < Entry(w, q).offset
  <2>1. ~Before(slot, slot)
    BY <1>5, <1>6 DEF Before
  <2>2. new.offset = ofs
    BY DEF new
  <2> QED
    BY <1>1, <1>6, <1>10, <1>11, <2>1, <2>2 DEF Consistent
<1> DEFINE u == STRTABLE_insert(t, s, ofs)
<1>15. u = w \/ u = STRTABLE_grow(w)
  BY DEF STRTABLE_insert, w, arenas, new, slot, b0, full, l, i
<1>16. Sound(u) /\ Slots(u) = Slots(w) /\ \A p : Entry(u, p) = Entry(w, p)
  <2>1. CASE u = w
    BY <1>1, <1>8, <1>9, <1>12, <1>13, <1>14, <2>1 DEF Sound, Consistent
  <2>2. CASE u = STRTABLE_grow(w)
    <3> HIDE DEF u
    <3>1. /\ Shape(u) /\ u.arenas = w.arenas /\ u.next = w.next /\ u.items = w.items
          /\ u.corrupt = w.corrupt
          /\ \A b \in DOMAIN u.ary : u.ary[b] = {p \in Slots(w) : Bucket(u, Entry(w, p).hash) = b}
      BY <1>9, <1>12, <2>2, GrowSpec
    <3>2. Slots(u) = Slots(w) /\ \A p : Entry(u, p) = Entry(w, p)
      BY <3>1 DEF Slots, Entry
    <3> QED
      BY <1>1, <1>8, <1>13, <1>14, <3>1, <3>2 DEF Sound, Consistent
  <2> QED
    BY <1>15, <2>1, <2>2
<1> HIDE DEF u
<1>17. \A p \in Slots(u) : \/ p \in Slots(t) /\ Entry(u, p) = Entry(t, p)
                           \/ Entry(u, p) = [hash |-> Hash[s], offset |-> ofs]
  BY <1>10, <1>11, <1>16 DEF new
<1> QED
  BY <1>16, <1>17 DEF u

-----------------------------------------------------------------------------
(* Purging: the walk back from the newest entry *)

WalkStep(t, ofs, w) == IF Goes(t, ofs, w) THEN PurgeStep(w) ELSE w

\* The loop is what its recursive definition says: there is such a function.
LEMMA LoopDef ==
  ASSUME NEW t, t.items \in Nat, NEW ofs, NEW walk, walk = PurgeLoop(t, ofs)
  PROVE  /\ walk[0] = PurgeStart(t)
         /\ \A n \in 0 .. t.items : walk[n + 1] = WalkStep(t, ofs, walk[n])
<1> DEFINE Step(w) == WalkStep(t, ofs, w)
           F(n, g) == [i \in 0 .. n |-> IF i = 0 THEN PurgeStart(t) ELSE Step(g[i - 1])]
           P(n) == \E g : g = F(n, g)
<1> HIDE DEF Step
<1>1. P(0)
  <2> DEFINE g == [i \in 0 .. 0 |-> PurgeStart(t)]
  <2>1. g = F(0, g)
    OBVIOUS
  <2> QED
    BY <2>1
<1>2. ASSUME NEW n \in Nat, P(n) PROVE P(n + 1)
  <2>1. PICK g : g = F(n, g)
    BY <1>2
  <2> DEFINE h == [i \in 0 .. n + 1 |-> IF i = n + 1 THEN Step(g[n]) ELSE g[i]]
  <2>2. \A i \in 0 .. n : g[i] = IF i = 0 THEN PurgeStart(t) ELSE Step(g[i - 1])
    BY <2>1
  <2>3. \A i \in 0 .. n : h[i] = g[i]
    OBVIOUS
  <2>4. h[n + 1] = Step(h[n])
    BY <2>3
  <2> HIDE DEF h
  <2>5. \A i \in 0 .. n + 1 : h[i] = IF i = 0 THEN PurgeStart(t) ELSE Step(h[i - 1])
    <3> SUFFICES ASSUME NEW i \in 0 .. n + 1
                 PROVE  h[i] = IF i = 0 THEN PurgeStart(t) ELSE Step(h[i - 1])
      OBVIOUS
    <3>1. CASE i = 0
      BY <2>2, <2>3, <3>1
    <3>2. CASE i = n + 1
      <4>1. i - 1 = n /\ i # 0
        BY <3>2
      <4> QED
        BY <2>4, <3>2, <4>1
    <3>3. CASE i \in 1 .. n
      <4>1. i \in 0 .. n /\ i - 1 \in 0 .. n /\ i # 0
        BY <3>3
      <4> QED
        BY <2>2, <2>3, <4>1
    <3> QED
      BY <3>1, <3>2, <3>3
  <2>6. h = [i \in 0 .. n + 1 |-> h[i]]
    BY DEF h
  <2>7. h = F(n + 1, h)
    BY <2>5, <2>6
  <2> QED
    BY <2>7
<1> HIDE DEF P
<1>3. P(t.items + 1)
  <2> SUFFICES ASSUME ~P(t.items + 1) PROVE FALSE
    OBVIOUS
  <2> DEFINE S == {n \in Nat : ~P(n)}
  <2>1. S \subseteq Nat /\ S # {}
    OBVIOUS
  <2>2. PICK x \in S : \A y \in S : x <= y
    BY <2>1, LeastExists
  <2>3. x # 0
    BY <1>1
  <2>4. x - 1 \in Nat /\ P(x - 1) /\ (x - 1) + 1 = x
    BY <2>2, <2>3
  <2> QED
    BY <1>2, <2>4
<1>4. walk = CHOOSE g : g = F(t.items + 1, g)
  BY DEF PurgeLoop, Step, WalkStep
<1>5. \E g : g = F(t.items + 1, g)
  BY <1>3 DEF P
<1>6. walk = F(t.items + 1, walk)
  <2> DEFINE Q(g) == g = F(t.items + 1, g)
  <2>1. walk = CHOOSE g : Q(g)
    BY <1>4
  <2>2. \E g : Q(g)
    BY <1>5
  <2> HIDE DEF Q
  <2>3. Q(walk)
    BY <2>1, <2>2
  <2> QED
    BY <2>3 DEF Q
<1>7. \A i \in 0 .. t.items + 1 : walk[i] = IF i = 0 THEN PurgeStart(t) ELSE Step(walk[i - 1])
  BY <1>6
<1>8. ASSUME NEW n \in 0 .. t.items PROVE walk[n + 1] = Step(walk[n])
  <2>1. n + 1 \in 0 .. t.items + 1 /\ n + 1 # 0 /\ (n + 1) - 1 = n
    OBVIOUS
  <2> QED
    BY <1>7, <2>1
<1> QED
  BY <1>7, <1>8 DEF Step

\* Where the three pointers are: behind the entry looked at, or, when that is
\* the last one of the arena before, at the start of the arena.
WalkT == [tbl : TableT, arena : Nat, entry : Nat \X Nat, next : Nat, stop : BOOLEAN]
At(w) ==
  IF w.stop THEN w.arena = 1 /\ w.next = 1
  ELSE \/ w.entry = <<w.arena, w.next - 1>>
       \/ w.arena > 1 /\ w.next = 1 /\ w.entry = <<w.arena - 1, ArenaSize>>
Placed(t, w) ==
  /\ w.arena \in 1 .. Len(t.arenas) /\ w.next \in 1 .. ArenaSize + 1
  /\ w.arena = Len(t.arenas) => w.next <= t.next
  /\ At(w)

\* The entries that are still in the table.
Remaining(t, w) == IF w.stop THEN {} ELSE {p \in Slots(t) : ~Before(w.entry, p)}

\* The entry looked at is still in the table.
LEMMA EntryRemains ==
  ASSUME NEW t, Shape(t), NEW w \in WalkT, Placed(t, w), ~w.stop, ~Outside(w)
  PROVE  w.entry \in Remaining(t, w)
<1> DEFINE L == Len(t.arenas)
           N == ArenaSize
           a == w.arena
           e == w.entry
           x == w.next
<1>1. /\ t.next \in 1 .. N + 1 /\ N \in Nat \ {0} /\ L \in Nat
      /\ a \in 1 .. L /\ x \in 1 .. N + 1 /\ (a = L => x <= t.next) /\ e \in Nat \X Nat
  BY ArenaAssumption DEF Shape, TableT, Placed, WalkT
<1>2. (e = <<a, x - 1>> /\ x >= 2) \/ (a > 1 /\ x = 1 /\ e = <<a - 1, N>>)
  BY <1>1 DEF Placed, At, Outside
<1> HIDE DEF a, x, e, N, L
<1>3. e = <<e[1], e[2]>> /\ e[1] \in 1 .. L /\ e[2] \in 1 .. N /\ (e[1] < L \/ e[2] < t.next)
  <2>1. CASE e = <<a, x - 1>> /\ x >= 2
    BY <1>1, <2>1
  <2>2. CASE a > 1 /\ x = 1 /\ e = <<a - 1, N>>
    BY <1>1, <2>2
  <2> QED
    BY <1>2, <2>1, <2>2
<1>4. e \in Slots(t)
  BY <1>1, <1>3 DEF Slots, L, N
<1>5. ~Before(e, e)
  BY <1>1, <1>3 DEF Before
<1> QED
  BY <1>4, <1>5 DEF Remaining, e

\* One step removes the entry looked at and goes to the one before.
LEMMA StepBack ==
  ASSUME NEW t, Shape(t), NEW w \in WalkT, Placed(t, w), ~w.stop, ~Outside(w),
         Unlinked(w.tbl, w.entry) \in TableT
  PROVE  LET v == PurgeStep(w)
         IN  /\ v \in WalkT /\ v.tbl = Unlinked(w.tbl, w.entry) /\ Placed(t, v)
             /\ w.entry \in Remaining(t, w)
             /\ Remaining(t, v) = Remaining(t, w) \ {w.entry}
<1> DEFINE v == PurgeStep(w)
           u == Unlinked(w.tbl, w.entry)
           L == Len(t.arenas)
           N == ArenaSize
           a == w.arena
           e == w.entry
           x == w.next
<1>1. /\ t.next \in 1 .. N + 1 /\ N \in Nat \ {0} /\ L \in Nat
      /\ a \in 1 .. L /\ x \in 1 .. N + 1 /\ (a = L => x <= t.next) /\ e \in Nat \X Nat
  BY ArenaAssumption DEF Shape, TableT, Placed, WalkT
<1>2. (e = <<a, x - 1>> /\ x >= 2) \/ (a > 1 /\ x = 1 /\ e = <<a - 1, N>>)
  BY <1>1 DEF Placed, At, Outside
<1>3. \A p \in Slots(t) : p = <<p[1], p[2]>> /\ p[1] \in 1 .. L /\ p[2] \in 1 .. N
  BY <1>1 DEF Slots
<1>4. \A i \in 1 .. L, j \in 1 .. N : i < L \/ j < t.next => <<i, j>> \in Slots(t)
  BY <1>1 DEF Slots
<1>5. e = <<e[1], e[2]>> /\ e[1] \in 1 .. L /\ e[2] \in 1 .. N /\ (e[1] < L \/ e[2] < t.next)
  <2> HIDE DEF e, a, x, L, N
  <2>1. CASE e = <<a, x - 1>> /\ x >= 2
    BY <1>1, <2>1
  <2>2. CASE a > 1 /\ x = 1 /\ e = <<a - 1, N>>
    BY <1>1, <2>2
  <2> QED
    BY <1>2, <2>1, <2>2
<1>6. e \in Slots(t)
  BY <1>4, <1>5
<1>7. e \in Remaining(t, w)
  BY <1>5, <1>6 DEF Remaining, Before
<1>8. /\ w \in [tbl : TableT, arena : Nat, entry : Nat \X Nat, next : Nat, stop : BOOLEAN]
      /\ u \in TableT /\ w.stop = FALSE
  BY DEF WalkT
<1>9. ASSUME NEW f, f[1] \in Nat, f[2] \in Nat,
             \/ f[1] = e[1] /\ f[2] = e[2] - 1
             \/ e[2] = 1 /\ f[1] = e[1] - 1 /\ f[2] = N
      PROVE  \A p \in Slots(t) : ~Before(f, p) <=> ~Before(e, p) /\ p # e
  <2> SUFFICES ASSUME NEW p \in Slots(t) PROVE ~Before(f, p) <=> ~Before(e, p) /\ p # e
    OBVIOUS
  <2>1. p = <<p[1], p[2]>> /\ p[1] \in 1 .. L /\ p[2] \in 1 .. N
    BY <1>3
  <2>2. p = e <=> p[1] = e[1] /\ p[2] = e[2]
    BY <1>5, <2>1
  <2> QED
    BY <1>1, <1>5, <1>9, <2>1, <2>2 DEF Before
<1> HIDE DEF u, v
<1>10. CASE e = <<a, 1>> /\ a = 1
  <2>1. v = [w EXCEPT !.tbl = u, !.next = 1, !.stop = TRUE]
    BY <1>10 DEF PurgeStep, u, v
  <2>2. v \in WalkT /\ v.tbl = u /\ v.next = 1 /\ v.stop = TRUE /\ v.arena = a /\ v.entry = e
    BY <1>8, <2>1 DEF WalkT
  <2>3. Placed(t, v)
    BY <1>1, <1>10, <2>2 DEF Placed, At
  <2>4. \A p \in Remaining(t, w) : p = e
    BY <1>1, <1>3, <1>10 DEF Remaining, Before
  <2>5. Remaining(t, v) = {}
    BY <2>2 DEF Remaining
  <2> QED
    BY <1>7, <2>2, <2>3, <2>4, <2>5 DEF u, v
<1>11. ASSUME v.stop = FALSE, v.tbl = u, v \in WalkT, Placed(t, v),
              \/ v.entry[1] = e[1] /\ v.entry[2] = e[2] - 1
              \/ e[2] = 1 /\ v.entry[1] = e[1] - 1 /\ v.entry[2] = N
       PROVE  /\ v \in WalkT /\ v.tbl = u /\ Placed(t, v)
              /\ Remaining(t, v) = Remaining(t, w) \ {e}
  <2>1. v.entry[1] \in Nat /\ v.entry[2] \in Nat
    BY <1>11 DEF WalkT
  <2>2. \A p \in Slots(t) : ~Before(v.entry, p) <=> ~Before(e, p) /\ p # e
    BY <1>9, <1>11, <2>1
  <2>3. Remaining(t, v) = {p \in Slots(t) : ~Before(v.entry, p)}
    BY <1>11 DEF Remaining
  <2>4. Remaining(t, w) = {p \in Slots(t) : ~Before(e, p)}
    BY DEF Remaining
  <2> QED
    BY <1>11, <2>2, <2>3, <2>4
<1>12. CASE e = <<a, 1>> /\ a > 1
  <2>1. v = [w EXCEPT !.tbl = u, !.entry = <<a - 1, N>>, !.next = @ - 1]
    BY <1>1, <1>12 DEF PurgeStep, u, v
  <2>2. x = 2 /\ x - 1 \in Nat /\ <<a - 1, N>> \in Nat \X Nat
    BY <1>1, <1>2, <1>12
  <2>3. /\ v \in WalkT /\ v.tbl = u /\ v.next = 1 /\ v.stop = FALSE /\ v.arena = a
        /\ v.entry = <<a - 1, N>>
    <3>1. v = [w EXCEPT !.tbl = u, !.entry = <<a - 1, N>>, !.next = 1]
      BY <2>1, <2>2
    <3> QED
      BY <1>8, <2>2, <3>1 DEF WalkT
  <2>4. Placed(t, v)
    BY <1>1, <1>12, <2>2, <2>3 DEF Placed, At
  <2>5. e[2] = 1 /\ v.entry[1] = e[1] - 1 /\ v.entry[2] = N
    BY <1>12, <2>3
  <2> QED
    BY <1>7, <1>11, <2>3, <2>4, <2>5 DEF u, v
<1>13. CASE e # <<a, 1>> /\ x = 1
  <2>1. v = [w EXCEPT !.tbl = u, !.arena = @ - 1, !.entry[2] = @ - 1, !.next = N]
    BY <1>13 DEF PurgeStep, u, v
  <2>2. e = <<a - 1, N>> /\ a > 1 /\ a - 1 \in Nat /\ N - 1 \in Nat
    BY <1>1, <1>2, <1>13
  <2>3. [e EXCEPT ![2] = @ - 1] = <<a - 1, N - 1>>
    BY <2>2
  <2>4. v = [w EXCEPT !.tbl = u, !.arena = a - 1, !.entry = <<a - 1, N - 1>>, !.next = N]
    BY <2>1, <2>3, <1>8 DEF WalkT
  <2>5. /\ v \in WalkT /\ v.tbl = u /\ v.next = N /\ v.stop = FALSE /\ v.arena = a - 1
        /\ v.entry = <<a - 1, N - 1>>
    BY <1>1, <1>8, <2>2, <2>4 DEF WalkT
  <2>6. Placed(t, v)
    BY <1>1, <2>2, <2>5 DEF Placed, At
  <2>7. v.entry[1] = e[1] /\ v.entry[2] = e[2] - 1
    BY <2>2, <2>5
  <2> QED
    BY <1>7, <1>11, <2>5, <2>6, <2>7 DEF u, v
<1>14. CASE e # <<a, 1>> /\ x # 1
  <2>1. v = [w EXCEPT !.tbl = u, !.entry[2] = @ - 1, !.next = @ - 1]
    BY <1>14 DEF PurgeStep, u, v
  <2>2. e = <<a, x - 1>> /\ x >= 3 /\ x - 2 \in Nat /\ x - 1 \in Nat /\ a \in Nat
    BY <1>1, <1>2, <1>14
  <2>3. [e EXCEPT ![2] = @ - 1] = <<a, x - 2>>
    BY <2>2, <1>1
  <2>4. v = [w EXCEPT !.tbl = u, !.entry = <<a, x - 2>>, !.next = x - 1]
    BY <2>1, <2>3, <1>8 DEF WalkT
  <2>5. /\ v \in WalkT /\ v.tbl = u /\ v.next = x - 1 /\ v.stop = FALSE /\ v.arena = a
        /\ v.entry = <<a, x - 2>>
    BY <1>1, <1>8, <2>2, <2>4 DEF WalkT
  <2>6. Placed(t, v)
    BY <1>1, <2>2, <2>5 DEF Placed, At
  <2>7. v.entry[1] = e[1] /\ v.entry[2] = e[2] - 1
    BY <1>1, <2>2, <2>5
  <2> QED
    BY <1>7, <1>11, <2>5, <2>6, <2>7 DEF u, v
<1>15. e = <<a, 1>> => a = 1 \/ a > 1
  BY <1>1
<1> QED
  BY <1>10, <1>12, <1>13, <1>14, <1>15 DEF v

\* The invariant of the loop after n rounds: what has been removed is gone from
\* its chain and the count, and lies behind ofs; each round removes one entry.
LoopInv(t, ofs, n, w) ==
  /\ w \in WalkT /\ Placed(t, w)
  /\ w.tbl.arenas = t.arenas /\ w.tbl.next = t.next /\ w.tbl.corrupt = t.corrupt
  /\ DOMAIN w.tbl.ary = DOMAIN t.ary
  /\ \A b \in DOMAIN t.ary : w.tbl.ary[b] = t.ary[b] \cap Remaining(t, w)
  /\ w.tbl.items = Cardinality(Remaining(t, w))
  /\ \A p \in Slots(t) : p \notin Remaining(t, w) => Entry(t, p).offset >= ofs
  /\ Goes(t, ofs, w) => Cardinality(Remaining(t, w)) = t.items - n

LEMMA LoopStart ==
  ASSUME NEW t, Sound(t), t.items # 0, NEW ofs
  PROVE  LoopInv(t, ofs, 0, PurgeStart(t))
<1> DEFINE w == PurgeStart(t)
<1>1. /\ t \in TableT /\ Shape(t) /\ Consistent(t) /\ t.next \in 1 .. ArenaSize + 1
      /\ ArenaSize \in Nat \ {0} /\ Len(t.arenas) \in Nat /\ t.items \in Nat /\ t.ary \in AryT
  BY ArenaAssumption DEF Sound, Shape, TableT
<1>2. Slots(t) # {}
  BY <1>1, FS_EmptySet DEF Consistent
<1>3. Len(t.arenas) \in 1 .. Len(t.arenas)
  BY <1>1, <1>2 DEF Slots
<1>4. /\ w.tbl = t /\ w.arena = Len(t.arenas) /\ w.entry = <<Len(t.arenas), t.next - 1>>
      /\ w.next = t.next /\ w.stop = FALSE
  BY DEF PurgeStart
<1>5. w \in WalkT
  <2>1. t.next - 1 \in Nat /\ t.next \in Nat
    BY <1>1
  <2> QED
    BY <1>1, <2>1 DEF PurgeStart, WalkT
<1>6. Placed(t, w)
  BY <1>1, <1>3, <1>4 DEF Placed, At
<1> HIDE DEF w
<1>7. Remaining(t, w) = Slots(t)
  <2>1. ASSUME NEW p \in Slots(t) PROVE ~Before(w.entry, p)
    <3>1. p[1] \in 1 .. Len(t.arenas) /\ p[2] \in Nat /\ (p[1] < Len(t.arenas) \/ p[2] < t.next)
      BY <1>1 DEF Slots
    <3> QED
      BY <1>1, <1>4, <3>1 DEF Before
  <2> QED
    BY <1>4, <2>1 DEF Remaining
<1>8. \A b \in DOMAIN t.ary : t.ary[b] = t.ary[b] \cap Slots(t)
  BY <1>1 DEF Consistent
<1>9. t.items = Cardinality(Slots(t)) /\ t.items = t.items - 0
  BY <1>1 DEF Consistent
<1> QED
  BY <1>4, <1>5, <1>6, <1>7, <1>8, <1>9 DEF LoopInv, w

LEMMA LoopStep ==
  ASSUME NEW t, Sound(t), NEW ofs, NEW n \in Nat, NEW w, LoopInv(t, ofs, n, w)
  PROVE  LoopInv(t, ofs, n + 1, WalkStep(t, ofs, w))
<1>1. /\ t \in TableT /\ Shape(t) /\ Consistent(t) /\ t.items \in Nat /\ t.ary \in AryT
  BY DEF Sound, Shape, TableT
<1>2. CASE ~Goes(t, ofs, w)
  BY <1>2 DEF LoopInv, WalkStep
<1>3. CASE Goes(t, ofs, w)
  <2> DEFINE e == w.entry
             v == PurgeStep(w)
             u == Unlinked(w.tbl, e)
             b0 == Bucket(t, Entry(t, e).hash)
             ary == [w.tbl.ary EXCEPT ![b0] = @ \ {e}]
             m == Cardinality(DOMAIN t.ary)
  <2>1. /\ w \in WalkT /\ Placed(t, w) /\ ~w.stop /\ ~Outside(w) /\ Entry(t, e).offset >= ofs
        /\ w.tbl \in TableT
    BY <1>3 DEF LoopInv, Goes, WalkT
  <2>2. m \in Nat \ {0} /\ DOMAIN t.ary = 0 .. m - 1 /\ t.ary \in [0 .. m - 1 -> SUBSET (Nat \X Nat)]
    BY <1>1, AryFacts
  <2> HIDE DEF m
  <2>3. IsFiniteSet(Remaining(t, w)) /\ Cardinality(Remaining(t, w)) \in Nat
    <3>1. Remaining(t, w) \subseteq Slots(t)
      BY DEF Remaining
    <3> QED
      BY <1>1, <3>1, SlotsFinite, FS_Subset, FS_CardinalityType
  <2>4. e \in Remaining(t, w) /\ e \in Slots(t)
    BY <1>1, <2>1, EntryRemains DEF Remaining
  <2>5. Cardinality(Remaining(t, w) \ {e}) = Cardinality(Remaining(t, w)) - 1
        /\ Cardinality(Remaining(t, w)) - 1 \in Nat
    <3>1. Cardinality(Remaining(t, w) \ {e}) = Cardinality(Remaining(t, w)) - 1
      BY <2>3, <2>4, FS_RemoveElement
    <3>2. Cardinality(Remaining(t, w)) # 0
      BY <2>3, <2>4, FS_EmptySet
    <3> QED
      BY <2>3, <3>1, <3>2
  <2>6. Entry(w.tbl, e) = Entry(t, e) /\ Bucket(w.tbl, Entry(t, e).hash) = b0 /\ b0 \in 0 .. m - 1
    <3>1. Entry(t, e).hash \in Nat
      BY <1>1, <2>4, SlotFacts
    <3> QED
      BY <2>2, <3>1 DEF LoopInv, Entry, Bucket, m
  <2>7. /\ u \in TableT /\ u.arenas = t.arenas /\ u.next = t.next /\ u.corrupt = t.corrupt
        /\ u.items = Cardinality(Remaining(t, w)) - 1 /\ u.ary = ary
    <3>1. u = [w.tbl EXCEPT !.items = Cardinality(Remaining(t, w)) - 1, !.ary = ary]
      <4>1. u = [w.tbl EXCEPT !.items = @ - 1, !.ary[b0] = @ \ {e}]
        BY <2>6 DEF Unlinked
      <4> HIDE DEF u, b0, e
      <4> QED
        BY <2>1, <4>1 DEF LoopInv, TableT
    <3>2. w.tbl.ary \in [0 .. m - 1 -> SUBSET (Nat \X Nat)]
      <4>1. w.tbl.ary \in AryT /\ DOMAIN w.tbl.ary = 0 .. m - 1
        BY <2>1, <2>2 DEF LoopInv, TableT
      <4>2. Cardinality(0 .. m - 1) = m
        BY <2>2, FS_Interval
      <4> QED
        BY <4>1, <4>2, AryFacts
    <3>3. ary \in [0 .. m - 1 -> SUBSET (Nat \X Nat)]
      BY <2>6, <3>2
    <3>4. ary \in AryT
      BY <2>2, <3>3 DEF AryT
    <3> HIDE DEF u, ary
    <3> QED
      BY <2>1, <2>5, <3>1, <3>4 DEF LoopInv, TableT
  <2>8. DOMAIN ary = DOMAIN t.ary
    BY DEF LoopInv
  <2> HIDE DEF u
  <2>9. /\ v \in WalkT /\ v.tbl = u /\ Placed(t, v)
        /\ Remaining(t, v) = Remaining(t, w) \ {e}
    BY <1>1, <2>1, <2>7, StepBack DEF u
  <2>10. ASSUME NEW b \in DOMAIN t.ary PROVE u.ary[b] = t.ary[b] \cap Remaining(t, v)
    <3>1. w.tbl.ary[b] = t.ary[b] \cap Remaining(t, w)
      BY DEF LoopInv
    <3>2. DOMAIN w.tbl.ary = DOMAIN t.ary
      BY DEF LoopInv
    <3>3. t.ary[b] = {p \in Slots(t) : Bucket(t, Entry(t, p).hash) = b}
      BY <1>1 DEF Consistent
    <3>4. CASE b = b0
      <4>1. ary[b] = w.tbl.ary[b] \ {e}
        BY <3>2, <3>4
      <4> QED
        BY <2>7, <2>9, <3>1, <4>1
    <3>5. CASE b # b0
      <4>1. ary[b] = w.tbl.ary[b]
        BY <3>2, <3>5
      <4>2. e \notin t.ary[b]
        BY <3>3, <3>5
      <4> QED
        BY <2>7, <2>9, <3>1, <4>1, <4>2
    <3> QED
      BY <3>4, <3>5
  <2>11. \A p \in Slots(t) : p \notin Remaining(t, v) => Entry(t, p).offset >= ofs
    BY <2>1, <2>9 DEF LoopInv
  <2>12. Cardinality(Remaining(t, v)) = t.items - (n + 1)
    <3>1. Cardinality(Remaining(t, w)) = t.items - n
      BY <1>3 DEF LoopInv
    <3>2. Cardinality(Remaining(t, v)) = Cardinality(Remaining(t, w)) - 1
      BY <2>5, <2>9
    <3> QED
      BY <1>1, <3>1, <3>2
  <2>13. WalkStep(t, ofs, w) = v
    BY <1>3 DEF WalkStep
  <2> HIDE DEF v, ary
  <2>14. u.items = Cardinality(Remaining(t, v))
    BY <2>5, <2>7, <2>9
  <2> QED
    BY <2>7, <2>8, <2>9, <2>10, <2>11, <2>12, <2>13, <2>14 DEF LoopInv
<1> QED
  BY <1>2, <1>3

\* The table the walk leaves: the arenas cut off behind the last entry kept.
Cut(t, w) == [a \in 1 .. w.arena |-> IF a < w.arena THEN t.arenas[a]
                                      ELSE SubSeq(t.arenas[a], 1, w.next - 1)]
LEMMA CutOff ==
  ASSUME NEW t, Shape(t), NEW w \in WalkT, Placed(t, w), w.stop \/ ~Outside(w), NEW arenas, arenas = Cut(t, w)
  PROVE  /\ arenas \in Seq(Seq(EntryT)) /\ Len(arenas) = w.arena
         /\ \A a \in 1 .. w.arena : Len(arenas[a]) = IF a < w.arena THEN ArenaSize ELSE w.next - 1
         /\ {p \in (1 .. w.arena) \X (1 .. ArenaSize) : p[1] < w.arena \/ p[2] < w.next} = Remaining(t, w)
         /\ \A p \in Remaining(t, w) : arenas[p[1]][p[2]] = Entry(t, p)
<1> DEFINE L == Len(t.arenas)
           N == ArenaSize
           l == w.arena
           x == w.next
           e == w.entry
           kept == {p \in (1 .. l) \X (1 .. N) : p[1] < l \/ p[2] < x}
<1>1. /\ t.next \in 1 .. N + 1 /\ N \in Nat \ {0} /\ L \in Nat /\ t.arenas \in Seq(Seq(EntryT))
      /\ l \in 1 .. L /\ x \in 1 .. N + 1 /\ (l = L => x <= t.next) /\ e \in Nat \X Nat
  BY ArenaAssumption DEF Shape, TableT, Placed, WalkT
<1>2. \A a \in 1 .. L : t.arenas[a] \in Seq(EntryT) /\ Len(t.arenas[a]) = IF a < L THEN N ELSE t.next - 1
  BY <1>1 DEF Shape
<1>3. x - 1 \in 0 .. Len(t.arenas[l]) /\ t.arenas[l] \in Seq(EntryT)
  <2> HIDE DEF L, N, l, x, e
  <2>1. t.arenas[l] \in Seq(EntryT) /\ Len(t.arenas[l]) = IF l < L THEN N ELSE t.next - 1
    BY <1>1, <1>2
  <2>2. CASE l < L
    BY <1>1, <2>1, <2>2
  <2>3. CASE l = L
    <3>1. Len(t.arenas[l]) = t.next - 1
      BY <1>1, <2>1, <2>3
    <3> QED
      BY <1>1, <2>1, <2>3, <3>1
  <2> QED
    BY <1>1, <2>2, <2>3
<1> DEFINE last == SubSeq(t.arenas[l], 1, x - 1)
<1>4. /\ last \in Seq(EntryT) /\ Len(last) = x - 1
      /\ \A j \in 1 .. x - 1 : last[j] = t.arenas[l][j]
  <2> HIDE DEF L, N, l, x, e
  <2>1. x - 1 \in Nat /\ x - 1 \in 0 .. Len(t.arenas[l])
    BY <1>1, <1>3
  <2> QED
    BY <1>3, <2>1
<1> HIDE DEF last, L, N, l, x, e
<1>5. /\ DOMAIN arenas = 1 .. l /\ arenas[l] = last
      /\ \A a \in 1 .. l : a < l => arenas[a] = t.arenas[a]
  <2>1. arenas = [a \in 1 .. l |-> IF a < l THEN t.arenas[a] ELSE SubSeq(t.arenas[a], 1, x - 1)]
    BY DEF l, x, Cut
  <2>2. l \in 1 .. l /\ ~(l < l)
    BY <1>1
  <2> QED
    BY <2>1, <2>2 DEF last
<1>6. \A a \in 1 .. l : /\ arenas[a] \in Seq(EntryT)
                        /\ Len(arenas[a]) = IF a < l THEN N ELSE x - 1
  <2> SUFFICES ASSUME NEW a \in 1 .. l
               PROVE  /\ arenas[a] \in Seq(EntryT)
                      /\ Len(arenas[a]) = IF a < l THEN N ELSE x - 1
    OBVIOUS
  <2>1. CASE a < l
    <3>1. a \in 1 .. L /\ a < L
      BY <1>1, <2>1
    <3> QED
      BY <1>2, <1>5, <2>1, <3>1
  <2>2. CASE a = l
    <3>1. ~(a < l)
      BY <1>1, <2>2
    <3> QED
      BY <1>4, <1>5, <2>2, <3>1
  <2> QED
    BY <1>1, <2>1, <2>2
<1>7. arenas \in Seq(Seq(EntryT)) /\ Len(arenas) = l
  <2>1. arenas \in [1 .. l -> Seq(EntryT)] /\ l \in Nat
    <3>1. arenas = [a \in 1 .. l |-> arenas[a]]
      BY <1>5 DEF l, Cut
    <3> QED
      BY <1>1, <1>6, <3>1
  <2>2. arenas \in Seq(Seq(EntryT))
    BY <2>1, SeqDef
  <2> QED
    BY <1>5, <2>1, <2>2, LenProperties
<1>8. \A p : p \in kept <=> p = <<p[1], p[2]>> /\ p[1] \in 1 .. l /\ p[2] \in 1 .. N /\ (p[1] < l \/ p[2] < x)
  OBVIOUS
<1>9. \A p : p \in Slots(t) <=> p = <<p[1], p[2]>> /\ p[1] \in 1 .. L /\ p[2] \in 1 .. N
                                 /\ (p[1] < L \/ p[2] < t.next)
  BY DEF Slots, L, N
<1>10. kept = Remaining(t, w)
  <2>1. CASE w.stop
    <3>1. l = 1 /\ x = 1
      BY <2>1 DEF Placed, At, l, x
    <3>2. kept = {}
      BY <1>1, <3>1
    <3> QED
      BY <2>1, <3>2 DEF Remaining
  <2>2. CASE ~w.stop
    <3>1. (e = <<l, x - 1>> /\ x >= 2) \/ (l > 1 /\ x = 1 /\ e = <<l - 1, N>>)
      BY <1>1, <2>2 DEF Placed, At, Outside, l, x, e, N
    <3>2. Remaining(t, w) = {p \in Slots(t) : ~Before(e, p)}
      BY <2>2 DEF Remaining, e
    <3>3. \A p : p \in kept <=> p \in Slots(t) /\ ~Before(e, p)
      <4> SUFFICES ASSUME NEW p PROVE p \in kept <=> p \in Slots(t) /\ ~Before(e, p)
        OBVIOUS
      <4> HIDE DEF kept
      <4>1. CASE e = <<l, x - 1>> /\ x >= 2
        <5>1. e[1] = l /\ e[2] = x - 1
          BY <4>1
        <5>2. ASSUME p \in kept PROVE p \in Slots(t) /\ ~Before(e, p)
          <6>1. p = <<p[1], p[2]>> /\ p[1] \in 1 .. l /\ p[2] \in 1 .. N /\ (p[1] < l \/ p[2] < x)
            BY <1>8, <5>2
          <6>2. p[1] \in 1 .. L /\ (p[1] < L \/ p[2] < t.next)
            BY <1>1, <6>1
          <6>3. p \in Slots(t)
            BY <1>9, <6>1, <6>2
          <6>4. ~Before(e, p)
            BY <1>1, <5>1, <6>1 DEF Before
          <6> QED
            BY <6>3, <6>4
        <5>3. ASSUME p \in Slots(t), ~Before(e, p) PROVE p \in kept
          <6>1. p = <<p[1], p[2]>> /\ p[1] \in 1 .. L /\ p[2] \in 1 .. N
            BY <1>9, <5>3
          <6>2. p[1] \in 1 .. l /\ (p[1] < l \/ p[2] < x)
            BY <1>1, <5>1, <5>3, <6>1 DEF Before
          <6> QED
            BY <1>8, <6>1, <6>2
        <5> QED
          BY <5>2, <5>3
      <4>2. CASE l > 1 /\ x = 1 /\ e = <<l - 1, N>>
        <5>1. e[1] = l - 1 /\ e[2] = N /\ x = 1 /\ l > 1
          BY <4>2
        <5>2. ASSUME p \in kept PROVE p \in Slots(t) /\ ~Before(e, p)
          <6>1. p = <<p[1], p[2]>> /\ p[1] \in 1 .. l /\ p[2] \in 1 .. N /\ (p[1] < l \/ p[2] < x)
            BY <1>8, <5>2
          <6>2. p[1] \in 1 .. L /\ (p[1] < L \/ p[2] < t.next)
            BY <1>1, <6>1
          <6>3. p \in Slots(t)
            BY <1>9, <6>1, <6>2
          <6>4. ~Before(e, p)
            BY <1>1, <5>1, <6>1 DEF Before
          <6> QED
            BY <6>3, <6>4
        <5>3. ASSUME p \in Slots(t), ~Before(e, p) PROVE p \in kept
          <6>1. p = <<p[1], p[2]>> /\ p[1] \in 1 .. L /\ p[2] \in 1 .. N
            BY <1>9, <5>3
          <6>2. p[1] \in 1 .. l /\ (p[1] < l \/ p[2] < x)
            BY <1>1, <5>1, <5>3, <6>1 DEF Before
          <6> QED
            BY <1>8, <6>1, <6>2
        <5> QED
          BY <5>2, <5>3
      <4> QED
        BY <3>1, <4>1, <4>2
    <3> QED
      BY <3>2, <3>3
  <2> QED
    BY <2>1, <2>2
<1>11. ASSUME NEW p \in Remaining(t, w) PROVE arenas[p[1]][p[2]] = Entry(t, p)
  <2>1. p[1] \in 1 .. l /\ p[2] \in 1 .. N /\ (p[1] < l \/ p[2] < x)
    BY <1>8, <1>10
  <2>2. CASE p[1] < l
    BY <1>5, <2>1, <2>2 DEF Entry
  <2>3. CASE p[1] = l
    <3>1. p[2] \in 1 .. x - 1
      BY <1>1, <2>1, <2>3
    <3> QED
      BY <1>4, <1>5, <2>3, <3>1 DEF Entry
  <2> QED
    BY <1>1, <2>1, <2>2, <2>3
<1> QED
  BY <1>6, <1>7, <1>10, <1>11 DEF l, N, x

\* A purge that stays inside the arenas removes exactly the entries from ofs on.
LEMMA PurgeSpec ==
  ASSUME NEW t, Sound(t), NEW ofs \in Nat
  PROVE  LET u == STRTABLE_purge(t, ofs)
         IN  \/ u.corrupt
             \/ /\ Sound(u) /\ Slots(u) \subseteq Slots(t)
                /\ \A p \in Slots(u) : Entry(u, p) = Entry(t, p) /\ Entry(u, p).offset < ofs
<1> DEFINE walk == PurgeLoop(t, ofs)
           end == walk[t.items + 1]
           u == STRTABLE_purge(t, ofs)
<1>1. /\ t \in TableT /\ Shape(t) /\ Consistent(t) /\ ~t.corrupt /\ t.items \in Nat /\ t.ary \in AryT
      /\ t.items = Cardinality(Slots(t))
  BY DEF Sound, Shape, TableT, Consistent
<1>2. CASE t.items = 0
  <2>1. Slots(t) = {}
    BY <1>1, <1>2, SlotsFinite, FS_EmptySet
  <2> QED
    BY <1>2, <2>1 DEF STRTABLE_purge
<1>3. CASE t.items # 0
  <2> HIDE DEF walk
  <2>1. walk[0] = PurgeStart(t) /\ \A n \in 0 .. t.items : walk[n + 1] = WalkStep(t, ofs, walk[n])
    BY <1>1, LoopDef DEF walk
  <2>2. LoopInv(t, ofs, 0, walk[0])
    BY <1>3, <2>1, LoopStart
  <2>3. LoopInv(t, ofs, t.items + 1, end)
    <3> SUFFICES ASSUME ~LoopInv(t, ofs, t.items + 1, end) PROVE FALSE
      OBVIOUS
    <3> DEFINE S == {n \in 0 .. t.items + 1 : ~LoopInv(t, ofs, n, walk[n])}
    <3>1. S \subseteq Nat /\ S # {}
      BY <1>1
    <3>2. PICK x \in S : \A y \in S : x <= y
      BY <3>1, LeastExists
    <3>3. x # 0
      BY <2>2
    <3>4. x - 1 \in 0 .. t.items /\ x - 1 \in Nat /\ (x - 1) + 1 = x /\ x - 1 \in 0 .. t.items + 1
      BY <1>1, <3>2, <3>3
    <3>5. LoopInv(t, ofs, x - 1, walk[x - 1])
      BY <3>2, <3>4
    <3>6. LoopInv(t, ofs, x, WalkStep(t, ofs, walk[x - 1]))
      BY <3>4, <3>5, LoopStep
    <3> QED
      BY <2>1, <3>4, <3>6
  <2> HIDE DEF end
  <2>4. end \in WalkT /\ Placed(t, end) /\ end.tbl \in TableT
    BY <2>3 DEF LoopInv, WalkT
  <2>5. Remaining(t, end) \subseteq Slots(t)
    BY DEF Remaining
  <2>6. ~Goes(t, ofs, end)
    <3>1. Cardinality(Remaining(t, end)) \in Nat
      BY <1>1, <2>5, SlotsFinite, FS_Subset, FS_CardinalityType
    <3> QED
      BY <1>1, <2>3, <3>1 DEF LoopInv
  <2>7. CASE Outside(end)
    <3>1. u = [t EXCEPT !.corrupt = TRUE]
      BY <1>3, <2>7 DEF STRTABLE_purge, walk, end
    <3> QED
      BY <1>1, <3>1 DEF TableT
  <2>8. CASE ~Outside(end)
    <3> DEFINE arenas == Cut(t, end)
    <3>1. u = [end.tbl EXCEPT !.arenas = arenas, !.next = end.next]
      <4>1. end.tbl.arenas = t.arenas
        BY <2>3 DEF LoopInv
      <4>2. u = [end.tbl EXCEPT !.arenas = [a \in 1 .. end.arena |-> IF a < end.arena THEN @[a]
                                                         ELSE SubSeq(@[a], 1, end.next - 1)],
                                !.next = end.next]
        BY <1>3, <2>8 DEF STRTABLE_purge, walk, end
      <4> QED
        BY <4>1, <4>2 DEF Cut
    <3>2. /\ arenas \in Seq(Seq(EntryT)) /\ Len(arenas) = end.arena
          /\ \A a \in 1 .. end.arena : Len(arenas[a]) = IF a < end.arena THEN ArenaSize ELSE end.next - 1
          /\ {p \in (1 .. end.arena) \X (1 .. ArenaSize) : p[1] < end.arena \/ p[2] < end.next}
               = Remaining(t, end)
          /\ \A p \in Remaining(t, end) : arenas[p[1]][p[2]] = Entry(t, p)
      BY <1>1, <2>4, <2>8, CutOff
    <3> HIDE DEF arenas, u
    <3>3. end.next \in Nat /\ end.next \in 1 .. ArenaSize + 1 /\ end.arena # 0
      BY <2>4, ArenaAssumption DEF Placed
    <3>4. /\ u \in TableT /\ u.arenas = arenas /\ u.next = end.next /\ u.ary = end.tbl.ary
          /\ u.items = end.tbl.items /\ u.corrupt = end.tbl.corrupt
      BY <2>4, <3>1, <3>2, <3>3 DEF TableT
    <3>5. Shape(u)
      BY <3>2, <3>3, <3>4 DEF Shape
    <3>6. Slots(u) = Remaining(t, end)
      BY <3>2, <3>4 DEF Slots
    <3>7. \A p \in Slots(u) : Entry(u, p) = Entry(t, p)
      BY <3>2, <3>4, <3>6 DEF Entry
    <3>8. ~u.corrupt /\ u.items = Cardinality(Slots(u)) /\ DOMAIN u.ary = DOMAIN t.ary
      BY <1>1, <2>3, <3>4, <3>6 DEF LoopInv
    <3>9. \A b \in DOMAIN u.ary : u.ary[b] = {p \in Slots(u) : Bucket(u, Entry(u, p).hash) = b}
      <4> SUFFICES ASSUME NEW b \in DOMAIN t.ary
                   PROVE  u.ary[b] = {p \in Slots(u) : Bucket(u, Entry(u, p).hash) = b}
        BY <3>8
      <4>1. u.ary[b] = t.ary[b] \cap Slots(u)
        BY <2>3, <3>4, <3>6 DEF LoopInv
      <4>2. t.ary[b] = {p \in Slots(t) : Bucket(t, Entry(t, p).hash) = b}
        BY <1>1 DEF Consistent
      <4>3. \A h : Bucket(u, h) = Bucket(t, h)
        BY <3>8 DEF Bucket
      <4> QED
        BY <2>5, <3>6, <3>7, <4>1, <4>2, <4>3
    <3>10. \A p, q \in Slots(u) : Before(p, q) => Entry(u, p).offset < Entry(u, q).offset
      BY <1>1, <2>5, <3>6, <3>7 DEF Consistent
    <3>11. ASSUME NEW p \in Slots(u) PROVE Entry(u, p).offset < ofs
      <4> DEFINE e == end.entry
      <4>1. ~end.stop /\ p \in Slots(t) /\ ~Before(e, p)
        BY <3>6 DEF Remaining
      <4>2. Entry(t, e).offset < ofs \/ ~(Entry(t, e).offset >= ofs)
        BY <2>6, <2>8, <4>1 DEF Goes
      <4>3. e \in Slots(t)
        <5>1. e \in Remaining(t, end)
          BY <1>1, <2>4, <2>8, <4>1, EntryRemains
        <5> QED
          BY <2>5, <5>1
      <4>4. Entry(t, e).offset \in Nat /\ Entry(t, p).offset \in Nat
        BY <1>1, <4>1, <4>3, SlotFacts
      <4>5. p = e \/ Before(p, e)
        <5>1. /\ p = <<p[1], p[2]>> /\ p[1] \in Nat /\ p[2] \in Nat
              /\ e = <<e[1], e[2]>> /\ e[1] \in Nat /\ e[2] \in Nat
          BY <1>1, <4>1, <4>3, SlotFacts
        <5> QED
          BY <4>1, <5>1 DEF Before
      <4>6. Entry(t, p).offset <= Entry(t, e).offset
        BY <1>1, <4>1, <4>3, <4>4, <4>5 DEF Consistent
      <4> QED
        BY <3>7, <4>2, <4>4, <4>6
    <3> QED
      BY <2>5, <3>5, <3>6, <3>7, <3>8, <3>9, <3>10, <3>11 DEF Sound, Consistent, u
  <2> QED
    BY <2>7, <2>8
<1> QED
  BY <1>2, <1>3

-----------------------------------------------------------------------------
(* The inductive invariant *)

\* Every entry names a token of the buffer with the hash of its string, or one
\* behind the end of the buffer.
NamesIn(t, buf) ==
  \A p \in Slots(t) : LET o == Entry(t, p).offset
                      IN  o # 0 /\ (o <= Len(buf) => IsString(buf[o]) /\ Hash[buf[o].s] = Entry(t, p).hash)
UpTo(t, n) == \A p \in Slots(t) : Entry(t, p).offset <= n

\* Nothing is left of an append that failed.
Tidy == obuf_last_successfull_offset = 0 \/ phase \in {"next", "merging"}

TableInv(t) ==
  /\ Sound(t) /\ NamesIn(t, out)
  /\ Tidy => UpTo(t, Len(out))
  /\ ~opt.dedupe => Slots(t) = {}

Backward(b) == \A i \in 1 .. Len(b) : HasOffset(b[i]) => b[i].n <= i

ITypes ==
  /\ opt \in Options
  /\ out \in Seq(Tok)
  /\ obuf_last_successfull_offset \in 0 .. Len(out) + 1
  /\ cnt_of_merged_elements \in Nat
  /\ tracked_offsets_tbl \in [0 .. MaxOffset -> Nat]
  /\ queue \in Seq(Document)
  /\ ibuf \in Seq(Tok) /\ Len(ibuf) < MaxOffset /\ Backward(ibuf)
  /\ ipos \in Nat \ {0}

IInv ==
  /\ ITypes
  /\ phase # "corrupt" => TableInv(string_deduper_tbl) /\ TableInv(classname_deduper_tbl)

-----------------------------------------------------------------------------
(* Buffers *)

\* The second buffer has the text and the counts of the first and perhaps more;
\* flags may differ.
SameText(b1, b2, n) == \A o \in 1 .. n : b2[o].tag = b1[o].tag /\ b2[o].s = b1[o].s
SameCounts(b1, b2, n) == \A o \in 1 .. n : b2[o].n = b1[o].n
Grown(b1, b2) == /\ b2 \in Seq(Tok) /\ Len(b1) <= Len(b2)
                 /\ SameText(b1, b2, Len(b1)) /\ SameCounts(b1, b2, Len(b1))

LEMMA TokenType ==
  ASSUME NEW tag \in Tags, NEW n \in Nat, NEW s \in Strings
  PROVE  T(tag, n, s) \in Tok
  BY DEF T, Tok

LEMMA TokenFacts ==
  ASSUME NEW b \in Seq(Tok), NEW i \in 1 .. Len(b)
  PROVE  /\ b[i] \in Tok /\ b[i].tag \in Tags /\ b[i].n \in Nat /\ b[i].s \in Strings
<1>1. b[i] \in Tok
  OBVIOUS
<1> QED
  BY <1>1 DEF Tok

LEMMA GrownAppend ==
  ASSUME NEW b \in Seq(Tok), NEW x \in Tok
  PROVE  Grown(b, Append(b, x)) /\ Len(Append(b, x)) = Len(b) + 1 /\ Append(b, x)[Len(b) + 1] = x
<1>1. /\ Append(b, x) \in Seq(Tok) /\ Len(Append(b, x)) = Len(b) + 1 /\ Append(b, x)[Len(b) + 1] = x
      /\ \A o \in 1 .. Len(b) : Append(b, x)[o] = b[o]
  OBVIOUS
<1> QED
  BY <1>1 DEF Grown, SameText, SameCounts

LEMMA GrownConcat ==
  ASSUME NEW b \in Seq(Tok), NEW c \in Seq(Tok)
  PROVE  /\ Grown(b, b \o c) /\ Len(b \o c) = Len(b) + Len(c)
         /\ \A i \in 1 .. Len(c) : (b \o c)[Len(b) + i] = c[i]
<1>1. /\ b \o c \in Seq(Tok) /\ Len(b \o c) = Len(b) + Len(c)
      /\ \A o \in 1 .. Len(b) : (b \o c)[o] = b[o]
      /\ \A i \in 1 .. Len(c) : (b \o c)[Len(b) + i] = c[i]
  BY ConcatProperties
<1>2. Len(b) <= Len(b \o c)
  BY <1>1
<1> QED
  BY <1>1, <1>2 DEF Grown, SameText, SameCounts

WithCount(b, at, n) == [b EXCEPT ![at].n = n]

\* Setting a flag or a count changes no text.
LEMMA SameFlagged ==
  ASSUME NEW b \in Seq(Tok), NEW to, NEW c, NEW n \in Nat,
         c = SRL_SET_TRACK_FLAG(b, to) \/ c = WithCount(b, to, n)
  PROVE  /\ c \in Seq(Tok) /\ Len(c) = Len(b) /\ SameText(b, c, Len(b))
         /\ \A o \in 1 .. Len(b) : o # to => c[o].n = b[o].n
         /\ c = SRL_SET_TRACK_FLAG(b, to) => SameCounts(b, c, Len(b))
<1>0. /\ SRL_SET_TRACK_FLAG(b, to) = [b EXCEPT ![to].trk = TRUE]
      /\ WithCount(b, to, n) = [b EXCEPT ![to].n = n]
  BY DEF SRL_SET_TRACK_FLAG, WithCount
<1>1. CASE to \notin 1 .. Len(b)
  <2>1. c = b
    BY <1>0, <1>1
  <2> QED
    BY <2>1 DEF SameText, SameCounts
<1>2. CASE to \in 1 .. Len(b)
  <2>1. b[to] \in [tag : Tags, n : Nat, s : Strings, trk : BOOLEAN]
    BY <1>2, TokenFacts, Zenon DEF Tok
  <2>2. PICK x : /\ x \in {[b[to] EXCEPT !.trk = TRUE], [b[to] EXCEPT !.n = n]}
                 /\ c = [b EXCEPT ![to] = x]
                 /\ c = [b EXCEPT ![to].trk = TRUE] => x = [b[to] EXCEPT !.trk = TRUE]
    <3>1. CASE c = [b EXCEPT ![to].trk = TRUE]
      <4>1. c = [b EXCEPT ![to] = [b[to] EXCEPT !.trk = TRUE]]
        BY <3>1
      <4> QED
        BY <4>1
    <3>2. CASE c = [b EXCEPT ![to].n = n]
      <4>1. c = [b EXCEPT ![to] = [b[to] EXCEPT !.n = n]]
        BY <3>2
      <4> QED
        BY <3>1, <4>1
    <3> QED
      BY <1>0, <3>1, <3>2
  <2>3. x \in Tok /\ x.tag = b[to].tag /\ x.s = b[to].s
    <3>1. CASE x = [b[to] EXCEPT !.trk = TRUE]
      BY <2>1, <3>1 DEF Tok
    <3>2. CASE x = [b[to] EXCEPT !.n = n]
      BY <2>1, <3>2 DEF Tok
    <3> QED
      BY <2>2, <3>1, <3>2
  <2>4. c = [b EXCEPT ![to] = x]
    BY <2>2
  <2>5. c \in Seq(Tok) /\ Len(c) = Len(b) /\ \A o \in 1 .. Len(b) : c[o] = IF o = to THEN x ELSE b[o]
    BY <1>2, <2>3, <2>4, ExceptSeq
  <2>6. c = SRL_SET_TRACK_FLAG(b, to) => x.n = b[to].n
    BY <1>0, <2>1, <2>2
  <2> QED
    BY <2>3, <2>5, <2>6 DEF SameText, SameCounts
<1> QED
  BY <1>1, <1>2

LEMMA GrownFlag ==
  ASSUME NEW b, NEW c, b \in Seq(Tok), Grown(b, c), NEW to
  PROVE  Grown(b, SRL_SET_TRACK_FLAG(c, to))
<1> DEFINE d == SRL_SET_TRACK_FLAG(c, to)
<1>1. /\ c \in Seq(Tok) /\ Len(b) <= Len(c) /\ Len(b) \in Nat /\ Len(c) \in Nat
      /\ SameText(b, c, Len(b)) /\ SameCounts(b, c, Len(b))
  BY DEF Grown
<1>2. d = SRL_SET_TRACK_FLAG(c, to)
  OBVIOUS
<1> HIDE DEF d
<1>3. d \in Seq(Tok) /\ Len(d) = Len(c) /\ SameText(c, d, Len(c)) /\ SameCounts(c, d, Len(c))
  BY <1>1, <1>2, SameFlagged
<1>4. \A o \in 1 .. Len(b) : o \in 1 .. Len(c)
  BY <1>1
<1>5. SameText(b, d, Len(b))
  BY <1>1, <1>3, <1>4 DEF SameText
<1>6. SameCounts(b, d, Len(b))
  BY <1>1, <1>3, <1>4 DEF SameCounts
<1> QED
  BY <1>1, <1>3, <1>5, <1>6 DEF Grown, d

-----------------------------------------------------------------------------
(* The part of the output that is complete *)

\* Committed, of a buffer and a mark.
CommittedOf(b, m) == IF m = 0 THEN b ELSE SubSeq(b, 1, m - 1)

LEMMA CommittedFacts ==
  ASSUME NEW b \in Seq(Tok), NEW m \in 0 .. Len(b) + 1, NEW c, c = CommittedOf(b, m)
  PROVE  /\ c \in Seq(Tok) /\ Len(c) \in Nat /\ Len(c) <= Len(b) /\ m \in 0 .. Len(c) + 1
         /\ Len(c) = IF m = 0 THEN Len(b) ELSE m - 1
         /\ \A o \in 1 .. Len(c) : c[o] = b[o]
<1>1. CASE m = 0
  <2>1. c = b
    BY <1>1 DEF CommittedOf
  <2> QED
    BY <1>1, <2>1
<1>2. CASE m # 0
  <2>1. c = SubSeq(b, 1, m - 1) /\ m - 1 \in 0 .. Len(b)
    BY <1>2 DEF CommittedOf
  <2>2. c \in Seq(Tok) /\ Len(c) = m - 1 /\ \A o \in 1 .. m - 1 : c[o] = b[o]
    BY <2>1
  <2> QED
    BY <1>2, <2>1, <2>2
<1> QED
  BY <1>1, <1>2

\* What has to be shown of a step that leaves b with the mark m as c with k.
LEMMA KeptPart ==
  ASSUME NEW b \in Seq(Tok), NEW m \in 0 .. Len(b) + 1, out = b, obuf_last_successfull_offset = m,
         NEW c \in Seq(Tok), NEW k \in 0 .. Len(c) + 1, out' = c, obuf_last_successfull_offset' = k,
         (IF m = 0 THEN Len(b) ELSE m - 1) <= (IF k = 0 THEN Len(c) ELSE k - 1),
         \A o \in 1 .. (IF m = 0 THEN Len(b) ELSE m - 1) :
            /\ c[o].tag = b[o].tag /\ c[o].s = b[o].s
            /\ (o # CountAt \/ opt.toplevel = "SCALAR") => c[o].n = b[o].n
  PROVE  KeepsCommitted
<1> DEFINE x == CommittedOf(b, m)
           y == CommittedOf(c, k)
<1>1. Committed = x /\ Committed' = y
  BY DEF Committed, CommittedOf
<1>y. y = CommittedOf(c, k)
  OBVIOUS
<1> HIDE DEF x, y
<1>2. Len(x) = (IF m = 0 THEN Len(b) ELSE m - 1) /\ \A o \in 1 .. Len(x) : x[o] = b[o]
  BY CommittedFacts DEF x
<1>3. Len(y) = (IF k = 0 THEN Len(c) ELSE k - 1) /\ \A o \in 1 .. Len(y) : y[o] = c[o]
  BY <1>y, CommittedFacts
<1>4. Len(x) <= Len(y) /\ Len(x) \in Nat /\ Len(y) \in Nat
  BY <1>2, <1>3
<1>5. ASSUME NEW o \in 1 .. Len(x)
      PROVE  /\ y[o].tag = x[o].tag /\ y[o].s = x[o].s
             /\ (o # CountAt \/ opt.toplevel = "SCALAR") => y[o].n = x[o].n
  <2>1. o \in 1 .. Len(y) /\ x[o] = b[o] /\ y[o] = c[o]
    BY <1>2, <1>3, <1>4
  <2> QED
    BY <1>2, <2>1
<1> QED
  BY <1>1, <1>4, <1>5 DEF KeepsCommitted, SameTag

\* The invariant after a step, and what was complete before it still there.
Preserved == IInv' /\ KeepsCommitted

-----------------------------------------------------------------------------
(* What becomes of the tables when the buffer grows or is cut *)

LEMMA GrownNames ==
  ASSUME NEW t, Sound(t), NEW b \in Seq(Tok), NamesIn(t, b), UpTo(t, Len(b)), NEW c, Grown(b, c)
  PROVE  NamesIn(t, c) /\ UpTo(t, Len(c))
<1>1. Len(b) \in Nat /\ Len(c) \in Nat /\ Len(b) <= Len(c)
  BY DEF Grown
<1>2. ASSUME NEW p \in Slots(t)
      PROVE  /\ Entry(t, p).offset <= Len(c) /\ Entry(t, p).offset # 0
             /\ IsString(c[Entry(t, p).offset])
             /\ Hash[c[Entry(t, p).offset].s] = Entry(t, p).hash
  <2> DEFINE o == Entry(t, p).offset
  <2>1. o \in Nat
    BY SlotFacts DEF Sound
  <2>2. o <= Len(b) /\ o # 0 /\ IsString(b[o]) /\ Hash[b[o].s] = Entry(t, p).hash
    BY DEF NamesIn, UpTo
  <2> HIDE DEF o
  <2>3. o \in 1 .. Len(b) /\ o <= Len(c)
    BY <1>1, <2>1, <2>2
  <2>4. c[o].tag = b[o].tag /\ c[o].s = b[o].s
    BY <2>3 DEF Grown, SameText
  <2> QED
    BY <2>2, <2>3, <2>4 DEF IsString, o
<1> QED
  BY <1>2 DEF NamesIn, UpTo

LEMMA CutNames ==
  ASSUME NEW t, Sound(t), NEW b \in Seq(Tok), NamesIn(t, b),
         NEW c \in Seq(Tok), Len(c) <= Len(b), SameText(b, c, Len(c))
  PROVE  NamesIn(t, c)
<1>1. ASSUME NEW p \in Slots(t)
      PROVE  /\ Entry(t, p).offset # 0
             /\ Entry(t, p).offset <= Len(c) =>
                  /\ IsString(c[Entry(t, p).offset])
                  /\ Hash[c[Entry(t, p).offset].s] = Entry(t, p).hash
  <2> DEFINE o == Entry(t, p).offset
  <2>1. o \in Nat /\ o # 0
    BY SlotFacts DEF Sound, NamesIn
  <2>2. o <= Len(b) => IsString(b[o]) /\ Hash[b[o].s] = Entry(t, p).hash
    BY DEF NamesIn
  <2> HIDE DEF o
  <2>3. ASSUME o <= Len(c) PROVE o <= Len(b) /\ o \in 1 .. Len(c)
    BY <2>1, <2>3
  <2>4. ASSUME o <= Len(c) PROVE c[o].tag = b[o].tag /\ c[o].s = b[o].s
    BY <2>3, <2>4 DEF SameText
  <2> QED
    BY <2>1, <2>2, <2>3, <2>4 DEF IsString, o
<1> QED
  BY <1>1 DEF NamesIn

\* A string that has just been written is remembered.
LEMMA RememberedNames ==
  ASSUME NEW t, Sound(t), NEW b \in Seq(Tok), NamesIn(t, b), UpTo(t, Len(b)), NEW c, Grown(b, c),
         NEW s \in Strings, NEW ofs \in Nat, Len(b) < ofs, ofs <= Len(c),
         IsString(c[ofs]), c[ofs].s = s
  PROVE  LET u == STRTABLE_insert(t, s, ofs)
         IN  Sound(u) /\ NamesIn(u, c) /\ UpTo(u, Len(c))
<1> DEFINE u == STRTABLE_insert(t, s, ofs)
<1>1. ASSUME NEW p \in Slots(t) PROVE Entry(t, p).offset < ofs
  <2>1. Entry(t, p).offset \in Nat /\ Entry(t, p).offset <= Len(b) /\ Len(b) \in Nat
    BY SlotFacts DEF Sound, UpTo
  <2> QED
    BY <2>1
<1>2. /\ Sound(u)
      /\ \A p \in Slots(u) : \/ p \in Slots(t) /\ Entry(u, p) = Entry(t, p)
                             \/ Entry(u, p) = [hash |-> Hash[s], offset |-> ofs]
  BY <1>1, InsertSpec
<1> HIDE DEF u
<1>3. NamesIn(t, c) /\ UpTo(t, Len(c))
  BY GrownNames
<1>4. ofs # 0
  OBVIOUS
<1>5. ASSUME NEW p \in Slots(u)
      PROVE  /\ Entry(u, p).offset <= Len(c) /\ Entry(u, p).offset # 0
             /\ Entry(u, p).offset <= Len(c) =>
                  /\ IsString(c[Entry(u, p).offset])
                  /\ Hash[c[Entry(u, p).offset].s] = Entry(u, p).hash
  <2>1. CASE p \in Slots(t) /\ Entry(u, p) = Entry(t, p)
    BY <1>3, <2>1 DEF NamesIn, UpTo
  <2>2. CASE Entry(u, p) = [hash |-> Hash[s], offset |-> ofs]
    <3>1. Entry(u, p).hash = Hash[s] /\ Entry(u, p).offset = ofs
      BY <2>2
    <3> QED
      BY <1>4, <3>1
  <2> QED
    BY <1>2, <2>1, <2>2
<1> QED
  BY <1>2, <1>5 DEF NamesIn, UpTo, u

-----------------------------------------------------------------------------
(* Parts of the steps *)

LEMMA TrackType ==
  ASSUME ITypes, NEW i, NEW to \in Nat, Track(i, to)
  PROVE  tracked_offsets_tbl' \in [0 .. MaxOffset -> Nat]
  BY DEF ITypes, Track

LEMMA ClassTableType ==
  ASSUME ITypes, NEW to \in Nat, ClassTable(to)
  PROVE  tracked_offsets_tbl' \in [0 .. MaxOffset -> Nat]
<1> DEFINE tbl == IF IsTracked(ipos) THEN [tracked_offsets_tbl EXCEPT ![ipos] = Here]
                  ELSE tracked_offsets_tbl
<1>1. Here \in Nat
  BY DEF ITypes, Here
<1>2. tbl \in [0 .. MaxOffset -> Nat]
  BY <1>1 DEF ITypes
<1>3. tracked_offsets_tbl' = tbl \/ tracked_offsets_tbl' = [tbl EXCEPT ![ipos + 1] = to]
  BY DEF ClassTable
<1> HIDE DEF tbl
<1> QED
  BY <1>2, <1>3

LEMMA TargetType ==
  ASSUME ITypes, NEW n \in 0 .. MaxOffset
  PROVE  Target(n) \in Nat
  BY DEF ITypes, Target, Here

LEMMA DuplicateType ==
  ASSUME ITypes, NEW tbl, NEW t
  PROVE  Duplicate(tbl, t) \in Nat
<1> DEFINE found == STRTABLE_lookup(tbl, out, t)
<1>1. \A o \in found : o \in Nat
  BY DEF ITypes, STRTABLE_lookup
<1>2. Duplicate(tbl, t) = 0 \/ (found # {} /\ Duplicate(tbl, t) = CHOOSE o \in found : TRUE)
  BY DEF Duplicate
<1> HIDE DEF found
<1> QED
  BY <1>1, <1>2

LEMMA CurFacts ==
  ASSUME ITypes, NEW i \in 1 .. Len(ibuf)
  PROVE  /\ ibuf[i] \in Tok /\ ibuf[i].tag \in Tags /\ ibuf[i].n \in Nat /\ ibuf[i].s \in Strings
         /\ HasOffset(ibuf[i]) => ibuf[i].n \in 0 .. MaxOffset
<1>1. /\ ibuf[i] \in Tok /\ ibuf[i].tag \in Tags /\ ibuf[i].n \in Nat /\ ibuf[i].s \in Strings
  BY TokenFacts DEF ITypes
<1>2. HasOffset(ibuf[i]) => ibuf[i].n <= i
  BY DEF ITypes, Backward
<1>3. i <= MaxOffset /\ MaxOffset \in Nat
  BY BoundAssumption DEF ITypes
<1> QED
  BY <1>1, <1>2, <1>3

LEMMA PadRunType ==
  ASSUME ITypes, ipos <= Len(ibuf)
  PROVE  PadRun \in Nat
<1> DEFINE stop == {j \in ipos .. Len(ibuf) : ibuf[j] # T("PAD", 0, "")}
           x == CHOOSE j \in stop : \A k \in stop : j <= k
<1>1. ipos \in Nat /\ Len(ibuf) \in Nat
  BY DEF ITypes
<1>2. PadRun = IF stop = {} THEN Len(ibuf) + 1 - ipos ELSE x - ipos
  BY DEF PadRun
<1>3. stop \subseteq ipos .. Len(ibuf)
  OBVIOUS
<1> HIDE DEF stop
<1>4. CASE stop = {}
  BY <1>1, <1>2, <1>4
<1>5. CASE stop # {}
  <2>1. stop \subseteq Nat
    BY <1>1, <1>3
  <2>2. \E j \in stop : \A k \in stop : j <= k
    BY <1>5, <2>1, LeastExists
  <2>3. x \in stop
    BY <2>2
  <2> HIDE DEF x
  <2>4. x \in ipos .. Len(ibuf)
    BY <1>3, <2>3
  <2> QED
    BY <1>1, <1>2, <1>5, <2>4
<1> QED
  BY <1>4, <1>5

\* A table that a step of the merge leaves alone, or that remembers a string
\* the step has written.
TableStep(t, u, b, c) ==
  \/ u = t
  \/ /\ opt.dedupe
     /\ \E s \in Strings, ofs \in Nat : /\ u = STRTABLE_insert(t, s, ofs)
                                       /\ Len(b) < ofs /\ ofs <= Len(c)
                                       /\ IsString(c[ofs]) /\ c[ofs].s = s

LEMMA TableStepKeeps ==
  ASSUME IInv, phase = "merging", NEW t, TableInv(t), NEW u, NEW c, Grown(out, c), TableStep(t, u, out, c)
  PROVE  /\ Sound(u) /\ NamesIn(u, c) /\ UpTo(u, Len(c))
         /\ ~opt.dedupe => Slots(u) = {}
<1>1. Sound(t) /\ NamesIn(t, out) /\ UpTo(t, Len(out)) /\ (~opt.dedupe => Slots(t) = {}) /\ out \in Seq(Tok)
  BY DEF IInv, ITypes, TableInv, Tidy
<1>2. CASE u = t
  BY <1>1, <1>2, GrownNames
<1>3. CASE u # t
  <2>1. opt.dedupe
    BY <1>3 DEF TableStep
  <2>2. PICK s \in Strings, ofs \in Nat : /\ u = STRTABLE_insert(t, s, ofs)
                                         /\ Len(out) < ofs /\ ofs <= Len(c)
                                         /\ IsString(c[ofs]) /\ c[ofs].s = s
    BY <1>3 DEF TableStep
  <2> QED
    BY <1>1, <2>1, <2>2, RememberedNames
<1> QED
  BY <1>2, <1>3

\* One step of the merge: the text written so far stays.
LEMMA MergingStep ==
  ASSUME IInv, phase = "merging", phase' = phase, UNCHANGED unreached, UNCHANGED <<queue, ibuf>>,
         Grown(out, out'), tracked_offsets_tbl' \in [0 .. MaxOffset -> Nat], ipos' \in Nat \ {0},
         TableStep(string_deduper_tbl, string_deduper_tbl', out, out'),
         TableStep(classname_deduper_tbl, classname_deduper_tbl', out, out')
  PROVE  Preserved
<1>1. ITypes'
  <2>1. /\ opt' \in Options /\ cnt_of_merged_elements' \in Nat /\ queue' \in Seq(Document)
        /\ ibuf' \in Seq(Tok) /\ Len(ibuf') < MaxOffset /\ Backward(ibuf')
    BY DEF IInv, ITypes, unreached
  <2>2. out' \in Seq(Tok) /\ obuf_last_successfull_offset' \in 0 .. Len(out') + 1
    <3>1. /\ out \in Seq(Tok) /\ out' \in Seq(Tok) /\ Len(out) \in Nat /\ Len(out') \in Nat
          /\ Len(out) <= Len(out') /\ obuf_last_successfull_offset \in 0 .. Len(out) + 1
          /\ obuf_last_successfull_offset' = obuf_last_successfull_offset
      BY DEF IInv, ITypes, Grown, unreached
    <3> QED
      BY <3>1
  <2> QED
    BY <2>1, <2>2 DEF ITypes
<1>2. TableInv(string_deduper_tbl) /\ TableInv(classname_deduper_tbl)
  BY DEF IInv
<1>3. opt' = opt
  BY DEF unreached
<1>4. TableInv(string_deduper_tbl)'
  BY <1>2, <1>3, TableStepKeeps DEF TableInv
<1>5. TableInv(classname_deduper_tbl)'
  BY <1>2, <1>3, TableStepKeeps DEF TableInv
<1>6. KeepsCommitted
  <2>1. /\ out \in Seq(Tok) /\ out' \in Seq(Tok) /\ Len(out) \in Nat /\ Len(out') \in Nat
        /\ Len(out) <= Len(out') /\ obuf_last_successfull_offset \in 0 .. Len(out) + 1
        /\ obuf_last_successfull_offset' = obuf_last_successfull_offset
        /\ obuf_last_successfull_offset' \in 0 .. Len(out') + 1
        /\ \A o \in 1 .. Len(out) : out'[o].tag = out[o].tag /\ out'[o].s = out[o].s /\ out'[o].n = out[o].n
    BY DEF IInv, ITypes, Grown, SameText, SameCounts, unreached
  <2> QED
    BY <2>1, KeptPart
<1> QED
  BY <1>1, <1>4, <1>5, <1>6 DEF IInv, Preserved

\* Cleaning up removes what an append that failed left in the tables.
LEMMA CleanupSpec ==
  ASSUME IInv, phase = "idle", Cleanup
  PROVE  /\ out' \in Seq(Tok) /\ obuf_last_successfull_offset \in 0 .. Len(out') + 1
         /\ \A u \in {string_deduper_tbl', classname_deduper_tbl'} :
              ~u.corrupt => /\ Sound(u) /\ NamesIn(u, out') /\ UpTo(u, Len(out'))
                            /\ ~opt.dedupe => Slots(u) = {}
<1> DEFINE m == obuf_last_successfull_offset
<1>1. /\ out \in Seq(Tok) /\ Len(out) \in Nat /\ m \in 0 .. Len(out) + 1
      /\ TableInv(string_deduper_tbl) /\ TableInv(classname_deduper_tbl)
  BY DEF IInv, ITypes
<1>2. CASE m = 0
  <2>1. /\ out' = out /\ string_deduper_tbl' = string_deduper_tbl
        /\ classname_deduper_tbl' = classname_deduper_tbl
    BY <1>2 DEF Cleanup, Committed
  <2>2. Tidy
    BY <1>2 DEF Tidy
  <2> QED
    BY <1>1, <2>1, <2>2 DEF TableInv
<1>3. CASE m # 0
  <2>1. /\ out' = SubSeq(out, 1, m - 1)
        /\ string_deduper_tbl' = PurgeFrom(string_deduper_tbl, m)
        /\ classname_deduper_tbl' = PurgeFrom(classname_deduper_tbl, m)
    BY <1>3 DEF Cleanup, Committed
  <2>2. m \in Nat /\ m - 1 \in Nat /\ m - 1 \in 0 .. Len(out)
    BY <1>1, <1>3
  <2>3. out' \in Seq(Tok) /\ Len(out') = m - 1 /\ \A o \in 1 .. m - 1 : out'[o] = out[o]
    <3> HIDE DEF m
    <3> QED
      BY <1>1, <2>1, <2>2
  <2>4. SameText(out, out', Len(out')) /\ Len(out') <= Len(out)
    BY <1>1, <2>2, <2>3 DEF SameText
  <2>5. ASSUME NEW t, TableInv(t), NEW u, u = PurgeFrom(t, m), ~u.corrupt
        PROVE  /\ Sound(u) /\ NamesIn(u, out') /\ UpTo(u, Len(out'))
               /\ ~opt.dedupe => Slots(u) = {}
    <3>1. Sound(t) /\ NamesIn(t, out) /\ (~opt.dedupe => Slots(t) = {})
      BY <2>5 DEF TableInv
    <3>2. NamesIn(t, out')
      BY <1>1, <2>3, <2>4, <3>1, CutNames
    <3>3. CASE ~opt.dedupe
      <4>1. u = t /\ Slots(u) = {}
        BY <2>5, <3>1, <3>3 DEF PurgeFrom
      <4> QED
        BY <3>1, <3>2, <4>1 DEF UpTo
    <3>4. CASE opt.dedupe
      <4>1. u = STRTABLE_purge(t, m)
        BY <2>5, <3>4 DEF PurgeFrom
      <4>2. /\ Sound(u) /\ Slots(u) \subseteq Slots(t)
            /\ \A p \in Slots(u) : Entry(u, p) = Entry(t, p) /\ Entry(u, p).offset < m
        BY <2>2, <2>5, <3>1, <4>1, PurgeSpec
      <4>3. NamesIn(u, out')
        BY <3>2, <4>2 DEF NamesIn
      <4>4. UpTo(u, Len(out'))
        <5>1. ASSUME NEW p \in Slots(u) PROVE Entry(u, p).offset <= Len(out')
          <6>1. Entry(u, p).offset \in Nat /\ Entry(u, p).offset < m
            BY <4>2, SlotFacts DEF Sound
          <6> QED
            BY <2>2, <2>3, <6>1
        <5> QED
          BY <5>1 DEF UpTo
      <4> QED
        BY <3>4, <4>2, <4>3, <4>4
    <3> QED
      BY <3>3, <3>4
  <2>6. m \in 0 .. Len(out') + 1
    BY <2>2, <2>3
  <2> QED
    BY <1>1, <2>1, <2>3, <2>5, <2>6
<1> QED
  BY <1>2, <1>3

-----------------------------------------------------------------------------
(* The invariant is inductive *)

LEMMA InvInit == Init => IInv
<1> SUFFICES ASSUME Init PROVE IInv
  OBVIOUS
<1>1. opt \in Options /\ opt.toplevel \in {"SCALAR", "ARRAY", "HASH"}
  BY OptionsAssumption DEF Init
<1>2. out \in Seq(Tok)
  <2>0. PICK none \in Strings : none = ""
    BY HashAssumption, Zenon
  <2>1. CASE opt.toplevel = "SCALAR"
    BY <2>1 DEF Init, TopLevel
  <2>2. CASE opt.toplevel # "SCALAR"
    <3>1. T("REFN", 0, none) \in Tok /\ T(opt.toplevel, 0, none) \in Tok /\ T("PAD", 0, none) \in Tok
      <4>1. "REFN" \in Tags /\ opt.toplevel \in Tags /\ "PAD" \in Tags
        BY <1>1, <2>2 DEF Tags
      <4> QED
        BY <4>1, TokenType
    <3>2. out = <<T("REFN", 0, none), T(opt.toplevel, 0, none), T("PAD", 0, none)>>
      BY <2>0, <2>2, Zenon DEF Init, TopLevel
    <3> QED
      BY <3>1, <3>2
  <2> QED
    BY <2>1, <2>2
<1>3. ITypes
  <2>1. tracked_offsets_tbl \in [0 .. MaxOffset -> Nat]
    BY DEF Init
  <2>2. ibuf \in Seq(Tok) /\ Len(ibuf) = 0 /\ queue \in Seq(Document) /\ ipos \in Nat \ {0}
    BY DEF Init
  <2>3. Len(ibuf) < MaxOffset
    BY <2>2, BoundAssumption
  <2>4. Backward(ibuf)
    BY <2>2 DEF Backward
  <2> QED
    BY <1>1, <1>2, <2>1, <2>2, <2>3, <2>4 DEF ITypes, Init
<1>4. string_deduper_tbl = STRTABLE_new /\ classname_deduper_tbl = STRTABLE_new
  BY DEF Init
<1>5. Sound(STRTABLE_new) /\ Slots(STRTABLE_new) = {}
  BY NewSound
<1> QED
  BY <1>3, <1>4, <1>5 DEF IInv, TableInv, NamesIn, UpTo

LEMMA BeginsMerge ==
  ASSUME ITypes, NEW d \in Document, ~BadInput(d), NEW first, BeginMerge(d, first),
         out' \in Seq(Tok), first \in 0 .. Len(out') + 1, queue' \in Seq(Document)
  PROVE  ITypes' /\ opt' = opt /\ obuf_last_successfull_offset' = first
<1>1. d.body \in Seq(Tok) /\ Len(d.body) < MaxOffset
  BY DEF Document
<1>2. Backward(d.body)
  <2> SUFFICES ASSUME NEW i \in 1 .. Len(d.body), HasOffset(d.body[i]) PROVE d.body[i].n <= i
    BY DEF Backward
  <2>1. i \in DOMAIN d.body
    BY <1>1
  <2>2. ~(d.body[i].n > i)
    BY <2>1 DEF BadInput
  <2>3. d.body[i].n \in Nat
    BY <1>1, TokenFacts
  <2> QED
    BY <2>2, <2>3
<1>3. /\ ibuf' \in ReadFrom(d) /\ ipos' = 1 /\ obuf_last_successfull_offset' = first
      /\ opt' = opt /\ cnt_of_merged_elements' = cnt_of_merged_elements
      /\ tracked_offsets_tbl' = tracked_offsets_tbl
  BY DEF BeginMerge
\* What a misread document is taken for names no offset.
<1>4. ASSUME NEW b \in {<<>>} \cup {<<Str(s)>> : s \in Strings \ Short}
      PROVE  b \in Seq(Tok) /\ Len(b) < MaxOffset /\ Backward(b)
  <2>1. CASE b = <<>>
    BY <2>1, BoundAssumption DEF Backward
  <2>2. ASSUME NEW s \in Strings, b = <<Str(s)>> PROVE b \in Seq(Tok) /\ Len(b) < MaxOffset /\ Backward(b)
    <3>1. Str(s) \in Tok /\ Str(s).tag = "STR"
      BY DEF Str, T, Tok, Tags
    <3>2. ~HasOffset(Str(s))
      BY <3>1 DEF HasOffset
    <3> HIDE DEF Str
    <3>3. b \in Seq(Tok) /\ Len(b) = 1 /\ b[1] = Str(s)
      BY <2>2, <3>1
    <3> QED
      BY <3>2, <3>3, BoundAssumption DEF Backward
  <2> QED
    BY <2>1, <2>2
<1>5. ibuf' \in Seq(Tok) /\ Len(ibuf') < MaxOffset /\ Backward(ibuf')
  BY <1>1, <1>2, <1>3, <1>4 DEF ReadFrom
<1> QED
  BY <1>3, <1>5 DEF ITypes, Backward

\* Rewinding to the mark and setting the mark anew loses nothing.
LEMMA Rewound ==
  ASSUME ITypes, NEW m, m = obuf_last_successfull_offset, NEW c, c = CommittedOf(out, m), out' \in Seq(Tok),
         Len(out') = Len(c), obuf_last_successfull_offset' \in {m, Len(out') + 1},
         \A o \in 1 .. Len(c) : /\ out'[o].tag = c[o].tag /\ out'[o].s = c[o].s
                                /\ (o # CountAt \/ opt.toplevel = "SCALAR") => out'[o].n = c[o].n
  PROVE  KeepsCommitted
<1>1. out \in Seq(Tok) /\ Len(out) \in Nat /\ m \in 0 .. Len(out) + 1
  BY DEF ITypes
<1>2. /\ c \in Seq(Tok) /\ Len(c) \in Nat /\ Len(c) <= Len(out) /\ m \in 0 .. Len(c) + 1
      /\ Len(c) = (IF m = 0 THEN Len(out) ELSE m - 1)
      /\ \A o \in 1 .. Len(c) : c[o] = out[o]
  BY <1>1, CommittedFacts
<1> DEFINE k == obuf_last_successfull_offset'
<1>3. k \in {m, Len(c) + 1}
  OBVIOUS
<1> HIDE DEF k
<1>4. k \in 0 .. Len(out') + 1 /\ Len(c) <= (IF k = 0 THEN Len(out') ELSE k - 1)
  BY <1>2, <1>3
<1>5. ASSUME NEW o \in 1 .. Len(c)
      PROVE  /\ out'[o].tag = out[o].tag /\ out'[o].s = out[o].s
             /\ (o # CountAt \/ opt.toplevel = "SCALAR") => out'[o].n = out[o].n
  <2>1. c[o] = out[o]
    BY <1>2
  <2>2. /\ out'[o].tag = c[o].tag /\ out'[o].s = c[o].s
        /\ (o # CountAt \/ opt.toplevel = "SCALAR") => out'[o].n = c[o].n
    OBVIOUS
  <2> QED
    BY <2>1, <2>2
<1> QED
  BY <1>1, <1>2, <1>4, <1>5, KeptPart DEF k

LEMMA KeptUnchanged ==
  ASSUME ITypes, out' = out,
         obuf_last_successfull_offset' \in {obuf_last_successfull_offset, 0, Len(out) + 1}
  PROVE  KeepsCommitted
<1> DEFINE m == obuf_last_successfull_offset
           k == obuf_last_successfull_offset'
<1>1. out \in Seq(Tok) /\ Len(out) \in Nat /\ m \in 0 .. Len(out) + 1 /\ k \in 0 .. Len(out) + 1
  BY DEF ITypes
<1>2. k \in {m, 0, Len(out) + 1}
  OBVIOUS
<1> HIDE DEF m, k
<1>3. (IF m = 0 THEN Len(out) ELSE m - 1) <= (IF k = 0 THEN Len(out) ELSE k - 1)
  BY <1>1, <1>2
<1> QED
  BY <1>1, <1>3, KeptPart DEF m, k

LEMMA InvCalls ==
  ASSUME IInv
  PROVE  /\ \A d \in Docs : Append1(d) => Preserved
         /\ \A ds \in Lists : AppendAll(ds) => Preserved
         /\ Finish => Preserved
         /\ NextDocument => Preserved
         /\ DocumentMerged => Preserved
<1>1. ASSUME NEW d \in Docs, Append1(d) PROVE Preserved
  <2>1. /\ phase = "idle" /\ Cleanup /\ BeginMerge(d, Len(out') + 1) /\ ~BadInput(d)
        /\ queue' = <<>> /\ d \in Document
        /\ phase' = IF Broken(string_deduper_tbl', classname_deduper_tbl') THEN "corrupt" ELSE "merging"
    BY <1>1, DocsAssumption DEF Append1, CanCall
  <2>2. /\ out' \in Seq(Tok)
        /\ \A u \in {string_deduper_tbl', classname_deduper_tbl'} :
             ~u.corrupt => /\ Sound(u) /\ NamesIn(u, out') /\ UpTo(u, Len(out'))
                           /\ ~opt.dedupe => Slots(u) = {}
    BY <2>1, CleanupSpec
  <2>3. Len(out') + 1 \in 0 .. Len(out') + 1 /\ queue' \in Seq(Document)
    BY <2>1, <2>2
  <2>4. ITypes' /\ opt' = opt
    BY <2>1, <2>2, <2>3, BeginsMerge DEF IInv
  <2>5. ASSUME phase' # "corrupt"
        PROVE  TableInv(string_deduper_tbl)' /\ TableInv(classname_deduper_tbl)'
    <3>1. ~string_deduper_tbl'.corrupt /\ ~classname_deduper_tbl'.corrupt
      BY <2>1, <2>5 DEF Broken
    <3> QED
      BY <2>2, <2>4, <3>1 DEF TableInv
  <2>6. KeepsCommitted
    <3>1. out' = CommittedOf(out, obuf_last_successfull_offset) /\ obuf_last_successfull_offset' = Len(out') + 1
      BY <2>1 DEF Cleanup, Committed, CommittedOf, BeginMerge
    <3> QED
      BY <2>2, <3>1, Rewound DEF IInv
  <2> QED
    BY <2>4, <2>5, <2>6 DEF IInv, Preserved
<1>2. ASSUME NEW ds \in Lists, AppendAll(ds) PROVE Preserved
  <2>1. /\ phase = "idle" /\ Cleanup /\ queue' = ds
        /\ phase' = IF Broken(string_deduper_tbl', classname_deduper_tbl') THEN "corrupt" ELSE "next"
        /\ UNCHANGED <<opt, obuf_last_successfull_offset, cnt_of_merged_elements, tracked_offsets_tbl,
                       ibuf, ipos>>
    BY <1>2 DEF AppendAll, CanCall
  <2>2. /\ out' \in Seq(Tok) /\ obuf_last_successfull_offset \in 0 .. Len(out') + 1
        /\ \A u \in {string_deduper_tbl', classname_deduper_tbl'} :
             ~u.corrupt => /\ Sound(u) /\ NamesIn(u, out') /\ UpTo(u, Len(out'))
                           /\ ~opt.dedupe => Slots(u) = {}
    BY <2>1, CleanupSpec
  <2>3. queue' \in Seq(Document)
    BY <2>1, ListsAssumption
  <2>4. ITypes'
    BY <2>1, <2>2, <2>3 DEF IInv, ITypes
  <2>5. ASSUME phase' # "corrupt"
        PROVE  TableInv(string_deduper_tbl)' /\ TableInv(classname_deduper_tbl)'
    <3>1. ~string_deduper_tbl'.corrupt /\ ~classname_deduper_tbl'.corrupt /\ opt' = opt
      BY <2>1, <2>5 DEF Broken
    <3> QED
      BY <2>2, <3>1 DEF TableInv
  <2>6. KeepsCommitted
    <3>1. out' = CommittedOf(out, obuf_last_successfull_offset)
      BY <2>1 DEF Cleanup, Committed, CommittedOf
    <3> QED
      BY <2>1, <2>2, <3>1, Rewound DEF IInv
  <2> QED
    BY <2>4, <2>5, <2>6 DEF IInv, Preserved
<1>3. ASSUME Finish PROVE Preserved
  <2> DEFINE m == obuf_last_successfull_offset
             c == Committed
  <2>1. /\ phase = "idle" /\ phase' \in {"finished", "idle"}
        /\ UNCHANGED <<opt, obuf_last_successfull_offset, cnt_of_merged_elements, tables, input>>
        /\ out' = c \/ out' = [c EXCEPT ![CountAt].n = cnt_of_merged_elements]
        /\ opt.toplevel = "SCALAR" => out' = c
    BY <1>3 DEF Finish, CanCall
  <2>2. /\ out \in Seq(Tok) /\ m \in 0 .. Len(out) + 1 /\ Len(out) \in Nat
        /\ cnt_of_merged_elements \in Nat
        /\ TableInv(string_deduper_tbl) /\ TableInv(classname_deduper_tbl)
    BY <2>1 DEF IInv, ITypes
  <2>c. c = CommittedOf(out, m)
    BY DEF Committed, CommittedOf
  <2> HIDE DEF c, m
  <2>3. /\ c \in Seq(Tok) /\ Len(c) \in Nat /\ Len(c) <= Len(out) /\ m \in 0 .. Len(c) + 1
        /\ SameText(out, c, Len(c)) /\ (m = 0 => Len(c) = Len(out))
    BY <2>2, <2>c, CommittedFacts DEF SameText
  <2>4. /\ out' \in Seq(Tok) /\ Len(out') = Len(c) /\ SameText(c, out', Len(c))
        /\ \A o \in 1 .. Len(c) : (o # CountAt \/ opt.toplevel = "SCALAR") => out'[o].n = c[o].n
    <3>1. CASE out' = c
      BY <2>3, <3>1 DEF SameText
    <3>2. CASE out' = [c EXCEPT ![CountAt].n = cnt_of_merged_elements] /\ opt.toplevel # "SCALAR"
      <4>1. /\ out' \in Seq(Tok) /\ Len(out') = Len(c) /\ SameText(c, out', Len(c))
            /\ \A o \in 1 .. Len(c) : o # CountAt => out'[o].n = c[o].n
        <5>1. c \in Seq(Tok) /\ cnt_of_merged_elements \in Nat
          BY <2>2, <2>3
        <5>2. out' = WithCount(c, CountAt, cnt_of_merged_elements)
          BY <3>2 DEF WithCount
        <5> QED
          BY <5>1, <5>2, SameFlagged
      <4> QED
        BY <3>2, <4>1
    <3> QED
      BY <2>1, <3>1, <3>2
  <2>5. SameText(out, out', Len(out')) /\ Len(out') <= Len(out) /\ m \in 0 .. Len(out') + 1
    BY <2>3, <2>4 DEF SameText
  <2>6. ITypes'
    BY <2>1, <2>4, <2>5 DEF IInv, ITypes, tables, input, m
  <2>7. ASSUME NEW t, TableInv(t)
        PROVE  /\ Sound(t) /\ NamesIn(t, out') /\ (~opt.dedupe => Slots(t) = {})
               /\ m = 0 => UpTo(t, Len(out'))
    <3>1. NamesIn(t, out')
      BY <2>2, <2>4, <2>5, <2>7, CutNames DEF TableInv
    <3>2. m = 0 => UpTo(t, Len(out'))
      BY <2>3, <2>4, <2>7 DEF TableInv, Tidy, m
    <3> QED
      BY <2>7, <3>1, <3>2 DEF TableInv
  <2>8. Tidy' => m = 0
    BY <2>1 DEF Tidy, m
  <2>9. TableInv(string_deduper_tbl)' /\ TableInv(classname_deduper_tbl)'
    BY <2>1, <2>2, <2>7, <2>8 DEF TableInv, tables
  <2>10. KeepsCommitted
    <3>1. ITypes /\ m = obuf_last_successfull_offset /\ obuf_last_successfull_offset' = m
      BY <2>1 DEF IInv, m
    <3>2. \A o \in 1 .. Len(c) : /\ out'[o].tag = c[o].tag /\ out'[o].s = c[o].s
                                 /\ (o # CountAt \/ opt.toplevel = "SCALAR") => out'[o].n = c[o].n
      BY <2>4 DEF SameText
    <3> QED
      BY <2>c, <2>4, <3>1, <3>2, Rewound
  <2> QED
    BY <2>6, <2>9, <2>10 DEF IInv, Preserved
<1>4. ASSUME NextDocument PROVE Preserved
  <2>1. /\ phase = "next" /\ phase' = "merging" /\ queue # <<>> /\ ~BadInput(Head(queue))
        /\ BeginMerge(Head(queue), Here) /\ queue' = Tail(queue)
        /\ UNCHANGED <<out, string_deduper_tbl, classname_deduper_tbl>>
    BY <1>4 DEF NextDocument
  <2>2. ITypes /\ TableInv(string_deduper_tbl) /\ TableInv(classname_deduper_tbl)
    BY <2>1 DEF IInv
  <2>3. queue \in Seq(Document) /\ Head(queue) \in Document /\ queue' \in Seq(Document)
    BY <2>1, <2>2 DEF ITypes
  <2>4. out' \in Seq(Tok) /\ Here \in 0 .. Len(out') + 1
    BY <2>1, <2>2 DEF ITypes, Here
  <2>5. ITypes' /\ opt' = opt
    BY <2>1, <2>2, <2>3, <2>4, BeginsMerge
  <2>6. Tidy
    BY <2>1 DEF Tidy
  <2>7. KeepsCommitted
    BY <2>1, <2>2, KeptUnchanged DEF BeginMerge, Here
  <2> QED
    BY <2>1, <2>2, <2>5, <2>6, <2>7 DEF IInv, TableInv, Preserved
<1>5. ASSUME DocumentMerged PROVE Preserved
  <2>1. /\ phase = "merging" /\ phase' = "next" /\ obuf_last_successfull_offset' = 0
        /\ cnt_of_merged_elements' = cnt_of_merged_elements + 1
        /\ UNCHANGED <<opt, out, tables, input>>
    BY <1>5 DEF DocumentMerged
  <2>2. ITypes /\ TableInv(string_deduper_tbl) /\ TableInv(classname_deduper_tbl) /\ Tidy
    BY <2>1 DEF IInv, Tidy
  <2>3. ITypes'
    BY <2>1, <2>2 DEF ITypes, tables, input
  <2>4. KeepsCommitted
    BY <2>1, <2>2, KeptUnchanged
  <2> QED
    BY <2>1, <2>2, <2>3, <2>4 DEF IInv, TableInv, tables, Preserved
<1> QED
  BY <1>1, <1>2, <1>3, <1>4, <1>5

\* Every step that merges a tag writes behind what is there.
LEMMA InvMerge ==
  ASSUME IInv
  PROVE  /\ (MergeScalar => Preserved) /\ (MergeString => Preserved) /\ (MergeContainer => Preserved) /\ (Leave => Preserved)
         /\ (MergePrefix => Preserved) /\ (MergePad => Preserved) /\ (MergeOffset => Preserved) /\ (MergeKeyCopy => Preserved)
         /\ (MergeObject => Preserved) /\ (MergeObjectCopy => Preserved) /\ (MergeRegexp => Preserved)
         /\ (MergeModifiers => Preserved)
<1> DEFINE strs == string_deduper_tbl
           classes == classname_deduper_tbl
<1>0. PICK none \in Strings : none = ""
  BY HashAssumption, Zenon
<1>1. /\ ITypes /\ out \in Seq(Tok) /\ Len(out) \in Nat /\ Here \in Nat /\ Here = Len(out) + 1
      /\ ipos \in Nat \ {0} /\ Len(ibuf) \in Nat
      /\ tracked_offsets_tbl \in [0 .. MaxOffset -> Nat]
  BY DEF IInv, ITypes, Here
<1>2. ASSUME ipos <= Len(ibuf)
      PROVE  /\ Cur \in Tok /\ Cur.tag \in Tags /\ Cur.n \in Nat /\ Cur.s \in Strings
             /\ HasOffset(Cur) => Target(Cur.n) \in Nat
  <2>1. ipos \in 1 .. Len(ibuf)
    BY <1>1, <1>2
  <2> QED
    BY <1>1, <2>1, CurFacts, TargetType DEF Cur
<1>3. ASSUME ipos < Len(ibuf)
      PROVE  /\ ClassName \in Tok /\ ClassName.s \in Strings
             /\ HasOffset(ClassName) => Target(ClassName.n) \in Nat
  <2>1. ipos + 1 \in 1 .. Len(ibuf)
    BY <1>1, <1>3
  <2> QED
    BY <1>1, <2>1, CurFacts, TargetType DEF ClassName
<1>4. \A tag \in Tags, n \in Nat, s \in Strings :
        T(tag, n, s) \in Tok /\ Grown(out, Append(out, T(tag, n, s)))
  BY <1>1, TokenType, GrownAppend
<1>5. \A t, c : TableStep(t, t, out, c)
  BY DEF TableStep
<1>6. Grown(out, out)
  BY <1>1 DEF Grown, SameText, SameCounts
<1>7. ASSUME MergeScalar PROVE Preserved
  <2>1. /\ phase = "merging" /\ phase' = phase /\ ipos <= Len(ibuf) /\ UNCHANGED unreached
        /\ UNCHANGED <<queue, ibuf, string_deduper_tbl, classname_deduper_tbl>>
        /\ Track(ipos, Here) /\ out' = Append(out, T(Cur.tag, 0, Cur.s)) /\ ipos' = ipos + 1
    BY <1>0, <1>7, Zenon DEF MergeScalar, AtValue, Reading
  <2>2. Grown(out, out')
    BY <1>2, <1>4, <2>1
  <2>3. tracked_offsets_tbl' \in [0 .. MaxOffset -> Nat] /\ ipos' \in Nat \ {0}
    BY <1>1, <2>1, TrackType
  <2> QED
    BY <1>5, <2>1, <2>2, <2>3, MergingStep
<1>8. ASSUME MergeString PROVE Preserved
  <2> DEFINE dup == Duplicate(string_deduper_tbl, Cur)
  <2>1. /\ phase = "merging" /\ phase' = phase /\ ipos <= Len(ibuf) /\ UNCHANGED unreached
        /\ UNCHANGED <<queue, ibuf, classname_deduper_tbl>> /\ ipos' = ipos + 1
        /\ IsString(Cur) /\ TrackString(Cur, dup)
        /\ out' = Append(out, IF dup # 0 THEN T("COPY", dup, none) ELSE Cur)
        /\ strs' = IF dup # 0 THEN strs ELSE Remember(strs, Cur.s, Here)
    BY <1>0, <1>8, Zenon DEF MergeString, Reading
  <2>2. dup \in Nat
    BY <1>1, DuplicateType
  <2> HIDE DEF dup
  <2>3. Cur \in Tok /\ Cur.s \in Strings
    BY <1>2, <2>1
  <2>4. tracked_offsets_tbl' \in [0 .. MaxOffset -> Nat] /\ ipos' \in Nat \ {0}
    BY <1>1, <2>1, <2>2, TrackType DEF TrackString
  <2>5. CASE dup # 0
    <3>1. Grown(out, out') /\ strs' = strs
      <4>1. "COPY" \in Tags
        BY DEF Tags
      <4> QED
        BY <1>1, <1>4, <2>1, <2>2, <2>5, <4>1
    <3> QED
      BY <1>5, <2>1, <2>4, <3>1, MergingStep
  <2>6. CASE dup = 0
    <3>1. out' = Append(out, Cur) /\ strs' = Remember(strs, Cur.s, Here)
      BY <2>1, <2>6
    <3>2. Grown(out, out') /\ Len(out') = Here /\ out'[Here] = Cur
      BY <1>1, <2>3, <3>1, GrownAppend
    <3>3. TableStep(strs, strs', out, out')
      <4>1. CASE strs' = strs
        BY <1>5, <4>1
      <4>2. CASE opt.dedupe /\ strs' = STRTABLE_insert(strs, Cur.s, Here)
        <5>1. Len(out) < Here /\ Here <= Len(out') /\ IsString(out'[Here]) /\ out'[Here].s = Cur.s
          BY <1>1, <2>1, <3>2
        <5> QED
          BY <1>1, <2>3, <4>2, <5>1 DEF TableStep
      <4> QED
        BY <3>1, <4>1, <4>2 DEF Remember
    <3> QED
      BY <1>5, <2>1, <2>4, <3>2, <3>3, MergingStep
  <2> QED
    BY <2>5, <2>6
<1>9. ASSUME MergeContainer PROVE Preserved
  <2>1. /\ phase = "merging" /\ phase' = phase /\ ipos <= Len(ibuf) /\ UNCHANGED unreached
        /\ UNCHANGED <<queue, ibuf, string_deduper_tbl, classname_deduper_tbl>>
        /\ Track(ipos, Here) /\ out' = Append(out, T(Cur.tag, Cur.n, none)) /\ ipos' = ipos + 1
    BY <1>0, <1>9, Zenon DEF MergeContainer, AtValue, Reading
  <2>2. Grown(out, out')
    BY <1>1, <1>2, <1>4, <2>1
  <2>3. tracked_offsets_tbl' \in [0 .. MaxOffset -> Nat] /\ ipos' \in Nat \ {0}
    BY <1>1, <2>1, TrackType
  <2> QED
    BY <1>5, <2>1, <2>2, <2>3, MergingStep
<1>10. ASSUME Leave PROVE Preserved
  <2>1. /\ phase = "merging" /\ phase' = phase /\ UNCHANGED unreached /\ UNCHANGED <<queue, ibuf>>
        /\ out' = out /\ ipos' = ipos /\ tracked_offsets_tbl' = tracked_offsets_tbl
        /\ string_deduper_tbl' = string_deduper_tbl /\ classname_deduper_tbl' = classname_deduper_tbl
    BY <1>10 DEF Leave, Reading, tables
  <2> QED
    BY <1>1, <1>5, <1>6, <2>1, MergingStep
<1>11. ASSUME MergePrefix PROVE Preserved
  <2>1. /\ phase = "merging" /\ phase' = phase /\ ipos <= Len(ibuf) /\ UNCHANGED unreached
        /\ UNCHANGED <<queue, ibuf, string_deduper_tbl, classname_deduper_tbl>>
        /\ Track(ipos, Here) /\ out' = Append(out, T(Cur.tag, 0, none)) /\ ipos' = ipos + 1
    BY <1>0, <1>11, Zenon DEF MergePrefix, AtValue, Reading
  <2>2. Grown(out, out')
    BY <1>1, <1>2, <1>4, <2>1
  <2>3. tracked_offsets_tbl' \in [0 .. MaxOffset -> Nat] /\ ipos' \in Nat \ {0}
    BY <1>1, <2>1, TrackType
  <2> QED
    BY <1>5, <2>1, <2>2, <2>3, MergingStep
<1>12. ASSUME MergePad PROVE Preserved
  <2>1. /\ phase = "merging" /\ phase' = phase /\ ipos <= Len(ibuf) /\ UNCHANGED unreached
        /\ UNCHANGED <<queue, ibuf, string_deduper_tbl, classname_deduper_tbl>>
        /\ Track(ipos, Here) /\ out' = out \o Times(T("PAD", 0, none), PadRun) /\ ipos' = ipos + PadRun
    BY <1>0, <1>12, Zenon DEF MergePad, AtValue, Reading
  <2>2. PadRun \in Nat
    BY <1>1, <2>1, PadRunType
  <2>3. Times(T("PAD", 0, none), PadRun) \in Seq(Tok)
    <3>1. "PAD" \in Tags
      BY DEF Tags
    <3>2. T("PAD", 0, none) \in Tok
      BY <1>1, <1>4, <3>1
    <3>3. Times(T("PAD", 0, none), PadRun) \in [1 .. PadRun -> Tok]
      BY <3>2 DEF Times
    <3> QED
      BY <2>2, <3>3, SeqDef
  <2>4. Grown(out, out')
    BY <1>1, <2>1, <2>3, GrownConcat
  <2>5. tracked_offsets_tbl' \in [0 .. MaxOffset -> Nat] /\ ipos' \in Nat \ {0}
    BY <1>1, <2>1, <2>2, TrackType
  <2> QED
    BY <1>5, <2>1, <2>4, <2>5, MergingStep
<1>13. ASSUME MergeOffset PROVE Preserved
  <2> DEFINE to == Target(Cur.n)
             c == Append(out, T(Cur.tag, to, none))
  <2>1. /\ phase = "merging" /\ phase' = phase /\ ipos <= Len(ibuf) /\ UNCHANGED unreached
        /\ UNCHANGED <<queue, ibuf, string_deduper_tbl, classname_deduper_tbl>> /\ HasOffset(Cur)
        /\ Track(ipos, Here) /\ out' = FlagTarget(c, Cur, to) /\ ipos' = ipos + 1
    BY <1>0, <1>13, Zenon DEF MergeOffset, AtValue, Reading
  <2>2. Grown(out, c)
    BY <1>1, <1>2, <1>4, <2>1
  <2> HIDE DEF c, to
  <2>3. Grown(out, out')
    BY <1>1, <2>1, <2>2, GrownFlag DEF FlagTarget
  <2>4. tracked_offsets_tbl' \in [0 .. MaxOffset -> Nat] /\ ipos' \in Nat \ {0}
    BY <1>1, <2>1, TrackType
  <2> QED
    BY <1>5, <2>1, <2>3, <2>4, MergingStep
<1>14. ASSUME MergeKeyCopy PROVE Preserved
  <2>1. /\ phase = "merging" /\ phase' = phase /\ ipos <= Len(ibuf) /\ UNCHANGED unreached
        /\ UNCHANGED <<queue, ibuf, string_deduper_tbl, classname_deduper_tbl>> /\ Cur.tag = "COPY"
        /\ Track(ipos, Here) /\ out' = Append(out, T("COPY", Target(Cur.n), none)) /\ ipos' = ipos + 1
    BY <1>0, <1>14, Zenon DEF MergeKeyCopy, Reading
  <2>2. HasOffset(Cur) /\ "COPY" \in Tags
    BY <2>1 DEF HasOffset, Tags
  <2>3. Grown(out, out')
    BY <1>1, <1>2, <1>4, <2>1, <2>2
  <2>4. tracked_offsets_tbl' \in [0 .. MaxOffset -> Nat] /\ ipos' \in Nat \ {0}
    BY <1>1, <2>1, TrackType
  <2> QED
    BY <1>5, <2>1, <2>3, <2>4, MergingStep
<1>15. ASSUME MergeObject PROVE Preserved
  <2> DEFINE dup == Duplicate(classname_deduper_tbl, ClassName)
  <2>1. /\ phase = "merging" /\ phase' = phase /\ ipos < Len(ibuf) /\ UNCHANGED unreached
        /\ UNCHANGED <<queue, ibuf, string_deduper_tbl>> /\ ipos' = ipos + 2
        /\ IsString(ClassName) /\ ClassTable(IF dup # 0 THEN dup ELSE Here + 1)
        /\ out' = IF dup # 0 THEN Append(out, T("OBJECTV", dup, none))
                  ELSE out \o <<T("OBJECT", 0, none), ClassName>>
        /\ classes' = IF dup # 0 THEN classes ELSE Remember(classes, ClassName.s, Here + 1)
    BY <1>0, <1>15, Zenon DEF MergeObject, AtValue, Reading
  <2>2. dup \in Nat
    BY <1>1, DuplicateType
  <2> HIDE DEF dup
  <2>3. ClassName \in Tok /\ ClassName.s \in Strings
    BY <1>3, <2>1
  <2>4. tracked_offsets_tbl' \in [0 .. MaxOffset -> Nat] /\ ipos' \in Nat \ {0}
    BY <1>1, <2>1, <2>2, ClassTableType
  <2>5. CASE dup # 0
    <3>1. Grown(out, out') /\ classes' = classes
      <4>1. "OBJECTV" \in Tags
        BY DEF Tags
      <4> QED
        BY <1>1, <1>4, <2>1, <2>2, <2>5, <4>1
    <3> QED
      BY <1>5, <2>1, <2>4, <3>1, MergingStep
  <2>6. CASE dup = 0
    <3> DEFINE tail == <<T("OBJECT", 0, none), ClassName>>
    <3>1. out' = out \o tail /\ classes' = Remember(classes, ClassName.s, Here + 1)
      BY <2>1, <2>6
    <3>2. tail \in Seq(Tok) /\ Len(tail) = 2 /\ tail[2] = ClassName
      <4>1. "OBJECT" \in Tags
        BY DEF Tags
      <4>2. T("OBJECT", 0, none) \in Tok
        BY <1>1, <1>4, <4>1
      <4> QED
        BY <2>3, <4>2
    <3> HIDE DEF tail
    <3>3. Grown(out, out') /\ Len(out') = Len(out) + 2 /\ out'[Len(out) + 2] = ClassName
      <4>1. /\ Grown(out, out') /\ Len(out') = Len(out) + Len(tail)
            /\ \A i \in 1 .. Len(tail) : out'[Len(out) + i] = tail[i]
        BY <1>1, <3>1, <3>2, GrownConcat
      <4>2. 2 \in 1 .. Len(tail)
        BY <3>2
      <4> QED
        BY <3>2, <4>1, <4>2
    <3>4. TableStep(classes, classes', out, out')
      <4>1. CASE classes' = classes
        BY <1>5, <4>1
      <4>2. CASE opt.dedupe /\ classes' = STRTABLE_insert(classes, ClassName.s, Here + 1)
        <5>1. /\ Here + 1 = Len(out) + 2 /\ Here + 1 \in Nat /\ Len(out) < Here + 1 /\ Here + 1 <= Len(out')
              /\ IsString(out'[Here + 1]) /\ out'[Here + 1].s = ClassName.s
          BY <1>1, <2>1, <3>3
        <5> QED
          BY <2>3, <4>2, <5>1 DEF TableStep
      <4> QED
        BY <3>1, <4>1, <4>2 DEF Remember
    <3> QED
      BY <1>5, <2>1, <2>4, <3>3, <3>4, MergingStep
  <2> QED
    BY <2>5, <2>6
<1>16. ASSUME MergeObjectCopy PROVE Preserved
  <2>1. /\ phase = "merging" /\ phase' = phase /\ ipos < Len(ibuf) /\ UNCHANGED unreached
        /\ UNCHANGED <<queue, ibuf, string_deduper_tbl, classname_deduper_tbl>> /\ ClassName.tag = "COPY"
        /\ ClassTable(Here + 1) /\ out' = Append(out, T("COPY", Target(ClassName.n), none))
        /\ ipos' = ipos + 2
    BY <1>0, <1>16, Zenon DEF MergeObjectCopy, AtValue, Reading
  <2>2. HasOffset(ClassName) /\ "COPY" \in Tags
    BY <2>1 DEF HasOffset, Tags
  <2>3. Grown(out, out')
    BY <1>1, <1>3, <1>4, <2>1, <2>2
  <2>4. tracked_offsets_tbl' \in [0 .. MaxOffset -> Nat] /\ ipos' \in Nat \ {0}
    BY <1>1, <2>1, ClassTableType
  <2> QED
    BY <1>5, <2>1, <2>3, <2>4, MergingStep
<1>17. ASSUME MergeRegexp PROVE Preserved
  <2>1. /\ phase = "merging" /\ phase' = phase /\ UNCHANGED unreached
        /\ UNCHANGED <<queue, ibuf, string_deduper_tbl, classname_deduper_tbl>>
        /\ Track(ipos, Here) /\ out' = Append(out, T("REGEXP", 0, none)) /\ ipos' = ipos + 1
    BY <1>0, <1>17, Zenon DEF MergeRegexp, AtValue, Reading
  <2>2. "REGEXP" \in Tags
    BY DEF Tags
  <2>3. Grown(out, out')
    BY <1>1, <1>4, <2>1, <2>2
  <2>4. tracked_offsets_tbl' \in [0 .. MaxOffset -> Nat] /\ ipos' \in Nat \ {0}
    BY <1>1, <2>1, TrackType
  <2> QED
    BY <1>5, <2>1, <2>3, <2>4, MergingStep
<1>18. ASSUME MergeModifiers PROVE Preserved
  <2>1. /\ phase = "merging" /\ phase' = phase /\ ipos <= Len(ibuf) /\ UNCHANGED unreached
        /\ UNCHANGED <<queue, ibuf>> /\ out' = Append(out, Cur) /\ ipos' = ipos + 1
        /\ tracked_offsets_tbl' = tracked_offsets_tbl
        /\ string_deduper_tbl' = string_deduper_tbl /\ classname_deduper_tbl' = classname_deduper_tbl
    BY <1>0, <1>18, Zenon DEF MergeModifiers, Reading, tables
  <2>2. Grown(out, out')
    BY <1>1, <1>2, <2>1, GrownAppend
  <2> QED
    BY <1>1, <1>5, <2>1, <2>2, MergingStep
<1> QED
  BY <1>7, <1>8, <1>9, <1>10, <1>11, <1>12, <1>13, <1>14, <1>15, <1>16, <1>17, <1>18

\* A document that fails leaves output and tables as they are.
LEMMA FailedDocument ==
  ASSUME IInv, phase \in {"next", "merging"}, phase' = "idle", queue' = <<>>,
         UNCHANGED <<opt, out, obuf_last_successfull_offset, cnt_of_merged_elements,
                     string_deduper_tbl, classname_deduper_tbl, ibuf, ipos>>,
         tracked_offsets_tbl' \in [0 .. MaxOffset -> Nat]
  PROVE  Preserved
<1>1. ITypes'
  BY DEF IInv, ITypes
<1>2. Tidy /\ TableInv(string_deduper_tbl) /\ TableInv(classname_deduper_tbl)
  BY DEF IInv, Tidy
<1>3. TableInv(string_deduper_tbl)' /\ TableInv(classname_deduper_tbl)'
  BY <1>2 DEF TableInv
<1>4. KeepsCommitted
  BY KeptUnchanged DEF IInv
<1> QED
  BY <1>1, <1>3, <1>4 DEF IInv, Preserved

LEMMA InvNext == IInv /\ [Next]_vars => Preserved
<1> SUFFICES ASSUME IInv, [Next]_vars PROVE Preserved
  OBVIOUS
<1>1. ASSUME UNCHANGED <<opt, out, obuf_last_successfull_offset, cnt_of_merged_elements,
                         tracked_offsets_tbl, string_deduper_tbl, classname_deduper_tbl, queue, ibuf, ipos>>,
             phase' = phase \/ (phase' = "idle" /\ phase = "next")
      PROVE  Preserved
  <2>1. ITypes'
    BY <1>1 DEF IInv, ITypes
  <2>2. phase' # "corrupt" => phase # "corrupt"
    BY <1>1
  <2>3. Tidy' => Tidy
    BY <1>1 DEF Tidy
  <2>4. TableInv(string_deduper_tbl) => TableInv(string_deduper_tbl)'
    BY <1>1, <2>3 DEF TableInv
  <2>5. TableInv(classname_deduper_tbl) => TableInv(classname_deduper_tbl)'
    BY <1>1, <2>3 DEF TableInv
  <2>6. KeepsCommitted
    BY <1>1, KeptUnchanged DEF IInv
  <2> QED
    BY <2>1, <2>2, <2>4, <2>5, <2>6 DEF IInv, Preserved
<1>2. ASSUME NEW d \in Docs, Append1Refused(d) PROVE Preserved
  BY <1>1, <1>2 DEF Append1Refused, tables, input
<1>3. ASSUME NextRefused PROVE Preserved
  <2>1. /\ UNCHANGED <<opt, out, obuf_last_successfull_offset, cnt_of_merged_elements,
                       tracked_offsets_tbl, string_deduper_tbl, classname_deduper_tbl, ibuf, ipos>>
        /\ phase = "next" /\ phase' = "idle" /\ queue' = <<>>
    BY <1>3 DEF NextRefused, Failed, tables
  <2>2. tracked_offsets_tbl' \in [0 .. MaxOffset -> Nat]
    BY <2>1 DEF IInv, ITypes
  <2> QED
    BY <2>1, <2>2, FailedDocument
<1>4. ASSUME AllMerged PROVE Preserved
  BY <1>1, <1>4 DEF AllMerged, tables, input
<1>5. ASSUME MergeFails PROVE Preserved
  <2>1. /\ UNCHANGED <<opt, out, obuf_last_successfull_offset, cnt_of_merged_elements,
                       string_deduper_tbl, classname_deduper_tbl, ibuf, ipos>>
        /\ phase = "merging" /\ phase' = "idle" /\ queue' = <<>>
    BY <1>5 DEF MergeFails, Failed, unreached
  <2>2. tracked_offsets_tbl' \in [0 .. MaxOffset -> Nat]
    <3>1. \/ tracked_offsets_tbl' = tracked_offsets_tbl
          \/ ClassTable(Here + 1)
          \/ Track(ipos, Here)
      BY <1>5 DEF MergeFails
    <3>2. ITypes /\ Here \in Nat /\ Here + 1 \in Nat
      BY DEF IInv, ITypes, Here
    <3>3. CASE tracked_offsets_tbl' = tracked_offsets_tbl
      BY <3>2, <3>3 DEF ITypes
    <3> QED
      BY <3>1, <3>2, <3>3, ClassTableType, TrackType
  <2> QED
    BY <2>1, <2>2, FailedDocument
<1>6. CASE UNCHANGED vars
  BY <1>1, <1>6 DEF vars, tables, input
<1>7. CASE MergeStep
  <2>1. \/ MergeScalar \/ MergeString \/ MergeContainer \/ Leave \/ MergePrefix \/ MergePad
        \/ MergeOffset \/ MergeKeyCopy \/ MergeObject \/ MergeObjectCopy \/ MergeRegexp
        \/ MergeModifiers \/ MergeFails \/ DocumentMerged \/ NextDocument \/ NextRefused \/ AllMerged
    BY <1>7, Zenon DEF MergeStep
  <2>2. /\ (MergeScalar => Preserved) /\ (MergeString => Preserved) /\ (MergeContainer => Preserved) /\ (Leave => Preserved)
        /\ (MergePrefix => Preserved) /\ (MergePad => Preserved) /\ (MergeOffset => Preserved) /\ (MergeKeyCopy => Preserved)
        /\ (MergeObject => Preserved) /\ (MergeObjectCopy => Preserved) /\ (MergeRegexp => Preserved)
        /\ (MergeModifiers => Preserved)
    BY InvMerge
  <2>3. (NextDocument => Preserved) /\ (DocumentMerged => Preserved)
    BY InvCalls
  <2> QED
    BY <1>3, <1>4, <1>5, <2>1, <2>2, <2>3
<1>8. CASE \E d \in Docs : Append1(d) \/ Append1Refused(d)
  BY <1>2, <1>8, InvCalls, Zenon
<1>9. CASE \E ds \in Lists : AppendAll(ds)
  BY <1>9, InvCalls, Zenon
<1>10. CASE Finish
  BY <1>10, InvCalls, Zenon
<1>11. CASE Idle
  BY <1>6, <1>11, Zenon DEF Idle
<1> QED
  BY <1>6, <1>7, <1>8, <1>9, <1>10, <1>11, Zenon DEF Next

\* IInv holds in every state of the merger.
THEOREM Invariance == Spec => []IInv
<1>1. IInv /\ [Next]_vars => IInv'
  BY InvNext DEF Preserved
<1> QED
  BY <1>1, InvInit, PTL DEF Spec

\* For all documents, options and sizes: unless a purge left its arenas, the
\* entries of both string tables are counted, linked where a lookup finds them
\* and in order, and those of completed documents name the string they were made
\* for, whatever appends failed and were cleaned up in between.
THEOREM MergerTables == Spec => []TablesSound
<1>1. IInv => TablesSound
  <2> SUFFICES ASSUME IInv, phase # "corrupt" PROVE TablesSound
    BY DEF TablesSound
  <2>1. /\ out \in Seq(Tok) /\ Len(out) \in Nat /\ obuf_last_successfull_offset \in 0 .. Len(out) + 1
        /\ TableInv(string_deduper_tbl) /\ TableInv(classname_deduper_tbl)
    BY DEF IInv, ITypes
  <2>2. Len(Committed) \in Nat /\ Len(Committed) <= Len(out)
    <3>1. CASE obuf_last_successfull_offset = 0
      BY <2>1, <3>1 DEF Committed
    <3>2. CASE obuf_last_successfull_offset # 0
      <4> DEFINE k == obuf_last_successfull_offset - 1
      <4>1. k \in 0 .. Len(out) /\ Committed = SubSeq(out, 1, k)
        BY <2>1, <3>2 DEF Committed
      <4> HIDE DEF k
      <4>2. Len(SubSeq(out, 1, k)) = k
        BY <2>1, <4>1
      <4> QED
        BY <2>1, <4>1, <4>2
    <3> QED
      BY <3>1, <3>2
  <2>3. ASSUME NEW t, TableInv(t) PROVE Consistent(t) /\ NamesItsString(t)
    <3>1. Sound(t) /\ Consistent(t) /\ NamesIn(t, out)
      BY <2>3 DEF TableInv, Sound
    <3>2. ASSUME NEW p \in Slots(t), Entry(t, p).offset <= Len(Committed)
          PROVE  /\ IsString(out[Entry(t, p).offset])
                 /\ Hash[out[Entry(t, p).offset].s] = Entry(t, p).hash
      <4>1. Entry(t, p).offset \in Nat
        BY <3>1, SlotFacts DEF Sound
      <4>2. Entry(t, p).offset <= Len(out)
        BY <2>1, <2>2, <3>2, <4>1
      <4> QED
        BY <3>1, <4>2 DEF NamesIn
    <3> QED
      BY <3>1, <3>2 DEF NamesItsString
  <2> QED
    BY <2>1, <2>3 DEF TablesSound
<1> QED
  BY <1>1, Invariance, PTL

\* For all documents, options and sizes: what the calls so far completed stays in
\* the output, tag for tag, while later calls append to it, fail, are cleaned up
\* after, and finish (srl_merger.c, and the promise of Merger.pm for append).
THEOREM MergerKeepsCommitted == Spec => CommittedKept
<1>1. IInv /\ [Next]_vars => [KeepsCommitted]_vars
  BY InvNext DEF Preserved
<1> QED
  BY <1>1, Invariance, PTL DEF Spec, CommittedKept
=============================================================================
