---------------------------- MODULE PTableProofs ----------------------------
(* For every set of keys, hash function and initial size: the pointer table   *)
(* keeps its entries where it looks for them, its iterators return them all,  *)
(* and it implements the map of PointerMap.                                   *)
EXTENDS PTable, NatLemmas, TLAPS

Entries == [key : Keys, value : Values]

\* An entry the open iterator has still to return: the rest of its chain, or a
\* later bucket.
Pending(e) == e \in iter.left \/ Bucket(e.key, tbl_max) >= iter.bucket_num

\* The open iterator has returned exactly the keys of the entries that are not
\* pending, and stands behind the last bucket when the chain it is in is used up.
IterInv == iter.open =>
  /\ iter.bucket_num <= tbl_max + 1
  /\ iter.left \subseteq All
  /\ \A e \in iter.left : Bucket(e.key, tbl_max) < iter.bucket_num
  /\ iter.left = {} => iter.bucket_num = tbl_max + 1
  /\ \A e \in All : e.key \in read <=> ~Pending(e)

\* Without an iterator nothing counts as returned.
NoIter == ~iter.open => reads = 0

IInv == TypeOK /\ Placed /\ IterInv /\ NoIter

-----------------------------------------------------------------------------
(* Tables *)

\* The entries of an array of chains, and that they are in the chains of their
\* hashes: All and Placed are about the table's own array.
Content(ary, max) == UNION {ary[i] : i \in 0 .. max}
IsTable(ary, max) == /\ ary \in [0 .. max -> SUBSET Entries]
                     /\ \A i \in 0 .. max : \A e \in ary[i] : Bucket(e.key, max) = i

\* A key has a bucket in every table, and in one of twice the size either the
\* same or the one that lies the old size higher.
LEMMA BucketSpec ==
  ASSUME NEW k \in Keys, NEW max \in Nat
  PROVE  /\ Bucket(k, max) \in 0 .. max
         /\ \/ Bucket(k, 2 * max + 1) = Bucket(k, max)
            \/ Bucket(k, 2 * max + 1) = Bucket(k, max) + (max + 1)
<1>1. Hash[k] \in Nat /\ max + 1 \in Nat \ {0} /\ (2 * max + 1) + 1 = 2 * (max + 1)
  BY HashAssumption
<1>2. Hash[k] % (max + 1) \in 0 .. (max + 1) - 1
  BY <1>1, ModDoubled
<1>3. \/ Hash[k] % (2 * (max + 1)) = Hash[k] % (max + 1)
      \/ Hash[k] % (2 * (max + 1)) = (Hash[k] % (max + 1)) + (max + 1)
  BY <1>1, ModDoubled
<1> QED
  BY <1>1, <1>2, <1>3 DEF Bucket

\* In a table an entry can only be in the chain of its hash.
LEMMA ContentSpec ==
  ASSUME NEW max \in Nat, NEW ary, IsTable(ary, max), NEW e
  PROVE  e \in Content(ary, max) <=> e \in Entries /\ e \in ary[Bucket(e.key, max)]
<1>1. ASSUME e \in Content(ary, max) PROVE e \in Entries /\ e \in ary[Bucket(e.key, max)]
  BY <1>1 DEF Content, IsTable
<1>2. ASSUME e \in Entries, e \in ary[Bucket(e.key, max)] PROVE e \in Content(ary, max)
  <2>1. Bucket(e.key, max) \in 0 .. max
    BY <1>2, BucketSpec DEF Entries
  <2> QED
    BY <1>2, <2>1 DEF Content
<1> QED
  BY <1>1, <1>2

\* Growing a table yields a table with the same entries.
LEMMA GrowSpec ==
  ASSUME NEW max \in Nat, NEW ary, IsTable(ary, max)
  PROVE  /\ IsTable(PTABLE_grow(ary, max), 2 * max + 1)
         /\ Content(PTABLE_grow(ary, max), 2 * max + 1) = Content(ary, max)
<1> DEFINE g == PTABLE_grow(ary, max)
           big == 2 * max + 1
           old == max + 1
<1>0. big \in Nat /\ old \in Nat
  OBVIOUS
<1>1. \A i \in 0 .. big : /\ i < old => g[i] = {e \in ary[i] : Bucket(e.key, big) = i}
                          /\ i >= old => g[i] = {e \in ary[i - old] : Bucket(e.key, big) # i - old}
  BY DEF PTABLE_grow
<1>2. g = [i \in 0 .. big |-> g[i]]
  BY DEF PTABLE_grow
<1> HIDE DEF g
<1>3. ASSUME NEW i \in 0 .. big
      PROVE  g[i] \subseteq Entries /\ \A e \in g[i] : Bucket(e.key, big) = i
  <2>1. CASE i < old
    <3>1. i \in 0 .. max
      BY <2>1
    <3> QED
      BY <1>1, <2>1, <3>1 DEF IsTable
  <2>2. CASE i >= old
    <3>1. i - old \in 0 .. max
      BY <2>2
    <3>2. \A e \in ary[i - old] : e \in Entries /\ Bucket(e.key, max) = i - old
      BY <3>1 DEF IsTable
    <3>3. \A e \in g[i] : e \in ary[i - old] /\ Bucket(e.key, big) # i - old
      BY <1>1, <2>2
    <3>4. ASSUME NEW e \in g[i] PROVE Bucket(e.key, big) = i
      <4>1. e.key \in Keys /\ Bucket(e.key, max) = i - old /\ Bucket(e.key, big) # i - old
        BY <3>2, <3>3, <3>4 DEF Entries
      <4>2. Bucket(e.key, big) = Bucket(e.key, max) + old
        BY <4>1, BucketSpec
      <4> QED
        BY <4>1, <4>2
    <3> QED
      BY <3>2, <3>3, <3>4
  <2> QED
    BY <2>1, <2>2
<1>4. IsTable(g, big)
  BY <1>2, <1>3 DEF IsTable
<1>5. ASSUME NEW e PROVE e \in Content(g, big) <=> e \in Content(ary, max)
  <2>1. ASSUME e \in Content(g, big) PROVE e \in Content(ary, max)
    <3>1. PICK i \in 0 .. big : e \in g[i]
      BY <2>1 DEF Content
    <3>2. CASE i < old
      BY <1>1, <3>1, <3>2 DEF Content
    <3>3. CASE i >= old
      <4>1. i - old \in 0 .. max /\ e \in ary[i - old]
        BY <1>1, <3>1, <3>3
      <4> QED
        BY <4>1 DEF Content
    <3> QED
      BY <3>2, <3>3
  <2>2. ASSUME e \in Content(ary, max) PROVE e \in Content(g, big)
    <3>1. PICK i \in 0 .. max : e \in ary[i]
      BY <2>2 DEF Content
    <3>2. e.key \in Keys /\ Bucket(e.key, max) = i
      BY <3>1 DEF IsTable, Entries
    <3>3. i \in 0 .. big /\ i < old /\ i + old \in 0 .. big /\ i + old >= old /\ (i + old) - old = i
      OBVIOUS
    <3>4. CASE Bucket(e.key, big) = i
      BY <1>1, <3>1, <3>3, <3>4 DEF Content
    <3>5. CASE Bucket(e.key, big) # i
      <4>1. e \in g[i + old]
        BY <1>1, <3>1, <3>3, <3>5
      <4> QED
        BY <3>3, <4>1 DEF Content
    <3> QED
      BY <3>4, <3>5
  <2> QED
    BY <2>1, <2>2
<1> QED
  BY <1>4, <1>5 DEF g

\* The array with the entries of key k replaced by those of C.
Updated(ary, max, k, C) ==
  [ary EXCEPT ![Bucket(k, max)] = (ary[Bucket(k, max)] \ {e \in ary[Bucket(k, max)] : e.key = k}) \cup C]

\* Giving the chain of a key's bucket new entries for that key changes no entry
\* of another key.
LEMMA UpdateSpec ==
  ASSUME NEW max \in Nat, NEW ary, IsTable(ary, max), NEW k \in Keys, NEW C,
         C \subseteq Entries, \A e \in C : e.key = k
  PROVE  /\ IsTable(Updated(ary, max, k, C), max)
         /\ \A e : e \in Content(Updated(ary, max, k, C), max)
                    <=> (e \in Content(ary, max) /\ e.key # k) \/ e \in C
<1> DEFINE b == Bucket(k, max)
           chain == (ary[b] \ {e \in ary[b] : e.key = k}) \cup C
           new == Updated(ary, max, k, C)
<1>1. b \in 0 .. max
  BY BucketSpec
<1>2. /\ ary \in [0 .. max -> SUBSET Entries]
      /\ \A i \in 0 .. max : \A e \in ary[i] : Bucket(e.key, max) = i
  BY DEF IsTable
<1>3. chain \subseteq Entries /\ \A e \in chain : Bucket(e.key, max) = b
  BY <1>1, <1>2
<1>4. /\ new \in [0 .. max -> SUBSET Entries]
      /\ new[b] = chain
      /\ \A i \in 0 .. max : i # b => new[i] = ary[i]
  BY <1>1, <1>2, <1>3 DEF Updated
<1> HIDE DEF new
<1>5. IsTable(new, max)
  <2> SUFFICES ASSUME NEW i \in 0 .. max, NEW e \in new[i] PROVE Bucket(e.key, max) = i
    BY <1>4 DEF IsTable
  <2>1. CASE i = b
    BY <1>3, <1>4, <2>1
  <2>2. CASE i # b
    BY <1>2, <1>4, <2>2
  <2> QED
    BY <2>1, <2>2
<1>6. ASSUME NEW e PROVE e \in Content(new, max) <=> (e \in Content(ary, max) /\ e.key # k) \/ e \in C
  <2>1. e \in Content(new, max) <=> e \in Entries /\ e \in new[Bucket(e.key, max)]
    BY <1>5, ContentSpec
  <2>2. e \in Content(ary, max) <=> e \in Entries /\ e \in ary[Bucket(e.key, max)]
    BY ContentSpec
  <2>3. CASE e \in Entries
    <3>1. Bucket(e.key, max) \in 0 .. max
      BY <2>3, BucketSpec DEF Entries
    <3>2. CASE Bucket(e.key, max) = b
      BY <1>4, <2>1, <2>2, <2>3, <3>2
    <3>3. CASE Bucket(e.key, max) # b
      <4>1. e.key # k /\ e \notin C /\ new[Bucket(e.key, max)] = ary[Bucket(e.key, max)]
        BY <1>4, <3>1, <3>3
      <4> QED
        BY <2>1, <2>2, <2>3, <4>1
    <3> QED
      BY <3>2, <3>3
  <2>4. CASE e \notin Entries
    BY <2>1, <2>2, <2>4
  <2> QED
    BY <2>3, <2>4
<1> QED
  BY <1>5, <1>6 DEF new

\* An empty array is a table without entries.
LEMMA EmptySpec ==
  ASSUME NEW max \in Nat
  PROVE  IsTable(Empty(max), max) /\ Content(Empty(max), max) = {}
BY DEF IsTable, Content, Empty

-----------------------------------------------------------------------------
(* What the operations do to the entries *)

\* The part of the invariant that is about the table, by its entries.
TableInv ==
  /\ tbl_max \in Nat /\ tbl_items \in Nat
  /\ IsTable(tbl_ary, tbl_max)
  /\ \A e, f \in All : e.key = f.key => e = f
  /\ tbl_items = 0 => All = {}

LEMMA TableInvIsPlaced ==
  TableInv <=> Placed /\ tbl_max \in Nat /\ tbl_items \in Nat
                      /\ tbl_ary \in [0 .. tbl_max -> SUBSET [key : Keys, value : Values]]
BY DEF TableInv, Placed, IsTable, Entries

LEMMA AllIsContent == All = Content(tbl_ary, tbl_max) /\ All' = Content(tbl_ary', tbl_max')
BY DEF All, Content

\* PTABLE_find finds the entries the table has for a key.
LEMMA FoundSpec ==
  ASSUME TableInv, NEW k \in Keys
  PROVE  Found(k) = {e \in All : e.key = k} /\ All \subseteq Entries
<1>1. \A e : e \in All <=> e \in Entries /\ e \in tbl_ary[Bucket(e.key, tbl_max)]
  BY ContentSpec, AllIsContent DEF TableInv
<1>2. Bucket(k, tbl_max) \in 0 .. tbl_max
  BY BucketSpec DEF TableInv
<1>3. tbl_ary[Bucket(k, tbl_max)] \subseteq Entries
  BY <1>2 DEF TableInv, IsTable
<1> QED
  BY <1>1, <1>3 DEF Found

\* PTABLE_fetch returns the value of the entry there is, NULL when there is none.
LEMMA FetchSpec ==
  TableInv => /\ \A e \in All : e \in Entries /\ PTABLE_fetch(e.key) = e.value
              /\ \A k \in Keys : (\A e \in All : e.key # k) => PTABLE_fetch(k) = NULL
<1> SUFFICES ASSUME TableInv
             PROVE  /\ \A e \in All : e \in Entries /\ PTABLE_fetch(e.key) = e.value
                    /\ \A k \in Keys : (\A e \in All : e.key # k) => PTABLE_fetch(k) = NULL
  OBVIOUS
<1>1. \A k \in Keys : Found(k) = {e \in All : e.key = k} /\ All \subseteq Entries
  BY FoundSpec
<1>2. ASSUME NEW e \in All PROVE e \in Entries /\ PTABLE_fetch(e.key) = e.value
  <2>1. e \in Entries /\ e.key \in Keys
    BY ContentSpec, AllIsContent DEF TableInv, Entries
  <2>2. Found(e.key) = {e}
    BY <1>1, <2>1 DEF TableInv
  <2> QED
    BY <2>1, <2>2 DEF PTABLE_fetch
<1>3. ASSUME NEW k \in Keys, \A e \in All : e.key # k PROVE PTABLE_fetch(k) = NULL
  <2>1. Found(k) = {}
    BY <1>1, <1>3
  <2> QED
    BY <2>1 DEF PTABLE_fetch
<1> QED
  BY <1>2, <1>3

\* A store replaces what there was for the key, whether the table grows or not.
LEMMA StoreSpec ==
  ASSUME TableInv, NEW k \in Keys, NEW v \in Values, PTABLE_store(k, v)
  PROVE  /\ TableInv'
         /\ \A e : e \in All' <=> (e \in All /\ e.key # k) \/ e = Entry(k, v)
<1> DEFINE b == Bucket(k, tbl_max)
           chain == (tbl_ary[b] \ Found(k)) \cup {Entry(k, v)}
           added == [tbl_ary EXCEPT ![b] = chain]
<1>1. /\ IsTable(added, tbl_max)
      /\ \A e : e \in Content(added, tbl_max) <=> (e \in All /\ e.key # k) \/ e \in {Entry(k, v)}
  <2>1. {Entry(k, v)} \subseteq Entries /\ \A e \in {Entry(k, v)} : e.key = k
    BY DEF Entry, Entries
  <2>2. added = Updated(tbl_ary, tbl_max, k, {Entry(k, v)})
    BY DEF Found, Updated
  <2>3. tbl_max \in Nat /\ IsTable(tbl_ary, tbl_max)
    BY DEF TableInv
  <2> HIDE DEF added
  <2> QED
    BY <2>1, <2>2, <2>3, UpdateSpec, AllIsContent
<1>2. /\ tbl_max' \in Nat /\ tbl_items' \in Nat \ {0}
      /\ IsTable(tbl_ary', tbl_max')
      /\ Content(tbl_ary', tbl_max') = Content(added, tbl_max)
  <2>0. tbl_max \in Nat /\ tbl_items \in Nat
    BY DEF TableInv
  <2>1. CASE Found(k) # {}
    <3>1. tbl_ary' = added /\ tbl_max' = tbl_max /\ tbl_items' = tbl_items
      BY <2>1 DEF PTABLE_store
    <3>2. tbl_items # 0
      BY <2>1, FoundSpec DEF TableInv
    <3> QED
      BY <1>1, <2>0, <3>1, <3>2
  <2>2. CASE Found(k) = {} /\ tbl_ary[b] # {} /\ tbl_items' > tbl_max
    <3>1. tbl_ary' = PTABLE_grow(added, tbl_max) /\ tbl_max' = 2 * tbl_max + 1 /\ tbl_items' = tbl_items + 1
      BY <2>2 DEF PTABLE_store
    <3> HIDE DEF added
    <3>2. /\ IsTable(PTABLE_grow(added, tbl_max), 2 * tbl_max + 1)
          /\ Content(PTABLE_grow(added, tbl_max), 2 * tbl_max + 1) = Content(added, tbl_max)
      BY <1>1, <2>0, GrowSpec
    <3> QED
      BY <2>0, <3>1, <3>2
  <2>3. CASE Found(k) = {} /\ ~(tbl_ary[b] # {} /\ tbl_items' > tbl_max)
    <3>1. tbl_ary' = added /\ tbl_max' = tbl_max /\ tbl_items' = tbl_items + 1
      BY <2>3 DEF PTABLE_store
    <3> QED
      BY <1>1, <2>0, <3>1
  <2> QED
    BY <2>1, <2>2, <2>3
<1> HIDE DEF added
<1>3. \A e : e \in All' <=> (e \in All /\ e.key # k) \/ e = Entry(k, v)
  BY <1>1, <1>2, AllIsContent
<1>4. Entry(k, v).key = k
  BY DEF Entry
<1>5. \A e, f \in All' : e.key = f.key => e = f
  BY <1>3, <1>4 DEF TableInv
<1> QED
  BY <1>2, <1>3, <1>5 DEF TableInv

\* A deletion unlinks the entry of the key.
LEMMA DeleteSpec ==
  ASSUME TableInv, NEW k \in Keys, PTABLE_delete(k)
  PROVE  /\ TableInv'
         /\ \A e : e \in All' <=> e \in All /\ e.key # k
<1>0. tbl_max' = tbl_max /\ tbl_items' = tbl_items
  BY DEF PTABLE_delete
<1>1. CASE tbl_items = 0
  <2>1. tbl_ary' = tbl_ary
    BY <1>1 DEF PTABLE_delete
  <2>2. All' = All /\ All = {}
    BY <1>0, <1>1, <2>1, AllIsContent DEF TableInv
  <2> QED
    BY <1>0, <2>1, <2>2 DEF TableInv
<1>2. CASE tbl_items # 0
  <2>1. tbl_ary' = Updated(tbl_ary, tbl_max, k, {})
    BY <1>2 DEF PTABLE_delete, Unlinked, Found, Updated
  <2>3. tbl_max \in Nat /\ IsTable(tbl_ary, tbl_max) /\ {} \subseteq Entries /\ \A e \in {} : e.key = k
    BY DEF TableInv
  <2>4. /\ IsTable(tbl_ary', tbl_max')
        /\ \A e : e \in All' <=> (e \in All /\ e.key # k) \/ e \in {}
    BY <1>0, <2>1, <2>3, UpdateSpec, AllIsContent
  <2> QED
    BY <1>0, <1>2, <2>4 DEF TableInv
<1> QED
  BY <1>1, <1>2

\* Clearing and freeing leave no entry.
LEMMA ClearSpec ==
  ASSUME TableInv, (Cleared /\ tbl_max' = tbl_max) \/ PTABLE_free
  PROVE  TableInv' /\ All' = {}
<1>0. tbl_max' = tbl_max /\ tbl_max \in Nat
  BY DEF TableInv, PTABLE_free
<1>1. CASE tbl_items = 0 /\ tbl_ary' = tbl_ary /\ tbl_items' = tbl_items
  <2>1. All' = All /\ All = {}
    BY <1>0, <1>1, AllIsContent DEF TableInv
  <2> QED
    BY <1>0, <1>1, <2>1 DEF TableInv
<1>2. CASE tbl_ary' = Empty(tbl_max) /\ tbl_items' = 0
  BY <1>0, <1>2, EmptySpec, AllIsContent DEF TableInv
<1> QED
  BY <1>1, <1>2 DEF Cleared, PTABLE_free

-----------------------------------------------------------------------------
(* Iterators *)

\* Where an iterator may stand whose pending entries are those of left and of the
\* buckets from a number on.
Stands(it, from, left) ==
  /\ it.open /\ it.bucket_num <= tbl_max + 1
  /\ it \in [open : BOOLEAN, bucket_num : Nat, left : SUBSET All]
  /\ \A e \in it.left : Bucket(e.key, tbl_max) < it.bucket_num
  /\ it.left = {} => it.bucket_num = tbl_max + 1
  /\ \A e \in All : e \in it.left \/ Bucket(e.key, tbl_max) >= it.bucket_num
                    <=> e \in left \/ Bucket(e.key, tbl_max) >= from

\* Moving on takes nothing from what is pending: PTABLE_ITER_NEXT_ELEM goes to a
\* chain with entries, past empty buckets only, or behind the last one.
LEMMA ElemSpec ==
  ASSUME TableInv, NEW from \in Nat, from <= tbl_max + 1, NEW left, left \subseteq All,
         \A e \in left : Bucket(e.key, tbl_max) < from
  PROVE  Stands(Elem(from, left), from, left)
<1> DEFINE it == Elem(from, left)
           At(n, entries) == [open |-> TRUE, bucket_num |-> n, left |-> entries]
<1>0. /\ tbl_max \in Nat
      /\ \A i \in 0 .. tbl_max : \A e \in tbl_ary[i] : Bucket(e.key, tbl_max) = i
  BY DEF TableInv, IsTable
<1>1. \A e \in All : /\ Bucket(e.key, tbl_max) \in 0 .. tbl_max
                     /\ e \in tbl_ary[Bucket(e.key, tbl_max)]
  BY <1>0, ContentSpec, AllIsContent, BucketSpec DEF TableInv, Entries
<1>2. CASE left # {}
  <2>1. it = At(from, left)
    BY <1>2 DEF Elem
  <2>2. it.open = TRUE /\ it.bucket_num = from /\ it.left = left
        /\ it \in [open : BOOLEAN, bucket_num : Nat, left : SUBSET All]
    BY <2>1
  <2>3. Stands(it, from, left)
    <3> HIDE DEF it
    <3> QED
      BY <1>2, <2>2 DEF Stands
  <2> QED
    BY <2>3
<1>3. CASE left = {} /\ Filled(from) = {}
  <2>1. it = At(tbl_max + 1, {})
    BY <1>3 DEF Elem
  <2>2. \A e \in All : Bucket(e.key, tbl_max) < from
    BY <1>1, <1>3, <1>0 DEF Filled
  <2>3. \A e \in All : ~(Bucket(e.key, tbl_max) >= tbl_max + 1) /\ ~(Bucket(e.key, tbl_max) >= from)
    BY <1>0, <1>1, <2>2
  <2>4. it.open = TRUE /\ it.bucket_num = tbl_max + 1 /\ it.left = {}
        /\ it \in [open : BOOLEAN, bucket_num : Nat, left : SUBSET All]
    BY <1>0, <2>1
  <2>5. Stands(it, from, left)
    <3> HIDE DEF it
    <3> QED
      BY <1>0, <1>3, <2>3, <2>4 DEF Stands
  <2> QED
    BY <2>5
<1>4. CASE left = {} /\ Filled(from) # {}
  <2> DEFINE next == CHOOSE i \in Filled(from) : \A h \in Filled(from) : i <= h
  <2>1. it = At(next + 1, tbl_ary[next])
    BY <1>4 DEF Elem
  <2>2. next \in Filled(from) /\ \A h \in Filled(from) : next <= h
    <3>1. Filled(from) \subseteq Nat
      BY <1>0 DEF Filled
    <3>2. \E i \in Filled(from) : \A h \in Filled(from) : i <= h
      BY <1>4, <3>1, LeastExists
    <3> QED
      BY <3>2
  <2> HIDE DEF next
  <2>3. next \in 0 .. tbl_max /\ next >= from /\ tbl_ary[next] # {}
    BY <2>2 DEF Filled
  <2>4. tbl_ary[next] \subseteq All
    BY <2>3 DEF All
  <2>5. ASSUME NEW e \in All
        PROVE  e \in tbl_ary[next] \/ Bucket(e.key, tbl_max) >= next + 1 <=> Bucket(e.key, tbl_max) >= from
    <3>1. Bucket(e.key, tbl_max) >= from => Bucket(e.key, tbl_max) >= next
      BY <1>1, <2>2 DEF Filled
    <3>2. e \in tbl_ary[next] <=> Bucket(e.key, tbl_max) = next
      BY <1>0, <1>1, <2>3
    <3> QED
      BY <1>0, <1>1, <2>3, <3>1, <3>2
  <2>6. it.open = TRUE /\ it.bucket_num = next + 1 /\ it.left = tbl_ary[next]
        /\ it \in [open : BOOLEAN, bucket_num : Nat, left : SUBSET All]
    BY <2>1, <2>3, <2>4
  <2>7. \A e \in tbl_ary[next] : Bucket(e.key, tbl_max) < next + 1
    BY <1>0, <2>3
  <2>8. Stands(it, from, left)
    <3> HIDE DEF it
    <3> QED
      BY <1>0, <1>4, <2>3, <2>5, <2>6, <2>7 DEF Stands
  <2> QED
    BY <2>8
<1> QED
  BY <1>2, <1>3, <1>4

-----------------------------------------------------------------------------
(* The invariant *)

\* The invariant by its parts that the steps change.
LEMMA IInvParts ==
  IInv <=> /\ TableInv /\ IterInv /\ NoIter
           /\ iter \in [open : BOOLEAN, bucket_num : Nat, left : SUBSET Entries]
           /\ cur_iter \in BOOLEAN /\ alive \in BOOLEAN /\ read \subseteq Keys /\ reads \in Nat
BY TableInvIsPlaced DEF IInv, TypeOK, Entries

LEMMA IInvPartsPrimed ==
  IInv' <=> /\ TableInv' /\ IterInv' /\ NoIter'
            /\ iter' \in [open : BOOLEAN, bucket_num : Nat, left : SUBSET Entries]
            /\ cur_iter' \in BOOLEAN /\ alive' \in BOOLEAN /\ read' \subseteq Keys /\ reads' \in Nat
BY DEF IInv, TypeOK, Entries, TableInv, Placed, IsTable, Bucket

LEMMA InitIInv == Init => IInv
<1> SUFFICES ASSUME Init PROVE IInv
  OBVIOUS
<1>1. tbl_max \in Nat /\ tbl_ary = Empty(tbl_max) /\ tbl_items = 0
  BY SizeAssumption DEF Init
<1>2. TableInv
  BY <1>1, EmptySpec, AllIsContent DEF TableInv
<1> QED
  BY <1>2, IInvParts DEF Init, Closed, IterInv, NoIter

\* Nothing pending is lost when an iterator is opened or moves on.
LEMMA IterNewSpec ==
  ASSUME IInv, NEW auto \in BOOLEAN, PTABLE_iter_new(auto)
  PROVE  IInv' /\ iter'.open
<1> DEFINE from == IF tbl_items = 0 THEN tbl_max + 1 ELSE 0
<1>1. TableInv /\ tbl_max \in Nat
  BY IInvParts DEF TableInv
<1>2. UNCHANGED <<tbl_ary, tbl_max, tbl_items, alive>> /\ cur_iter' = auto /\ read' = {} /\ reads' = 0
      /\ iter' = Elem(from, {})
  BY DEF PTABLE_iter_new, table
<1>3. from \in Nat /\ from <= tbl_max + 1 /\ {} \subseteq All /\ \A e \in {} : Bucket(e.key, tbl_max) < from
  BY <1>1
<1>4. \A e \in All : Bucket(e.key, tbl_max) >= from
  <2>1. \A e \in All : Bucket(e.key, tbl_max) \in 0 .. tbl_max
    BY <1>1, ContentSpec, AllIsContent, BucketSpec DEF TableInv, Entries
  <2> QED
    BY <1>1, <2>1 DEF TableInv
<1> HIDE DEF from
<1>5. Stands(iter', from, {})
  BY <1>1, <1>2, <1>3, ElemSpec
<1>6. All' = All /\ TableInv' /\ All \subseteq Entries
  BY <1>1, <1>2, AllIsContent, ContentSpec DEF TableInv
<1>7. \A e \in All' : e.key \in read' <=> ~Pending(e)'
  BY <1>2, <1>4, <1>5, <1>6 DEF Pending, Bucket, Stands
<1>8. IterInv'
  BY <1>2, <1>5, <1>6, <1>7 DEF IterInv, Bucket, Stands
<1> QED
  BY <1>2, <1>5, <1>6, <1>8, IInvParts, IInvPartsPrimed DEF Stands, NoIter

LEMMA IterNextSpec ==
  ASSUME IInv, PTABLE_iter_next
  PROVE  /\ IInv' /\ iter'.open
         /\ \E e \in All : e.key \notin read /\ read' = read \cup {e.key}
<1>1. TableInv /\ tbl_max \in Nat /\ IterInv /\ iter \in [open : BOOLEAN, bucket_num : Nat, left : SUBSET Entries]
      /\ cur_iter \in BOOLEAN /\ alive \in BOOLEAN /\ read \subseteq Keys /\ reads \in Nat
  BY IInvParts DEF TableInv
<1>2. PICK e \in iter.left : iter' = Elem(iter.bucket_num, iter.left \ {e}) /\ read' = read \cup {e.key}
  BY DEF PTABLE_iter_next
<1>3. UNCHANGED <<tbl_ary, tbl_max, tbl_items, cur_iter, alive>> /\ iter.open /\ reads' = reads + 1
  BY DEF PTABLE_iter_next, table
<1> DEFINE from == iter.bucket_num
           left == iter.left \ {e}
<1>4. /\ from \in Nat /\ from <= tbl_max + 1 /\ left \subseteq All
      /\ \A f \in left : Bucket(f.key, tbl_max) < from
  BY <1>1, <1>3 DEF IterInv
<1>5. e \in All /\ Bucket(e.key, tbl_max) < from /\ e.key \in Keys
  BY <1>1, <1>3 DEF IterInv, Entries
<1>6. iter' = Elem(from, left)
  BY <1>2
<1>7. left \cup {e} = iter.left
  BY <1>2
<1> HIDE DEF from, left
<1>8. Stands(iter', from, left)
  BY <1>1, <1>4, <1>6, ElemSpec
<1>9. All' = All /\ TableInv' /\ All \subseteq Entries
  BY <1>1, <1>3, AllIsContent, ContentSpec DEF TableInv
<1>10. \A f \in All : f.key \in read <=> ~(f \in iter.left \/ Bucket(f.key, tbl_max) >= from)
  BY <1>1, <1>3 DEF IterInv, Pending, from
<1>11. ASSUME NEW f \in All PROVE f.key \in read' <=> ~(f \in left \/ Bucket(f.key, tbl_max) >= from)
  <2>1. CASE f = e
    <3>1. e \notin left
      BY DEF left
    <3>2. ~(Bucket(e.key, tbl_max) >= from)
      <4>1. Bucket(e.key, tbl_max) \in Nat
        BY <1>1, <1>5, BucketSpec
      <4> QED
        BY <1>4, <1>5, <4>1
    <3> QED
      BY <1>2, <2>1, <3>1, <3>2
  <2>2. CASE f # e
    <3>1. f.key # e.key
      BY <1>1, <1>5, <2>2 DEF TableInv
    <3>2. f \in left <=> f \in iter.left
      BY <1>7, <2>2
    <3> QED
      BY <1>2, <1>10, <3>1, <3>2
  <2> QED
    BY <2>1, <2>2
<1>12. \A f \in All' : f.key \in read' <=> ~Pending(f)'
  BY <1>3, <1>8, <1>9, <1>11 DEF Pending, Bucket, Stands
<1>13. IterInv'
  BY <1>3, <1>8, <1>9, <1>12 DEF IterInv, Bucket, Stands
<1>14. IInv'
  <2>1. reads' \in Nat
    BY <1>1, <1>3
  <2>2. read' \subseteq Keys
    BY <1>1, <1>2, <1>5
  <2>3. iter' \in [open : BOOLEAN, bucket_num : Nat, left : SUBSET Entries] /\ iter'.open
    BY <1>8, <1>9 DEF Stands
  <2> QED
    BY <1>1, <1>3, <1>9, <1>13, <2>1, <2>2, <2>3, IInvPartsPrimed DEF NoIter
<1>15. e.key \notin read
  BY <1>2, <1>5, <1>10
<1> QED
  BY <1>2, <1>5, <1>8, <1>14, <1>15 DEF Stands

\* Every step keeps the table's entries in place and the iterator exact.
LEMMA NextIInv == IInv /\ [Next]_vars => IInv'
<1> SUFFICES ASSUME IInv, [Next]_vars PROVE IInv'
  OBVIOUS
<1>0. /\ TableInv /\ IterInv /\ NoIter
      /\ iter \in [open : BOOLEAN, bucket_num : Nat, left : SUBSET Entries]
      /\ cur_iter \in BOOLEAN /\ alive \in BOOLEAN /\ read \subseteq Keys /\ reads \in Nat
  BY IInvParts
<1>1. ASSUME NEW k \in Keys, NEW v \in Values, PTABLE_store(k, v) PROVE IInv'
  <2>1. UNCHANGED <<iter, cur_iter, alive, read, reads>> /\ ~iter.open
    BY <1>1 DEF PTABLE_store
  <2> QED
    BY <1>0, <1>1, <2>1, StoreSpec, IInvPartsPrimed DEF IterInv, NoIter
<1>2. ASSUME NEW k \in Keys, PTABLE_delete(k) PROVE IInv'
  <2>1. UNCHANGED <<iter, cur_iter, alive, read, reads>> /\ ~iter.open
    BY <1>2 DEF PTABLE_delete
  <2> QED
    BY <1>0, <1>2, <2>1, DeleteSpec, IInvPartsPrimed DEF IterInv, NoIter
<1>3. CASE PTABLE_clear
  <2>1. UNCHANGED <<iter, cur_iter, alive, read, reads, tbl_max>> /\ ~iter.open /\ Cleared
    BY <1>3 DEF PTABLE_clear
  <2> QED
    BY <1>0, <2>1, ClearSpec, IInvPartsPrimed DEF IterInv, NoIter
<1>4. ASSUME NEW auto \in BOOLEAN, PTABLE_iter_new(auto) PROVE IInv'
  BY <1>4, IterNewSpec
<1>5. CASE PTABLE_iter_next
  BY <1>5, IterNextSpec
<1>6. CASE PTABLE_iter_free
  <2>1. UNCHANGED <<tbl_ary, tbl_max, tbl_items, alive>> /\ iter' = Closed /\ cur_iter' = FALSE
        /\ read' = {} /\ reads' = 0
    BY <1>6 DEF PTABLE_iter_free, table
  <2>2. TableInv'
    BY <1>0, <2>1, AllIsContent DEF TableInv
  <2> QED
    BY <1>0, <2>1, <2>2, IInvPartsPrimed DEF IterInv, NoIter, Closed
<1>7. CASE PTABLE_free
  <2>1. iter' = Closed /\ cur_iter' = FALSE /\ read' = {} /\ reads' = 0 /\ alive' = FALSE
    BY <1>7 DEF PTABLE_free
  <2> QED
    BY <1>0, <1>7, <2>1, ClearSpec, IInvPartsPrimed DEF IterInv, NoIter, Closed
<1>8. CASE UNCHANGED vars
  <2>1. UNCHANGED <<tbl_ary, tbl_max, tbl_items, iter, cur_iter, alive, read, reads>>
    BY <1>8 DEF vars
  <2>2. TableInv' /\ All' = All
    BY <1>0, <2>1, AllIsContent DEF TableInv
  <2>3. IterInv'
    BY <1>0, <2>1, <2>2 DEF IterInv, Pending, Bucket
  <2> QED
    BY <1>0, <2>1, <2>2, <2>3, IInvPartsPrimed DEF NoIter
<1> QED
  BY <1>1, <1>2, <1>3, <1>4, <1>5, <1>6, <1>7, <1>8 DEF Next

\* The pointer table's invariant, for every hash function and every size.
THEOREM Invariance == Spec => []IInv
<1>1. Init => IInv
  BY InitIInv
<1>2. IInv /\ [Next]_vars => IInv'
  BY NextIInv
<1> QED
  BY <1>1, <1>2, PTL DEF Spec

\* PTABLE_grow, PTABLE_store and PTABLE_delete leave every entry in the chain
\* PTABLE_find searches, one per key, and tbl_items is 0 only for an empty table.
THEOREM EntriesPlaced == Spec => []Placed
<1>1. IInv => Placed
  BY DEF IInv
<1> QED
  BY <1>1, Invariance, PTL

\* An open iterator is at its end exactly when no key is left to return.
LEMMA EndSpec == IInv /\ iter.open => (iter.left = {} <=> Todo = {})
<1> SUFFICES ASSUME IInv, iter.open PROVE iter.left = {} <=> {e.key : e \in All} \ read = {}
  BY DEF Todo
<1>1. TableInv /\ IterInv /\ tbl_max \in Nat
  BY IInvParts DEF TableInv
<1>2. \A e \in All : Bucket(e.key, tbl_max) \in 0 .. tbl_max
  BY <1>1, FetchSpec, BucketSpec DEF Entries
<1>3. ASSUME iter.left = {} PROVE {e.key : e \in All} \ read = {}
  <2>1. \A e \in All : ~Pending(e)
    BY <1>1, <1>2, <1>3 DEF IterInv, Pending
  <2> QED
    BY <1>1, <2>1 DEF IterInv
<1>4. ASSUME NEW e \in iter.left PROVE {f.key : f \in All} \ read # {}
  <2>1. e \in All /\ Pending(e)
    BY <1>1 DEF IterInv, Pending
  <2>2. e.key \notin read
    BY <1>1, <2>1 DEF IterInv
  <2> QED
    BY <2>1, <2>2
<1> QED
  BY <1>3, <1>4

\* An iterator for which PTABLE_iter_next has nothing left has returned the key
\* of every entry of the table.
THEOREM IteratorComplete == Spec => []IteratesAll
<1>1. IInv => IteratesAll
  BY EndSpec DEF IteratesAll
<1> QED
  BY <1>1, Invariance, PTL

-----------------------------------------------------------------------------
(* The table implements the map *)

\* A step that leaves the entries of a key alone leaves what is fetched for it.
LEMMA FetchUnchanged ==
  ASSUME TableInv, TableInv', NEW j \in Keys, \A e : e.key = j => (e \in All <=> e \in All')
  PROVE  PTABLE_fetch(j)' = PTABLE_fetch(j)
<1>1. /\ \A e \in All : e \in Entries /\ PTABLE_fetch(e.key) = e.value
      /\ \A k \in Keys : (\A e \in All : e.key # k) => PTABLE_fetch(k) = NULL
  BY FetchSpec
<1>2. (TableInv => /\ \A e \in All : e \in Entries /\ PTABLE_fetch(e.key) = e.value
                   /\ \A k \in Keys : (\A e \in All : e.key # k) => PTABLE_fetch(k) = NULL)'
  BY FetchSpec, PTL
<1>3. CASE \E e \in All : e.key = j
  BY <1>1, <1>2, <1>3
<1>4. CASE ~ \E e \in All : e.key = j
  BY <1>1, <1>2, <1>4
<1> QED
  BY <1>3, <1>4

FetchMap == [k \in Keys |-> PTABLE_fetch(k)]

\* A step of the table is a step of the map, or leaves it unchanged.
LEMMA StepRefines == IInv /\ [Next]_vars => [Map!Next]_<<FetchMap, Todo, reads, Phase>>
<1> SUFFICES ASSUME IInv, [Next]_vars PROVE [Map!Next]_<<FetchMap, Todo, reads, Phase>>
  OBVIOUS
<1>0. IInv' /\ TableInv /\ TableInv' /\ IterInv /\ NoIter
  BY NextIInv, IInvParts, IInvPartsPrimed
<1>1. (TableInv => /\ \A e \in All : e \in Entries /\ PTABLE_fetch(e.key) = e.value
                   /\ \A k \in Keys : (\A e \in All : e.key # k) => PTABLE_fetch(k) = NULL)'
  BY FetchSpec, PTL
<1>2. ASSUME All' = All PROVE FetchMap' = FetchMap
  <2>1. \A j \in Keys : PTABLE_fetch(j)' = PTABLE_fetch(j)
    BY <1>0, <1>2, FetchUnchanged
  <2> QED
    BY <2>1 DEF FetchMap
<1>a. ASSUME UNCHANGED <<iter, read, reads>>, ~iter.open
      PROVE  Phase = "closed" /\ UNCHANGED <<Todo, reads, Phase>>
  BY <1>a DEF Todo, Phase
<1>b. ASSUME ~iter'.open, reads' = 0 PROVE Map!Shut
  BY <1>b DEF Map!Shut, Todo, Phase
<1>c. iter.open => (iter.left = {} <=> Todo = {})
  BY EndSpec
<1>d. iter'.open => (iter'.left = {} <=> Todo' = {})
  <2>1. (IInv /\ iter.open => (iter.left = {} <=> Todo = {}))'
    BY EndSpec, PTL
  <2> QED
    BY <1>0, <2>1
<1>3. ASSUME NEW k \in Keys, NEW v \in Values, PTABLE_store(k, v) PROVE Map!Store
  <2>1. \A e : e \in All' <=> (e \in All /\ e.key # k) \/ e = Entry(k, v)
    BY <1>0, <1>3, StoreSpec
  <2>2. Entry(k, v).key = k /\ Entry(k, v).value = v
    BY DEF Entry
  <2>3. PTABLE_fetch(k)' = v
    BY <1>0, <1>1, <2>1, <2>2
  <2>4. \A j \in Keys \ {k} : PTABLE_fetch(j)' = PTABLE_fetch(j)
    BY <1>0, <2>1, <2>2, FetchUnchanged
  <2>5. FetchMap' = [FetchMap EXCEPT ![k] = v]
    BY <2>3, <2>4 DEF FetchMap
  <2>6. Phase = "closed" /\ UNCHANGED <<Todo, reads, Phase>>
    BY <1>3, <1>a DEF PTABLE_store
  <2> QED
    BY <2>5, <2>6 DEF Map!Store, FetchMap
<1>4. ASSUME NEW k \in Keys, PTABLE_delete(k) PROVE Map!Delete
  <2>1. \A e : e \in All' <=> e \in All /\ e.key # k
    BY <1>0, <1>4, DeleteSpec
  <2>2. PTABLE_fetch(k)' = NULL
    BY <1>0, <1>1, <2>1
  <2>3. \A j \in Keys \ {k} : PTABLE_fetch(j)' = PTABLE_fetch(j)
    BY <1>0, <2>1, FetchUnchanged
  <2>4. FetchMap' = [FetchMap EXCEPT ![k] = NULL]
    BY <2>2, <2>3 DEF FetchMap
  <2>5. Phase = "closed" /\ UNCHANGED <<Todo, reads, Phase>>
    BY <1>4, <1>a DEF PTABLE_delete
  <2> QED
    BY <2>4, <2>5 DEF Map!Delete, FetchMap
<1>5. ASSUME PTABLE_clear \/ PTABLE_free PROVE Map!Clear
  <2>1. All' = {}
    BY <1>0, <1>5, ClearSpec DEF PTABLE_clear
  <2>2. FetchMap' = [k \in Keys |-> NULL]
    BY <1>0, <1>1, <2>1 DEF FetchMap
  <2>3. ~iter'.open /\ reads' = 0
    BY <1>0, <1>5 DEF PTABLE_clear, PTABLE_free, Closed, NoIter
  <2> QED
    BY <2>2, <2>3, <1>b DEF Map!Clear, FetchMap
<1>6. ASSUME NEW auto \in BOOLEAN, PTABLE_iter_new(auto) PROVE Map!Begin
  <2>1. All' = All /\ ~iter.open /\ iter'.open /\ read' = {} /\ reads' = 0
    BY <1>6, IterNewSpec, AllIsContent DEF PTABLE_iter_new, table
  <2>2. Todo' = {e.key : e \in All}
    BY <2>1 DEF Todo
  <2>3. \A e \in All : e.key \in Keys /\ PTABLE_fetch(e.key) # NULL
    BY <1>0, FetchSpec, NullAssumption DEF Entries
  <2>4. \A k \in Keys : FetchMap[k] # NULL <=> \E e \in All : e.key = k
    BY <1>0, <2>3, FetchSpec DEF FetchMap
  <2>5. Todo' = {k \in Keys : FetchMap[k] # NULL}
    BY <2>2, <2>3, <2>4
  <2>6. Phase = "closed" /\ Phase' = Map!Phase(Todo')
    BY <2>1, <1>d DEF Phase, Map!Phase
  <2> QED
    BY <1>2, <2>1, <2>5, <2>6 DEF Map!Begin, Map!Present, FetchMap
<1>7. CASE PTABLE_iter_next
  <2>1. PICK e \in All : e.key \notin read /\ read' = read \cup {e.key}
    BY <1>7, IterNextSpec
  <2>2. All' = All /\ iter.open /\ iter'.open /\ reads' = reads + 1 /\ iter.left # {}
    BY <1>7, IterNextSpec, AllIsContent DEF PTABLE_iter_next, table
  <2>3. e.key \in Todo /\ Todo' = Todo \ {e.key}
    BY <2>1, <2>2 DEF Todo
  <2>4. Phase = "open" /\ Phase' = Map!Phase(Todo')
    BY <2>2, <1>d DEF Phase, Map!Phase
  <2>5. Map!Return
    BY <1>2, <2>2, <2>3, <2>4 DEF Map!Return, FetchMap
  <2> QED
    BY <2>5 DEF Map!Next
<1>8. CASE PTABLE_iter_free
  <2>1. All' = All /\ iter.open /\ ~iter'.open /\ reads' = 0
    BY <1>8, AllIsContent DEF PTABLE_iter_free, table, Closed
  <2>2. Phase # "closed"
    BY <2>1 DEF Phase
  <2>3. Map!Close
    BY <1>2, <1>b, <2>1, <2>2 DEF Map!Close, FetchMap
  <2> QED
    BY <2>3 DEF Map!Next
<1>9. CASE UNCHANGED vars
  <2>1. All' = All /\ UNCHANGED <<Todo, reads, Phase>>
    BY <1>9, AllIsContent DEF vars, Todo, Phase
  <2> QED
    BY <1>2, <2>1
<1> QED
  BY <1>3, <1>4, <1>5, <1>6, <1>7, <1>8, <1>9 DEF Next, Map!Next

\* The pointer table implements the map its users rely on: what PTABLE_store
\* stored is what PTABLE_fetch finds until it is deleted, cleared or replaced,
\* and an iterator returns every key exactly once and ends only then.
THEOREM Refinement == Spec => ImplementsMap
<1>1. Init => Map!Init
  <2> SUFFICES ASSUME Init PROVE Map!Init
    OBVIOUS
  <2>1. TableInv /\ All = {} /\ Todo = {} /\ reads = 0 /\ Phase = "closed"
    BY InitIInv, IInvParts DEF Init, Closed, Todo, TableInv, Phase
  <2>2. \A k \in Keys : PTABLE_fetch(k) = NULL
    BY <2>1, FetchSpec
  <2> QED
    BY <2>1, <2>2 DEF Map!Init
<1>2. IInv /\ [Next]_vars => [Map!Next]_<<[k \in Keys |-> PTABLE_fetch(k)], Todo, reads, Phase>>
  BY StepRefines DEF FetchMap
<1> QED
  BY <1>1, <1>2, Invariance, PTL DEF Spec, ImplementsMap, Map!Spec
=============================================================================
