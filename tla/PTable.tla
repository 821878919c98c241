------------------------------- MODULE PTable -------------------------------
(***************************************************************************)
(* The pointer table (Perl/shared/ptable.h): buckets of chained entries,     *)
(* doubled when a chain forms in a full table.  A chain is the set of its    *)
(* entries.  As in the callers, nothing is written while an iterator is      *)
(* open.                                                                    *)
(***************************************************************************)
EXTENDS Integers, FiniteSets

CONSTANTS Keys, Values, NULL,
          Hash,         \* key -> Nat, PTABLE_HASH
          InitialSize,  \* PTABLE_new_size, a power of two
          MaxItems      \* bound on what is ever stored between two clears

ASSUME HashAssumption == Hash \in [Keys -> Nat]
ASSUME SizeAssumption == InitialSize \in Nat \ {0}
ASSUME NullAssumption == NULL \notin Values

VARIABLES tbl_ary,      \* [0 .. tbl_max -> sets of entries]
          tbl_max,
          tbl_items,    \* entries stored; PTABLE_delete does not count
          iter,         \* left: the entries of the chain from cur_entry on
          cur_iter,     \* the open iterator is registered for PTABLE_free
          alive,
          read,         \* history: the keys the open iterator has returned
          reads         \* history: how many entries it has returned
vars == <<tbl_ary, tbl_max, tbl_items, iter, cur_iter, alive, read, reads>>
table == <<tbl_ary, tbl_max, tbl_items>>

Entry(k, v) == [key |-> k, value |-> v]
Closed == [open |-> FALSE, bucket_num |-> 0, left |-> {}]
Empty(n) == [i \in 0 .. n |-> {}]

\* PTABLE_new_size
Init ==
  /\ tbl_max = InitialSize - 1
  /\ tbl_ary = Empty(tbl_max)
  /\ tbl_items = 0
  /\ iter = Closed /\ cur_iter = FALSE /\ alive = TRUE /\ read = {} /\ reads = 0

Bucket(k, max) == Hash[k] % (max + 1)
\* PTABLE_find and PTABLE_fetch
Found(k) == {e \in tbl_ary[Bucket(k, tbl_max)] : e.key = k}
PTABLE_fetch(k) == IF Found(k) = {} THEN NULL ELSE (CHOOSE e \in Found(k) : TRUE).value

\* Mutant: the upper half is left empty.
GrownUnsplit(ary, max) == [i \in 0 .. 2 * max + 1 |-> IF i <= max THEN ary[i] ELSE {}]

\* PTABLE_grow: of each chain the entries that belong elsewhere go to the upper half.
PTABLE_grow(ary, max) ==
  LET old == max + 1
      Stays(e, i) == Bucket(e.key, 2 * max + 1) = i
  IN  [i \in 0 .. 2 * max + 1 |->
         IF i < old THEN {e \in ary[i] : Stays(e, i)}
         ELSE {e \in ary[i - old] : ~Stays(e, i - old)}]

\* An old entry gets the new value; a new one may make the table grow.
PTABLE_store(k, v) ==
  LET b == Bucket(k, tbl_max)
      added == [tbl_ary EXCEPT ![b] = (@ \ Found(k)) \cup {Entry(k, v)}]
  IN  /\ alive /\ ~iter.open
      /\ IF Found(k) # {} THEN tbl_ary' = added /\ UNCHANGED <<tbl_max, tbl_items>>
         ELSE /\ tbl_items < MaxItems
              /\ tbl_items' = tbl_items + 1
              /\ IF tbl_ary[b] # {} /\ tbl_items' > tbl_max
                 THEN tbl_ary' = PTABLE_grow(added, tbl_max) /\ tbl_max' = 2 * tbl_max + 1
                 ELSE tbl_ary' = added /\ UNCHANGED tbl_max
      /\ UNCHANGED <<iter, cur_iter, alive, read, reads>>

\* Mutant: the rest of the chain goes with its first entry.
ChainLost(k) == {}

\* The chain with the entry unlinked.
Unlinked(k) == tbl_ary[Bucket(k, tbl_max)] \ Found(k)

PTABLE_delete(k) ==
  /\ alive /\ ~iter.open
  /\ IF tbl_items = 0 THEN UNCHANGED tbl_ary
     ELSE tbl_ary' = [tbl_ary EXCEPT ![Bucket(k, tbl_max)] = Unlinked(k)]
  /\ UNCHANGED <<tbl_max, tbl_items, iter, cur_iter, alive, read, reads>>

\* PTABLE_clear, PTABLE_clear_dec: nothing to do when nothing was ever stored.
Cleared == IF tbl_items = 0 THEN UNCHANGED <<tbl_ary, tbl_items>>
           ELSE tbl_ary' = Empty(tbl_max) /\ tbl_items' = 0

PTABLE_clear ==
  /\ alive /\ ~iter.open
  /\ Cleared
  /\ UNCHANGED <<tbl_max, iter, cur_iter, alive, read, reads>>

-----------------------------------------------------------------------------
(* Iterators *)

\* Mutant: the last bucket is not looked at.
ShortOfLast(from) == {i \in 0 .. tbl_max - 1 : i >= from /\ tbl_ary[i] # {}}

\* The buckets from one on that have entries.
Filled(from) == {i \in 0 .. tbl_max : i >= from /\ tbl_ary[i] # {}}

\* PTABLE_ITER_NEXT_ELEM: the rest of the chain, or the next chain there is.
Elem(from, left) ==
  LET next == CHOOSE i \in Filled(from) : \A h \in Filled(from) : i <= h
      At(n, entries) == [open |-> TRUE, bucket_num |-> n, left |-> entries]
  IN  CASE left # {} -> At(from, left)
        [] left = {} /\ Filled(from) = {} -> At(tbl_max + 1, {})
        [] OTHER -> At(next + 1, tbl_ary[next])

\* PTABLE_iter_new_flags; a table nothing was stored in is not looked through.
\* Its assertion that there is an entry then fails where all of them were deleted,
\* which tbl_items does not show; a build without assertions returns an iterator at
\* its end, as here.
PTABLE_iter_new(auto) ==
  /\ alive /\ ~iter.open
  /\ iter' = Elem(IF tbl_items = 0 THEN tbl_max + 1 ELSE 0, {})
  /\ cur_iter' = auto /\ read' = {} /\ reads' = 0
  /\ UNCHANGED <<table, alive>>

\* The entry returned is the one the iterator was at before it moved on.
PTABLE_iter_next ==
  /\ alive /\ iter.open
  /\ \E e \in iter.left : /\ iter' = Elem(iter.bucket_num, iter.left \ {e})
                         /\ read' = read \cup {e.key}
  /\ reads' = reads + 1
  /\ UNCHANGED <<table, cur_iter, alive>>

PTABLE_iter_free ==
  /\ alive /\ iter.open
  /\ iter' = Closed /\ cur_iter' = FALSE /\ read' = {} /\ reads' = 0
  /\ UNCHANGED <<table, alive>>

\* A registered iterator goes with the table.
PTABLE_free ==
  /\ alive /\ (iter.open => cur_iter)
  /\ tbl_ary' = Empty(tbl_max) /\ tbl_items' = 0
  /\ iter' = Closed /\ cur_iter' = FALSE /\ alive' = FALSE
  /\ read' = {} /\ reads' = 0
  /\ UNCHANGED tbl_max

Next ==
  \/ \E k \in Keys, v \in Values : PTABLE_store(k, v)
  \/ \E k \in Keys : PTABLE_delete(k)
  \/ PTABLE_clear
  \/ \E auto \in BOOLEAN : PTABLE_iter_new(auto)
  \/ PTABLE_iter_next \/ PTABLE_iter_free \/ PTABLE_free

Spec == Init /\ [][Next]_vars

-----------------------------------------------------------------------------
(* Properties *)

All == UNION {tbl_ary[i] : i \in 0 .. tbl_max}

TypeOK ==
  /\ tbl_max \in Nat /\ tbl_items \in Nat
  /\ tbl_ary \in [0 .. tbl_max -> SUBSET [key : Keys, value : Values]]
  /\ iter \in [open : BOOLEAN, bucket_num : Nat, left : SUBSET [key : Keys, value : Values]]
  /\ cur_iter \in BOOLEAN /\ alive \in BOOLEAN /\ read \subseteq Keys /\ reads \in Nat

\* However often the table has grown, every entry is where PTABLE_find looks
\* for it, no key has two, and tbl_items, which PTABLE_clear and PTABLE_delete
\* trust to be 0 only for an empty table, counts at least the entries there are.
Placed ==
  /\ \A i \in 0 .. tbl_max : \A e \in tbl_ary[i] : Bucket(e.key, tbl_max) = i
  /\ \A e, f \in All : e.key = f.key => e = f
  /\ tbl_items = 0 => All = {}

\* The table implements the map: a store is found until it is deleted or
\* cleared, whatever else is stored and however the table grows; and the calls
\* of PTABLE_iter_next between PTABLE_iter_new and the end of the iterator
\* return every key of the table exactly once, neither more nor fewer.
Todo == IF iter.open THEN {e.key : e \in All} \ read ELSE {}
Phase == IF ~iter.open THEN "closed" ELSE IF iter.left = {} THEN "end" ELSE "open"
Map == INSTANCE PointerMap WITH map <- [k \in Keys |-> PTABLE_fetch(k)], todo <- Todo,
                                count <- reads, phase <- Phase
ImplementsMap == Map!Spec

\* An iterator that is at its end has returned every key.
IteratesAll == iter.open /\ iter.left = {} => Todo = {}
=============================================================================
