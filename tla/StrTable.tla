------------------------------ MODULE StrTable ------------------------------
(***************************************************************************)
(* STRTABLE (Perl/Merger/strtable.h): the hash table the Merger uses to     *)
(* find strings it has written before.  An entry holds the hash and the     *)
(* offset of the string in the output buffer; entries live in arenas, in    *)
(* the order they were made, and are linked into chains by hash.            *)
(*                                                                          *)
(* A table is a record: ary, the chains; arenas, oldest first; next, the    *)
(* next free slot of the last arena (tbl_arena_next); items (tbl_items).    *)
(* A slot is a pair <<arena, index>>, the C pointer to the entry.  A chain  *)
(* is the set of its slots: no operation depends on their order.            *)
(***************************************************************************)
EXTENDS Integers, Sequences, FiniteSets

CONSTANTS ArenaSize,     \* entries per arena (341)
          InitialSize,   \* chains of a new table (512)
          Hash           \* STRTABLE_HASH, a function of the string

ASSUME ArenaAssumption == ArenaSize \in Nat \ {0}
ASSUME SizeAssumption == InitialSize \in Nat \ {0}

Chains(n) == [b \in 0 .. n - 1 |-> {}]
Bucket(t, h) == h % Cardinality(DOMAIN t.ary)
Entry(t, p) == t.arenas[p[1]][p[2]]
Slots(t) == {p \in (1 .. Len(t.arenas)) \X (1 .. ArenaSize) :
               p[1] < Len(t.arenas) \/ p[2] < t.next}

STRTABLE_new == [ary |-> Chains(InitialSize), arenas |-> <<>>, next |-> ArenaSize + 1,
                 items |-> 0, corrupt |-> FALSE]

\* The loop of STRTABLE_insert: the entries in the string's chain that name
\* the same bytes of buf.
STRTABLE_lookup(t, buf, tok) ==
  LET h == Hash[tok.s]
  IN  {Entry(t, p).offset : p \in {q \in t.ary[Bucket(t, h)] :
          /\ Entry(t, q).hash = h /\ Entry(t, q).offset \in DOMAIN buf
          /\ buf[Entry(t, q).offset] = tok}}

\* STRTABLE_grow: twice as many chains, to which those of the old ones are split.
STRTABLE_grow(t) ==
  LET old == Cardinality(DOMAIN t.ary)
  IN  [t EXCEPT !.ary = [b \in 0 .. 2 * old - 1 |->
         {p \in t.ary[b % old] : Entry(t, p).hash % (2 * old) = b}]]

\* STRTABLE_insert of a string that is not there, with the offset the caller
\* fills in at once.
STRTABLE_insert(t, s, ofs) ==
  LET full == t.next = ArenaSize + 1
      slot == IF full THEN <<Len(t.arenas) + 1, 1>> ELSE <<Len(t.arenas), t.next>>
      b == Bucket(t, Hash[s])
      new == [hash |-> Hash[s], offset |-> ofs]
      arenas == IF full THEN Append(t.arenas, <<new>>)
                ELSE [t.arenas EXCEPT ![slot[1]] = Append(@, new)]
      u == [t EXCEPT !.arenas = arenas, !.next = slot[2] + 1, !.items = @ + 1,
                     !.ary[b] = @ \cup {slot}]
  IN  IF t.ary[b] # {} /\ u.items > Cardinality(DOMAIN t.ary) - 1
      THEN STRTABLE_grow(u) ELSE u

(***************************************************************************)
(* STRTABLE_purge: removes the entries with offset >= ofs, walking back     *)
(* from the newest.  The loop works on three pointers: entry, the entry     *)
(* looked at; next, the slot behind the last entry kept; arena, the arena   *)
(* next is in (while entry may already be in the one before).               *)
(***************************************************************************)
Unlinked(t, p) ==
  [t EXCEPT !.items = @ - 1, !.ary[Bucket(t, Entry(t, p).hash)] = @ \ {p}]

\* Mutant: the last entry of an arena survives when the walk enters it.
PurgeStepSkips(w) ==
  LET u == Unlinked(w.tbl, w.entry)
  IN  CASE w.entry[2] = 1 /\ w.arena = 1 -> [w EXCEPT !.tbl = u, !.next = 1, !.stop = TRUE]
        [] w.entry = <<w.arena, 1>> /\ w.arena > 1 ->
             [w EXCEPT !.tbl = u, !.arena = @ - 1, !.entry = <<w.arena - 1, ArenaSize - 1>>,
                       !.next = ArenaSize]
        [] OTHER -> [w EXCEPT !.tbl = u, !.entry[2] = @ - 1, !.next = @ - 1]

PurgeStep(w) ==
  LET u == Unlinked(w.tbl, w.entry)
  IN  CASE w.entry = <<w.arena, 1>> /\ w.arena = 1 -> [w EXCEPT !.tbl = u, !.next = 1, !.stop = TRUE]
        [] w.entry = <<w.arena, 1>> /\ w.arena > 1 ->
             [w EXCEPT !.tbl = u, !.entry = <<w.arena - 1, ArenaSize>>, !.next = @ - 1]
        [] w.entry # <<w.arena, 1>> /\ w.next = 1 ->     \* frees the arena left behind
             [w EXCEPT !.tbl = u, !.arena = @ - 1, !.entry[2] = @ - 1, !.next = ArenaSize]
        [] OTHER -> [w EXCEPT !.tbl = u, !.entry[2] = @ - 1, !.next = @ - 1]

PurgeStart(t) == [tbl |-> t, arena |-> Len(t.arenas), entry |-> <<Len(t.arenas), t.next - 1>>,
                  next |-> t.next, stop |-> FALSE]
Outside(w) == w.entry[2] = 0          \* entry points before its arena
Goes(t, ofs, w) == ~w.stop /\ ~Outside(w) /\ Entry(t, w.entry).offset >= ofs
PurgeLoop(t, ofs) ==
  LET walk[n \in 0 .. t.items + 1] ==
        IF n = 0 THEN PurgeStart(t)
        ELSE IF Goes(t, ofs, walk[n - 1]) THEN PurgeStep(walk[n - 1]) ELSE walk[n - 1]
  IN  walk

STRTABLE_purge(t, ofs) ==
  LET end == PurgeLoop(t, ofs)[t.items + 1]
  IN  IF t.items = 0 THEN t
      ELSE IF Outside(end) THEN [t EXCEPT !.corrupt = TRUE]
      ELSE [end.tbl EXCEPT !.arenas = [a \in 1 .. end.arena |-> IF a < end.arena THEN @[a]
                                                         ELSE SubSeq(@[a], 1, end.next - 1)],
                       !.next = end.next]

-----------------------------------------------------------------------------
(* What a table promises: the entries in use are counted, each is in the    *)
(* chain of its hash and nothing else is, and the arenas are in the order   *)
(* of the offsets.                                                          *)
Before(p, q) == p[1] < q[1] \/ (p[1] = q[1] /\ p[2] < q[2])
Consistent(t) ==
  /\ t.items = Cardinality(Slots(t))
  /\ \A b \in DOMAIN t.ary : t.ary[b] = {p \in Slots(t) : Bucket(t, Entry(t, p).hash) = b}
  /\ \A p, q \in Slots(t) : Before(p, q) => Entry(t, p).offset < Entry(t, q).offset
=============================================================================
