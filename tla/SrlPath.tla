------------------------------ MODULE SrlPath ------------------------------
(***************************************************************************)
(* Sereal::Path (Perl/Path/srl_path.c): a query is a sequence of locations,  *)
(* answered by one walk of an iterator over the document.  The iterator is   *)
(* never taken back to where it was before a nested location: run_until     *)
(* steps out of what is left of the deeper levels when the walk goes on.    *)
(***************************************************************************)
EXTENDS SrlIterator
LOCAL INSTANCE SequencesExt

CONSTANTS Queries     \* [expr]: sequences of locations, a subset per document

VARIABLES expr,       \* the query; empty: none
          results     \* the positions decoded
pathvars == <<expr, results>>

(***************************************************************************)
(* A location: "all" (a star), "one" (a name, or a number), "list" (comma), or    *)
(* "range" (start:stop:step).  Its items as names, and as atoi reads them.  *)
(***************************************************************************)
Loc(kind, names, nums, number) ==
  [kind |-> kind, names |-> names, nums |-> nums, number |-> number]

\* srl_build_path_struct, with an iterator set.
PathInit == Init /\ expr = <<>> /\ results = <<>>

\* srl_path_set: with a document the path makes an iterator of its own, given an
\* iterator it goes on from wherever that is.
srl_path_set ==
  /\ work = <<>> /\ status # "crash" /\ MayCall("path_set")
  /\ expr' = <<>> /\ results' = <<>>
  /\ \/ pos' = 1 /\ stack' = <<Frame("ROOT", 1, 1)>> /\ depth' = 0 /\ status' = "ok"
     \/ UNCHANGED <<place, status>>
  /\ UNCHANGED <<work, found>>

\* srl_path_traverse
srl_path_traverse ==
  /\ work = <<>> /\ status \in {"ok", "croak"} /\ depth >= 0 /\ MayCall("traverse")
  /\ \E q \in Queries : q.doc = doc /\ expr' = q.expr
  /\ results' = <<>>
  /\ AtFirst(depth - Levels) /\ status' = "ok"
  /\ work' = <<[C("parse_next") EXCEPT !.e = 1]>>
  /\ UNCHANGED found

E(op, e) == [C(op) EXCEPT !.e = e]
loc == expr[cmd.e]

srl_parse_next ==
  /\ At("parse_next")
  /\ UNCHANGED <<fixed, place, found, expr>>
  /\ LET kind == srl_iterator_info(pos).kind
     IN  CASE pos > Len(doc) -> Return /\ UNCHANGED results
           [] pos <= Len(doc) /\ cmd.e > Len(expr) ->
                IF Exhausted THEN Croak /\ UNCHANGED results
                ELSE Return /\ results' = Append(results, pos)
           [] OTHER ->
                /\ UNCHANGED results
                /\ CASE kind = "BAD" -> Croak
                     [] kind = "HASH" -> Then(<<CN("step_in", 1), E("parse_hash", cmd.e)>>)
                     [] kind = "ARRAY" -> Then(<<CN("step_in", 1), E("parse_array", cmd.e)>>)
                     [] OTHER -> Return

\* The loops over a container: elements from n up to, not including, to, by steps.
Walk(op, n, to, by) == [E(op, cmd.e) EXCEPT !.n = n, !.to = to, !.by = by, !.d = depth]

srl_parse_hash ==
  /\ At("parse_hash")
  /\ Then(IF loc.kind = "all" THEN <<Walk("walk_hash", 0, top.length, 2)>>
          ELSE <<[E("names", cmd.e) EXCEPT !.n = 1]>>)
  /\ UNCHANGED <<fixed, place, found, pathvars>>

\* A start or stop of srl_parse_array_range, counted from the end if negative.
Bounded(i) == IF i < 0 THEN Max({0, i + top.length}) ELSE Min({top.length, i})

srl_parse_array ==
  /\ At("parse_array")
  /\ UNCHANGED <<fixed, place, found, pathvars>>
  /\ CASE loc.kind = "all" -> Then(<<Walk("walk_array", 0, top.length, 1)>>)
       [] loc.kind = "range" ->
            IF loc.nums[3] < 0 THEN Croak
            ELSE Then(<<Walk("walk_array", Bounded(loc.nums[1]), Bounded(loc.nums[2]),
                             IF loc.nums[3] = 0 THEN 1 ELSE loc.nums[3])>>)
       [] loc.kind = "list" \/ (loc.kind = "one" /\ loc.number) ->
            Then(<<[E("items", cmd.e) EXCEPT !.n = 1]>>)
       [] OTHER -> Return

Further == [cmd EXCEPT !.n = @ + cmd.by]
RunUntil(d, n) == [CN("run_until", n) EXCEPT !.d = d]

WalkHash ==
  /\ At("walk_hash")
  /\ Then(IF cmd.n >= cmd.to THEN <<>>
          ELSE <<RunUntil(cmd.d, cmd.n), C("hash_key"), E("parse_next", cmd.e + 1), Further>>)
  /\ UNCHANGED <<fixed, place, found, pathvars>>

WalkArray ==
  /\ At("walk_array")
  /\ Then(IF cmd.n >= cmd.to THEN <<>>
          ELSE <<RunUntil(cmd.d, cmd.n), E("parse_next", cmd.e + 1), Further>>)
  /\ UNCHANGED <<fixed, place, found, pathvars>>

\* srl_parse_hash_item, srl_parse_hash_list: the items one after the other.
ParseNames ==
  /\ At("names")
  /\ Then(IF cmd.n > Len(loc.names) THEN <<>>
          ELSE <<[C("hash_exists") EXCEPT !.k = loc.names[cmd.n]], E("if_found", cmd.e + 1),
                 [cmd EXCEPT !.n = @ + 1]>>)
  /\ UNCHANGED <<fixed, place, found, pathvars>>

IfFound ==
  /\ At("if_found")
  /\ Then(IF found THEN <<E("parse_next", cmd.e)>> ELSE <<>>)
  /\ UNCHANGED <<fixed, place, found, pathvars>>

\* srl_parse_array_item, srl_parse_array_list
ParseItems ==
  /\ At("items")
  /\ UNCHANGED <<fixed, place, found, pathvars>>
  /\ LET more == [cmd EXCEPT !.n = @ + 1]
     IN  CASE cmd.n > Len(loc.nums) -> Return
           [] cmd.n <= Len(loc.nums) /\ Exhausted -> Croak
           [] OTHER -> Then(IF Normalized(loc.nums[cmd.n]) = -1 THEN <<more>>
                            ELSE <<CN("goto", loc.nums[cmd.n]), E("parse_next", cmd.e + 1), more>>)

\* Mutant: the walk goes on from wherever it is.
RunsOn == <<CN("run_idx", cmd.n)>>

RunOut == <<CN("step_out", depth - cmd.d), CN("run_idx", cmd.n)>>

run_until ==
  /\ At("run_until")
  /\ IF cmd.d > depth THEN Croak ELSE Then(RunOut)
  /\ UNCHANGED <<fixed, place, found, pathvars>>

RunIdx ==
  /\ At("run_idx")
  /\ IF cmd.n < top.idx THEN Croak ELSE Then(<<CN("next", cmd.n - top.idx)>>)
  /\ UNCHANGED <<fixed, place, found, pathvars>>

PathMachine ==
  \/ srl_parse_next \/ srl_parse_hash \/ srl_parse_array \/ WalkHash \/ WalkArray
  \/ ParseNames \/ IfFound \/ ParseItems \/ run_until \/ RunIdx

Steps_ == (Machine /\ UNCHANGED pathvars) \/ PathMachine
Next == Steps_ \/ (Calls /\ expr' = <<>> /\ results' = <<>>) \/ srl_path_set \/ srl_path_traverse

pvars == <<vars, pathvars>>
\* A call that was begun runs to its end.
Spec == PathInit /\ [][Next]_pvars /\ WF_pvars(Steps_)

-----------------------------------------------------------------------------
(* Properties *)

\* The answers to a query from location e on at the value at i, by the
\* structure of the document: the positions of the values it selects.
RECURSIVE Answers(_, _, _)
Answers(q, i, e) ==
  LET kind == Described(Tree(doc, i, 4)).kind
      c == Contents(i)
      l == q[e]
      Nth(k) == AfterN(doc, c.first, k)                \* counted from 0
      Of(places) == FlattenSeq([k \in 1 .. Len(places) |-> Answers(q, places[k], e + 1)])
      Keys == {k \in 0 .. c.length - 1 : k % 2 = 0}
      Named(s) == LET ks == {k \in Keys : Name(doc, Nth(k)) = s}
                  IN  IF ks = {} THEN <<>> ELSE <<Nth(Min(ks) + 1)>>
      Numbered(n) == LET k == IF n < 0 THEN c.length + n ELSE n
                     IN  IF k \in 0 .. c.length - 1 THEN <<Nth(k)>> ELSE <<>>
      End(n) == IF n < 0 THEN Max({0, n + c.length}) ELSE Min({c.length, n})
      InRange(n) == /\ n >= End(l.nums[1]) /\ n < End(l.nums[2])
                    /\ (n - End(l.nums[1])) % Max({1, l.nums[3]}) = 0
      Chosen(test(_)) == LET ks == {k \in 0 .. c.length - 1 : test(k)}
                             order == SetToSortSeq(ks, <)
                         IN  [j \in 1 .. Len(order) |-> Nth(order[j])]
  IN  IF e > Len(q) THEN <<i>>
      ELSE CASE kind = "HASH" /\ l.kind = "all" -> Of(Chosen(LAMBDA k : k % 2 = 1))
             [] kind = "HASH" /\ l.kind # "all" ->
                  Of(FlattenSeq([j \in 1 .. Len(l.names) |-> Named(l.names[j])]))
             [] kind = "ARRAY" /\ l.kind = "all" -> Of(Chosen(LAMBDA k : TRUE))
             [] kind = "ARRAY" /\ l.kind = "range" -> Of(Chosen(InRange))
             [] kind = "ARRAY" /\ (l.kind = "list" \/ (l.kind = "one" /\ l.number)) ->
                  Of(FlattenSeq([j \in 1 .. Len(l.nums) |-> Numbered(l.nums[j])]))
             [] OTHER -> <<>>

\* When srl_path_traverse is back it has decoded the values the query
\* selects, in the order of the query, and croaked for none of them.  It holds
\* of queries that do not go into a blessed regexp or an object that is a REFP.
QueryAnswered ==
  expr # <<>> /\ work = <<>> => status = "ok" /\ results = Answers(expr, 1, 1)

\* Every call of the iterator and every query comes to an end.
CallsEnd == [](work # <<>> => <>(work = <<>>))
=============================================================================
