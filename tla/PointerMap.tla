----------------------------- MODULE PointerMap -----------------------------
(***************************************************************************)
(* What the pointer table promises to the encoder, the decoder and the      *)
(* Merger: a map from keys to values, NULL for a key that is not in it, and *)
(* iterations that return every key of it once and end when they have.      *)
(***************************************************************************)
EXTENDS Naturals

CONSTANTS Keys, Values, NULL

VARIABLES map,        \* key -> value, or NULL
          todo,       \* the keys an open iteration has still to return
          count,      \* the keys it has returned
          phase       \* of the iteration: closed, open, or at its end

Init == map = [k \in Keys |-> NULL] /\ todo = {} /\ count = 0 /\ phase = "closed"

Present == {k \in Keys : map[k] # NULL}
Phase(left) == IF left = {} THEN "end" ELSE "open"
Shut == todo' = {} /\ count' = 0 /\ phase' = "closed"

\* The map changes while no iteration is open, or goes with it (PTABLE_free).
Store == /\ phase = "closed"
         /\ \E k \in Keys, v \in Values : map' = [map EXCEPT ![k] = v]
         /\ UNCHANGED <<todo, count, phase>>
Delete == /\ phase = "closed"
          /\ \E k \in Keys : map' = [map EXCEPT ![k] = NULL]
          /\ UNCHANGED <<todo, count, phase>>
Clear == map' = [k \in Keys |-> NULL] /\ Shut

Begin == /\ phase = "closed"
         /\ todo' = Present /\ count' = 0 /\ phase' = Phase(Present)
         /\ UNCHANGED map
Return == /\ phase = "open"
          /\ \E k \in todo : todo' = todo \ {k} /\ phase' = Phase(todo \ {k})
          /\ count' = count + 1
          /\ UNCHANGED map
Close == phase # "closed" /\ Shut /\ UNCHANGED map

Next == Store \/ Delete \/ Clear \/ Begin \/ Return \/ Close
Spec == Init /\ [][Next]_<<map, todo, count, phase>>
=============================================================================
