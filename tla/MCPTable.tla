------------------------------ MODULE MCPTable ------------------------------
(* Four keys whose hashes agree in their lowest bit, so that every doubling   *)
(* of the table has chains to split.                                         *)
EXTENDS PTable

MCKeys == 1 .. 4
MCHash == [k \in MCKeys |-> 2 * k - 1]
=============================================================================
