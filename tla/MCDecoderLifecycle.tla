------------------------- MODULE MCDecoderLifecycle -------------------------
(* The object's decoder and two clones, three calls: enough for calls nested *)
(* two deep and for another one after nested ones have ended.                *)
EXTENDS DecoderLifecycle

MCDocs == {[len |-> 2, packed |-> FALSE, bad |-> FALSE], [len |-> 3, packed |-> TRUE, bad |-> FALSE],
           [len |-> 0, packed |-> FALSE, bad |-> FALSE], [len |-> 2, packed |-> FALSE, bad |-> TRUE]}
=============================================================================
