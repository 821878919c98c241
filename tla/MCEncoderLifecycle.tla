------------------------- MODULE MCEncoderLifecycle -------------------------
(* The object's encoder and two clones, three calls: enough for calls nested *)
(* two deep and for another one after nested ones have ended.  Two objects   *)
(* with FREEZE are enough for one of them to be frozen inside the other.     *)
EXTENDS EncoderLifecycle
=============================================================================
