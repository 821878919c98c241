---------------------------- MODULE MCSrlBuffer ----------------------------
(* Small sizes with the proportions of the code (64, 11, 4): the initial    *)
(* buffer holds the header and little more, so that every writer is met     *)
(* with too little, exactly enough and more than enough room.               *)
EXTENDS SrlBuffer

MCLens == {0, 3}
=============================================================================
