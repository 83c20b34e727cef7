---------------------------- MODULE MCMemmanMixed ----------------------------
(* Requests of two sizes, and user data that is zero.                       *)
EXTENDS Memman

MCSizes == {1, 3}
MCJunk == {[is_inuse |-> 0, size |-> 0], [is_inuse |-> 1, size |-> 1]}
=============================================================================
