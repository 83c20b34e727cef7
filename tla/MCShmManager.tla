---------------------------- MODULE MCShmManager ----------------------------
(* Regions of one cell; user data that reads as a free end of the heap (the *)
(* run of one process has users that write worse).                          *)
EXTENDS ShmManager, TLC

MCSizes == {1}
ZeroJunk == {[is_inuse |-> 0, size |-> 0]}
Symmetry == Permutations(Names) \cup Permutations(Procs) \cup Permutations(Bases)
=============================================================================
