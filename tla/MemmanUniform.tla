---------------------------- MODULE MemmanUniform ----------------------------
(***************************************************************************)
(* The regime in which the allocator is sound: all requests have the same  *)
(* size and the heap holds a whole number of chunks of that size.  The     *)
(* chunks are then cut from fixed slots.                                   *)
(***************************************************************************)
EXTENDS Memman

CONSTANTS
  BlockLen,   \* cells of a chunk, its control block included
  NumSlots    \* chunks the heap holds

ASSUME UniformAssumption ==
  /\ BlockLen \in Nat /\ BlockLen >= 2
  /\ NumSlots \in Nat \ {0}
  /\ HeapLen = NumSlots * BlockLen
  /\ Sizes = {BlockLen - 1}

Slots == {k * BlockLen : k \in 0 .. NumSlots - 1}

(***************************************************************************)
(* The inductive invariant.  At the head of every slot is a control block: *)
(* in use with the size of a chunk, or free and large enough for one; the  *)
(* slots in use are the live chunks; the walk of memman_alloc goes from    *)
(* slot to slot and has only passed slots in use.                          *)
(***************************************************************************)
SlotHeads ==
  \A s \in Slots :
    /\ heap[s].is_inuse = 1 => heap[s].size = BlockLen
    /\ heap[s].is_inuse = 0 => heap[s].size = 0 \/ heap[s].size >= BlockLen

LiveSlots ==
  /\ \A b \in live : b.at \in Slots /\ b.len = BlockLen
  /\ \A s \in Slots :
       heap[s].is_inuse = 1 <=> [at |-> s, len |-> BlockLen] \in live

Walk ==
  call.op = "alloc" =>
    /\ call.size = BlockLen
    /\ call.cur \in Slots \cup {HeapLen}
    /\ \A s \in Slots : s < call.cur => heap[s].is_inuse = 1

Merging ==
  call.op = "coalesce" =>
    /\ call.at \in Slots
    /\ heap[call.at].is_inuse = 0
    /\ \/ call.cur = call.at /\ call.sum = 0 /\ heap[call.at].size >= BlockLen
       \/ call.sum >= BlockLen

IInv ==
  /\ TypeOK
  /\ SlotHeads
  /\ LiveSlots
  /\ Walk
  /\ Merging
=============================================================================
