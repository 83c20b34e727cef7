------------------------------- MODULE Memman -------------------------------
(***************************************************************************)
(* The allocator of e-hal (epiphany-memman.c).  The managed memory is a    *)
(* chain of chunks, each headed by a mem_control_block; memman_alloc walks *)
(* the chain from mem_start and takes the first free chunk, memman_free    *)
(* marks a chunk free and merges it with the free chunks that follow.      *)
(*                                                                         *)
(* Memory is counted in cells of the size of a control block (8 bytes);    *)
(* requests are whole cells.  A cell holds what reading it as a control    *)
(* block gives: the user's data is read that way when the walk strays into *)
(* it.  The loops of the two functions are one step per iteration, because *)
(* the users of other chunks write their data meanwhile.                   *)
(***************************************************************************)
EXTENDS Integers, FiniteSets

CONSTANTS
  HeapLen,   \* cells between mem_start (cell 0) and mem_end
  Sizes,     \* the sizes callers ask for, in cells
  Junk,      \* what user data and the memory after mem_end read as
  Overrun    \* bound: cells after mem_end in which a coalesce may go on

Word == [is_inuse : {0, 1}, size : Nat]
Zero == [is_inuse |-> 0, size |-> 0]

ASSUME MemmanAssumption ==
  /\ HeapLen \in Nat \ {0}
  /\ Sizes \subseteq Nat \ {0}
  /\ Junk \subseteq Word
  /\ Overrun \in Nat

Cells == 0 .. HeapLen - 1

VARIABLES
  heap,   \* heap[i]: cell i of the managed memory
  live,   \* the chunks handed out and not freed, [at, len], header included
  call    \* the call of memman_alloc or memman_free in progress

mmvars == <<heap, live, call>>

NoCall == [op |-> "none", size |-> 0, at |-> 0, cur |-> 0, sum |-> 0]

\* memman_init: all of the memory is zeroed, which makes it one free chunk of
\* size 0, a size that stands for the rest of the memory.
Zeroed == [i \in Cells |-> Zero]

Init ==
  /\ heap = Zeroed
  /\ live = {}
  /\ call = NoCall

(***************************************************************************)
(* memman_alloc.                                                           *)
(***************************************************************************)
AllocBegin(n) ==
  /\ call.op = "none"
  /\ call' = [NoCall EXCEPT !.op = "alloc", !.size = n + 1]
  /\ UNCHANGED <<heap, live>>

\* Mutant: the chunk must be larger than the request.
SuitsStrict(w, size) == w.is_inuse = 0 /\ (w.size = 0 \/ w.size > size)

Suits(w, size) == w.is_inuse = 0 /\ (w.size = 0 \/ w.size >= size)

\* A chunk in use whose size reads 0 keeps the loop where it is.
AllocAdvance ==
  /\ call.op = "alloc"
  /\ call.cur < HeapLen
  /\ ~Suits(heap[call.cur], call.size)
  /\ call' = [call EXCEPT !.cur = @ + heap[call.cur].size]
  /\ UNCHANGED <<heap, live>>

\* Mutant: the chunk is handed out but not marked.
AllocTakeUnmarked ==
  /\ call.op = "alloc"
  /\ call.cur < HeapLen
  /\ Suits(heap[call.cur], call.size)
  /\ heap' = [heap EXCEPT ![call.cur].size = call.size]
  /\ live' = live \cup {[at |-> call.cur, len |-> call.size]}
  /\ call' = NoCall

AllocTake ==
  /\ call.op = "alloc"
  /\ call.cur < HeapLen
  /\ Suits(heap[call.cur], call.size)
  /\ heap' = [heap EXCEPT ![call.cur] = [is_inuse |-> 1, size |-> call.size]]
  /\ live' = live \cup {[at |-> call.cur, len |-> call.size]}
  /\ call' = NoCall

AllocFail ==
  /\ call.op = "alloc"
  /\ call.cur >= HeapLen
  /\ call' = NoCall
  /\ UNCHANGED <<heap, live>>

(***************************************************************************)
(* memman_free and coalesce.                                               *)
(***************************************************************************)
FreeBegin(b) ==
  /\ call.op = "none"
  /\ heap' = [heap EXCEPT ![b.at].is_inuse = 0]
  /\ live' = live \ {b}
  /\ call' = [NoCall EXCEPT !.op = "coalesce", !.at = b.at, !.cur = b.at]


StopsCoalesce(w) == w.is_inuse = 1 \/ w.size = 0

\* What the loop reads at its cursor.  Nothing stops it at mem_end: there it
\* reads the memory that follows, whatever it holds.
ReadAt(i, w) == IF i < HeapLen THEN w = heap[i] ELSE w \in Junk

CoalesceAdd ==
  /\ call.op = "coalesce"
  /\ \E w \in Junk \cup {heap[i] : i \in Cells} :
       /\ ReadAt(call.cur, w)
       /\ ~StopsCoalesce(w)
       /\ call.cur < HeapLen + Overrun
       /\ call' = [call EXCEPT !.sum = @ + w.size, !.cur = @ + w.size]
  /\ UNCHANGED <<heap, live>>

\* Mutant: the merged size is written without the chunk's own.
CoalesceEndShort ==
  /\ call.op = "coalesce"
  /\ \E w \in Junk \cup {heap[i] : i \in Cells} :
       ReadAt(call.cur, w) /\ StopsCoalesce(w)
  /\ heap' = [heap EXCEPT ![call.at].size = call.sum - 1]
  /\ call' = NoCall
  /\ UNCHANGED live

CoalesceEnd ==
  /\ call.op = "coalesce"
  /\ \E w \in Junk \cup {heap[i] : i \in Cells} :
       ReadAt(call.cur, w) /\ StopsCoalesce(w)
  /\ heap' = [heap EXCEPT ![call.at].size = call.sum]
  /\ call' = NoCall
  /\ UNCHANGED live

\* The memory after mem_end may not be mapped at all.
CoalesceFault ==
  /\ call.op = "coalesce"
  /\ call.cur >= HeapLen
  /\ call' = [call EXCEPT !.op = "fault"]
  /\ UNCHANGED <<heap, live>>

CallStep ==
  \/ AllocAdvance \/ AllocTake \/ AllocFail
  \/ CoalesceAdd \/ CoalesceEnd \/ CoalesceFault

(***************************************************************************)
(* The holder of a chunk writes to it, at any time.                        *)
(***************************************************************************)
UserWrite(b, i, w) ==
  /\ b \in live
  /\ i \in Cells
  /\ b.at < i /\ i < b.at + b.len
  /\ heap' = [heap EXCEPT ![i] = w]
  /\ UNCHANGED <<live, call>>

Next ==
  \/ \E n \in Sizes : AllocBegin(n)
  \/ \E b \in live : FreeBegin(b)
  \/ CallStep
  \/ \E b \in live, i \in Cells, w \in Junk : UserWrite(b, i, w)

Spec == Init /\ [][Next]_mmvars

\* The caller of memman_alloc or memman_free keeps running.
FairSpec == Spec /\ WF_mmvars(CallStep)

-----------------------------------------------------------------------------
(***************************************************************************)
(* Properties.                                                             *)
(***************************************************************************)
TypeOK ==
  /\ heap \in [Cells -> Word]
  /\ live \subseteq [at : Cells, len : Nat \ {0}]
  /\ call \in [op : {"none", "alloc", "coalesce", "fault"},
               size : Nat, at : Cells, cur : Nat, sum : Nat]

Disjoint(a, b) == a.at + a.len <= b.at \/ b.at + b.len <= a.at

\* memman_alloc hands out memory that no chunk in use has, whatever chunks were
\* freed, merged and reused before.
ChunksDisjoint ==
  [][AllocTake =>
       \A b \in live : Disjoint(b, [at |-> call.cur, len |-> call.size])]_mmvars

\* A chunk lies between mem_start and mem_end (memman_init, memman_alloc).
ChunksInHeap == \A b \in live : b.at + b.len <= HeapLen

\* The control block of a chunk in use is the one memman_alloc wrote: neither
\* the walks nor the users' data have replaced it, so memman_free finds it.
HeadersIntact ==
  \A b \in live : heap[b.at] = [is_inuse |-> 1, size |-> b.len]

\* memman_alloc reports failure only if there is no gap between the chunks in
\* use that would hold the request: what was freed can be used again.
NoFalseFailure ==
  [][AllocFail =>
       \A i \in 0 .. HeapLen - call.size :
         \E b \in live : ~Disjoint(b, [at |-> i, len |-> call.size])]_mmvars

\* Every call of memman_alloc or memman_free returns, or dies in the memory
\* after mem_end: the walks terminate on whatever they read.
CallsReturn == call.op \in {"alloc", "coalesce"} ~> call.op \in {"none", "fault"}
=============================================================================
