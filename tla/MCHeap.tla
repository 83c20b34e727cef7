-------------------------------- MODULE MCHeap --------------------------------
(* The heap of the shared memory, one part at a time: memman with requests of  *)
(* one size and user data that reads as a free end of the heap, as a chunk in  *)
(* use of size 0, and as small chunks; and the manager, whose regions of one   *)
(* cell one process allocates, attaches to and releases.                       *)
EXTENDS MemmanUniform

CONSTANTS p1, NoProc, b1, NoBase, Gone, n1, n2, n3, NoName

VARIABLES part, ready, regions, holder, pc, op, mapped, refs, exits,
          cells, chunks, calling    \* heap, live and call of the manager

MCSizes == {BlockLen - 1}
MCHeapLen == NumSlots * BlockLen
MCJunk == [is_inuse : {0, 1}, size : {0, 1}]

Manager == INSTANCE ShmManager WITH Procs <- {p1}, Bases <- {b1}, Names <- {n1, n2, n3},
             MaxRegions <- 3, RefRange <- 4, HeapLen <- 4, Sizes <- {1}, Junk <- [is_inuse : {0, 1}, size : {0}],
             Overrun <- 1, MaxRefs <- 2, MaxExits <- 0, heap <- cells, live <- chunks, call <- calling
managerVars == <<ready, regions, holder, pc, op, mapped, refs, exits, cells, chunks, calling>>

MCInit == part \in {"memman", "manager"} /\ Init /\ Manager!Init
MCNext ==
    /\ UNCHANGED part
    /\ \/ part = "memman" /\ Next /\ UNCHANGED managerVars
       \/ part = "manager" /\ Manager!Next /\ UNCHANGED mmvars

\* Initially no call is in progress: the fairness asks nothing of the other part.
MCSpec == MCInit /\ [][MCNext]_<<part, mmvars, managerVars>> /\ WF_mmvars(CallStep)
          /\ WF_managerVars(Manager!Step(p1)) /\ SF_managerVars(Manager!InitLock(p1)) /\ SF_managerVars(Manager!Lock(p1))

SegmentsDisjoint == [](Manager!SegmentsDisjoint /\ Manager!ChunksMatchRegions) /\ Manager!MemmanUsedRight
CallsEnd == CallsReturn /\ Manager!CallsReturn
===============================================================================
