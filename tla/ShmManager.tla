----------------------------- MODULE ShmManager -----------------------------
(***************************************************************************)
(* The shared memory manager of e-hal (epiphany-shm-manager.c) on the      *)
(* native target.  Host processes allocate, attach to and release named    *)
(* regions; the table of regions and the heap they are cut from lie in the *)
(* memory that all processes map, and a process changes them only while it *)
(* holds the lock (lockf) on the device file.  The heap is managed by      *)
(* memman, whose calls (module Memman) run inside the critical sections.   *)
(***************************************************************************)
EXTENDS Integers, FiniteSets

CONSTANTS
  Procs,       \* host processes
  NoProc,      \* holder of a free lock
  Bases,       \* addresses mmap may choose for the shared memory
  NoBase,      \* not mapped yet: shm_table is NULL
  Gone,        \* unmapped by e_shm_finalize, shm_table still points there
  Names,       \* region names
  NoName,      \* name of a region never used
  MaxRegions,  \* MAX_SHM_REGIONS
  RefRange,    \* values of a 32-bit refcnt
  HeapLen, Sizes, Junk, Overrun,   \* of Memman
  MaxRefs,     \* bound: references a process takes on one name
  MaxExits     \* bound: processes that crash or finalize

ASSUME ShmAssumption ==
  /\ NoProc \notin Procs /\ NoName \notin Names
  /\ NoBase \notin Bases /\ Gone \notin Bases /\ NoBase # Gone
  /\ MaxRegions \in Nat \ {0}
  /\ RefRange \in Nat \ {0, 1}
  /\ HeapLen \in Nat \ {0} /\ Sizes \subseteq Nat \ {0}
  /\ Junk \subseteq [is_inuse : {0, 1}, size : Nat]
  /\ MaxRefs \in Nat /\ MaxExits \in Nat

\* A count that is taken for each reference, those of dead processes included,
\* fits in its 32 bits: nothing in the code checks that it does.
ASSUME RefsFit ==
  IsFiniteSet(Procs) /\ (Cardinality(Procs) + MaxExits) * MaxRefs < RefRange

VARIABLES
  ready,     \* the table's magic and initialized fields are set
  regions,   \* the table's regions
  heap, live, call,   \* of Memman
  holder,    \* the process that holds the lock
  pc,        \* where each process is in its call
  op,        \* the arguments and locals of its call
  mapped,    \* its shm_table: where the memory is mapped
  refs,      \* refs[p][n]: references to n that p was given and not released
  exits      \* crashes and finalizes so far

tblvars == <<ready, regions>>
mmvars == <<heap, live, call>>
vars == <<ready, regions, heap, live, call, holder, pc, op, mapped, refs, exits>>

\* With what module MemmanUniform says of requests of one size: the proofs use it.
ChunkLen == (CHOOSE s \in Sizes : TRUE) + 1
ChunkCount == HeapLen \div ChunkLen
MM == INSTANCE MemmanUniform WITH BlockLen <- ChunkLen, NumSlots <- ChunkCount

Slots == 1 .. MaxRegions
Free == [valid |-> FALSE, refcnt |-> 0, name |-> NoName,
         at |-> 0, len |-> 0, base |-> NoBase]
NoOp == [kind |-> "none", name |-> NoName,
         size |-> 0, slot |-> 1, at |-> 0]

Kinds == {"alloc", "attach", "release"}
InCall == {"enter", "initlock"}
Critical == {"inittable", "initheap", "initunlock", "alloc", "attach", "release",
             "memman_alloc", "fill", "count", "retire", "memman_free", "coalesce",
             "unlock", "fail"}

Init ==
  /\ ready = FALSE
  /\ regions = [i \in Slots |-> Free]
  /\ MM!Init
  /\ holder = NoProc
  /\ pc = [p \in Procs |-> "idle"]
  /\ op = [p \in Procs |-> NoOp]
  /\ mapped = [p \in Procs |-> NoBase]
  /\ refs = [p \in Procs |-> [n \in Names |-> 0]]
  /\ exits = 0

Goto(p, l) == pc' = [pc EXCEPT ![p] = l]
At(p, l) == pc[p] = l
\* The step of a process inside its critical section touches the table.
Inside(p, l) == pc[p] = l /\ mapped[p] # Gone

(***************************************************************************)
(* Entering a call, and e_shm_get_shmtable, which initialises the manager  *)
(* on the first call of a process.                                         *)
(***************************************************************************)
Call(p, kind, n, size) ==
  /\ At(p, "idle")
  /\ kind # "release" => refs[p][n] < MaxRefs
  /\ kind = "release" => refs[p][n] > 0
  /\ op' = [op EXCEPT ![p] = [NoOp EXCEPT !.kind = kind, !.name = n, !.size = size]]
  /\ Goto(p, "enter")
  /\ UNCHANGED <<tblvars, mmvars, holder, mapped, refs, exits>>

\* e_shm_init_native: opening the device or mmap may fail.
MapFails(p) ==
  /\ At(p, "enter")
  /\ mapped[p] = NoBase
  /\ Goto(p, "idle")
  /\ UNCHANGED <<tblvars, mmvars, holder, op, mapped, refs, exits>>

Map(p, b) ==
  /\ At(p, "enter")
  /\ mapped[p] = NoBase
  /\ mapped' = [mapped EXCEPT ![p] = b]
  /\ Goto(p, "initlock")
  /\ UNCHANGED <<tblvars, mmvars, holder, op, refs, exits>>

InitLock(p) ==
  /\ At(p, "initlock")
  /\ holder = NoProc
  /\ holder' = p
  /\ Goto(p, "inittable")
  /\ UNCHANGED <<tblvars, mmvars, op, mapped, refs, exits>>

\* The table is reset only when the sanity check fails.
InitTable(p) ==
  /\ At(p, "inittable")
  /\ ready' = TRUE
  /\ regions' = IF ready THEN regions ELSE [i \in Slots |-> Free]
  /\ Goto(p, "initheap")
  /\ UNCHANGED <<mmvars, holder, op, mapped, refs, exits>>

\* memman_init zeroes the heap in any case.
InitHeap(p) ==
  /\ At(p, "initheap")
  /\ heap' = MM!Zeroed
  /\ Goto(p, "initunlock")
  /\ UNCHANGED <<tblvars, live, call, holder, op, mapped, refs, exits>>

InitUnlock(p) ==
  /\ At(p, "initunlock")
  /\ holder' = NoProc
  /\ Goto(p, "enter")
  /\ UNCHANGED <<tblvars, mmvars, op, mapped, refs, exits>>

Lock(p) ==
  /\ At(p, "enter")
  /\ mapped[p] # NoBase
  /\ holder = NoProc
  /\ holder' = p
  /\ Goto(p, op[p].kind)
  /\ UNCHANGED <<tblvars, mmvars, op, mapped, refs, exits>>

(***************************************************************************)
(* The bodies of the calls.  A call that goes to "unlock" succeeds, one    *)
(* that goes to "fail" returns E_ERR.                                      *)
(***************************************************************************)
Sane == ready
Named(i, n) == regions[i].valid /\ regions[i].name = n

\* shm_lookup_region: the first valid region of that name.
Found(i, n) == Named(i, n) /\ \A j \in Slots : j < i => ~Named(j, n)
Absent(n) == \A i \in Slots : ~Named(i, n)

\* e_shm_alloc: the table is sane, the name is new and a region is unused.
CanAllocate(n) == Sane /\ Absent(n) /\ \E i \in Slots : ~regions[i].valid

AllocRefused(p) ==
  /\ Inside(p, "alloc")
  /\ ~CanAllocate(op[p].name)
  /\ Goto(p, "fail")
  /\ UNCHANGED <<tblvars, mmvars, holder, op, mapped, refs, exits>>

\* shm_alloc_region: the name goes to the first unused region.
AllocRegion(p, i) ==
  /\ Inside(p, "alloc")
  /\ CanAllocate(op[p].name)
  /\ ~regions[i].valid /\ \A j \in Slots : j < i => regions[j].valid
  /\ regions' = [regions EXCEPT ![i].name = op[p].name]
  /\ MM!AllocBegin(op[p].size)
  /\ op' = [op EXCEPT ![p].slot = i]
  /\ Goto(p, "memman_alloc")
  /\ UNCHANGED <<ready, holder, mapped, refs, exits>>

AllocWalk(p) ==
  /\ Inside(p, "memman_alloc")
  /\ MM!AllocAdvance
  /\ UNCHANGED <<tblvars, holder, pc, op, mapped, refs, exits>>

AllocTaken(p) ==
  /\ Inside(p, "memman_alloc")
  /\ MM!AllocTake
  /\ op' = [op EXCEPT ![p].at = call.cur]
  /\ Goto(p, "fill")
  /\ UNCHANGED <<tblvars, holder, mapped, refs, exits>>

AllocNoMem(p) ==
  /\ Inside(p, "memman_alloc")
  /\ MM!AllocFail
  /\ Goto(p, "fail")
  /\ UNCHANGED <<tblvars, holder, op, mapped, refs, exits>>

\* addr is a pointer in the address space of the allocating process.
Fill(p) ==
  /\ Inside(p, "fill")
  /\ regions' = [regions EXCEPT ![op[p].slot] =
                   [@ EXCEPT !.valid = TRUE, !.at = op[p].at,
                             !.len = op[p].size + 1, !.base = mapped[p]]]
  /\ Goto(p, "count")
  /\ UNCHANGED <<ready, mmvars, holder, op, mapped, refs, exits>>

Count(p) ==
  /\ Inside(p, "count")
  /\ regions' = [regions EXCEPT ![op[p].slot].refcnt = 1]
  /\ Goto(p, "unlock")
  /\ UNCHANGED <<ready, mmvars, holder, op, mapped, refs, exits>>

\* e_shm_attach and e_shm_release of a name that is not there; only the former
\* checks the table.
NotFound(p) ==
  /\ pc[p] \in {"attach", "release"} /\ mapped[p] # Gone
  /\ At(p, "attach") /\ Sane => Absent(op[p].name)
  /\ At(p, "release") => Absent(op[p].name)
  /\ Goto(p, "fail")
  /\ UNCHANGED <<tblvars, mmvars, holder, op, mapped, refs, exits>>

\* Mutant: the reference is not counted.
AttachUncounted(p, i) ==
  /\ Inside(p, "attach")
  /\ Sane /\ Found(i, op[p].name)
  /\ Goto(p, "unlock")
  /\ UNCHANGED <<tblvars, mmvars, holder, op, mapped, refs, exits>>

Attach(p, i) ==
  /\ Inside(p, "attach")
  /\ Sane /\ Found(i, op[p].name)
  /\ regions' = [regions EXCEPT ![i].refcnt = (@ + 1) % RefRange]
  /\ Goto(p, "unlock")
  /\ UNCHANGED <<ready, mmvars, holder, op, mapped, refs, exits>>

ReleaseShared(p, i) ==
  /\ Inside(p, "release")
  /\ Found(i, op[p].name)
  /\ regions[i].refcnt # 1
  /\ regions' = [regions EXCEPT ![i].refcnt = (@ - 1) % RefRange]
  /\ Goto(p, "unlock")
  /\ UNCHANGED <<ready, mmvars, holder, op, mapped, refs, exits>>

\* Mutant: the first release retires the region.
ReleaseFirst(p, i) ==
  /\ Inside(p, "release")
  /\ Found(i, op[p].name)
  /\ regions' = [regions EXCEPT ![i].refcnt = 0]
  /\ op' = [op EXCEPT ![p].slot = i]
  /\ Goto(p, "retire")
  /\ UNCHANGED <<ready, mmvars, holder, mapped, refs, exits>>

ReleaseLast(p, i) ==
  /\ Inside(p, "release")
  /\ Found(i, op[p].name)
  /\ regions[i].refcnt = 1
  /\ regions' = [regions EXCEPT ![i].refcnt = 0]
  /\ op' = [op EXCEPT ![p].slot = i]
  /\ Goto(p, "retire")
  /\ UNCHANGED <<ready, mmvars, holder, mapped, refs, exits>>

\* Mutant: the region is retired but its memory is not freed.
RetireLeak(p) ==
  /\ Inside(p, "retire")
  /\ regions' = [regions EXCEPT ![op[p].slot].valid = FALSE]
  /\ Goto(p, "unlock")
  /\ UNCHANGED <<ready, mmvars, holder, op, mapped, refs, exits>>

Retire(p) ==
  /\ Inside(p, "retire")
  /\ regions' = [regions EXCEPT ![op[p].slot].valid = FALSE]
  /\ Goto(p, "memman_free")
  /\ UNCHANGED <<ready, mmvars, holder, op, mapped, refs, exits>>

\* memman_free gets the allocating process's pointer: it reaches the chunk only
\* if this process has mapped the memory at the same address.
FreeChunk(p) ==
  /\ Inside(p, "memman_free")
  /\ LET r == regions[op[p].slot] IN
       /\ r.base = mapped[p]
       /\ MM!FreeBegin([at |-> r.at, len |-> r.len])
  /\ Goto(p, "coalesce")
  /\ UNCHANGED <<tblvars, holder, op, mapped, refs, exits>>

\* Elsewhere it writes to memory of this process's own.
FreeStray(p) ==
  /\ Inside(p, "memman_free")
  /\ regions[op[p].slot].base # mapped[p]
  /\ Goto(p, "unlock")
  /\ UNCHANGED <<tblvars, mmvars, holder, op, mapped, refs, exits>>

Coalesce(p) ==
  /\ Inside(p, "coalesce")
  /\ MM!CoalesceAdd
  /\ UNCHANGED <<tblvars, holder, pc, op, mapped, refs, exits>>

Coalesced(p) ==
  /\ Inside(p, "coalesce")
  /\ MM!CoalesceEnd
  /\ Goto(p, "unlock")
  /\ UNCHANGED <<tblvars, holder, op, mapped, refs, exits>>

Delta(kind) == IF kind = "release" THEN -1 ELSE 1

Unlock(p) ==
  /\ At(p, "unlock")
  /\ holder' = NoProc
  /\ refs' = [refs EXCEPT ![p][op[p].name] = @ + Delta(op[p].kind)]
  /\ Goto(p, "idle")
  /\ UNCHANGED <<tblvars, mmvars, op, mapped, exits>>

UnlockFailed(p) ==
  /\ At(p, "fail")
  /\ holder' = NoProc
  /\ Goto(p, "idle")
  /\ UNCHANGED <<tblvars, mmvars, op, mapped, refs, exits>>

(***************************************************************************)
(* A process dies: the kernel drops its lock, nobody drops its references, *)
(* and a call of memman stays where it was.  A new process takes its place.*)
(***************************************************************************)
Die(p) ==
  /\ pc' = [pc EXCEPT ![p] = "idle"]
  /\ op' = [op EXCEPT ![p] = NoOp]
  /\ mapped' = [mapped EXCEPT ![p] = NoBase]
  /\ refs' = [refs EXCEPT ![p] = [n \in Names |-> 0]]
  /\ holder' = IF holder = p THEN NoProc ELSE holder
  /\ call' = IF holder = p THEN MM!NoCall ELSE call
  /\ UNCHANGED <<tblvars, heap, live>>

Crash(p) ==
  /\ mapped[p] # NoBase
  /\ exits < MaxExits
  /\ exits' = exits + 1
  /\ Die(p)

\* e_finalize unmaps the memory and leaves shm_table as it was.
Finalize(p) ==
  /\ At(p, "idle")
  /\ mapped[p] \in Bases
  /\ exits < MaxExits
  /\ exits' = exits + 1
  /\ mapped' = [mapped EXCEPT ![p] = Gone]
  /\ UNCHANGED <<tblvars, mmvars, holder, pc, op, refs>>

\* A later call reads the table through the old pointer.
Fault(p) ==
  /\ pc[p] \in Kinds
  /\ mapped[p] = Gone
  /\ UNCHANGED exits
  /\ Die(p)

\* memman_free may write, or coalesce may read, where nothing is mapped.
FreeFault(p) ==
  /\ \/ Inside(p, "memman_free") /\ regions[op[p].slot].base # mapped[p]
     \/ Inside(p, "coalesce") /\ call.cur >= HeapLen
  /\ exits < MaxExits
  /\ exits' = exits + 1
  /\ Die(p)

\* Holders of segments write to them.
UserWrite ==
  /\ \E b \in live, i \in MM!Cells, w \in Junk : MM!UserWrite(b, i, w)
  /\ UNCHANGED <<tblvars, holder, pc, op, mapped, refs, exits>>

Step(p) ==
  \/ MapFails(p) \/ \E b \in Bases : Map(p, b)
  \/ InitTable(p) \/ InitHeap(p) \/ InitUnlock(p)
  \/ AllocRefused(p) \/ \E i \in Slots : AllocRegion(p, i)
  \/ AllocWalk(p) \/ AllocTaken(p) \/ AllocNoMem(p) \/ Fill(p) \/ Count(p)
  \/ NotFound(p)
  \/ \E i \in Slots : Attach(p, i) \/ ReleaseShared(p, i) \/ ReleaseLast(p, i)
  \/ Retire(p) \/ FreeChunk(p) \/ FreeStray(p) \/ Coalesce(p) \/ Coalesced(p)
  \/ Unlock(p) \/ UnlockFailed(p) \/ Fault(p) \/ FreeFault(p)

Next ==
  \/ \E p \in Procs : InitLock(p) \/ Lock(p)
  \/ \E p \in Procs : Step(p)
  \/ \E p \in Procs, kind \in Kinds, n \in Names, s \in Sizes :
       Call(p, kind, n, s)
  \/ \E p \in Procs : Crash(p) \/ Finalize(p)
  \/ UserWrite

Spec == Init /\ [][Next]_vars

\* A process inside a call keeps running; lockf serves every waiter.
Fairness ==
  \A p \in Procs : WF_vars(Step(p)) /\ SF_vars(InitLock(p)) /\ SF_vars(Lock(p))
FairSpec == Spec /\ Fairness

-----------------------------------------------------------------------------
(***************************************************************************)
(* Properties.                                                             *)
(***************************************************************************)
\* One token for each reference to n that the processes in ps have.
Tokens(owns, ps, n) == {t \in ps \X (1 .. MaxRefs) : t[2] <= owns[t[1]][n]}

\* The references to n held by all processes.
Held(n) == Cardinality(Tokens(refs, Procs, n))

Region ==
  [valid : BOOLEAN, refcnt : 0 .. RefRange - 1, name : Names \cup {NoName},
   at : Nat, len : Nat, base : Bases \cup {NoBase}]
Operation ==
  [kind : Kinds \cup {"none"}, name : Names \cup {NoName},
   size : Sizes \cup {0}, slot : Slots, at : Nat]

TypeOK ==
  /\ ready \in BOOLEAN
  /\ regions \in [Slots -> Region]
  /\ holder \in Procs \cup {NoProc}
  /\ pc \in [Procs -> {"idle"} \cup InCall \cup Critical]
  /\ op \in [Procs -> Operation]
  /\ mapped \in [Procs -> Bases \cup {NoBase, Gone}]
  /\ refs \in [Procs -> [Names -> Nat]]
  /\ exits \in Nat

\* At most one region of the table bears a name, whatever processes allocate,
\* release, crash or finalize in between (shm_lookup_region, shm_alloc_region).
NamesUnique ==
  \A i, j \in Slots, n \in Names : Named(i, n) /\ Named(j, n) => i = j

\* A region is not given up while a process has a reference to it, even when
\* other processes have crashed in the middle of a call (++refcnt, --refcnt).
ReferencesHeld ==
  holder = NoProc =>
    \A n \in Names : Held(n) > 0 =>
      \E i \in Slots : Named(i, n) /\ regions[i].refcnt >= Held(n)

\* As long as no process has exited, the table has exactly the regions that are
\* referenced, with the number of their references (e_shm_release retires a
\* region with its last reference and not before).
RefcountExact ==
  holder = NoProc /\ exits = 0 =>
    \A n \in Names :
      \/ Held(n) = 0 /\ Absent(n)
      \/ Held(n) > 0 /\ \E i \in Slots : Named(i, n) /\ regions[i].refcnt = Held(n)

\* What holds of the table however processes run, crash and finalize.
TableRight == NamesUnique /\ ReferencesHeld /\ RefcountExact

\* Two regions of the table never share memory (shm_alloc_region).
SegmentsDisjoint ==
  \A i, j \in Slots :
    regions[i].valid /\ regions[j].valid /\ i # j => MM!Disjoint(regions[i], regions[j])

\* The chunks of the heap in use are those of the valid regions: releasing
\* gives memory back, and a failed e_shm_alloc keeps none.
ChunksMatchRegions ==
  holder = NoProc =>
    live = {[at |-> regions[i].at, len |-> regions[i].len] :
              i \in {j \in Slots : regions[j].valid}}

\* The calls of memman and the writes of users that the manager lets happen are
\* those memman is specified for: no double free, no free of another chunk.
MemmanUsedRight == MM!Spec

\* No path through the calls, failing ones included, keeps the lock or waits
\* for good: every call returns, or its process dies.
CallsReturn == \A p \in Procs : ~At(p, "idle") ~> At(p, "idle")

\* What the registry of AbsRegistry sees of the table and of the calls.
Reg == [n \in Names |-> IF Absent(n) THEN 0
                        ELSE regions[CHOOSE i \in Slots : Named(i, n)].refcnt]
CallState(p) ==
  LET ended == CASE pc[p] \in {"retire", "memman_free", "coalesce", "unlock"} -> "ok"
                 [] At(p, "fail") -> "fail"
                 [] OTHER -> "pending"
  IN  IF At(p, "idle") THEN [kind |-> "idle"]
      ELSE [kind |-> op[p].kind, name |-> op[p].name, result |-> ended]
Calls == [p \in Procs |-> CallState(p)]
Registry == INSTANCE AbsRegistry WITH reg <- Reg, state <- Calls

\* The manager implements the registry of AbsRegistry until the first process
\* exits: each call takes effect at once and succeeds or fails as the API says.
ImplementsRegistry == Registry!Init /\ [][exits' > 0 \/ Registry!Next]_<<Reg, Calls>>

-----------------------------------------------------------------------------
(***************************************************************************)
(* The inductive invariant of the proofs.  Only the holder of the lock is  *)
(* in a critical section; what its lookup found stays so until it fills    *)
(* the region in.                                                          *)
(***************************************************************************)
MemType ==
  /\ heap \in [MM!Cells -> MM!Word]
  /\ call \in [op : {"none", "alloc", "coalesce", "fault"},
               size : Nat, at : Nat, cur : Nat, sum : Nat]

LockHeld == \A p \in Procs : pc[p] \in Critical => holder = p

Busy ==
  \A p \in Procs : ~At(p, "idle") =>
    /\ op[p].kind \in Kinds /\ op[p].name \in Names /\ op[p].size \in Sizes
    /\ op[p].kind = "release" => refs[p][op[p].name] > 0

Reserved ==
  \A p \in Procs : pc[p] \in {"memman_alloc", "fill"} =>
    /\ Absent(op[p].name)
    /\ ~regions[op[p].slot].valid
    /\ regions[op[p].slot].name = op[p].name

IInv == TypeOK /\ MemType /\ LockHeld /\ Busy /\ Reserved /\ NamesUnique

(***************************************************************************)
(* The inductive invariant of the reference counts.  A call that has       *)
(* changed the count and not returned yet owns, or has given up, the       *)
(* reference already.                                                      *)
(***************************************************************************)
Owned ==
  [p \in Procs |-> [n \in Names |->
     refs[p][n] + IF op[p].name # n THEN 0
                  ELSE IF pc[p] \in {"retire", "memman_free", "coalesce"} THEN -1
                  ELSE IF At(p, "unlock") THEN Delta(op[p].kind) ELSE 0]]

\* Which call each place in the code belongs to, what the table holds there.
Phases ==
  \A p \in Procs :
    /\ pc[p] \in {"alloc", "memman_alloc", "fill", "count"} => op[p].kind = "alloc"
    /\ At(p, "attach") => op[p].kind = "attach"
    /\ pc[p] \in {"release", "retire", "memman_free", "coalesce"} => op[p].kind = "release"
    /\ pc[p] \in {"memman_alloc", "fill"} => ready
    /\ pc[p] \in {"count", "retire"} =>
         Named(op[p].slot, op[p].name) /\ regions[op[p].slot].refcnt = 0

Bounded ==
  /\ exits <= MaxExits
  /\ \A p \in Procs : mapped[p] = Gone => exits > 0
  /\ \A p \in Procs, n \in Names : refs[p][n] <= MaxRefs
  /\ \A p \in Procs : ~At(p, "idle") /\ op[p].kind # "release" => refs[p][op[p].name] < MaxRefs

\* An unused region has count 0; so has a used one only in a call, or when a
\* process exited there; before the first e_shm_init all are unused.
Unused ==
  \A i \in Slots :
    /\ ~regions[i].valid => regions[i].refcnt = 0
    /\ regions[i].valid => ready
    /\ exits = 0 /\ regions[i].valid /\ regions[i].refcnt = 0 =>
         \E p \in Procs : pc[p] \in {"count", "retire"} /\ op[p].slot = i

\* The count of a name is at least the references to it; it exceeds those of the
\* processes that can still give them back by what the exits have left behind.
Living == {p \in Procs : mapped[p] # Gone}
Counted ==
  \A n \in Names :
    /\ Cardinality(Tokens(Owned, Procs, n)) <= Reg[n]
    /\ Reg[n] <= Cardinality(Tokens(Owned, Living, n)) + exits * MaxRefs

RInv == Phases /\ Bounded /\ Unused /\ Counted

(***************************************************************************)
(* The heap under the table.  When all requests have one size the heap is  *)
(* sound (MemmanUniform); each region of the table has a chunk of its own, *)
(* and so has a call between memman and the table.                         *)
(***************************************************************************)
UniformSizes == \E s \in Sizes : Sizes = {s} /\ HeapLen % (s + 1) = 0

ChunkOf(r) == [at |-> r.at, len |-> r.len]
ChunkTaken(p) == [at |-> op[p].at, len |-> op[p].size + 1]

\* Whose call of memman it is.
MemmanCalls ==
  /\ \A p \in Procs :
       /\ At(p, "memman_alloc") => call.op = "alloc"
       /\ At(p, "coalesce") => call.op = "coalesce"
  /\ (call.op = "none") \/ \E p \in Procs : pc[p] \in {"memman_alloc", "coalesce"}

OwnChunks ==
  /\ \A i \in Slots : regions[i].valid => ChunkOf(regions[i]) \in live
  /\ \A i, j \in Slots : regions[i].valid /\ regions[j].valid /\ i # j => regions[i].at # regions[j].at
  /\ \A p \in Procs :
       /\ At(p, "fill") => ChunkTaken(p) \in live /\ \A i \in Slots : regions[i].valid => regions[i].at # op[p].at
       /\ At(p, "memman_free") =>
            LET r == regions[op[p].slot] IN
            ~r.valid /\ ChunkOf(r) \in live /\ \A i \in Slots : regions[i].valid => regions[i].at # r.at

HeapInv == MM!IInv /\ MemmanCalls /\ OwnChunks

\* One process alone, which does not exit: it maps the memory once and clears it before it allocates,
\* and what memman has handed out is what the table and the call at hand say.
AloneInv ==
  /\ exits = 0
  /\ \A p \in Procs :
       /\ mapped[p] # Gone /\ (pc[p] \in Critical \cup {"initlock"} => mapped[p] # NoBase)
       /\ (mapped[p] = NoBase \/ pc[p] \in {"initlock", "inittable", "initheap"}) => heap = MM!Zeroed /\ live = {}
       /\ \A i \in Slots : (regions[i].valid \/ (At(p, "memman_free") /\ op[p].slot = i)) => regions[i].base = mapped[p]
  /\ \A b \in live :
       \/ \E i \in Slots : regions[i].valid /\ b = ChunkOf(regions[i])
       \/ \E p \in Procs : At(p, "fill") /\ b = ChunkTaken(p)
       \/ \E p \in Procs : At(p, "memman_free") /\ b = ChunkOf(regions[op[p].slot])
=============================================================================
