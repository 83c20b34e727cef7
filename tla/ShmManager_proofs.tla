-------------------------- MODULE ShmManager_proofs --------------------------
(***************************************************************************)
(* Proofs about the shared memory manager, for every number of processes,  *)
(* names, regions and mapping addresses, with crashes.                     *)
(***************************************************************************)
EXTENDS ShmManager, FiniteSetTheorems, TLAPS

\* What the assumptions say of the constants, with the definitions expanded.
LEMMA Facts ==
  /\ NoProc \notin Procs /\ NoName \notin Names
  /\ NoBase \notin Bases /\ Gone \notin Bases /\ NoBase # Gone
  /\ RefRange \in Nat /\ RefRange > 1
  /\ HeapLen \in Nat /\ HeapLen > 0 /\ Sizes \subseteq Nat \ {0}
  /\ Junk \subseteq MM!Word
  /\ 1 \in Slots
  BY ShmAssumption DEF Slots, MM!Word

\* Each assignment to a field of a region keeps the region well typed.
LEMMA RegionUpdates ==
  ASSUME NEW r \in Region
  PROVE  /\ \A n \in Names : [r EXCEPT !.name = n] \in Region
         /\ \A k \in 0 .. RefRange - 1 : [r EXCEPT !.refcnt = k] \in Region
         /\ [r EXCEPT !.refcnt = 0] \in Region /\ [r EXCEPT !.refcnt = 1] \in Region
         /\ [r EXCEPT !.valid = FALSE] \in Region
         /\ \A a \in Nat, l \in Nat, b \in Bases \cup {NoBase} :
              [r EXCEPT !.valid = TRUE, !.at = a, !.len = l, !.base = b] \in Region
<1>1. 0 \in 0 .. RefRange - 1 /\ 1 \in 0 .. RefRange - 1
  BY Facts
<1> QED
  BY <1>1 DEF Region

\* So do the assignments to the locals of a call.
LEMMA OperationUpdates ==
  ASSUME NEW o \in Operation
  PROVE  /\ \A i \in Slots : [o EXCEPT !.slot = i] \in Operation
         /\ \A a \in Nat : [o EXCEPT !.at = a] \in Operation
         /\ o.slot \in Slots /\ o.at \in Nat /\ o.size + 1 \in Nat
<1>1. o.slot \in Slots /\ o.at \in Nat /\ o.size \in Sizes \cup {0}
  BY DEF Operation
<1>2. o.size + 1 \in Nat
  <2>1. \A x \in Sizes \cup {0} : x + 1 \in Nat
    BY Facts
  <2> QED
    BY <1>1, <2>1
<1>3. \A i \in Slots : [o EXCEPT !.slot = i] \in Operation
  BY DEF Operation
<1>4. \A a \in Nat : [o EXCEPT !.at = a] \in Operation
  BY DEF Operation
<1> QED
  BY <1>1, <1>2, <1>3, <1>4

\* A reference count is stored in 32 bits.
LEMMA Counts ==
  ASSUME NEW k \in 0 .. RefRange - 1
  PROVE  (k + 1) % RefRange \in 0 .. RefRange - 1 /\ (k - 1) % RefRange \in 0 .. RefRange - 1
<1> USE Facts
<1>1. \A x \in Int, m \in Nat \ {0} : x % m \in 0 .. m - 1
  OBVIOUS
<1> QED
  BY <1>1

-----------------------------------------------------------------------------
(***************************************************************************)
(* Every action preserves the inductive invariant.                         *)
(***************************************************************************)
LEMMA CallInv ==
  ASSUME IInv, NEW p \in Procs, NEW kind \in Kinds, NEW n \in Names, NEW s \in Sizes, Call(p, kind, n, s)
  PROVE  IInv'
<1> USE Facts DEF IInv, Call, Goto, At, Inside, tblvars, mmvars
<1>1. TypeOK'
  BY DEF TypeOK, InCall, Critical, Kinds, NoOp, Operation
<1>2. MemType'
  BY DEF MemType, TypeOK
<1>3. LockHeld'
  BY DEF LockHeld, TypeOK, InCall, Critical, Kinds
<1>4. Busy'
  BY DEF Busy, LockHeld, TypeOK, Critical, Kinds, NoOp
<1>5. Reserved'
  BY DEF Reserved, Busy, LockHeld, TypeOK, Critical, Kinds, Absent, Named, NoOp
<1>6. NamesUnique'
  BY DEF NamesUnique, Named, TypeOK
<1> QED
  BY <1>1, <1>2, <1>3, <1>4, <1>5, <1>6

\* The invariant survives when mmap fails in e_shm_init.
LEMMA MapFailsInv ==
  ASSUME IInv, NEW p \in Procs, MapFails(p)
  PROVE  IInv'
<1> USE Facts DEF IInv, MapFails, Goto, At, Inside, tblvars, mmvars
<1>1. TypeOK'
  BY DEF TypeOK, InCall, Critical, Kinds
<1>2. MemType'
  BY DEF MemType, TypeOK
<1>3. LockHeld'
  BY DEF LockHeld, TypeOK, InCall, Critical, Kinds
<1>4. Busy'
  BY DEF Busy, LockHeld, TypeOK, Critical, Kinds
<1>5. Reserved'
  BY DEF Reserved, Busy, LockHeld, TypeOK, Critical, Kinds, Absent, Named
<1>6. NamesUnique'
  BY DEF NamesUnique, Named, TypeOK
<1> QED
  BY <1>1, <1>2, <1>3, <1>4, <1>5, <1>6

\* The invariant survives when e_shm_init maps the memory.
LEMMA MapInv ==
  ASSUME IInv, NEW p \in Procs, NEW b \in Bases, Map(p, b)
  PROVE  IInv'
<1> USE Facts DEF IInv, Map, Goto, At, Inside, tblvars, mmvars
<1>1. TypeOK'
  BY DEF TypeOK, InCall, Critical, Kinds
<1>2. MemType'
  BY DEF MemType, TypeOK
<1>3. LockHeld'
  BY DEF LockHeld, TypeOK, InCall, Critical, Kinds
<1>4. Busy'
  BY DEF Busy, LockHeld, TypeOK, Critical, Kinds
<1>5. Reserved'
  BY DEF Reserved, Busy, LockHeld, TypeOK, Critical, Kinds, Absent, Named
<1>6. NamesUnique'
  BY DEF NamesUnique, Named, TypeOK
<1> QED
  BY <1>1, <1>2, <1>3, <1>4, <1>5, <1>6

\* The invariant survives when e_shm_init takes the lock.
LEMMA InitLockInv ==
  ASSUME IInv, NEW p \in Procs, InitLock(p)
  PROVE  IInv'
<1> USE Facts DEF IInv, InitLock, Goto, At, Inside, tblvars, mmvars
<1>1. TypeOK'
  BY DEF TypeOK, InCall, Critical, Kinds
<1>2. MemType'
  BY DEF MemType, TypeOK
<1>3. LockHeld'
  BY DEF LockHeld, TypeOK, InCall, Critical, Kinds
<1>4. Busy'
  BY DEF Busy, LockHeld, TypeOK, Critical, Kinds
<1>5. Reserved'
  BY DEF Reserved, Busy, LockHeld, TypeOK, Critical, Kinds, Absent, Named
<1>6. NamesUnique'
  BY DEF NamesUnique, Named, TypeOK
<1> QED
  BY <1>1, <1>2, <1>3, <1>4, <1>5, <1>6

\* The invariant survives when e_shm_init resets a bad table.
LEMMA InitTableInv ==
  ASSUME IInv, NEW p \in Procs, InitTable(p)
  PROVE  IInv'
<1> USE Facts DEF IInv, InitTable, Goto, At, Inside, tblvars, mmvars
<1>1. TypeOK'
  BY DEF TypeOK, InCall, Critical, Kinds, Free, Region
<1>2. MemType'
  BY DEF MemType, TypeOK
<1>3. LockHeld'
  BY DEF LockHeld, TypeOK, InCall, Critical, Kinds
<1>4. Busy'
  BY DEF Busy, LockHeld, TypeOK, Critical, Kinds
<1>5. Reserved'
  BY DEF Reserved, Busy, LockHeld, TypeOK, Critical, Kinds, Absent, Named
<1>6. NamesUnique'
  BY DEF NamesUnique, Named, TypeOK, Reserved, Absent, Critical, Free
<1> QED
  BY <1>1, <1>2, <1>3, <1>4, <1>5, <1>6

\* The invariant survives when e_shm_init calls memman_init.
LEMMA InitHeapInv ==
  ASSUME IInv, NEW p \in Procs, InitHeap(p)
  PROVE  IInv'
<1> USE Facts DEF IInv, InitHeap, Goto, At, Inside, tblvars, mmvars
<1>1. TypeOK'
  BY DEF TypeOK, InCall, Critical, Kinds
<1>2. MemType'
  BY DEF MemType, TypeOK, MM!Zeroed, MM!Zero, MM!Word, MM!Cells
<1>3. LockHeld'
  BY DEF LockHeld, TypeOK, InCall, Critical, Kinds
<1>4. Busy'
  BY DEF Busy, LockHeld, TypeOK, Critical, Kinds
<1>5. Reserved'
  BY DEF Reserved, Busy, LockHeld, TypeOK, Critical, Kinds, Absent, Named
<1>6. NamesUnique'
  BY DEF NamesUnique, Named, TypeOK
<1> QED
  BY <1>1, <1>2, <1>3, <1>4, <1>5, <1>6

\* The invariant survives when e_shm_init gives the lock back.
LEMMA InitUnlockInv ==
  ASSUME IInv, NEW p \in Procs, InitUnlock(p)
  PROVE  IInv'
<1> USE Facts DEF IInv, InitUnlock, Goto, At, Inside, tblvars, mmvars
<1>1. TypeOK'
  BY DEF TypeOK, InCall, Critical, Kinds
<1>2. MemType'
  BY DEF MemType, TypeOK
<1>3. LockHeld'
  BY DEF LockHeld, TypeOK, InCall, Critical, Kinds
<1>4. Busy'
  BY DEF Busy, LockHeld, TypeOK, Critical, Kinds
<1>5. Reserved'
  BY DEF Reserved, Busy, LockHeld, TypeOK, Critical, Kinds, Absent, Named
<1>6. NamesUnique'
  BY DEF NamesUnique, Named, TypeOK
<1> QED
  BY <1>1, <1>2, <1>3, <1>4, <1>5, <1>6

\* The invariant survives when a call takes the lock.
LEMMA LockInv ==
  ASSUME IInv, NEW p \in Procs, Lock(p)
  PROVE  IInv'
<1> USE Facts DEF IInv, Lock, Goto, At, Inside, tblvars, mmvars
<1>1. TypeOK'
  <2>1. op[p].kind \in Kinds
    BY DEF Busy
  <2>2. op[p].kind \in {"idle"} \cup InCall \cup Critical
    BY <2>1 DEF Kinds, Critical
  <2> QED
    BY <2>2 DEF TypeOK
<1>2. MemType'
  BY DEF MemType, TypeOK
<1>3. LockHeld'
  BY DEF LockHeld, TypeOK, InCall, Critical, Kinds
<1>4. Busy'
  BY DEF Busy, LockHeld, TypeOK, Critical, Kinds
<1>5. Reserved'
  BY DEF Reserved, Busy, LockHeld, TypeOK, Critical, Kinds, Absent, Named
<1>6. NamesUnique'
  BY DEF NamesUnique, Named, TypeOK
<1> QED
  BY <1>1, <1>2, <1>3, <1>4, <1>5, <1>6

\* The invariant survives when e_shm_alloc refuses.
LEMMA AllocRefusedInv ==
  ASSUME IInv, NEW p \in Procs, AllocRefused(p)
  PROVE  IInv'
<1> USE Facts DEF IInv, AllocRefused, Goto, At, Inside, tblvars, mmvars
<1>1. TypeOK'
  BY DEF TypeOK, InCall, Critical, Kinds
<1>2. MemType'
  BY DEF MemType, TypeOK
<1>3. LockHeld'
  BY DEF LockHeld, TypeOK, InCall, Critical, Kinds
<1>4. Busy'
  BY DEF Busy, LockHeld, TypeOK, Critical, Kinds
<1>5. Reserved'
  BY DEF Reserved, Busy, LockHeld, TypeOK, Critical, Kinds, Absent, Named
<1>6. NamesUnique'
  BY DEF NamesUnique, Named, TypeOK
<1> QED
  BY <1>1, <1>2, <1>3, <1>4, <1>5, <1>6

\* The invariant survives when e_shm_alloc finds a free region.
LEMMA AllocRegionInv ==
  ASSUME IInv, NEW p \in Procs, NEW i \in Slots, AllocRegion(p, i)
  PROVE  IInv'
<1> USE Facts DEF IInv, AllocRegion, Goto, At, Inside, tblvars, mmvars
<1>1. TypeOK'
  <2>1. op[p].name \in Names
    BY DEF Busy
  <2>2. [regions[i] EXCEPT !.name = op[p].name] \in Region
    <3>1. regions[i] \in Region
      BY DEF TypeOK
    <3> QED
      BY <3>1, <2>1, RegionUpdates
  <2>3. [op[p] EXCEPT !.slot = i] \in Operation
    BY OperationUpdates DEF TypeOK
  <2> QED
    BY <2>2, <2>3 DEF TypeOK, Critical
<1>2. MemType'
  <2>1. op[p].size + 1 \in Nat
    BY DEF Busy
  <2> QED
    BY <2>1 DEF MemType, MM!AllocBegin, MM!NoCall
<1>3. LockHeld'
  BY DEF LockHeld, TypeOK, InCall, Critical, Kinds
<1>4. Busy'
  BY DEF Busy, LockHeld, TypeOK, Critical, Kinds
<1>5. Reserved'
  BY DEF Reserved, Busy, LockHeld, TypeOK, Critical, Kinds, Absent, Named, CanAllocate
<1>6. NamesUnique'
  BY DEF NamesUnique, Named, TypeOK, Reserved, Absent, Critical
<1> QED
  BY <1>1, <1>2, <1>3, <1>4, <1>5, <1>6

\* The invariant survives when memman_alloc walks.
LEMMA AllocWalkInv ==
  ASSUME IInv, NEW p \in Procs, AllocWalk(p)
  PROVE  IInv'
<1> USE Facts DEF IInv, AllocWalk, Goto, At, Inside, tblvars, mmvars
<1>1. TypeOK'
  BY DEF TypeOK, InCall, Critical, Kinds
<1>2. MemType'
  <2>1. heap[call.cur].size \in Nat
    BY DEF MemType, MM!AllocAdvance, MM!Cells, MM!Word
  <2>2. call.cur + heap[call.cur].size \in Nat
    BY <2>1 DEF MemType
  <2> QED
    BY <2>2 DEF MemType, MM!AllocAdvance
<1>3. LockHeld'
  BY DEF LockHeld, TypeOK, InCall, Critical, Kinds
<1>4. Busy'
  BY DEF Busy, LockHeld, TypeOK, Critical, Kinds
<1>5. Reserved'
  BY DEF Reserved, Busy, LockHeld, TypeOK, Critical, Kinds, Absent, Named
<1>6. NamesUnique'
  BY DEF NamesUnique, Named, TypeOK
<1> QED
  BY <1>1, <1>2, <1>3, <1>4, <1>5, <1>6

\* The invariant survives when memman_alloc takes a chunk.
LEMMA AllocTakenInv ==
  ASSUME IInv, NEW p \in Procs, AllocTaken(p)
  PROVE  IInv'
<1> USE Facts DEF IInv, AllocTaken, Goto, At, Inside, tblvars, mmvars
<1>1. TypeOK'
  <2>1. [op[p] EXCEPT !.at = call.cur] \in Operation
    BY OperationUpdates DEF TypeOK, MemType
  <2> QED
    BY <2>1 DEF TypeOK, Critical
<1>2. MemType'
  BY DEF MemType, TypeOK, MM!AllocTake, MM!NoCall, MM!Word, MM!Cells
<1>3. LockHeld'
  BY DEF LockHeld, TypeOK, InCall, Critical, Kinds
<1>4. Busy'
  BY DEF Busy, LockHeld, TypeOK, Critical, Kinds
<1>5. Reserved'
  BY DEF Reserved, Busy, LockHeld, TypeOK, Critical, Kinds, Absent, Named
<1>6. NamesUnique'
  BY DEF NamesUnique, Named, TypeOK
<1> QED
  BY <1>1, <1>2, <1>3, <1>4, <1>5, <1>6

\* The invariant survives when memman_alloc fails.
LEMMA AllocNoMemInv ==
  ASSUME IInv, NEW p \in Procs, AllocNoMem(p)
  PROVE  IInv'
<1> USE Facts DEF IInv, AllocNoMem, Goto, At, Inside, tblvars, mmvars
<1>1. TypeOK'
  BY DEF TypeOK, InCall, Critical, Kinds
<1>2. MemType'
  BY DEF MemType, TypeOK, MM!AllocFail, MM!NoCall
<1>3. LockHeld'
  BY DEF LockHeld, TypeOK, InCall, Critical, Kinds
<1>4. Busy'
  BY DEF Busy, LockHeld, TypeOK, Critical, Kinds
<1>5. Reserved'
  BY DEF Reserved, Busy, LockHeld, TypeOK, Critical, Kinds, Absent, Named
<1>6. NamesUnique'
  BY DEF NamesUnique, Named, TypeOK
<1> QED
  BY <1>1, <1>2, <1>3, <1>4, <1>5, <1>6

\* The invariant survives when shm_alloc_region fills the region in.
LEMMA FillInv ==
  ASSUME IInv, NEW p \in Procs, Fill(p)
  PROVE  IInv'
<1> USE Facts DEF IInv, Fill, Goto, At, Inside, tblvars, mmvars
<1>1. TypeOK'
  <2> DEFINE r == regions[op[p].slot]
             filled == [r EXCEPT !.valid = TRUE, !.at = op[p].at,
                                 !.len = op[p].size + 1, !.base = mapped[p]]
  <2>1. mapped[p] \in Bases \cup {NoBase}
    BY DEF TypeOK
  <2>2. op[p].slot \in Slots /\ op[p].at \in Nat /\ op[p].size + 1 \in Nat
    BY OperationUpdates DEF TypeOK
  <2>3. filled \in Region
    <3>1. r \in Region
      BY <2>2 DEF TypeOK
    <3> QED
      BY <2>1, <2>2, <3>1, RegionUpdates
  <2>4. regions' = [regions EXCEPT ![op[p].slot] = filled]
    OBVIOUS
  <2> QED
    BY <2>2, <2>3, <2>4 DEF TypeOK, Critical
<1>2. MemType'
  BY DEF MemType, TypeOK
<1>3. LockHeld'
  BY DEF LockHeld, TypeOK, InCall, Critical, Kinds
<1>4. Busy'
  BY DEF Busy, LockHeld, TypeOK, Critical, Kinds
<1>5. Reserved'
  BY DEF Reserved, Busy, LockHeld, TypeOK, Critical, Kinds, Absent, Named
<1>6. NamesUnique'
  BY DEF NamesUnique, Named, TypeOK, Reserved, Absent, Critical
<1> QED
  BY <1>1, <1>2, <1>3, <1>4, <1>5, <1>6

\* The invariant survives when e_shm_alloc counts the first reference.
LEMMA CountInv ==
  ASSUME IInv, NEW p \in Procs, Count(p)
  PROVE  IInv'
<1> USE Facts DEF IInv, Count, Goto, At, Inside, tblvars, mmvars
<1>1. TypeOK'
  <2>1. op[p].slot \in Slots
    BY OperationUpdates DEF TypeOK
  <2>2. [regions[op[p].slot] EXCEPT !.refcnt = 1] \in Region
    <3>1. regions[op[p].slot] \in Region
      BY <2>1 DEF TypeOK
    <3> QED
      BY <3>1, <2>1, RegionUpdates
  <2> QED
    BY <2>1, <2>2 DEF TypeOK, Critical
<1>2. MemType'
  BY DEF MemType, TypeOK
<1>3. LockHeld'
  BY DEF LockHeld, TypeOK, InCall, Critical, Kinds
<1>4. Busy'
  BY DEF Busy, LockHeld, TypeOK, Critical, Kinds
<1>5. Reserved'
  BY DEF Reserved, Busy, LockHeld, TypeOK, Critical, Kinds, Absent, Named
<1>6. NamesUnique'
  BY DEF NamesUnique, Named, TypeOK, Reserved, Absent, Critical
<1> QED
  BY <1>1, <1>2, <1>3, <1>4, <1>5, <1>6

\* The invariant survives when the lookup of attach or release finds nothing.
LEMMA NotFoundInv ==
  ASSUME IInv, NEW p \in Procs, NotFound(p)
  PROVE  IInv'
<1> USE Facts DEF IInv, NotFound, Goto, At, Inside, tblvars, mmvars
<1>1. TypeOK'
  BY DEF TypeOK, InCall, Critical, Kinds
<1>2. MemType'
  BY DEF MemType, TypeOK
<1>3. LockHeld'
  BY DEF LockHeld, TypeOK, InCall, Critical, Kinds
<1>4. Busy'
  BY DEF Busy, LockHeld, TypeOK, Critical, Kinds
<1>5. Reserved'
  BY DEF Reserved, Busy, LockHeld, TypeOK, Critical, Kinds, Absent, Named
<1>6. NamesUnique'
  BY DEF NamesUnique, Named, TypeOK
<1> QED
  BY <1>1, <1>2, <1>3, <1>4, <1>5, <1>6

\* The invariant survives when e_shm_attach counts a reference.
LEMMA AttachInv ==
  ASSUME IInv, NEW p \in Procs, NEW i \in Slots, Attach(p, i)
  PROVE  IInv'
<1> USE Facts DEF IInv, Attach, Goto, At, Inside, tblvars, mmvars
<1>1. TypeOK'
  <2>1. regions[i].refcnt \in 0 .. RefRange - 1
    BY DEF TypeOK, Region
  <2>2. [regions[i] EXCEPT !.refcnt = (regions[i].refcnt + 1) % RefRange] \in Region
    <3>1. regions[i] \in Region
      BY DEF TypeOK
    <3> QED
      BY <3>1, <2>1, RegionUpdates, Counts
  <2> QED
    BY <2>2 DEF TypeOK, Critical
<1>2. MemType'
  BY DEF MemType, TypeOK
<1>3. LockHeld'
  BY DEF LockHeld, TypeOK, InCall, Critical, Kinds
<1>4. Busy'
  BY DEF Busy, LockHeld, TypeOK, Critical, Kinds
<1>5. Reserved'
  BY DEF Reserved, Busy, LockHeld, TypeOK, Critical, Kinds, Absent, Named
<1>6. NamesUnique'
  BY DEF NamesUnique, Named, TypeOK, Reserved, Absent, Critical
<1> QED
  BY <1>1, <1>2, <1>3, <1>4, <1>5, <1>6

\* The invariant survives when e_shm_release leaves other references.
LEMMA ReleaseSharedInv ==
  ASSUME IInv, NEW p \in Procs, NEW i \in Slots, ReleaseShared(p, i)
  PROVE  IInv'
<1> USE Facts DEF IInv, ReleaseShared, Goto, At, Inside, tblvars, mmvars
<1>1. TypeOK'
  <2>1. regions[i].refcnt \in 0 .. RefRange - 1
    BY DEF TypeOK, Region
  <2>2. [regions[i] EXCEPT !.refcnt = (regions[i].refcnt - 1) % RefRange] \in Region
    <3>1. regions[i] \in Region
      BY DEF TypeOK
    <3> QED
      BY <3>1, <2>1, RegionUpdates, Counts
  <2> QED
    BY <2>2 DEF TypeOK, Critical
<1>2. MemType'
  BY DEF MemType, TypeOK
<1>3. LockHeld'
  BY DEF LockHeld, TypeOK, InCall, Critical, Kinds
<1>4. Busy'
  BY DEF Busy, LockHeld, TypeOK, Critical, Kinds
<1>5. Reserved'
  BY DEF Reserved, Busy, LockHeld, TypeOK, Critical, Kinds, Absent, Named
<1>6. NamesUnique'
  BY DEF NamesUnique, Named, TypeOK, Reserved, Absent, Critical
<1> QED
  BY <1>1, <1>2, <1>3, <1>4, <1>5, <1>6

\* The invariant survives when e_shm_release gives the last reference back.
LEMMA ReleaseLastInv ==
  ASSUME IInv, NEW p \in Procs, NEW i \in Slots, ReleaseLast(p, i)
  PROVE  IInv'
<1> USE Facts DEF IInv, ReleaseLast, Goto, At, Inside, tblvars, mmvars
<1>1. TypeOK'
  <2>1. [regions[i] EXCEPT !.refcnt = 0] \in Region
    <3>1. regions[i] \in Region
      BY DEF TypeOK
    <3> QED
      BY <3>1, RegionUpdates
  <2>2. [op[p] EXCEPT !.slot = i] \in Operation
    BY OperationUpdates DEF TypeOK
  <2> QED
    BY <2>1, <2>2 DEF TypeOK, Critical
<1>2. MemType'
  BY DEF MemType, TypeOK
<1>3. LockHeld'
  BY DEF LockHeld, TypeOK, InCall, Critical, Kinds
<1>4. Busy'
  BY DEF Busy, LockHeld, TypeOK, Critical, Kinds
<1>5. Reserved'
  BY DEF Reserved, Busy, LockHeld, TypeOK, Critical, Kinds, Absent, Named
<1>6. NamesUnique'
  BY DEF NamesUnique, Named, TypeOK, Reserved, Absent, Critical
<1> QED
  BY <1>1, <1>2, <1>3, <1>4, <1>5, <1>6

\* The invariant survives when the region becomes invalid.
LEMMA RetireInv ==
  ASSUME IInv, NEW p \in Procs, Retire(p)
  PROVE  IInv'
<1> USE Facts DEF IInv, Retire, Goto, At, Inside, tblvars, mmvars
<1>1. TypeOK'
  <2>1. op[p].slot \in Slots
    BY OperationUpdates DEF TypeOK
  <2>2. [regions[op[p].slot] EXCEPT !.valid = FALSE] \in Region
    <3>1. regions[op[p].slot] \in Region
      BY <2>1 DEF TypeOK
    <3> QED
      BY <3>1, <2>1, RegionUpdates
  <2> QED
    BY <2>1, <2>2 DEF TypeOK, Critical
<1>2. MemType'
  BY DEF MemType, TypeOK
<1>3. LockHeld'
  BY DEF LockHeld, TypeOK, InCall, Critical, Kinds
<1>4. Busy'
  BY DEF Busy, LockHeld, TypeOK, Critical, Kinds
<1>5. Reserved'
  BY DEF Reserved, Busy, LockHeld, TypeOK, Critical, Kinds, Absent, Named
<1>6. NamesUnique'
  BY DEF NamesUnique, Named, TypeOK, Reserved, Absent, Critical
<1> QED
  BY <1>1, <1>2, <1>3, <1>4, <1>5, <1>6

\* The invariant survives when memman_free marks the chunk.
LEMMA FreeChunkInv ==
  ASSUME IInv, NEW p \in Procs, FreeChunk(p)
  PROVE  IInv'
<1> USE Facts DEF IInv, FreeChunk, Goto, At, Inside, tblvars, mmvars
<1>1. TypeOK'
  BY DEF TypeOK, InCall, Critical, Kinds
<1>2. MemType'
  <2> DEFINE r == regions[op[p].slot]
  <2>1. r.at \in Nat
    BY DEF TypeOK, Operation, Region
  <2>2. call' = [op |-> "coalesce", size |-> 0, at |-> r.at, cur |-> r.at, sum |-> 0]
    BY DEF MM!FreeBegin, MM!NoCall
  <2>3. heap' = [heap EXCEPT ![r.at].is_inuse = 0]
    BY DEF MM!FreeBegin
  <2>4. heap' \in [MM!Cells -> MM!Word]
    BY <2>3, ZenonT(60) DEF MemType, MM!Word
  <2> QED
    BY <2>1, <2>2, <2>4 DEF MemType
<1>3. LockHeld'
  BY DEF LockHeld, TypeOK, InCall, Critical, Kinds
<1>4. Busy'
  BY DEF Busy, LockHeld, TypeOK, Critical, Kinds
<1>5. Reserved'
  BY DEF Reserved, Busy, LockHeld, TypeOK, Critical, Kinds, Absent, Named
<1>6. NamesUnique'
  BY DEF NamesUnique, Named, TypeOK
<1> QED
  BY <1>1, <1>2, <1>3, <1>4, <1>5, <1>6

\* The invariant survives when memman_free gets a pointer of another mapping.
LEMMA FreeStrayInv ==
  ASSUME IInv, NEW p \in Procs, FreeStray(p)
  PROVE  IInv'
<1> USE Facts DEF IInv, FreeStray, Goto, At, Inside, tblvars, mmvars
<1>1. TypeOK'
  BY DEF TypeOK, InCall, Critical, Kinds
<1>2. MemType'
  BY DEF MemType, TypeOK
<1>3. LockHeld'
  BY DEF LockHeld, TypeOK, InCall, Critical, Kinds
<1>4. Busy'
  BY DEF Busy, LockHeld, TypeOK, Critical, Kinds
<1>5. Reserved'
  BY DEF Reserved, Busy, LockHeld, TypeOK, Critical, Kinds, Absent, Named
<1>6. NamesUnique'
  BY DEF NamesUnique, Named, TypeOK
<1> QED
  BY <1>1, <1>2, <1>3, <1>4, <1>5, <1>6

\* The invariant survives when coalesce goes on.
LEMMA CoalesceInv ==
  ASSUME IInv, NEW p \in Procs, Coalesce(p)
  PROVE  IInv'
<1> USE Facts DEF IInv, Coalesce, Goto, At, Inside, tblvars, mmvars
<1>1. TypeOK'
  BY DEF TypeOK, InCall, Critical, Kinds
<1>2. MemType'
  <2>1. PICK w \in Junk \cup {heap[j] : j \in MM!Cells} :
          call' = [call EXCEPT !.sum = call.sum + w.size, !.cur = call.cur + w.size]
    BY DEF MM!CoalesceAdd, MemType
  <2>2. w \in MM!Word
    BY DEF MemType
  <2>3. call.sum + w.size \in Nat /\ call.cur + w.size \in Nat
    BY <2>2 DEF MemType, MM!Word
  <2> QED
    BY <2>1, <2>3 DEF MemType, MM!CoalesceAdd
<1>3. LockHeld'
  BY DEF LockHeld, TypeOK, InCall, Critical, Kinds
<1>4. Busy'
  BY DEF Busy, LockHeld, TypeOK, Critical, Kinds
<1>5. Reserved'
  BY DEF Reserved, Busy, LockHeld, TypeOK, Critical, Kinds, Absent, Named
<1>6. NamesUnique'
  BY DEF NamesUnique, Named, TypeOK
<1> QED
  BY <1>1, <1>2, <1>3, <1>4, <1>5, <1>6

\* The invariant survives when coalesce ends.
LEMMA CoalescedInv ==
  ASSUME IInv, NEW p \in Procs, Coalesced(p)
  PROVE  IInv'
<1> USE Facts DEF IInv, Coalesced, Goto, At, Inside, tblvars, mmvars
<1>1. TypeOK'
  BY DEF TypeOK, InCall, Critical, Kinds
<1>2. MemType'
  BY ZenonT(60) DEF MemType, TypeOK, MM!CoalesceEnd, MM!NoCall, MM!Word, MM!Cells
<1>3. LockHeld'
  BY DEF LockHeld, TypeOK, InCall, Critical, Kinds
<1>4. Busy'
  BY DEF Busy, LockHeld, TypeOK, Critical, Kinds
<1>5. Reserved'
  BY DEF Reserved, Busy, LockHeld, TypeOK, Critical, Kinds, Absent, Named
<1>6. NamesUnique'
  BY DEF NamesUnique, Named, TypeOK
<1> QED
  BY <1>1, <1>2, <1>3, <1>4, <1>5, <1>6

\* The invariant survives when the lock is given back.
LEMMA UnlockInv ==
  ASSUME IInv, NEW p \in Procs, Unlock(p)
  PROVE  IInv'
<1> USE Facts DEF IInv, Unlock, Goto, At, Inside, tblvars, mmvars, Delta
<1>1. TypeOK'
  <2>1. op[p].name \in Names /\ op[p].kind \in Kinds
    BY DEF Busy
  <2>2. refs[p][op[p].name] + Delta(op[p].kind) \in Nat
    BY <2>1 DEF Busy, Kinds, TypeOK
  <2>3. refs' \in [Procs -> [Names -> Nat]]
    BY <2>1, <2>2 DEF TypeOK
  <2> QED
    BY <2>3 DEF TypeOK
<1>2. MemType'
  BY DEF MemType, TypeOK
<1>3. LockHeld'
  BY DEF LockHeld, TypeOK, InCall, Critical, Kinds
<1>4. Busy'
  BY DEF Busy, LockHeld, TypeOK, Critical, Kinds
<1>5. Reserved'
  BY DEF Reserved, Busy, LockHeld, TypeOK, Critical, Kinds, Absent, Named
<1>6. NamesUnique'
  BY DEF NamesUnique, Named, TypeOK
<1> QED
  BY <1>1, <1>2, <1>3, <1>4, <1>5, <1>6

\* The invariant survives when a failed call gives the lock back.
LEMMA UnlockFailedInv ==
  ASSUME IInv, NEW p \in Procs, UnlockFailed(p)
  PROVE  IInv'
<1> USE Facts DEF IInv, UnlockFailed, Goto, At, Inside, tblvars, mmvars
<1>1. TypeOK'
  BY DEF TypeOK, InCall, Critical, Kinds
<1>2. MemType'
  BY DEF MemType, TypeOK
<1>3. LockHeld'
  BY DEF LockHeld, TypeOK, InCall, Critical, Kinds
<1>4. Busy'
  BY DEF Busy, LockHeld, TypeOK, Critical, Kinds
<1>5. Reserved'
  BY DEF Reserved, Busy, LockHeld, TypeOK, Critical, Kinds, Absent, Named
<1>6. NamesUnique'
  BY DEF NamesUnique, Named, TypeOK
<1> QED
  BY <1>1, <1>2, <1>3, <1>4, <1>5, <1>6

\* The invariant survives when a process dies.
LEMMA CrashInv ==
  ASSUME IInv, NEW p \in Procs, Crash(p)
  PROVE  IInv'
<1> USE Facts DEF IInv, Crash, Goto, At, Inside, tblvars, mmvars, Die, MM!NoCall
<1>1. TypeOK'
  BY DEF TypeOK, InCall, Critical, Kinds, NoOp, Operation
<1>2. MemType'
  BY DEF MemType, TypeOK
<1>3. LockHeld'
  BY DEF LockHeld, TypeOK, InCall, Critical, Kinds
<1>4. Busy'
  BY DEF Busy, LockHeld, TypeOK, Critical, Kinds, NoOp
<1>5. Reserved'
  BY DEF Reserved, Busy, LockHeld, TypeOK, Critical, Kinds, Absent, Named, NoOp
<1>6. NamesUnique'
  BY DEF NamesUnique, Named, TypeOK
<1> QED
  BY <1>1, <1>2, <1>3, <1>4, <1>5, <1>6

\* The invariant survives when e_shm_finalize unmaps the table.
LEMMA FinalizeInv ==
  ASSUME IInv, NEW p \in Procs, Finalize(p)
  PROVE  IInv'
<1> USE Facts DEF IInv, Finalize, Goto, At, Inside, tblvars, mmvars
<1>1. TypeOK'
  BY DEF TypeOK, InCall, Critical, Kinds
<1>2. MemType'
  BY DEF MemType, TypeOK
<1>3. LockHeld'
  BY DEF LockHeld, TypeOK, InCall, Critical, Kinds
<1>4. Busy'
  BY DEF Busy, LockHeld, TypeOK, Critical, Kinds
<1>5. Reserved'
  BY DEF Reserved, Busy, LockHeld, TypeOK, Critical, Kinds, Absent, Named
<1>6. NamesUnique'
  BY DEF NamesUnique, Named, TypeOK
<1> QED
  BY <1>1, <1>2, <1>3, <1>4, <1>5, <1>6

\* The invariant survives when a step on unmapped memory.
LEMMA FaultInv ==
  ASSUME IInv, NEW p \in Procs, Fault(p)
  PROVE  IInv'
<1> USE Facts DEF IInv, Fault, Goto, At, Inside, tblvars, mmvars, Die, MM!NoCall
<1>1. TypeOK'
  BY DEF TypeOK, InCall, Critical, Kinds, NoOp, Operation
<1>2. MemType'
  BY DEF MemType, TypeOK
<1>3. LockHeld'
  BY DEF LockHeld, TypeOK, InCall, Critical, Kinds
<1>4. Busy'
  BY DEF Busy, LockHeld, TypeOK, Critical, Kinds, NoOp
<1>5. Reserved'
  BY DEF Reserved, Busy, LockHeld, TypeOK, Critical, Kinds, Absent, Named, NoOp
<1>6. NamesUnique'
  BY DEF NamesUnique, Named, TypeOK
<1> QED
  BY <1>1, <1>2, <1>3, <1>4, <1>5, <1>6

\* The invariant survives when memman faults.
LEMMA FreeFaultInv ==
  ASSUME IInv, NEW p \in Procs, FreeFault(p)
  PROVE  IInv'
<1> USE Facts DEF IInv, FreeFault, Goto, At, Inside, tblvars, mmvars, Die, MM!NoCall
<1>1. TypeOK'
  BY DEF TypeOK, InCall, Critical, Kinds, NoOp, Operation
<1>2. MemType'
  BY DEF MemType, TypeOK
<1>3. LockHeld'
  BY DEF LockHeld, TypeOK, InCall, Critical, Kinds
<1>4. Busy'
  BY DEF Busy, LockHeld, TypeOK, Critical, Kinds, NoOp
<1>5. Reserved'
  BY DEF Reserved, Busy, LockHeld, TypeOK, Critical, Kinds, Absent, Named, NoOp
<1>6. NamesUnique'
  BY DEF NamesUnique, Named, TypeOK
<1> QED
  BY <1>1, <1>2, <1>3, <1>4, <1>5, <1>6

\* The invariant survives when a user writes into its chunk.
LEMMA UserWriteInv ==
  ASSUME IInv, UserWrite
  PROVE  IInv'
<1> USE Facts DEF IInv, UserWrite, Goto, At, Inside, tblvars, mmvars
<1>1. TypeOK'
  BY DEF TypeOK, InCall, Critical, Kinds
<1>2. MemType'
  BY DEF MemType, TypeOK, MM!UserWrite, MM!Cells, MM!Word
<1>3. LockHeld'
  BY DEF LockHeld, TypeOK, InCall, Critical, Kinds
<1>4. Busy'
  BY DEF Busy, LockHeld, TypeOK, Critical, Kinds
<1>5. Reserved'
  BY DEF Reserved, Busy, LockHeld, TypeOK, Critical, Kinds, Absent, Named
<1>6. NamesUnique'
  BY DEF NamesUnique, Named, TypeOK
<1> QED
  BY <1>1, <1>2, <1>3, <1>4, <1>5, <1>6

-----------------------------------------------------------------------------
(***************************************************************************)
(* The inductive invariant and the theorems.                               *)
(***************************************************************************)
LEMMA InitInv == Init => IInv
<1> USE Facts DEF IInv
<1> SUFFICES ASSUME Init PROVE IInv
  OBVIOUS
<1>1. TypeOK
  <2>1. Free \in Region /\ NoOp \in Operation
    BY DEF Free, NoOp, Region, Operation
  <2> QED
    BY <2>1 DEF Init, TypeOK
<1>2. MemType
  BY DEF Init, MemType, MM!Init, MM!NoCall, MM!Zeroed, MM!Zero, MM!Word, MM!Cells
<1>3. LockHeld /\ Busy /\ Reserved
  BY DEF Init, LockHeld, Busy, Reserved, At, Critical
<1>4. NamesUnique
  BY DEF Init, NamesUnique, Named, Free
<1> QED
  BY <1>1, <1>2, <1>3, <1>4

\* Every step keeps the invariant, by the lemmas of the actions.
LEMMA NextInv == IInv /\ [Next]_vars => IInv'
<1> SUFFICES ASSUME IInv, [Next]_vars PROVE IInv'
  OBVIOUS
<1>1. ASSUME NEW p \in Procs, InitLock(p) \/ Lock(p) PROVE IInv'
  BY <1>1, InitLockInv, LockInv
<1>2. ASSUME NEW p \in Procs, Step(p) PROVE IInv'
  BY <1>2, MapFailsInv, MapInv, InitTableInv, InitHeapInv, InitUnlockInv, AllocRefusedInv,
     AllocRegionInv, AllocWalkInv, AllocTakenInv, AllocNoMemInv, FillInv, CountInv,
     NotFoundInv, AttachInv, ReleaseSharedInv, ReleaseLastInv, RetireInv, FreeChunkInv,
     FreeStrayInv, CoalesceInv, CoalescedInv, UnlockInv, UnlockFailedInv, FaultInv,
     FreeFaultInv DEF Step
<1>3. ASSUME NEW p \in Procs, NEW kind \in Kinds, NEW n \in Names, NEW s \in Sizes,
             Call(p, kind, n, s)
      PROVE  IInv'
  BY <1>3, CallInv
<1>4. ASSUME NEW p \in Procs, Crash(p) \/ Finalize(p) PROVE IInv'
  BY <1>4, CrashInv, FinalizeInv
<1>5. CASE UserWrite
  BY <1>5, UserWriteInv
<1>6. CASE UNCHANGED vars
  BY <1>6 DEF vars, IInv, TypeOK, MemType, LockHeld, Busy, Reserved, NamesUnique, At, Absent,
     Named
<1> QED
  BY <1>1, <1>2, <1>3, <1>4, <1>5, <1>6 DEF Next

\* The invariant holds in every reachable state.
LEMMA Invariance == Spec => []IInv
<1> QED
  BY InitInv, NextInv, PTL DEF Spec

\* The table, the lock and the calls in progress stay well typed; a reference
\* count stays in its 32 bits (e_shm_alloc, e_shm_attach, e_shm_release).
THEOREM TypeCorrect == Spec => []TypeOK
<1> QED
  BY Invariance, PTL DEF IInv

\* The critical sections of e_shm_get_shmtable .. e_shm_put_shmtable exclude each
\* other, with crashes in any of them.
THEOREM CriticalSections ==
  Spec => [](\A p, q \in Procs : pc[p] \in Critical /\ pc[q] \in Critical => p = q)
<1>1. IInv => (\A p, q \in Procs : pc[p] \in Critical /\ pc[q] \in Critical => p = q)
  BY DEF IInv, LockHeld
<1> QED
  BY <1>1, Invariance, PTL

\* At most one valid region of the table bears a name, whatever processes
\* allocate, release, crash or finalize (shm_lookup_region, shm_alloc_region).
THEOREM OneRegionPerName == Spec => []NamesUnique
<1> QED
  BY Invariance, PTL DEF IInv

-----------------------------------------------------------------------------
(***************************************************************************)
(* The reference counts.  References are counted as tokens; each action    *)
(* changes the count of at most one name, as it changes what its process   *)
(* owns of it.                                                             *)
(***************************************************************************)
\* A finite set of processes has finitely many references.
LEMMA TokensFinite ==
  ASSUME NEW owns, NEW ps \in SUBSET Procs, NEW n
  PROVE  /\ IsFiniteSet(Tokens(owns, ps, n))
         /\ Cardinality(Tokens(owns, ps, n)) \in Nat
         /\ Cardinality(Tokens(owns, ps, n)) <= Cardinality(Procs) * MaxRefs
<1>1. IsFiniteSet(1 .. MaxRefs) /\ Cardinality(1 .. MaxRefs) = MaxRefs
  BY FS_Interval, ShmAssumption
<1>2. /\ IsFiniteSet(Procs \X (1 .. MaxRefs))
      /\ Cardinality(Procs \X (1 .. MaxRefs)) = Cardinality(Procs) * MaxRefs
  BY <1>1, FS_Product, RefsFit
<1>3. Tokens(owns, ps, n) \in SUBSET (Procs \X (1 .. MaxRefs))
  BY DEF Tokens
<1>4. /\ IsFiniteSet(Tokens(owns, ps, n))
      /\ Cardinality(Tokens(owns, ps, n)) <= Cardinality(Procs) * MaxRefs
  BY <1>2, <1>3, FS_Subset
<1> QED
  BY <1>4, FS_CardinalityType

\* Fewer processes have no more references.
LEMMA TokensSubset ==
  ASSUME NEW owns, NEW ps \in SUBSET Procs, NEW qs \in SUBSET ps, NEW n
  PROVE  Cardinality(Tokens(owns, qs, n)) <= Cardinality(Tokens(owns, ps, n))
<1>1. Tokens(owns, qs, n) \in SUBSET Tokens(owns, ps, n)
  BY DEF Tokens
<1> QED
  BY <1>1, TokensFinite, FS_Subset

\* The number of references depends only on what each process owns.
LEMMA TokensSame ==
  ASSUME NEW owns, NEW after, NEW ps \in SUBSET Procs, NEW n,
         \A p \in ps : after[p][n] = owns[p][n]
  PROVE  Cardinality(Tokens(after, ps, n)) = Cardinality(Tokens(owns, ps, n))
<1>1. Tokens(after, ps, n) = Tokens(owns, ps, n)
  BY DEF Tokens
<1> QED
  BY <1>1

\* It is one more when one process owns one more.
LEMMA TokensMore ==
  ASSUME NEW owns, NEW after, NEW ps \in SUBSET Procs, NEW p \in ps, NEW n,
         owns[p][n] \in Nat, owns[p][n] < MaxRefs, after[p][n] = owns[p][n] + 1,
         \A q \in ps \ {p} : after[q][n] = owns[q][n]
  PROVE  Cardinality(Tokens(after, ps, n)) = Cardinality(Tokens(owns, ps, n)) + 1
<1> DEFINE token == <<p, owns[p][n] + 1>>
<1>1. token \notin Tokens(owns, ps, n)
  BY DEF Tokens
<1>2. Tokens(after, ps, n) = Tokens(owns, ps, n) \cup {token}
  <2>1. ASSUME NEW t \in Tokens(after, ps, n) PROVE t \in Tokens(owns, ps, n) \cup {token}
    <3>1. t \in ps \X (1 .. MaxRefs) /\ t[2] <= after[t[1]][n]
      BY <2>1 DEF Tokens
    <3>2. CASE t[1] # p
      BY <3>1, <3>2 DEF Tokens
    <3>3. CASE t[1] = p
      <4>1. t[2] <= owns[p][n] \/ t[2] = owns[p][n] + 1
        BY <3>1, <3>3
      <4>2. t = <<t[1], t[2]>>
        BY <3>1
      <4> QED
        BY <3>1, <3>3, <4>1, <4>2 DEF Tokens
    <3> QED
      BY <3>2, <3>3
  <2>2. token \in Tokens(after, ps, n)
    BY ShmAssumption DEF Tokens
  <2>3. ASSUME NEW t \in Tokens(owns, ps, n) PROVE t \in Tokens(after, ps, n)
    <3>1. t \in ps \X (1 .. MaxRefs) /\ t[2] <= owns[t[1]][n]
      BY <2>3 DEF Tokens
    <3>2. t[2] <= after[t[1]][n]
      <4>1. CASE t[1] = p
        BY <3>1, <4>1
      <4>2. CASE t[1] # p
        BY <3>1, <4>2
      <4> QED
        BY <4>1, <4>2
    <3> QED
      BY <3>1, <3>2 DEF Tokens
  <2> QED
    BY <2>1, <2>2, <2>3
<1>3. IsFiniteSet(Tokens(owns, ps, n))
  BY TokensFinite
<1>4. Cardinality(Tokens(owns, ps, n) \cup {token}) = Cardinality(Tokens(owns, ps, n)) + 1
  <2> HIDE DEF token
  <2> QED
    BY <1>1, <1>3, FS_AddElement
<1> QED
  BY <1>2, <1>4

\* What one process contributes to it.
LEMMA TokensOfOne ==
  ASSUME NEW owns, NEW ps \in SUBSET Procs, NEW p \in ps, NEW n
  PROVE  /\ Cardinality(Tokens(owns, ps, n)) <= Cardinality(Tokens(owns, ps \ {p}, n)) + MaxRefs
         /\ owns[p][n] = 0 => Tokens(owns, ps, n) = Tokens(owns, ps \ {p}, n)
         /\ owns[p][n] \in Nat \ {0} /\ MaxRefs > 0 => Cardinality(Tokens(owns, ps, n)) > 0
<1> DEFINE rest == Tokens(owns, ps \ {p}, n)
           own == {p} \X (1 .. MaxRefs)
<1>0. MaxRefs \in Nat
  BY ShmAssumption
<1>1. IsFiniteSet(own) /\ Cardinality(own) = MaxRefs
  <2>1. IsFiniteSet({p}) /\ Cardinality({p}) = 1
    BY FS_Singleton
  <2>2. IsFiniteSet(1 .. MaxRefs) /\ Cardinality(1 .. MaxRefs) = MaxRefs
    BY <1>0, FS_Interval
  <2>3. IsFiniteSet(own) /\ Cardinality(own) = 1 * MaxRefs
    BY <2>1, <2>2, FS_Product, ZenonT(60)
  <2> QED
    BY <1>0, <2>3
<1>2. Tokens(owns, ps, n) \in SUBSET (rest \cup own)
  BY DEF Tokens
<1>3. IsFiniteSet(rest) /\ Cardinality(rest) \in Nat
  BY TokensFinite
<1>4. IsFiniteSet(rest \cup own) /\ Cardinality(rest \cup own) <= Cardinality(rest) + MaxRefs
  <2>1. /\ IsFiniteSet(rest \cup own)
        /\ Cardinality(rest \cup own) = Cardinality(rest) + MaxRefs - Cardinality(rest \cap own)
    BY <1>1, <1>3, FS_Union
  <2>2. Cardinality(rest \cap own) \in Nat
    BY <1>1, FS_Intersection, FS_CardinalityType
  <2> HIDE DEF rest, own
  <2> QED
    BY <1>0, <1>3, <2>1, <2>2
<1>5. Cardinality(Tokens(owns, ps, n)) <= Cardinality(rest) + MaxRefs
  <2>1. Cardinality(Tokens(owns, ps, n)) <= Cardinality(rest \cup own)
    BY <1>2, <1>4, FS_Subset
  <2>2. Cardinality(Tokens(owns, ps, n)) \in Nat /\ Cardinality(rest \cup own) \in Nat
    BY <1>4, TokensFinite, FS_CardinalityType
  <2> HIDE DEF rest, own
  <2> QED
    BY <1>0, <1>3, <1>4, <2>1, <2>2
<1>6. owns[p][n] = 0 => Tokens(owns, ps, n) = rest
  BY DEF Tokens
<1>7. ASSUME owns[p][n] \in Nat \ {0}, MaxRefs > 0
      PROVE  Cardinality(Tokens(owns, ps, n)) > 0
  <2>1. <<p, 1>> \in Tokens(owns, ps, n)
    BY <1>0, <1>7 DEF Tokens
  <2> QED
    BY <2>1, TokensFinite, FS_EmptySet
<1> QED
  BY <1>5, <1>6, <1>7

\* The count of a name is that of the one region that bears it.
LEMMA RegIs ==
  NamesUnique => \A n \in Names :
                   /\ Absent(n) => Reg[n] = 0
                   /\ \A i \in Slots : Named(i, n) => Reg[n] = regions[i].refcnt
<1> SUFFICES ASSUME NamesUnique, NEW n \in Names
             PROVE  /\ Absent(n) => Reg[n] = 0
                    /\ \A i \in Slots : Named(i, n) => Reg[n] = regions[i].refcnt
  OBVIOUS
<1>1. Absent(n) => Reg[n] = 0
  BY DEF Reg
<1>2. ASSUME NEW i \in Slots, Named(i, n) PROVE Reg[n] = regions[i].refcnt
  <2> DEFINE j == CHOOSE k \in Slots : Named(k, n)
  <2>1. j \in Slots /\ Named(j, n)
    BY <1>2
  <2>2. j = i
    BY <1>2, <2>1 DEF NamesUnique
  <2>3. ~Absent(n)
    BY <1>2 DEF Absent
  <2> QED
    BY <2>2, <2>3 DEF Reg
<1> QED
  BY <1>1, <1>2

\* The same of the next state.
LEMMA RegIsNext ==
  ASSUME NamesUnique'
  PROVE  \A n \in Names : /\ Absent(n)' => Reg'[n] = 0
                          /\ \A i \in Slots : Named(i, n)' => Reg'[n] = regions'[i].refcnt
<1>1. (NamesUnique => \A n \in Names :
                   /\ Absent(n) => Reg[n] = 0
                   /\ \A i \in Slots : Named(i, n) => Reg[n] = regions[i].refcnt)'
  BY RegIs, PTL
<1> QED
  BY <1>1

\* Counts do not change while the table does not.
LEMMA RegKept ==
  ASSUME regions' = regions
  PROVE  Reg' = Reg
BY DEF Reg, Absent, Named

\* What a process owns stays between 0 and its bound, calls in progress included.
LEMMA OwnedBounds ==
  ASSUME IInv, RInv, NEW p \in Procs, NEW n \in Names
  PROVE  Owned[p][n] \in 0 .. MaxRefs
<1>1. refs[p][n] \in Nat /\ refs[p][n] <= MaxRefs
  BY DEF IInv, TypeOK, RInv, Bounded
<1>2. CASE op[p].name = n /\ pc[p] \in {"retire", "memman_free", "coalesce", "unlock"}
  <2>1. /\ op[p].kind \in Kinds
        /\ op[p].kind = "release" => refs[p][n] > 0
        /\ op[p].kind # "release" => refs[p][n] < MaxRefs
    BY <1>2 DEF IInv, Busy, RInv, Bounded, At
  <2>2. pc[p] # "unlock" => op[p].kind = "release"
    BY <1>2 DEF RInv, Phases
  <2> QED
    BY <1>1, <1>2, <2>1, <2>2, ShmAssumption DEF Owned, At, Delta
<1>3. CASE ~(op[p].name = n /\ pc[p] \in {"retire", "memman_free", "coalesce", "unlock"})
  BY <1>1, <1>3, ShmAssumption DEF Owned, At
<1> QED
  BY <1>2, <1>3

\* The counts stay right when neither they nor what is owned changes,
LEMMA CountedSame ==
  ASSUME Counted, exits' = exits, Living' = Living, \A n \in Names : Reg'[n] = Reg[n],
         \A p \in Procs, n \in Names : Owned'[p][n] = Owned[p][n]
  PROVE  Counted'
<1>1. ASSUME NEW n \in Names
      PROVE  /\ Cardinality(Tokens(Owned', Procs, n)) = Cardinality(Tokens(Owned, Procs, n))
             /\ Cardinality(Tokens(Owned', Living, n)) = Cardinality(Tokens(Owned, Living, n))
  <2>1. Living \in SUBSET Procs
    BY DEF Living
  <2> QED
    BY <2>1, TokensSame
<1> QED
  BY <1>1 DEF Counted

\* when a process that is mapped takes a reference and it is counted,
LEMMA CountedMore ==
  ASSUME Counted, exits \in Nat, exits' = exits, Living' = Living, NEW p \in Living, NEW m \in Names,
         Owned[p][m] \in Nat, Owned[p][m] < MaxRefs, Owned'[p][m] = Owned[p][m] + 1,
         Reg[m] \in Nat, Reg'[m] = Reg[m] + 1,
         \A n \in Names : n # m => Reg'[n] = Reg[n],
         \A q \in Procs, n \in Names : q # p \/ n # m => Owned'[q][n] = Owned[q][n]
  PROVE  Counted'
<1>1. Living \in SUBSET Procs /\ p \in Procs
  BY DEF Living
<1>2. ASSUME NEW ps \in SUBSET Procs, p \in ps
      PROVE  Cardinality(Tokens(Owned', ps, m)) = Cardinality(Tokens(Owned, ps, m)) + 1
  BY <1>2, TokensMore
<1>3. ASSUME NEW ps \in SUBSET Procs, NEW n \in Names, n # m
      PROVE  Cardinality(Tokens(Owned', ps, n)) = Cardinality(Tokens(Owned, ps, n))
  BY <1>3, TokensSame
<1>4. ASSUME NEW n \in Names
      PROVE  /\ Cardinality(Tokens(Owned, Procs, n)) \in Nat
             /\ Cardinality(Tokens(Owned, Living, n)) \in Nat
  BY <1>1, TokensFinite
<1>5. ASSUME NEW n \in Names
      PROVE  /\ Cardinality(Tokens(Owned', Procs, n)) <= Reg'[n]
             /\ Reg'[n] <= Cardinality(Tokens(Owned', Living, n)) + exits * MaxRefs
  <2>1. CASE n = m
    <3> DEFINE lost == exits * MaxRefs
               total == Cardinality(Tokens(Owned, Procs, m))
               able == Cardinality(Tokens(Owned, Living, m))
    <3>1. lost \in Nat
      BY ShmAssumption
    <3>2. total <= Reg[m] /\ Reg[m] <= able + lost
      BY DEF Counted
    <3>3. /\ Cardinality(Tokens(Owned', Procs, m)) = total + 1
          /\ Cardinality(Tokens(Owned', Living, m)) = able + 1
      BY <1>1, <1>2
    <3>4. total \in Nat /\ able \in Nat
      BY <1>4
    <3>5. total + 1 <= Reg'[m] /\ Reg'[m] <= (able + 1) + lost
      <4> HIDE DEF total, able, lost
      <4> QED
        BY <3>1, <3>2, <3>4
    <3> QED
      BY <2>1, <3>3, <3>5
  <2>2. CASE n # m
    BY <1>1, <1>3, <2>2 DEF Counted
  <2> QED
    BY <2>1, <2>2
<1> QED
  BY <1>5 DEF Counted

\* when it gives one back,
LEMMA CountedLess ==
  ASSUME Counted, exits \in Nat, exits' = exits, Living' = Living, NEW p \in Living, NEW m \in Names,
         Owned'[p][m] \in Nat, Owned'[p][m] < MaxRefs, Owned[p][m] = Owned'[p][m] + 1,
         Reg'[m] \in Nat, Reg[m] = Reg'[m] + 1,
         \A n \in Names : n # m => Reg'[n] = Reg[n],
         \A q \in Procs, n \in Names : q # p \/ n # m => Owned'[q][n] = Owned[q][n]
  PROVE  Counted'
<1>1. Living \in SUBSET Procs /\ p \in Procs
  BY DEF Living
<1>2. ASSUME NEW ps \in SUBSET Procs, p \in ps
      PROVE  Cardinality(Tokens(Owned, ps, m)) = Cardinality(Tokens(Owned', ps, m)) + 1
  BY <1>2, TokensMore
<1>3. ASSUME NEW ps \in SUBSET Procs, NEW n \in Names, n # m
      PROVE  Cardinality(Tokens(Owned', ps, n)) = Cardinality(Tokens(Owned, ps, n))
  BY <1>3, TokensSame
<1>4. ASSUME NEW n \in Names
      PROVE  /\ Cardinality(Tokens(Owned', Procs, n)) \in Nat
             /\ Cardinality(Tokens(Owned', Living, n)) \in Nat
  BY <1>1, TokensFinite
<1>5. ASSUME NEW n \in Names
      PROVE  /\ Cardinality(Tokens(Owned', Procs, n)) <= Reg'[n]
             /\ Reg'[n] <= Cardinality(Tokens(Owned', Living, n)) + exits * MaxRefs
  <2>1. CASE n = m
    <3> DEFINE lost == exits * MaxRefs
               total == Cardinality(Tokens(Owned', Procs, m))
               able == Cardinality(Tokens(Owned', Living, m))
    <3>1. lost \in Nat
      BY ShmAssumption
    <3>2. total + 1 <= Reg[m] /\ Reg[m] <= (able + 1) + lost
      <4>1. /\ Cardinality(Tokens(Owned, Procs, m)) = total + 1
            /\ Cardinality(Tokens(Owned, Living, m)) = able + 1
        BY <1>1, <1>2
      <4> QED
        BY <4>1 DEF Counted
    <3>3. total \in Nat /\ able \in Nat
      BY <1>4
    <3>4. total <= Reg'[m] /\ Reg'[m] <= able + lost
      <4> HIDE DEF total, able, lost
      <4> QED
        BY <3>1, <3>2, <3>3
    <3> QED
      BY <2>1, <3>4
  <2>2. CASE n # m
    BY <1>1, <1>3, <2>2 DEF Counted
  <2> QED
    BY <2>1, <2>2
<1> QED
  BY <1>5 DEF Counted

\* when a process exits, whose references stay counted,
LEMMA CountedExit ==
  ASSUME Counted, exits \in Nat, exits' = exits + 1, Reg' = Reg, NEW p \in Procs,
         \A n \in Names : Reg[n] \in Nat,
         Living \ {p} = Living' \ {p},
         \A q \in Procs, n \in Names : q # p => Owned'[q][n] = Owned[q][n],
         \A n \in Names : Owned'[p][n] = 0 \/ (p \notin Living' /\ Owned'[p][n] = Owned[p][n])
  PROVE  Counted'
<1> DEFINE rest == Living \ {p}
<1>0. Living \in SUBSET Procs /\ Living' \in SUBSET Procs /\ rest \in SUBSET Procs
  BY DEF Living
<1>1. ASSUME NEW n \in Names
      PROVE  /\ Cardinality(Tokens(Owned', Procs, n)) <= Reg'[n]
             /\ Reg'[n] <= Cardinality(Tokens(Owned', Living', n)) + exits' * MaxRefs
  <2> DEFINE total == Cardinality(Tokens(Owned, Procs, n))
             totalAfter == Cardinality(Tokens(Owned', Procs, n))
             able == Cardinality(Tokens(Owned, Living, n))
             ableAfter == Cardinality(Tokens(Owned', Living', n))
             others == Cardinality(Tokens(Owned, rest, n))
  <2>1. /\ total \in Nat /\ totalAfter \in Nat /\ able \in Nat /\ ableAfter \in Nat
        /\ others \in Nat
    BY <1>0, TokensFinite
  <2>2. total <= Reg[n] /\ Reg[n] <= able + exits * MaxRefs
    BY DEF Counted
  <2>3. Cardinality(Tokens(Owned', rest, n)) = others
    BY <1>0, TokensSame
  <2>4. others <= ableAfter
    <3>1. rest \in SUBSET Living'
      OBVIOUS
    <3>2. Cardinality(Tokens(Owned', rest, n)) <= ableAfter
      BY <1>0, <3>1, TokensSubset
    <3> QED
      BY <2>3, <3>2
  <2>5. able <= others + MaxRefs
    <3>1. CASE p \in Living
      BY <1>0, <3>1, TokensOfOne
    <3>2. CASE p \notin Living
      <4>1. rest = Living
        BY <3>2
      <4>2. others = able
        BY <4>1
      <4>3. able <= able + MaxRefs
        BY <2>1, ShmAssumption
      <4> QED
        BY <4>2, <4>3
    <3> QED
      BY <3>1, <3>2
  <2>6. totalAfter <= total
    <3>1. CASE Owned'[p][n] = 0
      <4>1. Tokens(Owned', Procs, n) = Tokens(Owned', Procs \ {p}, n)
        BY <3>1, TokensOfOne
      <4>2. Cardinality(Tokens(Owned', Procs \ {p}, n)) = Cardinality(Tokens(Owned, Procs \ {p}, n))
        BY TokensSame
      <4>3. Cardinality(Tokens(Owned, Procs \ {p}, n)) <= total
        BY TokensSubset
      <4> QED
        BY <4>1, <4>2, <4>3
    <3>2. CASE Owned'[p][n] = Owned[p][n]
      <4>1. totalAfter = total
        BY <3>2, TokensSame
      <4> QED
        BY <2>1, <4>1
    <3> QED
      BY <3>1, <3>2
  <2>7. exits' * MaxRefs = exits * MaxRefs + MaxRefs /\ exits * MaxRefs \in Nat
    BY ShmAssumption
  <2>8. totalAfter <= Reg[n] /\ Reg[n] <= ableAfter + (exits * MaxRefs + MaxRefs)
    <3> DEFINE lost == exits * MaxRefs
    <3>1. lost \in Nat /\ MaxRefs \in Nat /\ Reg[n] \in Nat
      BY <2>7, ShmAssumption
    <3>2. Reg[n] <= able + lost
      BY <2>2
    <3> HIDE DEF lost, total, totalAfter, able, ableAfter, others
    <3>3. totalAfter <= Reg[n] /\ Reg[n] <= ableAfter + (lost + MaxRefs)
      BY <2>1, <2>2, <2>4, <2>5, <2>6, <3>1, <3>2
    <3> QED
      BY <3>3 DEF lost
  <2> QED
    BY <2>7, <2>8
<1> QED
  BY <1>1 DEF Counted

\* and when a process without a mapping dies of it.
LEMMA CountedFault ==
  ASSUME Counted, exits' = exits, Reg' = Reg, NEW p \in Procs,
         \A n \in Names : Reg[n] \in Nat,
         p \notin Living, Living' = Living \cup {p},
         \A q \in Procs, n \in Names : q # p => Owned'[q][n] = Owned[q][n],
         \A n \in Names : Owned'[p][n] = 0
  PROVE  Counted'
<1>0. Living \in SUBSET Procs /\ Living' \in SUBSET Procs /\ Living' \ {p} = Living
  BY DEF Living
<1>1. ASSUME NEW n \in Names
      PROVE  /\ Cardinality(Tokens(Owned', Procs, n)) <= Reg'[n]
             /\ Reg'[n] <= Cardinality(Tokens(Owned', Living', n)) + exits' * MaxRefs
  <2>1. Cardinality(Tokens(Owned', Procs, n)) <= Cardinality(Tokens(Owned, Procs, n))
    <3>1. Tokens(Owned', Procs, n) = Tokens(Owned', Procs \ {p}, n)
      BY TokensOfOne
    <3>2. Cardinality(Tokens(Owned', Procs \ {p}, n)) = Cardinality(Tokens(Owned, Procs \ {p}, n))
      BY TokensSame
    <3> QED
      BY <3>1, <3>2, TokensSubset
  <2>2. Cardinality(Tokens(Owned', Living', n)) = Cardinality(Tokens(Owned, Living, n))
    <3>1. p \in Living' /\ \A q \in Living : Owned'[q][n] = Owned[q][n]
      BY <1>0
    <3>2. Tokens(Owned', Living', n) = Tokens(Owned', Living' \ {p}, n)
      BY <1>0, <3>1, TokensOfOne
    <3>3. Cardinality(Tokens(Owned', Living, n)) = Cardinality(Tokens(Owned, Living, n))
      BY <1>0, <3>1, TokensSame
    <3> QED
      BY <1>0, <3>2, <3>3
  <2>3. /\ Cardinality(Tokens(Owned', Procs, n)) \in Nat
        /\ Cardinality(Tokens(Owned, Procs, n)) \in Nat
    BY TokensFinite
  <2>4. Cardinality(Tokens(Owned, Procs, n)) <= Reg[n]
    BY DEF Counted
  <2>5. Cardinality(Tokens(Owned', Procs, n)) <= Reg[n]
    BY <2>1, <2>3, <2>4
  <2> QED
    BY <2>2, <2>5 DEF Counted
<1> QED
  BY <1>1 DEF Counted

\* A count fits in its 32 bits.
LEMMA RegType ==
  ASSUME IInv, NEW n \in Names
  PROVE  Reg[n] \in 0 .. RefRange - 1
<1>1. CASE Absent(n)
  BY <1>1, RegIs, Facts DEF IInv
<1>2. ASSUME NEW i \in Slots, Named(i, n) PROVE Reg[n] \in 0 .. RefRange - 1
  BY <1>2, RegIs DEF IInv, TypeOK, Region
<1> QED
  BY <1>1, <1>2 DEF Absent

\* A region with count 0 may take a name or lose it.
LEMMA RegUnnamed ==
  ASSUME NamesUnique, NamesUnique', NEW i \in Slots, regions[i].refcnt = 0, regions'[i].refcnt = 0,
         \A j \in Slots : j # i => regions'[j] = regions[j]
  PROVE  \A n \in Names : Reg'[n] = Reg[n]
<1> SUFFICES ASSUME NEW n \in Names PROVE Reg'[n] = Reg[n]
  OBVIOUS
<1>1. CASE \E j \in Slots : j # i /\ Named(j, n)
  <2>1. PICK j \in Slots : j # i /\ Named(j, n)
    BY <1>1
  <2>2. Named(j, n)'
    BY <2>1 DEF Named
  <2>3. Reg[n] = regions[j].refcnt
    BY <2>1, RegIs
  <2>4. Reg'[n] = regions'[j].refcnt
    BY <2>2, RegIsNext
  <2> QED
    BY <2>1, <2>3, <2>4
<1>2. CASE ~ \E j \in Slots : j # i /\ Named(j, n)
  <2>1. \A j \in Slots : j # i => ~Named(j, n) /\ ~Named(j, n)'
    BY <1>2 DEF Named
  <2>2. Reg[n] = 0
    BY <2>1, RegIs DEF Absent
  <2>3. Reg'[n] = 0
    BY <2>1, RegIsNext DEF Absent
  <2> QED
    BY <2>2, <2>3
<1> QED
  BY <1>1, <1>2

\* An assignment to one refcnt changes the count of that name only.
LEMMA RegCount ==
  ASSUME IInv, IInv', NEW i \in Slots, NEW m \in Names, Named(i, m),
         \A j \in Slots : /\ regions'[j].valid = regions[j].valid
                          /\ regions'[j].name = regions[j].name
                          /\ j # i => regions'[j].refcnt = regions[j].refcnt
  PROVE  /\ Reg[m] = regions[i].refcnt /\ Reg'[m] = regions'[i].refcnt
         /\ \A n \in Names : n # m => Reg'[n] = Reg[n]
<1>1. \A j \in Slots, n \in Names : Named(j, n)' <=> Named(j, n)
  BY DEF Named
<1>2. Reg[m] = regions[i].refcnt /\ Reg'[m] = regions'[i].refcnt
  BY <1>1, RegIs, RegIsNext DEF IInv
<1>3. ASSUME NEW n \in Names, n # m PROVE Reg'[n] = Reg[n]
  <2>1. ~Named(i, n)
    BY <1>3 DEF Named
  <2>2. CASE Absent(n)
    BY <1>1, <2>2, RegIs, RegIsNext DEF IInv, Absent
  <2>3. ASSUME NEW j \in Slots, Named(j, n) PROVE Reg'[n] = Reg[n]
    <3>1. Reg[n] = regions[j].refcnt /\ Reg'[n] = regions'[j].refcnt
      BY <1>1, <2>3, RegIs, RegIsNext DEF IInv
    <3> QED
      BY <2>1, <2>3, <3>1
  <2> QED
    BY <2>2, <2>3 DEF Absent
<1> QED
  BY <1>2, <1>3

\* The counts after such an assignment, as one function.
LEMMA RegStep ==
  ASSUME NEW m \in Names, \A n \in Names : n # m => Reg'[n] = Reg[n]
  PROVE  Reg' = [Reg EXCEPT ![m] = Reg'[m]]
<1>1. Reg = [n \in Names |-> Reg[n]]
  BY DEF Reg
<1>2. Reg' = [n \in Names |-> Reg'[n]]
  BY DEF Reg
<1> QED
  BY <1>1, <1>2

\* The counts are a function of the names.
LEMMA RegSame ==
  ASSUME \A n \in Names : Reg'[n] = Reg[n]
  PROVE  Reg' = Reg
BY DEF Reg

\* The counts are right still when a call starts.
LEMMA CallRefs ==
  ASSUME IInv, RInv, NEW p \in Procs, NEW kind \in Kinds, NEW n \in Names, NEW s \in Sizes, Call(p, kind, n, s)
  PROVE  RInv'
<1> USE Facts DEF IInv, RInv, Call, Goto, At, Inside, tblvars, mmvars, NoOp
<1>1. Phases'
  BY DEF Phases, TypeOK, Named, Critical, InCall, Kinds, Busy, LockHeld
<1>2. Bounded'
  BY DEF Bounded, TypeOK, Kinds, Busy
<1>3. Unused'
  BY DEF Unused, TypeOK, Kinds
<1>4. \A q \in Procs, m \in Names : Owned'[q][m] = Owned[q][m]
  BY DEF Owned, TypeOK, Delta, Kinds, Busy, Phases
<1>5. Living' = Living
  BY DEF Living, TypeOK
<1>6. Counted'
  BY <1>4, <1>5, RegKept, CountedSame
<1> QED
  BY <1>1, <1>2, <1>3, <1>6

\* The counts are right still when mmap fails in e_shm_init.
LEMMA MapFailsRefs ==
  ASSUME IInv, RInv, NEW p \in Procs, MapFails(p)
  PROVE  RInv'
<1> USE Facts DEF IInv, RInv, MapFails, Goto, At, Inside, tblvars, mmvars
<1>1. Phases'
  BY DEF Phases, TypeOK, Named, Critical, InCall, Kinds, Busy, LockHeld
<1>2. Bounded'
  BY DEF Bounded, TypeOK, Kinds, Busy
<1>3. Unused'
  BY DEF Unused, TypeOK, Kinds
<1>4. \A q \in Procs, m \in Names : Owned'[q][m] = Owned[q][m]
  BY DEF Owned, TypeOK, Delta, Kinds, Busy, Phases
<1>5. Living' = Living
  BY DEF Living, TypeOK
<1>6. Counted'
  BY <1>4, <1>5, RegKept, CountedSame
<1> QED
  BY <1>1, <1>2, <1>3, <1>6

\* The counts are right still when e_shm_init maps the memory.
LEMMA MapRefs ==
  ASSUME IInv, RInv, NEW p \in Procs, NEW b \in Bases, Map(p, b)
  PROVE  RInv'
<1> USE Facts DEF IInv, RInv, Map, Goto, At, Inside, tblvars, mmvars
<1>1. Phases'
  BY DEF Phases, TypeOK, Named, Critical, InCall, Kinds, Busy, LockHeld
<1>2. Bounded'
  BY DEF Bounded, TypeOK, Kinds, Busy
<1>3. Unused'
  BY DEF Unused, TypeOK, Kinds
<1>4. \A q \in Procs, m \in Names : Owned'[q][m] = Owned[q][m]
  BY DEF Owned, TypeOK, Delta, Kinds, Busy, Phases
<1>5. Living' = Living
  BY DEF Living, TypeOK
<1>6. Counted'
  BY <1>4, <1>5, RegKept, CountedSame
<1> QED
  BY <1>1, <1>2, <1>3, <1>6

\* The counts are right still when e_shm_init takes the lock.
LEMMA InitLockRefs ==
  ASSUME IInv, RInv, NEW p \in Procs, InitLock(p)
  PROVE  RInv'
<1> USE Facts DEF IInv, RInv, InitLock, Goto, At, Inside, tblvars, mmvars
<1>1. Phases'
  BY DEF Phases, TypeOK, Named, Critical, InCall, Kinds, Busy, LockHeld
<1>2. Bounded'
  BY DEF Bounded, TypeOK, Kinds, Busy
<1>3. Unused'
  BY DEF Unused, TypeOK, Kinds
<1>4. \A q \in Procs, m \in Names : Owned'[q][m] = Owned[q][m]
  BY DEF Owned, TypeOK, Delta, Kinds, Busy, Phases
<1>5. Living' = Living
  BY DEF Living, TypeOK
<1>6. Counted'
  BY <1>4, <1>5, RegKept, CountedSame
<1> QED
  BY <1>1, <1>2, <1>3, <1>6

\* The counts are right still when e_shm_init calls memman_init.
LEMMA InitHeapRefs ==
  ASSUME IInv, RInv, NEW p \in Procs, InitHeap(p)
  PROVE  RInv'
<1> USE Facts DEF IInv, RInv, InitHeap, Goto, At, Inside, tblvars, mmvars
<1>1. Phases'
  BY DEF Phases, TypeOK, Named, Critical, InCall, Kinds, Busy, LockHeld
<1>2. Bounded'
  BY DEF Bounded, TypeOK, Kinds, Busy
<1>3. Unused'
  BY DEF Unused, TypeOK, Kinds
<1>4. \A q \in Procs, m \in Names : Owned'[q][m] = Owned[q][m]
  BY DEF Owned, TypeOK, Delta, Kinds, Busy, Phases
<1>5. Living' = Living
  BY DEF Living, TypeOK
<1>6. Counted'
  BY <1>4, <1>5, RegKept, CountedSame
<1> QED
  BY <1>1, <1>2, <1>3, <1>6

\* The counts are right still when e_shm_init gives the lock back.
LEMMA InitUnlockRefs ==
  ASSUME IInv, RInv, NEW p \in Procs, InitUnlock(p)
  PROVE  RInv'
<1> USE Facts DEF IInv, RInv, InitUnlock, Goto, At, Inside, tblvars, mmvars
<1>1. Phases'
  BY DEF Phases, TypeOK, Named, Critical, InCall, Kinds, Busy, LockHeld
<1>2. Bounded'
  BY DEF Bounded, TypeOK, Kinds, Busy
<1>3. Unused'
  BY DEF Unused, TypeOK, Kinds
<1>4. \A q \in Procs, m \in Names : Owned'[q][m] = Owned[q][m]
  BY DEF Owned, TypeOK, Delta, Kinds, Busy, Phases
<1>5. Living' = Living
  BY DEF Living, TypeOK
<1>6. Counted'
  BY <1>4, <1>5, RegKept, CountedSame
<1> QED
  BY <1>1, <1>2, <1>3, <1>6

\* The counts are right still when a call takes the lock.
LEMMA LockRefs ==
  ASSUME IInv, RInv, NEW p \in Procs, Lock(p)
  PROVE  RInv'
<1> USE Facts DEF IInv, RInv, Lock, Goto, At, Inside, tblvars, mmvars
<1>1. Phases'
  BY DEF Phases, TypeOK, Named, Critical, InCall, Kinds, Busy, LockHeld
<1>2. Bounded'
  BY DEF Bounded, TypeOK, Kinds, Busy
<1>3. Unused'
  BY DEF Unused, TypeOK, Kinds
<1>4. \A q \in Procs, m \in Names : Owned'[q][m] = Owned[q][m]
  BY DEF Owned, TypeOK, Delta, Kinds, Busy, Phases
<1>5. Living' = Living
  BY DEF Living, TypeOK
<1>6. Counted'
  BY <1>4, <1>5, RegKept, CountedSame
<1> QED
  BY <1>1, <1>2, <1>3, <1>6

\* The counts are right still when e_shm_alloc refuses.
LEMMA AllocRefusedRefs ==
  ASSUME IInv, RInv, NEW p \in Procs, AllocRefused(p)
  PROVE  RInv'
<1> USE Facts DEF IInv, RInv, AllocRefused, Goto, At, Inside, tblvars, mmvars
<1>1. Phases'
  BY DEF Phases, TypeOK, Named, Critical, InCall, Kinds, Busy, LockHeld
<1>2. Bounded'
  BY DEF Bounded, TypeOK, Kinds, Busy
<1>3. Unused'
  BY DEF Unused, TypeOK, Kinds
<1>4. \A q \in Procs, m \in Names : Owned'[q][m] = Owned[q][m]
  BY DEF Owned, TypeOK, Delta, Kinds, Busy, Phases
<1>5. Living' = Living
  BY DEF Living, TypeOK
<1>6. Counted'
  BY <1>4, <1>5, RegKept, CountedSame
<1> QED
  BY <1>1, <1>2, <1>3, <1>6

\* The counts are right still when memman_alloc walks.
LEMMA AllocWalkRefs ==
  ASSUME IInv, RInv, NEW p \in Procs, AllocWalk(p)
  PROVE  RInv'
<1> USE Facts DEF IInv, RInv, AllocWalk, Goto, At, Inside, tblvars, mmvars
<1>1. Phases'
  BY DEF Phases, TypeOK, Named, Critical, InCall, Kinds, Busy, LockHeld
<1>2. Bounded'
  BY DEF Bounded, TypeOK, Kinds, Busy
<1>3. Unused'
  BY DEF Unused, TypeOK, Kinds
<1>4. \A q \in Procs, m \in Names : Owned'[q][m] = Owned[q][m]
  BY DEF Owned, TypeOK, Delta, Kinds, Busy, Phases
<1>5. Living' = Living
  BY DEF Living, TypeOK
<1>6. Counted'
  BY <1>4, <1>5, RegKept, CountedSame
<1> QED
  BY <1>1, <1>2, <1>3, <1>6

\* The counts are right still when memman_alloc takes a chunk.
LEMMA AllocTakenRefs ==
  ASSUME IInv, RInv, NEW p \in Procs, AllocTaken(p)
  PROVE  RInv'
<1> USE Facts DEF IInv, RInv, AllocTaken, Goto, At, Inside, tblvars, mmvars
<1>1. Phases'
  BY DEF Phases, TypeOK, Named, Critical, InCall, Kinds, Busy, LockHeld
<1>2. Bounded'
  BY DEF Bounded, TypeOK, Kinds, Busy
<1>3. Unused'
  BY DEF Unused, TypeOK, Kinds
<1>4. \A q \in Procs, m \in Names : Owned'[q][m] = Owned[q][m]
  BY DEF Owned, TypeOK, Delta, Kinds, Busy, Phases
<1>5. Living' = Living
  BY DEF Living, TypeOK
<1>6. Counted'
  BY <1>4, <1>5, RegKept, CountedSame
<1> QED
  BY <1>1, <1>2, <1>3, <1>6

\* The counts are right still when memman_alloc fails.
LEMMA AllocNoMemRefs ==
  ASSUME IInv, RInv, NEW p \in Procs, AllocNoMem(p)
  PROVE  RInv'
<1> USE Facts DEF IInv, RInv, AllocNoMem, Goto, At, Inside, tblvars, mmvars
<1>1. Phases'
  BY DEF Phases, TypeOK, Named, Critical, InCall, Kinds, Busy, LockHeld
<1>2. Bounded'
  BY DEF Bounded, TypeOK, Kinds, Busy
<1>3. Unused'
  BY DEF Unused, TypeOK, Kinds
<1>4. \A q \in Procs, m \in Names : Owned'[q][m] = Owned[q][m]
  BY DEF Owned, TypeOK, Delta, Kinds, Busy, Phases
<1>5. Living' = Living
  BY DEF Living, TypeOK
<1>6. Counted'
  BY <1>4, <1>5, RegKept, CountedSame
<1> QED
  BY <1>1, <1>2, <1>3, <1>6

\* The counts are right still when a lookup finds nothing.
LEMMA NotFoundRefs ==
  ASSUME IInv, RInv, NEW p \in Procs, NotFound(p)
  PROVE  RInv'
<1> USE Facts DEF IInv, RInv, NotFound, Goto, At, Inside, tblvars, mmvars
<1>1. Phases'
  BY DEF Phases, TypeOK, Named, Critical, InCall, Kinds, Busy, LockHeld
<1>2. Bounded'
  BY DEF Bounded, TypeOK, Kinds, Busy
<1>3. Unused'
  BY DEF Unused, TypeOK, Kinds
<1>4. \A q \in Procs, m \in Names : Owned'[q][m] = Owned[q][m]
  BY DEF Owned, TypeOK, Delta, Kinds, Busy, Phases
<1>5. Living' = Living
  BY DEF Living, TypeOK
<1>6. Counted'
  BY <1>4, <1>5, RegKept, CountedSame
<1> QED
  BY <1>1, <1>2, <1>3, <1>6

\* The counts are right still when memman_free marks the chunk.
LEMMA FreeChunkRefs ==
  ASSUME IInv, RInv, NEW p \in Procs, FreeChunk(p)
  PROVE  RInv'
<1> USE Facts DEF IInv, RInv, FreeChunk, Goto, At, Inside, tblvars, mmvars
<1>1. Phases'
  BY DEF Phases, TypeOK, Named, Critical, InCall, Kinds, Busy, LockHeld
<1>2. Bounded'
  BY DEF Bounded, TypeOK, Kinds, Busy
<1>3. Unused'
  BY DEF Unused, TypeOK, Kinds
<1>4. \A q \in Procs, m \in Names : Owned'[q][m] = Owned[q][m]
  BY DEF Owned, TypeOK, Delta, Kinds, Busy, Phases
<1>5. Living' = Living
  BY DEF Living, TypeOK
<1>6. Counted'
  BY <1>4, <1>5, RegKept, CountedSame
<1> QED
  BY <1>1, <1>2, <1>3, <1>6

\* The counts are right still when memman_free gets a pointer of another mapping.
LEMMA FreeStrayRefs ==
  ASSUME IInv, RInv, NEW p \in Procs, FreeStray(p)
  PROVE  RInv'
<1> USE Facts DEF IInv, RInv, FreeStray, Goto, At, Inside, tblvars, mmvars
<1>1. Phases'
  BY DEF Phases, TypeOK, Named, Critical, InCall, Kinds, Busy, LockHeld
<1>2. Bounded'
  BY DEF Bounded, TypeOK, Kinds, Busy
<1>3. Unused'
  BY DEF Unused, TypeOK, Kinds
<1>4. \A q \in Procs, m \in Names : Owned'[q][m] = Owned[q][m]
  BY DEF Owned, TypeOK, Delta, Kinds, Busy, Phases
<1>5. Living' = Living
  BY DEF Living, TypeOK
<1>6. Counted'
  BY <1>4, <1>5, RegKept, CountedSame
<1> QED
  BY <1>1, <1>2, <1>3, <1>6

\* The counts are right still when coalesce goes on.
LEMMA CoalesceRefs ==
  ASSUME IInv, RInv, NEW p \in Procs, Coalesce(p)
  PROVE  RInv'
<1> USE Facts DEF IInv, RInv, Coalesce, Goto, At, Inside, tblvars, mmvars
<1>1. Phases'
  BY DEF Phases, TypeOK, Named, Critical, InCall, Kinds, Busy, LockHeld
<1>2. Bounded'
  BY DEF Bounded, TypeOK, Kinds, Busy
<1>3. Unused'
  BY DEF Unused, TypeOK, Kinds
<1>4. \A q \in Procs, m \in Names : Owned'[q][m] = Owned[q][m]
  BY DEF Owned, TypeOK, Delta, Kinds, Busy, Phases
<1>5. Living' = Living
  BY DEF Living, TypeOK
<1>6. Counted'
  BY <1>4, <1>5, RegKept, CountedSame
<1> QED
  BY <1>1, <1>2, <1>3, <1>6

\* The counts are right still when coalesce ends.
LEMMA CoalescedRefs ==
  ASSUME IInv, RInv, NEW p \in Procs, Coalesced(p)
  PROVE  RInv'
<1> USE Facts DEF IInv, RInv, Coalesced, Goto, At, Inside, tblvars, mmvars
<1>1. Phases'
  BY DEF Phases, TypeOK, Named, Critical, InCall, Kinds, Busy, LockHeld
<1>2. Bounded'
  BY DEF Bounded, TypeOK, Kinds, Busy
<1>3. Unused'
  BY DEF Unused, TypeOK, Kinds
<1>4. \A q \in Procs, m \in Names : Owned'[q][m] = Owned[q][m]
  BY DEF Owned, TypeOK, Delta, Kinds, Busy, Phases
<1>5. Living' = Living
  BY DEF Living, TypeOK
<1>6. Counted'
  BY <1>4, <1>5, RegKept, CountedSame
<1> QED
  BY <1>1, <1>2, <1>3, <1>6

\* The counts are right still when a call returns.
LEMMA UnlockRefs ==
  ASSUME IInv, RInv, NEW p \in Procs, Unlock(p)
  PROVE  RInv'
<1> USE Facts DEF IInv, RInv, Unlock, Goto, At, Inside, tblvars, mmvars, Delta
<1>1. Phases'
  BY DEF Phases, TypeOK, Named, Critical, InCall, Kinds, Busy, LockHeld
<1>2. Bounded'
  <2>1. op[p].name \in Names /\ refs[p][op[p].name] \in Nat
    BY DEF Busy, TypeOK
  <2>2. refs[p][op[p].name] + Delta(op[p].kind) <= MaxRefs
    BY <2>1, ShmAssumption DEF Bounded
  <2>3. \A q \in Procs, n \in Names : refs'[q][n] <= MaxRefs
    BY <2>1, <2>2 DEF Bounded, TypeOK
  <2> QED
    BY <2>3 DEF Bounded, TypeOK
<1>3. Unused'
  BY DEF Unused, TypeOK, Kinds
<1>4. \A q \in Procs, m \in Names : Owned'[q][m] = Owned[q][m]
  BY DEF Owned, TypeOK, Delta, Kinds, Busy, Phases
<1>5. Living' = Living
  BY DEF Living, TypeOK
<1>6. Counted'
  BY <1>4, <1>5, RegKept, CountedSame
<1> QED
  BY <1>1, <1>2, <1>3, <1>6

\* The counts are right still when a failed call returns.
LEMMA UnlockFailedRefs ==
  ASSUME IInv, RInv, NEW p \in Procs, UnlockFailed(p)
  PROVE  RInv'
<1> USE Facts DEF IInv, RInv, UnlockFailed, Goto, At, Inside, tblvars, mmvars
<1>1. Phases'
  BY DEF Phases, TypeOK, Named, Critical, InCall, Kinds, Busy, LockHeld
<1>2. Bounded'
  BY DEF Bounded, TypeOK, Kinds, Busy
<1>3. Unused'
  BY DEF Unused, TypeOK, Kinds
<1>4. \A q \in Procs, m \in Names : Owned'[q][m] = Owned[q][m]
  BY DEF Owned, TypeOK, Delta, Kinds, Busy, Phases
<1>5. Living' = Living
  BY DEF Living, TypeOK
<1>6. Counted'
  BY <1>4, <1>5, RegKept, CountedSame
<1> QED
  BY <1>1, <1>2, <1>3, <1>6

\* The first e_shm_init resets a table without regions.
LEMMA InitTableRefs ==
  ASSUME IInv, IInv', RInv, NEW p \in Procs, InitTable(p)
  PROVE  RInv' /\ Reg' = Reg
<1> USE Facts DEF IInv, RInv, InitTable, Goto, At, Inside, tblvars, mmvars
<1>1. Phases'
  BY DEF Phases, TypeOK, Named, Critical, LockHeld
<1>2. Bounded'
  BY DEF Bounded, TypeOK, Busy
<1>3. Unused'
  BY DEF Unused, TypeOK, Free, Slots
<1>4. \A q \in Procs, m \in Names : Owned'[q][m] = Owned[q][m]
  BY DEF Owned, TypeOK, Delta, Busy, Phases
<1>5. Living' = Living
  BY DEF Living
<1>6. \A n \in Names : Reg'[n] = Reg[n]
  <2>1. CASE ready
    BY <2>1, RegKept
  <2>2. CASE ~ready
    <3>1. \A n \in Names : Absent(n) /\ Absent(n)'
      BY <2>2 DEF Unused, Absent, Named, Free
    <3> QED
      BY <3>1, RegIs, RegIsNext
  <2> QED
    BY <2>1, <2>2
<1>7. Counted'
  BY <1>4, <1>5, <1>6, CountedSame
<1> QED
  BY <1>1, <1>2, <1>3, <1>6, <1>7, RegSame

\* The name of an unused region counts for nothing.
LEMMA AllocRegionRefs ==
  ASSUME IInv, IInv', RInv, NEW p \in Procs, NEW i \in Slots, AllocRegion(p, i)
  PROVE  RInv' /\ Reg' = Reg
<1> USE Facts DEF IInv, RInv, AllocRegion, Goto, At, Inside, tblvars, mmvars
<1>0. /\ regions'[i].refcnt = 0 /\ regions[i].refcnt = 0
      /\ \A j \in Slots : j # i => regions'[j] = regions[j]
      /\ \A j \in Slots : /\ regions'[j].valid = regions[j].valid
                          /\ regions'[j].refcnt = regions[j].refcnt
  BY DEF TypeOK, Unused, Region
<1>1. Phases'
  BY DEF Phases, TypeOK, Named, Critical, LockHeld, CanAllocate, Sane
<1>2. Bounded'
  BY DEF Bounded, TypeOK, Busy
<1>3. Unused'
  <2>1. \A q \in Procs : pc[q] \in {"count", "retire"} => q # p
    OBVIOUS
  <2>2. \A q \in Procs : q # p => pc'[q] = pc[q] /\ op'[q] = op[q]
    BY DEF TypeOK
  <2> QED
    BY <1>0, <2>1, <2>2 DEF Unused
<1>4. \A q \in Procs, m \in Names : Owned'[q][m] = Owned[q][m]
  BY DEF Owned, TypeOK, Delta, Busy, Phases
<1>5. Living' = Living
  BY DEF Living
<1>6. \A n \in Names : Reg'[n] = Reg[n]
  BY <1>0, RegUnnamed
<1>7. Counted'
  BY <1>4, <1>5, <1>6, CountedSame
<1> QED
  BY <1>1, <1>2, <1>3, <1>6, <1>7, RegSame

\* A region that has just become valid has count 0.
LEMMA FillRefs ==
  ASSUME IInv, IInv', RInv, NEW p \in Procs, Fill(p)
  PROVE  RInv' /\ Reg' = Reg
<1> USE Facts DEF IInv, RInv, Fill, Goto, At, Inside, tblvars, mmvars
<1>0. op[p].slot \in Slots /\ op[p].name \in Names
  BY OperationUpdates DEF TypeOK, Busy
<1>1. Phases'
  BY <1>0, SMTT(30) DEF Phases, TypeOK, Named, Critical, LockHeld, Unused, Reserved, Region
<1>2. Bounded'
  BY DEF Bounded, TypeOK, Busy
<1>3. Unused'
  BY <1>0 DEF Unused, TypeOK, LockHeld, Critical, Reserved, Phases
<1>4. \A q \in Procs, m \in Names : Owned'[q][m] = Owned[q][m]
  BY DEF Owned, TypeOK, Delta, Busy, Phases
<1>5. Living' = Living
  BY DEF Living
<1>6. \A n \in Names : Reg'[n] = Reg[n]
  BY <1>0, RegUnnamed DEF TypeOK, Reserved, Unused
<1>7. Counted'
  BY <1>4, <1>5, <1>6, CountedSame
<1> QED
  BY <1>1, <1>2, <1>3, <1>6, <1>7, RegSame

\* e_shm_release retires a region whose count is 0.
LEMMA RetireRefs ==
  ASSUME IInv, IInv', RInv, NEW p \in Procs, Retire(p)
  PROVE  RInv' /\ Reg' = Reg
<1> USE Facts DEF IInv, RInv, Retire, Goto, At, Inside, tblvars, mmvars
<1>0. op[p].slot \in Slots /\ op[p].name \in Names
  BY OperationUpdates DEF TypeOK, Busy
<1>1. Phases'
  BY <1>0 DEF Phases, TypeOK, Named, Critical, LockHeld
<1>2. Bounded'
  BY DEF Bounded, TypeOK, Busy
<1>3. Unused'
  BY <1>0 DEF Unused, TypeOK, LockHeld, Critical, Phases
<1>4. \A q \in Procs, m \in Names : Owned'[q][m] = Owned[q][m]
  BY DEF Owned, TypeOK, Delta, Busy, Phases
<1>5. Living' = Living
  BY DEF Living
<1>6. \A n \in Names : Reg'[n] = Reg[n]
  BY <1>0, RegUnnamed DEF TypeOK, Phases
<1>7. Counted'
  BY <1>4, <1>5, <1>6, CountedSame
<1> QED
  BY <1>1, <1>2, <1>3, <1>6, <1>7, RegSame

\* A count below the range of 32 bits is stored as it is.
LEMMA SmallCounts == \A k \in 0 .. RefRange - 1 : k % RefRange = k
BY Facts

\* e_shm_alloc counts its own reference.
LEMMA CountRefs ==
  ASSUME IInv, IInv', RInv, NEW p \in Procs, Count(p)
  PROVE  RInv' /\ Reg[op[p].name] = 0 /\ Reg' = [Reg EXCEPT ![op[p].name] = 1]
<1> USE Facts DEF IInv, RInv, Count, Goto, At, Inside, tblvars, mmvars
<1> DEFINE i == op[p].slot
           m == op[p].name
<1>0. i \in Slots /\ m \in Names /\ Named(i, m) /\ regions[i].refcnt = 0 /\ op[p].kind = "alloc"
  BY OperationUpdates DEF TypeOK, Busy, Phases
<1>1. /\ regions'[i].refcnt = 1
      /\ \A j \in Slots : /\ regions'[j].valid = regions[j].valid
                          /\ regions'[j].name = regions[j].name
                          /\ j # i => regions'[j] = regions[j]
  BY <1>0 DEF TypeOK, Region
<1>10. Reg[m] = 0 /\ Reg'[m] = 1 /\ \A n \in Names : n # m => Reg'[n] = Reg[n]
  BY <1>0, <1>1, RegCount
<1>2. Phases'
  BY <1>0, <1>1 DEF Phases, TypeOK, Critical, LockHeld
<1>3. Bounded'
  BY DEF Bounded, TypeOK, Busy
<1>4. Unused'
  BY <1>0, <1>1 DEF Unused, TypeOK, Named, LockHeld, Critical, Phases
<1>5. Owned[p][m] = refs[p][m] /\ Owned'[p][m] = refs[p][m] + 1
  BY <1>0 DEF Owned, TypeOK, Delta
<1>6. \A q \in Procs, n \in Names : q # p \/ n # m => Owned'[q][n] = Owned[q][n]
  BY DEF Owned, TypeOK
<1>7. Living' = Living /\ p \in Living
  BY DEF Living
<1>8. refs[p][m] \in Nat /\ refs[p][m] < MaxRefs
  BY <1>0 DEF TypeOK, Bounded
<1>9. Counted'
  <2>1. exits \in Nat /\ exits' = exits
    BY DEF TypeOK
  <2> HIDE DEF IInv, Count, i, m
  <2> QED
    BY <1>0, <1>10, <1>5, <1>6, <1>7, <1>8, <2>1, CountedMore
<1> QED
  BY <1>0, <1>2, <1>3, <1>4, <1>9, <1>10, RegStep

\* The count never wraps round: the processes that can take a reference, and
\* the ones that exited, are too few.
LEMMA RoomToCount ==
  ASSUME IInv, RInv, NEW m \in Names, NEW p \in Living,
         Owned[p][m] < MaxRefs
  PROVE  Reg[m] + 1 < RefRange
<1> DEFINE able == Cardinality(Tokens(Owned, Living, m))
<1>1. Living \in SUBSET Procs /\ p \in Procs
  BY DEF Living
<1>2. PICK owned : /\ owned[p][m] = Owned[p][m] + 1
                   /\ \A q \in Living \ {p} : owned[q][m] = Owned[q][m]
  <2> DEFINE more == [q \in Procs |-> [n \in Names |-> IF q = p THEN Owned[p][m] + 1 ELSE Owned[q][m]]]
  <2>1. more[p][m] = Owned[p][m] + 1 /\ \A q \in Living \ {p} : more[q][m] = Owned[q][m]
    BY <1>1
  <2> QED
    BY <2>1
<1>3. Cardinality(Tokens(owned, Living, m)) = able + 1
  <2>1. Owned[p][m] \in Nat
    BY <1>1, OwnedBounds
  <2> QED
    BY <1>1, <1>2, <2>1, TokensMore
<1>8. able + 1 <= Cardinality(Procs) * MaxRefs
  BY <1>1, <1>3, TokensFinite
<1>4. Reg[m] <= able + exits * MaxRefs
  BY DEF RInv, Counted
<1>5. exits * MaxRefs <= MaxExits * MaxRefs
  <2>1. /\ exits \in Nat /\ MaxRefs \in Nat /\ MaxExits \in Nat /\ exits <= MaxExits
    BY ShmAssumption DEF IInv, TypeOK, RInv, Bounded
  <2>2. \A a, b, c \in Nat : a <= b => a * c <= b * c
    OBVIOUS
  <2> QED
    BY <2>1, <2>2
<1>6. Cardinality(Procs) * MaxRefs + MaxExits * MaxRefs < RefRange
  <2>1. Cardinality(Procs) \in Nat
    BY RefsFit, FS_CardinalityType
  <2>2. (Cardinality(Procs) + MaxExits) * MaxRefs
          = Cardinality(Procs) * MaxRefs + MaxExits * MaxRefs
    BY <2>1, ShmAssumption
  <2> QED
    BY <2>2, RefsFit
<1>7. /\ able \in Nat /\ Reg[m] \in Nat /\ RefRange \in Nat
      /\ exits * MaxRefs \in Nat /\ MaxExits * MaxRefs \in Nat /\ Cardinality(Procs) * MaxRefs \in Nat
  <2>1. Cardinality(Procs) \in Nat
    BY RefsFit, FS_CardinalityType
  <2>2. exits \in Nat
    BY DEF IInv, TypeOK
  <2> QED
    BY <1>1, <2>1, <2>2, TokensFinite, RegType, ShmAssumption
<1> QED
  <2> DEFINE a == exits * MaxRefs
             b == MaxExits * MaxRefs
             c == Cardinality(Procs) * MaxRefs
  <2> HIDE DEF able, a, b, c
  <2> QED
    BY <1>8, <1>4, <1>5, <1>6, <1>7 DEF a, b, c

\* e_shm_attach counts one reference more.
LEMMA AttachRefs ==
  ASSUME IInv, IInv', RInv, NEW p \in Procs, NEW i \in Slots, Attach(p, i)
  PROVE  /\ RInv' /\ Reg[op[p].name] = regions[i].refcnt
         /\ Reg' = [Reg EXCEPT ![op[p].name] = Reg[op[p].name] + 1]
<1> USE Facts DEF IInv, RInv, Attach, Goto, At, Inside, tblvars, mmvars
<1> DEFINE m == op[p].name
           k == regions[i].refcnt
<1>0. m \in Names /\ Named(i, m) /\ op[p].kind = "attach"
  BY DEF Busy, Phases, Found
<1>1. /\ regions'[i].refcnt = (k + 1) % RefRange
      /\ \A j \in Slots : /\ regions'[j].valid = regions[j].valid
                          /\ regions'[j].name = regions[j].name
                          /\ j # i => regions'[j] = regions[j]
  BY DEF TypeOK, Region
<1>2. /\ Reg[m] = k /\ Reg'[m] = (k + 1) % RefRange
      /\ \A n \in Names : n # m => Reg'[n] = Reg[n]
  BY <1>0, <1>1, RegCount
<1>3. Owned[p][m] = refs[p][m] /\ Owned'[p][m] = refs[p][m] + 1
  BY <1>0 DEF Owned, TypeOK, Delta
<1>4. \A q \in Procs, n \in Names : q # p \/ n # m => Owned'[q][n] = Owned[q][n]
  BY DEF Owned, TypeOK
<1>5. Living' = Living /\ p \in Living
  BY DEF Living
<1>6. refs[p][m] \in Nat /\ refs[p][m] < MaxRefs
  BY <1>0 DEF TypeOK, Bounded
<1>7. k \in Nat /\ (k + 1) % RefRange = k + 1
  <2>1. k \in Nat /\ k + 1 < RefRange
    BY <1>0, <1>2, <1>3, <1>5, <1>6, RoomToCount, RegType
  <2> QED
    BY <2>1, SmallCounts
<1>8. Phases'
  BY <1>0, <1>1 DEF Phases, TypeOK, Critical, LockHeld
<1>9. Bounded'
  BY DEF Bounded, TypeOK, Busy
<1>10. Unused'
  <2>1. regions'[i].refcnt # 0 /\ regions[i].valid
    BY <1>0, <1>1, <1>7 DEF Named
  <2>2. \A q \in Procs : pc[q] \in {"count", "retire"} => pc'[q] = pc[q] /\ op'[q] = op[q]
    BY DEF TypeOK
  <2> QED
    BY <1>1, <2>1, <2>2 DEF Unused
<1>11. Counted'
  <2>1. Reg[m] \in Nat /\ Reg'[m] = Reg[m] + 1
    BY <1>2, <1>7
  <2>2. exits \in Nat /\ exits' = exits
    BY DEF TypeOK
  <2> HIDE DEF IInv, Attach, k, m
  <2> QED
    BY <1>0, <1>2, <1>3, <1>4, <1>5, <1>6, <2>1, <2>2, CountedMore
<1> QED
  BY <1>0, <1>2, <1>7, <1>8, <1>9, <1>10, <1>11, RegStep

\* Whoever releases a reference has one: the count is not 0.
LEMMA HeldCounts ==
  ASSUME IInv, RInv, NEW p \in Procs, NEW m \in Names, Owned[p][m] > 0
  PROVE  Reg[m] > 0
<1>1. Owned[p][m] \in Nat \ {0} /\ MaxRefs > 0
  BY OwnedBounds, ShmAssumption
<1>2. Cardinality(Tokens(Owned, Procs, m)) > 0
  BY <1>1, TokensOfOne
<1>3. Cardinality(Tokens(Owned, Procs, m)) <= Reg[m]
  BY DEF RInv, Counted
<1>4. Cardinality(Tokens(Owned, Procs, m)) \in Nat /\ Reg[m] \in Nat
  BY TokensFinite, RegType
<1> QED
  BY <1>2, <1>3, <1>4

\* e_shm_release leaves the references of others.
LEMMA ReleaseSharedRefs ==
  ASSUME IInv, IInv', RInv, NEW p \in Procs, NEW i \in Slots, ReleaseShared(p, i)
  PROVE  RInv' /\ Reg[op[p].name] > 0 /\ Reg' = [Reg EXCEPT ![op[p].name] = Reg[op[p].name] - 1]
<1> USE Facts DEF IInv, RInv, ReleaseShared, Goto, At, Inside, tblvars, mmvars
<1> DEFINE m == op[p].name
           k == regions[i].refcnt
<1>1. m \in Names /\ Named(i, m) /\ op[p].kind = "release"
  BY DEF Busy, Phases, Found
<1>2. /\ regions'[i].refcnt = (k - 1) % RefRange
      /\ \A j \in Slots : /\ regions'[j].valid = regions[j].valid
                          /\ regions'[j].name = regions[j].name
                          /\ j # i => regions'[j] = regions[j]
  BY DEF TypeOK, Region
<1>3. /\ Reg[m] = k /\ Reg'[m] = (k - 1) % RefRange
      /\ \A n \in Names : n # m => Reg'[n] = Reg[n]
  BY <1>1, <1>2, RegCount
<1>4. Owned[p][m] = refs[p][m] /\ Owned'[p][m] = refs[p][m] - 1
  BY <1>1 DEF Owned, TypeOK, Delta
<1>5. \A q \in Procs, n \in Names : q # p \/ n # m => Owned'[q][n] = Owned[q][n]
  BY DEF Owned, TypeOK
<1>6. Living' = Living /\ p \in Living
  BY DEF Living
<1>7. refs[p][m] \in Nat /\ 0 < refs[p][m] /\ refs[p][m] <= MaxRefs
  BY <1>1 DEF TypeOK, Bounded, Busy
<1>8. k \in Nat /\ k > 1 /\ (k - 1) % RefRange = k - 1
  <2>1. k \in 0 .. RefRange - 1 /\ k > 0
    BY <1>1, <1>3, <1>4, <1>7, HeldCounts, RegType
  <2>2. k - 1 \in 0 .. RefRange - 1
    BY <2>1
  <2> QED
    BY <2>1, <2>2, SmallCounts
<1>9. Phases'
  BY <1>1, <1>2 DEF Phases, TypeOK, Critical, LockHeld
<1>10. Bounded'
  BY DEF Bounded, TypeOK, Busy
<1>11. Unused'
  <2>1. regions'[i].refcnt # 0 /\ regions[i].valid
    BY <1>1, <1>2, <1>8 DEF Named
  <2>2. \A q \in Procs : pc[q] \in {"count", "retire"} => pc'[q] = pc[q] /\ op'[q] = op[q]
    BY DEF TypeOK
  <2> QED
    BY <1>2, <2>1, <2>2 DEF Unused
<1>12. Counted'
  <2>1. Reg'[m] \in Nat /\ Reg[m] = Reg'[m] + 1
    BY <1>3, <1>8
  <2>2. exits \in Nat /\ exits' = exits
    BY DEF TypeOK
  <2>3. Owned'[p][m] \in Nat /\ Owned'[p][m] < MaxRefs /\ Owned[p][m] = Owned'[p][m] + 1
    BY <1>4, <1>7, ShmAssumption
  <2> HIDE DEF IInv, ReleaseShared, k, m
  <2> QED
    BY <1>1, <1>3, <1>5, <1>6, <2>1, <2>2, <2>3, CountedLess
<1> QED
  BY <1>1, <1>3, <1>8, <1>9, <1>10, <1>11, <1>12, RegStep

\* e_shm_release gives the last reference back.
LEMMA ReleaseLastRefs ==
  ASSUME IInv, IInv', RInv, NEW p \in Procs, NEW i \in Slots, ReleaseLast(p, i)
  PROVE  RInv' /\ Reg[op[p].name] > 0 /\ Reg' = [Reg EXCEPT ![op[p].name] = Reg[op[p].name] - 1]
<1> USE Facts DEF IInv, RInv, ReleaseLast, Goto, At, Inside, tblvars, mmvars
<1> DEFINE m == op[p].name
<1>1. m \in Names /\ Named(i, m) /\ op[p].kind = "release" /\ regions[i].refcnt = 1
  BY DEF Busy, Phases, Found
<1>2. /\ regions'[i].refcnt = 0
      /\ \A j \in Slots : /\ regions'[j].valid = regions[j].valid
                          /\ regions'[j].name = regions[j].name
                          /\ j # i => regions'[j] = regions[j]
  BY DEF TypeOK, Region
<1>3. Reg[m] = 1 /\ Reg'[m] = 0 /\ \A n \in Names : n # m => Reg'[n] = Reg[n]
  BY <1>1, <1>2, RegCount
<1>4. op'[p].name = m /\ op'[p].kind = "release" /\ op'[p].slot = i
  BY <1>1 DEF TypeOK, Operation
<1>5. Owned[p][m] = refs[p][m] /\ Owned'[p][m] = refs[p][m] - 1
  BY <1>1, <1>4 DEF Owned, TypeOK, Delta
<1>6. \A q \in Procs, n \in Names : q # p \/ n # m => Owned'[q][n] = Owned[q][n]
  BY <1>4 DEF Owned, TypeOK
<1>7. Living' = Living /\ p \in Living
  BY DEF Living
<1>8. refs[p][m] \in Nat /\ 0 < refs[p][m] /\ refs[p][m] <= MaxRefs
  BY <1>1 DEF TypeOK, Bounded, Busy
<1>9. Phases'
  BY <1>1, <1>2, <1>4 DEF Phases, TypeOK, Critical, LockHeld, Named
<1>10. Bounded'
  BY <1>4 DEF Bounded, TypeOK, Busy
<1>11. Unused'
  <2>1. pc'[p] = "retire"
    BY DEF TypeOK
  <2>2. \A q \in Procs : pc[q] \in {"count", "retire"} => pc'[q] = pc[q] /\ op'[q] = op[q]
    BY DEF TypeOK
  <2> QED
    BY <1>2, <1>4, <2>1, <2>2 DEF Unused
<1>12. Counted'
  <2>1. Reg'[m] \in Nat /\ Reg[m] = Reg'[m] + 1
    BY <1>3
  <2>2. exits \in Nat /\ exits' = exits
    BY DEF TypeOK
  <2>3. Owned'[p][m] \in Nat /\ Owned'[p][m] < MaxRefs /\ Owned[p][m] = Owned'[p][m] + 1
    BY <1>5, <1>8, ShmAssumption
  <2> HIDE DEF IInv, ReleaseLast, m
  <2> QED
    BY <1>1, <1>3, <1>6, <1>7, <2>1, <2>2, <2>3, CountedLess
<1> QED
  BY <1>1, <1>3, <1>9, <1>10, <1>11, <1>12, RegStep

\* What a death leaves as it was.
LEMMA DieRefs ==
  ASSUME IInv, RInv, NEW p \in Procs, Die(p)
  PROVE  /\ Phases' /\ Reg' = Reg
         /\ \A q \in Procs, n \in Names : q # p => Owned'[q][n] = Owned[q][n]
         /\ \A n \in Names : Owned'[p][n] = 0
         /\ Living' = Living \cup {p}
<1> USE Facts DEF IInv, RInv, Die, At, tblvars
<1>1. Phases'
  BY DEF Phases, TypeOK, Named
<1>2. Reg' = Reg
  BY RegKept
<1>3. \A q \in Procs, n \in Names : q # p => Owned'[q][n] = Owned[q][n]
  BY DEF Owned, TypeOK, Delta
<1>4. \A n \in Names : Owned'[p][n] = 0
  BY DEF Owned, TypeOK, NoOp
<1>5. Living' = Living \cup {p}
  BY DEF Living, TypeOK
<1> QED
  BY <1>1, <1>2, <1>3, <1>4, <1>5

\* A process crashes: its references stay counted.
LEMMA CrashRefs ==
  ASSUME IInv, RInv, NEW p \in Procs, Crash(p)
  PROVE  RInv'
<1> USE Facts DEF IInv, RInv, Crash
<1>1. Phases'
  BY DieRefs
<1>2. Bounded'
  BY ShmAssumption DEF Bounded, TypeOK, Die, At
<1>3. Unused'
  BY DEF Unused, TypeOK, Die, tblvars
<1>4. Counted'
  <2>1. exits \in Nat /\ exits' = exits + 1 /\ \A n \in Names : Reg[n] \in Nat
    BY RegType DEF TypeOK
  <2>2. Living \ {p} = Living' \ {p}
    BY DieRefs
  <2>3. /\ Counted /\ Reg' = Reg
        /\ \A q \in Procs, n \in Names : q # p => Owned'[q][n] = Owned[q][n]
        /\ \A n \in Names : Owned'[p][n] = 0
    BY DieRefs
  <2> QED
    BY <2>1, <2>2, <2>3, CountedExit
<1> QED
  BY <1>1, <1>2, <1>3, <1>4

\* So do those of a process that memman brings down.
LEMMA FreeFaultRefs ==
  ASSUME IInv, RInv, NEW p \in Procs, FreeFault(p)
  PROVE  RInv'
<1> USE Facts DEF IInv, RInv, FreeFault
<1>1. Phases'
  BY DieRefs
<1>2. Bounded'
  BY ShmAssumption DEF Bounded, TypeOK, Die, At
<1>3. Unused'
  BY DEF Unused, TypeOK, Die, tblvars
<1>4. Counted'
  <2>1. exits \in Nat /\ exits' = exits + 1 /\ \A n \in Names : Reg[n] \in Nat
    BY RegType DEF TypeOK
  <2>2. Living \ {p} = Living' \ {p}
    BY DieRefs
  <2>3. /\ Counted /\ Reg' = Reg
        /\ \A q \in Procs, n \in Names : q # p => Owned'[q][n] = Owned[q][n]
        /\ \A n \in Names : Owned'[p][n] = 0
    BY DieRefs
  <2> QED
    BY <2>1, <2>2, <2>3, CountedExit
<1> QED
  BY <1>1, <1>2, <1>3, <1>4

\* A process that has finalized can give nothing back.
LEMMA FinalizeRefs ==
  ASSUME IInv, RInv, NEW p \in Procs, Finalize(p)
  PROVE  RInv'
<1> USE Facts DEF IInv, RInv, Finalize, tblvars
<1>1. Phases'
  BY DEF Phases, Named, At
<1>2. Bounded'
  BY ShmAssumption DEF Bounded, TypeOK, At
<1>3. Unused'
  BY DEF Unused, TypeOK
<1>4. Counted'
  <2>1. exits \in Nat /\ exits' = exits + 1 /\ \A n \in Names : Reg[n] \in Nat
    BY RegType DEF TypeOK
  <2>2. Living \ {p} = Living' \ {p} /\ p \notin Living'
    BY DEF Living, TypeOK
  <2>3. Owned' = Owned
    BY DEF Owned, At
  <2> QED
    BY <2>1, <2>2, <2>3, RegKept, CountedExit
<1> QED
  BY <1>1, <1>2, <1>3, <1>4

\* It has given up its references when the next call brings it down.
LEMMA FaultRefs ==
  ASSUME IInv, RInv, NEW p \in Procs, Fault(p)
  PROVE  RInv'
<1> USE Facts DEF IInv, RInv, Fault
<1>1. Phases'
  BY DieRefs
<1>2. Bounded'
  BY ShmAssumption DEF Bounded, TypeOK, Die, At
<1>3. Unused'
  BY DEF Unused, TypeOK, Die, tblvars, Bounded
<1>4. Counted'
  <2>1. exits' = exits /\ \A n \in Names : Reg[n] \in Nat
    BY RegType
  <2>2. p \notin Living
    BY DEF Living
  <2> QED
    BY <2>1, <2>2, DieRefs, CountedFault
<1> QED
  BY <1>1, <1>2, <1>3, <1>4

\* Users of segments write to the heap only.
LEMMA UserWriteRefs ==
  ASSUME IInv, RInv, UserWrite
  PROVE  RInv'
<1> USE DEF IInv, RInv, UserWrite, tblvars
<1>1. Phases' /\ Bounded' /\ Unused'
  BY DEF Phases, Bounded, Unused, Named, At
<1>2. Owned' = Owned /\ Living' = Living
  BY DEF Owned, Living, At
<1> QED
  BY <1>1, <1>2, RegKept, CountedSame

-----------------------------------------------------------------------------
\* There are no references at the start.
LEMMA InitRefs == Init => RInv
<1> SUFFICES ASSUME Init PROVE RInv
  OBVIOUS
<1> USE ShmAssumption, Facts DEF Init, At
<1>1. Phases /\ Bounded /\ Unused
  BY DEF Phases, Bounded, Unused, Free
<1>2. ASSUME NEW n \in Names
      PROVE  /\ Cardinality(Tokens(Owned, Procs, n)) <= Reg[n]
             /\ Reg[n] <= Cardinality(Tokens(Owned, Living, n)) + exits * MaxRefs
  <2>1. Absent(n)
    BY DEF Absent, Named, Free
  <2>2. Reg[n] = 0
    BY <2>1 DEF Reg
  <2>3. Tokens(Owned, Procs, n) = {} /\ Tokens(Owned, Living, n) = {}
    BY DEF Tokens, Owned, Living, NoOp
  <2> QED
    BY <2>2, <2>3, FS_EmptySet
<1> QED
  BY <1>1, <1>2 DEF RInv, Counted

\* Every step keeps the counts right, by the lemmas of the actions.
LEMMA NextRefs == IInv /\ IInv' /\ RInv /\ [Next]_vars => RInv'
<1> SUFFICES ASSUME IInv, IInv', RInv, [Next]_vars PROVE RInv'
  OBVIOUS
<1>1. ASSUME NEW p \in Procs, InitLock(p) \/ Lock(p) PROVE RInv'
  BY <1>1, InitLockRefs, LockRefs
<1>2. ASSUME NEW p \in Procs, Step(p) PROVE RInv'
  BY <1>2, MapFailsRefs, MapRefs, InitTableRefs, InitHeapRefs, InitUnlockRefs, AllocRefusedRefs,
     AllocRegionRefs, AllocWalkRefs, AllocTakenRefs, AllocNoMemRefs, FillRefs, CountRefs,
     NotFoundRefs, AttachRefs, ReleaseSharedRefs, ReleaseLastRefs, RetireRefs, FreeChunkRefs,
     FreeStrayRefs, CoalesceRefs, CoalescedRefs, UnlockRefs, UnlockFailedRefs, FaultRefs,
     FreeFaultRefs DEF Step
<1>3. ASSUME NEW p \in Procs, NEW kind \in Kinds, NEW n \in Names, NEW s \in Sizes,
             Call(p, kind, n, s)
      PROVE  RInv'
  BY <1>3, CallRefs
<1>4. ASSUME NEW p \in Procs, Crash(p) \/ Finalize(p) PROVE RInv'
  BY <1>4, CrashRefs, FinalizeRefs
<1>5. CASE UserWrite
  BY <1>5, UserWriteRefs
<1>6. CASE UNCHANGED vars
  <2> USE <1>6 DEF vars
  <2>1. Phases' /\ Bounded' /\ Unused'
    BY DEF RInv, Phases, Bounded, Unused, Named, At
  <2>2. Owned' = Owned /\ Living' = Living
    BY DEF Owned, Living, At
  <2> QED
    BY <2>1, <2>2, RegKept, CountedSame DEF RInv
<1> QED
  BY <1>1, <1>2, <1>3, <1>4, <1>5, <1>6 DEF Next

\* The counts are right in every reachable state.
LEMMA RefsInvariance == Spec => [](IInv /\ RInv)
<1> QED
  BY InitInv, NextInv, InitRefs, NextRefs, PTL DEF Spec

\* What the invariant says of the table while the lock is free.
LEMMA RefsOfTable == IInv /\ RInv => TableRight
<1> SUFFICES ASSUME IInv, RInv PROVE TableRight
  OBVIOUS
<1>1. ASSUME holder = NoProc, NEW n \in Names
      PROVE  /\ Held(n) = Cardinality(Tokens(Owned, Procs, n))
             /\ Held(n) \in Nat /\ Held(n) <= Reg[n]
             /\ exits = 0 => Reg[n] = Held(n)
  <2>1. \A p \in Procs : pc[p] \notin Critical
    BY <1>1, Facts DEF IInv, LockHeld
  <2>2. \A p \in Procs : Owned[p][n] = refs[p][n]
    BY <2>1 DEF Owned, At, Critical, IInv, TypeOK
  <2>3. Held(n) = Cardinality(Tokens(Owned, Procs, n)) /\ Held(n) \in Nat
    BY <2>2, TokensSame, TokensFinite DEF Held
  <2>4. ASSUME exits = 0 PROVE Reg[n] = Held(n)
    <3>1. Living = Procs
      BY <2>4 DEF Living, RInv, Bounded
    <3>2. exits * MaxRefs = 0
      BY <2>4, ShmAssumption
    <3>3. Cardinality(Tokens(Owned, Living, n)) = Held(n)
      BY <2>3, <3>1
    <3> QED
      BY <2>3, <3>2, <3>3, RegType DEF RInv, Counted
  <2> QED
    BY <2>3, <2>4 DEF RInv, Counted
<1>2. ASSUME NEW n \in Names, Reg[n] > 0
      PROVE  \E i \in Slots : Named(i, n) /\ regions[i].refcnt = Reg[n]
  <2>1. ~Absent(n)
    BY <1>2, RegIs DEF IInv
  <2> QED
    BY <2>1, RegIs DEF IInv, Absent
<1>3. ReferencesHeld
  <2> SUFFICES ASSUME holder = NoProc, NEW n \in Names, Held(n) > 0
               PROVE  \E i \in Slots : Named(i, n) /\ regions[i].refcnt >= Held(n)
    BY DEF ReferencesHeld
  <2>1. Reg[n] \in Nat /\ Reg[n] > 0 /\ Reg[n] >= Held(n)
    BY <1>1, RegType
  <2> QED
    BY <1>2, <2>1
<1>4. RefcountExact
  <2> SUFFICES ASSUME holder = NoProc, exits = 0, NEW n \in Names
               PROVE  \/ Held(n) = 0 /\ Absent(n)
                      \/ Held(n) > 0 /\ \E i \in Slots : Named(i, n) /\ regions[i].refcnt = Held(n)
    BY DEF RefcountExact
  <2>1. Reg[n] = Held(n) /\ Held(n) \in Nat
    BY <1>1
  <2>2. CASE Held(n) = 0
    <3>1. ASSUME NEW i \in Slots, Named(i, n) PROVE FALSE
      <4>1. regions[i].valid /\ regions[i].refcnt = 0
        BY <2>1, <2>2, <3>1, RegIs DEF IInv, Named
      <4>2. PICK p \in Procs : pc[p] \in {"count", "retire"}
        BY <4>1 DEF RInv, Unused
      <4> QED
        BY <4>2, Facts DEF IInv, LockHeld, Critical
    <3> QED
      BY <2>2, <3>1 DEF Absent
  <2>3. CASE Held(n) > 0
    BY <1>2, <2>1, <2>3
  <2> QED
    BY <2>1, <2>2, <2>3
<1> QED
  BY <1>3, <1>4 DEF TableRight, IInv

\* However processes run, crash and finalize: names are unique in the table, a
\* region is not given up while a process has a reference to it, and until the
\* first exit the table has exactly the regions that are referenced, with the
\* number of their references (e_shm_alloc, e_shm_attach, e_shm_release).
THEOREM TableStaysRight == Spec => []TableRight
<1> QED
  BY RefsInvariance, RefsOfTable, PTL

-----------------------------------------------------------------------------
(***************************************************************************)
(* The registry: every step is one of AbsRegistry's, or changes nothing    *)
(* that it sees, until a process exits.                                    *)
(***************************************************************************)
\* What the registry sees of a call in progress.
LEMMA CallsAre ==
  ASSUME IInv, NEW p \in Procs
  PROVE  /\ At(p, "idle") => Calls[p] = Registry!Idle
         /\ pc[p] \in {"enter", "initlock", "inittable", "initheap", "initunlock", "alloc", "attach",
                       "release", "memman_alloc", "fill", "count"} =>
              Calls[p] = Registry!Pending(op[p].kind, op[p].name)
         /\ pc[p] \in {"retire", "memman_free", "coalesce", "unlock"} =>
              Calls[p] = [kind |-> op[p].kind, name |-> op[p].name, result |-> "ok"]
         /\ At(p, "fail") => Calls[p] = [kind |-> op[p].kind, name |-> op[p].name, result |-> "fail"]
BY DEF Calls, CallState, At, Registry!Idle, Registry!Pending

\* The same of the next state.
LEMMA CallsAreNext ==
  ASSUME IInv', NEW p \in Procs
  PROVE  /\ At(p, "idle")' => Calls'[p] = Registry!Idle
         /\ pc'[p] \in {"enter", "initlock", "inittable", "initheap", "initunlock", "alloc", "attach",
                        "release", "memman_alloc", "fill", "count"} =>
              Calls'[p] = Registry!Pending(op'[p].kind, op'[p].name)
         /\ pc'[p] \in {"retire", "memman_free", "coalesce", "unlock"} =>
              Calls'[p] = [kind |-> op'[p].kind, name |-> op'[p].name, result |-> "ok"]
         /\ At(p, "fail")' => Calls'[p] = [kind |-> op'[p].kind, name |-> op'[p].name, result |-> "fail"]
BY DEF Calls, CallState, At, Registry!Idle, Registry!Pending

\* A step of one process leaves the calls of the others.
LEMMA CallsStep ==
  ASSUME NEW p \in Procs, \A q \in Procs : q # p => pc'[q] = pc[q] /\ op'[q] = op[q]
  PROVE  /\ Calls' = [Calls EXCEPT ![p] = Calls'[p]]
         /\ Calls'[p] = Calls[p] => Calls' = Calls
<1>1. \A q \in Procs : q # p => Calls'[q] = Calls[q]
  BY DEF Calls, CallState, At
<1> QED
  BY <1>1 DEF Calls

\* A call starts.
LEMMA CallStarts ==
  ASSUME IInv, IInv', NEW p \in Procs, NEW kind \in Kinds, NEW n \in Names, NEW s \in Sizes,
         Call(p, kind, n, s)
  PROVE  Registry!Start(p, kind, n)
<1> USE DEF Call, Goto, At, tblvars
<1>1. pc'[p] = "enter" /\ op'[p].kind = kind /\ op'[p].name = n
  BY DEF IInv, TypeOK, NoOp
<1>2. Calls[p] = Registry!Idle /\ Calls'[p] = Registry!Pending(kind, n)
  BY <1>1, CallsAre, CallsAreNext
<1>3. Calls' = [Calls EXCEPT ![p] = Calls'[p]]
  BY CallsStep DEF IInv, TypeOK
<1> QED
  BY <1>2, <1>3, RegKept DEF Registry!Start

\* It succeeds at the step that changes the count of its name to k.
LEMMA CallSucceeds ==
  ASSUME IInv, IInv', NEW p \in Procs, NEW kind, NEW m \in Names, NEW k,
         pc[p] \in {"attach", "release", "count"}, pc'[p] \in {"unlock", "retire"},
         op[p].kind = kind, op[p].name = m, op'[p].kind = kind, op'[p].name = m,
         \A q \in Procs : q # p => pc'[q] = pc[q] /\ op'[q] = op[q],
         \A n \in Names : Reg'[n] = IF n = m THEN k ELSE Reg[n]
  PROVE  Registry!Succeed(p, kind, m, k)
<1>1. Calls[p] = Registry!Pending(kind, m)
  BY CallsAre
<1>2. Calls'[p] = [kind |-> kind, name |-> m, result |-> "ok"]
  BY CallsAreNext
<1>3. Calls'[p] = [Calls[p] EXCEPT !.result = "ok"]
  BY <1>1, <1>2 DEF Registry!Pending
<1>4. Calls' = [Calls EXCEPT ![p].result = "ok"]
  BY <1>3, CallsStep
<1>5. Reg' = [Reg EXCEPT ![m] = k]
  BY RegStep
<1> QED
  BY <1>1, <1>4, <1>5 DEF Registry!Succeed

\* e_shm_alloc takes effect when it counts its reference.
LEMMA CountAllocs ==
  ASSUME IInv, IInv', RInv, NEW p \in Procs, Count(p)
  PROVE  Registry!Alloc(p, op[p].name)
<1> DEFINE m == op[p].name
<1>1. m \in Names /\ Reg[m] = 0 /\ \A n \in Names : Reg'[n] = IF n = m THEN 1 ELSE Reg[n]
  <2>1. m \in Names
    BY DEF IInv, Busy, At, Count, Inside
  <2>2. Reg[m] = 0 /\ Reg' = [Reg EXCEPT ![m] = 1]
    BY CountRefs
  <2>3. Reg = [n \in Names |-> Reg[n]]
    BY DEF Reg
  <2> QED
    BY <2>1, <2>2, <2>3
<1>2. pc[p] = "count" /\ op[p].kind = "alloc" /\ op'[p].kind = "alloc" /\ op'[p].name = m
  BY DEF RInv, Phases, Count, Inside
<1>3. pc'[p] = "unlock" /\ \A q \in Procs : q # p => pc'[q] = pc[q] /\ op'[q] = op[q]
  BY DEF IInv, TypeOK, Count, Goto
<1>4. Registry!Succeed(p, "alloc", m, 1)
  <2> HIDE DEF m
  <2> QED
    BY <1>1, <1>2, <1>3, CallSucceeds DEF m
<1> QED
  BY <1>1, <1>4 DEF Registry!Alloc

\* e_shm_attach finds no region that is not referenced, as long as nobody exits.
LEMMA AttachAttaches ==
  ASSUME IInv, IInv', RInv, exits = 0, NEW p \in Procs, NEW i \in Slots, Attach(p, i)
  PROVE  Registry!Attach(p, op[p].name)
<1> DEFINE m == op[p].name
<1>1. /\ m \in Names /\ Reg[m] = regions[i].refcnt
      /\ \A n \in Names : Reg'[n] = IF n = m THEN Reg[m] + 1 ELSE Reg[n]
  <2>1. m \in Names
    BY DEF IInv, Busy, At, Attach, Inside
  <2>2. Reg[m] = regions[i].refcnt /\ Reg' = [Reg EXCEPT ![m] = Reg[m] + 1]
    BY AttachRefs
  <2>3. Reg = [n \in Names |-> Reg[n]]
    BY DEF Reg
  <2> QED
    BY <2>1, <2>2, <2>3
<1>2. pc[p] = "attach" /\ op[p].kind = "attach" /\ op'[p].kind = "attach" /\ op'[p].name = m
  BY DEF RInv, Phases, Attach, Inside, At
<1>3. pc'[p] = "unlock" /\ \A q \in Procs : q # p => pc'[q] = pc[q] /\ op'[q] = op[q]
  BY DEF IInv, TypeOK, Attach, Goto
<1>4. Reg[m] > 0
  <2>1. regions[i].refcnt # 0
    <3>1. \A q \in Procs : pc[q] \notin {"count", "retire"}
      BY DEF IInv, LockHeld, Critical, Attach, Inside
    <3> QED
      BY <3>1 DEF RInv, Unused, Found, Named, Attach
  <2> QED
    BY <1>1, <2>1, RegType
<1>5. Registry!Succeed(p, "attach", m, Reg[m] + 1)
  <2> HIDE DEF m
  <2> QED
    BY <1>1, <1>2, <1>3, CallSucceeds DEF m
<1> QED
  BY <1>4, <1>5 DEF Registry!Attach

\* e_shm_release takes effect when it decrements the count.
LEMMA ReleaseReleases ==
  ASSUME IInv, IInv', RInv, NEW p \in Procs, NEW i \in Slots,
         ReleaseShared(p, i) \/ ReleaseLast(p, i)
  PROVE  Registry!Release(p, op[p].name)
<1> DEFINE m == op[p].name
<1>1. /\ pc[p] = "release" /\ op[p].kind = "release" /\ m \in Names
      /\ op'[p].kind = "release" /\ op'[p].name = m /\ pc'[p] \in {"unlock", "retire"}
      /\ \A q \in Procs : q # p => pc'[q] = pc[q] /\ op'[q] = op[q]
  BY DEF RInv, Phases, IInv, TypeOK, Busy, At, Operation, ReleaseShared, ReleaseLast, Inside, Goto
<1>2. /\ Reg[m] > 0
      /\ \A n \in Names : Reg'[n] = IF n = m THEN Reg[m] - 1 ELSE Reg[n]
  <2>1. Reg[m] > 0 /\ Reg' = [Reg EXCEPT ![m] = Reg[m] - 1]
    BY ReleaseSharedRefs, ReleaseLastRefs
  <2>2. Reg = [n \in Names |-> Reg[n]]
    BY DEF Reg
  <2> QED
    BY <1>1, <2>1, <2>2
<1>3. Registry!Succeed(p, "release", m, Reg[m] - 1)
  <2> HIDE DEF m
  <2> QED
    BY <1>1, <1>2, CallSucceeds DEF m
<1> QED
  BY <1>2, <1>3 DEF Registry!Release

\* A call fails for want of memory or of a region, or because of its name.
LEMMA CallFails ==
  ASSUME IInv, IInv', RInv, NEW p \in Procs, AllocRefused(p) \/ AllocNoMem(p) \/ NotFound(p)
  PROVE  Registry!Fail(p, op[p].kind, op[p].name)
<1> USE DEF AllocRefused, AllocNoMem, NotFound, Goto, Inside, At
<1>1. /\ pc[p] \in {"alloc", "memman_alloc", "attach", "release"} /\ pc'[p] = "fail"
      /\ op' = op /\ regions' = regions
      /\ \A q \in Procs : q # p => pc'[q] = pc[q]
  BY DEF IInv, TypeOK, tblvars
<1>2. Calls[p] = Registry!Pending(op[p].kind, op[p].name)
  BY <1>1, CallsAre
<1>3. Calls'[p] = [kind |-> op[p].kind, name |-> op[p].name, result |-> "fail"]
  BY <1>1, CallsAreNext
<1>4. Calls' = [Calls EXCEPT ![p].result = "fail"]
  <2>1. Calls'[p] = [Calls[p] EXCEPT !.result = "fail"]
    BY <1>2, <1>3 DEF Registry!Pending
  <2> QED
    BY <1>1, <2>1, CallsStep
<1>5. op[p].kind # "alloc" => Reg[op[p].name] = 0
  <2>1. op[p].name \in Names
    BY <1>1 DEF IInv, Busy
  <2>2. op[p].kind # "alloc" => NotFound(p)
    BY DEF RInv, Phases
  <2>3. NotFound(p) => Absent(op[p].name)
    BY DEF RInv, Unused, Sane, Absent, Named
  <2> QED
    BY <2>1, <2>2, <2>3, RegIs DEF IInv
<1> QED
  BY <1>1, <1>2, <1>4, <1>5, RegKept DEF Registry!Fail

\* e_shm_init could not map the memory.
LEMMA CallUnavailable ==
  ASSUME IInv, IInv', NEW p \in Procs, MapFails(p)
  PROVE  Registry!Unavailable(p, op[p].kind, op[p].name)
<1> USE DEF MapFails, Goto, At, tblvars
<1>1. pc'[p] = "idle" /\ \A q \in Procs : q # p => pc'[q] = pc[q]
  BY DEF IInv, TypeOK
<1>2. Calls[p] = Registry!Pending(op[p].kind, op[p].name) /\ Calls'[p] = Registry!Idle
  BY <1>1, CallsAre, CallsAreNext
<1>3. Calls' = [Calls EXCEPT ![p] = Calls'[p]]
  BY <1>1, CallsStep
<1> QED
  BY <1>2, <1>3, RegKept DEF Registry!Unavailable

\* A call that has taken effect, or failed, returns.
LEMMA CallReturns ==
  ASSUME IInv, IInv', NEW p \in Procs, Unlock(p) \/ UnlockFailed(p)
  PROVE  Registry!Return(p)
<1> USE DEF Unlock, UnlockFailed, Goto, At, tblvars
<1>1. /\ pc'[p] = "idle" /\ op' = op /\ regions' = regions
      /\ \A q \in Procs : q # p => pc'[q] = pc[q]
  BY DEF IInv, TypeOK
<1>2. op[p].kind \in Kinds
  BY DEF IInv, Busy
<1>3. Calls'[p] = Registry!Idle /\ Calls' = [Calls EXCEPT ![p] = Calls'[p]]
  BY <1>1, CallsAreNext, CallsStep
<1>4. PICK r \in {"ok", "fail"} : Calls[p] = [kind |-> op[p].kind, name |-> op[p].name, result |-> r]
  BY CallsAre
<1>5. Calls[p] # Registry!Idle /\ Calls[p].result # "pending"
  <2>1. Calls[p].kind # Registry!Idle.kind
    BY <1>2, <1>4 DEF Kinds, Registry!Idle
  <2> QED
    BY <1>4, <2>1
<1> QED
  BY <1>1, <1>3, <1>5, RegKept DEF Registry!Return

\* The steps the registry does not see: e_shm_init, the lock, the calls of memman.
LEMMA Unseen ==
  ASSUME IInv, IInv', RInv, NEW p \in Procs,
         \/ \E b \in Bases : Map(p, b)
         \/ InitLock(p) \/ InitTable(p) \/ InitHeap(p) \/ InitUnlock(p) \/ Lock(p)
         \/ \E i \in Slots : AllocRegion(p, i)
         \/ AllocWalk(p) \/ AllocTaken(p) \/ Fill(p)
         \/ Retire(p) \/ FreeChunk(p) \/ FreeStray(p) \/ Coalesce(p) \/ Coalesced(p)
  PROVE  UNCHANGED <<Reg, Calls>>
<1>1. Reg' = Reg
  <2>1. regions' = regions \/ InitTable(p) \/ (\E i \in Slots : AllocRegion(p, i)) \/ Fill(p) \/ Retire(p)
    BY DEF Map, InitLock, InitHeap, InitUnlock, Lock, AllocWalk, AllocTaken, FreeChunk, FreeStray,
       Coalesce, Coalesced, tblvars
  <2> QED
    BY <2>1, RegKept, InitTableRefs, AllocRegionRefs, FillRefs, RetireRefs
<1>2. Calls'[p] = Calls[p] /\ \A q \in Procs : q # p => pc'[q] = pc[q] /\ op'[q] = op[q]
  <2> DEFINE before == {"enter", "initlock", "inittable", "initheap", "initunlock", "alloc", "attach",
                        "release", "memman_alloc", "fill", "count"}
             after == {"retire", "memman_free", "coalesce", "unlock"}
             Keeps == /\ op'[p].kind = op[p].kind /\ op'[p].name = op[p].name
                      /\ \A q \in Procs : q # p => pc'[q] = pc[q] /\ op'[q] = op[q]
  <2> USE DEF Goto, At, Inside, IInv, TypeOK
  <2>1. CASE \E b \in Bases : Map(p, b)
    <3>1. Keeps /\ pc[p] \in before /\ pc'[p] \in before
      BY <2>1 DEF Map
    <3> QED
      BY <3>1, CallsAre, CallsAreNext, ZenonT(60)
  <2>2. CASE InitLock(p) \/ InitTable(p) \/ InitHeap(p) \/ InitUnlock(p)
    <3>1. Keeps /\ pc[p] \in before /\ pc'[p] \in before
      BY <2>2 DEF InitLock, InitTable, InitHeap, InitUnlock
    <3> QED
      BY <3>1, CallsAre, CallsAreNext
  <2>3. CASE Lock(p)
    <3>1. op[p].kind \in Kinds
      BY <2>3 DEF Lock, Busy
    <3>2. Keeps /\ pc[p] \in before /\ pc'[p] \in before
      BY <2>3, <3>1 DEF Lock, Kinds
    <3> QED
      BY <3>2, CallsAre, CallsAreNext, ZenonT(60)
  <2>4. CASE \E i \in Slots : AllocRegion(p, i)
    <3>1. Keeps /\ pc[p] \in before /\ pc'[p] \in before
      BY <2>4 DEF AllocRegion, Operation
    <3> QED
      BY <3>1, CallsAre, CallsAreNext
  <2>5. CASE AllocWalk(p) \/ AllocTaken(p) \/ Fill(p)
    <3>1. Keeps /\ pc[p] \in before /\ pc'[p] \in before
      BY <2>5 DEF AllocWalk, AllocTaken, Fill, Operation
    <3> QED
      BY <3>1, CallsAre, CallsAreNext
  <2>6. CASE Retire(p) \/ FreeChunk(p) \/ FreeStray(p) \/ Coalesce(p) \/ Coalesced(p)
    <3>1. Keeps /\ pc[p] \in after /\ pc'[p] \in after
      BY <2>6 DEF Retire, FreeChunk, FreeStray, Coalesce, Coalesced
    <3> QED
      BY <3>1, CallsAre, CallsAreNext, ZenonT(60)
  <2> QED
    BY <2>1, <2>2, <2>3, <2>4, <2>5, <2>6
<1> QED
  BY <1>1, <1>2, CallsStep

\* Every step of the manager is a step of the registry, or none of its business,
\* until a process exits.
LEMMA StepImplements ==
  IInv /\ IInv' /\ RInv /\ [Next]_vars => [exits' > 0 \/ Registry!Next]_<<Reg, Calls>>
<1> SUFFICES ASSUME IInv, IInv', RInv, [Next]_vars
             PROVE  exits' > 0 \/ Registry!Next \/ UNCHANGED <<Reg, Calls>>
  OBVIOUS
<1>0. exits \in Nat /\ \A p \in Procs : mapped[p] = Gone => exits > 0
  BY DEF IInv, TypeOK, RInv, Bounded
<1> DEFINE Seen == exits' > 0 \/ Registry!Next \/ UNCHANGED <<Reg, Calls>>
<1>1. ASSUME NEW p \in Procs, InitLock(p) \/ Lock(p) PROVE Seen
  BY <1>1, Unseen
<1>2. ASSUME NEW p \in Procs, Step(p) PROVE Seen
  <2> (op[p].kind \in {"alloc", "attach", "release"} /\ op[p].name \in Names) \/ At(p, "idle")
    BY DEF IInv, Busy, Kinds
  <2>1. CASE \E i \in Slots : Attach(p, i)
    <3>1. PICK i \in Slots : Attach(p, i)
      BY <2>1
    <3>2. exits' = exits /\ ~At(p, "idle")
      BY <3>1 DEF Attach, Inside, At
    <3>3. CASE exits = 0
      BY <3>1, <3>2, <3>3, AttachAttaches DEF Registry!Next
    <3> QED
      BY <1>0, <3>2, <3>3
  <2>2. CASE \E i \in Slots : ReleaseShared(p, i) \/ ReleaseLast(p, i)
    <3>1. ~At(p, "idle")
      BY <2>2 DEF ReleaseShared, ReleaseLast, Inside, At
    <3> QED
      BY <2>2, <3>1, ReleaseReleases DEF Registry!Next
  <2>3. CASE Count(p)
    <3>1. ~At(p, "idle")
      BY <2>3 DEF Count, Inside, At
    <3> QED
      BY <2>3, <3>1, CountAllocs DEF Registry!Next
  <2>4. CASE AllocRefused(p) \/ AllocNoMem(p) \/ NotFound(p)
    <3>1. ~At(p, "idle")
      BY <2>4 DEF AllocRefused, AllocNoMem, NotFound, Inside, At
    <3> QED
      BY <2>4, <3>1, CallFails DEF Registry!Next
  <2>5. CASE MapFails(p)
    <3>1. ~At(p, "idle")
      BY <2>5 DEF MapFails, At
    <3> QED
      BY <2>5, <3>1, CallUnavailable DEF Registry!Next
  <2>6. CASE Unlock(p) \/ UnlockFailed(p)
    BY <2>6, CallReturns DEF Registry!Next
  <2>7. CASE Fault(p) \/ FreeFault(p)
    BY <1>0, <2>7 DEF Fault, FreeFault
  <2> QED
    BY <1>2, <2>1, <2>2, <2>3, <2>4, <2>5, <2>6, <2>7, Unseen DEF Step
<1>3. ASSUME NEW p \in Procs, NEW kind \in Kinds, NEW n \in Names, NEW s \in Sizes,
             Call(p, kind, n, s)
      PROVE  Seen
  BY <1>3, CallStarts DEF Registry!Next, Kinds
<1>4. ASSUME NEW p \in Procs, Crash(p) \/ Finalize(p) PROVE Seen
  BY <1>0, <1>4 DEF Crash, Finalize
<1>5. CASE UserWrite
  BY <1>5, RegKept DEF UserWrite, tblvars, Calls, CallState, At
<1>6. CASE UNCHANGED vars
  BY <1>6, RegKept DEF vars, Calls, CallState, At
<1> QED
  BY <1>1, <1>2, <1>3, <1>4, <1>5, <1>6 DEF Next

\* At the start there is no region and no call.
LEMMA InitImplements == Init => Registry!Init
<1> SUFFICES ASSUME Init PROVE Registry!Init
  OBVIOUS
<1>1. Reg = [n \in Names |-> 0]
  BY DEF Init, Reg, Absent, Named, Free
<1>2. Calls = [p \in Procs |-> Registry!Idle]
  BY DEF Init, Calls, CallState, At, Registry!Idle
<1> QED
  BY <1>1, <1>2 DEF Registry!Init

\* The manager implements the registry of AbsRegistry until the first process
\* exits: e_shm_alloc, e_shm_attach and e_shm_release of any number of processes
\* take effect at one moment each, and succeed or fail as the API says.
THEOREM Refinement == Spec => ImplementsRegistry
<1> QED
  BY RefsInvariance, InitImplements, StepImplements, PTL DEF Spec, ImplementsRegistry
-----------------------------------------------------------------------------
(***************************************************************************)
(* The heap under the table, when all requests have one size.              *)
(***************************************************************************)
\* One size, and a heap of whole chunks of it.
LEMMA UniformFacts ==
  ASSUME UniformSizes
  PROVE  /\ ChunkLen \in Nat /\ ChunkLen >= 2 /\ ChunkCount \in Nat \ {0}
         /\ HeapLen = ChunkCount * ChunkLen /\ Sizes = {ChunkLen - 1}
<1>1. PICK s \in Nat \ {0} : Sizes = {s} /\ HeapLen % (s + 1) = 0
  BY Facts DEF UniformSizes
<1>2. ChunkLen = s + 1
  BY <1>1 DEF ChunkLen
<1>3. PICK b, h, k : b = s + 1 /\ h = HeapLen /\ k = h \div b
  OBVIOUS
<1>4. b \in Nat /\ b >= 2 /\ h \in Nat /\ h > 0 /\ h % b = 0
  BY <1>1, <1>3, Facts
<1>5. k \in Nat \ {0} /\ h = k * b
  <2>1. h = (h \div b) * b + (h % b) /\ h \div b \in Nat
    BY <1>4, Z3
  <2>2. k \in Nat /\ h = k * b
    BY <1>3, <1>4, <2>1
  <2>3. k # 0
    BY <1>4, <2>2
  <2>. QED
    BY <2>2, <2>3
<1>. QED
  BY <1>1, <1>2, <1>3, <1>4, <1>5 DEF ChunkCount

\* Multiples of the chunk length are a chunk length apart.
LEMMA Multiples ==
  ASSUME NEW B \in Nat, NEW j \in Nat, NEW k \in Nat, j < k
  PROVE  j * B + B <= k * B
<1> DEFINE d == k - (j + 1)
<1>1. d \in Nat /\ k = j + 1 + d
  OBVIOUS
<1>2. d * B \in Nat
  BY <1>1
<1>3. k * B = j * B + B + d * B
  BY <1>1
<1> QED
  BY <1>2, <1>3

\* Slots lie in the heap, tile it and do not overlap.
LEMMA ChunkSlots ==
  ASSUME UniformSizes
  PROVE
  /\ ChunkLen \in Nat /\ ChunkLen >= 2 /\ HeapLen \in Nat /\ HeapLen > 0
  /\ 0 \in MM!Slots
  /\ \A s \in MM!Slots : s \in Nat /\ s \in MM!Cells /\ s + ChunkLen <= HeapLen
  /\ \A s \in MM!Slots : s + ChunkLen \in MM!Slots \cup {HeapLen}
  /\ \A s, t \in MM!Slots : s = t \/ s + ChunkLen <= t \/ t + ChunkLen <= s
<1>1. ChunkLen \in Nat /\ ChunkLen >= 2 /\ HeapLen \in Nat /\ HeapLen > 0
  BY UniformFacts, Facts
<1>2. 0 \in MM!Slots
  <2>1. 0 = 0 * ChunkLen /\ 0 \in 0 .. ChunkCount - 1
    BY <1>1, UniformFacts
  <2> QED
    BY <2>1 DEF MM!Slots
<1>3. ASSUME NEW s \in MM!Slots
      PROVE  /\ s \in Nat /\ s \in MM!Cells /\ s + ChunkLen <= HeapLen
             /\ s + ChunkLen \in MM!Slots \cup {HeapLen}
  <2>1. PICK k \in 0 .. ChunkCount - 1 : s = k * ChunkLen
    BY DEF MM!Slots
  <2>2. s \in Nat
    BY <1>1, <2>1
  <2>3. k * ChunkLen + ChunkLen <= ChunkCount * ChunkLen
    BY <1>1, UniformFacts, Multiples
  <2>4. s + ChunkLen = (k + 1) * ChunkLen
    BY <1>1, <2>1
  <2>5. k + 1 \in 0 .. ChunkCount - 1 \/ k + 1 = ChunkCount
    BY UniformFacts
  <2>6. s + ChunkLen \in MM!Slots \cup {HeapLen}
    BY <2>4, <2>5, UniformFacts DEF MM!Slots
  <2> QED
    BY <1>1, <2>1, <2>2, <2>3, <2>6, UniformFacts DEF MM!Cells
<1>4. ASSUME NEW s \in MM!Slots, NEW t \in MM!Slots
      PROVE  s = t \/ s + ChunkLen <= t \/ t + ChunkLen <= s
  <2>1. PICK j \in 0 .. ChunkCount - 1 : s = j * ChunkLen
    BY DEF MM!Slots
  <2>2. PICK k \in 0 .. ChunkCount - 1 : t = k * ChunkLen
    BY DEF MM!Slots
  <2>3. j = k \/ j < k \/ k < j
    BY UniformFacts
  <2> QED
    BY <1>1, <2>1, <2>2, <2>3, UniformFacts, Multiples
<1> QED
  BY <1>1, <1>2, <1>3, <1>4

\* A live chunk is the slot it starts at, and its control block says so.
LEMMA LiveIsSlot ==
  ASSUME UniformSizes, MM!IInv, NEW b \in live
  PROVE  /\ b.at \in MM!Slots /\ b.len = ChunkLen
         /\ b = [at |-> b.at, len |-> ChunkLen]
         /\ heap[b.at].is_inuse = 1 /\ heap[b.at].size = ChunkLen
<1>1. b.at \in MM!Slots /\ b.len = ChunkLen
  BY DEF MM!IInv, MM!LiveSlots
<1>2. b = [at |-> b.at, len |-> ChunkLen]
  BY <1>1 DEF MM!IInv, MM!TypeOK
<1>3. heap[b.at].is_inuse = 1
  BY <1>1, <1>2 DEF MM!IInv, MM!LiveSlots
<1> QED
  BY <1>1, <1>2, <1>3 DEF MM!IInv, MM!SlotHeads

\* Writing one field of a control block.
LEMMA WordUpdate ==
  ASSUME NEW w \in MM!Word, NEW n \in Nat
  PROVE  /\ [w EXCEPT !.is_inuse = 0] = [is_inuse |-> 0, size |-> w.size]
         /\ [w EXCEPT !.size = n] = [is_inuse |-> w.is_inuse, size |-> n]
  BY DEF MM!Word

\* Every step of memman keeps its invariant, as module MemmanUniform_proofs shows of memman alone.
LEMMA MemmanStep ==
  ASSUME UniformSizes, MM!IInv, [MM!Next]_mmvars
  PROVE  MM!IInv'
<1> USE ChunkSlots
<1>1. ASSUME NEW n \in Sizes, MM!AllocBegin(n) PROVE MM!IInv'
  <2>1. n + 1 = ChunkLen
    BY UniformFacts
  <2>2. MM!TypeOK'
    BY <1>1, <2>1 DEF MM!IInv, MM!TypeOK, MM!AllocBegin, MM!NoCall, MM!Cells
  <2>3. MM!SlotHeads' /\ MM!LiveSlots'
    BY <1>1 DEF MM!IInv, MM!SlotHeads, MM!LiveSlots, MM!AllocBegin
  <2>4. MM!Walk' /\ MM!Merging'
    BY <1>1, <2>1 DEF MM!Walk, MM!Merging, MM!AllocBegin, MM!NoCall
  <2> QED
    BY <2>2, <2>3, <2>4 DEF MM!IInv
<1>2. CASE MM!AllocAdvance
  <2>1. call.cur \in MM!Slots /\ call.size = ChunkLen /\ call.op = "alloc"
    BY <1>2 DEF MM!AllocAdvance, MM!IInv, MM!TypeOK, MM!Walk
  <2>2. heap[call.cur].is_inuse = 1 /\ heap[call.cur].size = ChunkLen
    <3>1. heap[call.cur].is_inuse \in {0, 1}
      BY <2>1 DEF MM!IInv, MM!TypeOK, MM!Word
    <3> QED
      BY <1>2, <2>1, <3>1 DEF MM!AllocAdvance, MM!Suits, MM!IInv, MM!SlotHeads
  <2>3. call' = [call EXCEPT !.cur = call.cur + ChunkLen] /\ UNCHANGED <<heap, live>>
    BY <1>2, <2>2 DEF MM!AllocAdvance
  <2>4. MM!TypeOK'
    BY <2>1, <2>3 DEF MM!IInv, MM!TypeOK
  <2>5. MM!SlotHeads' /\ MM!LiveSlots'
    BY <2>3 DEF MM!IInv, MM!SlotHeads, MM!LiveSlots
  <2>6. MM!Walk'
    <3>1. call'.cur = call.cur + ChunkLen /\ call'.size = call.size
      BY <2>3 DEF MM!IInv, MM!TypeOK
    <3> QED
      BY <2>1, <2>2, <2>3, <3>1 DEF MM!IInv, MM!Walk
  <2>7. MM!Merging'
    BY <2>1, <2>3 DEF MM!Merging, MM!IInv, MM!TypeOK
  <2> QED
    BY <2>4, <2>5, <2>6, <2>7 DEF MM!IInv
<1>3. CASE MM!AllocTake
  <2>1. call.cur \in MM!Slots /\ call.size = ChunkLen /\ call.op = "alloc"
    BY <1>3 DEF MM!AllocTake, MM!IInv, MM!TypeOK, MM!Walk
  <2>2. /\ heap' = [heap EXCEPT ![call.cur] = [is_inuse |-> 1, size |-> ChunkLen]]
        /\ live' = live \cup {[at |-> call.cur, len |-> ChunkLen]}
        /\ call' = MM!NoCall
    BY <1>3, <2>1 DEF MM!AllocTake
  <2>3. MM!TypeOK'
    BY <2>1, <2>2 DEF MM!IInv, MM!TypeOK, MM!Word, MM!NoCall, MM!Cells
  <2>4. MM!SlotHeads'
    BY <2>1, <2>2 DEF MM!IInv, MM!TypeOK, MM!SlotHeads
  <2>5. MM!LiveSlots'
    BY <2>1, <2>2 DEF MM!IInv, MM!TypeOK, MM!LiveSlots
  <2>6. MM!Walk' /\ MM!Merging'
    BY <2>2 DEF MM!Walk, MM!Merging, MM!NoCall
  <2> QED
    BY <2>3, <2>4, <2>5, <2>6 DEF MM!IInv
<1>4. CASE MM!AllocFail
  <2>1. MM!TypeOK'
    BY <1>4 DEF MM!IInv, MM!TypeOK, MM!AllocFail, MM!NoCall, MM!Cells
  <2>2. MM!SlotHeads' /\ MM!LiveSlots'
    BY <1>4 DEF MM!IInv, MM!SlotHeads, MM!LiveSlots, MM!AllocFail
  <2>3. MM!Walk' /\ MM!Merging'
    BY <1>4 DEF MM!Walk, MM!Merging, MM!AllocFail, MM!NoCall
  <2> QED
    BY <2>1, <2>2, <2>3 DEF MM!IInv
<1>5. ASSUME NEW b \in live, MM!FreeBegin(b) PROVE MM!IInv'
  <2>1. /\ b.at \in MM!Slots /\ b = [at |-> b.at, len |-> ChunkLen]
        /\ heap[b.at].size = ChunkLen
    BY LiveIsSlot
  <2>2. /\ heap' = [heap EXCEPT ![b.at].is_inuse = 0]
        /\ live' = live \ {b}
        /\ call' = [MM!NoCall EXCEPT !.op = "coalesce", !.at = b.at, !.cur = b.at]
    BY <1>5 DEF MM!FreeBegin
  <2>3. heap' = [heap EXCEPT ![b.at] = [is_inuse |-> 0, size |-> ChunkLen]]
    <3>1. heap[b.at] \in MM!Word
      BY <2>1 DEF MM!IInv, MM!TypeOK
    <3> QED
      BY <2>1, <2>2, <3>1, WordUpdate
  <2>4. MM!TypeOK'
    <3>1. (heap \in [MM!Cells -> MM!Word])'
      BY <2>1, <2>3 DEF MM!IInv, MM!TypeOK, MM!Word
    <3>2. call' = [op |-> "coalesce", size |-> 0, at |-> b.at, cur |-> b.at, sum |-> 0]
      BY <2>2 DEF MM!NoCall
    <3> QED
      BY <2>1, <2>2, <3>1, <3>2 DEF MM!IInv, MM!TypeOK
  <2>5. MM!SlotHeads'
    BY <2>1, <2>3 DEF MM!IInv, MM!TypeOK, MM!SlotHeads
  <2>6. MM!LiveSlots'
    BY <2>1, <2>2, <2>3 DEF MM!IInv, MM!TypeOK, MM!LiveSlots
  <2>7. MM!Walk' /\ MM!Merging'
    BY <2>1, <2>2, <2>3 DEF MM!IInv, MM!TypeOK, MM!Walk, MM!Merging, MM!NoCall
  <2> QED
    BY <2>4, <2>5, <2>6, <2>7 DEF MM!IInv
<1>6. CASE MM!CoalesceAdd
  <2>1. PICK w \in Junk \cup {heap[i] : i \in MM!Cells} :
          /\ MM!ReadAt(call.cur, w) /\ ~MM!StopsCoalesce(w)
          /\ call' = [call EXCEPT !.sum = call.sum + w.size, !.cur = call.cur + w.size]
    BY <1>6 DEF MM!CoalesceAdd, MM!IInv, MM!TypeOK
  <2>2. call.op = "coalesce" /\ UNCHANGED <<heap, live>>
    BY <1>6 DEF MM!CoalesceAdd
  <2>3. w \in MM!Word
    BY Facts DEF MM!IInv, MM!TypeOK
  <2>4. MM!TypeOK'
    <3>1. w.size \in Nat
      BY <2>3 DEF MM!Word
    <3>2. call.sum + w.size \in Nat /\ call.cur + w.size \in Nat
      BY <3>1 DEF MM!IInv, MM!TypeOK
    <3>3. call' \in [op : {"none", "alloc", "coalesce", "fault"},
                    size : Nat, at : MM!Cells, cur : Nat, sum : Nat]
      BY <2>1, <3>2 DEF MM!IInv, MM!TypeOK
    <3> QED
      BY <2>2, <3>3 DEF MM!IInv, MM!TypeOK
  <2>5. MM!SlotHeads' /\ MM!LiveSlots'
    BY <2>2 DEF MM!IInv, MM!SlotHeads, MM!LiveSlots
  <2>6. MM!Walk'
    BY <2>1, <2>2 DEF MM!Walk, MM!IInv, MM!TypeOK
  <2>7. MM!Merging'
    <3>1. call'.at = call.at /\ call'.sum = call.sum + w.size /\ w.size \in Nat
      BY <2>1, <2>3 DEF MM!IInv, MM!TypeOK, MM!Word
    <3>2. CASE call.sum >= ChunkLen
      BY <2>2, <3>1, <3>2 DEF MM!IInv, MM!TypeOK, MM!Merging
    <3>3. CASE call.cur = call.at /\ call.sum = 0 /\ heap[call.at].size >= ChunkLen
      <4>1. call.at \in MM!Slots /\ heap[call.at].is_inuse = 0
        BY <2>2 DEF MM!IInv, MM!Merging
      <4>2. w = heap[call.at]
        BY <2>1, <3>3, <4>1 DEF MM!ReadAt, MM!Cells
      <4> QED
        BY <2>2, <3>1, <3>3, <4>1, <4>2 DEF MM!Merging
    <3> QED
      BY <2>2, <3>2, <3>3 DEF MM!IInv, MM!Merging
  <2> QED
    BY <2>4, <2>5, <2>6, <2>7 DEF MM!IInv
<1>7. CASE MM!CoalesceEnd
  <2>1. PICK w \in Junk \cup {heap[i] : i \in MM!Cells} :
          MM!ReadAt(call.cur, w) /\ MM!StopsCoalesce(w)
    BY <1>7 DEF MM!CoalesceEnd
  <2>2. /\ call.op = "coalesce" /\ call' = MM!NoCall /\ UNCHANGED live
        /\ heap' = [heap EXCEPT ![call.at].size = call.sum]
    BY <1>7 DEF MM!CoalesceEnd
  <2>3. call.at \in MM!Slots /\ heap[call.at].is_inuse = 0 /\ call.sum \in Nat
    BY <2>2 DEF MM!IInv, MM!Merging, MM!TypeOK
  <2>4. call.sum >= ChunkLen
    <3>1. CASE call.cur = call.at /\ heap[call.at].size >= ChunkLen
      <4>1. w = heap[call.at]
        BY <2>1, <2>3, <3>1 DEF MM!ReadAt, MM!Cells
      <4> QED
        BY <2>1, <2>3, <3>1, <4>1 DEF MM!StopsCoalesce
    <3> QED
      BY <2>2, <3>1 DEF MM!IInv, MM!Merging
  <2>5. heap' = [heap EXCEPT ![call.at] = [is_inuse |-> 0, size |-> call.sum]]
    <3>1. heap[call.at] \in MM!Word
      BY <2>3 DEF MM!IInv, MM!TypeOK
    <3> QED
      BY <2>2, <2>3, <3>1, WordUpdate
  <2>6. MM!TypeOK'
    <3>1. [is_inuse |-> 0, size |-> call.sum] \in MM!Word
      BY <2>3 DEF MM!Word
    <3>2. heap' \in [MM!Cells -> MM!Word]
      BY <2>5, <3>1 DEF MM!IInv, MM!TypeOK
    <3>3. 0 \in MM!Cells
      BY Facts DEF MM!Cells
    <3> QED
      BY <2>2, <3>2, <3>3 DEF MM!IInv, MM!TypeOK, MM!NoCall
  <2>7. MM!SlotHeads'
    BY <2>3, <2>4, <2>5 DEF MM!IInv, MM!TypeOK, MM!SlotHeads
  <2>8. MM!LiveSlots'
    BY <2>2, <2>3, <2>5 DEF MM!IInv, MM!TypeOK, MM!LiveSlots
  <2>9. MM!Walk' /\ MM!Merging'
    BY <2>2 DEF MM!Walk, MM!Merging, MM!NoCall
  <2> QED
    BY <2>6, <2>7, <2>8, <2>9 DEF MM!IInv
<1>8. CASE MM!CoalesceFault
  <2>1. MM!TypeOK'
    BY <1>8 DEF MM!IInv, MM!TypeOK, MM!CoalesceFault
  <2>2. MM!SlotHeads' /\ MM!LiveSlots'
    BY <1>8 DEF MM!IInv, MM!SlotHeads, MM!LiveSlots, MM!CoalesceFault
  <2>3. MM!Walk' /\ MM!Merging'
    BY <1>8 DEF MM!Walk, MM!Merging, MM!CoalesceFault, MM!IInv, MM!TypeOK
  <2> QED
    BY <2>1, <2>2, <2>3 DEF MM!IInv
<1>9. ASSUME NEW b \in live, NEW i \in MM!Cells, NEW w \in Junk, MM!UserWrite(b, i, w)
      PROVE  MM!IInv'
  <2>1. b.at \in MM!Slots /\ b.len = ChunkLen
    BY LiveIsSlot
  <2>2. i \notin MM!Slots
    BY <1>9, <2>1 DEF MM!UserWrite
  <2>3. heap' = [heap EXCEPT ![i] = w] /\ w \in MM!Word /\ UNCHANGED <<live, call>>
    BY <1>9, Facts DEF MM!UserWrite
  <2>4. MM!TypeOK'
    BY <2>3 DEF MM!IInv, MM!TypeOK
  <2>5. \A s \in MM!Slots : heap'[s] = heap[s]
    BY <2>2, <2>3 DEF MM!IInv, MM!TypeOK
  <2>6. MM!SlotHeads' /\ MM!LiveSlots'
    BY <2>3, <2>5 DEF MM!IInv, MM!SlotHeads, MM!LiveSlots
  <2>7. MM!Walk' /\ MM!Merging'
    BY <2>3, <2>5 DEF MM!IInv, MM!Walk, MM!Merging
  <2> QED
    BY <2>4, <2>6, <2>7 DEF MM!IInv
<1>10. CASE UNCHANGED mmvars
  BY <1>10 DEF mmvars, MM!IInv, MM!TypeOK, MM!SlotHeads, MM!LiveSlots, MM!Walk, MM!Merging
<1> QED
  BY <1>1, <1>2, <1>3, <1>4, <1>5, <1>6, <1>7, <1>8, <1>9, <1>10 DEF MM!Next, MM!CallStep

\* Only one process is in a critical section.
LEMMA Exclusive ==
  ASSUME IInv, NEW p \in Procs, NEW q \in Procs, pc[p] \in Critical, pc[q] \in Critical
  PROVE  q = p
  BY DEF IInv, LockHeld

\* What keeps the chunks with their regions: a step of process p that hands out and frees none.
LEMMA HeapFrame ==
  ASSUME OwnChunks, NEW p \in Procs, MM!IInv', MemmanCalls', live' = live,
         \A q \in Procs \ {p} : pc'[q] = pc[q] /\ op'[q] = op[q],
         \A i \in Slots : regions'[i].valid =>
            regions[i].valid /\ regions'[i].at = regions[i].at /\ regions'[i].len = regions[i].len,
         \A q \in Procs \ {p} : pc[q] = "memman_free" => regions'[op[q].slot] = regions[op[q].slot],
         pc'[p] \notin {"fill", "memman_free"}
  PROVE  HeapInv'
<1>1. ASSUME NEW i \in Slots, regions'[i].valid PROVE ChunkOf(regions'[i]) \in live'
  BY <1>1 DEF OwnChunks, ChunkOf
<1>2. ASSUME NEW i \in Slots, NEW j \in Slots, regions'[i].valid, regions'[j].valid, i # j
      PROVE  regions'[i].at # regions'[j].at
  BY <1>2 DEF OwnChunks
<1>3. ASSUME NEW q \in Procs, pc'[q] = "fill"
      PROVE  ChunkTaken(q)' \in live' /\ \A i \in Slots : regions'[i].valid => regions'[i].at # op'[q].at
  <2>1. q # p /\ pc[q] = "fill" /\ op'[q] = op[q]
    BY <1>3
  <2>2. ChunkTaken(q) \in live /\ \A i \in Slots : regions[i].valid => regions[i].at # op[q].at
    BY <2>1 DEF OwnChunks, At
  <2>3. ChunkTaken(q)' = ChunkTaken(q)
    BY <2>1 DEF ChunkTaken
  <2>. QED
    BY <2>1, <2>2, <2>3
<1>4. ASSUME NEW q \in Procs, pc'[q] = "memman_free"
      PROVE  /\ ~regions'[op'[q].slot].valid /\ ChunkOf(regions'[op'[q].slot]) \in live'
             /\ \A i \in Slots : regions'[i].valid => regions'[i].at # regions'[op'[q].slot].at
  <2>1. q # p /\ pc[q] = "memman_free" /\ op'[q] = op[q] /\ regions'[op[q].slot] = regions[op[q].slot]
    BY <1>4
  <2>2. /\ ~regions[op[q].slot].valid /\ ChunkOf(regions[op[q].slot]) \in live
        /\ \A i \in Slots : regions[i].valid => regions[i].at # regions[op[q].slot].at
    BY <2>1 DEF OwnChunks, At
  <2>. QED
    BY <2>1, <2>2 DEF ChunkOf
<1>5. OwnChunks'
  BY <1>1, <1>2, <1>3, <1>4 DEF OwnChunks, At
<1>. QED
  BY <1>5 DEF HeapInv

\* A process enters and leaves no call of memman.
LEMMA CallsFrame ==
  ASSUME MemmanCalls, NEW p \in Procs, call' = call,
         \A q \in Procs \ {p} : pc'[q] = pc[q],
         pc[p] \notin {"memman_alloc", "coalesce"}, pc'[p] \notin {"memman_alloc", "coalesce"}
  PROVE  MemmanCalls'
<1>1. \A q \in Procs : /\ pc'[q] = "memman_alloc" => pc[q] = "memman_alloc"
                       /\ pc'[q] = "coalesce" => pc[q] = "coalesce"
                       /\ pc[q] \in {"memman_alloc", "coalesce"} => pc'[q] = pc[q]
  OBVIOUS
<1>. QED
  BY <1>1 DEF MemmanCalls, At

\* The steps that leave memman, its heap and the chunks alone.
LEMMA HeapQuiet ==
  ASSUME UniformSizes, HeapInv, NEW p \in Procs, UNCHANGED mmvars,
         \A q \in Procs \ {p} : pc'[q] = pc[q] /\ op'[q] = op[q],
         \A i \in Slots : regions'[i].valid =>
            regions[i].valid /\ regions'[i].at = regions[i].at /\ regions'[i].len = regions[i].len,
         \A q \in Procs \ {p} : pc[q] = "memman_free" => regions'[op[q].slot] = regions[op[q].slot],
         pc[p] \notin {"memman_alloc", "coalesce"},
         pc'[p] \notin {"fill", "memman_free", "memman_alloc", "coalesce"}
  PROVE  HeapInv'
<1>1. MM!IInv'
  BY MemmanStep DEF HeapInv
<1>2. MemmanCalls /\ OwnChunks /\ call' = call /\ live' = live
  BY DEF HeapInv, mmvars
<1>3. MemmanCalls'
  BY <1>2, CallsFrame
<1>. QED
  BY <1>1, <1>2, <1>3, HeapFrame

\* Those that leave the regions alone too.
LEMMA HeapAlone ==
  ASSUME UniformSizes, HeapInv, NEW p \in Procs, UNCHANGED <<regions, mmvars>>,
         \A q \in Procs \ {p} : pc'[q] = pc[q] /\ op'[q] = op[q],
         pc[p] \notin {"memman_alloc", "coalesce"},
         pc'[p] \notin {"fill", "memman_free", "memman_alloc", "coalesce"}
  PROVE  HeapInv'
<1>1. regions' = regions /\ UNCHANGED mmvars
  OBVIOUS
<1>. QED
  BY <1>1, HeapQuiet

\* Calls, the initialisation but for the clearing of the heap, refusals and returns.
LEMMA HeapElsewhere ==
  ASSUME UniformSizes, IInv, HeapInv, NEW p \in Procs,
         \/ \E kind \in Kinds, n \in Names, s \in Sizes : Call(p, kind, n, s)
         \/ MapFails(p) \/ (\E b \in Bases : Map(p, b)) \/ InitLock(p) \/ InitUnlock(p) \/ Lock(p)
         \/ AllocRefused(p) \/ NotFound(p) \/ FreeStray(p) \/ Unlock(p) \/ UnlockFailed(p) \/ Finalize(p)
  PROVE  HeapInv'
<1>1. pc \in [Procs -> {"idle"} \cup InCall \cup Critical] /\ op \in [Procs -> Operation]
  BY DEF IInv, TypeOK
<1>2. UNCHANGED <<regions, mmvars>>
  BY DEF Call, MapFails, Map, InitLock, InitUnlock, Lock, AllocRefused, NotFound, FreeStray, Unlock, UnlockFailed, Finalize, tblvars
<1>3. \A q \in Procs \ {p} : pc'[q] = pc[q] /\ op'[q] = op[q]
  BY <1>1 DEF Call, MapFails, Map, InitLock, InitUnlock, Lock, AllocRefused, NotFound, FreeStray, Unlock, UnlockFailed, Finalize, Goto
<1>4. pc[p] \notin {"memman_alloc", "coalesce"}
  BY DEF Call, MapFails, Map, InitLock, InitUnlock, Lock, AllocRefused, NotFound, FreeStray, Unlock, UnlockFailed, Finalize, At, Inside
<1>5. pc'[p] \notin {"fill", "memman_free", "memman_alloc", "coalesce"}
  <2>1. CASE Lock(p)
    <3>1. pc[p] # "idle" /\ pc'[p] = op[p].kind
      BY <1>1, <2>1 DEF Lock, Goto, At
    <3>2. op[p].kind \in Kinds
      BY <3>1 DEF IInv, Busy, At
    <3>. QED
      BY <3>1, <3>2 DEF Kinds
  <2>2. CASE Finalize(p)
    BY <1>1, <2>2 DEF Finalize, At
  <2>3. pc'[p] \in {"enter", "idle", "initlock", "inittable", "fail", "unlock"} \/ Lock(p) \/ Finalize(p)
    BY <1>1 DEF Call, MapFails, Map, InitLock, InitUnlock, AllocRefused, NotFound, FreeStray, Unlock, UnlockFailed, Goto
  <2>. QED
    BY <2>1, <2>2, <2>3
<1>. QED
  BY <1>2, <1>3, <1>4, <1>5, HeapAlone

\* The counting of references changes no region's chunk.
LEMMA HeapCounted ==
  ASSUME UniformSizes, IInv, HeapInv, NEW p \in Procs,
         \/ Count(p) \/ \E i \in Slots : Attach(p, i) \/ ReleaseShared(p, i) \/ ReleaseLast(p, i)
  PROVE  HeapInv'
<1>1. /\ pc \in [Procs -> {"idle"} \cup InCall \cup Critical] /\ op \in [Procs -> Operation]
      /\ regions \in [Slots -> Region]
  BY DEF IInv, TypeOK
<1>2. UNCHANGED mmvars
  BY DEF Count, Attach, ReleaseShared, ReleaseLast
<1>3. pc[p] \in {"count", "attach", "release"} /\ pc'[p] \in {"unlock", "retire"}
  BY <1>1 DEF Count, Attach, ReleaseShared, ReleaseLast, Goto, Inside
<1>4. \A q \in Procs \ {p} : pc'[q] = pc[q] /\ op'[q] = op[q]
  BY <1>1 DEF Count, Attach, ReleaseShared, ReleaseLast, Goto
<1>5. \A i \in Slots : /\ regions'[i].valid = regions[i].valid /\ regions'[i].at = regions[i].at
                       /\ regions'[i].len = regions[i].len
  <2>. DEFINE Same == \A i \in Slots : /\ regions'[i].valid = regions[i].valid /\ regions'[i].at = regions[i].at
                                       /\ regions'[i].len = regions[i].len
  <2>1. CASE Count(p)
    <3>1. op[p].slot \in Slots
      BY <1>1 DEF Operation
    <3>. QED
      BY <1>1, <2>1, <3>1 DEF Count, Region
  <2>2. ASSUME NEW i \in Slots, Attach(p, i) PROVE Same
    BY <1>1, <2>2 DEF Attach, Region
  <2>3. ASSUME NEW i \in Slots, ReleaseShared(p, i) PROVE Same
    BY <1>1, <2>3 DEF ReleaseShared, Region
  <2>4. ASSUME NEW i \in Slots, ReleaseLast(p, i) PROVE Same
    BY <1>1, <2>4 DEF ReleaseLast, Region
  <2>. QED
    BY <2>1, <2>2, <2>3, <2>4
<1>6. ASSUME NEW q \in Procs \ {p}, pc[q] = "memman_free" PROVE FALSE
  BY <1>3, <1>6, Exclusive DEF Critical
<1>. QED
  BY <1>2, <1>3, <1>4, <1>5, <1>6, HeapQuiet

\* The table is made anew only when no region of it is used.
LEMMA HeapInitTable ==
  ASSUME UniformSizes, IInv, Unused, HeapInv, NEW p \in Procs, InitTable(p)
  PROVE  HeapInv'
<1>1. /\ pc \in [Procs -> {"idle"} \cup InCall \cup Critical] /\ op \in [Procs -> Operation]
  BY DEF IInv, TypeOK
<1>2. UNCHANGED mmvars /\ pc[p] = "inittable" /\ pc'[p] = "initheap"
  BY <1>1 DEF InitTable, Goto, At
<1>3. \A q \in Procs \ {p} : pc'[q] = pc[q] /\ op'[q] = op[q]
  BY <1>1 DEF InitTable, Goto
<1>4. regions' = regions \/ \A i \in Slots : ~regions'[i].valid
  BY DEF InitTable, Free
<1>5. \A i \in Slots : regions'[i].valid =>
         regions[i].valid /\ regions'[i].at = regions[i].at /\ regions'[i].len = regions[i].len
  BY <1>4
<1>6. ASSUME NEW q \in Procs \ {p}, pc[q] = "memman_free" PROVE FALSE
  BY <1>2, <1>6, Exclusive DEF Critical
<1>. QED
  BY <1>2, <1>3, <1>5, <1>6, HeapQuiet

\* memman_init leaves one free chunk; nothing was handed out.
LEMMA HeapInitHeap ==
  ASSUME UniformSizes, IInv, HeapInv, NEW p \in Procs, InitHeap(p), live = {}
  PROVE  HeapInv'
<1>1. /\ pc \in [Procs -> {"idle"} \cup InCall \cup Critical] /\ op \in [Procs -> Operation]
  BY DEF IInv, TypeOK
<1>2. heap' = MM!Zeroed /\ UNCHANGED <<regions, live, call>> /\ pc[p] = "initheap" /\ pc'[p] = "initunlock"
  BY <1>1 DEF InitHeap, Goto, At, tblvars
<1>3. \A q \in Procs \ {p} : pc'[q] = pc[q] /\ op'[q] = op[q]
  BY <1>1 DEF InitHeap, Goto
<1>4. MemmanCalls /\ OwnChunks /\ MM!TypeOK
  BY DEF HeapInv, MM!IInv
<1>5. MemmanCalls'
  BY <1>2, <1>3, <1>4, CallsFrame
<1>6. call.op = "none"
  <2>1. ASSUME NEW q \in Procs, pc[q] \in {"memman_alloc", "coalesce"} PROVE FALSE
    BY <1>2, <2>1, Exclusive DEF Critical
  <2>. QED
    BY <1>4, <2>1 DEF MemmanCalls
<1>7. MM!TypeOK'
  BY <1>2, <1>4 DEF MM!TypeOK, MM!Zeroed, MM!Zero, MM!Word
<1>8. MM!SlotHeads' /\ MM!LiveSlots'
  BY <1>2, ChunkSlots DEF MM!SlotHeads, MM!LiveSlots, MM!Zeroed, MM!Zero
<1>9. MM!Walk' /\ MM!Merging'
  BY <1>2, <1>6 DEF MM!Walk, MM!Merging
<1>10. MM!IInv'
  BY <1>7, <1>8, <1>9 DEF MM!IInv
<1>. QED
  BY <1>2, <1>3, <1>4, <1>5, <1>10, HeapFrame

\* A call of memman begins with the one size there is.
LEMMA HeapAllocRegion ==
  ASSUME UniformSizes, IInv, HeapInv, NEW p \in Procs, NEW i \in Slots, AllocRegion(p, i)
  PROVE  HeapInv'
<1>1. /\ pc \in [Procs -> {"idle"} \cup InCall \cup Critical] /\ op \in [Procs -> Operation]
      /\ regions \in [Slots -> Region]
  BY DEF IInv, TypeOK
<1>2. MM!AllocBegin(op[p].size) /\ pc[p] = "alloc" /\ pc'[p] = "memman_alloc"
  BY <1>1 DEF AllocRegion, Goto, Inside
<1>3. op[p].size \in Sizes
  BY <1>2 DEF IInv, Busy, At
<1>4. MM!IInv'
  <2>1. MM!Next
    BY <1>2, <1>3 DEF MM!Next
  <2>. QED
    BY <2>1, MemmanStep DEF HeapInv
<1>5. live' = live /\ call'.op = "alloc"
  BY <1>2 DEF MM!AllocBegin, MM!NoCall
<1>6. \A q \in Procs \ {p} : pc'[q] = pc[q] /\ op'[q] = op[q]
  BY <1>1 DEF AllocRegion, Goto
<1>7. \A j \in Slots : /\ regions'[j].valid = regions[j].valid /\ regions'[j].at = regions[j].at
                       /\ regions'[j].len = regions[j].len
  BY <1>1 DEF AllocRegion, Region
<1>8. ASSUME NEW q \in Procs \ {p}, pc[q] \in {"memman_free", "memman_alloc", "coalesce"} PROVE FALSE
  BY <1>2, <1>8, Exclusive DEF Critical
<1>9. MemmanCalls'
  BY <1>2, <1>5, <1>6, <1>8 DEF MemmanCalls, At
<1>. QED
  BY <1>2, <1>4, <1>5, <1>6, <1>7, <1>8, <1>9, HeapFrame DEF HeapInv

\* The walks of memman: the process stays where it is.
LEMMA HeapWalks ==
  ASSUME UniformSizes, IInv, HeapInv, NEW p \in Procs, AllocWalk(p) \/ Coalesce(p)
  PROVE  HeapInv'
<1>1. pc[p] \in {"memman_alloc", "coalesce"} /\ UNCHANGED <<pc, op, regions>>
  BY DEF AllocWalk, Coalesce, Inside, tblvars
<1>2. MM!AllocAdvance \/ MM!CoalesceAdd
  BY DEF AllocWalk, Coalesce
<1>3. MM!IInv'
  <2>1. MM!Next
    BY <1>2 DEF MM!Next, MM!CallStep
  <2>. QED
    BY <2>1, MemmanStep DEF HeapInv
<1>4. live' = live /\ call'.op = call.op
  <2>1. call \in [op : {"none", "alloc", "coalesce", "fault"}, size : Nat, at : Nat, cur : Nat, sum : Nat]
    BY DEF IInv, MemType
  <2>. QED
    BY <1>2, <2>1 DEF MM!AllocAdvance, MM!CoalesceAdd
<1>5. MemmanCalls /\ OwnChunks
  BY DEF HeapInv
<1>6. MemmanCalls'
  BY <1>1, <1>4, <1>5 DEF MemmanCalls, At
<1>. QED
  BY <1>1, <1>3, <1>4, <1>5, <1>6, HeapFrame

\* A call of memman that finds nothing, or has merged the chunk with those behind it, is over.
LEMMA HeapCallEnds ==
  ASSUME UniformSizes, IInv, HeapInv, NEW p \in Procs, AllocNoMem(p) \/ Coalesced(p)
  PROVE  HeapInv'
<1>1. pc \in [Procs -> {"idle"} \cup InCall \cup Critical]
  BY DEF IInv, TypeOK
<1>2. /\ pc[p] \in {"memman_alloc", "coalesce"} /\ pc'[p] \in {"fail", "unlock"} /\ UNCHANGED <<op, regions>>
      /\ \A q \in Procs \ {p} : pc'[q] = pc[q]
  BY <1>1 DEF AllocNoMem, Coalesced, Inside, Goto, tblvars
<1>3. MM!AllocFail \/ MM!CoalesceEnd
  BY DEF AllocNoMem, Coalesced
<1>4. MM!IInv'
  <2>1. MM!Next
    BY <1>3 DEF MM!Next, MM!CallStep
  <2>. QED
    BY <2>1, MemmanStep DEF HeapInv
<1>5. live' = live /\ call'.op = "none"
  BY <1>3 DEF MM!AllocFail, MM!CoalesceEnd, MM!NoCall
<1>6. OwnChunks
  BY DEF HeapInv
<1>7. ASSUME NEW q \in Procs \ {p}, pc[q] \in {"memman_alloc", "coalesce"} PROVE FALSE
  BY <1>2, <1>7, Exclusive DEF Critical
<1>8. MemmanCalls'
  BY <1>2, <1>5, <1>7 DEF MemmanCalls, At
<1>. QED
  BY <1>2, <1>4, <1>5, <1>6, <1>8, HeapFrame

\* memman hands out a chunk that no region has.
LEMMA HeapAllocTaken ==
  ASSUME UniformSizes, IInv, Phases, HeapInv, NEW p \in Procs, AllocTaken(p)
  PROVE  HeapInv'
<1>1. /\ pc \in [Procs -> {"idle"} \cup InCall \cup Critical] /\ op \in [Procs -> Operation]
      /\ call \in [op : {"none", "alloc", "coalesce", "fault"}, size : Nat, at : Nat, cur : Nat, sum : Nat]
  BY DEF IInv, TypeOK, MemType
<1>2. MM!AllocTake /\ pc[p] = "memman_alloc" /\ pc'[p] = "fill" /\ op' = [op EXCEPT ![p].at = call.cur] /\ regions' = regions
  BY <1>1 DEF AllocTaken, Goto, Inside, tblvars
<1>3. \A q \in Procs \ {p} : pc'[q] = pc[q] /\ op'[q] = op[q]
  BY <1>1, <1>2 DEF AllocTaken, Goto
<1>4. op'[p].at = call.cur /\ op'[p].size = op[p].size
  BY <1>1, <1>2 DEF Operation
<1>5. MM!IInv'
  <2>1. MM!Next
    BY <1>2 DEF MM!Next, MM!CallStep
  <2>. QED
    BY <2>1, MemmanStep DEF HeapInv
<1>6. call.size = ChunkLen /\ call.cur \in MM!Slots /\ heap[call.cur].is_inuse = 0
  BY <1>2, ChunkSlots DEF HeapInv, MM!IInv, MM!TypeOK, MM!Walk, MM!AllocTake, MM!Suits
<1>7. op[p].size + 1 = ChunkLen
  BY <1>2, UniformFacts DEF IInv, Busy, At
<1>8. live' = live \cup {[at |-> call.cur, len |-> ChunkLen]} /\ call'.op = "none"
  BY <1>2, <1>6 DEF MM!AllocTake, MM!NoCall
<1>9. ASSUME NEW b \in live PROVE b.at # call.cur
  <2>1. heap[b.at].is_inuse = 1
    BY LiveIsSlot DEF HeapInv
  <2>. QED
    BY <1>6, <2>1
<1>10. OwnChunks
  BY DEF HeapInv
<1>11. ASSUME NEW i \in Slots, regions[i].valid PROVE ChunkOf(regions[i]) \in live /\ regions[i].at # call.cur
  <2>1. ChunkOf(regions[i]) \in live
    BY <1>10, <1>11 DEF OwnChunks
  <2>. QED
    BY <1>9, <2>1 DEF ChunkOf
<1>12. ASSUME NEW q \in Procs \ {p}, pc[q] \in {"memman_alloc", "coalesce", "fill", "memman_free"} PROVE FALSE
  BY <1>2, <1>12, Exclusive DEF Critical
<1>13. MemmanCalls'
  BY <1>2, <1>3, <1>8, <1>12 DEF MemmanCalls, At
<1>14. ChunkTaken(p)' = [at |-> call.cur, len |-> ChunkLen]
  BY <1>4, <1>7 DEF ChunkTaken
<1>15. OwnChunks'
  <2>1. \A i \in Slots : regions'[i].valid => ChunkOf(regions'[i]) \in live'
    BY <1>2, <1>8, <1>11
  <2>2. \A i, j \in Slots : regions'[i].valid /\ regions'[j].valid /\ i # j => regions'[i].at # regions'[j].at
    BY <1>2, <1>10 DEF OwnChunks
  <2>3. ASSUME NEW q \in Procs, pc'[q] = "fill"
        PROVE  ChunkTaken(q)' \in live' /\ \A i \in Slots : regions'[i].valid => regions'[i].at # op'[q].at
    <3>1. q = p
      BY <1>3, <1>12, <2>3
    <3>. QED
      BY <1>2, <1>4, <1>8, <1>11, <1>14, <3>1
  <2>4. \A q \in Procs : pc'[q] # "memman_free"
    BY <1>2, <1>3, <1>12
  <2>. QED
    BY <2>1, <2>2, <2>3, <2>4 DEF OwnChunks, At
<1>. QED
  BY <1>5, <1>13, <1>15 DEF HeapInv

\* The region gets the chunk the call has.
LEMMA HeapFill ==
  ASSUME UniformSizes, IInv, HeapInv, NEW p \in Procs, Fill(p)
  PROVE  HeapInv'
<1>1. /\ pc \in [Procs -> {"idle"} \cup InCall \cup Critical] /\ op \in [Procs -> Operation]
      /\ regions \in [Slots -> Region]
  BY DEF IInv, TypeOK
<1>2. UNCHANGED <<mmvars, op>> /\ pc[p] = "fill" /\ pc'[p] = "count" /\ \A q \in Procs \ {p} : pc'[q] = pc[q]
  BY <1>1 DEF Fill, Goto, Inside
<1>3. PICK s \in Slots : s = op[p].slot
  BY <1>1 DEF Operation
<1>4. /\ regions'[s].valid /\ regions'[s].at = op[p].at /\ regions'[s].len = op[p].size + 1
      /\ \A i \in Slots \ {s} : regions'[i] = regions[i]
  BY <1>1, <1>3 DEF Fill, Region
<1>5. /\ ChunkTaken(p) \in live /\ (\A i \in Slots : regions[i].valid => regions[i].at # op[p].at)
      /\ (\A i \in Slots : regions[i].valid => ChunkOf(regions[i]) \in live)
      /\ (\A i, j \in Slots : regions[i].valid /\ regions[j].valid /\ i # j => regions[i].at # regions[j].at)
  BY <1>2 DEF HeapInv, OwnChunks, At
<1>6. ChunkOf(regions'[s]) = ChunkTaken(p) /\ live' = live
  BY <1>2, <1>4 DEF ChunkOf, ChunkTaken, mmvars
<1>7. ASSUME NEW q \in Procs \ {p}, pc[q] \in {"fill", "memman_free"} PROVE FALSE
  BY <1>2, <1>7, Exclusive DEF Critical
<1>8. MM!IInv'
  BY <1>2, MemmanStep DEF HeapInv
<1>9. MemmanCalls'
  <2>1. MemmanCalls /\ call' = call
    BY <1>2 DEF HeapInv, mmvars
  <2>. QED
    BY <1>2, <2>1, CallsFrame
<1>10. OwnChunks'
  <2>1. \A i \in Slots : regions'[i].valid => ChunkOf(regions'[i]) \in live'
    BY <1>4, <1>5, <1>6
  <2>2. \A i, j \in Slots : regions'[i].valid /\ regions'[j].valid /\ i # j => regions'[i].at # regions'[j].at
    BY <1>4, <1>5
  <2>3. \A q \in Procs : pc'[q] \notin {"fill", "memman_free"}
    BY <1>2, <1>7
  <2>. QED
    BY <2>1, <2>2, <2>3 DEF OwnChunks, At
<1>. QED
  BY <1>8, <1>9, <1>10 DEF HeapInv

\* The region is retired, and the call has its chunk.
LEMMA HeapRetire ==
  ASSUME UniformSizes, IInv, Phases, HeapInv, NEW p \in Procs, Retire(p)
  PROVE  HeapInv'
<1>1. /\ pc \in [Procs -> {"idle"} \cup InCall \cup Critical] /\ op \in [Procs -> Operation]
      /\ regions \in [Slots -> Region]
  BY DEF IInv, TypeOK
<1>2. UNCHANGED <<mmvars, op>> /\ pc[p] = "retire" /\ pc'[p] = "memman_free" /\ \A q \in Procs \ {p} : pc'[q] = pc[q]
  BY <1>1 DEF Retire, Goto, Inside
<1>3. PICK s \in Slots : s = op[p].slot
  BY <1>1 DEF Operation
<1>4. /\ ~regions'[s].valid /\ regions'[s].at = regions[s].at /\ regions'[s].len = regions[s].len
      /\ \A i \in Slots \ {s} : regions'[i] = regions[i]
  BY <1>1, <1>3 DEF Retire, Region
<1>5. regions[s].valid
  BY <1>2, <1>3 DEF Phases, Named, At
<1>6. /\ (\A i \in Slots : regions[i].valid => ChunkOf(regions[i]) \in live)
      /\ (\A i, j \in Slots : regions[i].valid /\ regions[j].valid /\ i # j => regions[i].at # regions[j].at)
  BY DEF HeapInv, OwnChunks
<1>7. ChunkOf(regions'[s]) = ChunkOf(regions[s]) /\ live' = live
  BY <1>2, <1>4 DEF ChunkOf, mmvars
<1>8. ASSUME NEW q \in Procs \ {p}, pc[q] \in {"fill", "memman_free"} PROVE FALSE
  BY <1>2, <1>8, Exclusive DEF Critical
<1>9. MM!IInv'
  BY <1>2, MemmanStep DEF HeapInv
<1>10. MemmanCalls'
  <2>1. MemmanCalls /\ call' = call
    BY <1>2 DEF HeapInv, mmvars
  <2>. QED
    BY <1>2, <2>1, CallsFrame
<1>11. OwnChunks'
  <2>1. \A i \in Slots : regions'[i].valid => ChunkOf(regions'[i]) \in live'
    BY <1>4, <1>6, <1>7
  <2>2. \A i, j \in Slots : regions'[i].valid /\ regions'[j].valid /\ i # j => regions'[i].at # regions'[j].at
    BY <1>4, <1>6
  <2>3. ASSUME NEW q \in Procs, pc'[q] = "memman_free"
        PROVE  /\ ~regions'[op'[q].slot].valid /\ ChunkOf(regions'[op'[q].slot]) \in live'
               /\ \A i \in Slots : regions'[i].valid => regions'[i].at # regions'[op'[q].slot].at
    <3>1. q = p /\ op'[q].slot = s
      BY <1>2, <1>3, <1>8, <2>3
    <3>. QED
      BY <1>4, <1>5, <1>6, <1>7, <3>1
  <2>4. \A q \in Procs : pc'[q] # "fill"
    BY <1>2, <1>8
  <2>. QED
    BY <2>1, <2>2, <2>3, <2>4 DEF OwnChunks, At
<1>. QED
  BY <1>9, <1>10, <1>11 DEF HeapInv

\* memman_free gets the chunk of the region that was retired.
LEMMA HeapFreeChunk ==
  ASSUME UniformSizes, IInv, HeapInv, NEW p \in Procs, FreeChunk(p)
  PROVE  HeapInv' /\ \E b \in live : MM!FreeBegin(b)
<1>1. /\ pc \in [Procs -> {"idle"} \cup InCall \cup Critical]
  BY DEF IInv, TypeOK
<1>2. PICK r : r = regions[op[p].slot]
  OBVIOUS
<1>3. /\ UNCHANGED <<regions, op>> /\ pc[p] = "memman_free" /\ pc'[p] = "coalesce"
      /\ (\A q \in Procs \ {p} : pc'[q] = pc[q]) /\ MM!FreeBegin(ChunkOf(r))
  BY <1>1, <1>2 DEF FreeChunk, Goto, Inside, tblvars, ChunkOf
<1>4. /\ ~r.valid /\ ChunkOf(r) \in live /\ (\A i \in Slots : regions[i].valid => regions[i].at # r.at)
      /\ (\A i \in Slots : regions[i].valid => ChunkOf(regions[i]) \in live)
      /\ (\A i, j \in Slots : regions[i].valid /\ regions[j].valid /\ i # j => regions[i].at # regions[j].at)
  BY <1>2, <1>3 DEF HeapInv, OwnChunks, At
<1>5. live' = live \ {ChunkOf(r)} /\ call'.op = "coalesce"
  BY <1>3 DEF MM!FreeBegin, MM!NoCall
<1>6. MM!IInv'
  <2>1. MM!Next
    BY <1>3, <1>4 DEF MM!Next
  <2>. QED
    BY <2>1, MemmanStep DEF HeapInv
<1>7. ASSUME NEW q \in Procs \ {p}, pc[q] \in {"memman_alloc", "coalesce", "fill", "memman_free"} PROVE FALSE
  BY <1>3, <1>7, Exclusive DEF Critical
<1>8. MemmanCalls'
  BY <1>3, <1>5, <1>7 DEF MemmanCalls, At
<1>9. OwnChunks'
  <2>1. \A i \in Slots : regions'[i].valid => ChunkOf(regions'[i]) \in live'
    BY <1>3, <1>4, <1>5 DEF ChunkOf
  <2>2. \A i, j \in Slots : regions'[i].valid /\ regions'[j].valid /\ i # j => regions'[i].at # regions'[j].at
    BY <1>3, <1>4
  <2>3. \A q \in Procs : pc'[q] \notin {"fill", "memman_free"}
    BY <1>3, <1>7
  <2>. QED
    BY <2>1, <2>2, <2>3 DEF OwnChunks, At
<1>. QED
  BY <1>3, <1>4, <1>6, <1>8, <1>9 DEF HeapInv

\* A process that dies takes its call of memman with it.
LEMMA HeapDie ==
  ASSUME UniformSizes, IInv, HeapInv, NEW p \in Procs, Die(p)
  PROVE  HeapInv'
<1>1. /\ pc \in [Procs -> {"idle"} \cup InCall \cup Critical] /\ op \in [Procs -> Operation]
  BY DEF IInv, TypeOK
<1>2. /\ pc'[p] = "idle" /\ UNCHANGED <<regions, heap, live>>
      /\ \A q \in Procs \ {p} : pc'[q] = pc[q] /\ op'[q] = op[q]
  BY <1>1 DEF Die, tblvars
<1>3. MemmanCalls /\ OwnChunks /\ MM!IInv
  BY DEF HeapInv
<1>4. CASE holder = p
  <2>1. call' = MM!NoCall
    BY <1>4 DEF Die
  <2>2. \A q \in Procs \ {p} : pc[q] \notin Critical
    BY <1>4 DEF IInv, LockHeld
  <2>3. MemmanCalls'
    BY <1>2, <2>1, <2>2 DEF MemmanCalls, At, MM!NoCall, Critical
  <2>4. MM!IInv'
    BY <1>2, <1>3, <2>1, ChunkSlots DEF MM!IInv, MM!TypeOK, MM!SlotHeads, MM!LiveSlots, MM!Walk, MM!Merging, MM!NoCall
  <2>. QED
    BY <1>2, <1>3, <2>3, <2>4, HeapFrame
<1>5. CASE holder # p
  <2>1. call' = call
    BY <1>5 DEF Die
  <2>2. pc[p] \notin {"memman_alloc", "coalesce"}
    BY <1>5 DEF IInv, LockHeld, Critical
  <2>3. MemmanCalls'
    BY <1>2, <1>3, <2>1, <2>2, CallsFrame
  <2>4. MM!IInv'
    BY <1>2, <1>3, <2>1, MemmanStep DEF mmvars
  <2>. QED
    BY <1>2, <1>3, <2>3, <2>4, HeapFrame
<1>. QED
  BY <1>4, <1>5

\* The users of the chunks write their data.
LEMMA HeapUserWrite ==
  ASSUME UniformSizes, HeapInv, UserWrite
  PROVE  HeapInv' /\ MM!Next
<1>1. MM!Next
  BY DEF UserWrite, MM!Next
<1>2. MM!IInv'
  BY <1>1, MemmanStep DEF HeapInv
<1>3. UNCHANGED <<regions, pc, op, live, call>>
  BY DEF UserWrite, MM!UserWrite, tblvars
<1>4. MemmanCalls' /\ OwnChunks'
  BY <1>3 DEF HeapInv, MemmanCalls, OwnChunks, At, ChunkTaken, ChunkOf
<1>. QED
  BY <1>1, <1>2, <1>4 DEF HeapInv

\* So does a step that changes nothing.
LEMMA HeapStill ==
  ASSUME UniformSizes, HeapInv, UNCHANGED vars
  PROVE  HeapInv'
<1>1. UNCHANGED mmvars /\ UNCHANGED <<regions, pc, op, live, call>>
  BY DEF vars, mmvars
<1>2. MM!IInv'
  BY <1>1, MemmanStep DEF HeapInv
<1>3. MemmanCalls' /\ OwnChunks'
  BY <1>1 DEF HeapInv, MemmanCalls, OwnChunks, At, ChunkTaken, ChunkOf
<1>. QED
  BY <1>2, <1>3 DEF HeapInv

\* So do all steps, but for the clearing of a heap in use.
LEMMA HeapStep ==
  ASSUME UniformSizes, IInv, RInv, HeapInv, [Next]_vars, \A p \in Procs : InitHeap(p) => live = {}
  PROVE  HeapInv'
<1>1. ASSUME NEW p \in Procs, NEW kind \in Kinds, NEW n \in Names, NEW s \in Sizes, Call(p, kind, n, s) PROVE HeapInv'
  BY <1>1, HeapElsewhere
<1>2. ASSUME NEW p \in Procs, Step(p) PROVE HeapInv'
  <2>1. CASE MapFails(p) \/ (\E b \in Bases : Map(p, b)) \/ InitUnlock(p) \/ AllocRefused(p) \/ NotFound(p)
             \/ FreeStray(p) \/ Unlock(p) \/ UnlockFailed(p)
    BY <2>1, HeapElsewhere
  <2>2. CASE Count(p) \/ \E i \in Slots : Attach(p, i) \/ ReleaseShared(p, i) \/ ReleaseLast(p, i)
    BY <2>2, HeapCounted
  <2>3. CASE InitTable(p)
    BY <2>3, HeapInitTable DEF RInv
  <2>4. CASE InitHeap(p)
    BY <2>4, HeapInitHeap
  <2>5. CASE \E i \in Slots : AllocRegion(p, i)
    BY <2>5, HeapAllocRegion
  <2>6. CASE AllocWalk(p) \/ Coalesce(p)
    BY <2>6, HeapWalks
  <2>7. CASE AllocNoMem(p) \/ Coalesced(p)
    BY <2>7, HeapCallEnds
  <2>8. CASE AllocTaken(p)
    BY <2>8, HeapAllocTaken DEF RInv
  <2>9. CASE Fill(p)
    BY <2>9, HeapFill
  <2>10. CASE Retire(p)
    BY <2>10, HeapRetire DEF RInv
  <2>11. CASE FreeChunk(p)
    BY <2>11, HeapFreeChunk
  <2>12. CASE Fault(p) \/ FreeFault(p)
    <3>1. Die(p)
      BY <2>12 DEF Fault, FreeFault
    <3>. QED
      BY <3>1, HeapDie
  <2>. QED
    BY <1>2, <2>1, <2>2, <2>3, <2>4, <2>5, <2>6, <2>7, <2>8, <2>9, <2>10, <2>11, <2>12 DEF Step
<1>3. ASSUME NEW p \in Procs, InitLock(p) \/ Lock(p) \/ Finalize(p) PROVE HeapInv'
  BY <1>3, HeapElsewhere
<1>4. ASSUME NEW p \in Procs, Crash(p) PROVE HeapInv'
  <2>1. Die(p)
    BY <1>4 DEF Crash
  <2>. QED
    BY <2>1, HeapDie
<1>5. CASE UserWrite
  BY <1>5, HeapUserWrite
<1>6. CASE UNCHANGED vars
  BY <1>6, HeapStill
<1>. QED
  BY <1>1, <1>2, <1>3, <1>4, <1>5, <1>6 DEF Next

\* One process alone: a step that hands out and frees no chunk, and starts no initialisation.
LEMMA AloneQuiet ==
  ASSUME NEW p, Procs = {p}, AloneInv, UNCHANGED <<live, exits, mapped>>,
         \A i \in Slots : /\ regions'[i].valid = regions[i].valid
                          /\ regions[i].valid => /\ regions'[i].at = regions[i].at /\ regions'[i].len = regions[i].len
                                                 /\ regions'[i].base = regions[i].base,
         pc[p] \notin {"fill", "memman_free"}, pc'[p] \notin {"fill", "memman_free"},
         pc'[p] \in Critical \cup {"initlock"} => mapped[p] # NoBase,
         mapped[p] # NoBase /\ pc'[p] \in {"initlock", "inittable", "initheap"} => pc[p] \in {"initlock", "inittable", "initheap"},
         heap' = heap \/ (mapped[p] # NoBase /\ pc'[p] \notin {"initlock", "inittable", "initheap"})
  PROVE  AloneInv'
<1>1. exits' = 0 /\ mapped'[p] # Gone /\ (pc'[p] \in Critical \cup {"initlock"} => mapped'[p] # NoBase)
  BY DEF AloneInv
<1>2. ASSUME mapped'[p] = NoBase \/ pc'[p] \in {"initlock", "inittable", "initheap"}
      PROVE  heap' = MM!Zeroed /\ live' = {}
  BY <1>2 DEF AloneInv
<1>3. ASSUME NEW i \in Slots, regions'[i].valid PROVE regions'[i].base = mapped'[p]
  BY <1>3 DEF AloneInv
<1>4. ASSUME NEW b \in live' PROVE \E i \in Slots : regions'[i].valid /\ b = ChunkOf(regions'[i])
  <2>1. PICK i \in Slots : regions[i].valid /\ b = ChunkOf(regions[i])
    BY <1>4 DEF AloneInv, At
  <2>2. regions'[i].valid /\ ChunkOf(regions'[i]) = ChunkOf(regions[i])
    BY <2>1 DEF ChunkOf
  <2>. QED
    BY <2>1, <2>2
<1>5. MM!Zeroed' = MM!Zeroed
  BY DEF MM!Zeroed, MM!Zero, MM!Cells
<1>. QED
  BY <1>1, <1>2, <1>3, <1>4, <1>5 DEF AloneInv, At

\* Most steps are of this kind.
LEMMA AloneElsewhere ==
  ASSUME NEW p, Procs = {p}, IInv, Unused, AloneInv,
         \/ \E kind \in Kinds, n \in Names, s \in Sizes : Call(p, kind, n, s)
         \/ MapFails(p) \/ InitLock(p) \/ InitTable(p) \/ InitHeap(p) \/ InitUnlock(p) \/ Lock(p)
         \/ AllocRefused(p) \/ (\E i \in Slots : AllocRegion(p, i)) \/ AllocWalk(p) \/ AllocNoMem(p) \/ NotFound(p)
         \/ Count(p) \/ (\E i \in Slots : Attach(p, i) \/ ReleaseShared(p, i) \/ ReleaseLast(p, i))
         \/ Coalesce(p) \/ Coalesced(p) \/ Unlock(p) \/ UnlockFailed(p)
  PROVE  AloneInv'
<1>1. /\ p \in Procs /\ pc \in [Procs -> {"idle"} \cup InCall \cup Critical] /\ op \in [Procs -> Operation]
      /\ regions \in [Slots -> Region]
  BY DEF IInv, TypeOK
<1>2. UNCHANGED <<live, exits, mapped>>
  BY DEF Call, MapFails, InitLock, InitTable, InitHeap, InitUnlock, Lock, AllocRefused, AllocRegion, AllocWalk, AllocNoMem,
         NotFound, Count, Attach, ReleaseShared, ReleaseLast, Coalesce, Coalesced, Unlock, UnlockFailed, mmvars,
         MM!AllocBegin, MM!AllocAdvance, MM!AllocFail, MM!CoalesceAdd, MM!CoalesceEnd
<1>3. pc[p] \notin {"fill", "memman_free"}
  BY DEF Call, MapFails, InitLock, InitTable, InitHeap, InitUnlock, Lock, AllocRefused, AllocRegion, AllocWalk, AllocNoMem,
         NotFound, Count, Attach, ReleaseShared, ReleaseLast, Coalesce, Coalesced, Unlock, UnlockFailed, At, Inside
<1>4. /\ pc'[p] \notin {"fill", "memman_free"}
      /\ pc'[p] \in Critical \cup {"initlock"} => mapped[p] # NoBase
      /\ mapped[p] # NoBase /\ pc'[p] \in {"initlock", "inittable", "initheap"} => pc[p] \in {"initlock", "inittable", "initheap"}
  <2>. DEFINE Good == /\ pc'[p] \notin {"fill", "memman_free"}
                      /\ pc'[p] \in Critical \cup {"initlock"} => mapped[p] # NoBase
                      /\ mapped[p] # NoBase /\ pc'[p] \in {"initlock", "inittable", "initheap"} =>
                           pc[p] \in {"initlock", "inittable", "initheap"}
  <2>1. pc[p] \in Critical \cup {"initlock"} => mapped[p] # NoBase
    BY <1>1 DEF AloneInv
  <2>2. CASE Lock(p)
    <3>1. pc[p] # "idle" /\ pc'[p] = op[p].kind /\ mapped[p] # NoBase
      BY <1>1, <2>2 DEF Lock, Goto, At
    <3>2. op[p].kind \in Kinds
      BY <1>1, <3>1 DEF IInv, Busy, At
    <3>. QED
      BY <3>1, <3>2 DEF Kinds
  <2>3. CASE (\E kind \in Kinds, n \in Names, s \in Sizes : Call(p, kind, n, s)) \/ MapFails(p) \/ InitUnlock(p) \/ Unlock(p) \/ UnlockFailed(p)
    <3>1. pc'[p] \in {"enter", "idle"}
      BY <1>1, <2>3 DEF Call, MapFails, InitUnlock, Unlock, UnlockFailed, Goto
    <3>. QED
      BY <3>1 DEF Critical
  <2>4. CASE InitLock(p) \/ InitTable(p) \/ InitHeap(p)
    BY <1>1, <2>1, <2>4 DEF InitLock, InitTable, InitHeap, Goto, At, Critical
  <2>5. CASE AllocWalk(p) \/ Coalesce(p)
    BY <1>1, <2>1, <2>5 DEF AllocWalk, Coalesce, Inside, Critical
  <2>6. CASE AllocRefused(p) \/ (\E i \in Slots : AllocRegion(p, i)) \/ AllocNoMem(p) \/ NotFound(p)
             \/ Count(p) \/ (\E i \in Slots : Attach(p, i) \/ ReleaseShared(p, i) \/ ReleaseLast(p, i)) \/ Coalesced(p)
    <3>1. pc[p] \in Critical
      BY <2>6 DEF AllocRefused, AllocRegion, AllocNoMem, NotFound, Count, Attach, ReleaseShared, ReleaseLast, Coalesced, Inside, Critical
    <3>2. pc'[p] \in {"fail", "memman_alloc", "unlock", "retire"}
      BY <1>1, <2>6 DEF AllocRefused, AllocRegion, AllocNoMem, NotFound, Count, Attach, ReleaseShared, ReleaseLast, Coalesced, Goto
    <3>. QED
      BY <2>1, <3>1, <3>2
  <2>5a. Good
    BY <2>2, <2>3, <2>4, <2>5, <2>6
  <2>. QED
    BY <2>5a
<1>5. heap' = heap \/ (mapped[p] # NoBase /\ pc'[p] \notin {"initlock", "inittable", "initheap"})
  <2>1. CASE Coalesced(p)
    <3>1. pc[p] = "coalesce" /\ pc'[p] = "unlock"
      BY <1>1, <2>1 DEF Coalesced, Goto, Inside
    <3>. QED
      BY <1>1, <3>1 DEF AloneInv, Critical
  <2>2. CASE InitHeap(p)
    BY <1>1, <2>2 DEF InitHeap, At, AloneInv
  <2>3. heap' = heap \/ Coalesced(p) \/ InitHeap(p)
    BY DEF Call, MapFails, InitLock, InitTable, InitUnlock, Lock, AllocRefused, AllocRegion, AllocWalk, AllocNoMem,
           NotFound, Count, Attach, ReleaseShared, ReleaseLast, Coalesce, Unlock, UnlockFailed, mmvars,
           MM!AllocBegin, MM!AllocAdvance, MM!AllocFail, MM!CoalesceAdd
  <2>. QED
    BY <2>1, <2>2, <2>3
<1>6. \A i \in Slots : /\ regions'[i].valid = regions[i].valid
                       /\ regions[i].valid => /\ regions'[i].at = regions[i].at /\ regions'[i].len = regions[i].len
                                              /\ regions'[i].base = regions[i].base
  <2>. DEFINE Same == \A i \in Slots : /\ regions'[i].valid = regions[i].valid
                                       /\ regions[i].valid => /\ regions'[i].at = regions[i].at /\ regions'[i].len = regions[i].len
                                                              /\ regions'[i].base = regions[i].base
  <2>1. CASE Count(p)
    <3>1. op[p].slot \in Slots
      BY <1>1 DEF Operation
    <3>. QED
      BY <1>1, <2>1, <3>1 DEF Count, Region
  <2>2. ASSUME NEW i \in Slots, Attach(p, i) PROVE Same
    BY <1>1, <2>2 DEF Attach, Region
  <2>3. ASSUME NEW i \in Slots, ReleaseShared(p, i) PROVE Same
    BY <1>1, <2>3 DEF ReleaseShared, Region
  <2>4. ASSUME NEW i \in Slots, ReleaseLast(p, i) PROVE Same
    BY <1>1, <2>4 DEF ReleaseLast, Region
  <2>5. ASSUME NEW i \in Slots, AllocRegion(p, i) PROVE Same
    BY <1>1, <2>5 DEF AllocRegion, Region
  <2>6. CASE InitTable(p)
    <3>1. CASE ready
      BY <2>6, <3>1 DEF InitTable
    <3>2. CASE ~ready
      <4>1. \A i \in Slots : ~regions[i].valid
        BY <3>2 DEF Unused
      <4>2. \A i \in Slots : ~regions'[i].valid /\ regions'[i].valid = FALSE
        BY <2>6, <3>2 DEF InitTable, Free
      <4>3. \A i \in Slots : regions[i].valid \in BOOLEAN
        BY <1>1 DEF Region
      <4>. QED
        BY <4>1, <4>2, <4>3
    <3>. QED
      BY <3>1, <3>2
  <2>7. CASE regions' = regions
    BY <2>7
  <2>8. \/ regions' = regions \/ Count(p) \/ InitTable(p)
        \/ \E i \in Slots : Attach(p, i) \/ ReleaseShared(p, i) \/ ReleaseLast(p, i) \/ AllocRegion(p, i)
    BY DEF Call, MapFails, InitLock, InitHeap, InitUnlock, Lock, AllocRefused, AllocWalk, AllocNoMem,
           NotFound, Coalesce, Coalesced, Unlock, UnlockFailed, tblvars
  <2>9. Same
    BY <2>1, <2>2, <2>3, <2>4, <2>5, <2>6, <2>7, <2>8
  <2>. QED
    BY <2>9
<1>. QED
  BY <1>2, <1>3, <1>4, <1>5, <1>6, AloneQuiet

\* The memory is mapped once, when nothing is there yet.
LEMMA AloneMap ==
  ASSUME NEW p, Procs = {p}, IInv, HeapInv, AloneInv, NEW b \in Bases, Map(p, b)
  PROVE  AloneInv'
<1>1. /\ p \in Procs /\ pc \in [Procs -> {"idle"} \cup InCall \cup Critical]
      /\ mapped \in [Procs -> Bases \cup {NoBase, Gone}]
  BY DEF IInv, TypeOK
<1>2. /\ UNCHANGED <<regions, heap, live, exits>> /\ mapped[p] = NoBase /\ mapped'[p] = b /\ pc'[p] = "initlock"
      /\ b # NoBase /\ b # Gone
  BY <1>1, Facts DEF Map, Goto, tblvars, mmvars
<1>3. heap = MM!Zeroed /\ live = {} /\ exits = 0
  BY <1>1, <1>2 DEF AloneInv
<1>4. \A i \in Slots : ~regions[i].valid
  BY <1>3 DEF HeapInv, OwnChunks
<1>5. MM!Zeroed' = MM!Zeroed
  BY DEF MM!Zeroed, MM!Zero, MM!Cells
<1>. QED
  BY <1>2, <1>3, <1>4, <1>5 DEF AloneInv, At

\* A chunk that memman hands out is the call's, and then the region's.
LEMMA AloneTaken ==
  ASSUME UniformSizes, NEW p, Procs = {p}, IInv, HeapInv, AloneInv, AllocTaken(p) \/ Fill(p)
  PROVE  AloneInv'
<1>1. /\ p \in Procs /\ pc \in [Procs -> {"idle"} \cup InCall \cup Critical] /\ op \in [Procs -> Operation]
      /\ regions \in [Slots -> Region]
  BY DEF IInv, TypeOK
<1>2. /\ UNCHANGED <<exits, mapped>> /\ pc[p] \in {"memman_alloc", "fill"} /\ pc'[p] \in {"fill", "count"}
  BY <1>1 DEF AllocTaken, Fill, Goto, Inside
<1>3. exits = 0 /\ mapped[p] # Gone /\ mapped[p] # NoBase
  BY <1>1, <1>2 DEF AloneInv, Critical
<1>4. /\ \A i \in Slots : regions[i].valid => regions[i].base = mapped[p]
      /\ \A b \in live : \/ \E i \in Slots : regions[i].valid /\ b = ChunkOf(regions[i])
                         \/ pc[p] = "fill" /\ b = ChunkTaken(p)
  BY <1>1, <1>2 DEF AloneInv, At
<1>5. CASE AllocTaken(p)
  <2>1. /\ MM!AllocTake /\ pc[p] = "memman_alloc" /\ pc'[p] = "fill" /\ op' = [op EXCEPT ![p].at = call.cur] /\ regions' = regions
    BY <1>1, <1>5 DEF AllocTaken, Goto, Inside, tblvars
  <2>2. op'[p].at = call.cur /\ op'[p].size = op[p].size
    BY <1>1, <2>1 DEF Operation
  <2>3. live' = live \cup {[at |-> call.cur, len |-> call.size]}
    BY <2>1 DEF MM!AllocTake
  <2>4. call.size = op[p].size + 1
    <3>1. call.size = ChunkLen
      BY <2>1 DEF HeapInv, MM!IInv, MM!Walk, MM!AllocTake
    <3>2. op[p].size + 1 = ChunkLen
      BY <1>1, <2>1, UniformFacts DEF IInv, Busy, At
    <3>. QED
      BY <3>1, <3>2
  <2>5. ChunkTaken(p)' = [at |-> call.cur, len |-> call.size]
    BY <2>2, <2>4 DEF ChunkTaken
  <2>6. \A b \in live' : \/ \E i \in Slots : regions'[i].valid /\ b = ChunkOf(regions'[i])
                         \/ b = ChunkTaken(p)'
    BY <1>4, <2>1, <2>3, <2>5
  <2>. QED
    BY <1>2, <1>3, <1>4, <2>1, <2>6 DEF AloneInv, At
<1>6. CASE Fill(p)
  <2>1. PICK s \in Slots : s = op[p].slot
    BY <1>1 DEF Operation
  <2>2. /\ regions'[s].valid /\ regions'[s].at = op[p].at /\ regions'[s].len = op[p].size + 1 /\ regions'[s].base = mapped[p]
        /\ \A i \in Slots \ {s} : regions'[i] = regions[i]
    BY <1>1, <1>6, <2>1 DEF Fill, Region
  <2>3. pc[p] = "fill" /\ pc'[p] = "count" /\ live' = live /\ ~regions[s].valid
    BY <1>1, <1>6, <2>1 DEF Fill, Goto, Inside, mmvars, IInv, Reserved
  <2>4. ChunkOf(regions'[s]) = ChunkTaken(p)
    BY <2>2 DEF ChunkOf, ChunkTaken
  <2>5. ASSUME NEW b \in live' PROVE \E i \in Slots : regions'[i].valid /\ b = ChunkOf(regions'[i])
    <3>1. CASE b = ChunkTaken(p)
      BY <2>2, <2>4, <3>1
    <3>2. ASSUME NEW i \in Slots, regions[i].valid, b = ChunkOf(regions[i]) PROVE regions'[i].valid /\ b = ChunkOf(regions'[i])
      <4>1. i # s
        BY <2>3, <3>2
      <4>. QED
        BY <2>2, <3>2, <4>1
    <3>. QED
      BY <1>4, <2>3, <2>5, <3>1, <3>2
  <2>6. \A i \in Slots : regions'[i].valid => regions'[i].base = mapped'[p]
    BY <1>2, <1>4, <2>2
  <2>. QED
    BY <1>2, <1>3, <2>3, <2>5, <2>6 DEF AloneInv, At
<1>. QED
  BY <1>5, <1>6

\* A chunk that is given up is the call's, and then free.
LEMMA AloneFreed ==
  ASSUME NEW p, Procs = {p}, IInv, Phases, HeapInv, AloneInv, Retire(p) \/ FreeChunk(p)
  PROVE  AloneInv'
<1>1. /\ p \in Procs /\ pc \in [Procs -> {"idle"} \cup InCall \cup Critical] /\ op \in [Procs -> Operation]
      /\ regions \in [Slots -> Region]
  BY DEF IInv, TypeOK
<1>2. PICK s \in Slots : s = op[p].slot
  BY <1>1 DEF Operation
<1>3. /\ UNCHANGED <<exits, mapped, op>> /\ pc[p] \in {"retire", "memman_free"} /\ pc'[p] \in {"memman_free", "coalesce"}
  BY <1>1 DEF Retire, FreeChunk, Goto, Inside
<1>4. exits = 0 /\ mapped[p] # Gone /\ mapped[p] # NoBase
  BY <1>1, <1>3 DEF AloneInv, Critical
<1>5. /\ \A i \in Slots : regions[i].valid => regions[i].base = mapped[p]
      /\ \A b \in live : \/ \E i \in Slots : regions[i].valid /\ b = ChunkOf(regions[i])
                         \/ pc[p] = "memman_free" /\ b = ChunkOf(regions[s])
  BY <1>1, <1>2, <1>3 DEF AloneInv, At
<1>6. CASE Retire(p)
  <2>1. pc[p] = "retire" /\ pc'[p] = "memman_free" /\ live' = live
    BY <1>1, <1>6 DEF Retire, Goto, Inside, mmvars
  <2>2. /\ ~regions'[s].valid /\ regions'[s].at = regions[s].at /\ regions'[s].len = regions[s].len
        /\ regions'[s].base = regions[s].base /\ \A i \in Slots \ {s} : regions'[i] = regions[i]
    BY <1>1, <1>2, <1>6 DEF Retire, Region
  <2>3. regions[s].valid
    BY <1>1, <1>2, <2>1 DEF Phases, Named, At
  <2>4. ChunkOf(regions'[s]) = ChunkOf(regions[s])
    BY <2>2 DEF ChunkOf
  <2>5. \A b \in live' : \/ \E i \in Slots : regions'[i].valid /\ b = ChunkOf(regions'[i])
                         \/ b = ChunkOf(regions'[s])
    BY <1>5, <2>1, <2>2, <2>4
  <2>6. \A i \in Slots : regions'[i].valid \/ i = s => regions'[i].base = mapped[p]
    BY <1>5, <2>2, <2>3
  <2>. QED
    BY <1>1, <1>2, <1>3, <1>4, <2>1, <2>5, <2>6 DEF AloneInv, At
<1>7. CASE FreeChunk(p)
  <2>1. /\ pc[p] = "memman_free" /\ pc'[p] = "coalesce" /\ regions' = regions /\ MM!FreeBegin(ChunkOf(regions[s]))
    BY <1>1, <1>2, <1>7 DEF FreeChunk, Goto, Inside, tblvars, ChunkOf
  <2>2. live' = live \ {ChunkOf(regions[s])}
    BY <2>1 DEF MM!FreeBegin
  <2>3. \A b \in live' : \E i \in Slots : regions'[i].valid /\ b = ChunkOf(regions'[i])
    BY <1>5, <2>1, <2>2
  <2>. QED
    BY <1>1, <1>3, <1>4, <1>5, <2>1, <2>3 DEF AloneInv, At
<1>. QED
  BY <1>6, <1>7

\* The one process never dies, and never frees what it cannot reach.
LEMMA AloneNever ==
  ASSUME NEW p, Procs = {p}, MaxExits = 0, IInv, AloneInv
  PROVE  ~Crash(p) /\ ~Finalize(p) /\ ~Fault(p) /\ ~FreeFault(p) /\ ~FreeStray(p)
<1>1. p \in Procs /\ exits = 0 /\ mapped[p] # Gone
  BY DEF AloneInv
<1>2. ~(exits < MaxExits)
  BY <1>1
<1>3. ~Crash(p) /\ ~Finalize(p) /\ ~Fault(p) /\ ~FreeFault(p)
  BY <1>1, <1>2 DEF Crash, Finalize, Fault, FreeFault
<1>4. op[p] \in Operation
  BY <1>1 DEF IInv, TypeOK
<1>5. PICK s \in Slots : s = op[p].slot
  BY <1>4 DEF Operation
<1>6. pc[p] = "memman_free" => regions[s].base = mapped[p]
  BY <1>1, <1>5 DEF AloneInv, At
<1>7. ~FreeStray(p)
  BY <1>5, <1>6 DEF FreeStray, Inside
<1>. QED
  BY <1>3, <1>7

\* So one process keeps what memman has handed out and what the table says the same, and every
\* step of it is one that memman allows.
LEMMA AloneStep ==
  ASSUME UniformSizes, NEW p, Procs = {p}, MaxExits = 0, IInv, RInv, HeapInv, AloneInv, [Next]_vars
  PROVE  AloneInv' /\ [MM!Next]_mmvars /\ (InitHeap(p) => live = {})
<1>1. p \in Procs /\ (InitHeap(p) => live = {} /\ heap' = heap)
  BY DEF AloneInv, InitHeap, At
<1>2. CASE \/ \E kind \in Kinds, n \in Names, s \in Sizes : Call(p, kind, n, s)
           \/ MapFails(p) \/ InitLock(p) \/ InitTable(p) \/ InitHeap(p) \/ InitUnlock(p) \/ Lock(p)
           \/ AllocRefused(p) \/ (\E i \in Slots : AllocRegion(p, i)) \/ AllocWalk(p) \/ AllocNoMem(p) \/ NotFound(p)
           \/ Count(p) \/ (\E i \in Slots : Attach(p, i) \/ ReleaseShared(p, i) \/ ReleaseLast(p, i))
           \/ Coalesce(p) \/ Coalesced(p) \/ Unlock(p) \/ UnlockFailed(p)
  <2>1. AloneInv'
    BY <1>2, AloneElsewhere DEF RInv
  <2>2. CASE \E i \in Slots : AllocRegion(p, i)
    <3>1. pc[p] = "alloc" /\ MM!AllocBegin(op[p].size)
      BY <2>2 DEF AllocRegion, Inside
    <3>2. op[p].size \in Sizes
      BY <1>1, <3>1 DEF IInv, Busy, At
    <3>. QED
      BY <1>1, <2>1, <3>1, <3>2 DEF MM!Next
  <2>3. CASE AllocWalk(p) \/ AllocNoMem(p) \/ Coalesce(p) \/ Coalesced(p)
    BY <1>1, <2>1, <2>3 DEF AllocWalk, AllocNoMem, Coalesce, Coalesced, MM!Next, MM!CallStep
  <2>4. CASE InitHeap(p)
    BY <1>1, <2>1, <2>4 DEF InitHeap, mmvars
  <2>5. \/ \E i \in Slots : AllocRegion(p, i)
        \/ AllocWalk(p) \/ AllocNoMem(p) \/ Coalesce(p) \/ Coalesced(p) \/ InitHeap(p) \/ UNCHANGED mmvars
    BY <1>2 DEF Call, MapFails, InitLock, InitTable, InitUnlock, Lock, AllocRefused, NotFound, Count, Attach,
                ReleaseShared, ReleaseLast, Unlock, UnlockFailed
  <2>. QED
    BY <1>1, <2>1, <2>2, <2>3, <2>4, <2>5
<1>3. CASE \E b \in Bases : Map(p, b)
  BY <1>1, <1>3, AloneMap DEF Map
<1>4. CASE AllocTaken(p) \/ Fill(p)
  <2>1. AloneInv'
    BY <1>4, AloneTaken
  <2>2. MM!Next \/ UNCHANGED mmvars
    BY <1>4 DEF AllocTaken, Fill, MM!Next, MM!CallStep
  <2>. QED
    BY <1>1, <2>1, <2>2
<1>5. CASE Retire(p) \/ FreeChunk(p)
  <2>1. AloneInv'
    BY <1>5, AloneFreed DEF RInv
  <2>2. CASE Retire(p)
    BY <1>1, <2>1, <2>2 DEF Retire
  <2>3. CASE FreeChunk(p)
    <3>1. \E b \in live : MM!FreeBegin(b)
      BY <1>1, <2>3, HeapFreeChunk
    <3>. QED
      BY <1>1, <2>1, <3>1 DEF MM!Next
  <2>. QED
    BY <1>5, <2>2, <2>3
<1>6. CASE UserWrite
  <2>1. MM!Next
    BY <1>6, HeapUserWrite
  <2>2. UNCHANGED <<ready, regions, pc, op, mapped, exits, live>> /\ live # {}
    BY <1>6 DEF UserWrite, MM!UserWrite, tblvars
  <2>3. mapped[p] # NoBase /\ pc[p] \notin {"initlock", "inittable", "initheap"}
    BY <1>1, <2>2 DEF AloneInv
  <2>4. AloneInv'
    BY <2>2, <2>3 DEF AloneInv, At, ChunkOf, ChunkTaken
  <2>. QED
    BY <1>1, <2>1, <2>4
<1>7. CASE UNCHANGED vars
  <2>1. UNCHANGED mmvars /\ UNCHANGED <<ready, regions, pc, op, mapped, exits, live, heap>>
    BY <1>7 DEF vars, mmvars
  <2>2. AloneInv'
    BY <2>1 DEF AloneInv, At, ChunkOf, ChunkTaken, MM!Zeroed, MM!Zero, MM!Cells
  <2>. QED
    BY <1>1, <2>1, <2>2
<1>8. ~Crash(p) /\ ~Finalize(p) /\ ~Fault(p) /\ ~FreeFault(p) /\ ~FreeStray(p)
  BY AloneNever
<1>. QED
  <2>1. \A q \in Procs : q = p
    OBVIOUS
  <2>2. CASE \E q \in Procs : Step(q)
    <3>1. Step(p)
      BY <2>1, <2>2
    <3>. QED
      BY <1>2, <1>3, <1>4, <1>5, <1>8, <3>1 DEF Step
  <2>3. CASE \E q \in Procs : InitLock(q) \/ Lock(q)
    BY <1>2, <2>1, <2>3
  <2>4. CASE \E q \in Procs, kind \in Kinds, n \in Names, s \in Sizes : Call(q, kind, n, s)
    BY <1>2, <2>1, <2>4
  <2>5. CASE \E q \in Procs : Crash(q) \/ Finalize(q)
    BY <1>8, <2>1, <2>5
  <2>. QED
    BY <1>6, <1>7, <2>2, <2>3, <2>4, <2>5 DEF Next

\* At the start nothing is mapped and nothing handed out.
LEMMA HeapInit ==
  ASSUME UniformSizes, Init
  PROVE  HeapInv /\ AloneInv
<1>1. MM!IInv
  <2>1. MM!TypeOK
    BY ChunkSlots DEF Init, MM!Init, MM!TypeOK, MM!NoCall, MM!Zeroed, MM!Zero, MM!Word, MM!Cells
  <2>2. MM!SlotHeads /\ MM!LiveSlots
    BY ChunkSlots DEF Init, MM!Init, MM!SlotHeads, MM!LiveSlots, MM!Zeroed, MM!Zero
  <2>3. MM!Walk /\ MM!Merging
    BY DEF Init, MM!Init, MM!Walk, MM!Merging, MM!NoCall
  <2>. QED
    BY <2>1, <2>2, <2>3 DEF MM!IInv
<1>2. MemmanCalls /\ OwnChunks
  BY DEF Init, MM!Init, MM!NoCall, MemmanCalls, OwnChunks, At, Free
<1>3. AloneInv
  BY Facts DEF Init, MM!Init, AloneInv, At, Free, Critical
<1>. QED
  BY <1>1, <1>2, <1>3 DEF HeapInv

\* Two regions with chunks of their own share no memory.
LEMMA HeapDisjoint ==
  ASSUME UniformSizes, HeapInv
  PROVE  SegmentsDisjoint
<1>1. SUFFICES ASSUME NEW i \in Slots, NEW j \in Slots, regions[i].valid, regions[j].valid, i # j
               PROVE  MM!Disjoint(regions[i], regions[j])
  BY DEF SegmentsDisjoint
<1>2. ChunkOf(regions[i]) \in live /\ ChunkOf(regions[j]) \in live /\ regions[i].at # regions[j].at
  BY <1>1 DEF HeapInv, OwnChunks
<1>3. /\ ChunkOf(regions[i]).at \in MM!Slots /\ ChunkOf(regions[i]).len = ChunkLen
      /\ ChunkOf(regions[j]).at \in MM!Slots /\ ChunkOf(regions[j]).len = ChunkLen
  BY <1>2, LiveIsSlot DEF HeapInv
<1>4. /\ regions[i].at \in MM!Slots /\ regions[i].len = ChunkLen
      /\ regions[j].at \in MM!Slots /\ regions[j].len = ChunkLen
  BY <1>3 DEF ChunkOf
<1>. QED
  BY <1>2, <1>4, ChunkSlots DEF MM!Disjoint

\* Nobody holds the lock: each chunk in use is a region's.
LEMMA AloneChunks ==
  ASSUME IInv, HeapInv, AloneInv
  PROVE  ChunksMatchRegions
<1>1. SUFFICES ASSUME holder = NoProc
               PROVE  live = {ChunkOf(regions[i]) : i \in {j \in Slots : regions[j].valid}}
  BY DEF ChunksMatchRegions, ChunkOf
<1>2. \A p \in Procs : pc[p] \notin {"fill", "memman_free"}
  BY <1>1, Facts DEF IInv, LockHeld, Critical
<1>3. \A b \in live : \E i \in Slots : regions[i].valid /\ b = ChunkOf(regions[i])
  BY <1>2 DEF AloneInv, At
<1>4. \A i \in Slots : regions[i].valid => ChunkOf(regions[i]) \in live
  BY DEF HeapInv, OwnChunks
<1>. QED
  BY <1>3, <1>4

\* SegmentsDisjoint (e_shm_alloc, e_shm_release, memman_alloc, memman_free): with requests of one size
\* regions never share memory, whatever processes crash or exit, as long as memman_init clears the heap
\* only while nothing is handed out; run shm_second_init shows what comes of it otherwise.
THEOREM SegmentsStayDisjoint ==
  ASSUME UniformSizes
  PROVE  Spec /\ [][\A p \in Procs : InitHeap(p) => live = {}]_vars => []SegmentsDisjoint
<1>1. Init => HeapInv
  BY HeapInit
<1>2. ASSUME IInv, RInv, HeapInv, [Next]_vars, [\A p \in Procs : InitHeap(p) => live = {}]_vars
      PROVE  HeapInv'
  <2>1. CASE \A p \in Procs : InitHeap(p) => live = {}
    BY <1>2, <2>1, HeapStep
  <2>2. CASE UNCHANGED vars
    BY <1>2, <2>2, HeapStill
  <2>. QED
    BY <1>2, <2>1, <2>2
<1>3. HeapInv => SegmentsDisjoint
  BY HeapDisjoint
<1>. QED
  BY <1>1, <1>2, <1>3, RefsInvariance, PTL DEF Spec

\* SegmentsDisjoint of run heap: a process that is alone and does not exit clears the heap before it
\* allocates; its regions share no memory, with the lock free the chunks in use are those of the
\* regions, and each of its steps is one that memman allows: it frees a chunk once, and no other.
THEOREM OneProcessKeepsHeap ==
  ASSUME UniformSizes, NEW p, Procs = {p}, MaxExits = 0
  PROVE  Spec => [](SegmentsDisjoint /\ ChunksMatchRegions) /\ MemmanUsedRight
<1>1. Init => HeapInv /\ AloneInv /\ MM!Init
  BY HeapInit DEF Init
<1>2. ASSUME IInv, RInv, HeapInv, AloneInv, [Next]_vars
      PROVE  HeapInv' /\ AloneInv' /\ [MM!Next]_mmvars
  <2>1. AloneInv' /\ [MM!Next]_mmvars /\ (InitHeap(p) => live = {})
    BY <1>2, AloneStep
  <2>2. \A q \in Procs : InitHeap(q) => live = {}
    BY <2>1
  <2>. QED
    BY <1>2, <2>1, <2>2, HeapStep
<1>3. IInv /\ HeapInv /\ AloneInv => SegmentsDisjoint /\ ChunksMatchRegions
  BY HeapDisjoint, AloneChunks
<1>. QED
  BY <1>1, <1>2, <1>3, RefsInvariance, PTL DEF Spec, MemmanUsedRight, MM!Spec, mmvars, MM!mmvars
=============================================================================
