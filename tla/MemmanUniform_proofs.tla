------------------------ MODULE MemmanUniform_proofs ------------------------
(***************************************************************************)
(* Proofs that the allocator is sound in the regime of MemmanUniform, for  *)
(* every heap length, chunk length, content of user data and content of    *)
(* the memory after the heap.                                              *)
(***************************************************************************)
EXTENDS MemmanUniform, TLAPS

-----------------------------------------------------------------------------
(***************************************************************************)
(* Arithmetic of the slots.                                                *)
(***************************************************************************)
\* Multiples of the chunk length are a chunk length apart.
LEMMA Multiples ==
  ASSUME NEW B \in Nat, NEW j \in Nat, NEW k \in Nat, j < k
  PROVE  j * B + B <= k * B
<1> DEFINE d == k - (j + 1)
<1>1. d \in Nat /\ k = j + 1 + d
  OBVIOUS
<1>2. d * B \in Nat
  BY <1>1
<1>3. k * B = j * B + B + d * B
  BY <1>1
<1> QED
  BY <1>2, <1>3

\* Slots lie in the heap, tile it and do not overlap.
LEMMA SlotFacts ==
  /\ BlockLen \in Nat /\ BlockLen >= 2 /\ HeapLen \in Nat /\ HeapLen > 0
  /\ 0 \in Slots
  /\ \A s \in Slots : s \in Nat /\ s \in Cells /\ s + BlockLen <= HeapLen
  /\ \A s \in Slots : s + BlockLen \in Slots \cup {HeapLen}
  /\ \A s, t \in Slots : s = t \/ s + BlockLen <= t \/ t + BlockLen <= s
<1>1. BlockLen \in Nat /\ BlockLen >= 2 /\ HeapLen \in Nat /\ HeapLen > 0
  BY UniformAssumption, MemmanAssumption
<1>2. 0 \in Slots
  <2>1. 0 = 0 * BlockLen /\ 0 \in 0 .. NumSlots - 1
    BY <1>1, UniformAssumption
  <2> QED
    BY <2>1 DEF Slots
<1>3. ASSUME NEW s \in Slots
      PROVE  /\ s \in Nat /\ s \in Cells /\ s + BlockLen <= HeapLen
             /\ s + BlockLen \in Slots \cup {HeapLen}
  <2>1. PICK k \in 0 .. NumSlots - 1 : s = k * BlockLen
    BY DEF Slots
  <2>2. s \in Nat
    BY <1>1, <2>1
  <2>3. k * BlockLen + BlockLen <= NumSlots * BlockLen
    BY <1>1, UniformAssumption, Multiples
  <2>4. s + BlockLen = (k + 1) * BlockLen
    BY <1>1, <2>1
  <2>5. k + 1 \in 0 .. NumSlots - 1 \/ k + 1 = NumSlots
    BY UniformAssumption
  <2>6. s + BlockLen \in Slots \cup {HeapLen}
    BY <2>4, <2>5, UniformAssumption DEF Slots
  <2> QED
    BY <1>1, <2>1, <2>2, <2>3, <2>6, UniformAssumption DEF Cells
<1>4. ASSUME NEW s \in Slots, NEW t \in Slots
      PROVE  s = t \/ s + BlockLen <= t \/ t + BlockLen <= s
  <2>1. PICK j \in 0 .. NumSlots - 1 : s = j * BlockLen
    BY DEF Slots
  <2>2. PICK k \in 0 .. NumSlots - 1 : t = k * BlockLen
    BY DEF Slots
  <2>3. j = k \/ j < k \/ k < j
    BY UniformAssumption
  <2> QED
    BY <1>1, <2>1, <2>2, <2>3, UniformAssumption, Multiples
<1> QED
  BY <1>1, <1>2, <1>3, <1>4

\* Every cell belongs to a slot.
LEMMA SlotOfCell ==
  ASSUME NEW i \in Cells
  PROVE  \E s \in Slots : s <= i /\ i < s + BlockLen
<1> DEFINE k == i \div BlockLen
           r == i % BlockLen
<1>1. BlockLen \in Nat \ {0} /\ i \in Nat /\ i < NumSlots * BlockLen
  BY UniformAssumption, MemmanAssumption DEF Cells
<1>2. k \in Nat /\ r \in 0 .. BlockLen - 1 /\ i = k * BlockLen + r
  BY <1>1, Z3
<1>3. k < NumSlots
  <2>1. CASE NumSlots < k
    <3>1. NumSlots * BlockLen + BlockLen <= k * BlockLen
      BY <1>1, <1>2, <2>1, UniformAssumption, Multiples
    <3> QED
      BY <1>1, <1>2, <3>1, UniformAssumption
  <2> QED
    BY <1>1, <1>2, <2>1, UniformAssumption
<1>4. k * BlockLen \in Slots
  <2> HIDE DEF k
  <2>1. k \in 0 .. NumSlots - 1
    BY <1>2, <1>3, UniformAssumption
  <2> QED
    BY <2>1 DEF Slots
<1>5. k * BlockLen <= i /\ i < k * BlockLen + BlockLen
  BY <1>1, <1>2
<1> QED
  BY <1>4, <1>5

-----------------------------------------------------------------------------
(***************************************************************************)
(* The inductive invariant.                                                *)
(***************************************************************************)
\* memman_init leaves one free chunk of size 0 at the first slot.
LEMMA InitInv == Init => IInv
<1> USE SlotFacts
<1> SUFFICES ASSUME Init PROVE IInv
  OBVIOUS
<1>1. TypeOK
  BY DEF Init, TypeOK, NoCall, Zeroed, Zero, Word, Cells
<1>2. SlotHeads
  BY DEF Init, SlotHeads, Zeroed, Zero
<1>3. LiveSlots
  BY DEF Init, LiveSlots, Zeroed, Zero
<1>4. Walk /\ Merging
  BY DEF Init, Walk, Merging, NoCall
<1> QED
  BY <1>1, <1>2, <1>3, <1>4 DEF IInv

\* A live chunk is the slot it starts at, and its control block says so.
LEMMA LiveIsSlot ==
  ASSUME IInv, NEW b \in live
  PROVE  /\ b.at \in Slots /\ b.len = BlockLen
         /\ b = [at |-> b.at, len |-> BlockLen]
         /\ heap[b.at].is_inuse = 1 /\ heap[b.at].size = BlockLen
<1>1. b.at \in Slots /\ b.len = BlockLen
  BY DEF IInv, LiveSlots
<1>2. b = [at |-> b.at, len |-> BlockLen]
  BY <1>1 DEF IInv, TypeOK
<1>3. heap[b.at].is_inuse = 1
  BY <1>1, <1>2 DEF IInv, LiveSlots
<1> QED
  BY <1>1, <1>2, <1>3 DEF IInv, SlotHeads

\* Writing one field of a control block.
LEMMA WordUpdate ==
  ASSUME NEW w \in Word, NEW n \in Nat
  PROVE  /\ [w EXCEPT !.is_inuse = 0] = [is_inuse |-> 0, size |-> w.size]
         /\ [w EXCEPT !.size = n] = [is_inuse |-> w.is_inuse, size |-> n]
  BY DEF Word

\* Every step keeps the invariant, by the lemmas of the actions.
LEMMA NextInv == IInv /\ [Next]_mmvars => IInv'
<1> USE SlotFacts
<1> SUFFICES ASSUME IInv, [Next]_mmvars PROVE IInv'
  OBVIOUS
<1>1. ASSUME NEW n \in Sizes, AllocBegin(n) PROVE IInv'
  <2>1. n + 1 = BlockLen
    BY UniformAssumption
  <2>2. TypeOK'
    BY <1>1, <2>1 DEF IInv, TypeOK, AllocBegin, NoCall, Cells
  <2>3. SlotHeads' /\ LiveSlots'
    BY <1>1 DEF IInv, SlotHeads, LiveSlots, AllocBegin
  <2>4. Walk' /\ Merging'
    BY <1>1, <2>1 DEF Walk, Merging, AllocBegin, NoCall
  <2> QED
    BY <2>2, <2>3, <2>4 DEF IInv
<1>2. CASE AllocAdvance
  <2>1. call.cur \in Slots /\ call.size = BlockLen /\ call.op = "alloc"
    BY <1>2 DEF AllocAdvance, IInv, TypeOK, Walk
  <2>2. heap[call.cur].is_inuse = 1 /\ heap[call.cur].size = BlockLen
    <3>1. heap[call.cur].is_inuse \in {0, 1}
      BY <2>1 DEF IInv, TypeOK, Word
    <3> QED
      BY <1>2, <2>1, <3>1 DEF AllocAdvance, Suits, IInv, SlotHeads
  <2>3. call' = [call EXCEPT !.cur = call.cur + BlockLen] /\ UNCHANGED <<heap, live>>
    BY <1>2, <2>2 DEF AllocAdvance
  <2>4. TypeOK'
    BY <2>1, <2>3 DEF IInv, TypeOK
  <2>5. SlotHeads' /\ LiveSlots'
    BY <2>3 DEF IInv, SlotHeads, LiveSlots
  <2>6. Walk'
    <3>1. call'.cur = call.cur + BlockLen /\ call'.size = call.size
      BY <2>3 DEF IInv, TypeOK
    <3> QED
      BY <2>1, <2>2, <2>3, <3>1 DEF IInv, Walk
  <2>7. Merging'
    BY <2>1, <2>3 DEF Merging, IInv, TypeOK
  <2> QED
    BY <2>4, <2>5, <2>6, <2>7 DEF IInv
<1>3. CASE AllocTake
  <2>1. call.cur \in Slots /\ call.size = BlockLen /\ call.op = "alloc"
    BY <1>3 DEF AllocTake, IInv, TypeOK, Walk
  <2>2. /\ heap' = [heap EXCEPT ![call.cur] = [is_inuse |-> 1, size |-> BlockLen]]
        /\ live' = live \cup {[at |-> call.cur, len |-> BlockLen]}
        /\ call' = NoCall
    BY <1>3, <2>1 DEF AllocTake
  <2>3. TypeOK'
    BY <2>1, <2>2 DEF IInv, TypeOK, Word, NoCall, Cells
  <2>4. SlotHeads'
    BY <2>1, <2>2 DEF IInv, TypeOK, SlotHeads
  <2>5. LiveSlots'
    BY <2>1, <2>2 DEF IInv, TypeOK, LiveSlots
  <2>6. Walk' /\ Merging'
    BY <2>2 DEF Walk, Merging, NoCall
  <2> QED
    BY <2>3, <2>4, <2>5, <2>6 DEF IInv
<1>4. CASE AllocFail
  <2>1. TypeOK'
    BY <1>4 DEF IInv, TypeOK, AllocFail, NoCall, Cells
  <2>2. SlotHeads' /\ LiveSlots'
    BY <1>4 DEF IInv, SlotHeads, LiveSlots, AllocFail
  <2>3. Walk' /\ Merging'
    BY <1>4 DEF Walk, Merging, AllocFail, NoCall
  <2> QED
    BY <2>1, <2>2, <2>3 DEF IInv
<1>5. ASSUME NEW b \in live, FreeBegin(b) PROVE IInv'
  <2>1. /\ b.at \in Slots /\ b = [at |-> b.at, len |-> BlockLen]
        /\ heap[b.at].size = BlockLen
    BY LiveIsSlot
  <2>2. /\ heap' = [heap EXCEPT ![b.at].is_inuse = 0]
        /\ live' = live \ {b}
        /\ call' = [NoCall EXCEPT !.op = "coalesce", !.at = b.at, !.cur = b.at]
    BY <1>5 DEF FreeBegin
  <2>3. heap' = [heap EXCEPT ![b.at] = [is_inuse |-> 0, size |-> BlockLen]]
    <3>1. heap[b.at] \in Word
      BY <2>1 DEF IInv, TypeOK
    <3> QED
      BY <2>1, <2>2, <3>1, WordUpdate
  <2>4. TypeOK'
    <3>1. (heap \in [Cells -> Word])'
      BY <2>1, <2>3 DEF IInv, TypeOK, Word
    <3>2. call' = [op |-> "coalesce", size |-> 0, at |-> b.at, cur |-> b.at, sum |-> 0]
      BY <2>2 DEF NoCall
    <3> QED
      BY <2>1, <2>2, <3>1, <3>2 DEF IInv, TypeOK
  <2>5. SlotHeads'
    BY <2>1, <2>3 DEF IInv, TypeOK, SlotHeads
  <2>6. LiveSlots'
    BY <2>1, <2>2, <2>3 DEF IInv, TypeOK, LiveSlots
  <2>7. Walk' /\ Merging'
    BY <2>1, <2>2, <2>3 DEF IInv, TypeOK, Walk, Merging, NoCall
  <2> QED
    BY <2>4, <2>5, <2>6, <2>7 DEF IInv
<1>6. CASE CoalesceAdd
  <2>1. PICK w \in Junk \cup {heap[i] : i \in Cells} :
          /\ ReadAt(call.cur, w) /\ ~StopsCoalesce(w)
          /\ call' = [call EXCEPT !.sum = call.sum + w.size, !.cur = call.cur + w.size]
    BY <1>6 DEF CoalesceAdd, IInv, TypeOK
  <2>2. call.op = "coalesce" /\ UNCHANGED <<heap, live>>
    BY <1>6 DEF CoalesceAdd
  <2>3. w \in Word
    BY MemmanAssumption DEF IInv, TypeOK
  <2>4. TypeOK'
    <3>1. w.size \in Nat
      BY <2>3 DEF Word
    <3>2. call.sum + w.size \in Nat /\ call.cur + w.size \in Nat
      BY <3>1 DEF IInv, TypeOK
    <3>3. call' \in [op : {"none", "alloc", "coalesce", "fault"},
                    size : Nat, at : Cells, cur : Nat, sum : Nat]
      BY <2>1, <3>2 DEF IInv, TypeOK
    <3> QED
      BY <2>2, <3>3 DEF IInv, TypeOK
  <2>5. SlotHeads' /\ LiveSlots'
    BY <2>2 DEF IInv, SlotHeads, LiveSlots
  <2>6. Walk'
    BY <2>1, <2>2 DEF Walk, IInv, TypeOK
  <2>7. Merging'
    <3>1. call'.at = call.at /\ call'.sum = call.sum + w.size /\ w.size \in Nat
      BY <2>1, <2>3 DEF IInv, TypeOK, Word
    <3>2. CASE call.sum >= BlockLen
      BY <2>2, <3>1, <3>2 DEF IInv, TypeOK, Merging
    <3>3. CASE call.cur = call.at /\ call.sum = 0 /\ heap[call.at].size >= BlockLen
      <4>1. call.at \in Slots /\ heap[call.at].is_inuse = 0
        BY <2>2 DEF IInv, Merging
      <4>2. w = heap[call.at]
        BY <2>1, <3>3, <4>1 DEF ReadAt, Cells
      <4> QED
        BY <2>2, <3>1, <3>3, <4>1, <4>2 DEF Merging
    <3> QED
      BY <2>2, <3>2, <3>3 DEF IInv, Merging
  <2> QED
    BY <2>4, <2>5, <2>6, <2>7 DEF IInv
<1>7. CASE CoalesceEnd
  <2>1. PICK w \in Junk \cup {heap[i] : i \in Cells} :
          ReadAt(call.cur, w) /\ StopsCoalesce(w)
    BY <1>7 DEF CoalesceEnd
  <2>2. /\ call.op = "coalesce" /\ call' = NoCall /\ UNCHANGED live
        /\ heap' = [heap EXCEPT ![call.at].size = call.sum]
    BY <1>7 DEF CoalesceEnd
  <2>3. call.at \in Slots /\ heap[call.at].is_inuse = 0 /\ call.sum \in Nat
    BY <2>2 DEF IInv, Merging, TypeOK
  <2>4. call.sum >= BlockLen
    <3>1. CASE call.cur = call.at /\ heap[call.at].size >= BlockLen
      <4>1. w = heap[call.at]
        BY <2>1, <2>3, <3>1 DEF ReadAt, Cells
      <4> QED
        BY <2>1, <2>3, <3>1, <4>1 DEF StopsCoalesce
    <3> QED
      BY <2>2, <3>1 DEF IInv, Merging
  <2>5. heap' = [heap EXCEPT ![call.at] = [is_inuse |-> 0, size |-> call.sum]]
    <3>1. heap[call.at] \in Word
      BY <2>3 DEF IInv, TypeOK
    <3> QED
      BY <2>2, <2>3, <3>1, WordUpdate
  <2>6. TypeOK'
    <3>1. [is_inuse |-> 0, size |-> call.sum] \in Word
      BY <2>3 DEF Word
    <3>2. heap' \in [Cells -> Word]
      BY <2>5, <3>1 DEF IInv, TypeOK
    <3>3. 0 \in Cells
      BY MemmanAssumption DEF Cells
    <3> QED
      BY <2>2, <3>2, <3>3 DEF IInv, TypeOK, NoCall
  <2>7. SlotHeads'
    BY <2>3, <2>4, <2>5 DEF IInv, TypeOK, SlotHeads
  <2>8. LiveSlots'
    BY <2>2, <2>3, <2>5 DEF IInv, TypeOK, LiveSlots
  <2>9. Walk' /\ Merging'
    BY <2>2 DEF Walk, Merging, NoCall
  <2> QED
    BY <2>6, <2>7, <2>8, <2>9 DEF IInv
<1>8. CASE CoalesceFault
  <2>1. TypeOK'
    BY <1>8 DEF IInv, TypeOK, CoalesceFault
  <2>2. SlotHeads' /\ LiveSlots'
    BY <1>8 DEF IInv, SlotHeads, LiveSlots, CoalesceFault
  <2>3. Walk' /\ Merging'
    BY <1>8 DEF Walk, Merging, CoalesceFault, IInv, TypeOK
  <2> QED
    BY <2>1, <2>2, <2>3 DEF IInv
<1>9. ASSUME NEW b \in live, NEW i \in Cells, NEW w \in Junk, UserWrite(b, i, w)
      PROVE  IInv'
  <2>1. b.at \in Slots /\ b.len = BlockLen
    BY LiveIsSlot
  <2>2. i \notin Slots
    BY <1>9, <2>1 DEF UserWrite
  <2>3. heap' = [heap EXCEPT ![i] = w] /\ w \in Word /\ UNCHANGED <<live, call>>
    BY <1>9, MemmanAssumption DEF UserWrite
  <2>4. TypeOK'
    BY <2>3 DEF IInv, TypeOK
  <2>5. \A s \in Slots : heap'[s] = heap[s]
    BY <2>2, <2>3 DEF IInv, TypeOK
  <2>6. SlotHeads' /\ LiveSlots'
    BY <2>3, <2>5 DEF IInv, SlotHeads, LiveSlots
  <2>7. Walk' /\ Merging'
    BY <2>3, <2>5 DEF IInv, Walk, Merging
  <2> QED
    BY <2>4, <2>6, <2>7 DEF IInv
<1>10. CASE UNCHANGED mmvars
  BY <1>10 DEF mmvars, IInv, TypeOK, SlotHeads, LiveSlots, Walk, Merging
<1> QED
  BY <1>1, <1>2, <1>3, <1>4, <1>5, <1>6, <1>7, <1>8, <1>9, <1>10 DEF Next, CallStep

\* The invariant holds in every reachable state.
LEMMA Invariance == Spec => []IInv
<1> QED
  BY InitInv, NextInv, PTL DEF Spec

-----------------------------------------------------------------------------
(***************************************************************************)
(* The theorems.                                                           *)
(***************************************************************************)
\* The memory, the chunks handed out and the call in progress stay well typed
\* (memman_alloc, memman_free).
THEOREM TypeCorrect == Spec => []TypeOK
<1> QED
  BY Invariance, PTL DEF IInv

\* Chunks of memman_alloc held at the same time share no memory, when all
\* requests have one size that divides the heap.
THEOREM DisjointChunks == Spec => ChunksDisjoint
<1> DEFINE Unused == \A b \in live : Disjoint(b, [at |-> call.cur, len |-> call.size])
<1>1. IInv /\ AllocTake => Unused
  <2> SUFFICES ASSUME IInv, AllocTake, NEW b \in live
               PROVE  Disjoint(b, [at |-> call.cur, len |-> call.size])
    OBVIOUS
  <2>1. b.at \in Slots /\ b.len = BlockLen /\ heap[b.at].is_inuse = 1
    BY LiveIsSlot
  <2>2. call.cur \in Slots /\ call.size = BlockLen
    BY SlotFacts DEF AllocTake, IInv, TypeOK, Walk
  <2>3. heap[call.cur].is_inuse = 0
    BY DEF AllocTake, Suits
  <2> QED
    BY <2>1, <2>2, <2>3, SlotFacts DEF Disjoint
<1>2. IInv => [AllocTake => Unused]_mmvars
  BY <1>1
<1>3. Spec => [][AllocTake => Unused]_mmvars
  BY <1>2, Invariance, PTL
<1> QED
  BY <1>3 DEF ChunksDisjoint

\* No chunk of memman_alloc reaches past mem_end, in the same regime.
THEOREM InsideHeap == Spec => []ChunksInHeap
<1>1. IInv => ChunksInHeap
  BY LiveIsSlot, SlotFacts DEF ChunksInHeap
<1> QED
  BY <1>1, Invariance, PTL

\* The control blocks of chunks in use are never overwritten, in the same
\* regime, whatever the users of the chunks write (memman_free finds them).
THEOREM HeadersKept == Spec => []HeadersIntact
<1>1. IInv => HeadersIntact
  <2> SUFFICES ASSUME IInv, NEW b \in live
               PROVE  heap[b.at] = [is_inuse |-> 1, size |-> b.len]
    BY DEF HeadersIntact
  <2>1. /\ b.at \in Slots /\ b.len = BlockLen
        /\ heap[b.at].is_inuse = 1 /\ heap[b.at].size = BlockLen
    BY LiveIsSlot
  <2>2. heap[b.at] \in Word
    BY <2>1, SlotFacts DEF IInv, TypeOK
  <2> QED
    BY <2>1, <2>2 DEF Word
<1> QED
  BY <1>1, Invariance, PTL

\* memman_alloc fails only when the chunks in use leave no gap that would hold
\* the request, in the same regime: freed memory is always found again.
THEOREM FailsOnlyWhenFull == Spec => NoFalseFailure
<1> DEFINE Full == \A i \in 0 .. HeapLen - call.size :
                     \E b \in live : ~Disjoint(b, [at |-> i, len |-> call.size])
<1>1. IInv /\ AllocFail => Full
  <2> SUFFICES ASSUME IInv, AllocFail, NEW i \in 0 .. HeapLen - call.size
               PROVE  \E b \in live : ~Disjoint(b, [at |-> i, len |-> call.size])
    OBVIOUS
  <2>1. /\ call.size = BlockLen
        /\ \A s \in Slots : heap[s].is_inuse = 1
    BY SlotFacts DEF IInv, TypeOK, Walk, AllocFail
  <2>2. i \in Cells
    BY <2>1, SlotFacts DEF Cells
  <2>3. PICK s \in Slots : s <= i /\ i < s + BlockLen
    BY <2>2, SlotOfCell
  <2>4. [at |-> s, len |-> BlockLen] \in live
    BY <2>1 DEF IInv, LiveSlots
  <2>5. ~Disjoint([at |-> s, len |-> BlockLen], [at |-> i, len |-> call.size])
    BY <2>1, <2>2, <2>3, SlotFacts DEF Disjoint, Cells
  <2> QED
    BY <2>4, <2>5
<1>2. IInv => [AllocFail => Full]_mmvars
  BY <1>1
<1>3. Spec => [][AllocFail => Full]_mmvars
  BY <1>2, Invariance, PTL
<1> QED
  BY <1>3 DEF NoFalseFailure
=============================================================================
