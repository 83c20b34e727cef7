---------------------------- MODULE MCELib_proofs ----------------------------
(***************************************************************************)
(* Parts of e-lib: two where cores and host meet without a lock of         *)
(* the other side, a core with its interrupt routines, and tracing.        *)
(*                                                                         *)
(* Mutual exclusion of the mutex for every set of cores.  The token        *)
(* argument: the word holds the id of c exactly while c is in its critical *)
(* section or its unlocking store is in the mesh, never both.              *)
(*                                                                         *)
(* A core that attaches to a shared region while the host adds and retires *)
(* regions, for every length of the table, every set of names and segments *)
(* and any number of regions.  The slot the host writes to is not valid    *)
(* and its name is nobody else's; a region that is there all the time is   *)
(* never behind the core that looks for it.                                *)
(*                                                                         *)
(* One core, for every set of interrupts, of calls their routines make and *)
(* of requests, wherever an interrupt comes between two accesses: an       *)
(* update of a register is lost only if it is a routine's, of that bit,    *)
(* made within an unprotected call of the program on the same register,    *)
(* and a channel moves what it was asked to.                               *)
(*                                                                         *)
(* Tracing: any number of cores starts together, the ring holds the events *)
(* of a core in their order until it has gone round, and the fields of an  *)
(* event come back whatever their widths are.                              *)
(*                                                                         *)
(* Ids: a core is found by its coordinates, its number and its address in  *)
(* groups whose rows and columns are powers of two, and e_neighbor_id      *)
(* leads once around.                                                      *)
(***************************************************************************)
EXTENDS MCELib, Integers, SequenceTheorems, TLAPS

-----------------------------------------------------------------------------
(* The mutex.                                                               *)

Holds(c)   == pc[c] = "critical"
Leaving(c) == clears[c] = 1

Token ==
  \A c \in Cores :
    /\ ~(Holds(c) /\ Leaving(c))
    /\ Holds(c) \/ Leaving(c) <=> word = CoreId[c]

IInv == TypeOK /\ Token

-----------------------------------------------------------------------------
\* Two cores cannot both own the word.
LEMMA OneOwner ==
  ASSUME IInv, NEW c \in Cores, NEW d \in Cores,
         Holds(c) \/ Leaving(c), Holds(d) \/ Leaving(d)
  PROVE  c = d
  BY CoreIdAssumption DEF IInv, Token

\* The invariant holds when no core holds the mutex.
LEMMA InitInv == Init => IInv
  BY CoreIdAssumption DEF Init, IInv, TypeOK, Token, Holds, Leaving

\* A core that finds the word 0 is the only owner afterwards.
LEMMA TestsetInv ==
  ASSUME IInv, NEW c \in Cores, pc[c] \in {"idle", "locking"},
         NEW other \in {"idle", "locking"}, Testset(c, "critical", other)
  PROVE  IInv'
<1> USE CoreIdAssumption DEF IInv
<1>1. TypeOK'
  BY DEF Testset, TypeOK
<1>2. CASE word # 0
  BY <1>2 DEF Testset, TypeOK, Token, Holds, Leaving
<1>3. CASE word = 0
  BY <1>3 DEF Testset, TypeOK, Token, Holds, Leaving
<1> QED
  BY <1>1, <1>2, <1>3

\* Every step preserves the invariant.
LEMMA NextInv == IInv /\ [Next]_vars => IInv'
<1> SUFFICES ASSUME IInv, [Next]_vars PROVE IInv'
  OBVIOUS
<1> USE CoreIdAssumption
<1>1. ASSUME NEW c \in Cores, MutexInit(c) PROVE IInv'
  BY <1>1 DEF MutexInit, IInv, TypeOK, Token, Holds, Leaving
<1>2. ASSUME NEW c \in Cores, Lock(c) PROVE IInv'
  BY <1>2 DEF Lock, IInv, TypeOK, Token, Holds, Leaving
<1>3. ASSUME NEW c \in Cores, LockLoop(c) PROVE IInv'
  BY <1>3, TestsetInv DEF LockLoop
<1>4. ASSUME NEW c \in Cores, Trylock(c) PROVE IInv'
  BY <1>4, TestsetInv DEF Trylock
<1>5. ASSUME NEW c \in Cores, Unlock(c) PROVE IInv'
  <2>1. clears[c] = 0
    BY <1>5 DEF Unlock, IInv, TypeOK, Token, Holds, Leaving
  <2>2. TypeOK'
    BY <1>5, <2>1 DEF Unlock, IInv, TypeOK
  <2>3. Token'
    BY <1>5, <2>1 DEF Unlock, IInv, TypeOK, Token, Holds, Leaving
  <2> QED
    BY <2>2, <2>3 DEF IInv
<1>6. ASSUME NEW c \in Cores, DeliverClear(c) PROVE IInv'
  <2>1. Leaving(c) /\ ~Holds(c)
    BY <1>6 DEF DeliverClear, IInv, TypeOK, Token, Holds, Leaving
  <2>2. TypeOK'
    BY <1>6, <2>1 DEF DeliverClear, IInv, TypeOK, Leaving
  <2>3. ASSUME NEW d \in Cores, d # c PROVE ~Holds(d) /\ ~Leaving(d)
    BY <2>1, <2>3, OneOwner
  <2>4. Token'
    BY <1>6, <2>1, <2>3 DEF DeliverClear, IInv, TypeOK, Token, Holds, Leaving
  <2> QED
    BY <2>2, <2>4 DEF IInv
<1>7. CASE UNCHANGED vars
  BY <1>7 DEF vars, IInv, TypeOK, Token, Holds, Leaving
<1> QED
  BY <1>1, <1>2, <1>3, <1>4, <1>5, <1>6, <1>7 DEF Next

\* The invariant holds in every reachable state.
LEMMA Invariance == Spec => []IInv
<1>1. IInv /\ [Next]_vars => IInv'
  BY NextInv
<1> QED
  BY InitInv, <1>1, PTL DEF Spec

-----------------------------------------------------------------------------
\* Type correctness of the mutex for every set of cores.
THEOREM TypeCorrect == Spec => []TypeOK
<1>1. IInv => TypeOK
  BY DEF IInv
<1> QED
  BY Invariance, <1>1, PTL

\* e_mutex_lock, e_mutex_trylock and e_mutex_unlock exclude each other for
\* every set of cores, although unlocking stores arrive late.
THEOREM Exclusion == Spec => []MutualExclusion
<1>1. IInv => MutualExclusion
  BY OneOwner DEF MutualExclusion, Holds
<1> QED
  BY Invariance, <1>1, PTL

\* A late unlocking store finds the word still naming the core that posted it
\* and no core in its critical section.
THEOREM ClearIsOwn == Spec => ClearsOwnLock
<1>1. ASSUME IInv, NEW c \in Cores, DeliverClear(c)
      PROVE  word = CoreId[c] /\ \A d \in Cores : pc[d] # "critical"
  <2>1. Leaving(c) /\ ~Holds(c)
    BY <1>1 DEF DeliverClear, IInv, TypeOK, Token, Holds, Leaving
  <2>2. ASSUME NEW d \in Cores PROVE ~Holds(d)
    BY <1>1, <2>1, OneOwner
  <2> QED
    BY <1>1, <2>1, <2>2 DEF IInv, Token, Holds
<1>2. IInv /\ [Next]_vars =>
        [\A c \in Cores : DeliverClear(c) =>
           word = CoreId[c] /\ \A d \in Cores : pc[d] # "critical"]_vars
  BY <1>1
<1> QED
  BY Invariance, <1>2, PTL DEF Spec, ClearsOwnLock

-----------------------------------------------------------------------------
(* The table of shared regions: steps of the host.                          *)

\* The magic number is written once.
LEMMA HostInitKeeps == Shm!VInv /\ Shm!HostInit => Shm!VInv'
  BY DEF Shm!HostInit, Shm!VInv, Shm!TypeOK, Shm!Table, Shm!Filling, Shm!Watched, Shm!Found, Shm!AttachWhole,
     Shm!Named

\* The host picks a slot for a name that no region has.
LEMMA AllocKeeps == ASSUME Shm!VInv, NEW n \in ShmNames, NEW s \in ShmSegments, Shm!Alloc(n, s) PROVE Shm!VInv'
<1>1. /\ magic /\ host.pc = "idle" /\ allocs < ShmAllocs /\ allocs' = allocs + 1 /\ Shm!Of(regions, n) = {}
      /\ UNCHANGED <<magic, regions, core, held>>
  BY DEF Shm!Alloc
<1>2. PICK i \in Shm!FreeSlots : host' = [pc |-> "name", slot |-> i, name |-> n, seg |-> s]
  BY DEF Shm!Alloc
<1>3. i \in 1 .. ShmSlots /\ ~regions[i].valid
  BY DEF Shm!FreeSlots
<1>4. \A j \in 1 .. ShmSlots : ~Shm!Named(j, n)
  BY <1>1 DEF Shm!Of, Shm!Named
<1>5. Shm!TypeOK'
  BY <1>1, <1>2, <1>3, ShmConstants DEF Shm!VInv, Shm!TypeOK, Shm!AnyName, Shm!AnySeg
<1>6. Shm!Table' /\ Shm!Filling'
  BY <1>1, <1>2, <1>3, <1>4 DEF Shm!VInv, Shm!Table, Shm!Filling, Shm!Named
<1>7. Shm!Watched' /\ Shm!Found' /\ Shm!AttachWhole'
  BY <1>1 DEF Shm!VInv, Shm!Watched, Shm!Found, Shm!AttachWhole, Shm!Named
<1>. QED
  BY <1>1, <1>5, <1>6, <1>7 DEF Shm!VInv

\* What the history says after the host has changed the table.
LEMMA WatchEffect ==
  ASSUME Shm!VInv, Shm!Watch(regions'), core' = core
  PROVE  /\ held'.segs = held.segs \cup Shm!Of(regions', core.name)
         /\ \A i \in 1 .. ShmSlots : regions'[i].valid /\ regions'[i].name = core.name => regions'[i].addr \in held'.segs
         /\ held.segs \subseteq held'.segs
         /\ held'.always = (held.always /\ \E i \in 1 .. ShmSlots : regions'[i].valid /\ regions'[i].name = core.name)
         /\ held'.kept = (held.kept /\ \A i \in 1 .. ShmSlots : regions[i].valid => regions'[i].valid)
         /\ regions' \in [1 .. ShmSlots -> Shm!Region] =>
              held' \in [segs : SUBSET Shm!AnySeg, always : BOOLEAN, kept : BOOLEAN]
<1>1. /\ held'.segs = held.segs \cup Shm!Of(regions', core.name)
      /\ held'.always = (held.always /\ Shm!Of(regions', core.name) # {})
      /\ held'.kept = (held.kept /\ \A i \in 1 .. ShmSlots : regions[i].valid => regions'[i].valid)
      /\ DOMAIN held' = {"segs", "always", "kept"}
  BY DEF Shm!Watch
<1>2. /\ \A i \in 1 .. ShmSlots : regions'[i].valid /\ regions'[i].name = core.name =>
           regions'[i].addr \in Shm!Of(regions', core.name)
      /\ Shm!Of(regions', core.name) # {} <=> \E i \in 1 .. ShmSlots : regions'[i].valid /\ regions'[i].name = core.name
  BY DEF Shm!Of
<1>3. ASSUME regions' \in [1 .. ShmSlots -> Shm!Region]
      PROVE  held' \in [segs : SUBSET Shm!AnySeg, always : BOOLEAN, kept : BOOLEAN]
  <2>1. Shm!Of(regions', core.name) \subseteq Shm!AnySeg
    BY <1>3 DEF Shm!Of, Shm!Region
  <2>2. held.segs \cup Shm!Of(regions', core.name) \in SUBSET Shm!AnySeg
    BY <2>1 DEF Shm!VInv, Shm!TypeOK
  <2>. QED
    BY <2>2 DEF Shm!Watch
<1>. QED
  BY <1>1, <1>2, <1>3

\* The host writes one field of the slot it has picked.
LEMMA HostStepKeeps ==
  ASSUME Shm!VInv, NEW at1, NEW next, NEW f, NEW v, Shm!HostStep(at1, next, f, v),
         \/ at1 = "name" /\ next = "addr" /\ f = "name" /\ v = host.name
         \/ at1 = "addr" /\ next = "size" /\ f = "addr" /\ v = host.seg
         \/ at1 = "size" /\ next = "valid" /\ f = "size" /\ v = host.seg
         \/ at1 = "valid" /\ next = "idle" /\ f = "valid" /\ v = TRUE
  PROVE  Shm!VInv'
<1>. DEFINE k == host.slot
<1>1. /\ host.pc = at1 /\ regions' = [regions EXCEPT ![k][f] = v] /\ Shm!Watch(regions')
      /\ host' = (IF next = "idle" THEN Shm!Quiet ELSE [host EXCEPT !.pc = next])
      /\ UNCHANGED <<magic, core, allocs>>
  BY DEF Shm!HostStep
<1>2. /\ k \in 1 .. ShmSlots /\ host.name \in Shm!AnyName /\ host.seg \in Shm!AnySeg /\ host.pc # "idle" /\ magic
      /\ ~regions[k].valid /\ \A i \in 1 .. ShmSlots : ~Shm!Named(i, host.name)
      /\ host.pc # "name" => regions[k].name = host.name
      /\ host.pc \in {"size", "valid"} => regions[k].addr = host.seg
      /\ host.pc = "valid" => regions[k].size = host.seg
  BY <1>1, ShmConstants DEF Shm!VInv, Shm!TypeOK, Shm!Filling, Shm!Table
<1>3. regions \in [1 .. ShmSlots -> Shm!Region]
  BY DEF Shm!VInv, Shm!TypeOK
<1>. HIDE DEF k
<1>4. /\ \A i \in 1 .. ShmSlots : regions'[i].valid /\ regions'[i].name = core.name => regions'[i].addr \in held'.segs
      /\ held.segs \subseteq held'.segs
      /\ held'.always = (held.always /\ \E i \in 1 .. ShmSlots : regions'[i].valid /\ regions'[i].name = core.name)
      /\ held'.kept = (held.kept /\ \A i \in 1 .. ShmSlots : regions[i].valid => regions'[i].valid)
      /\ regions' \in [1 .. ShmSlots -> Shm!Region] =>
           held' \in [segs : SUBSET Shm!AnySeg, always : BOOLEAN, kept : BOOLEAN]
  BY <1>1, WatchEffect
<1>5. /\ regions' \in [1 .. ShmSlots -> Shm!Region]
      /\ \A i \in 1 .. ShmSlots : i # k => regions'[i] = regions[i]
      /\ regions'[k].valid = (f = "valid")
      /\ regions'[k].name = IF f = "name" THEN host.name ELSE regions[k].name
      /\ regions'[k].addr = IF f = "addr" THEN host.seg ELSE regions[k].addr
      /\ regions'[k].size = IF f = "size" THEN host.seg ELSE regions[k].size
  BY <1>1, <1>2, <1>3 DEF Shm!Region
<1>6. \A i \in 1 .. ShmSlots : regions[i].valid => i # k /\ regions'[i] = regions[i]
  BY <1>2, <1>5
<1>7. held'.kept = held.kept
  BY <1>4, <1>6 DEF Shm!VInv, Shm!TypeOK
<1>8. /\ host' \in [pc : {"idle", "name", "addr", "size", "valid"}, slot : 0 .. ShmSlots, name : Shm!AnyName,
                    seg : Shm!AnySeg]
      /\ host'.pc = next
      /\ next # "idle" => host'.slot = k /\ host'.name = host.name /\ host'.seg = host.seg
  BY <1>1, ShmConstants DEF Shm!VInv, Shm!TypeOK, Shm!Quiet, Shm!AnyName, Shm!AnySeg, Shm!NoSeg, k
<1>9. Shm!TypeOK'
  BY <1>1, <1>2, <1>4, <1>5, <1>8, ShmConstants DEF Shm!VInv, Shm!TypeOK
<1>10. \A i \in 1 .. ShmSlots, n \in Shm!AnyName :
         Shm!Named(i, n)' <=> Shm!Named(i, n) \/ (f = "valid" /\ i = k /\ n = host.name)
  BY <1>1, <1>2, <1>5, <1>6 DEF Shm!Named
<1>11. Shm!Table'
  <2>1. \A i \in 1 .. ShmSlots : regions'[i].valid => regions'[i].addr = regions'[i].size
    BY <1>1, <1>2, <1>5, <1>6 DEF Shm!VInv, Shm!Table
  <2>2. ASSUME NEW i \in 1 .. ShmSlots, NEW j \in 1 .. ShmSlots, Shm!Named(i, regions[j].name)', regions'[j].valid
        PROVE  i = j
    <3>1. regions'[j].name \in Shm!AnyName
      BY <1>5 DEF Shm!Region
    <3>2. Shm!Named(i, regions'[j].name) \/ (f = "valid" /\ i = k /\ regions'[j].name = host.name)
      BY <1>10, <2>2, <3>1 DEF Shm!Named
    <3>3. j # k => regions'[j] = regions[j] /\ regions[j].valid
      BY <1>5, <2>2
    <3>4. j = k => f = "valid" /\ regions'[j].name = host.name
      BY <1>1, <1>2, <1>5, <2>2
    <3>5. j # k /\ Shm!Named(i, regions'[j].name) => i = j
      BY <3>3 DEF Shm!VInv, Shm!Table
    <3>6. j # k => regions'[j].name # host.name
      BY <1>2, <3>3 DEF Shm!Named
    <3>. QED
      BY <1>2, <3>2, <3>4, <3>5, <3>6
  <2>. QED
    BY <1>1, <1>2, <2>1, <2>2 DEF Shm!Table
<1>12. Shm!Filling'
  BY <1>1, <1>2, <1>5, <1>8, <1>10 DEF Shm!Filling
<1>13. core.name \in Shm!AnyName /\ (core.pc \in Shm!Looking => core.slot \in 1 .. ShmSlots)
       /\ {held.always, held.kept} \subseteq BOOLEAN
  BY ShmConstants DEF Shm!VInv, Shm!TypeOK, Shm!CoreState
<1>14. core.pc \in Shm!Looking \cup {"magic"} /\ held.always =>
         /\ core.name # host.name
         /\ \A i \in 1 .. ShmSlots : Shm!Named(i, core.name)' <=> Shm!Named(i, core.name)
  <2>. SUFFICES ASSUME core.pc \in Shm!Looking \cup {"magic"}, held.always
                PROVE  /\ core.name # host.name
                       /\ \A i \in 1 .. ShmSlots : Shm!Named(i, core.name)' <=> Shm!Named(i, core.name)
    OBVIOUS
  <2>1. \E i \in 1 .. ShmSlots : Shm!Named(i, core.name)
    BY DEF Shm!VInv, Shm!Watched
  <2>2. core.name # host.name
    BY <1>2, <2>1
  <2>. QED
    BY <1>1, <1>10, <1>13, <2>2
<1>15. Shm!Watched'
  BY <1>1, <1>4, <1>13, <1>14 DEF Shm!VInv, Shm!Watched, Shm!Named
<1>16. Shm!Found'
  <2>1. ASSUME core.pc = "name", held'.kept \/ (held'.always /\ regions'[core.slot].name = core.name)
        PROVE  regions'[core.slot].valid
    <3>1. CASE held.kept
      BY <1>6, <1>13, <2>1, <3>1 DEF Shm!VInv, Shm!Found, Shm!Looking
    <3>2. CASE held.always /\ regions'[core.slot].name = core.name
      <4>1. core.slot = k => f = "valid" \/ regions[k].name = core.name
        BY <1>1, <1>2, <1>5, <1>14, <2>1, <3>2 DEF Shm!Looking
      <4>2. core.slot \in 1 .. ShmSlots
        BY <1>13, <2>1 DEF Shm!Looking
      <4>3. regions[core.slot].name = core.name => regions[core.slot].valid
        BY <2>1, <3>2 DEF Shm!VInv, Shm!Found
      <4>. QED
        BY <1>2, <1>5, <1>6, <3>2, <4>1, <4>2, <4>3
    <3>. QED
      BY <1>4, <1>7, <2>1, <3>1, <3>2
  <2>2. ASSUME core.pc \in {"addr", "size"}, held'.always \/ held'.kept
        PROVE  /\ regions'[core.slot].valid /\ regions'[core.slot].name = core.name
               /\ core.pc = "size" => core.addr = regions'[core.slot].addr
    <3>1. /\ regions[core.slot].valid /\ regions[core.slot].name = core.name
          /\ core.pc = "size" => core.addr = regions[core.slot].addr
      BY <1>4, <1>7, <2>2 DEF Shm!VInv, Shm!Found, Shm!Named
    <3>2. core.slot \in 1 .. ShmSlots
      BY <1>13, <2>2 DEF Shm!Looking
    <3>. QED
      BY <1>6, <3>1, <3>2
  <2>. QED
    BY <1>1, <2>1, <2>2 DEF Shm!Found, Shm!Named
<1>17. Shm!AttachWhole' /\ (core'.pc = "err" => ~held'.always)
  BY <1>1, <1>4, <1>7 DEF Shm!VInv, Shm!AttachWhole
<1>. QED
  BY <1>9, <1>11, <1>12, <1>15, <1>16, <1>17 DEF Shm!VInv

\* The host retires a region.
LEMMA ReleaseKeeps == ASSUME Shm!VInv, NEW k \in 1 .. ShmSlots, Shm!Release(k) PROVE Shm!VInv'
<1>1. /\ host.pc = "idle" /\ regions[k].valid /\ regions' = [regions EXCEPT ![k].valid = FALSE]
      /\ Shm!Watch(regions') /\ UNCHANGED <<magic, host, core, allocs>>
  BY DEF Shm!Release
<1>2. regions \in [1 .. ShmSlots -> Shm!Region]
  BY DEF Shm!VInv, Shm!TypeOK
<1>3. /\ \A i \in 1 .. ShmSlots : regions'[i].valid /\ regions'[i].name = core.name => regions'[i].addr \in held'.segs
      /\ held.segs \subseteq held'.segs
      /\ held'.always = (held.always /\ \E i \in 1 .. ShmSlots : regions'[i].valid /\ regions'[i].name = core.name)
      /\ held'.kept = (held.kept /\ \A i \in 1 .. ShmSlots : regions[i].valid => regions'[i].valid)
      /\ regions' \in [1 .. ShmSlots -> Shm!Region] =>
           held' \in [segs : SUBSET Shm!AnySeg, always : BOOLEAN, kept : BOOLEAN]
  BY <1>1, WatchEffect
<1>4. /\ regions' \in [1 .. ShmSlots -> Shm!Region]
      /\ \A i \in 1 .. ShmSlots : i # k => regions'[i] = regions[i]
      /\ ~regions'[k].valid
      /\ regions'[k].name = regions[k].name
  BY <1>1, <1>2 DEF Shm!Region
<1>5. held'.kept = FALSE
  BY <1>1, <1>3, <1>4
<1>6. /\ core.name \in Shm!AnyName /\ (core.pc \in Shm!Looking => core.slot \in 1 .. ShmSlots)
      /\ held.always \in BOOLEAN
  BY ShmConstants DEF Shm!VInv, Shm!TypeOK, Shm!CoreState
<1>7. \A i \in 1 .. ShmSlots, n \in Shm!AnyName : Shm!Named(i, n)' <=> Shm!Named(i, n) /\ i # k
  BY <1>1, <1>4 DEF Shm!Named
<1>8. held'.always => regions[k].name # core.name
  <2>. SUFFICES ASSUME held'.always, regions[k].name = core.name PROVE FALSE
    OBVIOUS
  <2>1. PICK i \in 1 .. ShmSlots : regions'[i].valid /\ regions'[i].name = core.name
    BY <1>3
  <2>2. i # k /\ Shm!Named(i, regions[k].name)
    BY <1>4, <2>1 DEF Shm!Named
  <2>. QED
    BY <1>1, <2>2 DEF Shm!VInv, Shm!Table
<1>9. Shm!TypeOK'
  BY <1>1, <1>3, <1>4 DEF Shm!VInv, Shm!TypeOK
<1>10. Shm!Table' /\ Shm!Filling'
  BY <1>1, <1>4 DEF Shm!VInv, Shm!Table, Shm!Filling, Shm!Named
<1>11. Shm!Watched'
  BY <1>1, <1>3, <1>4, <1>6, <1>7, <1>8 DEF Shm!VInv, Shm!Watched, Shm!Named
<1>12. Shm!Found'
  BY <1>1, <1>3, <1>4, <1>5, <1>6, <1>8 DEF Shm!VInv, Shm!Found, Shm!Named, Shm!Looking
<1>13. Shm!AttachWhole' /\ (core'.pc = "err" => ~held'.always)
  BY <1>1, <1>3, <1>5, <1>6 DEF Shm!VInv, Shm!AttachWhole
<1>. QED
  BY <1>9, <1>10, <1>11, <1>12, <1>13 DEF Shm!VInv

-----------------------------------------------------------------------------
(* The table of shared regions: steps of the core.                          *)

\* The places where a core may be.
LEMMA CorePlaces ==
  /\ {"idle", "magic", "ok", "err", "released", "unreleased", "valid", "name", "addr", "size"} \subseteq Shm!CorePcs
  /\ Shm!Looking \subseteq Shm!CorePcs
  BY DEF Shm!CorePcs, Shm!Looking

\* A core goes on to p.
LEMMA CoreGoes ==
  ASSUME NEW c \in Shm!CoreState, NEW p \in Shm!CorePcs, NEW d, d = [c EXCEPT !.pc = p]
  PROVE  /\ d \in Shm!CoreState
         /\ d.pc = p /\ d.slot = c.slot /\ d.name = c.name /\ d.addr = c.addr /\ d.size = c.size
  BY DEF Shm!CoreState

\* A core that rests has no region.
LEMMA RestTypes == Shm!Rest \in Shm!CoreState
<1>1. 0 \in 0 .. ShmSlots /\ "none" \in Shm!AnyName /\ Shm!NoSeg \in Shm!AnySeg /\ "idle" \in Shm!CorePcs
  BY CorePlaces, ShmConstants DEF Shm!AnyName, Shm!AnySeg
<1>. QED
  BY <1>1 DEF Shm!Rest, Shm!CoreState

\* A call begins.
LEMMA AttachKeeps == ASSUME Shm!VInv, NEW n \in ShmNames, Shm!Attach(n) PROVE Shm!VInv'
<1>1. /\ core' = [Shm!Rest EXCEPT !.pc = "magic", !.name = n]
      /\ held' = [segs |-> Shm!Of(regions, n), always |-> Shm!Of(regions, n) # {}, kept |-> TRUE]
      /\ UNCHANGED <<magic, regions, host, allocs>>
  BY DEF Shm!Attach
<1>2. regions \in [1 .. ShmSlots -> Shm!Region]
  BY DEF Shm!VInv, Shm!TypeOK
<1>3. /\ Shm!Of(regions, n) \subseteq Shm!AnySeg
      /\ \A i \in 1 .. ShmSlots : Shm!Named(i, n) => regions[i].addr \in Shm!Of(regions, n)
      /\ Shm!Of(regions, n) # {} => \E i \in 1 .. ShmSlots : Shm!Named(i, n)
  BY <1>2 DEF Shm!Of, Shm!Named, Shm!Region
<1>4. core'.pc = "magic" /\ core'.name = n
  BY <1>1 DEF Shm!Rest
<1>5. Shm!TypeOK'
  <2>1. core' \in Shm!CoreState
    <3>1. n \in Shm!AnyName /\ "magic" \in Shm!CorePcs
      BY CorePlaces DEF Shm!AnyName
    <3>. QED
      BY <1>1, <3>1, RestTypes DEF Shm!CoreState
  <2>2. held' \in [segs : SUBSET Shm!AnySeg, always : BOOLEAN, kept : BOOLEAN]
    BY <1>1, <1>3
  <2>. QED
    BY <1>1, <1>4, <2>1, <2>2 DEF Shm!VInv, Shm!TypeOK, Shm!Looking
<1>6. Shm!Table' /\ Shm!Filling'
  BY <1>1 DEF Shm!VInv, Shm!Table, Shm!Filling, Shm!Named
<1>7. Shm!Watched'
  BY <1>1, <1>3, <1>4 DEF Shm!Watched, Shm!Named
<1>8. Shm!Found' /\ Shm!AttachWhole'
  BY <1>4 DEF Shm!Found, Shm!AttachWhole
<1>. QED
  BY <1>4, <1>5, <1>6, <1>7, <1>8 DEF Shm!VInv

\* The core goes on to c and leaves the rest alone.
LEMMA GoKeeps ==
  ASSUME Shm!VInv, NEW c, Shm!Go(c),
         c \in Shm!CoreState,
         c.pc \in Shm!Looking => c.slot # 0
  PROVE  /\ core' = c /\ UNCHANGED <<magic, regions, host, allocs, held>>
         /\ Shm!TypeOK' /\ Shm!Table' /\ Shm!Filling'
  BY DEF Shm!Go, Shm!VInv, Shm!TypeOK, Shm!Table, Shm!Filling, Shm!Named

\* The core is done, or releases.
LEMMA RestKeeps == ASSUME Shm!VInv, Shm!Returned \/ Shm!e_shm_release PROVE Shm!VInv'
<1>1. PICK c : Shm!Go(c) /\ c \in {[Shm!Rest EXCEPT !.pc = q] : q \in {"idle", "released", "unreleased"}}
  BY DEF Shm!Returned, Shm!e_shm_release, Shm!Rest
<1>2. /\ c \in Shm!CoreState
      /\ c.pc \in {"idle", "released", "unreleased"}
  <2>1. PICK q \in {"idle", "released", "unreleased"} : c = [Shm!Rest EXCEPT !.pc = q]
    BY <1>1
  <2>. QED
    BY <2>1, CorePlaces, RestTypes, CoreGoes
<1>3. core' = c /\ Shm!TypeOK' /\ Shm!Table' /\ Shm!Filling'
  BY <1>1, <1>2, GoKeeps DEF Shm!Looking
<1>4. Shm!Watched' /\ Shm!Found' /\ Shm!AttachWhole'
  BY <1>2, <1>3 DEF Shm!Watched, Shm!Found, Shm!AttachWhole, Shm!Looking
<1>. QED
  BY <1>2, <1>3, <1>4 DEF Shm!VInv

\* The magic number is looked at.
LEMMA MagicKeeps == ASSUME Shm!VInv, Shm!check_shmtable PROVE Shm!VInv'
<1>. DEFINE c == IF magic THEN [core EXCEPT !.pc = "valid", !.slot = 1] ELSE [core EXCEPT !.pc = "err"]
<1>1. core.pc = "magic" /\ Shm!Go(c)
  BY DEF Shm!check_shmtable
<1>2. /\ c \in Shm!CoreState
      /\ c.name = core.name
      /\ magic => c.pc = "valid" /\ c.slot = 1
      /\ ~magic => c.pc = "err"
  <2>1. core \in Shm!CoreState
    BY DEF Shm!VInv, Shm!TypeOK
  <2>2. 1 \in 0 .. ShmSlots /\ {"valid", "err"} \subseteq Shm!CorePcs
    BY CorePlaces, ShmConstants
  <2>3. CASE magic
    <3>1. c = [core EXCEPT !.pc = "valid", !.slot = 1]
      BY <2>3
    <3>. HIDE DEF c
    <3>2. c \in Shm!CoreState /\ c.pc = "valid" /\ c.slot = 1 /\ c.name = core.name
      BY <2>1, <2>2, <3>1 DEF Shm!CoreState
    <3>. QED
      BY <2>3, <3>2
  <2>4. CASE ~magic
    BY <2>1, <2>2, <2>4, CoreGoes
  <2>. QED
    BY <2>3, <2>4
<1>. HIDE DEF c
<1>3. c.pc \in Shm!Looking => c.slot # 0
  BY <1>2 DEF Shm!Looking
<1>4. core' = c /\ Shm!TypeOK' /\ Shm!Table' /\ Shm!Filling' /\ UNCHANGED <<magic, regions, host, allocs, held>>
  BY <1>1, <1>2, <1>3, GoKeeps
<1>5. /\ \A i \in 1 .. ShmSlots : Shm!Named(i, core.name) => regions[i].addr \in held.segs
      /\ held.always => \E i \in 1 .. ShmSlots : Shm!Named(i, core.name)
  BY <1>1 DEF Shm!VInv, Shm!Watched
<1>6. ~magic => ~held.always
  BY <1>5 DEF Shm!VInv, Shm!Table, Shm!Named
<1>7. Shm!Watched' /\ Shm!Found' /\ Shm!AttachWhole'
  BY <1>2, <1>4, <1>5, <1>6 DEF Shm!Watched, Shm!Found, Shm!AttachWhole, Shm!Looking, Shm!Named
<1>. QED
  BY <1>2, <1>4, <1>6, <1>7 DEF Shm!VInv

\* One look at a slot.
LEMMA LookupKeeps == ASSUME Shm!VInv, Shm!shm_lookup_region PROVE Shm!VInv'
<1>. DEFINE k == core.slot
<1>1. /\ core.pc \in {"valid", "name"} /\ k \in 1 .. ShmSlots
      /\ core \in Shm!CoreState
      /\ regions \in [1 .. ShmSlots -> Shm!Region] /\ held.always \in BOOLEAN /\ held.kept \in BOOLEAN
  <2>1. core.pc \in {"valid", "name"}
    BY DEF Shm!shm_lookup_region
  <2>. QED
    BY <2>1, ShmConstants DEF Shm!VInv, Shm!TypeOK, Shm!CoreState, Shm!Looking
<1>2. /\ \A i \in 1 .. ShmSlots : Shm!Named(i, core.name) => regions[i].addr \in held.segs
      /\ held.always => \E i \in 1 .. ShmSlots : Shm!Named(i, core.name)
      /\ held.always => \A i \in 1 .. ShmSlots : Shm!Named(i, core.name) => i >= k
  BY <1>1 DEF Shm!VInv, Shm!Watched, Shm!Looking
<1>3. CASE core.pc = "valid" /\ regions[k].valid
  <2>. DEFINE c == [core EXCEPT !.pc = "name"]
  <2>1. Shm!Go(c)
    BY <1>3 DEF Shm!shm_lookup_region
  <2>2. /\ c \in Shm!CoreState
        /\ c.pc = "name" /\ c.slot = k /\ c.slot # 0 /\ c.name = core.name
    BY <1>1, CorePlaces, CoreGoes
  <2>. HIDE DEF c
  <2>3. core' = c /\ Shm!TypeOK' /\ Shm!Table' /\ Shm!Filling' /\ UNCHANGED <<magic, regions, host, allocs, held>>
    BY <2>1, <2>2, GoKeeps
  <2>. QED
    BY <1>2, <1>3, <2>2, <2>3 DEF Shm!VInv, Shm!Watched, Shm!Found, Shm!AttachWhole, Shm!Named
<1>4. CASE core.pc = "name" /\ regions[k].name = core.name
  <2>. DEFINE c == [core EXCEPT !.pc = "addr"]
  <2>1. Shm!Go(c)
    BY <1>4 DEF Shm!shm_lookup_region
  <2>2. /\ c \in Shm!CoreState
        /\ c.pc = "addr" /\ c.slot = k /\ c.slot # 0 /\ c.name = core.name
    BY <1>1, CorePlaces, CoreGoes
  <2>. HIDE DEF c
  <2>3. core' = c /\ Shm!TypeOK' /\ Shm!Table' /\ Shm!Filling' /\ UNCHANGED <<magic, regions, host, allocs, held>>
    BY <2>1, <2>2, GoKeeps
  <2>4. held.always \/ held.kept => Shm!Named(k, core.name)
    BY <1>4 DEF Shm!VInv, Shm!Found, Shm!Named
  <2>. QED
    BY <1>2, <2>2, <2>3, <2>4 DEF Shm!VInv, Shm!Watched, Shm!Found, Shm!AttachWhole, Shm!Named
<1>5. CASE \/ core.pc = "valid" /\ ~regions[k].valid
           \/ core.pc = "name" /\ regions[k].name # core.name
  <2>. DEFINE c == Shm!NextSlot
  <2>1. Shm!Go(c)
    BY <1>5 DEF Shm!shm_lookup_region
  <2>2. /\ c \in Shm!CoreState
        /\ c.slot # 0 /\ c.name = core.name
        /\ \/ k = ShmSlots /\ c.pc = "err"
           \/ k # ShmSlots /\ c.pc = "valid" /\ c.slot = k + 1
    <3>1. "valid" \in Shm!CorePcs
      BY CorePlaces
    <3>2. CASE k = ShmSlots
      BY <1>1, <3>2, CorePlaces, CoreGoes DEF Shm!NextSlot
    <3>3. CASE k # ShmSlots
      <4>. DEFINE n == k + 1
      <4>1. n # 0 /\ n \in 0 .. ShmSlots
        BY <1>1, <3>3, ShmConstants
      <4>2. c = [core EXCEPT !.pc = "valid", !.slot = n]
        BY <3>3 DEF Shm!NextSlot
      <4>. HIDE DEF n, c
      <4>3. c \in Shm!CoreState /\ c.pc = "valid" /\ c.slot = n /\ c.name = core.name
        BY <1>1, <3>1, <4>1, <4>2 DEF Shm!CoreState
      <4>. QED
        BY <3>3, <4>1, <4>3 DEF n
    <3>. QED
      BY <3>2, <3>3
  <2>. HIDE DEF c
  <2>3. core' = c /\ Shm!TypeOK' /\ Shm!Table' /\ Shm!Filling' /\ UNCHANGED <<magic, regions, host, allocs, held>>
    BY <2>1, <2>2, GoKeeps
  <2>4. ~Shm!Named(k, core.name)
    BY <1>5 DEF Shm!Named
  <2>5. held.always => \A i \in 1 .. ShmSlots : Shm!Named(i, core.name) => i >= k + 1
    BY <1>1, <1>2, <2>4
  <2>6. c.pc = "err" => ~held.always
    BY <1>1, <1>2, <2>2, <2>5, ShmConstants
  <2>. QED
    BY <1>2, <2>2, <2>3, <2>5, <2>6 DEF Shm!VInv, Shm!Watched, Shm!Found, Shm!AttachWhole, Shm!Named
<1>. QED
  BY <1>1, <1>3, <1>4, <1>5

\* The region is read, field by field.
LEMMA ReadKeeps == ASSUME Shm!VInv, Shm!e_shm_attach PROVE Shm!VInv'
<1>. DEFINE k == core.slot
<1>1. /\ core.pc \in {"addr", "size"} /\ k \in 1 .. ShmSlots
      /\ core \in Shm!CoreState
      /\ regions \in [1 .. ShmSlots -> Shm!Region]
  <2>1. core.pc \in {"addr", "size"}
    BY DEF Shm!e_shm_attach
  <2>. QED
    BY <2>1, ShmConstants DEF Shm!VInv, Shm!TypeOK, Shm!CoreState, Shm!Looking
<1>2. /\ \A i \in 1 .. ShmSlots : Shm!Named(i, core.name) => regions[i].addr \in held.segs
      /\ held.always => \E i \in 1 .. ShmSlots : Shm!Named(i, core.name)
  BY <1>1 DEF Shm!VInv, Shm!Watched, Shm!Looking
<1>3. held.always \/ held.kept =>
        /\ Shm!Named(k, core.name)
        /\ core.pc = "size" => core.addr = regions[k].addr
  BY <1>1 DEF Shm!VInv, Shm!Found
<1>4. Shm!Named(k, core.name) => regions[k].size = regions[k].addr
  BY <1>1 DEF Shm!VInv, Shm!Table, Shm!Named
<1>5. CASE core.pc = "addr"
  <2>. DEFINE c == [core EXCEPT !.pc = "size", !.addr = regions[k].addr]
  <2>1. Shm!Go(c)
    BY <1>5 DEF Shm!e_shm_attach
  <2>2. /\ c \in Shm!CoreState
        /\ c.pc = "size" /\ c.slot = k /\ c.slot # 0 /\ c.name = core.name /\ c.addr = regions[k].addr
    <3>1. "size" \in Shm!CorePcs /\ regions[k].addr \in Shm!AnySeg
      BY <1>1, CorePlaces DEF Shm!Region
    <3>. DEFINE x == regions[k].addr
    <3>2. c = [core EXCEPT !.pc = "size", !.addr = x]
      OBVIOUS
    <3>. HIDE DEF x, c
    <3>3. c \in Shm!CoreState /\ c.pc = "size" /\ c.addr = x /\ c.slot = core.slot /\ c.name = core.name
      BY <1>1, <3>1, <3>2 DEF x, Shm!CoreState
    <3>. QED
      BY <1>1, <3>3 DEF x
  <2>. HIDE DEF c
  <2>3. core' = c /\ Shm!TypeOK' /\ Shm!Table' /\ Shm!Filling' /\ UNCHANGED <<magic, regions, host, allocs, held>>
    BY <2>1, <2>2, GoKeeps
  <2>. QED
    BY <1>2, <1>3, <2>2, <2>3 DEF Shm!VInv, Shm!Watched, Shm!Found, Shm!AttachWhole, Shm!Named
<1>6. CASE core.pc = "size"
  <2>. DEFINE c == [core EXCEPT !.pc = "ok", !.size = regions[k].size]
  <2>1. Shm!Go(c)
    BY <1>6 DEF Shm!e_shm_attach
  <2>2. /\ c \in Shm!CoreState
        /\ c.pc = "ok" /\ c.addr = core.addr /\ c.size = regions[k].size
    <3>1. "ok" \in Shm!CorePcs /\ regions[k].size \in Shm!AnySeg
      BY <1>1, CorePlaces DEF Shm!Region
    <3>. DEFINE x == regions[k].size
    <3>2. c = [core EXCEPT !.pc = "ok", !.size = x]
      OBVIOUS
    <3>. HIDE DEF x, c
    <3>3. c \in Shm!CoreState /\ c.pc = "ok" /\ c.size = x /\ c.addr = core.addr
      BY <1>1, <3>1, <3>2 DEF x, Shm!CoreState
    <3>. QED
      BY <3>3 DEF x
  <2>. HIDE DEF c
  <2>3. core' = c /\ Shm!TypeOK' /\ Shm!Table' /\ Shm!Filling' /\ UNCHANGED <<magic, regions, host, allocs, held>>
    BY <2>1, <2>2, GoKeeps DEF Shm!Looking
  <2>4. Shm!AttachWhole'
    BY <1>1, <1>2, <1>3, <1>4, <1>6, <2>2, <2>3 DEF Shm!AttachWhole
  <2>. QED
    BY <2>2, <2>3, <2>4 DEF Shm!VInv, Shm!Watched, Shm!Found, Shm!Looking
<1>. QED
  BY <1>1, <1>5, <1>6

-----------------------------------------------------------------------------
(* The part of the shared regions.                                          *)

\* At first no region is there and nobody looks.
LEMMA ViewInit == Shm!Init => Shm!VInv
<1>. SUFFICES ASSUME Shm!Init PROVE Shm!VInv
  OBVIOUS
<1>1. Shm!TypeOK
  <2>1. core \in Shm!CoreState /\ core.pc = "idle"
    BY RestTypes DEF Shm!Init, Shm!Rest
  <2>2. 0 \in 0 .. ShmSlots /\ 0 \in 0 .. ShmAllocs
    BY ShmConstants
  <2>. QED
    BY <2>1, <2>2 DEF Shm!Init, Shm!TypeOK, Shm!Free, Shm!Quiet, Shm!Region, Shm!AnyName, Shm!AnySeg,
       Shm!NoSeg, Shm!Looking
<1>. QED
  BY <1>1 DEF Shm!Init, Shm!VInv, Shm!Table, Shm!Filling, Shm!Watched, Shm!Found, Shm!AttachWhole, Shm!Named,
     Shm!Free, Shm!Quiet, Shm!Rest, Shm!Looking

\* No step of host or core breaks the invariant.
LEMMA ViewNext == ASSUME Shm!VInv, Shm!Next PROVE Shm!VInv'
<1>1. CASE Shm!HostInit \/ (\E n \in ShmNames, s \in ShmSegments : Shm!Alloc(n, s))
  BY <1>1, HostInitKeeps, AllocKeeps
<1>2. CASE Shm!shm_alloc_region
  BY <1>2, HostStepKeeps DEF Shm!shm_alloc_region
<1>3. CASE \E i \in 1 .. ShmSlots : Shm!Release(i)
  BY <1>3, ReleaseKeeps
<1>4. CASE \E n \in ShmNames : Shm!Attach(n)
  BY <1>4, AttachKeeps
<1>5. CASE Shm!check_shmtable \/ Shm!shm_lookup_region \/ Shm!e_shm_attach
  BY <1>5, MagicKeeps, LookupKeeps, ReadKeeps
<1>6. CASE Shm!e_shm_release \/ Shm!Returned
  BY <1>6, RestKeeps
<1>. QED
  BY <1>1, <1>2, <1>3, <1>4, <1>5, <1>6 DEF Shm!Next, Shm!Host, Shm!Core

\* The invariant of the shared regions, in the part of e-lib that has them.
LEMMA ViewInvariant == MCSpec => []InPart("shm", Shm!VInv)
<1>1. MCInit => InPart("shm", Shm!VInv)
  BY ViewInit DEF MCInit, InPart
<1>2. InPart("shm", Shm!VInv) /\ [MCNext]_<<vars, oneVars, idsVars, shmVars, dmaVars, part, sample>>
        => InPart("shm", Shm!VInv)'
  <2>. SUFFICES ASSUME part = "shm" => Shm!VInv, [MCNext]_<<vars, oneVars, idsVars, shmVars, dmaVars, part, sample>>,
                       part' = "shm"
                PROVE  Shm!VInv'
    BY DEF InPart
  <2>1. part = "shm" /\ Shm!VInv /\ (Shm!Next \/ UNCHANGED shmVars)
    BY DEF MCNext
  <2>2. CASE Shm!Next
    BY <2>1, <2>2, ViewNext
  <2>3. CASE UNCHANGED shmVars
    BY <2>1, <2>3 DEF shmVars, Shm!VInv, Shm!TypeOK, Shm!Table, Shm!Filling, Shm!Watched, Shm!Found,
       Shm!AttachWhole, Shm!Named
  <2>. QED
    BY <2>1, <2>2, <2>3
<1>. QED
  BY <1>1, <1>2, PTL DEF MCSpec

\* e_shm_attach needs no lock: a region that is there during the whole call is
\* found, and what is found is a region of that name as a whole.
THEOREM AttachedWhole == MCSpec => []AttachWhole
<1>1. InPart("shm", Shm!VInv) => AttachWhole
  BY DEF InPart, AttachWhole, Shm!VInv
<1>. QED
  BY <1>1, ViewInvariant, PTL

-----------------------------------------------------------------------------
(* One core *)

\* The calls a context has left.
LEMMA RestOf ==
  ASSUME NEW s, One!IsSeq(s), s # <<>>
  PROVE  /\ Len(s) \in Nat \ {0} /\ Head(s) = s[1] /\ One!IsSeq(Tail(s)) /\ Len(Tail(s)) = Len(s) - 1
         /\ \A k \in 1 .. Len(s) - 1 : Tail(s)[k] = s[k + 1]
<1>1. s \in Seq({s[k] : k \in 1 .. Len(s)})
  BY DEF One!IsSeq
<1>2. Len(s) \in Nat \ {0} /\ Head(s) = s[1]
  BY <1>1
<1>3. Tail(s) \in Seq({s[k] : k \in 1 .. Len(s)}) /\ Len(Tail(s)) = Len(s) - 1
  BY <1>1, <1>2
<1>4. \A k \in 1 .. Len(s) - 1 : Tail(s)[k] = s[k + 1]
  BY <1>1, <1>2
<1>5. Tail(s) = [k \in 1 .. Len(Tail(s)) |-> Tail(s)[k]]
  <2>1. \A S : \A u \in Seq(S) : u = [k \in 1 .. Len(u) |-> u[k]]
    OBVIOUS
  <2>. QED
    BY <1>3, <2>1
<1>. QED
  BY <1>2, <1>3, <1>4, <1>5 DEF One!IsSeq

\* What holds of a call holds of what is left of it.
LEMMA RestFormed ==
  ASSUME NEW s, One!IsSeq(s), s # <<>>, One!Formed(s), NEW t, t = Tail(s)
  PROVE  One!Formed(t) /\ (One!OfRoutine(s) => One!OfRoutine(t))
<1>1. Len(s) \in Nat \ {0} /\ Len(t) = Len(s) - 1 /\ \A k \in 1 .. Len(t) : t[k] = s[k + 1] /\ k + 1 \in 2 .. Len(s)
  BY RestOf
<1>2. ASSUME NEW k \in 2 .. Len(t), NEW r \in One!Registers, One!OfReg(t[k], r)
      PROVE  t[k - 1][1] \in {"read", "with", "without"} /\ t[k - 1][2] = r
  <2>1. PICK j \in 2 .. Len(s) : j = k + 1 /\ t[k] = s[j] /\ t[k - 1] = s[j - 1]
    <3>1. k + 1 \in 2 .. Len(s) /\ k - 1 \in 1 .. Len(t) /\ k \in 1 .. Len(t) /\ (k - 1) + 1 = (k + 1) - 1
      BY <1>1
    <3>. QED
      BY <1>1, <3>1
  <2>. QED
    BY <1>2, <2>1 DEF One!Formed
<1>3. ASSUME NEW k \in 1 .. Len(t), t[k][1] = "gid" \/ One!OfReg(t[k], "IMASK") PROVE k = Len(t)
  <2>1. k + 1 \in 1 .. Len(s) /\ t[k] = s[k + 1]
    BY <1>1
  <2>2. k + 1 = Len(s)
    BY <1>3, <2>1 DEF One!Formed
  <2>3. PICK m \in Nat : m = Len(t) /\ Len(s) = m + 1
    <3>1. Len(s) - 1 \in Nat /\ Len(s) = (Len(s) - 1) + 1
      BY <1>1
    <3>. QED
      BY <1>1, <3>1
  <2>4. k = m
    BY <2>2, <2>3
  <2>. QED
    BY <2>3, <2>4
<1>4. ASSUME NEW k \in 1 .. Len(t), t[k][1] = "go"
      PROVE  /\ t[k][2] \in One!Chans /\ t[k][3].d = One!DescOf(t[k][2]) /\ t[k][3].q \in OneRequests
             /\ t[k][2] = 1 => k = Len(t) - 1 /\ t[k + 1][1] = "idle" /\ t[k + 1][2] = 1
             /\ \A j \in 1 .. Len(t) : One!OfDesc(t[j], One!DescOf(t[k][2])) => j < k /\ t[j][3] = One!Filled(t[k][3].q)[t[j][1]]
  <2>1. PICK i \in 1 .. Len(s) : i = k + 1 /\ t[k] = s[i]
    <3>1. k + 1 \in 1 .. Len(s) /\ t[k] = s[k + 1]
      BY <1>1
    <3>. QED
      BY <3>1
  <2>2. /\ s[i][2] \in One!Chans /\ s[i][3].d = One!DescOf(s[i][2]) /\ s[i][3].q \in OneRequests
        /\ s[i][2] = 1 => i = Len(s) - 1 /\ s[i + 1][1] = "idle" /\ s[i + 1][2] = 1
        /\ \A j \in 1 .. Len(s) : One!OfDesc(s[j], One!DescOf(s[i][2])) => j < i /\ s[j][3] = One!Filled(s[i][3].q)[s[j][1]]
    BY <1>4, <2>1 DEF One!Formed
  <2>3. ASSUME t[k][2] = 1 PROVE k = Len(t) - 1 /\ t[k + 1][1] = "idle" /\ t[k + 1][2] = 1
    <3>1. i = Len(s) - 1 /\ s[i + 1][1] = "idle" /\ s[i + 1][2] = 1
      BY <2>1, <2>2, <2>3
    <3>2. k = Len(t) - 1 /\ k + 1 \in 1 .. Len(t) /\ (k + 1) + 1 = i + 1
      BY <1>1, <2>1, <3>1
    <3>3. t[k + 1] = s[i + 1]
      BY <1>1, <3>2
    <3>. QED
      BY <3>1, <3>2, <3>3
  <2>4. ASSUME NEW j \in 1 .. Len(t), One!OfDesc(t[j], One!DescOf(t[k][2]))
        PROVE  j < k /\ t[j][3] = One!Filled(t[k][3].q)[t[j][1]]
    <3>1. j + 1 \in 1 .. Len(s) /\ t[j] = s[j + 1]
      BY <1>1
    <3>2. j + 1 < i /\ s[j + 1][3] = One!Filled(s[i][3].q)[s[j + 1][1]]
      BY <2>1, <2>2, <2>4, <3>1
    <3>3. j < k
      BY <2>1, <3>2
    <3>. QED
      BY <2>1, <3>1, <3>2, <3>3
  <2>. QED
    BY <2>1, <2>2, <2>3, <2>4
<1>5. ASSUME One!OfRoutine(s) PROVE One!OfRoutine(t)
  <2>1. \A k \in 1 .. Len(t) : k + 1 \in 1 .. Len(s) /\ t[k] = s[k + 1]
    BY <1>1
  <2>. QED
    BY <1>5, <2>1 DEF One!OfRoutine
<1>6. One!Formed(t)
  BY <1>2, <1>3, <1>4 DEF One!Formed
<1>. QED
  BY <1>5, <1>6

\* A call as it begins: nothing is taken as read, filled or waited for.
Fresh(s) ==
    /\ One!IsSeq(s) /\ One!Formed(s)
    /\ s # <<>> => \A r \in One!Registers : ~One!OfReg(s[1], r)
    /\ \A m : One!Fed(s, m)
    /\ One!Waits(s, FALSE)
Only(s, K) == \A kind \in One!Kinds : One!Has(s, kind) => kind \in K

\* Sequences one after the other.
LEMMA Concat ==
  ASSUME NEW S, NEW x \in Seq(S), NEW y \in Seq(S), NEW z \in Seq(S), Len(z) = Len(x) + Len(y),
         \A i \in 1 .. Len(x) : z[i] = x[i], \A i \in 1 .. Len(y) : z[Len(x) + i] = y[i]
  PROVE  x \o y = z
<1>1. x \o y \in Seq(S) /\ Len(x \o y) = Len(x) + Len(y)
      /\ \A i \in 1 .. Len(x) + Len(y) : (x \o y)[i] = IF i <= Len(x) THEN x[i] ELSE y[i - Len(x)]
  BY ConcatProperties
<1>2. PICK m \in Nat, n \in Nat : m = Len(x) /\ n = Len(y)
  OBVIOUS
<1>3. ASSUME NEW i \in 1 .. m + n PROVE (x \o y)[i] = z[i]
  <2>1. CASE i <= m
    BY <1>1, <1>2, <2>1
  <2>2. CASE i > m
    <3>1. i - m \in 1 .. n /\ m + (i - m) = i /\ ~(i <= m)
      BY <1>2, <2>2
    <3>. QED
      BY <1>1, <1>2, <3>1
  <2>. QED
    BY <1>2, <2>1, <2>2
<1>. QED
  BY <1>1, <1>2, <1>3, SeqEqual

\* Short ones.
LEMMA Joined ==
  /\ \A a, b : <<a>> \o <<b>> = <<a, b>>
  /\ \A a, b, c, d : <<a>> \o <<b, c, d>> = <<a, b, c, d>>
  /\ \A a, b, c : <<a, b>> \o <<c>> = <<a, b, c>>
  /\ \A a, b, c, d : <<a, b, c>> \o <<d>> = <<a, b, c, d>>
  /\ \A a, b, c, d, e : <<a, b, c>> \o <<d, e>> = <<a, b, c, d, e>>
  /\ \A a, b, c, d, e, f : <<a, b, c>> \o <<d, e, f>> = <<a, b, c, d, e, f>>
  /\ \A a, b, c, d, e, f : <<a, b, c, d>> \o <<e, f>> = <<a, b, c, d, e, f>>
  /\ \A a, b, c, d, e, f : <<a, b, c, d, e>> \o <<f>> = <<a, b, c, d, e, f>>
  /\ \A a, b, c, d, e, f, g : <<a, b, c, d, e, f>> \o <<g>> = <<a, b, c, d, e, f, g>>
<1>1. \A a, b : <<a>> \o <<b>> = <<a, b>>
  <2>. TAKE a, b
  <2>. DEFINE S == {a, b}
  <2>1. PICK x, y, z : x = <<a>> /\ y = <<b>> /\ z = <<a, b>>
    OBVIOUS
  <2>2. x \in Seq(S) /\ y \in Seq(S) /\ z \in Seq(S)
    BY <2>1
  <2>3. /\ Len(x) = 1 /\ Len(y) = 1 /\ Len(z) = 2
        /\ x[1] = z[1] /\ y[1] = z[2]
    BY <2>1
  <2>. HIDE DEF S
  <2>4. /\ Len(z) = Len(x) + Len(y)
        /\ \A i \in 1 .. Len(x) : z[i] = x[i]
        /\ \A i \in 1 .. Len(y) : z[Len(x) + i] = y[i]
    BY <2>3
  <2>5. x \o y = z
    BY <2>2, <2>4, Concat
  <2>. QED
    BY <2>1, <2>5
<1>2. \A a, b, c, d : <<a>> \o <<b, c, d>> = <<a, b, c, d>>
  <2>. TAKE a, b, c, d
  <2>. DEFINE S == {a, b, c, d}
  <2>1. PICK x, y, z : x = <<a>> /\ y = <<b, c, d>> /\ z = <<a, b, c, d>>
    OBVIOUS
  <2>2. x \in Seq(S) /\ y \in Seq(S) /\ z \in Seq(S)
    BY <2>1
  <2>3. /\ Len(x) = 1 /\ Len(y) = 3 /\ Len(z) = 4
        /\ x[1] = z[1] /\ y[1] = z[2] /\ y[2] = z[3] /\ y[3] = z[4]
    BY <2>1
  <2>. HIDE DEF S
  <2>4. /\ Len(z) = Len(x) + Len(y)
        /\ \A i \in 1 .. Len(x) : z[i] = x[i]
        /\ \A i \in 1 .. Len(y) : z[Len(x) + i] = y[i]
    BY <2>3
  <2>5. x \o y = z
    BY <2>2, <2>4, Concat
  <2>. QED
    BY <2>1, <2>5
<1>3. \A a, b, c : <<a, b>> \o <<c>> = <<a, b, c>>
  <2>. TAKE a, b, c
  <2>. DEFINE S == {a, b, c}
  <2>1. PICK x, y, z : x = <<a, b>> /\ y = <<c>> /\ z = <<a, b, c>>
    OBVIOUS
  <2>2. x \in Seq(S) /\ y \in Seq(S) /\ z \in Seq(S)
    BY <2>1
  <2>3. /\ Len(x) = 2 /\ Len(y) = 1 /\ Len(z) = 3
        /\ x[1] = z[1] /\ x[2] = z[2] /\ y[1] = z[3]
    BY <2>1
  <2>. HIDE DEF S
  <2>4. /\ Len(z) = Len(x) + Len(y)
        /\ \A i \in 1 .. Len(x) : z[i] = x[i]
        /\ \A i \in 1 .. Len(y) : z[Len(x) + i] = y[i]
    BY <2>3
  <2>5. x \o y = z
    BY <2>2, <2>4, Concat
  <2>. QED
    BY <2>1, <2>5
<1>4. \A a, b, c, d : <<a, b, c>> \o <<d>> = <<a, b, c, d>>
  <2>. TAKE a, b, c, d
  <2>. DEFINE S == {a, b, c, d}
  <2>1. PICK x, y, z : x = <<a, b, c>> /\ y = <<d>> /\ z = <<a, b, c, d>>
    OBVIOUS
  <2>2. x \in Seq(S) /\ y \in Seq(S) /\ z \in Seq(S)
    BY <2>1
  <2>3. /\ Len(x) = 3 /\ Len(y) = 1 /\ Len(z) = 4
        /\ x[1] = z[1] /\ x[2] = z[2] /\ x[3] = z[3] /\ y[1] = z[4]
    BY <2>1
  <2>. HIDE DEF S
  <2>4. /\ Len(z) = Len(x) + Len(y)
        /\ \A i \in 1 .. Len(x) : z[i] = x[i]
        /\ \A i \in 1 .. Len(y) : z[Len(x) + i] = y[i]
    BY <2>3
  <2>5. x \o y = z
    BY <2>2, <2>4, Concat
  <2>. QED
    BY <2>1, <2>5
<1>5. \A a, b, c, d, e : <<a, b, c>> \o <<d, e>> = <<a, b, c, d, e>>
  <2>. TAKE a, b, c, d, e
  <2>. DEFINE S == {a, b, c, d, e}
  <2>1. PICK x, y, z : x = <<a, b, c>> /\ y = <<d, e>> /\ z = <<a, b, c, d, e>>
    OBVIOUS
  <2>2. x \in Seq(S) /\ y \in Seq(S) /\ z \in Seq(S)
    BY <2>1
  <2>3. /\ Len(x) = 3 /\ Len(y) = 2 /\ Len(z) = 5
        /\ x[1] = z[1] /\ x[2] = z[2] /\ x[3] = z[3] /\ y[1] = z[4] /\ y[2] = z[5]
    BY <2>1
  <2>. HIDE DEF S
  <2>4. /\ Len(z) = Len(x) + Len(y)
        /\ \A i \in 1 .. Len(x) : z[i] = x[i]
        /\ \A i \in 1 .. Len(y) : z[Len(x) + i] = y[i]
    BY <2>3
  <2>5. x \o y = z
    BY <2>2, <2>4, Concat
  <2>. QED
    BY <2>1, <2>5
<1>6. \A a, b, c, d, e, f : <<a, b, c>> \o <<d, e, f>> = <<a, b, c, d, e, f>>
  <2>. TAKE a, b, c, d, e, f
  <2>. DEFINE S == {a, b, c, d, e, f}
  <2>1. PICK x, y, z : x = <<a, b, c>> /\ y = <<d, e, f>> /\ z = <<a, b, c, d, e, f>>
    OBVIOUS
  <2>2. x \in Seq(S) /\ y \in Seq(S) /\ z \in Seq(S)
    BY <2>1
  <2>3. /\ Len(x) = 3 /\ Len(y) = 3 /\ Len(z) = 6
        /\ x[1] = z[1] /\ x[2] = z[2] /\ x[3] = z[3] /\ y[1] = z[4] /\ y[2] = z[5] /\ y[3] = z[6]
    BY <2>1
  <2>. HIDE DEF S
  <2>4. /\ Len(z) = Len(x) + Len(y)
        /\ \A i \in 1 .. Len(x) : z[i] = x[i]
        /\ \A i \in 1 .. Len(y) : z[Len(x) + i] = y[i]
    BY <2>3
  <2>5. x \o y = z
    BY <2>2, <2>4, Concat
  <2>. QED
    BY <2>1, <2>5
<1>7. \A a, b, c, d, e, f : <<a, b, c, d>> \o <<e, f>> = <<a, b, c, d, e, f>>
  <2>. TAKE a, b, c, d, e, f
  <2>. DEFINE S == {a, b, c, d, e, f}
  <2>1. PICK x, y, z : x = <<a, b, c, d>> /\ y = <<e, f>> /\ z = <<a, b, c, d, e, f>>
    OBVIOUS
  <2>2. x \in Seq(S) /\ y \in Seq(S) /\ z \in Seq(S)
    BY <2>1
  <2>3. /\ Len(x) = 4 /\ Len(y) = 2 /\ Len(z) = 6
        /\ x[1] = z[1] /\ x[2] = z[2] /\ x[3] = z[3] /\ x[4] = z[4] /\ y[1] = z[5] /\ y[2] = z[6]
    BY <2>1
  <2>. HIDE DEF S
  <2>4. /\ Len(z) = Len(x) + Len(y)
        /\ \A i \in 1 .. Len(x) : z[i] = x[i]
        /\ \A i \in 1 .. Len(y) : z[Len(x) + i] = y[i]
    BY <2>3
  <2>5. x \o y = z
    BY <2>2, <2>4, Concat
  <2>. QED
    BY <2>1, <2>5
<1>8. \A a, b, c, d, e, f : <<a, b, c, d, e>> \o <<f>> = <<a, b, c, d, e, f>>
  <2>. TAKE a, b, c, d, e, f
  <2>. DEFINE S == {a, b, c, d, e, f}
  <2>1. PICK x, y, z : x = <<a, b, c, d, e>> /\ y = <<f>> /\ z = <<a, b, c, d, e, f>>
    OBVIOUS
  <2>2. x \in Seq(S) /\ y \in Seq(S) /\ z \in Seq(S)
    BY <2>1
  <2>3. /\ Len(x) = 5 /\ Len(y) = 1 /\ Len(z) = 6
        /\ x[1] = z[1] /\ x[2] = z[2] /\ x[3] = z[3] /\ x[4] = z[4] /\ x[5] = z[5] /\ y[1] = z[6]
    BY <2>1
  <2>. HIDE DEF S
  <2>4. /\ Len(z) = Len(x) + Len(y)
        /\ \A i \in 1 .. Len(x) : z[i] = x[i]
        /\ \A i \in 1 .. Len(y) : z[Len(x) + i] = y[i]
    BY <2>3
  <2>5. x \o y = z
    BY <2>2, <2>4, Concat
  <2>. QED
    BY <2>1, <2>5
<1>9. \A a, b, c, d, e, f, g : <<a, b, c, d, e, f>> \o <<g>> = <<a, b, c, d, e, f, g>>
  <2>. TAKE a, b, c, d, e, f, g
  <2>. DEFINE S == {a, b, c, d, e, f, g}
  <2>1. PICK x, y, z : x = <<a, b, c, d, e, f>> /\ y = <<g>> /\ z = <<a, b, c, d, e, f, g>>
    OBVIOUS
  <2>2. x \in Seq(S) /\ y \in Seq(S) /\ z \in Seq(S)
    BY <2>1
  <2>3. /\ Len(x) = 6 /\ Len(y) = 1 /\ Len(z) = 7
        /\ x[1] = z[1] /\ x[2] = z[2] /\ x[3] = z[3] /\ x[4] = z[4] /\ x[5] = z[5] /\ x[6] = z[6] /\ y[1] = z[7]
    BY <2>1
  <2>. HIDE DEF S
  <2>4. /\ Len(z) = Len(x) + Len(y)
        /\ \A i \in 1 .. Len(x) : z[i] = x[i]
        /\ \A i \in 1 .. Len(y) : z[Len(x) + i] = y[i]
    BY <2>3
  <2>5. x \o y = z
    BY <2>2, <2>4, Concat
  <2>. QED
    BY <2>1, <2>5
<1>. QED
  BY <1>1, <1>2, <1>3, <1>4, <1>5, <1>6, <1>7, <1>8, <1>9

\* A copy.
LEMMA CopyFresh ==
  ASSUME NEW q \in OneRequests
  PROVE  LET s == One!e_dma_copy(q) IN Fresh(s) /\ Only(s, {"copy"}) /\ One!OfRoutine(s)
<1>. DEFINE F == One!Filled(q)
<1>1. PICK a1, a2, a3, a4, a5 : /\ a1 = <<"body", "copy", F["body"]>> /\ a2 = <<"src", "copy", F["src"]>> /\ a3 = <<"dst", "copy", F["dst"]>>
                                /\ a4 = <<"idle", 1, 0>> /\ a5 = <<"go", 1, [d |-> "copy", q |-> q]>>
  OBVIOUS
<1>2. PICK s : s = <<a1, a2, a3, a4, a5, a4>>
  OBVIOUS
<1>3. One!e_dma_copy(q) = s
  <2>1. One!Fill("copy", q) = <<a1, a2, a3>> /\ One!e_dma_wait(1) = <<a4>>
    BY <1>1 DEF One!Fill, One!Do, One!e_dma_wait, One!Filled
  <2>2. One!e_dma_start("copy", 1, q) = <<a4, a5>>
    <3>1. One!e_dma_start("copy", 1, q) = <<a4>> \o <<a5>>
      BY <1>1, <2>1 DEF One!e_dma_start, One!Do
    <3>. QED
      BY <3>1, Joined
  <2>3. One!e_dma_copy(q) = (<<a1, a2, a3>> \o <<a4, a5>>) \o <<a4>>
    BY <2>1, <2>2 DEF One!e_dma_copy
  <2>4. <<a1, a2, a3>> \o <<a4, a5>> = <<a1, a2, a3, a4, a5>>
    BY Joined
  <2>5. <<a1, a2, a3, a4, a5>> \o <<a4>> = <<a1, a2, a3, a4, a5, a4>>
    BY Joined
  <2>. QED
    BY <1>2, <2>3, <2>4, <2>5
<1>4. /\ Len(s) = 6 /\ One!IsSeq(s)
      /\ s[1] = a1 /\ s[2] = a2 /\ s[3] = a3 /\ s[4] = a4 /\ s[5] = a5 /\ s[6] = a4
  BY <1>2 DEF One!IsSeq
<1>. HIDE DEF F
<1>5. /\ s[1][1] = "body" /\ s[2][1] = "src" /\ s[3][1] = "dst" /\ s[4][1] = "idle" /\ s[5][1] = "go" /\ s[6][1] = "idle"
      /\ s[1][2] = "copy" /\ s[2][2] = "copy" /\ s[3][2] = "copy" /\ s[4][2] = 1 /\ s[5][2] = 1 /\ s[6][2] = 1
      /\ s[1][3] = F["body"] /\ s[2][3] = F["src"] /\ s[3][3] = F["dst"] /\ s[5][3].d = "copy" /\ s[5][3].q = q
  BY <1>1, <1>4
<1>6. \A k \in 1 .. Len(s) : k \in {1, 2, 3, 4, 5, 6}
  BY <1>4
<1>7. One!Formed(s)
  BY <1>4, <1>5, <1>6 DEF One!Formed, One!OfReg, One!OfDesc, One!DescOf, One!Fields, One!Chans, F
<1>8. Fresh(s)
  BY <1>4, <1>5, <1>6, <1>7 DEF Fresh, One!Fed, One!Waits, One!OfReg, One!OfDesc, One!Fields
<1>9. Only(s, {"copy"}) /\ One!OfRoutine(s)
  BY <1>5, <1>6 DEF Only, One!Has, One!OfRoutine, One!Uses, One!OfReg, One!OfDesc, One!OfChan, One!Fields, One!Kinds
<1>. QED
  BY <1>3, <1>8, <1>9

\* Masking an interrupt.
LEMMA MaskFresh ==
  ASSUME NEW i, NEW state \in BOOLEAN
  PROVE  Fresh(One!e_irq_mask(i, state)) /\ Only(One!e_irq_mask(i, state), {"mask"})
         /\ (state => One!OfRoutine(One!e_irq_mask(i, state)))
<1>1. PICK a1, a2 : a1 = <<"read", "IMASK", 0>> /\ a2 = <<IF state THEN "with" ELSE "without", "IMASK", i>>
  OBVIOUS
<1>2. PICK s : s = <<a1, a2>>
  OBVIOUS
<1>3. One!e_irq_mask(i, state) = s
  <2>1. /\ One!e_reg_read("IMASK") = a1
        /\ (IF state THEN One!With("IMASK", i) ELSE One!Without("IMASK", i)) = a2
    BY <1>1 DEF One!e_reg_read, One!With, One!Without, One!Do
  <2>. QED
    BY <1>2, <2>1 DEF One!e_irq_mask
<1>4. /\ Len(s) = 2 /\ One!IsSeq(s)
      /\ s[1] = a1 /\ s[2] = a2
  BY <1>2 DEF One!IsSeq
<1>5. \A k \in 1 .. Len(s) : k \in {1, 2}
  BY <1>4
<1>6. /\ s[1][1] = "read" /\ s[2][1] = IF state THEN "with" ELSE "without"
      /\ s[1][2] = "IMASK" /\ s[2][2] = "IMASK"
  BY <1>1, <1>4
<1>7. One!Formed(s)
  BY <1>4, <1>5, <1>6 DEF One!Formed, One!OfReg, One!OfDesc, One!DescOf, One!Fields, One!Chans
<1>8. Fresh(s)
  BY <1>4, <1>5, <1>6, <1>7 DEF Fresh, One!Fed, One!Waits, One!OfReg, One!OfDesc, One!Fields
<1>9. Only(s, {"mask"}) /\ (state => One!OfRoutine(s))
  BY <1>5, <1>6 DEF Only, One!Has, One!OfRoutine, One!Uses, One!OfReg, One!OfDesc, One!OfChan, One!Fields, One!Kinds
<1>. QED
  BY <1>3, <1>8, <1>9

\* Attaching a routine.
LEMMA AttachFresh ==
  ASSUME NEW i
  PROVE  Fresh(One!e_irq_attach(i)) /\ Only(One!e_irq_attach(i), {})
<1>1. PICK a1, a2 : a1 = <<"vec", i, "half">> /\ a2 = <<"vec", i, "routine">>
  OBVIOUS
<1>2. PICK s : s = <<a1, a2>>
  OBVIOUS
<1>3. One!e_irq_attach(i) = s
  BY <1>1, <1>2 DEF One!e_irq_attach, One!Do
<1>4. /\ Len(s) = 2 /\ One!IsSeq(s)
      /\ s[1] = a1 /\ s[2] = a2
  BY <1>2 DEF One!IsSeq
<1>5. \A k \in 1 .. Len(s) : k \in {1, 2}
  BY <1>4
<1>6. /\ s[1][1] = "vec" /\ s[2][1] = "vec"
      /\ s[1][2] = i /\ s[2][2] = i
  BY <1>1, <1>4
<1>7. One!Formed(s)
  BY <1>4, <1>5, <1>6 DEF One!Formed, One!OfReg, One!OfDesc, One!DescOf, One!Fields, One!Chans
<1>8. Fresh(s)
  BY <1>4, <1>5, <1>6, <1>7 DEF Fresh, One!Fed, One!Waits, One!OfReg, One!OfDesc, One!Fields
<1>9. Only(s, {})
  BY <1>5, <1>6 DEF Only, One!Has, One!OfRoutine, One!Uses, One!OfReg, One!OfDesc, One!OfChan, One!Fields, One!Kinds
<1>. QED
  BY <1>3, <1>8, <1>9

\* Raising an interrupt.
LEMMA SetFresh ==
  ASSUME NEW i
  PROVE  Fresh(One!e_irq_set(i)) /\ Only(One!e_irq_set(i), {})
<1>1. PICK a1 : a1 = <<"latch", i, TRUE>>
  OBVIOUS
<1>2. PICK s : s = <<a1>>
  OBVIOUS
<1>3. One!e_irq_set(i) = s
  BY <1>1, <1>2 DEF One!e_irq_set, One!Do
<1>4. /\ Len(s) = 1 /\ One!IsSeq(s)
      /\ s[1] = a1
  BY <1>2 DEF One!IsSeq
<1>5. \A k \in 1 .. Len(s) : k \in {1}
  BY <1>4
<1>6. /\ s[1][1] = "latch"
      /\ s[1][2] = i
  BY <1>1, <1>4
<1>7. One!Formed(s)
  BY <1>4, <1>5, <1>6 DEF One!Formed, One!OfReg, One!OfDesc, One!DescOf, One!Fields, One!Chans
<1>8. Fresh(s)
  BY <1>4, <1>5, <1>6, <1>7 DEF Fresh, One!Fed, One!Waits, One!OfReg, One!OfDesc, One!Fields
<1>9. Only(s, {})
  BY <1>5, <1>6 DEF Only, One!Has, One!OfRoutine, One!Uses, One!OfReg, One!OfDesc, One!OfChan, One!Fields, One!Kinds
<1>. QED
  BY <1>3, <1>8, <1>9

\* Taking one back.
LEMMA ClearFresh ==
  ASSUME NEW i
  PROVE  Fresh(One!e_irq_clear(i)) /\ Only(One!e_irq_clear(i), {})
<1>1. PICK a1 : a1 = <<"latch", i, FALSE>>
  OBVIOUS
<1>2. PICK s : s = <<a1>>
  OBVIOUS
<1>3. One!e_irq_clear(i) = s
  BY <1>1, <1>2 DEF One!e_irq_clear, One!Do
<1>4. /\ Len(s) = 1 /\ One!IsSeq(s)
      /\ s[1] = a1
  BY <1>2 DEF One!IsSeq
<1>5. \A k \in 1 .. Len(s) : k \in {1}
  BY <1>4
<1>6. /\ s[1][1] = "latch"
      /\ s[1][2] = i
  BY <1>1, <1>4
<1>7. One!Formed(s)
  BY <1>4, <1>5, <1>6 DEF One!Formed, One!OfReg, One!OfDesc, One!DescOf, One!Fields, One!Chans
<1>8. Fresh(s)
  BY <1>4, <1>5, <1>6, <1>7 DEF Fresh, One!Fed, One!Waits, One!OfReg, One!OfDesc, One!Fields
<1>9. Only(s, {})
  BY <1>5, <1>6 DEF Only, One!Has, One!OfRoutine, One!Uses, One!OfReg, One!OfDesc, One!OfChan, One!Fields, One!Kinds
<1>. QED
  BY <1>3, <1>8, <1>9

\* Interrupts on and off.
LEMMA GlobalMaskFresh ==
  ASSUME NEW state
  PROVE  Fresh(One!e_irq_global_mask(state)) /\ Only(One!e_irq_global_mask(state), {})
<1>1. PICK a1 : a1 = <<"gid", state, 0>>
  OBVIOUS
<1>2. PICK s : s = <<a1>>
  OBVIOUS
<1>3. One!e_irq_global_mask(state) = s
  BY <1>1, <1>2 DEF One!e_irq_global_mask, One!Do
<1>4. /\ Len(s) = 1 /\ One!IsSeq(s)
      /\ s[1] = a1
  BY <1>2 DEF One!IsSeq
<1>5. \A k \in 1 .. Len(s) : k \in {1}
  BY <1>4
<1>6. /\ s[1][1] = "gid"
      /\ s[1][2] = state
  BY <1>1, <1>4
<1>7. One!Formed(s)
  BY <1>4, <1>5, <1>6 DEF One!Formed, One!OfReg, One!OfDesc, One!DescOf, One!Fields, One!Chans
<1>8. Fresh(s)
  BY <1>4, <1>5, <1>6, <1>7 DEF Fresh, One!Fed, One!Waits, One!OfReg, One!OfDesc, One!Fields
<1>9. Only(s, {})
  BY <1>5, <1>6 DEF Only, One!Has, One!OfRoutine, One!Uses, One!OfReg, One!OfDesc, One!OfChan, One!Fields, One!Kinds
<1>. QED
  BY <1>3, <1>8, <1>9

\* Stopping a timer.
LEMMA StopFresh ==
  ASSUME NEW t
  PROVE  Fresh(One!e_ctimer_stop(t)) /\ Only(One!e_ctimer_stop(t), {"timer"}) /\ One!OfRoutine(One!e_ctimer_stop(t))
<1>1. PICK a1, a2 : a1 = <<"read", "CONFIG", 0>> /\ a2 = <<"without", "CONFIG", t>>
  OBVIOUS
<1>2. PICK s : s = <<a1, a2>>
  OBVIOUS
<1>3. One!e_ctimer_stop(t) = s
  BY <1>1, <1>2 DEF One!e_ctimer_stop, One!e_reg_read, One!Without, One!Do
<1>4. /\ Len(s) = 2 /\ One!IsSeq(s)
      /\ s[1] = a1 /\ s[2] = a2
  BY <1>2 DEF One!IsSeq
<1>5. \A k \in 1 .. Len(s) : k \in {1, 2}
  BY <1>4
<1>6. /\ s[1][1] = "read" /\ s[2][1] = "without"
      /\ s[1][2] = "CONFIG" /\ s[2][2] = "CONFIG"
  BY <1>1, <1>4
<1>7. One!Formed(s)
  BY <1>4, <1>5, <1>6 DEF One!Formed, One!OfReg, One!OfDesc, One!DescOf, One!Fields, One!Chans
<1>8. Fresh(s)
  BY <1>4, <1>5, <1>6, <1>7 DEF Fresh, One!Fed, One!Waits, One!OfReg, One!OfDesc, One!Fields
<1>9. Only(s, {"timer"}) /\ One!OfRoutine(s)
  BY <1>5, <1>6 DEF Only, One!Has, One!OfRoutine, One!Uses, One!OfReg, One!OfDesc, One!OfChan, One!Fields, One!Kinds
<1>. QED
  BY <1>3, <1>8, <1>9

\* Starting a timer.
LEMMA StartFresh ==
  ASSUME NEW t
  PROVE  Fresh(One!e_ctimer_start(t)) /\ Only(One!e_ctimer_start(t), {"timer"})
<1>1. PICK a1, a2, a3 : a1 = <<"read", "CONFIG", 0>> /\ a2 = <<"without", "CONFIG", t>> /\ a3 = <<"with", "CONFIG", t>>
  OBVIOUS
<1>2. PICK s : s = <<a1, a2, a3>>
  OBVIOUS
<1>3. One!e_ctimer_start(t) = s
  BY <1>1, <1>2 DEF One!e_ctimer_start, One!e_reg_read, One!With, One!Without, One!Do
<1>4. /\ Len(s) = 3 /\ One!IsSeq(s)
      /\ s[1] = a1 /\ s[2] = a2 /\ s[3] = a3
  BY <1>2 DEF One!IsSeq
<1>5. \A k \in 1 .. Len(s) : k \in {1, 2, 3}
  BY <1>4
<1>6. /\ s[1][1] = "read" /\ s[2][1] = "without" /\ s[3][1] = "with"
      /\ s[1][2] = "CONFIG" /\ s[2][2] = "CONFIG" /\ s[3][2] = "CONFIG"
  BY <1>1, <1>4
<1>7. One!Formed(s)
  BY <1>4, <1>5, <1>6 DEF One!Formed, One!OfReg, One!OfDesc, One!DescOf, One!Fields, One!Chans
<1>8. Fresh(s)
  BY <1>4, <1>5, <1>6, <1>7 DEF Fresh, One!Fed, One!Waits, One!OfReg, One!OfDesc, One!Fields
<1>9. Only(s, {"timer"})
  BY <1>5, <1>6 DEF Only, One!Has, One!OfRoutine, One!Uses, One!OfReg, One!OfDesc, One!OfChan, One!Fields, One!Kinds
<1>. QED
  BY <1>3, <1>8, <1>9

\* Setting and starting one.
LEMMA RestartFresh ==
  ASSUME NEW t
  PROVE  Fresh(One!e_ctimer_set(t) \o One!e_ctimer_start(t)) /\ Only(One!e_ctimer_set(t) \o One!e_ctimer_start(t), {"timer"}) /\ One!OfRoutine(One!e_ctimer_set(t) \o One!e_ctimer_start(t))
<1>1. PICK a0, a1, a2, a3 : a0 = <<"count", t, OneClicks>> /\ a1 = <<"read", "CONFIG", 0>> /\ a2 = <<"without", "CONFIG", t>> /\ a3 = <<"with", "CONFIG", t>>
  OBVIOUS
<1>2. PICK s : s = <<a0, a1, a2, a3>>
  OBVIOUS
<1>3. One!e_ctimer_set(t) \o One!e_ctimer_start(t) = s
  <2>1. One!e_ctimer_set(t) = <<a0>> /\ One!e_ctimer_start(t) = <<a1, a2, a3>>
    BY <1>1 DEF One!e_ctimer_set, One!e_ctimer_start, One!e_reg_read, One!With, One!Without, One!Do
  <2>. QED
    BY <1>2, <2>1, Joined
<1>4. /\ Len(s) = 4 /\ One!IsSeq(s)
      /\ s[1] = a0 /\ s[2] = a1 /\ s[3] = a2 /\ s[4] = a3
  BY <1>2 DEF One!IsSeq
<1>5. \A k \in 1 .. Len(s) : k \in {1, 2, 3, 4}
  BY <1>4
<1>6. /\ s[1][1] = "count" /\ s[2][1] = "read" /\ s[3][1] = "without" /\ s[4][1] = "with"
      /\ s[1][2] = t /\ s[2][2] = "CONFIG" /\ s[3][2] = "CONFIG" /\ s[4][2] = "CONFIG"
  BY <1>1, <1>4
<1>7. One!Formed(s)
  BY <1>4, <1>5, <1>6 DEF One!Formed, One!OfReg, One!OfDesc, One!DescOf, One!Fields, One!Chans
<1>8. Fresh(s)
  BY <1>4, <1>5, <1>6, <1>7 DEF Fresh, One!Fed, One!Waits, One!OfReg, One!OfDesc, One!Fields
<1>9. Only(s, {"timer"}) /\ One!OfRoutine(s)
  BY <1>5, <1>6 DEF Only, One!Has, One!OfRoutine, One!Uses, One!OfReg, One!OfDesc, One!OfChan, One!Fields, One!Kinds
<1>. QED
  BY <1>3, <1>8, <1>9

\* Waiting for one.
LEMMA WaitFresh ==
  Fresh(One!e_wait(0)) /\ Only(One!e_wait(0), {"timer"})
<1>1. PICK a1, a2, a0, a3, a4 : a1 = <<"read", "CONFIG", 0>> /\ a2 = <<"without", "CONFIG", 0>> /\ a0 = <<"count", 0, OneClicks>> /\ a3 = <<"with", "CONFIG", 0>> /\ a4 = <<"zero", 0, 0>>
  OBVIOUS
<1>2. PICK s : s = <<a1, a2, a0, a1, a2, a3, a4>>
  OBVIOUS
<1>3. One!e_wait(0) = s
  <2>1. /\ One!e_ctimer_stop(0) = <<a1, a2>> /\ One!e_ctimer_set(0) = <<a0>>
        /\ One!e_ctimer_start(0) = <<a1, a2, a3>> /\ One!Do("zero", 0, 0) = a4
    BY <1>1 DEF One!e_ctimer_stop, One!e_ctimer_set, One!e_ctimer_start, One!e_reg_read, One!With, One!Without, One!Do
  <2>2. <<a1, a2>> \o <<a0>> = <<a1, a2, a0>>
    BY Joined
  <2>3. <<a1, a2, a0>> \o <<a1, a2, a3>> = <<a1, a2, a0, a1, a2, a3>>
    BY Joined
  <2>4. <<a1, a2, a0, a1, a2, a3>> \o <<a4>> = <<a1, a2, a0, a1, a2, a3, a4>>
    BY Joined
  <2>. QED
    BY <1>2, <2>1, <2>2, <2>3, <2>4 DEF One!e_wait
<1>4. /\ Len(s) = 7 /\ One!IsSeq(s)
      /\ s[1] = a1 /\ s[2] = a2 /\ s[3] = a0 /\ s[4] = a1 /\ s[5] = a2 /\ s[6] = a3 /\ s[7] = a4
  BY <1>2 DEF One!IsSeq
<1>5. \A k \in 1 .. Len(s) : k \in {1, 2, 3, 4, 5, 6, 7}
  BY <1>4
<1>6. /\ s[1][1] = "read" /\ s[2][1] = "without" /\ s[3][1] = "count" /\ s[4][1] = "read" /\ s[5][1] = "without" /\ s[6][1] = "with" /\ s[7][1] = "zero"
      /\ s[1][2] = "CONFIG" /\ s[2][2] = "CONFIG" /\ s[3][2] = 0 /\ s[4][2] = "CONFIG" /\ s[5][2] = "CONFIG" /\ s[6][2] = "CONFIG" /\ s[7][2] = 0
  BY <1>1, <1>4
<1>7. One!Formed(s)
  BY <1>4, <1>5, <1>6 DEF One!Formed, One!OfReg, One!OfDesc, One!DescOf, One!Fields, One!Chans
<1>8. Fresh(s)
  BY <1>4, <1>5, <1>6, <1>7 DEF Fresh, One!Fed, One!Waits, One!OfReg, One!OfDesc, One!Fields
<1>9. Only(s, {"timer"})
  BY <1>5, <1>6 DEF Only, One!Has, One!OfRoutine, One!Uses, One!OfReg, One!OfDesc, One!OfChan, One!Fields, One!Kinds
<1>. QED
  BY <1>3, <1>8, <1>9

\* Waiting for a channel.
LEMMA IdleFresh ==
  Fresh(One!e_dma_wait(0)) /\ Only(One!e_dma_wait(0), {})
<1>1. PICK a1 : a1 = <<"idle", 0, 0>>
  OBVIOUS
<1>2. PICK s : s = <<a1>>
  OBVIOUS
<1>3. One!e_dma_wait(0) = s
  BY <1>1, <1>2 DEF One!e_dma_wait, One!Do
<1>4. /\ Len(s) = 1 /\ One!IsSeq(s)
      /\ s[1] = a1
  BY <1>2 DEF One!IsSeq
<1>5. \A k \in 1 .. Len(s) : k \in {1}
  BY <1>4
<1>6. /\ s[1][1] = "idle"
      /\ s[1][2] = 0
  BY <1>1, <1>4
<1>7. One!Formed(s)
  BY <1>4, <1>5, <1>6 DEF One!Formed, One!OfReg, One!OfDesc, One!DescOf, One!Fields, One!Chans
<1>8. Fresh(s)
  BY <1>4, <1>5, <1>6, <1>7 DEF Fresh, One!Fed, One!Waits, One!OfReg, One!OfDesc, One!Fields
<1>9. Only(s, {})
  <2>1. s[1][1] = "idle" /\ s[1][2] # 1
    BY <1>6
  <2>2. ~One!OfReg(s[1], "IMASK") /\ ~One!OfReg(s[1], "CONFIG") /\ ~One!OfDesc(s[1], "copy") /\ ~One!OfChan(s[1], 1)
    BY <2>1 DEF One!OfReg, One!OfDesc, One!OfChan, One!Fields
  <2>. QED
    BY <1>5, <2>2 DEF Only, One!Has, One!Uses, One!Kinds
<1>. QED
  BY <1>3, <1>8, <1>9

\* A transfer of the program.
LEMMA TransferFresh ==
  ASSUME NEW q \in OneRequests
  PROVE  Fresh(One!e_dma_set_desc(0, q) \o One!e_dma_start("own", 0, q)) /\ Only(One!e_dma_set_desc(0, q) \o One!e_dma_start("own", 0, q), {})
<1>1. PICK a4, a1, a2, a3, a5 : a4 = <<"idle", 0, 0>> /\ a1 = <<"body", "own", One!Filled(q)["body"]>> /\ a2 = <<"src", "own", One!Filled(q)["src"]>> /\ a3 = <<"dst", "own", One!Filled(q)["dst"]>> /\ a5 = <<"go", 0, [d |-> "own", q |-> q]>>
  OBVIOUS
<1>2. PICK s : s = <<a4, a1, a2, a3, a4, a5>>
  OBVIOUS
<1>3. One!e_dma_set_desc(0, q) \o One!e_dma_start("own", 0, q) = s
  <2>1. One!Fill("own", q) = <<a1, a2, a3>> /\ One!e_dma_wait(0) = <<a4>> /\ One!Do("go", 0, [d |-> "own", q |-> q]) = a5
    BY <1>1 DEF One!Fill, One!Do, One!e_dma_wait, One!Filled
  <2>2. <<a4>> \o <<a5>> = <<a4, a5>>
    BY Joined
  <2>3. <<a4>> \o <<a1, a2, a3>> = <<a4, a1, a2, a3>>
    BY Joined
  <2>4. <<a4, a1, a2, a3>> \o <<a4, a5>> = <<a4, a1, a2, a3, a4, a5>>
    BY Joined
  <2>. QED
    BY <1>2, <2>1, <2>2, <2>3, <2>4 DEF One!e_dma_set_desc, One!e_dma_start
<1>4. /\ Len(s) = 6 /\ One!IsSeq(s)
      /\ s[1] = a4 /\ s[2] = a1 /\ s[3] = a2 /\ s[4] = a3 /\ s[5] = a4 /\ s[6] = a5
  BY <1>2 DEF One!IsSeq
<1>5. \A k \in 1 .. Len(s) : k \in {1, 2, 3, 4, 5, 6}
  BY <1>4
<1>6. /\ s[1][1] = "idle" /\ s[2][1] = "body" /\ s[3][1] = "src" /\ s[4][1] = "dst" /\ s[5][1] = "idle" /\ s[6][1] = "go"
      /\ s[1][2] = 0 /\ s[2][2] = "own" /\ s[3][2] = "own" /\ s[4][2] = "own" /\ s[5][2] = 0 /\ s[6][2] = 0
      /\ s[2][3] = One!Filled(q)["body"] /\ s[3][3] = One!Filled(q)["src"] /\ s[4][3] = One!Filled(q)["dst"] /\ s[6][3].d = "own" /\ s[6][3].q = q
  BY <1>1, <1>4
<1>7. One!Formed(s)
  BY <1>4, <1>5, <1>6 DEF One!Formed, One!OfReg, One!OfDesc, One!DescOf, One!Fields, One!Chans
<1>8. Fresh(s)
  BY <1>4, <1>5, <1>6, <1>7 DEF Fresh, One!Fed, One!Waits, One!OfReg, One!OfDesc, One!Fields
<1>9. Only(s, {})
  BY <1>5, <1>6 DEF Only, One!Has, One!OfRoutine, One!Uses, One!OfReg, One!OfDesc, One!OfChan, One!Fields, One!Kinds
<1>. QED
  BY <1>3, <1>8, <1>9

\* What a routine calls.
LEMMA RoutineFresh ==
  ASSUME NEW i \in OneIrqs, NEW c \in OneRoutines[i], NEW a \in One!RoutineCall(i, c)
  PROVE  Fresh(a) /\ One!OfRoutine(a) /\ Only(a, {c})
<1>1. c \in {"copy", "mask", "timer"}
  BY OneConstants
<1>2. CASE c = "copy"
  <2>1. PICK q \in OneRequests : a = One!e_dma_copy(q)
    BY <1>2 DEF One!RoutineCall
  <2>. QED
    BY <1>2, <2>1, CopyFresh
<1>3. CASE c = "mask"
  <2>1. a = One!e_irq_mask(i, TRUE)
    BY <1>3 DEF One!RoutineCall
  <2>. QED
    BY <1>3, <2>1, MaskFresh
<1>4. CASE c = "timer"
  <2>1. a = One!e_ctimer_stop(1) \/ a = One!e_ctimer_set(1) \o One!e_ctimer_start(1)
    BY <1>4 DEF One!RoutineCall
  <2>. QED
    BY <1>4, <2>1, StopFresh, RestartFresh
<1>. QED
  BY <1>1, <1>2, <1>3, <1>4

\* No call.
LEMMA NoneFresh == Fresh(<<>>) /\ One!OfRoutine(<<>>) /\ Only(<<>>, {})
<1>1. Len(<<>>) = 0 /\ <<>> = [k \in 1 .. 0 |-> <<>>[k]] /\ 1 .. 0 = {}
  OBVIOUS
<1>2. One!IsSeq(<<>>) /\ One!Formed(<<>>) /\ One!OfRoutine(<<>>)
  BY <1>1 DEF One!IsSeq, One!Formed, One!OfRoutine
<1>. QED
  BY <1>1, <1>2 DEF Fresh, Only, One!Has, One!Fed, One!Waits

\* The next access made, what a call was to use it may still use, and nothing else.
LEMMA RestHas ==
  ASSUME NEW s, One!IsSeq(s), s # <<>>, NEW kind, One!Has(Tail(s), kind)
  PROVE  One!Has(s, kind)
<1>1. PICK k \in 1 .. Len(Tail(s)) : One!Uses(Tail(s)[k], kind)
  BY DEF One!Has
<1>2. k + 1 \in 1 .. Len(s) /\ Tail(s)[k] = s[k + 1]
  BY RestOf
<1>. QED
  BY <1>1, <1>2 DEF One!Has

\* What starts find stays, whether the access fills a descriptor or not.
LEMMA RestFed ==
  ASSUME NEW s, One!IsSeq(s), s # <<>>, One!Formed(s), NEW m, One!Fed(s, m), NEW n,
         \A d \in {"copy", "own"}, f \in One!Fields :
             n[d][f] = IF s[1][1] = f /\ s[1][2] = d THEN s[1][3] ELSE m[d][f]
  PROVE  One!Fed(Tail(s), n)
<1>. SUFFICES ASSUME NEW k \in 1 .. Len(Tail(s)), Tail(s)[k][1] = "go", NEW f \in One!Fields,
                     ~ \E j \in 1 .. k - 1 : Tail(s)[j][1] = f /\ Tail(s)[j][2] = Tail(s)[k][3].d
              PROVE  n[Tail(s)[k][3].d][f] = One!Filled(Tail(s)[k][3].q)[f]
  BY DEF One!Fed
<1>0. PICK d : d = Tail(s)[k][3].d
  OBVIOUS
<1>1. PICK i \in 1 .. Len(s) : i = k + 1 /\ Tail(s)[k] = s[i]
  <2>1. k + 1 \in 1 .. Len(s) /\ Tail(s)[k] = s[k + 1]
    BY RestOf
  <2>. QED
    BY <2>1
<1>2. /\ d \in {"copy", "own"} /\ d = One!DescOf(s[i][2])
      /\ \A j \in 1 .. Len(s) : One!OfDesc(s[j], d) => s[j][3] = One!Filled(s[i][3].q)[s[j][1]]
  BY <1>0, <1>1 DEF One!Formed, One!DescOf
<1>3. Len(s) \in Nat \ {0} /\ \A l \in 1 .. Len(s) - 1 : Tail(s)[l] = s[l + 1]
  BY RestOf
<1>4. CASE s[1][1] = f /\ s[1][2] = d
  <2>1. n[d][f] = s[1][3]
    BY <1>2, <1>4
  <2>2. One!OfDesc(s[1], d) /\ 1 \in 1 .. Len(s)
    BY <1>3, <1>4 DEF One!OfDesc
  <2>. QED
    BY <1>0, <1>1, <1>2, <1>4, <2>1, <2>2
<1>5. CASE ~(s[1][1] = f /\ s[1][2] = d)
  <2>1. n[d][f] = m[d][f]
    BY <1>2, <1>5
  <2>2. (\E j \in 1 .. i - 1 : s[j][1] = f /\ s[j][2] = d) \/ m[d][f] = One!Filled(s[i][3].q)[f]
    BY <1>0, <1>1 DEF One!Fed
  <2>3. ASSUME NEW j \in 1 .. i - 1, s[j][1] = f, s[j][2] = d PROVE FALSE
    <3>1. j # 1
      BY <1>5, <2>3
    <3>2. j - 1 \in 1 .. k - 1 /\ j - 1 \in 1 .. Len(s) - 1 /\ (j - 1) + 1 = j
      BY <1>1, <1>3, <3>1
    <3>3. Tail(s)[j - 1] = s[j]
      BY <1>3, <3>2
    <3>. QED
      BY <1>0, <2>3, <3>2, <3>3
  <2>. QED
    BY <1>0, <1>1, <2>1, <2>2, <2>3
<1>. QED
  BY <1>4, <1>5

\* The program fills its descriptor when its channel is idle.
LEMMA RestWaits ==
  ASSUME NEW s, One!IsSeq(s), s # <<>>, NEW idle \in BOOLEAN, One!Waits(s, idle), NEW still \in BOOLEAN,
         s[1][1] = "idle" /\ s[1][2] = 0 => still,
         still \/ ~idle \/ \A k \in 1 .. Len(s) : ~One!OfDesc(s[k], "own")
  PROVE  One!Waits(Tail(s), still)
<1>. SUFFICES ASSUME NEW k \in 1 .. Len(Tail(s)), One!OfDesc(Tail(s)[k], "own"), ~still
              PROVE  \E j \in 1 .. k - 1 : Tail(s)[j][1] = "idle" /\ Tail(s)[j][2] = 0
  BY DEF One!Waits
<1>1. Len(s) \in Nat \ {0} /\ Len(Tail(s)) = Len(s) - 1 /\ \A l \in 1 .. Len(s) - 1 : Tail(s)[l] = s[l + 1]
  BY RestOf
<1>2. k + 1 \in 1 .. Len(s) /\ One!OfDesc(s[k + 1], "own")
  BY <1>1
<1>3. ~idle
  BY <1>2
<1>4. PICK j \in 1 .. (k + 1) - 1 : s[j][1] = "idle" /\ s[j][2] = 0
  BY <1>2, <1>3 DEF One!Waits
<1>5. j # 1
  BY <1>4
<1>6. j - 1 \in 1 .. k - 1 /\ j - 1 \in 1 .. Len(s) - 1 /\ (j - 1) + 1 = j
  BY <1>1, <1>4, <1>5
<1>. QED
  BY <1>1, <1>4, <1>6

\* The access after the next.
LEMMA RestSecond ==
  ASSUME NEW s, One!IsSeq(s), s # <<>>, Tail(s) # <<>>
  PROVE  /\ 2 \in 2 .. Len(s) /\ Tail(s)[1] = s[2] /\ Len(s) > 1
         /\ \A r : One!Formed(s) /\ One!OfReg(s[2], r) /\ r \in One!Registers =>
                       s[1][1] \in {"read", "with", "without"} /\ s[1][2] = r
<1>1. Len(s) \in Nat \ {0} /\ Len(Tail(s)) = Len(s) - 1 /\ One!IsSeq(Tail(s))
      /\ \A k \in 1 .. Len(s) - 1 : Tail(s)[k] = s[k + 1]
  BY RestOf
<1>2. Len(s) # 1
  <2>1. SUFFICES ASSUME Len(s) = 1 PROVE Tail(s) = <<>>
    OBVIOUS
  <2>2. Len(Tail(s)) = 0 /\ Tail(s) = [k \in 1 .. 0 |-> Tail(s)[k]]
    <3>1. Len(Tail(s)) = 0
      BY <1>1, <2>1
    <3>. QED
      BY <1>1, <3>1 DEF One!IsSeq
  <2>3. <<>> = [k \in 1 .. 0 |-> Tail(s)[k]]
    OBVIOUS
  <2>. QED
    BY <2>2, <2>3
<1>3. 1 \in 1 .. Len(s) - 1 /\ 2 \in 2 .. Len(s) /\ Len(s) > 1
  BY <1>1, <1>2
<1>4. Tail(s)[1] = s[2]
  BY <1>1, <1>3
<1>5. ASSUME NEW r \in One!Registers, One!Formed(s), One!OfReg(s[2], r)
      PROVE  s[1][1] \in {"read", "with", "without"} /\ s[1][2] = r
  <2>1. s[2 - 1] = s[1]
    OBVIOUS
  <2>2. s[2 - 1][1] \in {"read", "with", "without"} /\ s[2 - 1][2] = r
    BY <1>3, <1>5 DEF One!Formed
  <2>. QED
    BY <2>1, <2>2
<1>. QED
  BY <1>3, <1>4, <1>5

\* Fewer accesses to make need no more protection.
LEMMA StaysGuarded ==
  ASSUME One!Guarded, \A x \in One!Contexts, kind \in One!Kinds : One!Has(todo'[x], kind) => One!Has(todo[x], kind),
         todo'["main"] = <<>> \/ (gid' = gid /\ reg["IMASK"] \subseteq reg'["IMASK"])
  PROVE  One!Guarded'
<1>. SUFFICES ASSUME One!Has(todo'["main"], "copy")
              PROVE  One!Protected("copy")' /\ ~One!Has(todo'["isr"], "copy")
  BY DEF One!Guarded
<1>1. One!Protected("copy") /\ ~One!Has(todo["isr"], "copy")
  BY DEF One!Guarded, One!Contexts, One!Kinds
<1>2. gid' = gid /\ reg["IMASK"] \subseteq reg'["IMASK"]
  BY NoneFresh DEF Only, One!Kinds
<1>. QED
  BY <1>1, <1>2 DEF One!Protected, One!Contexts, One!Kinds

\* The routine that runs is not masked while it has accesses to make.
LEMMA StaysServed ==
  ASSUME One!Served, serving' = serving, \A kind \in One!Kinds : One!Has(todo'["isr"], kind) => One!Has(todo["isr"], kind),
         todo'["isr"] = <<>> \/ (todo["isr"] # <<>> /\ gid' = gid /\ reg'["IMASK"] = reg["IMASK"])
  PROVE  One!Served'
BY DEF One!Served

\* A call or a routine begins.
LEMMA Begun ==
  ASSUME One!CoreInv, serving = -1, NEW c \in One!Contexts, todo[c] = <<>>, NEW a, Fresh(a),
         c = "main" => serving' = -1 /\ (One!Has(a, "copy") => One!Protected("copy")),
         c = "isr" => serving' # -1 /\ One!OfRoutine(a) /\ (One!Has(a, "copy") => ~One!Protected("copy")),
         todo' = [todo EXCEPT ![c] = a], UNCHANGED <<val, reg, gid, desc, dma, asked, wish, lost>>,
         serving' # -1 => One!Served'
  PROVE  One!CoreInv'
<1>1. /\ DOMAIN todo = One!Contexts /\ todo["isr"] = <<>>
      /\ todo'[c] = a /\ \A x \in One!Contexts : x # c => todo'[x] = todo[x]
  BY DEF One!CoreInv, One!Calls
<1>2. One!Calls'
  BY <1>1, NoneFresh DEF One!CoreInv, One!Calls, One!Contexts, Fresh
<1>3. One!Typed' /\ One!Kept' /\ One!Served'
  BY DEF One!CoreInv, One!Typed, One!Kept, One!Served
<1>4. One!Guarded'
  <2>1. ~One!Has(<<>>, "copy")
    BY NoneFresh DEF Only, One!Kinds
  <2>2. CASE c = "main"
    BY <1>1, <2>1, <2>2 DEF One!Guarded, One!Protected, One!Contexts
  <2>3. CASE c = "isr"
    BY <1>1, <2>3 DEF One!CoreInv, One!Guarded, One!Protected, One!Contexts
  <2>. QED
    BY <2>2, <2>3 DEF One!Contexts
<1>5. One!Current("main")' /\ One!Current("isr")'
  BY <1>1 DEF One!CoreInv, One!Current, One!Stale, One!Contexts, Fresh
<1>6. One!Fed(todo'["main"], desc') /\ One!Fed(todo'["isr"], desc')
  BY <1>1 DEF One!CoreInv, One!Contexts, Fresh
<1>7. One!Waits(todo'["main"], dma'[0].st = "idle")
  BY <1>1 DEF One!CoreInv, One!Contexts, Fresh, One!Waits
<1>8. One!Busy'
  <2>0. ~One!Waiting(<<>>)
    BY DEF One!Waiting
  <2>1. \A x \in One!Contexts : One!Waiting(todo[x]) => One!Waiting(todo'[x])
    BY <1>1, <2>0
  <2>. QED
    BY <2>1 DEF One!CoreInv, One!Busy
<1>. QED
  BY <1>2, <1>3, <1>4, <1>5, <1>6, <1>7, <1>8 DEF One!CoreInv

\* An access has been made.
LEMMA Made ==
  ASSUME One!CoreInv, NEW c \in One!Contexts, c = "main" => todo["isr"] = <<>>, todo[c] # <<>>,
         todo' = [todo EXCEPT ![c] = Tail(@)], serving' = serving
  PROVE  /\ One!Calls' /\ todo'[c] = Tail(todo[c]) /\ \A x \in One!Contexts : x # c => todo'[x] = todo[x]
         /\ \A x \in One!Contexts, kind \in One!Kinds : One!Has(todo'[x], kind) => One!Has(todo[x], kind)
         /\ One!IsSeq(todo[c]) /\ One!Formed(todo[c]) /\ Head(todo[c]) = todo[c][1]
<1>1. /\ DOMAIN todo = One!Contexts
      /\ todo'[c] = Tail(todo[c]) /\ \A x \in One!Contexts : x # c => todo'[x] = todo[x]
      /\ \A x \in One!Contexts : One!IsSeq(todo[x]) /\ One!Formed(todo[x])
  BY DEF One!CoreInv, One!Calls
<1>2. One!IsSeq(Tail(todo[c])) /\ Head(todo[c]) = todo[c][1]
  BY <1>1, RestOf
<1>3. One!Formed(Tail(todo[c])) /\ (One!OfRoutine(todo[c]) => One!OfRoutine(Tail(todo[c])))
  BY <1>1, RestFormed
<1>4. One!OfRoutine(todo'["isr"]) /\ (serving' = -1 => todo'["isr"] = <<>>)
  BY <1>1, <1>3 DEF One!CoreInv, One!Calls, One!Contexts
<1>5. One!Calls'
  BY <1>1, <1>2, <1>3, <1>4 DEF One!CoreInv, One!Calls
<1>6. \A kind \in One!Kinds : One!Has(Tail(todo[c]), kind) => One!Has(todo[c], kind)
  BY <1>1, RestHas
<1>. QED
  BY <1>1, <1>2, <1>5, <1>6

\* What starts find stays while nothing is filled.
LEMMA StaysFed ==
  ASSUME One!CoreInv, NEW c \in One!Contexts, NEW s, s = todo[c], s # <<>>, One!IsSeq(s), One!Formed(s),
         s[1][1] \notin One!Fields, desc' = desc,
         todo'[c] = Tail(s), \A x \in One!Contexts : x # c => todo'[x] = todo[x]
  PROVE  One!Fed(todo'["main"], desc') /\ One!Fed(todo'["isr"], desc')
<1>1. One!Fed(s, desc)
  BY DEF One!CoreInv, One!Contexts
<1>2. \A d \in {"copy", "own"}, f \in One!Fields :
        desc[d][f] = IF s[1][1] = f /\ s[1][2] = d THEN s[1][3] ELSE desc[d][f]
  OBVIOUS
<1>3. One!Fed(Tail(s), desc)
  BY <1>1, <1>2, RestFed
<1>. QED
  BY <1>3 DEF One!CoreInv, One!Contexts

\* One that is nothing to the DMA.
LEMMA NoDmaMade ==
  ASSUME One!CoreInv, NEW c \in One!Contexts, c = "main" => todo["isr"] = <<>>, todo[c] # <<>>,
         todo' = [todo EXCEPT ![c] = Tail(@)], UNCHANGED <<serving, desc, dma, asked>>,
         Head(todo[c])[1] \notin One!Fields \cup {"idle", "go"}
  PROVE  /\ One!Fed(todo'["main"], desc') /\ One!Fed(todo'["isr"], desc')
         /\ One!Waits(todo'["main"], dma'[0].st = "idle") /\ One!Busy'
<1>1. /\ todo'[c] = Tail(todo[c]) /\ \A x \in One!Contexts : x # c => todo'[x] = todo[x]
      /\ One!IsSeq(todo[c]) /\ One!Formed(todo[c]) /\ Head(todo[c]) = todo[c][1]
  BY Made
<1>4. One!Fed(todo'["main"], desc') /\ One!Fed(todo'["isr"], desc')
  BY <1>1, StaysFed
<1>5. One!Waits(todo'["main"], dma'[0].st = "idle")
  <2>1. PICK idle \in BOOLEAN : idle = (dma[0].st = "idle")
    OBVIOUS
  <2>2. One!Waits(todo["main"], idle)
    BY <2>1 DEF One!CoreInv
  <2>3. CASE c = "main"
    <3>1. One!Waits(Tail(todo[c]), idle)
      BY <1>1, <2>2, <2>3, RestWaits
    <3>. QED
      BY <1>1, <2>1, <2>3, <3>1
  <2>4. CASE c = "isr"
    BY <1>1, <2>1, <2>2, <2>4 DEF One!Contexts
  <2>. QED
    BY <2>3, <2>4 DEF One!Contexts
<1>6. One!Busy'
  <2>1. \A x \in One!Contexts : One!Waiting(todo[x]) => One!Waiting(todo'[x])
    BY <1>1 DEF One!Waiting
  <2>. QED
    BY <2>1 DEF One!CoreInv, One!Busy
<1>. QED
  BY <1>4, <1>5, <1>6

\* Reading a register.
LEMMA ReadRegisterKeeps ==
  ASSUME One!CoreInv, NEW c \in One!Contexts, c = "main" => todo["isr"] = <<>>, One!ReadRegister(c)
  PROVE  One!CoreInv'
<1>1. PICK s : s = todo[c]
  OBVIOUS
<1>2. /\ s # <<>> /\ todo' = [todo EXCEPT ![c] = Tail(@)] /\ Head(s)[1] = "read"
      /\ val' = [val EXCEPT ![c] = reg[Head(s)[2]]]
      /\ UNCHANGED <<reg, gid, serving, desc, dma, asked, wish, lost>>
  BY <1>1 DEF One!ReadRegister, One!Now, One!Rest, One!X
<1>3. /\ One!Calls' /\ todo'[c] = Tail(s) /\ \A x \in One!Contexts : x # c => todo'[x] = todo[x]
      /\ \A x \in One!Contexts, kind \in One!Kinds : One!Has(todo'[x], kind) => One!Has(todo[x], kind)
      /\ One!IsSeq(s) /\ One!Formed(s) /\ Head(s) = s[1]
  BY <1>1, <1>2, Made
<1>4. /\ One!Fed(todo'["main"], desc') /\ One!Fed(todo'["isr"], desc')
      /\ One!Waits(todo'["main"], dma'[0].st = "idle") /\ One!Busy'
  BY <1>1, <1>2, NoDmaMade DEF One!Fields
<1>5. One!Guarded'
  BY <1>2, <1>3, StaysGuarded DEF One!CoreInv
<1>6. One!Typed' /\ One!Kept'
  BY <1>2 DEF One!CoreInv, One!Typed, One!Kept
<1>8. One!Served'
  BY <1>1, <1>2, <1>3, StaysServed DEF One!CoreInv, One!Contexts
<1>7. \A x \in One!Contexts : One!Current(x)'
  <2>1. ASSUME todo'[c] # <<>>, NEW r \in One!Registers, One!OfReg(todo'[c][1], r)
        PROVE  val'[c] = reg'[r]
    <3>1. Tail(s) # <<>> /\ One!OfReg(Tail(s)[1], r)
      BY <1>3, <2>1
    <3>2. s[1][2] = r
      BY <1>2, <1>3, <3>1, RestSecond
    <3>. QED
      BY <1>2, <1>3, <3>2 DEF One!CoreInv, One!Typed
  <2>2. ASSUME NEW x \in One!Contexts, x # c PROVE One!Current(x)'
    BY <1>2, <1>3, <2>2 DEF One!CoreInv, One!Typed, One!Current, One!Stale, One!Contexts
  <2>. QED
    BY <2>1, <2>2 DEF One!Current
<1>. QED
  BY <1>3, <1>4, <1>5, <1>6, <1>7, <1>8 DEF One!CoreInv, One!Contexts

\* A routine that writes a register runs unprotected.
LEMMA Unprotected ==
  ASSUME One!CoreInv, todo["isr"] # <<>>, NEW kind \in One!Kinds, One!Uses(todo["isr"][1], kind)
  PROVE  ~One!Protected(kind)
<1>1. One!Has(todo["isr"], kind)
  <2>1. Len(todo["isr"]) \in Nat \ {0}
    BY RestOf DEF One!CoreInv, One!Calls, One!Contexts
  <2>. QED
    BY <2>1 DEF One!Has
<1>2. serving # -1
  BY DEF One!CoreInv, One!Calls
<1>. QED
  BY <1>1, <1>2 DEF One!CoreInv, One!Served, One!Protected

\* Writing one: what was read is current but for bits of routines, and whom a routine
\* overtakes is known.
LEMMA WriteRegisterKeeps ==
  ASSUME One!CoreInv, NEW c \in One!Contexts, c = "main" => todo["isr"] = <<>>, One!WriteRegister(c)
  PROVE  One!CoreInv'
<1>1. PICK s, r, y, v : /\ s = todo[c] /\ r = Head(s)[2] /\ y = Head(s)[3]
                        /\ v = IF Head(s)[1] = "with" THEN val[c] \cup {y} ELSE val[c] \ {y}
  OBVIOUS
<1>2. /\ s # <<>> /\ todo' = [todo EXCEPT ![c] = Tail(@)] /\ Head(s)[1] \in {"with", "without"}
      /\ reg' = [reg EXCEPT ![r] = v] /\ val' = [val EXCEPT ![c] = IF Len(s) > 1 THEN v ELSE {}]
      /\ wish' = [wish EXCEPT ![r] = IF Head(s)[1] = "with" THEN @ \cup {y} ELSE @ \ {y}]
      /\ lost' = [lost EXCEPT ![r] = IF One!Overtaken(c) THEN @ \cup {y} ELSE @ \ {y}]
      /\ UNCHANGED <<gid, serving, desc, dma, asked>>
  BY <1>1 DEF One!WriteRegister, One!e_reg_write, One!Now, One!Rest, One!X, One!Y
<1>3. /\ One!Calls' /\ todo'[c] = Tail(s) /\ \A x \in One!Contexts : x # c => todo'[x] = todo[x]
      /\ \A x \in One!Contexts, kind \in One!Kinds : One!Has(todo'[x], kind) => One!Has(todo[x], kind)
      /\ One!IsSeq(s) /\ One!Formed(s) /\ Head(s) = s[1]
  BY <1>1, <1>2, Made
<1>4. /\ One!Fed(todo'["main"], desc') /\ One!Fed(todo'["isr"], desc')
      /\ One!Waits(todo'["main"], dma'[0].st = "idle") /\ One!Busy'
  BY <1>1, <1>2, NoDmaMade DEF One!Fields
<1>5. /\ DOMAIN reg = One!Registers /\ DOMAIN wish = One!Registers /\ DOMAIN lost = One!Registers
      /\ DOMAIN val = One!Contexts /\ One!OfReg(s[1], r) /\ Len(s) \in Nat \ {0}
  <2>1. DOMAIN reg = One!Registers /\ DOMAIN wish = One!Registers /\ DOMAIN lost = One!Registers /\ DOMAIN val = One!Contexts
    BY DEF One!CoreInv, One!Typed, One!Registers
  <2>2. One!OfReg(s[1], r)
    BY <1>1, <1>2, <1>3 DEF One!OfReg
  <2>3. Len(s) \in Nat \ {0}
    BY <1>2, <1>3, RestOf
  <2>. QED
    BY <2>1, <2>2, <2>3
<1>6. PICK w, o : /\ w = (IF Head(s)[1] = "with" THEN wish[r] \cup {y} ELSE wish[r] \ {y})
                  /\ o = (IF One!Overtaken(c) THEN lost[r] \cup {y} ELSE lost[r] \ {y})
  OBVIOUS
<1>7. \A q \in One!Registers : /\ reg'[q] = IF q = r THEN v ELSE reg[q]
                               /\ wish'[q] = IF q = r THEN w ELSE wish[q]
                               /\ lost'[q] = IF q = r THEN o ELSE lost[q]
  BY <1>2, <1>5, <1>6
<1>8. r \in One!Registers => val[c] \ One!Stale(c)[r] = reg[r] \ One!Stale(c)[r]
  <2>1. One!Current(c)
    BY DEF One!CoreInv, One!Contexts
  <2>. QED
    BY <1>1, <1>2, <1>5, <2>1 DEF One!Current
<1>9. c = "isr" /\ r \in One!Registers => val[c] = reg[r]
  BY <1>8 DEF One!Stale, One!None
<1>10. One!Typed'
  <2>1. /\ reg' = [IMASK |-> reg'["IMASK"], CONFIG |-> reg'["CONFIG"]] /\ DOMAIN val' = One!Contexts
        /\ DOMAIN lost' = One!Registers /\ DOMAIN wish' = One!Registers
    BY <1>2, <1>5 DEF One!Registers
  <2>. QED
    BY <1>2, <2>1 DEF One!CoreInv, One!Typed
<1>11. One!Kept'
  <2>1. ASSUME NEW q \in One!Registers, q # r PROVE reg'[q] \ lost'[q] = wish'[q] \ lost'[q]
    BY <1>7, <2>1 DEF One!CoreInv, One!Kept
  <2>2. ASSUME r \in One!Registers PROVE v \ o = w \ o
    <3>1. reg[r] \ lost[r] = wish[r] \ lost[r]
      BY <2>2 DEF One!CoreInv, One!Kept
    <3>2. val[c] \ lost[r] = wish[r] \ lost[r]
      BY <1>8, <1>9, <2>2, <3>1 DEF One!Stale, One!Contexts
    <3>. QED
      BY <1>1, <1>2, <1>6, <3>2
  <2>. QED
    BY <1>7, <2>1, <2>2 DEF One!Kept
<1>12. r = "IMASK" => todo'[c] = <<>>
  <2>. SUFFICES ASSUME r = "IMASK" PROVE Tail(s) = <<>>
    BY <1>3
  <2>1. 1 \in 1 .. Len(s) /\ One!OfReg(s[1], "IMASK")
    BY <1>5
  <2>2. 1 = Len(s)
    BY <1>3, <2>1 DEF One!Formed
  <2>. QED
    BY <1>2, <1>3, <2>2, RestSecond
<1>13. One!Guarded'
  <2>1. CASE c = "main" /\ r = "IMASK"
    BY <1>3, <1>12, <2>1, StaysGuarded DEF One!CoreInv
  <2>2. CASE ~(c = "main" /\ r = "IMASK")
    <3>1. reg["IMASK"] \subseteq reg'["IMASK"]
      <4>1. CASE r = "IMASK"
        <5>1. c = "isr" /\ s[1][1] = "with"
          BY <1>1, <1>5, <2>2, <4>1 DEF One!CoreInv, One!Calls, One!OfRoutine, One!Contexts
        <5>. QED
          BY <1>1, <1>3, <1>7, <1>9, <4>1, <5>1 DEF One!Registers
      <4>2. CASE r # "IMASK"
        BY <1>7, <4>2 DEF One!Registers
      <4>. QED
        BY <4>1, <4>2
    <3>. QED
      BY <1>2, <1>3, <3>1, StaysGuarded DEF One!CoreInv
  <2>. QED
    BY <2>1, <2>2
<1>14. One!Served'
  <2>1. CASE c = "main"
    BY <1>2, <1>3, <2>1, StaysServed DEF One!CoreInv, One!Contexts
  <2>2. CASE c = "isr"
    <3>1. todo'["isr"] = <<>> \/ reg'["IMASK"] = reg["IMASK"]
      BY <1>7, <1>12, <2>2 DEF One!Registers
    <3>. QED
      BY <1>1, <1>2, <1>3, <2>2, <3>1, StaysServed DEF One!CoreInv, One!Contexts
  <2>. QED
    BY <2>1, <2>2 DEF One!Contexts
<1>15. One!Current(c)'
  <2>1. SUFFICES ASSUME todo'[c] # <<>>, NEW q \in One!Registers, One!OfReg(todo'[c][1], q)
                 PROVE  val'[c] = reg'[q]
    BY DEF One!Current
  <2>2. s[1][2] = q /\ Len(s) > 1
    <3>1. Tail(s) # <<>> /\ One!OfReg(Tail(s)[1], q)
      BY <1>3, <2>1
    <3>. QED
      BY <1>2, <1>3, <3>1, RestSecond
  <2>. QED
    BY <1>1, <1>2, <1>3, <1>5, <1>7, <2>2
<1>16. ASSUME NEW x \in One!Contexts, x # c PROVE One!Current(x)'
  <2>1. SUFFICES ASSUME todo[x] # <<>>, NEW q \in One!Registers, One!OfReg(todo[x][1], q)
                 PROVE  val'[x] \ One!Stale(x)'[q] = reg'[q] \ One!Stale(x)'[q]
    BY <1>3, <1>16 DEF One!Current
  <2>2. x = "main" /\ c = "isr"
    BY <1>16, <2>1 DEF One!Contexts
  <2>3. val[x] \ lost[q] = reg[q] \ lost[q] /\ val'[x] = val[x]
    BY <1>2, <1>16, <2>1, <2>2 DEF One!CoreInv, One!Current, One!Stale
  <2>4. CASE q # r
    BY <1>7, <2>2, <2>3, <2>4 DEF One!Stale
  <2>5. CASE q = r
    <3>1. One!Uses(s[1], IF r = "IMASK" THEN "mask" ELSE "timer")
      BY <1>5, <2>5 DEF One!Uses, One!Registers
    <3>2. ~One!Protected(IF r = "IMASK" THEN "mask" ELSE "timer")
      BY <1>1, <1>2, <2>2, <3>1, Unprotected DEF One!Kinds
    <3>3. One!IsSeq(todo["main"])
      BY DEF One!CoreInv, One!Calls, One!Contexts
    <3>4. Head(todo["main"]) = todo["main"][1]
      BY <2>1, <2>2, <3>3, RestOf
    <3>5. One!X(c) = r
      BY <1>1 DEF One!X
    <3>6. One!Overtaken(c)
      BY <2>1, <2>2, <2>5, <3>2, <3>4, <3>5 DEF One!Overtaken
    <3>7. reg'[q] = v /\ lost'[q] = lost[q] \cup {y} /\ val[c] = reg[q]
      BY <1>6, <1>7, <1>9, <2>2, <2>5, <3>6
    <3>8. One!Stale(x)' = lost'
      BY <2>2 DEF One!Stale
    <3>. QED
      BY <1>1, <1>2, <2>3, <3>7, <3>8
  <2>. QED
    BY <2>4, <2>5
<1>17. \A x \in One!Contexts : One!Current(x)'
  BY <1>15, <1>16
<1>. QED
  BY <1>3, <1>4, <1>10, <1>11, <1>13, <1>14, <1>17 DEF One!CoreInv, One!Contexts

\* What was read is current while nobody reads or writes a register.
LEMMA StaysCurrent ==
  ASSUME One!CoreInv, NEW c \in One!Contexts, NEW s, s = todo[c], s # <<>>, One!IsSeq(s), One!Formed(s),
         s[1][1] \notin {"read", "with", "without"}, UNCHANGED <<val, reg, lost>>,
         todo'[c] = Tail(s), \A x \in One!Contexts : x # c => todo'[x] = todo[x]
  PROVE  One!Current("main")' /\ One!Current("isr")'
<1>1. One!Current(c)'
  <2>1. SUFFICES ASSUME todo'[c] # <<>>, NEW q \in One!Registers, One!OfReg(todo'[c][1], q)
                 PROVE  FALSE
    BY DEF One!Current
  <2>2. Tail(s) # <<>> /\ One!OfReg(Tail(s)[1], q)
    BY <2>1
  <2>. QED
    BY <2>2, RestSecond
<1>2. ASSUME NEW x \in One!Contexts, x # c PROVE One!Current(x)'
  BY <1>2 DEF One!CoreInv, One!Current, One!Stale, One!Contexts
<1>. QED
  BY <1>1, <1>2 DEF One!Contexts

\* Interrupts and timers.
LEMMA OtherKeeps ==
  ASSUME One!CoreInv, NEW c \in One!Contexts, c = "main" => todo["isr"] = <<>>, One!Interrupts(c) \/ One!Timer(c)
  PROVE  One!CoreInv'
<1>1. PICK s : s = todo[c]
  OBVIOUS
<1>2. /\ s # <<>> /\ todo' = [todo EXCEPT ![c] = Tail(@)] /\ Head(s)[1] \in {"gid", "vec", "latch", "count", "zero"}
      /\ UNCHANGED <<val, reg, serving, desc, dma, asked, wish, lost>> /\ (Head(s)[1] # "gid" => gid' = gid)
  BY <1>1 DEF One!Interrupts, One!Timer, One!Now, One!Rest
<1>3. /\ One!Calls' /\ todo'[c] = Tail(s) /\ \A x \in One!Contexts : x # c => todo'[x] = todo[x]
      /\ \A x \in One!Contexts, kind \in One!Kinds : One!Has(todo'[x], kind) => One!Has(todo[x], kind)
      /\ One!IsSeq(s) /\ One!Formed(s) /\ Head(s) = s[1]
  BY <1>1, <1>2, Made
<1>4. /\ One!Fed(todo'["main"], desc') /\ One!Fed(todo'["isr"], desc')
      /\ One!Waits(todo'["main"], dma'[0].st = "idle") /\ One!Busy'
  BY <1>1, <1>2, NoDmaMade DEF One!Fields
<1>5. One!Typed' /\ One!Kept'
  BY <1>2 DEF One!CoreInv, One!Typed, One!Kept
<1>8. One!Served'
  <2>1. c = "isr" => Head(s)[1] # "gid"
    <3>1. 1 \in 1 .. Len(s)
      <4>1. Len(s) \in Nat \ {0}
        BY <1>2, <1>3, RestOf
      <4>. QED
        BY <4>1
    <3>. QED
      BY <1>1, <1>3, <3>1 DEF One!CoreInv, One!Calls, One!OfRoutine
  <2>. QED
    BY <1>1, <1>2, <1>3, <2>1, StaysServed DEF One!CoreInv, One!Contexts
<1>6. One!Guarded'
  <2>1. CASE s[1][1] = "gid"
    <3>1. 1 \in 1 .. Len(s)
      <4>1. Len(s) \in Nat \ {0}
        BY <1>2, <1>3, RestOf
      <4>. QED
        BY <4>1
    <3>2. c = "main"
      BY <1>1, <2>1, <3>1 DEF One!CoreInv, One!Calls, One!OfRoutine, One!Contexts
    <3>3. 1 = Len(s)
      BY <1>3, <2>1, <3>1 DEF One!Formed
    <3>4. Tail(s) = <<>>
      BY <1>2, <1>3, <3>3, RestSecond
    <3>. QED
      BY <1>3, <3>2, <3>4, StaysGuarded DEF One!CoreInv
  <2>2. CASE s[1][1] # "gid"
    BY <1>2, <1>3, <2>2, StaysGuarded DEF One!CoreInv
  <2>. QED
    BY <2>1, <2>2
<1>7. One!Current("main")' /\ One!Current("isr")'
  BY <1>1, <1>2, <1>3, StaysCurrent
<1>. QED
  BY <1>3, <1>4, <1>5, <1>6, <1>7, <1>8 DEF One!CoreInv

\* What the DMA's accesses of a call tell: with a routine's, no copy of the program is under way.
LEMMA RoutineCopies ==
  ASSUME One!CoreInv, todo["isr"] # <<>>, todo["isr"][1][1] \in One!Fields \cup {"idle", "go"}
  PROVE  /\ One!OfDesc(todo["isr"][1], "copy") \/ One!OfChan(todo["isr"][1], 1)
         /\ ~One!Has(todo["main"], "copy") /\ ~One!Waiting(todo["main"])
<1>1. 1 \in 1 .. Len(todo["isr"])
  <2>1. Len(todo["isr"]) \in Nat \ {0}
    BY RestOf DEF One!CoreInv, One!Calls, One!Contexts
  <2>. QED
    BY <2>1
<1>2. One!Uses(todo["isr"][1], "copy")
  BY <1>1 DEF One!CoreInv, One!Calls, One!OfRoutine
<1>3. ~One!Has(todo["main"], "copy")
  BY <1>1, <1>2 DEF One!CoreInv, One!Guarded, One!Has
<1>4. ASSUME One!Waiting(todo["main"]) PROVE FALSE
  <2>1. 1 \in 1 .. Len(todo["main"]) /\ One!Uses(todo["main"][1], "copy")
    BY <1>4 DEF One!Waiting, One!Uses, One!OfChan
  <2>. QED
    BY <1>3, <2>1 DEF One!Has
<1>. QED
  BY <1>2, <1>3, <1>4 DEF One!Uses

\* Filling a descriptor.
LEMMA FillKeeps ==
  ASSUME One!CoreInv, NEW c \in One!Contexts, c = "main" => todo["isr"] = <<>>,
         NEW f \in One!Fields, One!Now(c, f), desc' = [desc EXCEPT ![One!X(c)][f] = One!Y(c)],
         UNCHANGED <<val, reg, gid, serving, dma, asked, wish, lost>>
  PROVE  One!CoreInv'
<1>1. PICK s, d, y : s = todo[c] /\ d = Head(s)[2] /\ y = Head(s)[3]
  OBVIOUS
<1>2. /\ s # <<>> /\ todo' = [todo EXCEPT ![c] = Tail(@)] /\ Head(s)[1] = f
      /\ desc' = [desc EXCEPT ![d][f] = y]
  BY <1>1 DEF One!Now, One!Rest, One!X, One!Y
<1>3. /\ One!Calls' /\ todo'[c] = Tail(s) /\ \A x \in One!Contexts : x # c => todo'[x] = todo[x]
      /\ \A x \in One!Contexts, kind \in One!Kinds : One!Has(todo'[x], kind) => One!Has(todo[x], kind)
      /\ One!IsSeq(s) /\ One!Formed(s) /\ Head(s) = s[1]
  BY <1>1, <1>2, Made
<1>4. /\ DOMAIN desc = {"copy", "own"}
      /\ \A e \in {"copy", "own"} : desc[e] = [body |-> desc[e].body, src |-> desc[e].src, dst |-> desc[e].dst]
  BY DEF One!CoreInv, One!Typed
<1>5. PICK n : n = [desc[d] EXCEPT ![f] = y]
  OBVIOUS
<1>6. DOMAIN desc' = {"copy", "own"} /\ \A e \in {"copy", "own"} : desc'[e] = IF e = d THEN n ELSE desc[e]
  BY <1>2, <1>4, <1>5
<1>7. d \in {"copy", "own"} => /\ n = [body |-> n.body, src |-> n.src, dst |-> n.dst]
                               /\ \A g \in One!Fields : n[g] = IF g = f THEN y ELSE desc[d][g]
  BY <1>4, <1>5 DEF One!Fields
<1>8. \A e \in {"copy", "own"}, g \in One!Fields :
        desc'[e][g] = IF s[1][1] = g /\ s[1][2] = e THEN s[1][3] ELSE desc[e][g]
  <2>1. s[1][1] = f /\ s[1][2] = d /\ s[1][3] = y
    BY <1>1, <1>2, <1>3
  <2>2. ASSUME NEW e \in {"copy", "own"}, NEW g \in One!Fields
        PROVE  desc'[e][g] = IF g = f /\ e = d THEN y ELSE desc[e][g]
    <3>1. CASE e = d
      BY <1>6, <1>7, <3>1
    <3>2. CASE e # d
      BY <1>6, <3>2
    <3>. QED
      BY <3>1, <3>2
  <2>. QED
    BY <2>1, <2>2
<1>9. One!Typed' /\ One!Kept'
  <2>1. \A e \in {"copy", "own"} : desc'[e] = [body |-> desc'[e].body, src |-> desc'[e].src, dst |-> desc'[e].dst]
    BY <1>4, <1>6, <1>7
  <2>. QED
    BY <1>6, <2>1 DEF One!CoreInv, One!Typed, One!Kept
<1>18. One!Served'
  BY <1>1, <1>2, <1>3, StaysServed DEF One!CoreInv, One!Contexts
<1>10. One!Guarded'
  BY <1>3, StaysGuarded DEF One!CoreInv
<1>11. One!Current("main")' /\ One!Current("isr")'
  BY <1>1, <1>2, <1>3, StaysCurrent DEF One!Fields
<1>12. c = "isr" => d = "copy" /\ ~One!Has(todo["main"], "copy") /\ ~One!Waiting(todo["main"])
  BY <1>1, <1>2, <1>3, RoutineCopies DEF One!Fields, One!OfDesc, One!OfChan
<1>13. One!Fed(todo'[c], desc')
  <2>1. One!Fed(s, desc)
    BY <1>1 DEF One!CoreInv, One!Contexts
  <2>2. s # <<>> /\ One!IsSeq(s) /\ One!Formed(s) /\ todo'[c] = Tail(s)
    BY <1>2, <1>3
  <2>3. PICK now, old : now = desc' /\ old = desc
    OBVIOUS
  <2>4. \A e \in {"copy", "own"}, g \in One!Fields :
          now[e][g] = IF s[1][1] = g /\ s[1][2] = e THEN s[1][3] ELSE old[e][g]
    BY <1>8, <2>3
  <2>5. One!Fed(s, old)
    BY <2>1, <2>3
  <2>6. One!Fed(Tail(s), now)
    BY <2>2, <2>4, <2>5, RestFed
  <2>. QED
    BY <2>2, <2>3, <2>6
<1>14. ASSUME NEW x \in One!Contexts, x # c PROVE One!Fed(todo'[x], desc')
  <2>1. CASE x = "isr"
    BY <1>3, <1>14, <2>1, NoneFresh DEF Fresh, One!Contexts
  <2>2. CASE x = "main"
    <3>1. c = "isr" /\ todo'[x] = todo["main"]
      BY <1>3, <1>14, <2>2 DEF One!Contexts
    <3>2. SUFFICES ASSUME NEW k \in 1 .. Len(todo["main"]), todo["main"][k][1] = "go"
                   PROVE  \A g \in One!Fields : desc'[todo["main"][k][3].d][g] = desc[todo["main"][k][3].d][g]
      BY <3>1 DEF One!CoreInv, One!Fed
    <3>3. ~One!Uses(todo["main"][k], "copy")
      BY <1>12, <3>1, <3>2 DEF One!Has
    <3>4. todo["main"][k][3].d = "own"
      BY <3>2, <3>3 DEF One!CoreInv, One!Calls, One!Formed, One!Contexts, One!DescOf, One!Uses, One!OfChan
    <3>. QED
      BY <1>6, <1>12, <3>1, <3>4
  <2>. QED
    BY <2>1, <2>2 DEF One!Contexts
<1>15. One!Waits(todo'["main"], dma'[0].st = "idle")
  <2>1. PICK idle \in BOOLEAN : idle = (dma[0].st = "idle")
    OBVIOUS
  <2>2. One!Waits(todo["main"], idle)
    BY <2>1 DEF One!CoreInv
  <2>3. CASE c = "main"
    <3>1. One!Waits(Tail(s), idle)
      BY <1>1, <1>2, <1>3, <2>2, <2>3, RestWaits DEF One!Fields
    <3>. QED
      BY <1>3, <2>1, <2>3, <3>1
  <2>4. CASE c = "isr"
    BY <1>3, <2>1, <2>2, <2>4 DEF One!Contexts
  <2>. QED
    BY <2>3, <2>4 DEF One!Contexts
<1>16. ASSUME NEW ch \in One!Chans, dma[ch].st # "idle" PROVE d # One!DescOf(ch)
  <2>1. CASE ch = 1
    <3>1. PICK x \in One!Contexts : One!Waiting(todo[x])
      BY <1>16, <2>1 DEF One!CoreInv, One!Busy
    <3>2. x # c
      BY <1>1, <1>2, <1>3, <3>1 DEF One!Waiting, One!Fields
    <3>3. c = "main"
      BY <1>12, <3>1, <3>2 DEF One!Contexts
    <3>4. todo[x] = <<>>
      BY <3>2, <3>3 DEF One!Contexts
    <3>. QED
      BY <3>1, <3>4 DEF One!Waiting
  <2>2. CASE ch = 0
    <3>. SUFFICES ASSUME d = "own" PROVE FALSE
      BY <2>2 DEF One!DescOf
    <3>1. c = "main"
      BY <1>12 DEF One!Contexts
    <3>2. 1 \in 1 .. Len(s) /\ 1 .. 1 - 1 = {}
      <4>1. Len(s) \in Nat \ {0}
        BY <1>2, <1>3, RestOf
      <4>. QED
        BY <4>1
    <3>3. One!OfDesc(s[1], "own")
      BY <1>1, <1>2, <1>3 DEF One!OfDesc
    <3>. QED
      BY <1>1, <1>16, <2>2, <3>1, <3>2, <3>3 DEF One!CoreInv, One!Waits
  <2>. QED
    BY <2>1, <2>2 DEF One!Chans
<1>17. One!Busy'
  <2>1. \A x \in One!Contexts : One!Waiting(todo[x]) => One!Waiting(todo'[x])
    BY <1>1, <1>2, <1>3 DEF One!Waiting, One!Fields
  <2>2. \A ch \in One!Chans : dma[ch].st # "idle" => desc'[One!DescOf(ch)] = desc[One!DescOf(ch)]
    BY <1>6, <1>16 DEF One!DescOf
  <2>. QED
    BY <2>1, <2>2 DEF One!CoreInv, One!Busy
<1>. QED
  BY <1>3, <1>9, <1>10, <1>11, <1>13, <1>14, <1>15, <1>17, <1>18 DEF One!CoreInv, One!Contexts

\* Waiting for a channel.
LEMMA IdleKeeps ==
  ASSUME One!CoreInv, NEW c \in One!Contexts, c = "main" => todo["isr"] = <<>>,
         One!Now(c, "idle"), dma[One!X(c)].st = "idle",
         UNCHANGED <<val, reg, gid, serving, desc, dma, asked, wish, lost>>
  PROVE  One!CoreInv'
<1>1. PICK s, ch : s = todo[c] /\ ch = Head(s)[2]
  OBVIOUS
<1>2. /\ s # <<>> /\ todo' = [todo EXCEPT ![c] = Tail(@)] /\ Head(s)[1] = "idle" /\ dma[ch].st = "idle"
  BY <1>1 DEF One!Now, One!Rest, One!X
<1>3. /\ One!Calls' /\ todo'[c] = Tail(s) /\ \A x \in One!Contexts : x # c => todo'[x] = todo[x]
      /\ \A x \in One!Contexts, kind \in One!Kinds : One!Has(todo'[x], kind) => One!Has(todo[x], kind)
      /\ One!IsSeq(s) /\ One!Formed(s) /\ Head(s) = s[1]
  BY <1>1, <1>2, Made
<1>4. One!Fed(todo'["main"], desc') /\ One!Fed(todo'["isr"], desc')
  BY <1>1, <1>2, <1>3, StaysFed DEF One!Fields
<1>5. One!Typed' /\ One!Kept'
  BY DEF One!CoreInv, One!Typed, One!Kept
<1>10. One!Served'
  BY <1>1, <1>2, <1>3, StaysServed DEF One!CoreInv, One!Contexts
<1>6. One!Guarded'
  BY <1>3, StaysGuarded DEF One!CoreInv
<1>7. One!Current("main")' /\ One!Current("isr")'
  BY <1>1, <1>2, <1>3, StaysCurrent
<1>8. One!Waits(todo'["main"], dma'[0].st = "idle")
  <2>1. PICK idle \in BOOLEAN : idle = (dma[0].st = "idle")
    OBVIOUS
  <2>2. One!Waits(todo["main"], idle)
    BY <2>1 DEF One!CoreInv
  <2>3. CASE c = "main"
    <3>1. s[1][1] = "idle" /\ s[1][2] = 0 => idle
      BY <1>1, <1>2, <1>3, <2>1
    <3>2. One!Waits(Tail(s), idle)
      BY <1>1, <1>2, <1>3, <2>2, <2>3, <3>1, RestWaits
    <3>. QED
      BY <1>3, <2>1, <2>3, <3>2
  <2>4. CASE c = "isr"
    BY <1>3, <2>1, <2>2, <2>4 DEF One!Contexts
  <2>. QED
    BY <2>3, <2>4 DEF One!Contexts
<1>9. One!Busy'
  <2>1. \A x \in One!Contexts : One!Waiting(todo[x]) /\ dma[1].st # "idle" => One!Waiting(todo'[x])
    BY <1>1, <1>2, <1>3 DEF One!Waiting
  <2>. QED
    BY <2>1 DEF One!CoreInv, One!Busy
<1>. QED
  BY <1>3, <1>4, <1>5, <1>6, <1>7, <1>8, <1>9, <1>10 DEF One!CoreInv

\* Starting one: the descriptor is filled, and e_dma_copy has but to wait.
LEMMA StartKeeps ==
  ASSUME One!CoreInv, NEW c \in One!Contexts, c = "main" => todo["isr"] = <<>>,
         One!Now(c, "go"), UNCHANGED <<val, reg, gid, serving, desc, wish, lost>>,
         dma' = [dma EXCEPT ![One!X(c)].st = "fetch", ![One!X(c)].d = One!Y(c).d],
         asked' = [asked EXCEPT ![One!X(c)] = One!Y(c).q]
  PROVE  One!CoreInv'
<1>1. PICK s, ch, y : s = todo[c] /\ ch = Head(s)[2] /\ y = Head(s)[3]
  OBVIOUS
<1>2. /\ s # <<>> /\ todo' = [todo EXCEPT ![c] = Tail(@)] /\ Head(s)[1] = "go"
      /\ dma' = [dma EXCEPT ![ch].st = "fetch", ![ch].d = y.d] /\ asked' = [asked EXCEPT ![ch] = y.q]
  BY <1>1 DEF One!Now, One!Rest, One!X, One!Y
<1>3. /\ One!Calls' /\ todo'[c] = Tail(s) /\ \A x \in One!Contexts : x # c => todo'[x] = todo[x]
      /\ \A x \in One!Contexts, kind \in One!Kinds : One!Has(todo'[x], kind) => One!Has(todo[x], kind)
      /\ One!IsSeq(s) /\ One!Formed(s) /\ Head(s) = s[1]
  BY <1>1, <1>2, Made
<1>4. 1 \in 1 .. Len(s) /\ Len(s) \in Nat \ {0} /\ 1 .. 1 - 1 = {}
  <2>1. Len(s) \in Nat \ {0}
    BY <1>2, <1>3, RestOf
  <2>. QED
    BY <2>1
<1>5. /\ ch \in One!Chans /\ y.d = One!DescOf(ch) /\ y.q \in OneRequests
      /\ ch = 1 => 1 = Len(s) - 1 /\ s[1 + 1][1] = "idle" /\ s[1 + 1][2] = 1
      /\ \A j \in 1 .. Len(s) : ~One!OfDesc(s[j], One!DescOf(ch))
  <2>1. s[1][1] = "go" /\ s[1][2] = ch /\ s[1][3] = y
    BY <1>1, <1>2, <1>3
  <2>2. /\ ch \in One!Chans /\ y.d = One!DescOf(ch) /\ y.q \in OneRequests
        /\ ch = 1 => 1 = Len(s) - 1 /\ s[1 + 1][1] = "idle" /\ s[1 + 1][2] = 1
        /\ \A j \in 1 .. Len(s) : One!OfDesc(s[j], One!DescOf(ch)) => j < 1
    BY <1>3, <1>4, <2>1 DEF One!Formed
  <2>3. \A j \in 1 .. Len(s) : ~(j < 1)
    BY <1>4
  <2>. QED
    BY <2>2, <2>3
<1>6. \A f \in One!Fields : desc[One!DescOf(ch)][f] = One!Filled(y.q)[f]
  <2>1. One!Fed(s, desc)
    BY <1>1 DEF One!CoreInv, One!Contexts
  <2>. QED
    BY <1>1, <1>2, <1>3, <1>4, <1>5, <2>1 DEF One!Fed
<1>7. desc[One!DescOf(ch)] = One!Filled(y.q)
  <2>1. PICK m, n : m = desc[One!DescOf(ch)] /\ n = One!Filled(y.q)
    OBVIOUS
  <2>2. m = [body |-> m.body, src |-> m.src, dst |-> m.dst]
    BY <2>1 DEF One!CoreInv, One!Typed, One!DescOf
  <2>3. n = [body |-> n.body, src |-> n.src, dst |-> n.dst]
    BY <2>1 DEF One!Filled
  <2>4. m.body = n.body /\ m.src = n.src /\ m.dst = n.dst
    BY <1>6, <2>1 DEF One!Fields
  <2>. QED
    BY <2>1, <2>2, <2>3, <2>4
<1>8. /\ DOMAIN dma' = One!Chans /\ DOMAIN asked' = One!Chans
      /\ \A h \in One!Chans : h # ch => dma'[h] = dma[h] /\ asked'[h] = asked[h]
      /\ asked'[ch] = y.q
      /\ dma'[ch].st = "fetch" /\ dma'[ch].d = One!DescOf(ch)
      /\ dma'[ch] = [st |-> dma'[ch].st, d |-> dma'[ch].d, got |-> dma'[ch].got]
  <2>1. DOMAIN dma = One!Chans /\ DOMAIN asked = One!Chans /\ dma[ch] = [st |-> dma[ch].st, d |-> dma[ch].d, got |-> dma[ch].got]
    BY <1>5 DEF One!CoreInv, One!Typed
  <2>2. PICK n : n = [st |-> "fetch", d |-> y.d, got |-> dma[ch].got]
    OBVIOUS
  <2>3. [[dma[ch] EXCEPT !.st = "fetch"] EXCEPT !.d = y.d] = n
    <3>1. PICK m : m = dma[ch] /\ m = [st |-> m.st, d |-> m.d, got |-> m.got]
      BY <2>1
    <3>2. [m EXCEPT !.st = "fetch"] = [st |-> "fetch", d |-> m.d, got |-> m.got]
      BY <3>1
    <3>3. [[st |-> "fetch", d |-> m.d, got |-> m.got] EXCEPT !.d = y.d] = n
      BY <2>2, <3>1
    <3>. QED
      BY <3>1, <3>2, <3>3
  <2>4. dma' = [dma EXCEPT ![ch] = n]
    BY <1>2, <1>5, <2>1, <2>3
  <2>. QED
    BY <1>2, <1>5, <2>1, <2>2, <2>4
<1>9. One!Typed' /\ One!Kept'
  BY <1>8 DEF One!CoreInv, One!Typed, One!Kept
<1>16. One!Served'
  BY <1>1, <1>2, <1>3, StaysServed DEF One!CoreInv, One!Contexts
<1>10. One!Fed(todo'["main"], desc') /\ One!Fed(todo'["isr"], desc')
  BY <1>1, <1>2, <1>3, StaysFed DEF One!Fields
<1>11. One!Guarded'
  BY <1>3, StaysGuarded DEF One!CoreInv
<1>12. One!Current("main")' /\ One!Current("isr")'
  BY <1>1, <1>2, <1>3, StaysCurrent
<1>13. c = "isr" => ch = 1
  BY <1>1, <1>2, <1>3, RoutineCopies DEF One!Fields, One!OfDesc, One!OfChan
<1>14. One!Waits(todo'["main"], dma'[0].st = "idle")
  <2>1. PICK idle \in BOOLEAN, still \in BOOLEAN : idle = (dma[0].st = "idle") /\ still = (dma'[0].st = "idle")
    OBVIOUS
  <2>2. One!Waits(todo["main"], idle)
    BY <2>1 DEF One!CoreInv
  <2>3. ch = 0 \/ still = idle
    BY <1>5, <1>8, <2>1 DEF One!Chans
  <2>4. CASE c = "main"
    <3>1. still \/ ~idle \/ \A k \in 1 .. Len(s) : ~One!OfDesc(s[k], "own")
      BY <1>5, <2>3 DEF One!DescOf
    <3>2. One!Waits(s, idle) /\ s[1][1] # "idle"
      BY <1>1, <1>2, <1>3, <2>2, <2>4
    <3>3. One!Waits(Tail(s), still)
      BY <1>2, <1>3, <3>1, <3>2, RestWaits
    <3>. QED
      BY <1>3, <2>1, <2>4, <3>3
  <2>5. CASE c = "isr"
    BY <1>3, <1>13, <2>1, <2>2, <2>3, <2>5 DEF One!Contexts
  <2>. QED
    BY <2>4, <2>5 DEF One!Contexts
<1>15. One!Busy'
  <2>1. ASSUME NEW h \in One!Chans, h # ch
        PROVE  /\ dma'[h].st = "fetch" => dma'[h].d = One!DescOf(h) /\ desc'[One!DescOf(h)] = One!Filled(asked'[h]) /\ asked'[h] \in OneRequests
               /\ dma'[h].st = "move" => dma'[h].got = One!Filled(asked'[h]) /\ asked'[h] \in OneRequests
    <3>1. dma'[h] = dma[h] /\ asked'[h] = asked[h] /\ desc' = desc
      BY <1>8, <2>1
    <3>2. /\ dma[h].st = "fetch" => dma[h].d = One!DescOf(h) /\ desc[One!DescOf(h)] = One!Filled(asked[h]) /\ asked[h] \in OneRequests
          /\ dma[h].st = "move" => dma[h].got = One!Filled(asked[h]) /\ asked[h] \in OneRequests
      BY DEF One!CoreInv, One!Busy
    <3>. QED
      BY <3>1, <3>2
  <2>2. dma'[ch].d = One!DescOf(ch) /\ desc'[One!DescOf(ch)] = One!Filled(asked'[ch]) /\ asked'[ch] \in OneRequests /\ dma'[ch].st # "move"
    BY <1>5, <1>7, <1>8
  <2>3. dma'[1].st # "idle" => \E x \in One!Contexts : One!Waiting(todo'[x])
    <3>1. CASE ch = 1
      <4>1. 1 = Len(s) - 1
        BY <1>5, <3>1
      <4>2. Len(Tail(s)) = Len(s) - 1 /\ \A k \in 1 .. Len(s) - 1 : Tail(s)[k] = s[k + 1]
        BY <1>2, <1>3, RestOf
      <4>3. Len(Tail(s)) = 1 /\ Tail(s)[1] = s[1 + 1]
        BY <4>1, <4>2
      <4>4. One!Waiting(todo'[c])
        BY <1>3, <1>5, <3>1, <4>3 DEF One!Waiting
      <4>. QED
        BY <4>4
    <3>2. CASE ch = 0
      <4>1. \A x \in One!Contexts : One!Waiting(todo[x]) => One!Waiting(todo'[x])
        BY <1>1, <1>2, <1>3 DEF One!Waiting
      <4>2. dma'[1] = dma[1]
        BY <1>8, <3>2 DEF One!Chans
      <4>. QED
        BY <4>1, <4>2 DEF One!CoreInv, One!Busy, One!Chans
    <3>. QED
      BY <1>5, <3>1, <3>2 DEF One!Chans
  <2>. QED
    BY <2>1, <2>2, <2>3 DEF One!Busy
<1>. QED
  BY <1>3, <1>9, <1>10, <1>11, <1>12, <1>14, <1>15, <1>16 DEF One!CoreInv

\* A descriptor filled for a request moves it: the elements divide it and the counts hold it.
LEMMA FilledMoves ==
  ASSUME NEW q, One!IsRequest(q)
  PROVE  One!Transfer(One!Filled(q)) = q
<1>1. PICK a \in Nat, b \in Nat, n \in Nat : a = q.src /\ b = q.dst /\ n = q.n /\ q = [src |-> a, dst |-> b, n |-> n]
  BY DEF One!IsRequest
<1>2. PICK e \in {1, 2, 4, 8} : e = One!Elem(q) /\ n % e = 0
  <2>. DEFINE D(s) == q.src % s = 0 /\ q.dst % s = 0 /\ q.n % s = 0
              P(s) == D(s) /\ \A z \in {1, 2, 4, 8} : z > s => q.src % z # 0 \/ q.dst % z # 0 \/ q.n % z # 0
  <2>1. D(1)
    BY <1>1
  <2>2. \E s \in {1, 2, 4, 8} : P(s)
    <3>. HIDE DEF D
    <3>1. \A s \in {1, 2, 4, 8} : P(s) <=> D(s) /\ \A z \in {1, 2, 4, 8} : z > s => ~D(z)
      BY DEF D
    <3>. HIDE DEF P
    <3>2. D(8) => P(8)
      BY <3>1
    <3>3. ~D(8) /\ D(4) => P(4)
      BY <3>1
    <3>4. ~D(8) /\ ~D(4) /\ D(2) => P(2)
      BY <3>1
    <3>5. ~D(8) /\ ~D(4) /\ ~D(2) => P(1)
      BY <2>1, <3>1
    <3>. QED
      BY <3>2, <3>3, <3>4, <3>5
  <2>3. One!Elem(q) \in {1, 2, 4, 8} /\ P(One!Elem(q))
    <3>1. One!Elem(q) = CHOOSE s \in {1, 2, 4, 8} : P(s)
      BY DEF One!Elem
    <3>. HIDE DEF P
    <3>. QED
      BY <2>2, <3>1
  <2>. QED
    BY <1>1, <2>3
<1>3. PICK u \in Nat : u = n \div e /\ e * u = n /\ u < OneCountMod
  <2>1. n \div e \in Nat /\ e * (n \div e) = n
    BY <1>2
  <2>. QED
    BY <1>1, <1>2, <2>1 DEF One!IsRequest
<1>4. u % OneCountMod = u /\ u \div OneCountMod = 0
  BY <1>3, OneConstants
<1>5. One!Body(q) = [elem |-> e, inner |-> u, outer |-> 1]
  <2>1. (q.n \div One!Elem(q)) = u
    BY <1>1, <1>2, <1>3
  <2>2. 0 + 1 - (0 % 2) = 1
    OBVIOUS
  <2>. QED
    BY <1>2, <1>4, <2>1, <2>2 DEF One!Body
<1>6. e * u * 1 = n
  BY <1>3
<1>. QED
  BY <1>1, <1>5, <1>6 DEF One!Transfer, One!Filled

\* What the invariant is for.
LEMMA CoreIsRight ==
  ASSUME One!CoreInv
  PROVE  One!UpdatesKept /\ One!TransfersAsAsked
<1>1. One!UpdatesKept
  BY DEF One!CoreInv, One!UpdatesKept, One!Kept
<1>2. ASSUME NEW ch \in One!Chans, dma[ch].st = "move" PROVE One!Transfer(dma[ch].got) = asked[ch]
  <2>1. dma[ch].got = One!Filled(asked[ch]) /\ asked[ch] \in OneRequests
    BY <1>2 DEF One!CoreInv, One!Busy
  <2>2. One!IsRequest(asked[ch])
    BY <2>1, OneConstants
  <2>. QED
    BY <2>1, <2>2, FilledMoves
<1>. QED
  BY <1>1, <1>2 DEF One!TransfersAsAsked

\* Before the first call.
LEMMA CoreStarts ==
  ASSUME One!Init
  PROVE  One!CoreInv
<1>1. DOMAIN todo = One!Contexts /\ todo["main"] = <<>> /\ todo["isr"] = <<>>
  BY DEF One!Init, One!Contexts
<1>2. One!Calls
  BY <1>1, NoneFresh DEF One!Calls, One!Contexts, Fresh
<1>3. One!Typed
  <2>1. /\ DOMAIN val = One!Contexts /\ reg = [IMASK |-> reg["IMASK"], CONFIG |-> reg["CONFIG"]]
      /\ DOMAIN lost = One!Registers /\ DOMAIN wish = One!Registers
    BY DEF One!Init, One!Contexts, One!None, One!Registers
  <2>2. \A d \in {"copy", "own"} : desc[d] = [body |-> desc[d].body, src |-> desc[d].src, dst |-> desc[d].dst]
    BY DEF One!Init, One!Empty
  <2>3. \A ch \in One!Chans : dma[ch] = [st |-> dma[ch].st, d |-> dma[ch].d, got |-> dma[ch].got]
    BY DEF One!Init, One!Idle
  <2>. QED
    BY <2>1, <2>2, <2>3 DEF One!Init, One!Typed
<1>4. One!Guarded
  BY <1>1, NoneFresh DEF One!Guarded, Only, One!Kinds
<1>5. One!Current("main") /\ One!Current("isr") /\ One!Kept /\ One!Served
  BY <1>1 DEF One!Current, One!Kept, One!Served, One!Init
<1>6. One!Fed(todo["main"], desc) /\ One!Fed(todo["isr"], desc)
  BY <1>1, NoneFresh DEF Fresh
<1>7. One!Waits(todo["main"], dma[0].st = "idle")
  BY <1>1, NoneFresh DEF Fresh, One!Waits
<1>8. One!Busy
  BY DEF One!Busy, One!Init, One!Idle
<1>. QED
  BY <1>2, <1>3, <1>4, <1>5, <1>6, <1>7, <1>8 DEF One!CoreInv

\* The program calls the library.
LEMMA CallKeeps ==
  ASSUME One!CoreInv, NEW a, Fresh(a), One!Call(a), One!Has(a, "copy") => One!Protected("copy")
  PROVE  One!CoreInv'
BY Begun DEF One!Call, One!Contexts

\* Each of its calls.
LEMMA CallsKeep ==
  ASSUME One!CoreInv, One!CallIrq \/ One!CallGlobalMask \/ One!CallTimer \/ One!CallWait \/ One!CallDma
  PROVE  One!CoreInv'
<1>1. ASSUME NEW i \in OneIrqs, NEW s \in BOOLEAN, One!Call(One!e_irq_mask(i, s)) PROVE One!CoreInv'
  <2>1. Fresh(One!e_irq_mask(i, s)) /\ Only(One!e_irq_mask(i, s), {"mask"})
    BY MaskFresh
  <2>. QED
    BY <1>1, <2>1, CallKeeps DEF Only, One!Kinds
<1>2. ASSUME NEW i \in OneIrqs, One!Call(One!e_irq_attach(i)) PROVE One!CoreInv'
  <2>1. Fresh(One!e_irq_attach(i)) /\ Only(One!e_irq_attach(i), {})
    BY AttachFresh
  <2>. QED
    BY <1>2, <2>1, CallKeeps DEF Only, One!Kinds
<1>3. ASSUME NEW i \in OneIrqs, One!Call(One!e_irq_set(i)) PROVE One!CoreInv'
  <2>1. Fresh(One!e_irq_set(i)) /\ Only(One!e_irq_set(i), {})
    BY SetFresh
  <2>. QED
    BY <1>3, <2>1, CallKeeps DEF Only, One!Kinds
<1>4. ASSUME NEW i \in OneIrqs, One!Call(One!e_irq_clear(i)) PROVE One!CoreInv'
  <2>1. Fresh(One!e_irq_clear(i)) /\ Only(One!e_irq_clear(i), {})
    BY ClearFresh
  <2>. QED
    BY <1>4, <2>1, CallKeeps DEF Only, One!Kinds
<1>5. ASSUME One!CallGlobalMask PROVE One!CoreInv'
  <2>1. PICK s \in BOOLEAN : One!Call(One!e_irq_global_mask(s))
    BY <1>5 DEF One!CallGlobalMask
  <2>2. Fresh(One!e_irq_global_mask(s)) /\ Only(One!e_irq_global_mask(s), {})
    BY GlobalMaskFresh
  <2>. QED
    BY <2>1, <2>2, CallKeeps DEF Only, One!Kinds
<1>6. ASSUME One!CallTimer PROVE One!CoreInv'
  <2>1. PICK t \in One!Timers : One!Call(One!e_ctimer_stop(t)) \/ One!Call(One!e_ctimer_start(t))
    BY <1>6 DEF One!CallTimer
  <2>2. Fresh(One!e_ctimer_stop(t)) /\ Only(One!e_ctimer_stop(t), {"timer"})
    BY StopFresh
  <2>3. Fresh(One!e_ctimer_start(t)) /\ Only(One!e_ctimer_start(t), {"timer"})
    BY StartFresh
  <2>. QED
    BY <2>1, <2>2, <2>3, CallKeeps DEF Only, One!Kinds
<1>7. ASSUME One!CallWait PROVE One!CoreInv'
  <2>1. Fresh(One!e_wait(0)) /\ Only(One!e_wait(0), {"timer"})
    BY WaitFresh
  <2>. QED
    BY <1>7, <2>1, CallKeeps DEF One!CallWait, Only, One!Kinds
<1>8. ASSUME NEW q \in OneRequests, One!Protected("copy"), One!Call(One!e_dma_copy(q)) PROVE One!CoreInv'
  <2>1. Fresh(One!e_dma_copy(q)) /\ Only(One!e_dma_copy(q), {"copy"})
    BY CopyFresh
  <2>. QED
    BY <1>8, <2>1, CallKeeps DEF Only, One!Kinds
<1>9. ASSUME NEW q \in OneRequests, One!Call(One!e_dma_set_desc(0, q) \o One!e_dma_start("own", 0, q)) PROVE One!CoreInv'
  <2>1. PICK a : a = One!e_dma_set_desc(0, q) \o One!e_dma_start("own", 0, q)
    OBVIOUS
  <2>2. Fresh(a) /\ Only(a, {})
    BY <2>1, TransferFresh
  <2>. QED
    BY <1>9, <2>1, <2>2, CallKeeps DEF Only, One!Kinds
<1>10. ASSUME One!Call(One!e_dma_wait(0)) PROVE One!CoreInv'
  <2>1. Fresh(One!e_dma_wait(0)) /\ Only(One!e_dma_wait(0), {})
    BY IdleFresh
  <2>. QED
    BY <1>10, <2>1, CallKeeps DEF Only, One!Kinds
<1>11. One!CallIrq => One!CoreInv'
  BY <1>1, <1>2, <1>3, <1>4 DEF One!CallIrq
<1>12. One!CallDma => One!CoreInv'
  BY <1>8, <1>9, <1>10 DEF One!CallDma
<1>. QED
  BY <1>5, <1>6, <1>7, <1>11, <1>12

\* An interrupt lets its routine begin: one that protects a call is masked.
LEMMA InterruptKeeps ==
  ASSUME One!CoreInv, One!Interrupt
  PROVE  One!CoreInv'
<1>1. PICK i \in OneIrqs \ reg["IMASK"] :
        /\ serving' = i
        /\ \E code \in {<<>>} \cup (IF vec[i] = "routine" THEN UNION {One!RoutineCall(i, c) : c \in OneRoutines[i]} ELSE {}) :
              todo' = [todo EXCEPT !["isr"] = code]
  BY DEF One!Interrupt
<1>2. PICK code : /\ todo' = [todo EXCEPT !["isr"] = code]
                  /\ code # <<>> => \E c \in OneRoutines[i] : code \in One!RoutineCall(i, c)
  <2>1. PICK code \in {<<>>} \cup (IF vec[i] = "routine" THEN UNION {One!RoutineCall(i, c) : c \in OneRoutines[i]} ELSE {}) :
           todo' = [todo EXCEPT !["isr"] = code]
    BY <1>1
  <2>2. code # <<>> => code \in UNION {One!RoutineCall(i, c) : c \in OneRoutines[i]}
    OBVIOUS
  <2>3. code # <<>> => \E c \in OneRoutines[i] : code \in One!RoutineCall(i, c)
    BY <2>2
  <2>4. WITNESS code
  <2>. QED
    BY <2>1, <2>3
<1>3. Fresh(code) /\ One!OfRoutine(code) /\ Only(code, OneRoutines[i])
  <2>1. CASE code = <<>>
    BY <2>1, NoneFresh DEF Only
  <2>2. CASE code # <<>>
    <3>1. PICK c \in OneRoutines[i] : code \in One!RoutineCall(i, c)
      BY <1>2, <2>2
    <3>. QED
      BY <3>1, RoutineFresh DEF Only
  <2>. QED
    BY <2>1, <2>2
<1>4. One!Has(code, "copy") => ~One!Protected("copy")
  BY <1>1, <1>3 DEF One!Interrupt, One!Protected, One!Kinds, Only
<1>6. One!Served'
  <2>1. todo'["isr"] = code /\ gid' = FALSE /\ reg' = reg
    BY <1>2 DEF One!Interrupt, One!CoreInv, One!Calls, One!Contexts
  <2>. QED
    BY <1>1, <1>3, <2>1 DEF One!Served, Only
<1>5. serving = -1 /\ serving' # -1 /\ todo["isr"] = <<>> /\ UNCHANGED <<val, reg, gid, desc, dma, asked, wish, lost>>
  <2>1. serving' # -1
    BY <1>1, OneConstants
  <2>2. todo["isr"] = <<>>
    BY DEF One!Interrupt, One!CoreInv, One!Calls
  <2>. QED
    BY <2>1, <2>2 DEF One!Interrupt
<1>. QED
  BY <1>2, <1>3, <1>4, <1>5, <1>6, Begun DEF One!Contexts

\* A routine returns, a timer ticks, a neighbour raises an interrupt.
LEMMA HardwareKeeps ==
  ASSUME One!CoreInv,
         One!Return \/ (\E t \in One!Timers : One!Tick(t)) \/ (\E i \in OneIrqs : One!Raised(i))
  PROVE  One!CoreInv'
<1>1. /\ UNCHANGED <<todo, val, reg, gid, desc, dma, asked, wish, lost>>
      /\ serving' = serving \/ todo["isr"] = <<>>
      /\ serving' = serving \/ serving' = -1
  BY DEF One!Return, One!Tick, One!Raised
<1>2. One!Calls'
  BY <1>1 DEF One!CoreInv, One!Calls
<1>3. One!Typed' /\ One!Guarded' /\ One!Kept' /\ One!Served'
  BY <1>1 DEF One!CoreInv, One!Typed, One!Guarded, One!Kept, One!Served, One!Protected
<1>4. One!Current("main")' /\ One!Current("isr")' /\ One!Busy'
  BY <1>1 DEF One!CoreInv, One!Current, One!Stale, One!Busy
<1>. QED
  BY <1>1, <1>2, <1>3, <1>4 DEF One!CoreInv

\* A channel reads its descriptor and moves what that says.
LEMMA EngineKeeps ==
  ASSUME One!CoreInv, NEW ch \in One!Chans, One!Fetch(ch) \/ One!Move(ch)
  PROVE  One!CoreInv'
<1>1. UNCHANGED <<todo, val, reg, gid, serving, desc, asked, wish, lost>>
  BY DEF One!Fetch, One!Move
<1>2. /\ DOMAIN dma = One!Chans /\ dma[ch] = [st |-> dma[ch].st, d |-> dma[ch].d, got |-> dma[ch].got]
      /\ dma[ch].st = "fetch" => dma[ch].d = One!DescOf(ch) /\ desc[One!DescOf(ch)] = One!Filled(asked[ch]) /\ asked[ch] \in OneRequests
      /\ ch = 1 /\ dma[ch].st # "idle" => \E c \in One!Contexts : One!Waiting(todo[c])
  BY DEF One!CoreInv, One!Typed, One!Busy
<1>3. PICK n : /\ dma' = [dma EXCEPT ![ch] = n] /\ n = [st |-> n.st, d |-> n.d, got |-> n.got]
               /\ \/ n.st = "idle"
                  \/ n.st = "move" /\ n.got = desc[dma[ch].d] /\ dma[ch].st = "fetch"
               /\ n.st = "idle" => dma[ch].st = "move"
  <2>1. CASE One!Fetch(ch)
    <3>1. PICK m, g : m = dma[ch] /\ g = desc[dma[ch].d] /\ m = [st |-> m.st, d |-> m.d, got |-> m.got]
      BY <1>2
    <3>2. PICK r : r = [st |-> "move", d |-> m.d, got |-> g]
      OBVIOUS
    <3>3. [m EXCEPT !.st = "move"] = [st |-> "move", d |-> m.d, got |-> m.got]
      BY <3>1
    <3>4. [[st |-> "move", d |-> m.d, got |-> m.got] EXCEPT !.got = g] = r
      BY <3>2
    <3>5. dma' = [dma EXCEPT ![ch] = r] /\ dma[ch].st = "fetch"
      BY <1>2, <2>1, <3>1, <3>3, <3>4 DEF One!Fetch
    <3>6. r = [st |-> r.st, d |-> r.d, got |-> r.got] /\ r.st = "move" /\ r.got = g
      BY <3>2
    <3>. QED
      BY <3>1, <3>5, <3>6
  <2>2. CASE One!Move(ch)
    BY <2>2 DEF One!Move, One!Idle
  <2>. QED
    BY <2>1, <2>2
<1>4. dma'[ch] = n /\ DOMAIN dma' = One!Chans /\ \A h \in One!Chans : h # ch => dma'[h] = dma[h]
  BY <1>2, <1>3
<1>5. One!Calls' /\ One!Guarded' /\ One!Kept' /\ One!Served' /\ One!Current("main")' /\ One!Current("isr")'
  BY <1>1 DEF One!CoreInv, One!Calls, One!Guarded, One!Kept, One!Served, One!Protected, One!Current, One!Stale
<1>6. One!Typed'
  BY <1>1, <1>3, <1>4 DEF One!CoreInv, One!Typed
<1>7. One!Waits(todo'["main"], dma'[0].st = "idle")
  BY <1>1, <1>3, <1>4 DEF One!CoreInv, One!Waits, One!Chans
<1>8. One!Busy'
  <2>1. ASSUME NEW h \in One!Chans, h # ch
        PROVE  dma'[h] = dma[h] /\ asked'[h] = asked[h] /\ desc' = desc
    BY <1>1, <1>4, <2>1
  <2>2. dma'[ch].st # "fetch"
    BY <1>3, <1>4
  <2>3. dma'[ch].st = "move" => dma'[ch].got = One!Filled(asked'[ch]) /\ asked'[ch] \in OneRequests
    BY <1>1, <1>2, <1>3, <1>4
  <2>4. ch = 1 /\ dma'[ch].st # "idle" => \E c \in One!Contexts : One!Waiting(todo'[c])
    BY <1>1, <1>2, <1>3, <1>4
  <2>. QED
    BY <1>1, <2>1, <2>2, <2>3, <2>4 DEF One!CoreInv, One!Busy
<1>. QED
  BY <1>1, <1>5, <1>6, <1>7, <1>8 DEF One!CoreInv

\* Accesses to the DMA.
LEMMA DescriptorKeeps ==
  ASSUME One!CoreInv, NEW c \in One!Contexts, c = "main" => todo["isr"] = <<>>, One!Descriptor(c)
  PROVE  One!CoreInv'
<1>1. UNCHANGED <<val, reg, gid, serving, wish, lost>>
  BY DEF One!Descriptor
<1>2. CASE \E f \in One!Fields : One!Now(c, f) /\ desc' = [desc EXCEPT ![One!X(c)][f] = One!Y(c)] /\ UNCHANGED <<dma, asked>>
  BY <1>1, <1>2, FillKeeps
<1>3. CASE One!Now(c, "idle") /\ dma[One!X(c)].st = "idle" /\ UNCHANGED <<desc, dma, asked>>
  BY <1>1, <1>3, IdleKeeps
<1>4. CASE /\ One!Now(c, "go") /\ UNCHANGED desc
           /\ dma' = [dma EXCEPT ![One!X(c)].st = "fetch", ![One!X(c)].d = One!Y(c).d]
           /\ asked' = [asked EXCEPT ![One!X(c)] = One!Y(c).q]
  BY <1>1, <1>4, StartKeeps
<1>. QED
  BY <1>2, <1>3, <1>4 DEF One!Descriptor, One!Fields

\* Every step of a core.
LEMMA CoreKeeps ==
  ASSUME One!CoreInv, One!Next
  PROVE  One!CoreInv'
<1>1. ASSUME NEW c \in One!Contexts, c = "main" => todo["isr"] = <<>>, One!Access(c) PROVE One!CoreInv'
  BY <1>1, ReadRegisterKeeps, WriteRegisterKeeps, OtherKeeps, DescriptorKeeps DEF One!Access
<1>2. CASE One!Main \/ One!Access("isr")
  BY <1>1, <1>2 DEF One!Main, One!CoreInv, One!Calls, One!Contexts
<1>3. CASE One!CallIrq \/ One!CallGlobalMask \/ One!CallTimer \/ One!CallWait \/ One!CallDma
  BY <1>3, CallsKeep
<1>4. CASE One!Interrupt
  BY <1>4, InterruptKeeps
<1>5. CASE One!Return \/ (\E t \in One!Timers : One!Tick(t)) \/ (\E i \in OneIrqs : One!Raised(i))
  BY <1>5, HardwareKeeps
<1>6. CASE \E ch \in One!Chans : One!Fetch(ch) \/ One!Move(ch)
  BY <1>6, EngineKeeps
<1>. QED
  BY <1>2, <1>3, <1>4, <1>5, <1>6 DEF One!Next, One!Hardware

\* In every state of a core that is by itself its calls are as the invariant says.
THEOREM CoreInvariant == MCSpec => []InPart("core", One!CoreInv)
<1>. DEFINE J == InPart("core", One!CoreInv)
<1>1. MCInit => J
  BY CoreStarts DEF MCInit, NoCore, InPart
<1>2. J /\ [MCNext]_<<vars, oneVars, idsVars, shmVars, dmaVars, part, sample>> => J'
  <2>. SUFFICES ASSUME J, [MCNext]_<<vars, oneVars, idsVars, shmVars, dmaVars, part, sample>>, part' = "core"
                PROVE  One!CoreInv'
    BY DEF InPart
  <2>1. part = "core" /\ One!CoreInv /\ (One!Next \/ UNCHANGED oneVars)
    BY DEF MCNext, InPart
  <2>2. CASE One!Next
    BY <2>1, <2>2, CoreKeeps
  <2>3. CASE UNCHANGED oneVars
    <3>1. UNCHANGED <<todo, val, reg, gid, serving, desc, dma, asked, wish, lost>>
      BY <2>3 DEF oneVars
    <3>2. One!Calls' /\ One!Typed' /\ One!Guarded' /\ One!Served' /\ One!Kept'
      BY <2>1, <3>1 DEF One!CoreInv, One!Calls, One!Typed, One!Guarded, One!Served, One!Kept, One!Protected
    <3>3. One!Current("main")' /\ One!Current("isr")' /\ One!Busy'
      BY <2>1, <3>1 DEF One!CoreInv, One!Current, One!Stale, One!Busy
    <3>. QED
      BY <2>1, <3>1, <3>2, <3>3 DEF One!CoreInv
  <2>. QED
    BY <2>1, <2>2, <2>3
<1>. QED
  BY <1>1, <1>2, PTL DEF MCSpec

\* IMASK and CONFIG are as calls left them but for bits a routine changed while the
\* program, unprotected, had read the register to write it back: the program's own
\* updates stay, and no others are lost (e_irq_mask, e_ctimer_start, e_ctimer_stop).
THEOREM UpdatesStay == MCSpec => []RegistersRight
<1>1. InPart("core", One!CoreInv) => RegistersRight
  BY CoreIsRight DEF InPart, RegistersRight
<1>. QED
  BY <1>1, CoreInvariant, PTL

\* The DMA engine moves what a call asked for, though the descriptor is read after the
\* call and routines copy too (e_dma_copy, e_dma_set_desc, e_dma_start).
THEOREM CopiesStay == MCSpec => []CopiesRight
<1>1. InPart("core", One!CoreInv) => CopiesRight
  BY CoreIsRight DEF InPart, CopiesRight
<1>. QED
  BY <1>1, CoreInvariant, PTL

-----------------------------------------------------------------------------
(* Cores that trace over DMA *)

\* A number less than the ring is long is a place in it.
LEMMA Below == ASSUME NEW m \in Nat \ {0}, NEW n \in 0 .. m - 1 PROVE n % m = n
OBVIOUS

\* Cores that get ready, sleep, wake and start their clocks.
LEMMA StartKept ==
  ASSUME Dma!StartInv, NEW c \in DmaCores, Dma!Core(c)
  PROVE  Dma!StartInv'
<1>. USE DEF Dma!StartInv, Dma!Behind, Dma!Woken, Dma!To
<1>1. CASE Dma!trace_init(c)
  BY <1>1 DEF Dma!trace_init
<1>2. CASE Dma!Wand(c)
  <2>1. /\ tpc[c] = "ready" /\ tpc' = [tpc EXCEPT ![c] = "idle"] /\ wand' = wand \cup {c} /\ clock' = clock
        /\ irq' = IF wand' = DmaCores THEN DmaCores ELSE irq
    BY <1>2 DEF Dma!Wand
  <2>2. irq = {} /\ clock = {} /\ \A d \in DmaCores : ~Dma!Woken(d)
    BY <2>1
  <2>3. \A d \in wand' : tpc'[d] \notin {"off", "ready"}
    BY <2>1
  <2>4. ~ \E d \in DmaCores : tpc'[d] \in {"awake", "on", "high", "stopped"}
    BY <2>1, <2>2
  <2>. QED
    BY <2>1, <2>2, <2>3, <2>4
<1>3. CASE Dma!IdleInstruction(c)
  BY <1>3 DEF Dma!IdleInstruction
<1>4. CASE Dma!wand_trace_isr(c)
  <2>1. c \in irq /\ irq' = irq \ {c} /\ wand' = wand /\ clock' = clock
        /\ (tpc' = tpc \/ (tpc[c] = "asleep" /\ tpc' = [tpc EXCEPT ![c] = "awake"]))
    <3>1. c \in irq /\ irq' = irq \ {c} /\ wand' = wand /\ clock' = clock
      BY <1>4 DEF Dma!wand_trace_isr
    <3>2. tpc[c] = "asleep" => tpc' = [tpc EXCEPT ![c] = "awake"]
      BY <1>4 DEF Dma!wand_trace_isr
    <3>3. tpc[c] # "asleep" => tpc' = tpc
      BY <1>4 DEF Dma!wand_trace_isr
    <3>4. tpc' = tpc \/ (tpc[c] = "asleep" /\ tpc' = [tpc EXCEPT ![c] = "awake"])
      BY <3>2, <3>3
    <3>. QED
      BY <3>1, <3>4
  <2>2. \A d \in DmaCores : tpc[d] \notin {"off", "ready"}
    BY <2>1
  <2>3. tpc' \in [DmaCores -> {"off", "ready", "idle", "asleep", "awake", "on", "high", "stopped"}]
        /\ \A d \in DmaCores : tpc'[d] \notin {"off", "ready"}
    BY <2>1, <2>2
  <2>4. \A d \in wand' : tpc'[d] \notin {"off", "ready"}
    BY <2>1, <2>3
  <2>. QED
    BY <2>1, <2>3, <2>4
<1>5. CASE Dma!StartClock(c)
  BY <1>5 DEF Dma!StartClock
<1>6. CASE Dma!trace_stop(c)
  BY <1>6 DEF Dma!trace_stop
<1>7. CASE Dma!TraceWriteLow(c)
  BY <1>7 DEF Dma!TraceWriteLow
<1>8. CASE Dma!TraceWriteHigh(c)
  BY <1>8 DEF Dma!TraceWriteHigh
<1>. QED
  BY <1>1, <1>2, <1>3, <1>4, <1>5, <1>6, <1>7, <1>8 DEF Dma!Core

\* An event goes where the DMA engine is.
LEMMA WriteInOrder ==
  ASSUME Dma!StartInv, Dma!RingInv, NEW c \in DmaCores, Dma!TraceWriteHigh(c)
  PROVE  Dma!RingInv'
<1>. USE DmaConstants
<1>1. PICK n, m : n = Len(sent) /\ m = n + 1
  OBVIOUS
<1>2. /\ tpc[c] = "high" /\ tpc' = [tpc EXCEPT ![c] = "on"] /\ low' = low /\ rd' = rd /\ got' = got
      /\ sent' = Append(sent, m) /\ buf' = [buf EXCEPT ![dmaAt] = [low |-> low, high |-> m]] /\ dmaAt' = (dmaAt + 1) % DmaRing
  BY <1>1 DEF Dma!TraceWriteHigh, Dma!To, Dma!Host
<1>3. n \in Nat /\ m \in Nat /\ low = m /\ c \in DmaTracers /\ sent \in Seq(Nat) /\ dmaAt \in 0 .. DmaRing - 1
      /\ DOMAIN buf = 0 .. DmaSlots - 1
  BY <1>1, <1>2 DEF Dma!RingInv, Dma!Written
<1>4. sent' \in Seq(Nat) /\ Len(sent') = m /\ sent'[m] = m /\ \A i \in 1 .. n : sent'[i] = sent[i]
  BY <1>1, <1>2, <1>3
<1>5. dmaAt' \in 0 .. DmaRing - 1 /\ DOMAIN buf' = 0 .. DmaSlots - 1
  BY <1>2, <1>3
<1>6. \A d \in DmaCores : tpc'[d] # "high"
  <2>1. \A d \in DmaCores : tpc[d] = "high" => d \in DmaTracers
    BY DEF Dma!RingInv
  <2>2. \A d \in DmaCores : tpc[d] = "high" => d = c
    BY <1>3, <2>1
  <2>. QED
    BY <1>2, <2>2 DEF Dma!StartInv
<1>7. ASSUME m <= DmaRing
      PROVE  /\ dmaAt' = m % DmaRing /\ rd' \in 0 .. m
             /\ \A i \in 1 .. m : sent'[i] = i
             /\ \A i \in 0 .. DmaSlots - 1 : i >= rd => buf'[i] = IF i < m THEN Dma!Event(i + 1) ELSE Dma!None
             /\ got \in Seq([low : Nat, high : Nat]) /\ Len(got) = rd /\ \A i \in 1 .. rd : got[i] = Dma!Event(i)
  <2>1. /\ dmaAt = n % DmaRing /\ rd \in 0 .. n
        /\ \A i \in 1 .. n : sent[i] = i
        /\ \A i \in 0 .. DmaSlots - 1 : i >= rd => buf[i] = IF i < n THEN Dma!Event(i + 1) ELSE Dma!None
        /\ got \in Seq([low : Nat, high : Nat]) /\ Len(got) = rd /\ \A i \in 1 .. rd : got[i] = Dma!Event(i)
    BY <1>1, <1>3, <1>7 DEF Dma!RingInv, Dma!Written
  <2>2. dmaAt = n
    <3>1. n \in 0 .. DmaRing - 1
      BY <1>1, <1>3, <1>7
    <3>. QED
      BY <2>1, <3>1, Below
  <2>3. dmaAt' = m % DmaRing
    BY <1>1, <1>2, <2>2
  <2>4. \A i \in 1 .. m : sent'[i] = i
    <3>1. \A i \in 1 .. m : i = m \/ i \in 1 .. n
      BY <1>1, <1>3
    <3>. QED
      BY <1>4, <2>1, <3>1
  <2>5. ASSUME NEW i \in 0 .. DmaSlots - 1, i >= rd PROVE buf'[i] = IF i < m THEN Dma!Event(i + 1) ELSE Dma!None
    <3>1. CASE i = n
      <4>1. buf'[i] = [low |-> m, high |-> m] /\ i < m /\ i + 1 = m
        BY <1>1, <1>2, <1>3, <2>2, <3>1
      <4>. QED
        BY <4>1 DEF Dma!Event
    <3>2. CASE i # n
      <4>1. buf'[i] = buf[i] /\ (i < m <=> i < n)
        BY <1>1, <1>2, <1>3, <2>2, <3>2
      <4>. QED
        BY <2>1, <2>5, <4>1
    <3>. QED
      BY <3>1, <3>2
  <2>6. rd' \in 0 .. m
    BY <1>1, <1>2, <1>3, <2>1
  <2>. QED
    BY <2>1, <2>3, <2>4, <2>5, <2>6
<1>. QED
  BY <1>2, <1>4, <1>5, <1>6, <1>7 DEF Dma!RingInv, Dma!Written, Dma!Event, Dma!None

\* The host takes the event that is next.
LEMMA TakeInOrder == ASSUME Dma!RingInv, Dma!Take PROVE Dma!RingInv'
<1>. USE DmaConstants
<1>1. /\ rd \in DOMAIN buf /\ buf[rd] # Dma!None /\ got' = Append(got, buf[rd])
      /\ rd' = IF rd + 1 >= DmaSlots * 8 THEN 0 ELSE rd + 1
      /\ DOMAIN buf' = DOMAIN buf /\ \A i \in DOMAIN buf : i # rd => buf'[i] = buf[i]
      /\ tpc' = tpc /\ low' = low /\ dmaAt' = dmaAt /\ sent' = sent
  BY DEF Dma!Take, Dma!InBuffer, Dma!Advance, Dma!CoresSame, Dma!coreVars
<1>2. PICK n : n = Len(sent)
  OBVIOUS
<1>3. n \in Nat /\ DOMAIN buf = 0 .. DmaSlots - 1
  BY <1>2 DEF Dma!RingInv
<1>4. ASSUME n <= DmaRing
      PROVE  /\ rd' = rd + 1 /\ rd' \in 0 .. n
             /\ \A i \in 0 .. DmaSlots - 1 : i >= rd' => buf'[i] = IF i < n THEN Dma!Event(i + 1) ELSE Dma!None
             /\ got' \in Seq([low : Nat, high : Nat]) /\ Len(got') = rd' /\ \A i \in 1 .. rd' : got'[i] = Dma!Event(i)
  <2>1. /\ rd \in 0 .. n
        /\ \A i \in 0 .. DmaSlots - 1 : i >= rd => buf[i] = IF i < n THEN Dma!Event(i + 1) ELSE Dma!None
        /\ got \in Seq([low : Nat, high : Nat]) /\ Len(got) = rd /\ \A i \in 1 .. rd : got[i] = Dma!Event(i)
    BY <1>2, <1>3, <1>4 DEF Dma!RingInv, Dma!Written
  <2>2. rd < n /\ buf[rd] = Dma!Event(rd + 1)
    BY <1>1, <1>3, <2>1
  <2>3. rd' = rd + 1 /\ rd' \in 0 .. n
    BY <1>1, <1>3, <1>4, <2>1, <2>2
  <2>4. PICK e \in [low : Nat, high : Nat] : e = Dma!Event(rd + 1)
    <3>1. rd + 1 \in Nat
      BY <1>3, <2>1
    <3>. QED
      BY <3>1 DEF Dma!Event
  <2>5. got' = Append(got, e) /\ Len(got) = rd /\ rd \in Nat
    BY <1>1, <2>1, <2>2, <2>4
  <2>6. got' \in Seq([low : Nat, high : Nat]) /\ Len(got') = rd + 1 /\ got'[rd + 1] = e /\ \A i \in 1 .. rd : got'[i] = got[i]
    BY <2>1, <2>5
  <2>7. \A i \in 1 .. rd + 1 : got'[i] = Dma!Event(i)
    BY <2>1, <2>4, <2>6
  <2>8. \A i \in 0 .. DmaSlots - 1 : i >= rd' => buf'[i] = IF i < n THEN Dma!Event(i + 1) ELSE Dma!None
    BY <1>1, <1>3, <2>1, <2>3
  <2>. QED
    BY <2>3, <2>6, <2>7, <2>8
<1>. QED
  BY <1>1, <1>2, <1>3, <1>4 DEF Dma!RingInv, Dma!Written, Dma!Event, Dma!None

\* The other steps leave the order alone.
LEMMA DmaStep == ASSUME Dma!StartInv, Dma!RingInv, Dma!Next \/ UNCHANGED dmaVars PROVE Dma!StartInv' /\ Dma!RingInv'
<1>1. Dma!StartInv'
  <2>1. CASE UNCHANGED <<tpc, wand, irq, clock>>
    BY <2>1 DEF Dma!StartInv, Dma!Behind, Dma!Woken
  <2>2. (\E c \in DmaCores : Dma!Core(c)) \/ UNCHANGED <<tpc, wand, irq, clock>>
    BY DEF Dma!Next, Dma!BeginRead, Dma!BeginReadN, Dma!Take, Dma!Return, Dma!CoresSame, Dma!coreVars, dmaVars
  <2>. QED
    BY <2>1, <2>2, StartKept
<1>2. ASSUME UNCHANGED <<low, buf, dmaAt, sent, rd, got>>, \A c \in DmaCores : tpc'[c] = "high" => tpc[c] = "high"
      PROVE  Dma!RingInv'
  BY <1>2 DEF Dma!RingInv, Dma!Written, Dma!Event, Dma!None
<1>3. ASSUME NEW c \in DmaCores, Dma!TraceWriteLow(c) PROVE Dma!RingInv'
  <2>1. tpc' = [tpc EXCEPT ![c] = "high"] /\ c \in DmaTracers /\ low' = Len(sent) + 1 /\ UNCHANGED <<buf, dmaAt, sent, rd, got>>
    BY <1>3 DEF Dma!TraceWriteLow, Dma!To, Dma!Host
  <2>2. \A d \in DmaCores : tpc'[d] = "high" => d \in DmaTracers
    BY <2>1 DEF Dma!RingInv, Dma!StartInv
  <2>. QED
    BY <2>1, <2>2 DEF Dma!RingInv, Dma!Written, Dma!Event, Dma!None
<1>4. ASSUME NEW c \in DmaCores, Dma!Core(c), ~Dma!TraceWriteLow(c), ~Dma!TraceWriteHigh(c) PROVE Dma!RingInv'
  <2>1. UNCHANGED <<low, buf, dmaAt, sent, rd, got>>
    BY <1>4 DEF Dma!Core, Dma!trace_init, Dma!Wand, Dma!IdleInstruction, Dma!wand_trace_isr, Dma!StartClock, Dma!trace_stop, Dma!Dma, Dma!Host
  <2>2. tpc' = tpc \/ \E p \in {"ready", "idle", "asleep", "awake", "on", "stopped"} : tpc' = [tpc EXCEPT ![c] = p]
    BY <1>4 DEF Dma!Core, Dma!trace_init, Dma!Wand, Dma!IdleInstruction, Dma!wand_trace_isr, Dma!StartClock, Dma!trace_stop, Dma!To
  <2>3. \A d \in DmaCores : tpc'[d] = "high" => tpc[d] = "high"
    BY <2>2 DEF Dma!StartInv
  <2>. QED
    BY <1>2, <2>1, <2>3
<1>5. CASE Dma!BeginRead \/ (\E n \in DmaCounts : Dma!BeginReadN(n)) \/ Dma!Return \/ UNCHANGED dmaVars
  <2>1. UNCHANGED <<tpc, low, buf, dmaAt, sent, rd, got>>
    <3>1. CASE Dma!BeginRead
      BY <3>1 DEF Dma!BeginRead, Dma!coreVars, Dma!Dma
    <3>2. CASE \E n \in DmaCounts : Dma!BeginReadN(n)
      BY <3>2 DEF Dma!BeginReadN, Dma!coreVars, Dma!Dma
    <3>3. CASE Dma!Return
      BY <3>3 DEF Dma!Return, Dma!coreVars, Dma!Dma
    <3>4. CASE UNCHANGED dmaVars
      BY <3>4 DEF dmaVars
    <3>. QED
      BY <1>5, <3>1, <3>2, <3>3, <3>4
  <2>2. \A c \in DmaCores : tpc'[c] = "high" => tpc[c] = "high"
    BY <2>1
  <2>3. UNCHANGED <<low, buf, dmaAt, sent, rd, got>>
    BY <2>1
  <2>. QED
    BY <1>1, <1>2, <2>2, <2>3
<1>. QED
  BY <1>1, <1>3, <1>4, <1>5, WriteInOrder, TakeInOrder DEF Dma!Next

\* It starts with no core ready and nothing written.
LEMMA DmaStarts == ASSUME Dma!Init PROVE Dma!StartInv /\ Dma!RingInv
<1>1. Dma!StartInv
  BY DEF Dma!Init, Dma!StartInv, Dma!Behind, Dma!Woken
<1>2. DOMAIN buf = 0 .. DmaSlots - 1 /\ \A i \in 0 .. DmaSlots - 1 : buf[i] = Dma!None
  BY DEF Dma!Init
<1>3. sent = <<>> /\ got = <<>> /\ rd = 0 /\ dmaAt = 0 /\ Len(sent) = 0 /\ Len(got) = 0 /\ \A c \in DmaCores : tpc[c] # "high"
  BY DEF Dma!Init
<1>4. 0 % DmaRing = 0 /\ 0 \in 0 .. DmaRing - 1
  BY DmaConstants, Below
<1>. QED
  BY <1>1, <1>2, <1>3, <1>4 DEF Dma!RingInv, Dma!Written

-----------------------------------------------------------------------------
(* The coding of events *)

\* Two digits make a number.
LEMMA TwoDigits ==
  ASSUME NEW a \in Nat \ {0}, NEW b \in Nat \ {0}, NEW x \in 0 .. a - 1, NEW y \in 0 .. b - 1
  PROVE  x + a * y \in 0 .. a * b - 1 /\ a * b \in Nat \ {0}
<1>1. a * b = a * y + a * (b - y)
  OBVIOUS
<1>2. a * (b - y) >= a /\ a * y >= 0 /\ a * y \in Nat
  OBVIOUS
<1>3. PICK p, q, r : p = a * y /\ q = a * (b - y) /\ r = a * b /\ p \in Nat /\ q \in Nat /\ r \in Nat
  <2>1. a * y \in Nat /\ a * (b - y) \in Nat /\ a * b \in Nat
    OBVIOUS
  <2>. QED
    BY <2>1
<1>4. r = p + q /\ q >= a
  BY <1>1, <1>2, <1>3
<1>5. x + p \in 0 .. r - 1 /\ r \in Nat \ {0}
  BY <1>3, <1>4
<1>. QED
  BY <1>3, <1>5

\* What is below a digit does not count for it, nor does what is above.
LEMMA DigitFound ==
  ASSUME NEW k \in Nat \ {0}, NEW m \in Nat \ {0}, NEW x \in 0 .. k - 1, NEW d \in 0 .. m - 1, NEW y \in Nat
  PROVE  ((x + k * (d + m * y)) \div k) % m = d
<1>1. d + m * y \in Nat
  OBVIOUS
<1>2. (x + k * (d + m * y)) \div k = d + m * y
  <2>. PICK z \in Nat : z = d + m * y
    BY <1>1
  <2>1. (x + k * z) \div k = z
    OBVIOUS
  <2>. QED
    BY <2>1
<1>3. (d + m * y) % m = d
  OBVIOUS
<1>. QED
  BY <1>2, <1>3

\* Five digits in one number.
Decodes(A, C, B, V, S, a, c, b, v, s, e) ==
    /\ (e \div 1) % A = a /\ (e \div A) % C = c /\ (e \div (A * C)) % B = b
    /\ (e \div (A * C * B)) % V = v /\ (e \div (A * C * B * V)) % S = s
Coded(A, C, B, V, a, c, b, v, s) == s * (A * C * B * V) + v * (A * C * B) + b * (A * C) + c * A + a

\* Whatever the digits are, they are found again.
LEMMA WordDecodes ==
  ASSUME NEW A \in Nat \ {0}, NEW C \in Nat \ {0}, NEW B \in Nat \ {0}, NEW V \in Nat \ {0}, NEW S \in Nat \ {0},
         NEW a \in 0 .. A - 1, NEW c \in 0 .. C - 1, NEW b \in 0 .. B - 1, NEW v \in 0 .. V - 1, NEW s \in 0 .. S - 1
  PROVE  Decodes(A, C, B, V, S, a, c, b, v, s, Coded(A, C, B, V, a, c, b, v, s))
<1>0. PICK e : e = Coded(A, C, B, V, a, c, b, v, s)
  OBVIOUS
<1>1. PICK K1, K2, K3 : K1 = A * C /\ K2 = K1 * B /\ K3 = K2 * V
  OBVIOUS
<1>2. PICK x1, x2, x3 : x1 = a + A * c /\ x2 = x1 + K1 * b /\ x3 = x2 + K2 * v
  OBVIOUS
<1>3. x1 \in 0 .. K1 - 1 /\ K1 \in Nat \ {0}
  BY <1>1, <1>2, TwoDigits
<1>4. x2 \in 0 .. K2 - 1 /\ K2 \in Nat \ {0}
  BY <1>1, <1>2, <1>3, TwoDigits
<1>5. x3 \in 0 .. K3 - 1 /\ K3 \in Nat \ {0}
  BY <1>1, <1>2, <1>4, TwoDigits
<1>6. e = s * K3 + v * K2 + b * K1 + c * A + a
  BY <1>0, <1>1 DEF Coded
<1>7. e = x3 + K3 * (s + S * 0)
  BY <1>2, <1>3, <1>4, <1>5, <1>6
<1>8. e = x2 + K2 * (v + V * s)
  <2>1. K2 * (v + V * s) = K2 * v + (K2 * V) * s
    BY <1>4
  <2>. QED
    BY <1>1, <1>2, <1>3, <1>4, <1>5, <1>7, <2>1
<1>9. e = x1 + K1 * (b + B * (v + V * s))
  <2>1. K1 * (b + B * (v + V * s)) = K1 * b + (K1 * B) * (v + V * s)
    BY <1>3
  <2>. QED
    BY <1>1, <1>2, <1>3, <1>8, <2>1
<1>10. e = a + A * (c + C * (b + B * (v + V * s)))
  <2>1. A * (c + C * (b + B * (v + V * s))) = A * c + (A * C) * (b + B * (v + V * s))
    OBVIOUS
  <2>. QED
    BY <1>1, <1>2, <1>9, <2>1
<1>11. v + V * s \in Nat /\ b + B * (v + V * s) \in Nat /\ c + C * (b + B * (v + V * s)) \in Nat
  <2>1. v + V * s \in Nat
    OBVIOUS
  <2>2. b + B * (v + V * s) \in Nat
    BY <2>1
  <2>. QED
    BY <2>1, <2>2
<1>12. (e \div K3) % S = s
  BY <1>5, <1>7, DigitFound
<1>13. (e \div K2) % V = v
  <2>1. PICK y \in Nat : y = s
    BY <1>11
  <2>2. PICK w \in Nat : w = v + V * y
    BY <2>1
  <2>3. w % V = v
    BY <2>2
  <2>4. (x2 + K2 * w) \div K2 = w
    BY <1>4
  <2>. QED
    BY <1>8, <2>1, <2>2, <2>3, <2>4
<1>14. (e \div K1) % B = b
  <2>1. PICK y \in Nat : y = (v + V * s)
    BY <1>11
  <2>2. PICK w \in Nat : w = b + B * y
    BY <2>1
  <2>3. w % B = b
    BY <2>2
  <2>4. (x1 + K1 * w) \div K1 = w
    BY <1>3
  <2>. QED
    BY <1>9, <2>1, <2>2, <2>3, <2>4
<1>15. (e \div A) % C = c
  <2>1. PICK y \in Nat : y = (b + B * (v + V * s))
    BY <1>11
  <2>2. PICK w \in Nat : w = c + C * y
    BY <2>1
  <2>3. w % C = c
    BY <2>2
  <2>4. (a + A * w) \div A = w
    OBVIOUS
  <2>. QED
    BY <1>10, <2>1, <2>2, <2>3, <2>4
<1>16. (e \div 1) % A = a
  <2>1. PICK z \in Nat : z = c + C * (b + B * (v + V * s))
    BY <1>11
  <2>2. e = a + A * z /\ e \in Nat
    BY <1>10, <2>1
  <2>3. e \div 1 = e
    BY <2>2
  <2>4. (a + A * z) % A = a
    OBVIOUS
  <2>. QED
    BY <2>2, <2>3, <2>4
<1>. QED
  BY <1>0, <1>1, <1>12, <1>13, <1>14, <1>15, <1>16 DEF Decodes

\* What a core or the host makes is the sum of the digits, and the host takes it apart.
LEMMA CodingRight == ASSUME NEW z \in [Coding!Fields -> Nat], sample = z PROVE EventsDecode
<1>1. PICK A, C, B, V, S : A = FieldSize.data /\ C = FieldSize.coreId /\ B = FieldSize.breakpoint /\ V = FieldSize.eventId /\ S = FieldSize.severity
  OBVIOUS
<1>2. A \in Nat \ {0} /\ C \in Nat \ {0} /\ B \in Nat \ {0} /\ V \in Nat \ {0} /\ S \in Nat \ {0}
  BY <1>1, CodingConstants DEF Coding!Fields
<1>3. PICK a, c, b, v, s : a = z.data % A /\ c = z.coreId % C /\ b = z.breakpoint % B /\ v = z.eventId % V /\ s = z.severity % S
  OBVIOUS
<1>4. a \in 0 .. A - 1 /\ c \in 0 .. C - 1 /\ b \in 0 .. B - 1 /\ v \in 0 .. V - 1 /\ s \in 0 .. S - 1
  <2>1. z.data \in Nat /\ z.coreId \in Nat /\ z.breakpoint \in Nat /\ z.eventId \in Nat /\ z.severity \in Nat
    BY DEF Coding!Fields
  <2>. QED
    BY <1>2, <1>3, <2>1
<1>5. PICK t : t = Small(z)
  OBVIOUS
<1>6. DOMAIN t = Coding!Fields /\ t.data = a /\ t.coreId = c /\ t.breakpoint = b /\ t.eventId = v /\ t.severity = s
  BY <1>1, <1>3, <1>5 DEF Small, Coding!Fields
<1>7. PICK e : e = s * (A * C * B * V) + v * (A * C * B) + b * (A * C) + c * A + a
  OBVIOUS
<1>8. PICK o : o = Coding!Offset
  OBVIOUS
<1>9. o.data = 1 /\ o.coreId = A /\ o.breakpoint = A * C /\ o.eventId = A * C * B /\ o.severity = A * C * B * V
  BY <1>1, <1>8 DEF Coding!Offset
<1>10. Coding!trace_event_to_struct(e) = t
  <2>1. /\ (e \div 1) % A = a /\ (e \div A) % C = c /\ (e \div (A * C)) % B = b
        /\ (e \div (A * C * B)) % V = v /\ (e \div (A * C * B * V)) % S = s
    <3>1. Decodes(A, C, B, V, S, a, c, b, v, s, Coded(A, C, B, V, a, c, b, v, s))
      BY <1>2, <1>4, WordDecodes
    <3>. QED
      BY <1>7, <3>1 DEF Decodes, Coded
  <2>2. \A f \in Coding!Fields : (e \div o[f]) % FieldSize[f] = t[f]
    BY <1>1, <1>6, <1>9, <2>1 DEF Coding!Fields
  <2>3. Coding!trace_event_to_struct(e) = [f \in Coding!Fields |-> (e \div o[f]) % FieldSize[f]]
    BY <1>8 DEF Coding!trace_event_to_struct
  <2>4. t = [f \in Coding!Fields |-> t[f]]
    BY <1>5, <1>6 DEF Small
  <2>. QED
    BY <2>2, <2>3, <2>4
<1>11. Coding!trace_write_word(t.severity, t.eventId, t.breakpoint, z.coreId, t.data) = e
  <2>1. Coding!trace_write_word(t.severity, t.eventId, t.breakpoint, z.coreId, t.data)
        = s * o.severity + v * o.eventId + b * o.breakpoint + c * o.coreId + a
    BY <1>1, <1>3, <1>6, <1>8 DEF Coding!trace_write_word, Coding!logCoreid
  <2>. QED
    BY <1>7, <1>9, <2>1
<1>12. ASSUME NEW y, DOMAIN y = Coding!Fields, y.data % A = a, y.coreId % C = c, y.breakpoint % B = b, y.eventId % V = v, y.severity % S = s
       PROVE  Coding!trace_struct_to_event(y) = e
  <2>1. Coding!trace_struct_to_event(y) = s * o.severity + v * o.eventId + c * o.coreId + b * o.breakpoint + a * o.data
    BY <1>1, <1>8, <1>12 DEF Coding!trace_struct_to_event
  <2>2. PICK p, q, r : p = s * (A * C * B * V) /\ q = v * (A * C * B) /\ r = b * (A * C) /\ p \in Nat /\ q \in Nat /\ r \in Nat
    BY <1>2, <1>4
  <2>3. PICK u : u = c * A /\ u \in Nat
    BY <1>2, <1>4
  <2>. QED
    BY <1>4, <1>7, <1>9, <2>1, <2>2, <2>3
<1>13. Coding!trace_struct_to_event(z) = e
  BY <1>3, <1>12
<1>14. Coding!trace_to_event(z) = e
  <2>1. Coding!trace_to_event(z) = Coding!trace_struct_to_event(t)
    BY <1>5 DEF Coding!trace_to_event, Small
  <2>2. t.data % A = a /\ t.coreId % C = c /\ t.breakpoint % B = b /\ t.eventId % V = v /\ t.severity % S = s
    BY <1>2, <1>4, <1>6, Below
  <2>. QED
    BY <1>6, <1>12, <2>1, <2>2
<1>. QED
  BY <1>5, <1>10, <1>11, <1>13, <1>14 DEF EventsDecode

\* Cores start together, the host gets the events of one core in their order, and an event is
\* decoded as it was coded (trace_start_wait_all, trace_write, trace_read, trace_event_to_struct).
THEOREM TracingStays == MCSpec => []TracingRight
<1>. DEFINE J == InPart("dma", Dma!StartInv /\ Dma!RingInv) /\ InPart("coding", sample \in Samples)
<1>1. MCInit => J
  BY DmaStarts DEF MCInit, InPart
<1>2. J /\ [MCNext]_<<vars, oneVars, idsVars, shmVars, dmaVars, part, sample>> => J'
  <2>. SUFFICES ASSUME J, [MCNext]_<<vars, oneVars, idsVars, shmVars, dmaVars, part, sample>> PROVE J'
    OBVIOUS
  <2>1. part' = part /\ sample' = sample
    BY DEF MCNext
  <2>2. ASSUME part = "dma" PROVE Dma!StartInv' /\ Dma!RingInv'
    <3>1. Dma!Next \/ UNCHANGED dmaVars
      BY <2>2 DEF MCNext
    <3>. QED
      BY <2>2, <3>1, DmaStep DEF InPart
  <2>. QED
    BY <2>1, <2>2 DEF InPart
<1>3. J => TracingRight
  <2>. SUFFICES ASSUME J PROVE TracingRight
    OBVIOUS
  <2>1. ASSUME part = "dma" PROVE Dma!StartTogether /\ Dma!EventsInOrder
    <3>1. Dma!StartInv /\ Dma!RingInv
      BY <2>1 DEF InPart
    <3>2. Dma!StartTogether
      BY <3>1 DEF Dma!StartInv, Dma!StartTogether, Dma!Behind
    <3>3. ASSUME Len(sent) <= DmaRing, NEW n \in DOMAIN got PROVE got[n] = [low |-> sent[n], high |-> sent[n]]
      <4>1. /\ rd \in 0 .. Len(sent) /\ Len(sent) \in Nat /\ got \in Seq([low : Nat, high : Nat]) /\ Len(got) = rd
            /\ \A i \in 1 .. Len(sent) : sent[i] = i
            /\ \A i \in 1 .. rd : got[i] = Dma!Event(i)
        BY <3>1, <3>3 DEF Dma!RingInv, Dma!Written
      <4>2. n \in 1 .. rd /\ n \in 1 .. Len(sent)
        BY <4>1
      <4>. QED
        BY <4>1, <4>2 DEF Dma!Event
    <3>. QED
      BY <3>2, <3>3 DEF Dma!EventsInOrder
  <2>2. ASSUME part = "coding" PROVE EventsDecode
    <3>1. PICK z \in [Coding!Fields -> Nat] : sample = z
      BY <2>2, CodingConstants DEF InPart
    <3>. QED
      BY <3>1, CodingRight
  <2>. QED
    BY <2>1, <2>2 DEF TracingRight, InPart
<1>. QED
  BY <1>1, <1>2, <1>3, PTL DEF MCSpec

-----------------------------------------------------------------------------
(* Ids of cores, and the token *)

\* The group is one of those assumed.
LEMMA GroupRight == ASSUME Ids!OnWay
  PROVE  /\ group.row \in Nat /\ group.col \in Nat /\ group.rows \in Nat \ {0} /\ group.cols \in Nat \ {0}
         /\ group.row + group.rows <= IdCols /\ group.col + group.cols <= IdCols /\ group.row + group.col > 0
         /\ at.row \in 0 .. group.rows - 1 /\ at.col \in 0 .. group.cols - 1 /\ at = [row |-> at.row, col |-> at.col]
         /\ Ids!CoresOf(group) = [row : 0 .. group.rows - 1, col : 0 .. group.cols - 1] /\ at \in Ids!CoresOf(group)
<1>1. group \in IdGroups /\ at \in [row : 0 .. group.rows - 1, col : 0 .. group.cols - 1]
  BY DEF Ids!OnWay, Ids!CoresOf
<1>2. /\ group \in [row : Nat, col : Nat, rows : Nat \ {0}, cols : Nat \ {0}]
      /\ group.row + group.rows <= IdCols /\ group.col + group.cols <= IdCols /\ group.row + group.col > 0
  BY <1>1, IdConstants
<1>. QED
  BY <1>1, <1>2 DEF Ids!CoresOf

\* One step forwards and one backwards from place p of n.
Forth(n, p) == IF p = n - 1 THEN 0 ELSE p + 1
Back(n, p) == IF p = 0 THEN n - 1 ELSE p - 1

\* One step in direction d.
Onward(d, n, p) == IF d = "next" THEN Forth(n, p) ELSE Back(n, p)

\* Of two numbers after each other the remainders are.
LEMMA Around ==
  ASSUME NEW n \in Nat \ {0}, NEW p \in 0 .. n - 1
  PROVE  (p + 1) % n = Forth(n, p) /\ (p + -1) % n = Back(n, p)
<1>1. (p + 1) % n = Forth(n, p)
  <2>1. CASE p = n - 1
    <3>1. p + 1 = n /\ n % n = 0
      BY <2>1
    <3>. QED
      BY <2>1, <3>1 DEF Forth
  <2>2. CASE p # n - 1
    <3>1. p + 1 \in 0 .. n - 1
      BY <2>2
    <3>. QED
      BY <2>2, <3>1, Below DEF Forth
  <2>. QED
    BY <2>1, <2>2
<1>2. (p + -1) % n = Back(n, p)
  <2>1. CASE p = 0
    <3>1. (-1) % n = n - 1
      OBVIOUS
    <3>. QED
      BY <2>1, <3>1 DEF Back
  <2>2. CASE p # 0
    <3>1. p + -1 \in 0 .. n - 1 /\ p + -1 = p - 1
      BY <2>2
    <3>. QED
      BY <2>2, <3>1, Below DEF Back
  <2>. QED
    BY <2>1, <2>2
<1>. QED
  BY <1>1, <1>2

\* A core of the token's way is known by its place.
LEMMA PlacesRight == ASSUME Ids!OnWay
  PROVE  /\ Ids!Places \in Nat \ {0} /\ \A c \in Ids!Domain : Ids!Place(c) \in 0 .. Ids!Places - 1
         /\ \A c, d \in Ids!Domain : Ids!Place(c) = Ids!Place(d) => c = d
         /\ at \in Ids!Domain
<1>1. PICK R \in Nat \ {0}, K \in Nat \ {0} : R = group.rows /\ K = group.cols
  BY GroupRight
<1>2. at \in Ids!Domain /\ Ids!Domain \subseteq [row : 0 .. R - 1, col : 0 .. K - 1]
  BY <1>1, GroupRight DEF Ids!Domain
<1>3. \A c, d \in Ids!Domain : c.row = d.row /\ c.col = d.col => c = d
  BY <1>2
<1>4. CASE wrap = "row"
  <2>1. \A c \in Ids!Domain : Ids!Place(c) = c.col /\ c.row = at.row
    BY <1>4 DEF Ids!Place, Ids!Domain
  <2>2. Ids!Places = K
    BY <1>1, <1>4 DEF Ids!Places
  <2>. QED
    BY <1>2, <1>3, <2>1, <2>2
<1>5. CASE wrap = "col"
  <2>1. \A c \in Ids!Domain : Ids!Place(c) = c.row /\ c.col = at.col
    BY <1>5 DEF Ids!Place, Ids!Domain
  <2>2. Ids!Places = R
    BY <1>1, <1>5 DEF Ids!Places
  <2>. QED
    BY <1>2, <1>3, <2>1, <2>2
<1>6. CASE wrap # "row" /\ wrap # "col"
  <2>1. \A c \in Ids!Domain : Ids!Place(c) = c.col + c.row * K
    BY <1>1, <1>6 DEF Ids!Place, Ids!e_get_num_from_coords
  <2>2. Ids!Places = R * K
    BY <1>1, <1>6 DEF Ids!Places
  <2>3. \A x \in 0 .. K - 1, y \in 0 .. R - 1 : x + y * K \in 0 .. R * K - 1 /\ R * K \in Nat \ {0}
    <3>. TAKE x \in 0 .. K - 1, y \in 0 .. R - 1
    <3>1. x + K * y \in 0 .. K * R - 1 /\ K * R \in Nat \ {0}
      BY TwoDigits
    <3>. QED
      BY <3>1
  <2>4. \A x \in 0 .. K - 1, y \in 0 .. R - 1 : (x + y * K) \div K = y /\ (x + y * K) % K = x
    OBVIOUS
  <2>5. \A c \in Ids!Domain : c.row \in 0 .. R - 1 /\ c.col \in 0 .. K - 1
    BY <1>2
  <2>6. \A c \in Ids!Domain : Ids!Place(c) \in 0 .. Ids!Places - 1 /\ Ids!Place(c) \div K = c.row /\ Ids!Place(c) % K = c.col
    <3>. TAKE c \in Ids!Domain
    <3>1. PICK x \in 0 .. K - 1, y \in 0 .. R - 1 : x = c.col /\ y = c.row
      BY <2>5
    <3>2. Ids!Place(c) = x + y * K
      BY <2>1, <3>1
    <3>. QED
      BY <2>2, <2>3, <2>4, <3>1, <3>2
  <2>. QED
    BY <1>2, <1>3, <2>2, <2>3, <2>5, <2>6
<1>. QED
  BY <1>4, <1>5, <1>6

\* What e_neighbor_id computes.
LEMMA NeighborRight ==
  ASSUME Ids!OnWay, NEW R, NEW K, R = group.rows, K = group.cols, NEW w, w = Ids!e_neighbor_id(Ids!Config, dir, wrap)
  PROVE  LET over == Onward(dir, K, at.col) = (IF dir = "next" THEN 0 ELSE K - 1)
         IN w = CASE wrap = "row" -> [row |-> at.row, col |-> Onward(dir, K, at.col)]
                  [] wrap = "col" -> [row |-> Onward(dir, R, at.row), col |-> at.col]
                  [] OTHER -> [row |-> IF over THEN Onward(dir, R, at.row) ELSE at.row, col |-> Onward(dir, K, at.col)]
<1>1. /\ R \in Nat \ {0} /\ K \in Nat \ {0} /\ at.row \in 0 .. R - 1 /\ at.col \in 0 .. K - 1
      /\ dir \in {"next", "prev"} /\ wrap \in {"group", "row", "col"}
  BY GroupRight DEF Ids!OnWay
<1>2. PICK a : a = Ids!Adjust(dir)
  OBVIOUS
<1>3. a = IF dir = "next" THEN 1 ELSE -1
  BY <1>2 DEF Ids!Adjust
<1>4. \A n \in Nat \ {0} : \A p \in 0 .. n - 1 : (p + a) % n = Onward(dir, n, p) /\ (p + 0) % n = p
  <2>. TAKE n \in Nat \ {0}
  <2>. TAKE p \in 0 .. n - 1
  <2>1. (p + 1) % n = Forth(n, p) /\ (p + -1) % n = Back(n, p)
    BY Around
  <2>2. p + 0 = p /\ p % n = p
    BY Below
  <2>. QED
    BY <1>3, <2>1, <2>2 DEF Onward
<1>5. PICK cfg : cfg = Ids!Config
  OBVIOUS
<1>6. cfg.core_row = at.row /\ cfg.core_col = at.col /\ cfg.group_rows = R /\ cfg.group_cols = K
  BY <1>5 DEF Ids!Config, Ids!e_group_config
<1>7. CASE wrap = "row"
  <2>1. w = [row |-> (at.row + 0) % R, col |-> (at.col + a) % K]
    BY <1>2, <1>5, <1>6, <1>7 DEF Ids!e_neighbor_id
  <2>. QED
    BY <1>1, <1>4, <1>7, <2>1
<1>8. CASE wrap = "col"
  <2>1. w = [row |-> (at.row + a) % R, col |-> (at.col + 0) % K]
    BY <1>2, <1>5, <1>6, <1>8 DEF Ids!e_neighbor_id
  <2>. QED
    BY <1>1, <1>4, <1>8, <2>1
<1>9. CASE wrap = "group"
  <2>1. w = [row |-> (at.row + (IF at.col + a \notin 0 .. K - 1 THEN a ELSE 0)) % R, col |-> (at.col + a) % K]
    BY <1>2, <1>5, <1>6, <1>9 DEF Ids!e_neighbor_id
  <2>2. at.col + a \notin 0 .. K - 1 <=> Onward(dir, K, at.col) = (IF dir = "next" THEN 0 ELSE K - 1)
    BY <1>1, <1>3 DEF Onward, Forth, Back
  <2>3. (at.row + (IF at.col + a \notin 0 .. K - 1 THEN a ELSE 0)) % R
        = IF Onward(dir, K, at.col) = (IF dir = "next" THEN 0 ELSE K - 1) THEN Onward(dir, R, at.row) ELSE at.row
    BY <1>1, <1>4, <2>2
  <2>4. (at.col + a) % K = Onward(dir, K, at.col)
    BY <1>1, <1>4
  <2>. QED
    BY <1>9, <2>1, <2>3, <2>4
<1>. QED
  BY <1>1, <1>7, <1>8, <1>9

\* The token takes the next place, or the previous one.
LEMMA PassPlace ==
  ASSUME Ids!OnWay, Ids!Pass
  PROVE  /\ at' \in Ids!Domain /\ Ids!Domain' = Ids!Domain
         /\ Ids!Place(at') = IF dir = "next" THEN Forth(Ids!Places, Ids!Place(at)) ELSE Back(Ids!Places, Ids!Place(at))
<1>1. PICK R \in Nat \ {0}, K \in Nat \ {0} : R = group.rows /\ K = group.cols
  BY GroupRight
<1>2. PICK r \in 0 .. R - 1, c \in 0 .. K - 1 : r = at.row /\ c = at.col
  BY <1>1, GroupRight
<1>3. UNCHANGED <<group, wrap, dir>> /\ wrap \in {"group", "row", "col"} /\ dir \in {"next", "prev"}
  BY DEF Ids!Pass, Ids!OnWay
<1>4. at' = CASE wrap = "row" -> [row |-> r, col |-> Onward(dir, K, c)]
              [] wrap = "col" -> [row |-> Onward(dir, R, r), col |-> c]
              [] OTHER -> [row |-> IF Onward(dir, K, c) = (IF dir = "next" THEN 0 ELSE K - 1) THEN Onward(dir, R, r) ELSE r, col |-> Onward(dir, K, c)]
  BY <1>1, <1>2, NeighborRight DEF Ids!Pass
<1>5. Onward(dir, K, c) \in 0 .. K - 1 /\ Onward(dir, R, r) \in 0 .. R - 1
  BY DEF Onward, Forth, Back
<1>6. /\ at' \in [row : 0 .. R - 1, col : 0 .. K - 1] /\ at'.row \in 0 .. R - 1 /\ at'.col \in 0 .. K - 1
      /\ wrap = "row" => at'.row = at.row /\ at'.col = Onward(dir, K, c)
      /\ wrap = "col" => at'.col = at.col /\ at'.row = Onward(dir, R, r)
      /\ wrap = "group" => at'.col = Onward(dir, K, c) /\ at'.row = IF Onward(dir, K, c) = (IF dir = "next" THEN 0 ELSE K - 1) THEN Onward(dir, R, r) ELSE r
  <2>1. CASE wrap = "row"
    BY <1>2, <1>4, <1>5, <2>1
  <2>2. CASE wrap = "col"
    BY <1>2, <1>4, <1>5, <2>2
  <2>3. CASE wrap = "group"
    BY <1>2, <1>4, <1>5, <2>3
  <2>. QED
    BY <1>3, <2>1, <2>2, <2>3
<1>7. at' \in Ids!Domain /\ Ids!Domain' = Ids!Domain
  BY <1>1, <1>3, <1>6, GroupRight DEF Ids!Domain, Ids!CoresOf
<1>8. CASE wrap = "row"
  BY <1>3, <1>7, <1>1, <1>2, <1>6, <1>8 DEF Ids!Place, Ids!Places, Onward
<1>9. CASE wrap = "col"
  BY <1>3, <1>7, <1>1, <1>2, <1>6, <1>9 DEF Ids!Place, Ids!Places, Onward
<1>10. CASE wrap = "group"
  <2>1. PICK N, p, q : N = R * K /\ p = c + r * K /\ q = at'.col + at'.row * K
    OBVIOUS
  <2>2. Ids!Places = N /\ Ids!Place(at) = p /\ Ids!Place(at') = q
    BY <1>1, <1>2, <1>10, <2>1 DEF Ids!Place, Ids!Places, Onward, Ids!e_get_num_from_coords
  <2>3. N \in Nat \ {0} /\ p \in 0 .. N - 1 /\ q \in 0 .. N - 1
    BY <1>2, <1>7, <2>2, PlacesRight
  <2>4. (r + 1) * K = r * K + K /\ (r - 1) * K = r * K - K /\ (R - 1) * K = N - K /\ 0 * K = 0 /\ r * K \in Nat
    BY <2>1
  <2>5. CASE dir = "next" /\ c # K - 1
    <3>1. at'.col = c + 1 /\ at'.row = r
      BY <1>6, <1>10, <2>5 DEF Onward, Forth
    <3>2. q = p + 1
      BY <2>1, <2>4, <3>1
    <3>. QED
      BY <1>3, <1>7, <2>2, <2>3, <2>5, <3>2 DEF Onward, Forth
  <2>6. CASE dir = "next" /\ c = K - 1 /\ r # R - 1
    <3>1. at'.col = 0 /\ at'.row = r + 1
      BY <1>6, <1>10, <2>6 DEF Onward, Forth
    <3>2. q = p + 1
      BY <2>1, <2>4, <2>6, <3>1
    <3>. QED
      BY <1>3, <1>7, <2>2, <2>3, <2>6, <3>2 DEF Onward, Forth
  <2>7. CASE dir = "next" /\ c = K - 1 /\ r = R - 1
    <3>1. at'.col = 0 /\ at'.row = 0
      BY <1>6, <1>10, <2>7 DEF Onward, Forth
    <3>2. q = 0 /\ p = N - 1
      BY <2>1, <2>4, <2>7, <3>1
    <3>. QED
      BY <1>3, <1>7, <2>2, <2>3, <2>7, <3>2 DEF Onward, Forth
  <2>8. CASE dir = "prev" /\ c # 0
    <3>1. at'.col = c - 1 /\ at'.row = r
      BY <1>6, <1>10, <2>8 DEF Onward, Back
    <3>2. q = p - 1
      BY <2>1, <2>4, <3>1
    <3>. QED
      BY <1>3, <1>7, <2>2, <2>3, <2>8, <3>2 DEF Onward, Back
  <2>9. CASE dir = "prev" /\ c = 0 /\ r # 0
    <3>1. at'.col = K - 1 /\ at'.row = r - 1
      BY <1>6, <1>10, <2>9 DEF Onward, Back
    <3>2. q = p - 1
      BY <2>1, <2>4, <2>9, <3>1
    <3>. QED
      BY <1>3, <1>7, <2>2, <2>3, <2>9, <3>2 DEF Onward, Back
  <2>10. CASE dir = "prev" /\ c = 0 /\ r = 0
    <3>1. at'.col = K - 1 /\ at'.row = R - 1
      BY <1>6, <1>10, <2>10 DEF Onward, Back
    <3>2. q = N - 1 /\ p = 0
      BY <2>1, <2>4, <2>10, <3>1
    <3>. QED
      BY <1>3, <1>7, <2>2, <2>3, <2>10, <3>2 DEF Onward, Back
  <2>. QED
    BY <1>3, <2>5, <2>6, <2>7, <2>8, <2>9, <2>10
<1>. QED
  BY <1>3, <1>7, <1>8, <1>9, <1>10

\* The steps from place q to place p, of n.
Ahead(n, p, q) == IF p - q >= 0 THEN p - q ELSE p - q + n
Lag(d, n, p, q) == IF d = "next" THEN Ahead(n, p, q) ELSE Ahead(n, q, p)

\* Where it is going it has been n - 1 steps ago, and all else is one step further behind then.
LEMMA BehindRight ==
  ASSUME NEW n \in Nat \ {0}, NEW p \in 0 .. n - 1, NEW q \in 0 .. n - 1, NEW t, NEW d, t = Onward(d, n, p)
  PROVE  /\ Lag(d, n, p, q) \in 0 .. n - 1 /\ Lag(d, n, p, t) = n - 1
         /\ Lag(d, n, t, q) = IF q = t THEN 0 ELSE Lag(d, n, p, q) + 1
<1>1. CASE d = "next"
  BY <1>1 DEF Onward, Lag, Forth, Ahead
<1>2. CASE d # "next"
  BY <1>2 DEF Onward, Lag, Back, Ahead
<1>. QED
  BY <1>1, <1>2

\* What the token has visited are the cores it has left at most k steps behind; once it comes to one
\* of them again, these are all.
LEMMA PassRight ==
  ASSUME Ids!TokenInv, Ids!Pass
  PROVE  Ids!TokenInv' /\ Ids!RoundTrip
<1>0. Ids!OnWay
  BY DEF Ids!TokenInv
<1>1. PICK n \in Nat \ {0} : n = Ids!Places
  BY <1>0, PlacesRight
<1>2. PICK D : D = Ids!Domain
  OBVIOUS
<1>3. PICK P : P = [c \in D |-> Ids!Place(c)]
  OBVIOUS
<1>4. PICK u, v : u = at /\ v = at'
  OBVIOUS
<1>5. PICK d : d = dir
  OBVIOUS
<1>6. PICK k \in 0 .. n - 1 : visited = {c \in D : Ids!StepsBehind(c) <= k}
  BY <1>1, <1>2 DEF Ids!TokenInv
<1>7. /\ \A c \in D : P[c] \in 0 .. n - 1
      /\ \A c, e \in D : P[c] = P[e] => c = e
      /\ u \in D /\ v \in D /\ Ids!Domain' = D
      /\ P[v] = Onward(d, n, P[u])
  BY <1>1, <1>2, <1>3, <1>4, <1>5, <1>0, PlacesRight, PassPlace DEF Onward
<1>8. PICK b : b = [c \in D |-> Lag(d, n, P[u], P[c])]
  OBVIOUS
<1>9. PICK f : f = [c \in D |-> Lag(d, n, P[v], P[c])]
  OBVIOUS
<1>10. \A c \in D : b[c] \in 0 .. n - 1 /\ b[v] = n - 1 /\ f[c] = IF c = v THEN 0 ELSE b[c] + 1
  <2>. TAKE c \in D
  <2>1. /\ Lag(d, n, P[u], P[c]) \in 0 .. n - 1
        /\ Lag(d, n, P[v], P[c]) = IF P[c] = P[v] THEN 0 ELSE Lag(d, n, P[u], P[c]) + 1
        /\ Lag(d, n, P[u], P[v]) = n - 1
    <3>1. PICK p \in 0 .. n - 1, q \in 0 .. n - 1, t \in 0 .. n - 1 : p = P[u] /\ q = P[c] /\ t = P[v]
      BY <1>7
    <3>2. t = Onward(d, n, p)
      BY <1>7, <3>1
    <3>3. /\ Lag(d, n, p, q) \in 0 .. n - 1 /\ Lag(d, n, p, t) = n - 1
          /\ Lag(d, n, t, q) = IF q = t THEN 0 ELSE Lag(d, n, p, q) + 1
      BY <3>2, BehindRight
    <3>. QED
      BY <3>1, <3>3
  <2>. QED
    BY <1>7, <1>8, <1>9, <2>1
<1>11. \A c \in D : Ids!StepsBehind(c) = b[c]
  BY <1>1, <1>2, <1>3, <1>4, <1>5, <1>7, <1>8 DEF Ids!StepsBehind, Ahead, Lag
<1>12. \A c \in D : Ids!StepsBehind(c)' = f[c]
  <2>1. UNCHANGED <<group, wrap, dir>>
    BY DEF Ids!Pass
  <2>2. \A c \in D : Ids!Place(c)' = P[c]
    BY <1>3, <2>1 DEF Ids!Place, Ids!e_get_num_from_coords
  <2>3. Ids!Places' = n
    BY <1>1, <2>1 DEF Ids!Places
  <2>4. Ids!Place(at)' = P[v]
    <3>1. Ids!Place(at)' = Ids!Place(v)
      BY <1>4, <2>1 DEF Ids!Place, Ids!e_get_num_from_coords
    <3>. QED
      BY <1>3, <1>7, <3>1
  <2>. QED
    BY <1>5, <1>9, <2>1, <2>2, <2>3, <2>4 DEF Ids!StepsBehind, Ahead, Lag
<1>13. visited = {c \in D : b[c] <= k} /\ visited' = IF v \in visited THEN {v} ELSE visited \cup {v}
  BY <1>4, <1>6, <1>11 DEF Ids!Pass
<1>14. v \in visited => visited = D
  <2>1. v \in visited => k = n - 1
    BY <1>7, <1>10, <1>13
  <2>. QED
    BY <1>10, <1>13, <2>1
<1>15. PICK m \in 0 .. n - 1 : visited' = {c \in D : f[c] <= m}
  <2>1. CASE v \in visited
    <3>1. {v} = {c \in D : f[c] <= 0}
      BY <1>7, <1>10
    <3>. QED
      BY <1>13, <2>1, <3>1
  <2>2. CASE v \notin visited
    <3>1. k + 1 \in 0 .. n - 1
      BY <1>7, <1>10, <1>13, <2>2
    <3>2. visited \cup {v} = {c \in D : f[c] <= k + 1}
      BY <1>7, <1>10, <1>13
    <3>. QED
      BY <1>13, <2>2, <3>1, <3>2
  <2>. QED
    BY <2>1, <2>2
<1>16. visited' = {c \in Ids!Domain' : Ids!StepsBehind(c)' <= m}
  BY <1>7, <1>12, <1>15
<1>17. UNCHANGED <<group, wrap, dir>> /\ at' \in Ids!CoresOf(group)
  BY <1>2, <1>4, <1>7 DEF Ids!Pass, Ids!Domain
<1>18. Ids!Places' = n
  BY <1>1, <1>17 DEF Ids!Places
<1>19. Ids!TokenInv'
  BY <1>0, <1>15, <1>16, <1>17, <1>18 DEF Ids!TokenInv, Ids!OnWay, Ids!CoresOf
<1>. QED
  BY <1>2, <1>4, <1>14, <1>19 DEF Ids!RoundTrip

\* It has been where it begins.
LEMMA TokenStarts == ASSUME Ids!Init PROVE Ids!TokenInv
<1>1. Ids!OnWay /\ visited = {at}
  BY DEF Ids!Init, Ids!OnWay
<1>2. PICK n \in Nat \ {0} : n = Ids!Places
  BY <1>1, PlacesRight
<1>3. \A c \in Ids!Domain : Ids!StepsBehind(c) <= 0 <=> c = at
  <2>1. /\ \A c \in Ids!Domain : Ids!Place(c) \in 0 .. n - 1
        /\ \A c, d \in Ids!Domain : Ids!Place(c) = Ids!Place(d) => c = d
        /\ at \in Ids!Domain
    BY <1>1, <1>2, PlacesRight
  <2>2. ASSUME NEW c \in Ids!Domain PROVE Ids!StepsBehind(c) <= 0 <=> Ids!Place(c) = Ids!Place(at)
    <3>1. PICK p \in 0 .. n - 1, q \in 0 .. n - 1 : p = Ids!Place(at) /\ q = Ids!Place(c)
      BY <2>1
    <3>2. Ids!StepsBehind(c) = Lag(dir, n, p, q)
      BY <1>2, <3>1 DEF Ids!StepsBehind, Lag, Ahead
    <3>3. Lag(dir, n, p, q) <= 0 <=> p = q
      BY DEF Lag, Ahead
    <3>. QED
      BY <3>1, <3>2, <3>3
  <2>. QED
    BY <2>1, <2>2
<1>4. at \in Ids!Domain
  BY <1>1, PlacesRight
<1>5. visited = {c \in Ids!Domain : Ids!StepsBehind(c) <= 0}
  BY <1>1, <1>3, <1>4
<1>. QED
  BY <1>1, <1>2, <1>5 DEF Ids!TokenInv

\* A core is found in its number.
IdOf(N, r, q, x, y) == (q + y) + (r + x) * N
IdSays(N, r, q, x, y, id) ==
    /\ id \in Nat /\ id = (x * N + y) + (q + r * N)
    /\ ((id - (q + r * N)) \div N) % N = x /\ (id - (q + r * N)) % N = y
    /\ id \div N = r + x /\ id % N = q + y
    /\ id = 0 => q + y = 0 /\ r + x = 0

\* All that its number tells of it.
LEMMA IdFound ==
  ASSUME NEW N \in Nat \ {0}, NEW r \in Nat, NEW q \in Nat, NEW x \in Nat, NEW y \in Nat, r + x < N, q + y < N,
         NEW id, id = IdOf(N, r, q, x, y)
  PROVE  IdSays(N, r, q, x, y, id)
<1>. USE DEF IdOf, IdSays
<1>1. id \in Nat /\ (r + x) * N = r * N + x * N /\ r * N \in Nat /\ x * N \in Nat
  OBVIOUS
<1>2. PICK n1, n2 : n1 = r * N /\ n2 = x * N /\ n1 \in Nat /\ n2 \in Nat
  BY <1>1
<1>3. id = (x * N + y) + (q + r * N) /\ id - (q + r * N) = y + x * N
  BY <1>1, <1>2
<1>4. (y + x * N) \div N = x /\ (y + x * N) % N = y
  OBVIOUS
<1>5. x % N = x
  BY Below
<1>8. id \div N = r + x /\ id % N = q + y
  <2>1. PICK s \in Nat, t \in 0 .. N - 1 : s = r + x /\ t = q + y
    OBVIOUS
  <2>2. (t + s * N) \div N = s /\ (t + s * N) % N = t
    OBVIOUS
  <2>. QED
    BY <2>1, <2>2
<1>9. id = 0 => q + y = 0 /\ r + x = 0
  <2>1. 0 \div N = 0 /\ 0 % N = 0
    OBVIOUS
  <2>. QED
    BY <1>8, <2>1
<1>. QED
  BY <1>1, <1>3, <1>4, <1>5, <1>8, <1>9

\* And a cell in its address.
LEMMA CellFound ==
  ASSUME NEW W \in Nat \ {0}, NEW id \in Nat, NEW p \in 0 .. W - 1
  PROVE  (id * W + p) \div W = id /\ (id > 0 => id * W + p >= W)
<1>1. id > 0 => id * W >= W /\ id * W \in Nat
  OBVIOUS
<1>. QED
  BY <1>1

\* Host and cores mean the same cell.
LEMMA AddressRight ==
  ASSUME Ids!OnWay
  PROVE  Ids!AddressesAgree
<1>1. PICK N \in Nat \ {0}, W \in Nat \ {0} : N = IdCols /\ W = IdWindow
  BY IdConstants
<1>2. PICK r \in Nat, q \in Nat, R \in Nat \ {0}, K \in Nat \ {0} :
         r = group.row /\ q = group.col /\ R = group.rows /\ K = group.cols /\ r + R <= N /\ q + K <= N /\ r + q > 0
  BY <1>1, GroupRight
<1>3. PICK u \in 0 .. R - 1, v \in 0 .. K - 1 : u = at.row /\ v = at.col /\ at = [row |-> u, col |-> v]
  BY <1>2, GroupRight
<1>4. PICK base, me, cfg : base = q + r * N /\ me = (q + v) + (r + u) * N /\ cfg = Ids!Config
  OBVIOUS
<1>5. base \in Nat /\ me \in Nat /\ me = (u * N + v) + base
  <2>1. (r + u) * N = r * N + u * N /\ r * N \in Nat /\ u * N \in Nat
    OBVIOUS
  <2>. QED
    BY <1>4, <2>1
<1>6. cfg.group_id = base /\ cfg.core_row = u /\ cfg.core_col = v
  <2>1. cfg.group_id = (q + 0) + (r + 0) * N
    BY <1>1, <1>2, <1>4 DEF Ids!Config, Ids!e_group_config, Ids!ee_get_id_from_coords
  <2>2. cfg.core_row = u /\ cfg.core_col = v
    BY <1>3, <1>4 DEF Ids!Config, Ids!e_group_config
  <2>. QED
    BY <1>4, <2>1, <2>2
<1>7. Ids!e_get_coreid(cfg) = me
  BY <1>1, <1>3, <1>5, <1>6 DEF Ids!e_get_coreid
<1>8. SUFFICES ASSUME NEW c \in Ids!CoresOf(group), NEW ptr \in {0, IdWindow - 1}, NEW addr, addr = Ids!e_get_global_address(cfg, c.row, c.col, ptr)
      PROVE  /\ addr = Ids!HostAddress(c, ptr)
             /\ Ids!e_is_on_core(cfg, addr) <=> c = at
             /\ Ids!e_get_global_address(cfg, Ids!SELF, Ids!SELF, ptr) = Ids!HostAddress(at, ptr)
             /\ Ids!e_coords_from_coreid(cfg, Ids!e_coreid_from_coords(cfg, c.row, c.col)) = c
             /\ \A o \in {[objtype |-> "group"], [objtype |-> "shm", ephy_base |-> IdEmem + 1], [objtype |-> "emem"]} :
                   /\ Ids!e_write_addr(cfg, o, c.row, c.col, ptr) = Ids!e_read_addr(cfg, o, c.row, c.col, ptr)
                   /\ Ids!e_write_addr(cfg, o, c.row, c.col, addr) = addr \/ o.objtype # "group"
  BY <1>4 DEF Ids!AddressesAgree
<1>9. PICK x \in 0 .. R - 1, y \in 0 .. K - 1 : x = c.row /\ y = c.col /\ c = [row |-> x, col |-> y]
  <2>1. c \in [row : 0 .. R - 1, col : 0 .. K - 1]
    BY <1>2 DEF Ids!CoresOf
  <2>2. c.row \in 0 .. R - 1 /\ c.col \in 0 .. K - 1 /\ c = [row |-> c.row, col |-> c.col]
    BY <2>1
  <2>. QED
    BY <2>2
<1>10. PICK p \in 0 .. W - 1 : p = ptr
  BY <1>1
<1>11. PICK id : id = (q + y) + (r + x) * N
  OBVIOUS
<1>12. r + x < N /\ q + y < N /\ x \in Nat /\ y \in Nat /\ r + u < N /\ q + v < N /\ u \in Nat /\ v \in Nat
  BY <1>2
<1>13. /\ id \in Nat /\ id = (x * N + y) + base
       /\ ((id - base) \div N) % N = x /\ (id - base) % N = y
       /\ (id * W + p) \div W = id /\ (id > 0 => id * W + p >= W)
       /\ id = 0 => q + y = 0 /\ r + x = 0
       /\ id \div N = r + x /\ id % N = q + y
  <2>1. id = IdOf(N, r, q, x, y) /\ base = q + r * N
    BY <1>4, <1>11 DEF IdOf
  <2>. QED
    <3>1. /\ id \in Nat /\ id = (x * N + y) + (q + r * N)
          /\ ((id - (q + r * N)) \div N) % N = x /\ (id - (q + r * N)) % N = y
          /\ (id * W + p) \div W = id /\ (id > 0 => id * W + p >= W)
          /\ id = 0 => q + y = 0 /\ r + x = 0
          /\ id \div N = r + x /\ id % N = q + y
      <4>1. id = IdOf(N, r, q, x, y) /\ r + x < N /\ q + y < N /\ x \in Nat /\ y \in Nat
        BY <1>12, <2>1
      <4>2. IdSays(N, r, q, x, y, id)
        BY <4>1, IdFound
      <4>3. (id * W + p) \div W = id /\ (id > 0 => id * W + p >= W)
        BY <4>2, CellFound DEF IdSays
      <4>. QED
        BY <4>2, <4>3 DEF IdSays
    <3>. QED
      BY <2>1, <3>1
<1>14. id > 0
  <2>1. id \in Nat /\ (id = 0 => q + y = 0 /\ r + x = 0)
    BY <1>13
  <2>2. ~(q + y = 0 /\ r + x = 0)
    <3>1. r + q > 0
      BY <1>2
    <3>. QED
      BY <3>1
  <2>. QED
    BY <2>1, <2>2
<1>15. addr = id * W + p /\ addr >= W
  <2>1. ~(p >= W) /\ x # Ids!SELF /\ y # Ids!SELF
    BY DEF Ids!SELF
  <2>2. addr = (x * N + y + base) * W + p
    BY <1>1, <1>6, <1>8, <1>9, <1>10, <2>1 DEF Ids!e_get_global_address
  <2>. QED
    BY <1>13, <1>14, <2>2
<1>16. addr = Ids!HostAddress(c, ptr)
  BY <1>1, <1>2, <1>9, <1>10, <1>11, <1>15 DEF Ids!HostAddress, Ids!ee_get_id_from_coords
<1>17. Ids!e_is_on_core(cfg, addr) <=> c = at
  <2>1. Ids!e_is_on_core(cfg, addr) <=> id = me
    BY <1>1, <1>7, <1>13, <1>14, <1>15 DEF Ids!e_is_on_core
  <2>2. me \div N = r + u /\ me % N = q + v
    <3>1. me = IdOf(N, r, q, u, v)
      BY <1>4 DEF IdOf
    <3>2. IdSays(N, r, q, u, v, me)
      BY <1>12, <3>1, IdFound
    <3>. QED
      BY <3>2 DEF IdSays
  <2>3. id = me => x = u /\ y = v
    BY <1>13, <2>2
  <2>. QED
    BY <1>3, <1>4, <1>9, <1>11, <2>1, <2>3
<1>18. Ids!e_get_global_address(cfg, Ids!SELF, Ids!SELF, ptr) = Ids!HostAddress(at, ptr)
  <2>1. ~(p >= W)
    OBVIOUS
  <2>2. Ids!e_get_global_address(cfg, Ids!SELF, Ids!SELF, ptr) = me * W + p
    BY <1>1, <1>7, <1>10, <2>1 DEF Ids!e_get_global_address
  <2>. QED
    BY <1>1, <1>2, <1>3, <1>4, <1>10, <2>2 DEF Ids!HostAddress, Ids!ee_get_id_from_coords
<1>19. Ids!e_coords_from_coreid(cfg, Ids!e_coreid_from_coords(cfg, c.row, c.col)) = c
  <2>1. x % N = x /\ y % N = y
    <3>1. x \in 0 .. N - 1 /\ y \in 0 .. N - 1
      BY <1>12, <1>2
    <3>. QED
      BY <3>1, Below
  <2>2. Ids!e_coreid_from_coords(cfg, c.row, c.col) = id
    BY <1>1, <1>6, <1>9, <1>13, <2>1 DEF Ids!e_coreid_from_coords
  <2>3. Ids!e_coords_from_coreid(cfg, id) = [row |-> ((id - base) \div N) % N, col |-> (id - base) % N]
    BY <1>1, <1>6 DEF Ids!e_coords_from_coreid
  <2>. QED
    BY <1>9, <1>13, <2>2, <2>3
<1>20. ASSUME NEW o \in {[objtype |-> "group"], [objtype |-> "shm", ephy_base |-> IdEmem + 1], [objtype |-> "emem"]}
       PROVE  /\ Ids!e_write_addr(cfg, o, c.row, c.col, ptr) = Ids!e_read_addr(cfg, o, c.row, c.col, ptr)
              /\ Ids!e_write_addr(cfg, o, c.row, c.col, addr) = addr \/ o.objtype # "group"
  <2>1. Ids!e_write_addr(cfg, o, c.row, c.col, ptr) = Ids!e_read_addr(cfg, o, c.row, c.col, ptr)
    BY DEF Ids!e_write_addr, Ids!e_read_addr
  <2>2. o.objtype = "group" => Ids!e_write_addr(cfg, o, c.row, c.col, addr) = Ids!e_get_global_address(cfg, c.row, c.col, addr)
    BY DEF Ids!e_write_addr
  <2>3. Ids!e_get_global_address(cfg, c.row, c.col, addr) = addr
    BY <1>1, <1>15 DEF Ids!e_get_global_address
  <2>. QED
    BY <2>1, <2>2, <2>3
<1>. QED
  BY <1>16, <1>17, <1>18, <1>19, <1>20

\* Where rows and columns are powers of two, every core of a group and the host mean the same cell by
\* its coordinates, and a token that is passed on comes to every core of its way before it comes to one again (e_get_global_address, e_neighbor_id).
THEOREM CellsStay == MCSpec => SameCells
<1>. DEFINE J == InPart("ids", Ids!TokenInv)
            V == <<vars, oneVars, idsVars, shmVars, dmaVars, part, sample>>
<1>1. MCInit => J
  BY TokenStarts DEF MCInit, InPart
<1>2. J /\ [MCNext]_V => J'
  <2>. SUFFICES ASSUME J, [MCNext]_V, part' = "ids" PROVE Ids!TokenInv'
    BY DEF InPart
  <2>1. Ids!TokenInv /\ (Ids!Pass \/ UNCHANGED idsVars)
    BY DEF MCNext, InPart, Ids!Next
  <2>2. CASE UNCHANGED idsVars
    BY <2>1, <2>2 DEF idsVars, Ids!TokenInv, Ids!OnWay, Ids!Domain, Ids!StepsBehind, Ids!Place, Ids!Places
  <2>. QED
    BY <2>1, <2>2, PassRight
<1>3. J => InPart("ids", Ids!AddressesAgree)
  BY AddressRight DEF InPart, Ids!TokenInv
<1>4. J /\ [MCNext]_V => [InPart("ids", Ids!RoundTrip)]_idsVars
  <2>. SUFFICES ASSUME J, [MCNext]_V, part = "ids", ~UNCHANGED idsVars PROVE Ids!RoundTrip
    BY DEF InPart
  <2>1. Ids!TokenInv /\ Ids!Pass
    BY DEF MCNext, InPart, Ids!Next
  <2>. QED
    BY <2>1, PassRight
<1>. QED
  BY <1>1, <1>2, <1>3, <1>4, PTL DEF MCSpec, SameCells
=============================================================================
