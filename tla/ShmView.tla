------------------------------- MODULE ShmView -------------------------------
(***************************************************************************)
(* A core looks a shared region up (e_shm.c of e-lib) without the lock the *)
(* host processes use, while one of them adds and retires regions          *)
(* (epiphany-shm-manager.c).  Host and core make one access per step; the  *)
(* stores of the host reach the memory in the order of the program.  A     *)
(* segment stands for the address, the offset and the size of a region.    *)
(***************************************************************************)
EXTENDS Naturals, Sequences

CONSTANTS Names, Segments,
          Slots,      \* MAX_SHM_REGIONS
          MaxAllocs   \* bound: regions the host adds

NoSeg == "none"
VARIABLES magic,      \* the table has its magic number
          regions,    \* the table
          host,       \* [pc, slot, name, seg] of the process that holds the lock
          core,       \* [pc, name, slot, seg] of the core, seg what it has read so far
          allocs,     \* regions added so far
          held        \* history, during the call: segments of the name; whether it always had
              \* one; whether no region was retired
vars == <<magic, regions, host, core, allocs, held>>

Free == [valid |-> FALSE, name |-> "none", addr |-> NoSeg, size |-> NoSeg]
Quiet == [pc |-> "idle", slot |-> 0, name |-> "none", seg |-> NoSeg]
Rest == [pc |-> "idle", slot |-> 0, name |-> "none", addr |-> NoSeg, size |-> NoSeg]

Init ==
    /\ magic \in BOOLEAN
    /\ regions = [i \in 1 .. Slots |-> Free] /\ host = Quiet /\ core = Rest /\ allocs = 0
    /\ held = [segs |-> {}, always |-> FALSE, kept |-> TRUE]

\* History, after each step of the host: what the name looked up stands for.
Of(rs, n) == {rs[i].addr : i \in {j \in 1 .. Slots : rs[j].valid /\ rs[j].name = n}}
Watch(rs) ==
    held' = [segs |-> held.segs \cup Of(rs, core.name), always |-> held.always /\ Of(rs, core.name) # {},
             kept |-> held.kept /\ \A i \in 1 .. Slots : regions[i].valid => rs[i].valid]

-----------------------------------------------------------------------------
\* e_shm_init of the host.
HostInit ==
    /\ ~magic /\ magic' = TRUE
    /\ UNCHANGED <<regions, host, core, allocs, held>>

\* e_shm_alloc: no region has the name; the first free slot is taken.
FreeSlots == {i \in 1 .. Slots : ~regions[i].valid}
Used == {regions[i].addr : i \in 1 .. Slots \ FreeSlots}
Alloc(n, s) ==
    /\ magic /\ host.pc = "idle" /\ allocs < MaxAllocs /\ allocs' = allocs + 1
    /\ Of(regions, n) = {} /\ s \notin Used
    /\ \E i \in FreeSlots : /\ \A j \in FreeSlots : i <= j
                          /\ host' = [pc |-> "name", slot |-> i, name |-> n, seg |-> s]
    /\ UNCHANGED <<magic, regions, core, held>>

HostStep(pc, next, f, v) ==
    /\ host.pc = pc
    /\ regions' = [regions EXCEPT ![host.slot][f] = v]
    /\ Watch(regions') /\ host' = (IF next = "idle" THEN Quiet ELSE [host EXCEPT !.pc = next])
    /\ UNCHANGED <<magic, core, allocs>>
\* Mutant: the region is declared valid before it is filled in.
AllocValidFirst == \/ HostStep("name", "addr", "valid", TRUE) \/ HostStep("addr", "size", "name", host.name)
                   \/ HostStep("size", "valid", "addr", host.seg) \/ HostStep("valid", "idle", "size", host.seg)

shm_alloc_region == \/ HostStep("name", "addr", "name", host.name) \/ HostStep("addr", "size", "addr", host.seg)
                    \/ HostStep("size", "valid", "size", host.seg) \/ HostStep("valid", "idle", "valid", TRUE)

\* e_shm_release of the last reference.
Release(i) ==
    /\ host.pc = "idle" /\ regions[i].valid
    /\ regions' = [regions EXCEPT ![i].valid = FALSE] /\ Watch(regions')
    /\ UNCHANGED <<magic, host, core, allocs>>

-----------------------------------------------------------------------------
(* e_shm_attach on the core *)

Attach(n) ==
    /\ core.pc = "idle" /\ core' = [Rest EXCEPT !.pc = "magic", !.name = n]
    /\ held' = [segs |-> Of(regions, n), always |-> Of(regions, n) # {}, kept |-> TRUE]
    /\ UNCHANGED <<magic, regions, host, allocs>>

Go(c) == core' = c /\ UNCHANGED <<magic, regions, host, allocs, held>>
check_shmtable == core.pc = "magic" /\ Go(IF magic THEN [core EXCEPT !.pc = "valid", !.slot = 1] ELSE [core EXCEPT !.pc = "err"])
NextSlot == IF core.slot = Slots THEN [core EXCEPT !.pc = "err"] ELSE [core EXCEPT !.pc = "valid", !.slot = @ + 1]
shm_lookup_region ==
    \/ core.pc = "valid" /\ Go(IF regions[core.slot].valid THEN [core EXCEPT !.pc = "name"] ELSE NextSlot)
    \/ core.pc = "name" /\ Go(IF regions[core.slot].name = core.name THEN [core EXCEPT !.pc = "addr"] ELSE NextSlot)
e_shm_attach ==
    \/ core.pc = "addr" /\ Go([core EXCEPT !.pc = "size", !.addr = regions[core.slot].addr])
    \/ core.pc = "size" /\ Go([core EXCEPT !.pc = "ok", !.size = regions[core.slot].size])
\* e_shm_release says E_OK when the table is not initialised.
e_shm_release == core.pc = "idle" /\ Go([Rest EXCEPT !.pc = IF magic THEN "unreleased" ELSE "released"])
Returned == core.pc \in {"ok", "err", "released", "unreleased"} /\ Go(Rest)

Host == HostInit \/ (\E n \in Names, s \in Segments : Alloc(n, s)) \/ shm_alloc_region \/ (\E i \in 1 .. Slots : Release(i))
Core == (\E n \in Names : Attach(n)) \/ check_shmtable \/ shm_lookup_region \/ e_shm_attach \/ e_shm_release \/ Returned
Next == Host \/ Core
Spec == Init /\ [][Next]_vars

-----------------------------------------------------------------------------
(* Why a look-up needs no lock.  The host has one name at a time and writes it, *)
(* field by field, into a slot that is not valid.                               *)

AnyName == Names \cup {"none"}
AnySeg == Segments \cup {NoSeg}
Region == [valid : BOOLEAN, name : AnyName, addr : AnySeg, size : AnySeg]
Looking == {"valid", "name", "addr", "size"}
CorePcs == {"idle", "magic", "ok", "err", "released", "unreleased"} \cup Looking
CoreState == [pc : CorePcs, slot : 0 .. Slots, name : AnyName, addr : AnySeg, size : AnySeg]
TypeOK ==
    /\ magic \in BOOLEAN /\ regions \in [1 .. Slots -> Region] /\ allocs \in 0 .. MaxAllocs
    /\ host \in [pc : {"idle", "name", "addr", "size", "valid"}, slot : 0 .. Slots, name : AnyName, seg : AnySeg]
    /\ core \in CoreState
    /\ host.pc # "idle" => host.slot # 0
    /\ core.pc \in Looking => core.slot # 0
    /\ held \in [segs : SUBSET AnySeg, always : BOOLEAN, kept : BOOLEAN]

Named(i, n) == regions[i].valid /\ regions[i].name = n
Table ==
    /\ \A i \in 1 .. Slots : regions[i].valid => regions[i].addr = regions[i].size
    /\ \A i, j \in 1 .. Slots : Named(i, regions[j].name) /\ regions[j].valid => i = j
    /\ ~magic => host.pc = "idle" /\ \A i \in 1 .. Slots : ~regions[i].valid
Filling ==
    host.pc # "idle" =>
        /\ ~regions[host.slot].valid /\ \A i \in 1 .. Slots : ~Named(i, host.name)
        /\ host.pc # "name" => regions[host.slot].name = host.name
        /\ host.pc \in {"size", "valid"} => regions[host.slot].addr = host.seg
        /\ host.pc = "valid" => regions[host.slot].size = host.seg

\* What the core still has to find, and what it has found.
Watched ==
    core.pc \in Looking \cup {"magic"} =>
        /\ \A i \in 1 .. Slots : Named(i, core.name) => regions[i].addr \in held.segs
        /\ held.always => \E i \in 1 .. Slots : Named(i, core.name)
        /\ held.always /\ core.pc \in {"valid", "name"} => \A i \in 1 .. Slots : Named(i, core.name) => i >= core.slot
Found ==
    /\ core.pc = "name" /\ (held.kept \/ (held.always /\ regions[core.slot].name = core.name)) =>
         regions[core.slot].valid
    /\ core.pc \in {"addr", "size"} /\ (held.always \/ held.kept) =>
         Named(core.slot, core.name) /\ (core.pc = "size" => core.addr = regions[core.slot].addr)

-----------------------------------------------------------------------------
\* A region that is there during the whole call is found, and if no region is
\* retired meanwhile, what is found is a region of that name as a whole: the host
\* may add regions while a core looks, without a lock, because valid is stored last.
AttachWhole ==
    /\ core.pc = "ok" /\ (held.always \/ held.kept) => core.addr \in held.segs /\ core.size = core.addr
    /\ core.pc = "err" /\ magic => ~held.always

VInv ==
    /\ TypeOK /\ Table /\ Filling /\ Watched /\ Found /\ AttachWhole
    /\ core.pc = "err" => ~held.always
=============================================================================
