------------------------------ MODULE EBarrier ------------------------------
(***************************************************************************)
(* The work-group barrier of e-lib: e_barrier_init() and e_barrier().      *)
(*                                                                         *)
(* Every core of the group has a bar_array in its own local memory.  Core  *)
(* 0 polls one slot of its array per core; each other core polls slot 0 of *)
(* its own array.  A store through tgt_bar_array goes to another core's    *)
(* memory: it is posted on the mesh and takes effect later, so a store is  *)
(* two steps here, the posting by the storing core and Deliver.            *)
(***************************************************************************)
EXTENDS Naturals

CONSTANTS
  NumCores,   \* group_rows * group_cols
  MaxCalls    \* bound on the calls of e_barrier one core makes

ASSUME NumCoresAssumption == NumCores \in Nat \ {0}
ASSUME MaxCallsAssumption == MaxCalls \in Nat

Cores  == 0 .. NumCores - 1
Others == Cores \ {0}

VARIABLES
  slot,       \* slot[c]: bar_array[c] in the memory of core 0
  flag,       \* flag[c]: bar_array[0] in the memory of core c, c # 0
  slotStore,  \* slotStore[c]: stores of 1 to slot[c] still in the mesh
  flagStore,  \* flagStore[c]: stores of 1 to flag[c] still in the mesh
  slotPtr,    \* slotPtr[c]: tgt_bar_array[0] on core c # 0, the slot it addresses
  flagPtr,    \* flagPtr[k]: tgt_bar_array[k] on core 0, the flag it addresses
  pc0,        \* where core 0 is
  pc,         \* pc[c]: where core c # 0 is
  idx,        \* the loop variable i of e_barrier on core 0
  calls,      \* calls[c]: how many times c has called e_barrier
  returns     \* returns[c]: how many of these calls have returned

vars == <<slot, flag, slotStore, flagStore, slotPtr, flagPtr, pc0, pc, idx,
          calls, returns>>

NoCore == NumCores    \* an entry of tgt_bar_array that is not set yet

(***************************************************************************)
(* bar_array is statically zero, which e_barrier_init relies on.           *)
(***************************************************************************)
Init ==
  /\ slot      = [c \in Cores |-> 0]
  /\ flag      = [c \in Others |-> 0]
  /\ slotStore = [c \in Others |-> 0]
  /\ flagStore = [c \in Others |-> 0]
  /\ slotPtr   = [c \in Others |-> NoCore]
  /\ flagPtr   = [k \in Cores |-> NoCore]
  /\ pc0       = "start"
  /\ pc        = [c \in Others |-> "start"]
  /\ idx       = 0
  /\ calls     = [c \in Cores |-> 0]
  /\ returns   = [c \in Cores |-> 0]

(***************************************************************************)
(* e_barrier_init: core 0 learns where the flag of every core is, every    *)
(* other core where its slot on core 0 is.  bar_array is left alone.       *)
(***************************************************************************)
\* Mutant: core 0 clears its bar_array, as e_barrier_init once did.
InitFirstClearing ==
  /\ pc0 = "start"
  /\ pc0' = "idle"
  /\ flagPtr' = [k \in Cores |-> k]
  /\ slot' = [c \in Cores |-> 0]
  /\ UNCHANGED <<flag, slotStore, flagStore, slotPtr, pc, idx, calls, returns>>

FlagAddresses == [k \in Cores |-> k]

InitFirst ==
  /\ pc0 = "start"
  /\ pc0' = "idle"
  /\ flagPtr' = FlagAddresses
  /\ UNCHANGED <<slot, flag, slotStore, flagStore, slotPtr, pc, idx, calls,
                 returns>>

InitOther(c) ==
  /\ pc[c] = "start"
  /\ pc' = [pc EXCEPT ![c] = "idle"]
  /\ slotPtr' = [slotPtr EXCEPT ![c] = c]
  /\ UNCHANGED <<slot, flag, slotStore, flagStore, flagPtr, pc0, idx, calls,
                 returns>>

(***************************************************************************)
(* e_barrier on core 0: set its own slot, poll the others in order, clear  *)
(* all slots in order, then release the other cores in order.              *)
(***************************************************************************)
EnterFirst ==
  /\ pc0 = "idle"
  /\ calls[0] < MaxCalls
  /\ pc0' = "poll"
  /\ slot' = [slot EXCEPT ![0] = 1]
  /\ idx' = 1
  /\ calls' = [calls EXCEPT ![0] = @ + 1]
  /\ UNCHANGED <<flag, slotStore, flagStore, slotPtr, flagPtr, pc, returns>>

PollSlot ==
  /\ pc0 = "poll"
  /\ idx < NumCores
  /\ slot[idx] # 0
  /\ idx' = idx + 1
  /\ UNCHANGED <<slot, flag, slotStore, flagStore, slotPtr, flagPtr, pc0, pc,
                 calls, returns>>

\* Mutant: the poll loop stops one core short.
PollDoneShort ==
  /\ pc0 = "poll"
  /\ idx >= NumCores - 1
  /\ pc0' = "clear"
  /\ idx' = 0
  /\ UNCHANGED <<slot, flag, slotStore, flagStore, slotPtr, flagPtr, pc, calls,
                 returns>>

PollDone ==
  /\ pc0 = "poll"
  /\ idx = NumCores
  /\ pc0' = "clear"
  /\ idx' = 0
  /\ UNCHANGED <<slot, flag, slotStore, flagStore, slotPtr, flagPtr, pc, calls,
                 returns>>

ClearSlot ==
  /\ pc0 = "clear"
  /\ idx < NumCores
  /\ slot' = [slot EXCEPT ![idx] = 0]
  /\ idx' = idx + 1
  /\ UNCHANGED <<flag, slotStore, flagStore, slotPtr, flagPtr, pc0, pc, calls,
                 returns>>

ClearDone ==
  /\ pc0 = "clear"
  /\ idx = NumCores
  /\ pc0' = "release"
  /\ idx' = 1
  /\ UNCHANGED <<slot, flag, slotStore, flagStore, slotPtr, flagPtr, pc, calls,
                 returns>>

Release ==
  /\ pc0 = "release"
  /\ idx < NumCores
  /\ flagStore' = [flagStore EXCEPT ![flagPtr[idx]] = @ + 1]
  /\ idx' = idx + 1
  /\ UNCHANGED <<slot, flag, slotStore, slotPtr, flagPtr, pc0, pc, calls,
                 returns>>

ReturnFirst ==
  /\ pc0 = "release"
  /\ idx = NumCores
  /\ pc0' = "idle"
  /\ returns' = [returns EXCEPT ![0] = @ + 1]
  /\ UNCHANGED <<slot, flag, slotStore, flagStore, slotPtr, flagPtr, pc, idx,
                 calls>>

(***************************************************************************)
(* e_barrier on any other core: set its slot on core 0, poll its own flag, *)
(* clear it.                                                               *)
(***************************************************************************)
Enter(c) ==
  /\ pc[c] = "idle"
  /\ calls[c] < MaxCalls
  /\ pc' = [pc EXCEPT ![c] = "wait"]
  /\ slotStore' = [slotStore EXCEPT ![slotPtr[c]] = @ + 1]
  /\ calls' = [calls EXCEPT ![c] = @ + 1]
  /\ UNCHANGED <<slot, flag, flagStore, slotPtr, flagPtr, pc0, idx, returns>>

SeeRelease(c) ==
  /\ pc[c] = "wait"
  /\ flag[c] # 0
  /\ pc' = [pc EXCEPT ![c] = "clearOwn"]
  /\ UNCHANGED <<slot, flag, slotStore, flagStore, slotPtr, flagPtr, pc0, idx,
                 calls, returns>>

Leave(c) ==
  /\ pc[c] = "clearOwn"
  /\ pc' = [pc EXCEPT ![c] = "idle"]
  /\ flag' = [flag EXCEPT ![c] = 0]
  /\ returns' = [returns EXCEPT ![c] = @ + 1]
  /\ UNCHANGED <<slot, slotStore, flagStore, slotPtr, flagPtr, pc0, idx, calls>>

(***************************************************************************)
(* The mesh delivers a posted store.                                       *)
(***************************************************************************)
DeliverSlot(c) ==
  /\ slotStore[c] > 0
  /\ slotStore' = [slotStore EXCEPT ![c] = @ - 1]
  /\ slot' = [slot EXCEPT ![c] = 1]
  /\ UNCHANGED <<flag, flagStore, slotPtr, flagPtr, pc0, pc, idx, calls, returns>>

DeliverFlag(c) ==
  /\ flagStore[c] > 0
  /\ flagStore' = [flagStore EXCEPT ![c] = @ - 1]
  /\ flag' = [flag EXCEPT ![c] = 1]
  /\ UNCHANGED <<slot, slotStore, slotPtr, flagPtr, pc0, pc, idx, calls, returns>>

Core0Step == PollSlot \/ PollDone \/ ClearSlot \/ ClearDone \/ Release \/ ReturnFirst
OtherStep(c) == SeeRelease(c) \/ Leave(c)
MeshStep(c) == DeliverSlot(c) \/ DeliverFlag(c)

Next ==
  \/ InitFirst \/ EnterFirst \/ Core0Step
  \/ \E c \in Others : InitOther(c) \/ Enter(c) \/ OtherStep(c) \/ MeshStep(c)

(***************************************************************************)
(* A core inside e_barrier keeps running and the mesh delivers what was    *)
(* posted.  Nothing obliges a program to call e_barrier again.             *)
(***************************************************************************)
Fairness ==
  /\ WF_vars(Core0Step)
  /\ \A c \in Others : /\ WF_vars(OtherStep(c))
                       /\ WF_vars(DeliverSlot(c))
                       /\ WF_vars(DeliverFlag(c))

Spec == Init /\ [][Next]_vars
FairSpec == Spec /\ Fairness

-----------------------------------------------------------------------------
(***************************************************************************)
(* Properties.                                                             *)
(***************************************************************************)
\* Every variable holds a value of its type: slots and flags are 0 or 1, a
\* store goes to a core of the group.
TypeOK ==
  /\ slot \in [Cores -> {0, 1}]
  /\ flag \in [Others -> {0, 1}]
  /\ slotStore \in [Others -> Nat]
  /\ flagStore \in [Others -> Nat]
  /\ slotPtr \in [Others -> Cores \cup {NoCore}]
  /\ flagPtr \in [Cores -> Cores \cup {NoCore}]
  /\ pc0 \in {"start", "idle", "poll", "clear", "release"}
  /\ pc \in [Others -> {"start", "idle", "wait", "clearOwn"}]
  /\ idx \in 0 .. NumCores
  /\ calls \in [Cores -> Nat]
  /\ returns \in [Cores -> Nat]

\* No core returns from its k-th e_barrier before every core of the group
\* has made its k-th call (e_barrier, both branches).
NoEarlyReturn == \A c, d \in Cores : returns[c] <= calls[d]

\* No signal is lost in another: when a posted store takes effect, the slot or
\* flag has been cleared since the store before, whatever the relative speed
\* of the cores and of the mesh (the clears of e_barrier, lines 93 and 106).
NoSignalLost ==
  [][\A c \in Others :
       /\ DeliverSlot(c) => slot[c] = 0 /\ slotStore[c] = 1
       /\ DeliverFlag(c) => flag[c] = 0 /\ flagStore[c] = 1]_vars

\* Between two rounds nothing is left behind: when all cores are out of the
\* barrier and have called it equally often, all slots and flags are clear
\* and the mesh is empty, so the next round starts like the first.
CleanBetweenRounds ==
  (pc0 = "idle" /\ \A c \in Others : pc[c] = "idle" /\ calls[c] = calls[0])
    => /\ \A c \in Cores : slot[c] = 0
       /\ \A c \in Others : flag[c] = 0 /\ slotStore[c] = 0 /\ flagStore[c] = 0

\* Once every core has called e_barrier k times, every core returns k times.
EveryoneReturns ==
  \A k \in 1 .. MaxCalls :
    (\A c \in Cores : calls[c] >= k) ~> (\A c \in Cores : returns[c] >= k)

\* The code implements the abstract barrier.
Abs == INSTANCE AbsBarrier
AbsSpec == Abs!Spec
=============================================================================
