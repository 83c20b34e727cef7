-------------------------- MODULE MCWorkGroup_proofs --------------------------
(***************************************************************************)
(* The load of a group, for every number of cores, every set of interrupts *)
(* and any number of them: no core runs the new program before all of them *)
(* hold it, and none runs cleared memory.  LInv says how far the host has  *)
(* come, core by core; a step of a core keeps it because the cores still   *)
(* running old programs and those that have been reset do not mix.         *)
(*                                                                         *)
(* The barrier of e-lib is a barrier for every group size: its inductive   *)
(* invariant is a conservation law.  The calls a core has made are the     *)
(* arrivals core 0 has cleared, plus the one in its slot, plus the one in  *)
(* the mesh; the releases core 0 has posted to a core are the returns of   *)
(* that core, plus the one in its slot, plus the one in the mesh.          *)
(***************************************************************************)
EXTENDS MCWorkGroup, TLAPS

Ready == {"clear", "load", "config", "start", "started"}

-----------------------------------------------------------------------------
(* Types.                                                                   *)

\* One field of one core is changed.
LEMMA SetTypes ==
  ASSUME Load!TypeOK, NEW c \in Load!Cores, NEW s \in Load!CoreState, core' = [core EXCEPT ![c] = s]
  PROVE  /\ core' \in [Load!Cores -> Load!CoreState]
         /\ core'[c] = s
         /\ \A d \in Load!Cores : d # c => core'[d] = core[d]
  BY DEF Load!TypeOK

\* The interrupts that are let through are interrupts.
LEMMA OpenTypes ==
  ASSUME Load!TypeOK, NEW c \in Load!Cores
  PROVE  Load!Open(c) \subseteq core[c].ilat
  BY DEF Load!TypeOK, Load!Open, Load!CoreState

\* The loop over the cores stays in the group.
LEMMA NextCoreTypes ==
  ASSUME Load!TypeOK, NEW label, NEW next, Load!NextCore(label, next)
  PROVE  /\ cur' \in Load!Cores /\ signals' \in 0 .. MaxSignals
         /\ \/ cur + 1 \in Load!Cores /\ cur' = cur + 1 /\ lpc' = label
            \/ cur + 1 = LoadCores /\ cur' = 0 /\ lpc' = next
  BY LoadConstants DEF Load!TypeOK, Load!NextCore, Load!Cores

-----------------------------------------------------------------------------
(* The steps of the cores, old programs included, change one core.          *)

\* What a step that changes core x must keep of it.
Keeps(x) ==
  /\ Load!Untouched(x) => Load!Untouched(x)'
  /\ Load!OnPayload(x) => Load!OnPayload(x)'
  /\ Load!UnderReset(x) => Load!UnderReset(x)'
  /\ (\A c \in Load!Cores : Load!Frozen(c)) => Load!Frozen(x)'
  /\ lpc \in Ready => core'[x].low = core[x].low /\ core'[x].rest = core[x].rest
  /\ lpc \in {"start", "started"} =>
       Load!Quiet(x)' /\ core'[x].code \in {"payload", "image"}

\* A step of the cores is a step of one core, with its registers in their types.
StepOf(x, s) ==
  /\ x \in Load!Cores /\ s \in Load!CoreState
  /\ core' = [core EXCEPT ![x] = s]
  /\ UNCHANGED <<lpc, cur>>
  /\ signals' \in 0 .. MaxSignals

\* Such a step keeps the invariant when it keeps what the invariant says of x.
LEMMA OneCoreInvariance ==
  ASSUME Load!LInv, NEW x, NEW s, StepOf(x, s), Keeps(x)
  PROVE  Load!LInv'
<1>1. x \in Load!Cores /\ s \in Load!CoreState /\ lpc' = lpc /\ cur' = cur
  BY DEF StepOf
<1>2. /\ core' \in [Load!Cores -> Load!CoreState]
      /\ \A d \in Load!Cores : d # x => core'[d] = core[d]
  BY SetTypes, <1>1 DEF StepOf, Load!LInv
<1>3. \A d \in Load!Cores : d # x =>
        /\ Load!Untouched(d)' <=> Load!Untouched(d)
        /\ Load!OnPayload(d)' <=> Load!OnPayload(d)
        /\ Load!UnderReset(d)' <=> Load!UnderReset(d)
        /\ Load!Frozen(d)' <=> Load!Frozen(d)
        /\ Load!Quiet(d)' <=> Load!Quiet(d)
  BY <1>1, <1>2 DEF Load!Untouched, Load!OnPayload, Load!UnderReset, Load!Frozen, Load!Quiet, Load!Open
<1>4. Load!TypeOK'
  BY <1>1, <1>2 DEF StepOf, Load!TypeOK, Load!LInv
<1>5. Load!Unstarted' /\ Load!ResetInOrder' /\ Load!AllFrozen' /\ Load!GaveUp'
  BY <1>1, <1>3 DEF Keeps, Load!LInv, Load!Unstarted, Load!ResetInOrder, Load!AllFrozen, Load!GaveUp
<1>6. Load!ClearedInOrder' /\ Load!LoadedInOrder' /\ Load!Loaded'
  BY <1>1, <1>2, <1>3 DEF Keeps, Ready, Load!LInv, Load!ClearedInOrder, Load!LoadedInOrder, Load!Loaded, Load!Holds
<1>. QED
  BY <1>4, <1>5, <1>6 DEF Load!LInv

\* When the memories are being cleared and later no old program runs and no
\* transfer is under way.
LEMMA NoneLeft ==
  ASSUME Load!LInv, lpc \in Ready, NEW c \in Load!Cores
  PROVE  Load!Quiet(c) /\ core[c].code \in {"payload", "image"}
  BY DEF Ready, Load!LInv, Load!AllFrozen, Load!Loaded, Load!Frozen, Load!OnPayload

\* The state a step gives to a core is one of CoreState.
LEMMA States ==
  ASSUME Load!TypeOK, NEW x \in Load!Cores
  PROVE  /\ core[x] \in Load!CoreState
         /\ \A b \in BOOLEAN : [core[x] EXCEPT !.ext = b] \in Load!CoreState
         /\ \A b \in BOOLEAN : [core[x] EXCEPT !.dma = b] \in Load!CoreState
         /\ \A r \in {"running", "idle", "halted"}, b, e \in BOOLEAN :
              [core[x] EXCEPT !.run = r, !.ipend = b, !.gid = e] \in Load!CoreState
  BY ZenonT(60) DEF Load!TypeOK, Load!CoreState

\* What such a step leaves.
LEMMA Stepped ==
  ASSUME Load!LInv, NEW x, NEW s, StepOf(x, s)
  PROVE  x \in Load!Cores /\ core[x] \in Load!CoreState /\ core'[x] = s /\ lpc' = lpc /\ cur' = cur
  BY SetTypes, States DEF StepOf, Load!LInv

\* A read from outside begins only in an old program.
LEMMA ExternalReadInvariance ==
  ASSUME Load!LInv, NEW c \in Load!Cores, Load!ExternalRead(c)
  PROVE  Load!LInv'
<1>. DEFINE s == [core[c] EXCEPT !.ext = TRUE]
<1>1. StepOf(c, s)
  BY States DEF StepOf, Load!LInv, Load!ExternalRead, Load!Set, Load!TypeOK
<1>2. core[c].code = "old" /\ core[c].run = "running"
  BY DEF Load!ExternalRead, Load!Old
<1>3. lpc \notin Ready
  BY <1>2, NoneLeft
<1>4. core[c] \in Load!CoreState /\ core'[c] = s /\ lpc' = lpc /\ cur' = cur
  BY <1>1, Stepped
<1>5. Keeps(c)
  BY <1>2, <1>3, <1>4 DEF Keeps, Ready, Load!CoreState, Load!Untouched, Load!OnPayload,
     Load!UnderReset, Load!Frozen, Load!Waiting
<1>. QED
  BY <1>1, <1>5, OneCoreInvariance

\* A read from outside ends.
LEMMA ReadEndsInvariance ==
  ASSUME Load!LInv, NEW c \in Load!Cores, Load!ReadEnds(c)
  PROVE  Load!LInv'
<1>. DEFINE s == [core[c] EXCEPT !.ext = FALSE]
<1>1. StepOf(c, s)
  BY States DEF StepOf, Load!LInv, Load!ReadEnds, Load!Set, Load!TypeOK
<1>2. lpc \notin Ready
  BY NoneLeft DEF Load!ReadEnds, Load!Quiet
<1>3. core[c] \in Load!CoreState /\ core'[c] = s /\ lpc' = lpc /\ cur' = cur
  BY <1>1, Stepped
<1>4. Keeps(c)
  BY <1>2, <1>3 DEF Keeps, Ready, Load!CoreState, Load!Untouched, Load!OnPayload,
     Load!UnderReset, Load!Frozen, Load!Quiet, Load!Open
<1>. QED
  BY <1>1, <1>4, OneCoreInvariance

\* A transfer ends.
LEMMA DmaEndsInvariance ==
  ASSUME Load!LInv, NEW c \in Load!Cores, Load!DmaEnds(c)
  PROVE  Load!LInv'
<1>. DEFINE s == [core[c] EXCEPT !.dma = FALSE]
<1>1. StepOf(c, s)
  BY States DEF StepOf, Load!LInv, Load!DmaEnds, Load!Set, Load!TypeOK
<1>2. lpc \notin Ready
  BY NoneLeft DEF Load!DmaEnds, Load!Quiet
<1>3. core[c] \in Load!CoreState /\ core'[c] = s /\ lpc' = lpc /\ cur' = cur
  BY <1>1, Stepped
<1>4. Keeps(c)
  BY <1>2, <1>3 DEF Keeps, Ready, Load!CoreState, Load!Untouched, Load!OnPayload,
     Load!UnderReset, Load!Frozen, Load!Quiet, Load!Open
<1>. QED
  BY <1>1, <1>4, OneCoreInvariance

\* An old program stops.
LEMMA OldStopsInvariance ==
  ASSUME Load!LInv, NEW c \in Load!Cores, Load!OldStops(c)
  PROVE  Load!LInv'
<1>. PICK run \in {"idle", "halted"}, isr \in BOOLEAN :
       core' = [core EXCEPT ![c].run = run, ![c].ipend = isr, ![c].gid = isr]
  BY DEF Load!OldStops
<1>. DEFINE s == [core[c] EXCEPT !.run = run, !.ipend = isr, !.gid = isr]
<1>1. StepOf(c, s)
  <2>1. s \in Load!CoreState
    BY States DEF Load!LInv
  <2>2. core' = [core EXCEPT ![c] = s]
    BY DEF Load!LInv, Load!TypeOK
  <2>. QED
    BY <2>1, <2>2 DEF StepOf, Load!LInv, Load!OldStops, Load!TypeOK
<1>2. core[c].code = "old" /\ core[c].run = "running"
  BY DEF Load!OldStops, Load!Old
<1>3. lpc \notin Ready
  BY <1>2, NoneLeft
<1>4. core[c] \in Load!CoreState /\ core'[c] = s /\ lpc' = lpc /\ cur' = cur
  BY <1>1, Stepped
<1>5. /\ core'[c].ext = core[c].ext /\ core'[c].dma = core[c].dma
      /\ core'[c].code = core[c].code /\ core'[c].low = core[c].low /\ core'[c].rest = core[c].rest
  <2>1. /\ core'[c].ext = s.ext /\ core'[c].dma = s.dma
        /\ core'[c].code = s.code /\ core'[c].low = s.low /\ core'[c].rest = s.rest
    BY <1>4
  <2>. QED
    BY <1>4, <2>1 DEF Load!CoreState
<1>. HIDE DEF s
<1>6. Keeps(c)
  BY <1>2, <1>3, <1>4, <1>5 DEF Keeps, Ready, Load!CoreState, Load!Untouched, Load!OnPayload,
     Load!UnderReset, Load!Frozen, Load!Quiet, Load!Waiting
<1>. QED
  BY <1>1, <1>6, OneCoreInvariance

\* An old program or its transfer writes into another core: never once the
\* memories are being cleared.
LEMMA OldWriteInvariance ==
  ASSUME Load!LInv, NEW c \in Load!Cores, NEW d \in Load!Cores, Load!OldWrite(c, d)
  PROVE  Load!LInv'
<1>. DEFINE s == [core[d] EXCEPT !.rest = IF core[d].rest = "old" THEN "old" ELSE "spoilt"]
<1>1. StepOf(d, s)
  <2>1. core[d] \in Load!CoreState
    BY States DEF Load!LInv
  <2>2. s \in Load!CoreState
    BY <2>1 DEF Load!CoreState
  <2>. QED
    BY <2>2 DEF StepOf, Load!LInv, Load!OldWrite, Load!Set, Load!TypeOK
<1>2. lpc \notin Ready
  BY NoneLeft DEF Load!OldWrite, Load!Old, Load!Quiet
<1>3. core[d] \in Load!CoreState /\ core'[d] = s /\ lpc' = lpc /\ cur' = cur
  BY <1>1, Stepped
<1>4. /\ core'[d].run = core[d].run /\ core'[d].ext = core[d].ext /\ core'[d].dma = core[d].dma
      /\ core'[d].ilat = core[d].ilat /\ core'[d].imask = core[d].imask /\ core'[d].code = core[d].code
      /\ core'[d].low = core[d].low
  BY <1>3 DEF Load!CoreState
<1>5. Keeps(d)
  BY <1>2, <1>3, <1>4 DEF Keeps, Ready, Load!Untouched, Load!OnPayload, Load!UnderReset, Load!Frozen, Load!Quiet, Load!Open
<1>. QED
  BY <1>1, <1>5, OneCoreInvariance

\* An old program raises an interrupt: never once the memories are being cleared.
LEMMA OldSignalInvariance ==
  ASSUME Load!LInv, NEW c \in Load!Cores, NEW d \in Load!Cores, Load!OldSignal(c, d)
  PROVE  Load!LInv'
<1>. PICK irq \in Irqs : Load!Set(d, "ilat", core[d].ilat \cup {irq})
  BY DEF Load!OldSignal
<1>. DEFINE s == [core[d] EXCEPT !.ilat = core[d].ilat \cup {irq}]
<1>1. StepOf(d, s)
  <2>1. core[d] \in Load!CoreState
    BY States DEF Load!LInv
  <2>2. s \in Load!CoreState
    BY <2>1, LoadConstants DEF Load!CoreState
  <2>. QED
    <3>1. core' = [core EXCEPT ![d] = s]
      BY DEF Load!Set, Load!LInv, Load!TypeOK
    <3>2. UNCHANGED <<lpc, cur>> /\ signals' \in 0 .. MaxSignals
      BY LoadConstants DEF Load!OldSignal, Load!LInv, Load!TypeOK
    <3>. QED
      BY <2>2, <3>1, <3>2 DEF StepOf
<1>2. core[c].code = "old" /\ lpc \notin Ready
  BY NoneLeft DEF Load!OldSignal, Load!Old
<1>3. core[d] \in Load!CoreState /\ core'[d] = s /\ lpc' = lpc /\ cur' = cur
  BY <1>1, Stepped
<1>4. /\ core'[d].run = core[d].run /\ core'[d].ext = core[d].ext /\ core'[d].dma = core[d].dma
      /\ core'[d].code = core[d].code /\ core'[d].low = core[d].low /\ core'[d].rest = core[d].rest
  BY <1>3 DEF Load!CoreState
<1>5. ~Load!Frozen(c)
  BY <1>2 DEF Load!Frozen
<1>. HIDE DEF s
<1>6. Keeps(d)
  BY <1>2, <1>3, <1>4, <1>5 DEF Keeps, Ready, Load!CoreState, Load!Untouched, Load!OnPayload,
     Load!UnderReset, Load!Frozen, Load!Quiet
<1>. QED
  BY <1>1, <1>6, OneCoreInvariance

\* An interrupt is taken: into the old program, the payload or, when all is
\* loaded, the new program.
LEMMA TakeIrqInvariance ==
  ASSUME Load!LInv, NEW c \in Load!Cores, Load!TakeIrq(c)
  PROVE  Load!LInv'
<1>. PICK irq : core' = [core EXCEPT ![c].run = "running", ![c].ipend = TRUE, ![c].gid = TRUE,
       ![c].ilat = @ \ {irq}, ![c].code = IF core[c].low = "clear" THEN "wild" ELSE core[c].low]
  BY DEF Load!TakeIrq
<1>. DEFINE s == [core[c] EXCEPT !.run = "running", !.ipend = TRUE, !.gid = TRUE,
       !.ilat = core[c].ilat \ {irq},
       !.code = IF core[c].low = "clear" THEN "wild" ELSE core[c].low]
<1>1. StepOf(c, s)
  <2>1. s \in Load!CoreState
    <3>1. core[c] \in Load!CoreState
      BY DEF Load!LInv, Load!TypeOK
    <3>. QED
      BY <3>1 DEF Load!CoreState
  <2>2. core' = [core EXCEPT ![c] = s]
    BY DEF Load!LInv, Load!TypeOK
  <2>. QED
    BY <2>1, <2>2 DEF StepOf, Load!LInv, Load!TakeIrq, Load!TypeOK
<1>2. core[c].run # "halted" /\ ~core[c].ext /\ Load!Open(c) # {}
  BY DEF Load!TakeIrq
<1>3. lpc \in {"start", "started"} => core[c].low = "image" /\ Load!Quiet(c)
  BY DEF Load!LInv, Load!Loaded, Load!Holds
<1>4. core[c] \in Load!CoreState /\ core'[c] = s /\ lpc' = lpc /\ cur' = cur
  BY <1>1, Stepped
<1>5. /\ core'[c].run = "running" /\ core'[c].ext = core[c].ext /\ core'[c].dma = core[c].dma
      /\ core'[c].code = IF core[c].low = "clear" THEN "wild" ELSE core[c].low
      /\ core'[c].low = core[c].low /\ core'[c].rest = core[c].rest
  <2>1. core'[c].code = s.code /\ core'[c].low = s.low
    BY <1>4
  <2>2. core'[c].run = s.run /\ core'[c].ext = s.ext /\ core'[c].dma = s.dma /\ core'[c].rest = s.rest
    BY <1>4
  <2>. QED
    BY <1>4, <2>1, <2>2, ZenonT(60) DEF Load!CoreState
<1>. HIDE DEF s
<1>6. Keeps(c)
  BY <1>2, <1>3, <1>4, <1>5 DEF Keeps, Load!Untouched, Load!OnPayload,
     Load!UnderReset, Load!Frozen, Load!Quiet, Load!Waiting
<1>. QED
  BY <1>1, <1>6, OneCoreInvariance

\* A round of the payload.
LEMMA PayloadInvariance ==
  ASSUME Load!LInv, NEW c \in Load!Cores, Load!Payload(c)
  PROVE  Load!LInv'
<1>. DEFINE s == [core[c] EXCEPT !.ipend = FALSE, !.gid = FALSE,
                                 !.run = IF core[c].ipend THEN "running" ELSE "idle"]
<1>1. StepOf(c, s)
  <2>1. s \in Load!CoreState
    <3>1. core[c] \in Load!CoreState
      BY DEF Load!LInv, Load!TypeOK
    <3>. QED
      BY <3>1 DEF Load!CoreState
  <2>2. core' = [core EXCEPT ![c] = s]
    BY DEF Load!LInv, Load!TypeOK, Load!Payload
  <2>. QED
    BY <2>1, <2>2 DEF StepOf, Load!LInv, Load!Payload, Load!TypeOK
<1>2. core[c].code = "payload" /\ core[c].run = "running"
  BY DEF Load!Payload, Load!InPayload
<1>3. lpc \in {"start", "started"} => Load!Quiet(c)
  BY DEF Load!LInv, Load!Loaded
<1>4. core[c] \in Load!CoreState /\ core'[c] = s /\ lpc' = lpc /\ cur' = cur
  BY <1>1, Stepped
<1>5. Keeps(c)
  BY <1>2, <1>3, <1>4 DEF Keeps, Load!CoreState, Load!Untouched, Load!OnPayload,
     Load!UnderReset, Load!Frozen, Load!Quiet, Load!Waiting
<1>. QED
  BY <1>1, <1>5, OneCoreInvariance

-----------------------------------------------------------------------------
(* The steps of the host: soft resets.                                      *)

\* The host goes on with the core it resets and leaves the others alone.
ResetOf(s) ==
  /\ lpc \in Load!Resetting /\ s \in Load!CoreState
  /\ core' = [core EXCEPT ![cur] = s]
  /\ lpc' \in Load!Resetting
  /\ UNCHANGED <<cur, signals>>

\* Such a step keeps the invariant when the core is as it should be at the new place.
LEMMA ResetInvariance ==
  ASSUME Load!LInv, NEW s, ResetOf(s), Load!UnderReset(cur)'
  PROVE  Load!LInv'
<1>1. cur \in Load!Cores /\ s \in Load!CoreState /\ cur' = cur /\ signals' = signals
  BY DEF ResetOf, Load!LInv, Load!TypeOK
<1>2. /\ core' \in [Load!Cores -> Load!CoreState]
      /\ \A d \in Load!Cores : d # cur => core'[d] = core[d]
  BY SetTypes, <1>1 DEF ResetOf, Load!LInv
<1>3. lpc \in Load!Resetting /\ lpc' \in Load!Resetting
  BY DEF ResetOf
<1>4. \A d \in Load!Cores : d # cur =>
        /\ Load!Untouched(d)' <=> Load!Untouched(d)
        /\ Load!OnPayload(d)' <=> Load!OnPayload(d)
  BY <1>2 DEF Load!Untouched, Load!OnPayload, Load!Quiet
<1>5. \A c \in Load!Cores : c = cur => Load!UnderReset(c)'
  BY <1>1 DEF Load!UnderReset
<1>6. Load!ResetInOrder'
  <2>. HIDE DEF Load!UnderReset
  <2>. SUFFICES ASSUME NEW c \in Load!Cores
                PROVE  (IF c < cur THEN Load!OnPayload(c) ELSE IF c = cur THEN Load!UnderReset(c) ELSE Load!Untouched(c))'
    BY DEF Load!ResetInOrder
  <2>1. c = cur => ~(c < cur)
    BY <1>1 DEF Load!Cores
  <2>. QED
    BY <1>1, <1>3, <1>4, <1>5, <2>1 DEF Load!LInv, Load!ResetInOrder
<1>7. Load!TypeOK'
  BY <1>1, <1>2, <1>3 DEF Load!LInv, Load!TypeOK, Load!Resetting, Load!Waiting
<1>8. lpc' \notin {"idle", "clear", "load", "config", "start", "started", "failed"}
  BY <1>3 DEF Load!Resetting, Load!Waiting
<1>. QED
  BY <1>6, <1>7, <1>8 DEF Load!LInv, Load!Unstarted, Load!AllFrozen, Load!ClearedInOrder, Load!LoadedInOrder,
     Load!Loaded, Load!GaveUp

\* Where the host is in a reset, the core is as UnderReset says.
LEMMA AtCore ==
  ASSUME Load!LInv, lpc \in Load!Resetting
  PROVE  /\ cur \in Load!Cores /\ core[cur] \in Load!CoreState
         /\ core = [core EXCEPT ![cur] = core[cur]]
         /\ Load!UnderReset(cur)
<1>1. cur \in Load!Cores /\ core[cur] \in Load!CoreState /\ core = [core EXCEPT ![cur] = core[cur]]
  BY DEF Load!LInv, Load!TypeOK
<1>2. ~(cur < cur)
  BY <1>1 DEF Load!Cores
<1>. QED
  BY <1>1, <1>2 DEF Load!LInv, Load!ResetInOrder

\* The core is halted.
LEMMA HaltInvariance ==
  ASSUME Load!LInv, Load!Halt
  PROVE  Load!LInv'
<1>. DEFINE s == [core[cur] EXCEPT !.run = "halted"]
<1>1. lpc = "halt" /\ lpc' = "fetch" /\ UNCHANGED <<cur, signals>> /\ core' = [core EXCEPT ![cur] = s]
  BY DEF Load!Halt, Load!At, Load!Goto, Load!Set, Load!LInv, Load!TypeOK
<1>2. cur \in Load!Cores /\ core[cur] \in Load!CoreState /\ Load!UnderReset(cur)
  BY <1>1, AtCore DEF Load!Resetting
<1>3. s \in Load!CoreState /\ core'[cur] = s
  BY <1>1, <1>2 DEF Load!CoreState, Load!LInv, Load!TypeOK
<1>4. ResetOf(s)
  BY <1>1, <1>3 DEF ResetOf, Load!Resetting
<1>5. Load!UnderReset(cur)'
  BY <1>1, <1>2, <1>3, ZenonT(60) DEF Load!UnderReset, Load!Waiting, Load!CoreState
<1>. QED
  BY <1>4, <1>5, ResetInvariance

\* No read of it is outstanding.
LEMMA FetchInvariance ==
  ASSUME Load!LInv, Load!Fetch
  PROVE  Load!LInv'
<1>1. lpc = "fetch" /\ lpc' = "dma" /\ UNCHANGED <<cur, signals, core>> /\ ~core[cur].ext
  BY DEF Load!Fetch, Load!At, Load!Goto
<1>2. core[cur] \in Load!CoreState /\ Load!UnderReset(cur) /\ core = [core EXCEPT ![cur] = core[cur]]
  BY <1>1, AtCore DEF Load!Resetting
<1>3. ResetOf(core[cur])
  BY <1>1, <1>2 DEF ResetOf, Load!Resetting
<1>4. Load!UnderReset(cur)'
  BY <1>1, <1>2 DEF Load!UnderReset, Load!Waiting
<1>. QED
  BY <1>3, <1>4, ResetInvariance

\* Its transfers are stopped.
LEMMA ResetDmaInvariance ==
  ASSUME Load!LInv, Load!ResetDma
  PROVE  Load!LInv'
<1>. DEFINE s == [core[cur] EXCEPT !.dma = FALSE]
<1>1. lpc = "dma" /\ lpc' = "registers" /\ UNCHANGED <<cur, signals>> /\ core' = [core EXCEPT ![cur] = s]
  BY DEF Load!ResetDma, Load!At, Load!Goto, Load!Set, Load!LInv, Load!TypeOK
<1>2. cur \in Load!Cores /\ core[cur] \in Load!CoreState /\ Load!UnderReset(cur)
  BY <1>1, AtCore DEF Load!Resetting
<1>3. s \in Load!CoreState /\ core'[cur] = s
  BY <1>1, <1>2 DEF Load!CoreState, Load!LInv, Load!TypeOK
<1>4. ResetOf(s)
  BY <1>1, <1>3 DEF ResetOf, Load!Resetting
<1>5. Load!UnderReset(cur)'
  BY <1>1, <1>2, <1>3 DEF Load!UnderReset, Load!Waiting, Load!CoreState
<1>. QED
  BY <1>4, <1>5, ResetInvariance

\* Its interrupts are cleared.
LEMMA RegistersInvariance ==
  ASSUME Load!LInv, Load!Registers
  PROVE  Load!LInv'
<1>. DEFINE s == [core[cur] EXCEPT !.ilat = {}, !.imask = "all"]
<1>1. lpc = "registers" /\ lpc' = "payload" /\ UNCHANGED <<cur, signals>> /\ core' = [core EXCEPT ![cur] = s]
  BY DEF Load!Registers, Load!At, Load!Goto, Load!LInv, Load!TypeOK
<1>2. cur \in Load!Cores /\ core[cur] \in Load!CoreState /\ Load!UnderReset(cur)
  BY <1>1, AtCore DEF Load!Resetting
<1>3. s \in Load!CoreState /\ core'[cur] = s
  BY <1>1, <1>2 DEF Load!CoreState, Load!LInv, Load!TypeOK
<1>4. ResetOf(s)
  BY <1>1, <1>3 DEF ResetOf, Load!Resetting
<1>5. Load!UnderReset(cur)'
  BY <1>1, <1>2, <1>3, ZenonT(60) DEF Load!UnderReset, Load!Waiting, Load!CoreState
<1>. QED
  BY <1>4, <1>5, ResetInvariance

\* The payload is written into its memory.
LEMMA WritePayloadInvariance ==
  ASSUME Load!LInv, Load!WritePayload
  PROVE  Load!LInv'
<1>. DEFINE s == [core[cur] EXCEPT !.low = "payload"]
<1>1. lpc = "payload" /\ lpc' = "resume" /\ UNCHANGED <<cur, signals>> /\ core' = [core EXCEPT ![cur] = s]
  BY DEF Load!WritePayload, Load!At, Load!Goto, Load!Set, Load!LInv, Load!TypeOK
<1>2. cur \in Load!Cores /\ core[cur] \in Load!CoreState /\ Load!UnderReset(cur)
  BY <1>1, AtCore DEF Load!Resetting
<1>3. s \in Load!CoreState /\ core'[cur] = s
  BY <1>1, <1>2 DEF Load!CoreState, Load!LInv, Load!TypeOK
<1>4. ResetOf(s)
  BY <1>1, <1>3 DEF ResetOf, Load!Resetting
<1>5. Load!UnderReset(cur)'
  BY <1>1, <1>2, <1>3, ZenonT(60) DEF Load!UnderReset, Load!Waiting, Load!CoreState
<1>. QED
  BY <1>4, <1>5, ResetInvariance

\* It runs the payload.
LEMMA ResumeInvariance ==
  ASSUME Load!LInv, Load!Resume
  PROVE  Load!LInv'
<1>. DEFINE s == [core[cur] EXCEPT !.run = "running", !.code = "payload"]
<1>1. lpc = "resume" /\ lpc' = "ipend" /\ UNCHANGED <<cur, signals>> /\ core' = [core EXCEPT ![cur] = s]
  BY DEF Load!Resume, Load!At, Load!Goto, Load!LInv, Load!TypeOK
<1>2. cur \in Load!Cores /\ core[cur] \in Load!CoreState /\ Load!UnderReset(cur)
  BY <1>1, AtCore DEF Load!Resetting
<1>3. s \in Load!CoreState /\ core'[cur] = s
  BY <1>1, <1>2 DEF Load!CoreState, Load!LInv, Load!TypeOK
<1>4. ResetOf(s)
  BY <1>1, <1>3 DEF ResetOf, Load!Resetting, Load!Waiting
<1>5. Load!UnderReset(cur)'
  BY <1>1, <1>2, <1>3, ZenonT(60) DEF Load!UnderReset, Load!Waiting, Load!CoreState
<1>. QED
  BY <1>4, <1>5, ResetInvariance

\* The host gives up.
LEMMA FailInvariance ==
  ASSUME Load!LInv, lpc \in {"fetch", "dma", "ipend", "ilat", "status", "load"},
         lpc' = "failed", UNCHANGED <<core, cur, signals>>
  PROVE  Load!LInv'
<1>1. Load!TypeOK'
  BY DEF Load!LInv, Load!TypeOK
<1>2. Load!GaveUp'
  <2>1. CASE lpc = "load"
    BY <2>1 DEF Load!LInv, Load!AllFrozen, Load!GaveUp, Load!Frozen, Load!Quiet, Load!Open
  <2>2. CASE lpc \in Load!Resetting
    <3>1. Load!UnderReset(cur) => Load!Untouched(cur) \/ Load!OnPayload(cur)
      <4>1. lpc \in Load!Waiting \/ lpc \in {"fetch", "dma"}
        BY <2>2 DEF Load!Resetting, Load!Waiting
      <4>. QED
        BY <4>1 DEF Load!UnderReset, Load!Untouched, Load!OnPayload, Load!Quiet, Load!Waiting
    <3>2. \A c \in Load!Cores : Load!Untouched(c) \/ Load!OnPayload(c)
      BY <2>2, <3>1 DEF Load!LInv, Load!ResetInOrder
    <3>. QED
      BY <3>2 DEF Load!GaveUp, Load!Untouched, Load!OnPayload, Load!Quiet
  <2>. QED
    BY <2>1, <2>2 DEF Load!Resetting, Load!Waiting
<1>. QED
  BY <1>1, <1>2 DEF Load!LInv, Load!Unstarted, Load!ResetInOrder, Load!AllFrozen, Load!ClearedInOrder,
     Load!LoadedInOrder, Load!Loaded, Load!Resetting, Load!Waiting

\* A poll goes on, begins again or gives up.
LEMMA PollInvariance ==
  ASSUME Load!LInv, NEW ok, NEW label \in {"ipend", "ilat", "status"}, NEW next \in Load!Waiting,
         Load!Poll(label, ok, next)
  PROVE  Load!LInv'
<1>1. lpc = label /\ UNCHANGED <<cur, signals, core>> /\ (lpc' \in Load!Waiting \/ lpc' = "failed")
  BY DEF Load!Poll, Load!At, Load!Goto, Load!Waiting
<1>2. lpc \in Load!Waiting /\ lpc \in Load!Resetting
  BY <1>1 DEF Load!Waiting, Load!Resetting
<1>3. core[cur] \in Load!CoreState /\ Load!UnderReset(cur) /\ core = [core EXCEPT ![cur] = core[cur]]
  BY <1>2, AtCore
<1>4. CASE lpc' \in Load!Waiting
  <2>1. ResetOf(core[cur])
    BY <1>1, <1>2, <1>3, <1>4 DEF ResetOf, Load!Resetting
  <2>2. Load!UnderReset(cur)'
    BY <1>1, <1>2, <1>3, <1>4 DEF Load!UnderReset, Load!Waiting
  <2>. QED
    BY <2>1, <2>2, ResetInvariance
<1>5. CASE lpc' = "failed"
  BY <1>1, <1>5, FailInvariance
<1>. QED
  BY <1>1, <1>4, <1>5

\* FSTATUS, PC and IRET are set to 0.
LEMMA ResetRegsInvariance ==
  ASSUME Load!LInv, Load!ResetRegs
  PROVE  Load!LInv'
<1>. DEFINE s == [core[cur] EXCEPT !.run = "idle", !.gid = FALSE]
<1>1. lpc = "fstatus" /\ lpc' = "imask" /\ UNCHANGED <<cur, signals>> /\ core' = [core EXCEPT ![cur] = s]
  BY DEF Load!ResetRegs, Load!At, Load!Goto, Load!LInv, Load!TypeOK
<1>2. cur \in Load!Cores /\ core[cur] \in Load!CoreState /\ Load!UnderReset(cur)
  BY <1>1, AtCore DEF Load!Resetting, Load!Waiting
<1>3. s \in Load!CoreState /\ core'[cur] = s
  BY <1>1, <1>2 DEF Load!CoreState, Load!LInv, Load!TypeOK
<1>4. ResetOf(s)
  BY <1>1, <1>3 DEF ResetOf, Load!Resetting, Load!Waiting
<1>5. Load!UnderReset(cur)'
  BY <1>1, <1>2, <1>3, ZenonT(60) DEF Load!UnderReset, Load!Waiting, Load!CoreState
<1>. QED
  BY <1>4, <1>5, ResetInvariance

\* Only SYNC is let through.
LEMMA MaskIrqsInvariance ==
  ASSUME Load!LInv, Load!MaskIrqs
  PROVE  Load!LInv'
<1>. DEFINE s == [core[cur] EXCEPT !.imask = "sync only"]
<1>1. lpc = "imask" /\ lpc' = "ilatcl" /\ UNCHANGED <<cur, signals>> /\ core' = [core EXCEPT ![cur] = s]
  BY DEF Load!MaskIrqs, Load!At, Load!Goto, Load!Set, Load!LInv, Load!TypeOK
<1>2. cur \in Load!Cores /\ core[cur] \in Load!CoreState /\ Load!UnderReset(cur)
  BY <1>1, AtCore DEF Load!Resetting, Load!Waiting
<1>3. s \in Load!CoreState /\ core'[cur] = s
  BY <1>1, <1>2 DEF Load!CoreState, Load!LInv, Load!TypeOK
<1>4. ResetOf(s)
  BY <1>1, <1>3 DEF ResetOf, Load!Resetting, Load!Waiting
<1>5. Load!UnderReset(cur)'
  BY <1>1, <1>2, <1>3 DEF Load!UnderReset, Load!Waiting, Load!CoreState
<1>. QED
  BY <1>4, <1>5, ResetInvariance

\* The core has been reset; the next one, or all memories are cleared.
LEMMA ClearIrqsInvariance ==
  ASSUME Load!LInv, Load!ClearIrqs
  PROVE  Load!LInv'
<1>. DEFINE s == [core[cur] EXCEPT !.ilat = {}]
<1>1. lpc = "ilatcl" /\ core' = [core EXCEPT ![cur] = s] /\ Load!NextCore("halt", "clear")
  BY DEF Load!ClearIrqs, Load!At, Load!Set, Load!LInv, Load!TypeOK
<1>2. cur \in Load!Cores /\ core[cur] \in Load!CoreState /\ Load!UnderReset(cur)
  BY <1>1, AtCore DEF Load!Resetting, Load!Waiting
<1>3. s \in Load!CoreState /\ Load!OnPayload(cur)
  BY <1>1, <1>2 DEF Load!CoreState, Load!UnderReset, Load!Waiting, Load!OnPayload, Load!Quiet
<1>4. /\ core' \in [Load!Cores -> Load!CoreState] /\ core'[cur] = s
      /\ \A d \in Load!Cores : d # cur => core'[d] = core[d]
  BY <1>1, <1>2, <1>3, SetTypes DEF Load!LInv
<1>5. \A d \in Load!Cores :
        /\ Load!Untouched(d) => Load!Untouched(d)'
        /\ Load!OnPayload(d) => Load!OnPayload(d)'
  <2>1. /\ core'[cur].code = core[cur].code /\ core'[cur].low = core[cur].low
        /\ core'[cur].dma = core[cur].dma /\ core'[cur].ext = core[cur].ext
    BY <1>2, <1>4 DEF Load!CoreState
  <2>. HIDE DEF s
  <2>. QED
    BY <1>4, <2>1 DEF Load!Untouched, Load!OnPayload, Load!Quiet
<1>6. \A d \in Load!Cores :
        /\ d < cur \/ d = cur => Load!OnPayload(d)'
        /\ d > cur => Load!Untouched(d)'
  BY <1>1, <1>2, <1>3, <1>5 DEF Load!LInv, Load!ResetInOrder, Load!Resetting, Load!Waiting, Load!Cores
<1>7. /\ cur' \in Load!Cores /\ signals' \in 0 .. MaxSignals
      /\ \/ cur + 1 \in Load!Cores /\ cur' = cur + 1 /\ lpc' = "halt"
         \/ cur + 1 = LoadCores /\ cur' = 0 /\ lpc' = "clear"
  BY <1>1, NextCoreTypes DEF Load!LInv
<1>8. Load!TypeOK'
  BY <1>4, <1>7 DEF Load!LInv, Load!TypeOK
<1>9. CASE cur' = cur + 1 /\ lpc' = "halt"
  <2>1. \A d \in Load!Cores : d = cur' => Load!UnderReset(d)'
    BY <1>2, <1>6, <1>9 DEF Load!UnderReset, Load!Untouched, Load!Waiting, Load!Cores
  <2>2. Load!ResetInOrder'
    <3>. SUFFICES ASSUME NEW c \in Load!Cores
                  PROVE  (IF c < cur THEN Load!OnPayload(c) ELSE IF c = cur THEN Load!UnderReset(c) ELSE Load!Untouched(c))'
      BY DEF Load!ResetInOrder
    <3>1. c < cur' => (c < cur \/ c = cur)
      BY <1>2, <1>9 DEF Load!Cores
    <3>2. ~(c < cur') /\ c # cur' => c > cur
      BY <1>2, <1>9 DEF Load!Cores
    <3>. QED
      BY <1>6, <2>1, <3>1, <3>2
  <2>. QED
    BY <1>8, <1>9, <2>2 DEF Load!LInv, Load!Unstarted, Load!AllFrozen, Load!ClearedInOrder,
       Load!LoadedInOrder, Load!Loaded, Load!GaveUp
<1>10. CASE cur + 1 = LoadCores /\ cur' = 0 /\ lpc' = "clear"
  <2>1. \A d \in Load!Cores : Load!OnPayload(d)'
    BY <1>2, <1>6, <1>10, LoadConstants DEF Load!Cores
  <2>2. Load!ClearedInOrder' /\ Load!AllFrozen'
    <3>1. \A d \in Load!Cores : ~(d < cur') /\ core'[d].low = "payload"
      BY <1>10, <2>1 DEF Load!OnPayload, Load!Cores
    <3>. QED
      BY <1>10, <2>1, <3>1 DEF Load!ClearedInOrder, Load!AllFrozen
  <2>. QED
    BY <1>8, <1>10, <2>2 DEF Load!LInv, Load!Unstarted, Load!ResetInOrder, Load!Resetting, Load!Waiting,
       Load!LoadedInOrder, Load!Loaded, Load!GaveUp
<1>. QED
  BY <1>7, <1>9, <1>10

\* The load begins.
LEMMA LoadInvariance ==
  ASSUME Load!LInv, Load!Load
  PROVE  Load!LInv'
<1>1. lpc = "idle" /\ lpc' = "halt" /\ UNCHANGED <<cur, signals, core>>
  BY DEF Load!Load, Load!At, Load!Goto
<1>2. Load!TypeOK'
  BY <1>1 DEF Load!LInv, Load!TypeOK
<1>3. cur = 0 /\ \A c \in Load!Cores : Load!Untouched(c)'
  BY <1>1 DEF Load!LInv, Load!Unstarted, Load!Untouched
<1>4. \A c \in Load!Cores : Load!UnderReset(c)' /\ ~(c < cur')
  BY <1>1, <1>3 DEF Load!UnderReset, Load!Untouched, Load!Waiting, Load!Cores
<1>5. Load!ResetInOrder'
  BY <1>3, <1>4 DEF Load!ResetInOrder
<1>. QED
  BY <1>1, <1>2, <1>5 DEF Load!LInv, Load!Unstarted, Load!AllFrozen, Load!ClearedInOrder,
     Load!LoadedInOrder, Load!Loaded, Load!GaveUp

-----------------------------------------------------------------------------
(* The steps of the host: memories, images and the start.                   *)

\* The host changes the memory or the interrupts of the core it is at.
LEMMA AtMemory ==
  ASSUME Load!LInv, NEW s \in Load!CoreState, core' = [core EXCEPT ![cur] = s]
  PROVE  /\ cur \in Load!Cores /\ core[cur] \in Load!CoreState
         /\ core' \in [Load!Cores -> Load!CoreState] /\ core'[cur] = s
         /\ \A d \in Load!Cores : d # cur => core'[d] = core[d]
  BY SetTypes DEF Load!LInv, Load!TypeOK

\* A memory is cleared, of a group in which nothing moves.
LEMMA ClearSramInvariance ==
  ASSUME Load!LInv, Load!ClearSram
  PROVE  Load!LInv'
<1>. DEFINE s == [core[cur] EXCEPT !.low = "clear", !.rest = "clear"]
<1>1. lpc = "clear" /\ core' = [core EXCEPT ![cur] = s] /\ Load!NextCore("clear", "load")
  BY DEF Load!ClearSram, Load!At, Load!LInv, Load!TypeOK
<1>2. \A c \in Load!Cores : Load!Frozen(c)
  BY <1>1 DEF Load!ClearSram, Load!PayloadIsShort, Load!LInv, Load!AllFrozen, Load!OnPayload, Load!Frozen
<1>3. s \in Load!CoreState /\ cur \in Load!Cores
  BY ZenonT(60) DEF Load!LInv, Load!TypeOK, Load!CoreState
<1>4. /\ core' \in [Load!Cores -> Load!CoreState] /\ core'[cur] = s
      /\ \A d \in Load!Cores : d # cur => core'[d] = core[d]
  BY <1>1, <1>3, AtMemory
<1>5. core[cur] \in Load!CoreState
  BY <1>3 DEF Load!LInv, Load!TypeOK
<1>6. \A c \in Load!Cores : Load!Frozen(c)'
  <2>1. /\ core'[cur].code = core[cur].code /\ core'[cur].run = core[cur].run
        /\ core'[cur].dma = core[cur].dma /\ core'[cur].ext = core[cur].ext
        /\ core'[cur].ilat = core[cur].ilat /\ core'[cur].imask = core[cur].imask
    BY <1>4, <1>5 DEF Load!CoreState
  <2>. HIDE DEF s
  <2>. QED
    BY <1>2, <1>4, <2>1 DEF Load!Frozen, Load!Quiet, Load!Open
<1>7. /\ cur' \in Load!Cores /\ signals' \in 0 .. MaxSignals
      /\ \/ cur + 1 \in Load!Cores /\ cur' = cur + 1 /\ lpc' = "clear"
         \/ cur + 1 = LoadCores /\ cur' = 0 /\ lpc' = "load"
  BY <1>1, NextCoreTypes DEF Load!LInv
<1>8. Load!TypeOK'
  BY <1>4, <1>7 DEF Load!LInv, Load!TypeOK
<1>9. \A c \in Load!Cores :
        /\ c < cur \/ c = cur => Load!Holds(c, "clear", "clear")'
        /\ c > cur => core'[c].low = "payload"
  <2>1. core'[cur].low = "clear" /\ core'[cur].rest = "clear"
    BY <1>4, <1>5 DEF Load!CoreState
  <2>. HIDE DEF s
  <2>. QED
    BY <1>1, <1>3, <1>4, <2>1 DEF Load!LInv, Load!ClearedInOrder, Load!Holds, Load!Cores
<1>10. Load!ClearedInOrder'
  <2>. SUFFICES ASSUME lpc' = "clear", NEW c \in Load!Cores
                PROVE  (IF c < cur THEN Load!Holds(c, "clear", "clear") ELSE core[c].low = "payload")'
    BY DEF Load!ClearedInOrder
  <2>1. cur' = cur + 1
    BY <1>7
  <2>2. IF c < cur' THEN c < cur \/ c = cur ELSE c > cur
    BY <1>3, <2>1 DEF Load!Cores
  <2>. QED
    BY <1>9, <2>2
<1>11. Load!LoadedInOrder'
  <2>. SUFFICES ASSUME lpc' = "load", NEW c \in Load!Cores
                PROVE  ~(c < cur') /\ Load!Holds(c, "clear", "clear")'
    BY <1>7 DEF Load!LoadedInOrder
  <2>1. cur + 1 = LoadCores /\ cur' = 0
    BY <1>7
  <2>2. ~(c < cur') /\ (c < cur \/ c = cur)
    BY <1>3, <2>1, LoadConstants DEF Load!Cores
  <2>. QED
    BY <1>9, <2>2
<1>. QED
  BY <1>6, <1>7, <1>8, <1>10, <1>11 DEF Load!LInv, Load!Unstarted, Load!ResetInOrder, Load!AllFrozen,
     Load!Loaded, Load!GaveUp, Load!Resetting, Load!Waiting

\* The segments are written into a cleared memory.
LEMMA ProcessElfInvariance ==
  ASSUME Load!LInv, Load!ProcessElf
  PROVE  Load!LInv'
<1>. DEFINE s == [core[cur] EXCEPT !.low = "image", !.rest = IF core[cur].rest = "clear" THEN "segments" ELSE "spoilt"]
<1>1. lpc = "load" /\ lpc' = "config" /\ UNCHANGED <<cur, signals>> /\ core' = [core EXCEPT ![cur] = s]
  BY DEF Load!ProcessElf, Load!At, Load!Goto, Load!LInv, Load!TypeOK
<1>2. cur \in Load!Cores /\ core[cur] \in Load!CoreState
  BY DEF Load!LInv, Load!TypeOK
<1>3. s \in Load!CoreState
  BY <1>2 DEF Load!CoreState
<1>4. /\ core' \in [Load!Cores -> Load!CoreState] /\ core'[cur] = s
      /\ \A d \in Load!Cores : d # cur => core'[d] = core[d]
  BY <1>1, <1>3, AtMemory
<1>5. Load!TypeOK'
  BY <1>1, <1>4 DEF Load!LInv, Load!TypeOK
<1>6. /\ core'[cur].code = core[cur].code /\ core'[cur].run = core[cur].run
      /\ core'[cur].dma = core[cur].dma /\ core'[cur].ext = core[cur].ext
      /\ core'[cur].ilat = core[cur].ilat /\ core'[cur].imask = core[cur].imask
  BY <1>2, <1>4 DEF Load!CoreState
<1>7. core[cur].rest = "clear" => Load!Holds(cur, "image", "segments")'
  BY <1>1, <1>2, <1>4 DEF Load!CoreState, Load!Holds
<1>. HIDE DEF s
<1>8. \A c \in Load!Cores : Load!Frozen(c)'
  <2>1. \A c \in Load!Cores : Load!Frozen(c)
    BY <1>1 DEF Load!LInv, Load!AllFrozen
  <2>. QED
    BY <1>4, <1>6, <2>1 DEF Load!Frozen, Load!Quiet, Load!Open
<1>9. Load!LoadedInOrder'
  <2>1. ~(cur < cur)
    BY <1>2 DEF Load!Cores
  <2>2. Load!Holds(cur, "image", "segments")'
    BY <1>1, <1>2, <1>7, <2>1 DEF Load!LInv, Load!LoadedInOrder, Load!Holds
  <2>. QED
    BY <1>1, <1>4, <2>1, <2>2 DEF Load!LInv, Load!LoadedInOrder, Load!Holds
<1>. QED
  BY <1>1, <1>5, <1>8, <1>9 DEF Load!LInv, Load!Unstarted, Load!ResetInOrder, Load!AllFrozen,
     Load!ClearedInOrder, Load!Loaded, Load!GaveUp, Load!Resetting, Load!Waiting

\* The core holds all of the program; the next one, or the group is started.
LEMMA SetCoreConfigInvariance ==
  ASSUME Load!LInv, Load!SetCoreConfig
  PROVE  Load!LInv'
<1>. DEFINE s == [core[cur] EXCEPT !.rest = IF core[cur].rest = "segments" THEN "image" ELSE "spoilt"]
<1>1. lpc = "config" /\ core' = [core EXCEPT ![cur] = s] /\ Load!NextCore("load", "start")
  BY DEF Load!SetCoreConfig, Load!At, Load!Set, Load!LInv, Load!TypeOK
<1>2. cur \in Load!Cores /\ core[cur] \in Load!CoreState
  BY DEF Load!LInv, Load!TypeOK
<1>3. s \in Load!CoreState
  BY <1>2 DEF Load!CoreState
<1>4. /\ core' \in [Load!Cores -> Load!CoreState] /\ core'[cur] = s
      /\ \A d \in Load!Cores : d # cur => core'[d] = core[d]
  BY <1>1, <1>3, AtMemory
<1>5. /\ cur' \in Load!Cores /\ signals' \in 0 .. MaxSignals
      /\ \/ cur + 1 \in Load!Cores /\ cur' = cur + 1 /\ lpc' = "load"
         \/ cur + 1 = LoadCores /\ cur' = 0 /\ lpc' = "start"
  BY <1>1, NextCoreTypes DEF Load!LInv
<1>6. Load!TypeOK'
  BY <1>4, <1>5 DEF Load!LInv, Load!TypeOK
<1>7. /\ core'[cur].code = core[cur].code /\ core'[cur].run = core[cur].run
      /\ core'[cur].dma = core[cur].dma /\ core'[cur].ext = core[cur].ext
      /\ core'[cur].ilat = core[cur].ilat /\ core'[cur].imask = core[cur].imask
  BY <1>2, <1>4 DEF Load!CoreState
<1>8. /\ core'[cur].low = core[cur].low
      /\ core[cur].rest = "segments" => core'[cur].rest = "image"
  BY <1>2, <1>4 DEF Load!CoreState
<1>. HIDE DEF s
<1>9. \A c \in Load!Cores : Load!Frozen(c)'
  <2>1. \A c \in Load!Cores : Load!Frozen(c)
    BY <1>1 DEF Load!LInv, Load!AllFrozen
  <2>. QED
    BY <1>4, <1>7, <2>1 DEF Load!Frozen, Load!Quiet, Load!Open
<1>10. \A c \in Load!Cores :
         /\ c < cur \/ c = cur => Load!Holds(c, "image", "image")'
         /\ c > cur => Load!Holds(c, "clear", "clear")'
  <2>1. ~(cur < cur)
    BY <1>2 DEF Load!Cores
  <2>2. core'[cur].low = "image" /\ core'[cur].rest = "image"
    BY <1>1, <1>2, <1>8, <2>1 DEF Load!LInv, Load!LoadedInOrder, Load!Holds
  <2>3. \A c \in Load!Cores : c < cur => c # cur
    BY <1>2 DEF Load!Cores
  <2>4. \A c \in Load!Cores : c > cur => c # cur /\ ~(c < cur)
    BY <1>2 DEF Load!Cores
  <2>. QED
    BY <1>1, <1>4, <2>2, <2>3, <2>4 DEF Load!LInv, Load!LoadedInOrder, Load!Holds
<1>11. CASE cur' = cur + 1 /\ lpc' = "load"
  <2>1. Load!LoadedInOrder'
    <3>. SUFFICES ASSUME NEW c \in Load!Cores
                  PROVE  (IF c < cur THEN Load!Holds(c, "image", "image") ELSE Load!Holds(c, "clear", "clear"))'
      BY <1>11 DEF Load!LoadedInOrder
    <3>1. IF c < cur' THEN c < cur \/ c = cur ELSE c > cur
      BY <1>2, <1>11 DEF Load!Cores
    <3>. QED
      BY <1>10, <3>1
  <2>. QED
    BY <1>6, <1>9, <1>11, <2>1 DEF Load!LInv, Load!Unstarted, Load!ResetInOrder, Load!AllFrozen,
       Load!ClearedInOrder, Load!Loaded, Load!GaveUp, Load!Resetting, Load!Waiting
<1>12. CASE cur + 1 = LoadCores /\ cur' = 0 /\ lpc' = "start"
  <2>1. \A c \in Load!Cores : c < cur \/ c = cur
    BY <1>2, <1>12, LoadConstants DEF Load!Cores
  <2>2. Load!Loaded'
    BY <1>9, <1>10, <2>1 DEF Load!Loaded, Load!Frozen
  <2>. QED
    BY <1>6, <1>12, <2>2 DEF Load!LInv, Load!Unstarted, Load!ResetInOrder, Load!AllFrozen,
       Load!ClearedInOrder, Load!LoadedInOrder, Load!GaveUp, Load!Resetting, Load!Waiting
<1>. QED
  BY <1>5, <1>11, <1>12

\* A core is started, when all hold the program.
LEMMA StartInvariance ==
  ASSUME Load!LInv, Load!Start
  PROVE  Load!LInv'
<1>. DEFINE s == [core[cur] EXCEPT !.ilat = core[cur].ilat \cup {"sync"}]
<1>1. lpc = "start" /\ core' = [core EXCEPT ![cur] = s] /\ Load!NextCore("start", "started")
  BY DEF Load!Start, Load!At, Load!Set, Load!LInv, Load!TypeOK
<1>2. cur \in Load!Cores /\ core[cur] \in Load!CoreState
  BY DEF Load!LInv, Load!TypeOK
<1>3. s \in Load!CoreState
  BY <1>2 DEF Load!CoreState
<1>4. /\ core' \in [Load!Cores -> Load!CoreState] /\ core'[cur] = s
      /\ \A d \in Load!Cores : d # cur => core'[d] = core[d]
  BY <1>1, <1>3, AtMemory
<1>5. cur' \in Load!Cores /\ signals' \in 0 .. MaxSignals /\ lpc' \in {"start", "started"}
  BY <1>1, NextCoreTypes DEF Load!LInv
<1>6. Load!TypeOK'
  BY <1>4, <1>5 DEF Load!LInv, Load!TypeOK
<1>7. /\ core'[cur].code = core[cur].code /\ core'[cur].dma = core[cur].dma /\ core'[cur].ext = core[cur].ext
      /\ core'[cur].low = core[cur].low /\ core'[cur].rest = core[cur].rest
  BY <1>2, <1>4 DEF Load!CoreState
<1>. HIDE DEF s
<1>8. Load!Loaded'
  BY <1>1, <1>4, <1>7 DEF Load!LInv, Load!Loaded, Load!Holds, Load!Quiet
<1>. QED
  BY <1>5, <1>6, <1>8 DEF Load!LInv, Load!Unstarted, Load!ResetInOrder, Load!AllFrozen,
     Load!ClearedInOrder, Load!LoadedInOrder, Load!GaveUp, Load!Resetting, Load!Waiting

-----------------------------------------------------------------------------
(* The theorems.                                                            *)

\* Before the load every core is as its last program left it.
LEMMA LoadInit == Load!Init => Load!LInv
<1>. SUFFICES ASSUME Load!Init PROVE Load!LInv
  OBVIOUS
<1>1. PICK run \in [Load!Cores -> {"running", "idle", "halted"}], dma \in [Load!Cores -> BOOLEAN],
           ipend \in [Load!Cores -> BOOLEAN] :
        core = [c \in Load!Cores |-> Load!Left(run[c], FALSE, dma[c], ipend[c])]
  BY DEF Load!Init
<1>2. lpc = "idle" /\ cur = 0 /\ signals = 0
  BY DEF Load!Init
<1>3. \A c \in Load!Cores : core[c] \in Load!CoreState /\ Load!Untouched(c)
  BY <1>1 DEF Load!Left, Load!CoreState, Load!Untouched
<1>4. Load!TypeOK
  <2>1. core \in [Load!Cores -> Load!CoreState]
    BY <1>1, <1>3
  <2>. QED
    BY <1>2, <2>1, LoadConstants DEF Load!TypeOK, Load!Cores
<1>. QED
  BY <1>2, <1>3, <1>4 DEF Load!LInv, Load!Unstarted, Load!ResetInOrder, Load!AllFrozen,
     Load!ClearedInOrder, Load!LoadedInOrder, Load!Loaded, Load!GaveUp, Load!Resetting, Load!Waiting

\* Every step of the load keeps LInv.
LEMMA LoadNext == Load!LInv /\ Load!Next => Load!LInv'
<1>. SUFFICES ASSUME Load!LInv, Load!Next PROVE Load!LInv'
  OBVIOUS
<1>1. CASE Load!OldStep
  BY <1>1, ExternalReadInvariance, ReadEndsInvariance, OldStopsInvariance, DmaEndsInvariance,
     OldWriteInvariance, OldSignalInvariance DEF Load!OldStep
<1>2. CASE \E c \in Load!Cores : Load!CoreStep(c)
  BY <1>2, TakeIrqInvariance, PayloadInvariance DEF Load!CoreStep
<1>3. CASE Load!SoftResetCore
  <2>1. CASE Load!FetchStuck \/ Load!DmaStuck
    BY <2>1, FailInvariance DEF Load!FetchStuck, Load!DmaStuck, Load!At, Load!Fail
  <2>2. CASE Load!PollIpend
    BY <2>2, PollInvariance DEF Load!PollIpend, Load!Waiting
  <2>3. CASE Load!PollIlat
    BY <2>3, PollInvariance DEF Load!PollIlat, Load!Waiting
  <2>4. CASE Load!PollStatus
    BY <2>4, PollInvariance DEF Load!PollStatus, Load!Waiting
  <2>. QED
    BY <1>3, <2>1, <2>2, <2>3, <2>4, HaltInvariance, FetchInvariance, ResetDmaInvariance, RegistersInvariance,
       WritePayloadInvariance, ResumeInvariance, ResetRegsInvariance, MaskIrqsInvariance, ClearIrqsInvariance
       DEF Load!SoftResetCore
<1>4. CASE Load!BadElf
  BY <1>4, FailInvariance DEF Load!BadElf, Load!At, Load!Fail
<1>. QED
  BY <1>1, <1>2, <1>3, <1>4, LoadInvariance, ClearSramInvariance, ProcessElfInvariance, SetCoreConfigInvariance,
     StartInvariance DEF Load!Next, Load!Host

\* What the invariant says of what a core executes.
LEMMA ImageRuns ==
  ASSUME Load!LInv, NEW c \in Load!Cores
  PROVE  /\ core[c].code # "wild"
         /\ core[c].code = "image" => lpc \in {"start", "started"}
         /\ core[c].code # "old" => ~core[c].ext
<1>1. lpc \in {"idle", "failed", "clear", "load", "config", "start", "started"} \/ lpc \in Load!Resetting
  BY DEF Load!LInv, Load!TypeOK, Load!Resetting, Load!Waiting
<1>2. CASE lpc \in Load!Resetting
  BY <1>2 DEF Load!LInv, Load!ResetInOrder, Load!UnderReset, Load!Untouched, Load!OnPayload, Load!Quiet, Load!Waiting
<1>3. CASE lpc \in {"idle", "failed", "clear", "load", "config"}
  BY <1>3 DEF Load!LInv, Load!Unstarted, Load!AllFrozen, Load!GaveUp, Load!Untouched, Load!OnPayload,
     Load!Frozen, Load!Quiet
<1>4. CASE lpc \in {"start", "started"}
  BY <1>4 DEF Load!LInv, Load!Loaded, Load!Quiet
<1>. QED
  BY <1>1, <1>2, <1>3, <1>4

\* Whatever the group does LInv holds: the barrier leaves the load alone.
THEOREM LoadInvariant == MCSpec => []Load!LInv
<1>1. MCInit => Load!LInv
  <2>. SUFFICES ASSUME MCInit PROVE Load!Init
    BY LoadInit
  <2>. QED
    BY DEF MCInit, NoLoad
<1>2. Load!LInv /\ [MCNext]_<<part, vars, loadVars>> => Load!LInv'
  <2>. SUFFICES ASSUME Load!LInv, [MCNext]_<<part, vars, loadVars>> PROVE Load!LInv'
    OBVIOUS
  <2>1. CASE Load!Next
    BY <2>1, LoadNext
  <2>2. CASE UNCHANGED loadVars
    BY <2>2 DEF loadVars, Load!LInv, Load!TypeOK, Load!Unstarted, Load!ResetInOrder, Load!AllFrozen,
       Load!ClearedInOrder, Load!LoadedInOrder, Load!Loaded, Load!GaveUp, Load!Untouched, Load!OnPayload,
       Load!UnderReset, Load!Frozen, Load!Quiet, Load!Open, Load!Holds
  <2>. QED
    BY <2>1, <2>2 DEF MCNext
<1>. QED
  BY <1>1, <1>2, PTL DEF MCSpec

\* e_load_group: a core runs the new program only when every core of the group
\* holds all of it, for every number of cores and whatever their old programs,
\* transfers and interrupts do during the load.
THEOREM ProgramComplete == MCSpec => []StartsComplete
<1>1. Load!LInv => StartsComplete
  <2>. SUFFICES ASSUME Load!LInv, NEW c \in Load!Cores, core[c].code = "image"
                PROVE  \A d \in Load!Cores : core[d].low = "image" /\ core[d].rest = "image"
    BY DEF StartsComplete, Load!StartsComplete
  <2>1. lpc \in {"start", "started"}
    BY ImageRuns
  <2>. QED
    BY <2>1 DEF Load!LInv, Load!Loaded, Load!Holds
<1>. QED
  BY <1>1, LoadInvariant, PTL

\* ee_soft_reset_core and e_load_group: no core executes cleared memory or a
\* program that has not been started, and none is reset during an outside read.
THEOREM NothingWild == MCSpec => []NeverWild
<1>1. Load!LInv => NeverWild
  BY ImageRuns DEF NeverWild, Load!LInv, Load!NeverWild, Load!NoResetDuringRead
<1>. QED
  BY <1>1, LoadInvariant, PTL
-----------------------------------------------------------------------------
(* The barrier.                                                             *)

\* How many arrivals of core c core 0 has cleared, and how many releases it
\* has posted to c.
Cleared(c) ==
  IF pc0 = "release" \/ (pc0 = "clear" /\ c < idx)
  THEN returns[0] + 1 ELSE returns[0]
Served(c) ==
  IF pc0 = "release" /\ c < idx THEN returns[0] + 1 ELSE returns[0]

Pointers ==
  /\ pc0 # "start" => flagPtr = [k \in Cores |-> k]
  /\ \A c \in Others : pc[c] # "start" => slotPtr[c] = c

Running ==
  /\ pc0 \in {"start", "idle"} => calls[0] = returns[0]
  /\ pc0 \in {"poll", "clear", "release"} => calls[0] = returns[0] + 1
  /\ \A c \in Others :
       /\ pc[c] \in {"start", "idle"} => calls[c] = returns[c]
       /\ pc[c] \in {"wait", "clearOwn"} => calls[c] = returns[c] + 1

Arrivals   == \A c \in Others : calls[c] = Cleared(c) + slot[c] + slotStore[c]
Departures == \A c \in Others : Served(c) = returns[c] + flag[c] + flagStore[c]

Loops ==
  /\ pc0 \in {"poll", "release"} => idx >= 1
  /\ pc0 = "poll" => \A c \in Others : c < idx => slot[c] = 1
  /\ pc0 = "clear" => \A c \in Others : idx <= c => slot[c] = 1
  /\ pc0 = "clear" /\ idx > 0 => slot[0] = 0
  /\ pc0 \in {"start", "idle", "release"} => slot[0] = 0

Seen == \A c \in Others : pc[c] = "clearOwn" => flag[c] = 1

IInv ==
  /\ TypeOK
  /\ Pointers
  /\ Running
  /\ Arrivals
  /\ Departures
  /\ Loops
  /\ Seen

-----------------------------------------------------------------------------
\* What the proofs use of the numbering of the cores.
LEMMA CoreFacts ==
  /\ NumCores \in Nat /\ NumCores >= 1
  /\ 0 \in Cores
  /\ Others \subseteq Cores
  /\ \A c \in Cores : c \in Nat /\ c < NumCores
  /\ \A c \in Others : c # 0 /\ c \in Nat /\ c >= 1 /\ c < NumCores
  /\ \A i \in Nat : i < NumCores => i \in Cores
  /\ \A i \in Nat : i < NumCores /\ i >= 1 => i \in Others
  /\ \A i \in 0 .. NumCores : i \in Nat /\ i <= NumCores
  /\ \A c \in Cores : c = 0 \/ c \in Others
  BY NumCoresAssumption DEF Cores, Others

USE CoreFacts DEF NoCore

\* The initial states satisfy the inductive invariant.
LEMMA InitInv == Init => IInv
<1> SUFFICES ASSUME Init PROVE IInv
  OBVIOUS
<1>1. TypeOK
  BY DEF Init, TypeOK
<1>2. Pointers /\ Loops /\ Seen /\ Running
  BY DEF Init, Pointers, Loops, Seen, Running
<1>3. Arrivals /\ Departures
  BY DEF Init, Arrivals, Departures, Cleared, Served
<1>4. QED
  BY <1>1, <1>2, <1>3 DEF IInv

\* For each core other than core 0 there is at most one signal: in its slot on
\* core 0, in the mesh, or in its own flag.
LEMMA OneSignal ==
  ASSUME IInv, NEW c \in Others
  PROVE  slot[c] + slotStore[c] + flag[c] + flagStore[c] <= 1
<1>1. Served(c) <= Cleared(c) /\ Served(c) \in Nat /\ Cleared(c) \in Nat
  BY DEF IInv, TypeOK, Served, Cleared
<1>2. calls[c] <= returns[c] + 1
  BY DEF IInv, TypeOK, Running
<1>3. calls[c] = Cleared(c) + slot[c] + slotStore[c]
  BY DEF IInv, Arrivals
<1>4. Served(c) = returns[c] + flag[c] + flagStore[c]
  BY DEF IInv, Departures
<1>5. /\ slot[c] \in Nat /\ slotStore[c] \in Nat /\ flag[c] \in Nat
      /\ flagStore[c] \in Nat /\ calls[c] \in Nat /\ returns[c] \in Nat
  BY DEF IInv, TypeOK
<1> QED
  BY <1>1, <1>2, <1>3, <1>4, <1>5

\* Every step preserves the inductive invariant.
LEMMA NextInv == IInv /\ [Next]_vars => IInv'
<1> SUFFICES ASSUME IInv, [Next]_vars PROVE IInv'
  OBVIOUS
<1> USE DEF IInv
<1>1. CASE InitFirst
  <2>1. TypeOK'
    BY <1>1 DEF InitFirst, FlagAddresses, TypeOK, Pointers
  <2>2. Pointers'
    BY <1>1 DEF InitFirst, FlagAddresses, TypeOK, Pointers
  <2>3. Running'
    BY <1>1 DEF InitFirst, FlagAddresses, TypeOK, Running
  <2>4. Arrivals'
    BY <1>1 DEF InitFirst, FlagAddresses, TypeOK, Cleared, Pointers, Loops, Running, Arrivals
  <2>5. Departures'
    BY <1>1 DEF InitFirst, FlagAddresses, TypeOK, Served, Pointers, Seen, Loops, Running, Departures
  <2>6. Loops'
    BY <1>1 DEF InitFirst, FlagAddresses, TypeOK, Loops
  <2>7. Seen'
    BY <1>1 DEF InitFirst, FlagAddresses, TypeOK, Seen
  <2> QED
    BY <2>1, <2>2, <2>3, <2>4, <2>5, <2>6, <2>7
<1>2. ASSUME NEW c \in Others, InitOther(c) PROVE IInv'
  <2>1. TypeOK'
    BY <1>2 DEF InitOther, TypeOK, Pointers
  <2>2. Pointers'
    BY <1>2 DEF InitOther, TypeOK, Pointers
  <2>3. Running'
    BY <1>2 DEF InitOther, TypeOK, Running
  <2>4. Arrivals'
    BY <1>2 DEF InitOther, TypeOK, Cleared, Pointers, Loops, Running, Arrivals
  <2>5. Departures'
    BY <1>2 DEF InitOther, TypeOK, Served, Pointers, Seen, Loops, Running, Departures
  <2>6. Loops'
    BY <1>2 DEF InitOther, TypeOK, Loops
  <2>7. Seen'
    BY <1>2 DEF InitOther, TypeOK, Seen
  <2> QED
    BY <2>1, <2>2, <2>3, <2>4, <2>5, <2>6, <2>7
<1>3. CASE EnterFirst
  <2>1. TypeOK'
    BY <1>3 DEF EnterFirst, TypeOK, Pointers
  <2>2. Pointers'
    BY <1>3 DEF EnterFirst, TypeOK, Pointers
  <2>3. Running'
    BY <1>3 DEF EnterFirst, TypeOK, Running
  <2>4. Arrivals'
    BY <1>3 DEF EnterFirst, TypeOK, Cleared, Pointers, Loops, Running, Arrivals
  <2>5. Departures'
    BY <1>3 DEF EnterFirst, TypeOK, Served, Pointers, Seen, Loops, Running, Departures
  <2>6. Loops'
    BY <1>3 DEF EnterFirst, TypeOK, Loops
  <2>7. Seen'
    BY <1>3 DEF EnterFirst, TypeOK, Seen
  <2> QED
    BY <2>1, <2>2, <2>3, <2>4, <2>5, <2>6, <2>7
<1>4. CASE PollSlot
  <2>1. TypeOK'
    BY <1>4 DEF PollSlot, TypeOK, Pointers
  <2>2. Pointers'
    BY <1>4 DEF PollSlot, TypeOK, Pointers
  <2>3. Running'
    BY <1>4 DEF PollSlot, TypeOK, Running
  <2>4. Arrivals'
    BY <1>4 DEF PollSlot, TypeOK, Cleared, Pointers, Loops, Running, Arrivals
  <2>5. Departures'
    BY <1>4 DEF PollSlot, TypeOK, Served, Pointers, Seen, Loops, Running, Departures
  <2>6. Loops'
    BY <1>4 DEF PollSlot, TypeOK, Loops
  <2>7. Seen'
    BY <1>4 DEF PollSlot, TypeOK, Seen
  <2> QED
    BY <2>1, <2>2, <2>3, <2>4, <2>5, <2>6, <2>7
<1>5. CASE PollDone
  <2>1. TypeOK'
    BY <1>5 DEF PollDone, TypeOK, Pointers
  <2>2. Pointers'
    BY <1>5 DEF PollDone, TypeOK, Pointers
  <2>3. Running'
    BY <1>5 DEF PollDone, TypeOK, Running
  <2>4. Arrivals'
    BY <1>5 DEF PollDone, TypeOK, Cleared, Pointers, Loops, Running, Arrivals
  <2>5. Departures'
    BY <1>5 DEF PollDone, TypeOK, Served, Pointers, Seen, Loops, Running, Departures
  <2>6. Loops'
    BY <1>5 DEF PollDone, TypeOK, Loops
  <2>7. Seen'
    BY <1>5 DEF PollDone, TypeOK, Seen
  <2> QED
    BY <2>1, <2>2, <2>3, <2>4, <2>5, <2>6, <2>7
<1>6. CASE ClearSlot
  <2>1. TypeOK'
    BY <1>6 DEF ClearSlot, TypeOK, Pointers
  <2>2. Pointers'
    BY <1>6 DEF ClearSlot, TypeOK, Pointers
  <2>3. Running'
    BY <1>6 DEF ClearSlot, TypeOK, Running
  <2>4. Arrivals'
    BY <1>6 DEF ClearSlot, TypeOK, Cleared, Pointers, Loops, Running, Arrivals
  <2>5. Departures'
    BY <1>6 DEF ClearSlot, TypeOK, Served, Pointers, Seen, Loops, Running, Departures
  <2>6. Loops'
    BY <1>6 DEF ClearSlot, TypeOK, Loops
  <2>7. Seen'
    BY <1>6 DEF ClearSlot, TypeOK, Seen
  <2> QED
    BY <2>1, <2>2, <2>3, <2>4, <2>5, <2>6, <2>7
<1>7. CASE ClearDone
  <2>1. TypeOK'
    BY <1>7 DEF ClearDone, TypeOK, Pointers
  <2>2. Pointers'
    BY <1>7 DEF ClearDone, TypeOK, Pointers
  <2>3. Running'
    BY <1>7 DEF ClearDone, TypeOK, Running
  <2>4. Arrivals'
    BY <1>7 DEF ClearDone, TypeOK, Cleared, Pointers, Loops, Running, Arrivals
  <2>5. Departures'
    BY <1>7 DEF ClearDone, TypeOK, Served, Pointers, Seen, Loops, Running, Departures
  <2>6. Loops'
    BY <1>7 DEF ClearDone, TypeOK, Loops
  <2>7. Seen'
    BY <1>7 DEF ClearDone, TypeOK, Seen
  <2> QED
    BY <2>1, <2>2, <2>3, <2>4, <2>5, <2>6, <2>7
<1>8. CASE Release
  <2>1. TypeOK'
    <3>1. idx \in Others /\ flagPtr[idx] = idx /\ flagStore[idx] \in Nat
      BY <1>8 DEF Release, TypeOK, Pointers, Loops
    <3>2. flagStore' \in [Others -> Nat]
      BY <1>8, <3>1 DEF Release, TypeOK
    <3> QED
      BY <1>8, <3>2 DEF Release, TypeOK
  <2>2. Pointers'
    BY <1>8 DEF Release, TypeOK, Pointers
  <2>3. Running'
    BY <1>8 DEF Release, TypeOK, Running
  <2>4. Arrivals'
    BY <1>8 DEF Release, TypeOK, Cleared, Pointers, Loops, Running, Arrivals
  <2>5. Departures'
    BY <1>8 DEF Release, TypeOK, Served, Pointers, Seen, Loops, Running, Departures
  <2>6. Loops'
    BY <1>8 DEF Release, TypeOK, Loops
  <2>7. Seen'
    BY <1>8 DEF Release, TypeOK, Seen
  <2> QED
    BY <2>1, <2>2, <2>3, <2>4, <2>5, <2>6, <2>7
<1>9. CASE ReturnFirst
  <2>1. TypeOK'
    BY <1>9 DEF ReturnFirst, TypeOK, Pointers
  <2>2. Pointers'
    BY <1>9 DEF ReturnFirst, TypeOK, Pointers
  <2>3. Running'
    BY <1>9 DEF ReturnFirst, TypeOK, Running
  <2>4. Arrivals'
    BY <1>9 DEF ReturnFirst, TypeOK, Cleared, Pointers, Loops, Running, Arrivals
  <2>5. Departures'
    BY <1>9 DEF ReturnFirst, TypeOK, Served, Pointers, Seen, Loops, Running, Departures
  <2>6. Loops'
    BY <1>9 DEF ReturnFirst, TypeOK, Loops
  <2>7. Seen'
    BY <1>9 DEF ReturnFirst, TypeOK, Seen
  <2> QED
    BY <2>1, <2>2, <2>3, <2>4, <2>5, <2>6, <2>7
<1>10. ASSUME NEW c \in Others, Enter(c) PROVE IInv'
  <2>1. TypeOK'
    BY <1>10 DEF Enter, TypeOK, Pointers
  <2>2. Pointers'
    BY <1>10 DEF Enter, TypeOK, Pointers
  <2>3. Running'
    BY <1>10 DEF Enter, TypeOK, Running
  <2>4. Arrivals'
    BY <1>10 DEF Enter, TypeOK, Cleared, Pointers, Loops, Running, Arrivals
  <2>5. Departures'
    BY <1>10 DEF Enter, TypeOK, Served, Pointers, Seen, Loops, Running, Departures
  <2>6. Loops'
    BY <1>10 DEF Enter, TypeOK, Loops
  <2>7. Seen'
    BY <1>10 DEF Enter, TypeOK, Seen
  <2> QED
    BY <2>1, <2>2, <2>3, <2>4, <2>5, <2>6, <2>7
<1>11. ASSUME NEW c \in Others, SeeRelease(c) PROVE IInv'
  <2>1. TypeOK'
    BY <1>11 DEF SeeRelease, TypeOK, Pointers
  <2>2. Pointers'
    BY <1>11 DEF SeeRelease, TypeOK, Pointers
  <2>3. Running'
    BY <1>11 DEF SeeRelease, TypeOK, Running
  <2>4. Arrivals'
    BY <1>11 DEF SeeRelease, TypeOK, Cleared, Pointers, Loops, Running, Arrivals
  <2>5. Departures'
    BY <1>11 DEF SeeRelease, TypeOK, Served, Pointers, Seen, Loops, Running, Departures
  <2>6. Loops'
    BY <1>11 DEF SeeRelease, TypeOK, Loops
  <2>7. Seen'
    BY <1>11 DEF SeeRelease, TypeOK, Seen
  <2> QED
    BY <2>1, <2>2, <2>3, <2>4, <2>5, <2>6, <2>7
<1>12. ASSUME NEW c \in Others, Leave(c) PROVE IInv'
  <2>1. TypeOK'
    BY <1>12 DEF Leave, TypeOK, Pointers
  <2>2. Pointers'
    BY <1>12 DEF Leave, TypeOK, Pointers
  <2>3. Running'
    BY <1>12 DEF Leave, TypeOK, Running
  <2>4. Arrivals'
    BY <1>12 DEF Leave, TypeOK, Cleared, Pointers, Loops, Running, Arrivals
  <2>5. Departures'
    BY <1>12 DEF Leave, TypeOK, Served, Pointers, Seen, Loops, Running, Departures
  <2>6. Loops'
    BY <1>12 DEF Leave, TypeOK, Loops
  <2>7. Seen'
    BY <1>12 DEF Leave, TypeOK, Seen
  <2> QED
    BY <2>1, <2>2, <2>3, <2>4, <2>5, <2>6, <2>7
<1>13. ASSUME NEW c \in Others, DeliverSlot(c) PROVE IInv'
  <2>1. TypeOK'
    BY <1>13, OneSignal DEF DeliverSlot, TypeOK, Pointers
  <2>2. Pointers'
    BY <1>13, OneSignal DEF DeliverSlot, TypeOK, Pointers
  <2>3. Running'
    BY <1>13, OneSignal DEF DeliverSlot, TypeOK, Running
  <2>4. Arrivals'
    BY <1>13, OneSignal DEF DeliverSlot, TypeOK, Cleared, Pointers, Loops, Running, Arrivals
  <2>5. Departures'
    BY <1>13, OneSignal DEF DeliverSlot, TypeOK, Served, Pointers, Seen, Loops, Running, Departures
  <2>6. Loops'
    BY <1>13, OneSignal DEF DeliverSlot, TypeOK, Loops
  <2>7. Seen'
    BY <1>13, OneSignal DEF DeliverSlot, TypeOK, Seen
  <2> QED
    BY <2>1, <2>2, <2>3, <2>4, <2>5, <2>6, <2>7
<1>14. ASSUME NEW c \in Others, DeliverFlag(c) PROVE IInv'
  <2>1. TypeOK'
    BY <1>14, OneSignal DEF DeliverFlag, TypeOK, Pointers
  <2>2. Pointers'
    BY <1>14, OneSignal DEF DeliverFlag, TypeOK, Pointers
  <2>3. Running'
    BY <1>14, OneSignal DEF DeliverFlag, TypeOK, Running
  <2>4. Arrivals'
    BY <1>14, OneSignal DEF DeliverFlag, TypeOK, Cleared, Pointers, Loops, Running, Arrivals
  <2>5. Departures'
    BY <1>14, OneSignal DEF DeliverFlag, TypeOK, Served, Pointers, Seen, Loops, Running, Departures
  <2>6. Loops'
    BY <1>14, OneSignal DEF DeliverFlag, TypeOK, Loops
  <2>7. Seen'
    BY <1>14, OneSignal DEF DeliverFlag, TypeOK, Seen
  <2> QED
    BY <2>1, <2>2, <2>3, <2>4, <2>5, <2>6, <2>7
<1>15. CASE UNCHANGED vars
  <2>1. TypeOK'
    BY <1>15 DEF vars, TypeOK, Pointers
  <2>2. Pointers'
    BY <1>15 DEF vars, TypeOK, Pointers
  <2>3. Running'
    BY <1>15 DEF vars, TypeOK, Running
  <2>4. Arrivals'
    BY <1>15 DEF vars, TypeOK, Cleared, Pointers, Loops, Running, Arrivals
  <2>5. Departures'
    BY <1>15 DEF vars, TypeOK, Served, Pointers, Seen, Loops, Running, Departures
  <2>6. Loops'
    BY <1>15 DEF vars, TypeOK, Loops
  <2>7. Seen'
    BY <1>15 DEF vars, TypeOK, Seen
  <2> QED
    BY <2>1, <2>2, <2>3, <2>4, <2>5, <2>6, <2>7
<1> QED
  BY <1>1, <1>2, <1>3, <1>4, <1>5, <1>6, <1>7, <1>8, <1>9, <1>10, <1>11, <1>12,
     <1>13, <1>14, <1>15
     DEF Next, Core0Step, OtherStep, MeshStep

\* The inductive invariant holds throughout.
LEMMA Invariance == Spec => []IInv
<1>1. IInv /\ [Next]_vars => IInv'
  BY NextInv
<1> QED
  BY InitInv, <1>1, PTL DEF Spec

-----------------------------------------------------------------------------
\* Type correctness of the barrier, for every group size.
THEOREM TypeCorrect == Spec => []TypeOK
<1>1. IInv => TypeOK
  BY DEF IInv
<1> QED
  BY Invariance, <1>1, PTL

\* In every state that satisfies the invariant, a release that has not been
\* consumed yet was posted after every core had arrived.
LEMMA ServedAfterArrivals ==
  ASSUME IInv, NEW c \in Others, NEW d \in Cores
  PROVE  Served(c) <= calls[d]
<1> USE DEF IInv
<1>1. CASE d = 0
  BY <1>1 DEF TypeOK, Served, Running
<1>2. CASE d \in Others
  <2>1. Served(c) <= Cleared(d) /\ Served(c) \in Nat /\ Cleared(d) \in Nat
    BY <1>2 DEF TypeOK, Served, Cleared
  <2>2. calls[d] = Cleared(d) + slot[d] + slotStore[d]
    BY <1>2 DEF Arrivals
  <2>3. slot[d] \in Nat /\ slotStore[d] \in Nat
    BY <1>2 DEF TypeOK
  <2> QED
    BY <2>1, <2>2, <2>3
<1> QED
  BY <1>1, <1>2

\* No core leaves its k-th barrier before all have entered theirs, whatever the
\* number of cores and however the mesh delays their stores.
THEOREM BarrierSafety == Spec => []NoEarlyReturn
<1>1. ASSUME IInv, NEW c \in Cores, NEW d \in Cores
      PROVE  returns[c] <= calls[d]
  <2> USE <1>1 DEF IInv
  <2>1. CASE c \in Others
    <3>1. Served(c) = returns[c] + flag[c] + flagStore[c]
      BY <2>1 DEF Departures
    <3>2. Served(c) <= calls[d]
      BY <2>1, ServedAfterArrivals
    <3>3. /\ flag[c] \in Nat /\ flagStore[c] \in Nat /\ returns[c] \in Nat
          /\ calls[d] \in Nat /\ Served(c) \in Nat
      BY <2>1 DEF TypeOK, Served
    <3> QED
      BY <3>1, <3>2, <3>3
  <2>2. CASE c = 0 /\ d = 0
    BY <2>2 DEF TypeOK, Running
  <2>3. CASE c = 0 /\ d \in Others
    <3>1. returns[0] <= Cleared(d) /\ Cleared(d) \in Nat /\ returns[0] \in Nat
      BY <2>3 DEF TypeOK, Cleared
    <3>2. calls[d] = Cleared(d) + slot[d] + slotStore[d]
      BY <2>3 DEF Arrivals
    <3>3. slot[d] \in Nat /\ slotStore[d] \in Nat
      BY <2>3 DEF TypeOK
    <3> QED
      BY <2>3, <3>1, <3>2, <3>3
  <2> QED
    BY <2>1, <2>2, <2>3
<1>2. IInv => NoEarlyReturn
  BY <1>1 DEF NoEarlyReturn
<1> QED
  BY Invariance, <1>2, PTL

\* Every delivery finds the slot or flag clear and is the only one under way.
THEOREM SignalsKept == Spec => NoSignalLost
<1>1. ASSUME IInv, NEW c \in Others
      PROVE  /\ DeliverSlot(c) => slot[c] = 0 /\ slotStore[c] = 1
             /\ DeliverFlag(c) => flag[c] = 0 /\ flagStore[c] = 1
  <2>1. slot[c] + slotStore[c] + flag[c] + flagStore[c] <= 1
    BY <1>1, OneSignal
  <2>2. /\ slot[c] \in Nat /\ slotStore[c] \in Nat
        /\ flag[c] \in Nat /\ flagStore[c] \in Nat
    BY <1>1 DEF IInv, TypeOK
  <2> QED
    BY <2>1, <2>2 DEF DeliverSlot, DeliverFlag
<1>2. IInv /\ [Next]_vars =>
        [\A c \in Others :
           /\ DeliverSlot(c) => slot[c] = 0 /\ slotStore[c] = 1
           /\ DeliverFlag(c) => flag[c] = 0 /\ flagStore[c] = 1]_vars
  BY <1>1
<1> QED
  BY Invariance, <1>2, PTL DEF Spec, NoSignalLost

\* Once all cores are out of the barrier after equally many calls, no signal is
\* left in a slot, in a flag or in the mesh.
THEOREM RoundsIndependent == Spec => []CleanBetweenRounds
<1>1. ASSUME IInv, pc0 = "idle",
             \A c \in Others : pc[c] = "idle" /\ calls[c] = calls[0]
      PROVE  /\ \A c \in Cores : slot[c] = 0
             /\ \A c \in Others : flag[c] = 0 /\ slotStore[c] = 0 /\ flagStore[c] = 0
  <2> USE <1>1 DEF IInv
  <2>1. ASSUME NEW c \in Others
        PROVE  slot[c] = 0 /\ flag[c] = 0 /\ slotStore[c] = 0 /\ flagStore[c] = 0
    <3>1. /\ slot[c] \in Nat /\ slotStore[c] \in Nat /\ flag[c] \in Nat
          /\ flagStore[c] \in Nat /\ calls[c] \in Nat /\ returns[c] \in Nat
          /\ returns[0] \in Nat
      BY DEF TypeOK
    <3>2. Cleared(c) = returns[0] /\ Served(c) = returns[0]
      BY DEF Cleared, Served
    <3>3. calls[c] = returns[0] /\ returns[c] = calls[c]
      BY DEF Running
    <3> QED
      BY <3>1, <3>2, <3>3 DEF Arrivals, Departures
  <2>2. slot[0] = 0
    BY DEF Loops
  <2> QED
    BY <2>1, <2>2
<1>2. IInv => CleanBetweenRounds
  BY <1>1 DEF CleanBetweenRounds
<1> QED
  BY Invariance, <1>2, PTL

-----------------------------------------------------------------------------
\* The code implements the abstract barrier: a call is an arrival, a return is
\* a departure, every other step leaves the abstract state alone.
THEOREM Refinement == Spec => AbsSpec
<1>1. Init => Abs!Init
  BY DEF Init, Abs!Init
<1>2. ASSUME IInv, [Next]_vars
      PROVE  [Abs!Next]_(Abs!vars)
  <2> USE <1>2 DEF IInv
  <2>1. CASE EnterFirst
    <3>1. Abs!Arrive(0)
      BY <2>1 DEF EnterFirst, Abs!Arrive, Running
    <3> QED
      BY <3>1 DEF Abs!Next
  <2>2. ASSUME NEW c \in Others, Enter(c)
        PROVE  Abs!Next
    <3>1. Abs!Arrive(c)
      BY <2>2 DEF Enter, Abs!Arrive, Running
    <3> QED
      BY <3>1 DEF Abs!Next
  <2>3. CASE ReturnFirst
    <3>1. ASSUME NEW d \in Cores PROVE calls[d] > returns[0]
      <4>1. CASE d = 0
        BY <2>3, <4>1 DEF ReturnFirst, Running, TypeOK
      <4>2. CASE d \in Others
        <5>1. Cleared(d) = returns[0] + 1
          BY <2>3, <4>2 DEF ReturnFirst, Cleared
        <5>2. calls[d] = Cleared(d) + slot[d] + slotStore[d]
          BY <4>2 DEF Arrivals
        <5>3. slot[d] \in Nat /\ slotStore[d] \in Nat /\ returns[0] \in Nat
          BY <4>2 DEF TypeOK
        <5> QED
          BY <5>1, <5>2, <5>3
      <4> QED
        BY <4>1, <4>2
    <3>2. Abs!Depart(0)
      BY <2>3, <3>1 DEF ReturnFirst, Abs!Depart
    <3> QED
      BY <3>2 DEF Abs!Next
  <2>4. ASSUME NEW c \in Others, Leave(c)
        PROVE  Abs!Next
    <3>1. ASSUME NEW d \in Cores PROVE calls[d] > returns[c]
      <4>1. Served(c) = returns[c] + 1 + flagStore[c]
        BY <2>4 DEF Leave, Seen, Departures, TypeOK
      <4>2. Served(c) <= calls[d]
        BY ServedAfterArrivals
      <4>3. /\ flagStore[c] \in Nat /\ returns[c] \in Nat /\ calls[d] \in Nat
        BY DEF TypeOK
      <4> QED
        BY <4>1, <4>2, <4>3
    <3>2. Abs!Depart(c)
      BY <2>4, <3>1 DEF Leave, Abs!Depart
    <3> QED
      BY <3>2 DEF Abs!Next
  <2>5. CASE UNCHANGED <<calls, returns>>
    BY <2>5 DEF Abs!vars
  <2> QED
    BY <1>2, <2>1, <2>2, <2>3, <2>4, <2>5
       DEF Next, Core0Step, OtherStep, MeshStep, vars, InitFirst, InitOther,
           PollSlot, PollDone, ClearSlot, ClearDone, Release, SeeRelease,
           DeliverSlot, DeliverFlag
<1>3. IInv /\ [Next]_vars => [Abs!Next]_(Abs!vars)
  BY <1>2
<1> QED
  BY <1>1, <1>3, Invariance, PTL DEF Spec, AbsSpec, Abs!Spec
=============================================================================
