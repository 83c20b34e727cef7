------------------------------ MODULE GroupLoad ------------------------------
(***************************************************************************)
(* e_load_group: the host takes the cores of a work group away from the    *)
(* programs they run, one core after the other, clears their memories,     *)
(* loads the new program into all of them and starts it.  Cores that have  *)
(* not been reached yet go on: they write into the memories of the others, *)
(* raise interrupts on them and have DMA transfers under way.              *)
(*                                                                         *)
(* The host resets a core by running a small payload on it: an interrupt   *)
(* table that leads to a loop that ends all interrupts and idles.          *)
(*                                                                         *)
(* Register and memory accesses of the host take effect at once and in     *)
(* order.  Core c is the c-th of the group in the order of the loops.      *)
(* EHAL_GDBSERVER is not set.                                              *)
(***************************************************************************)
EXTENDS Integers

CONSTANTS
  NumCores,     \* rows * cols of the group
  Irqs,         \* the interrupts old programs raise on other cores
  MaxSignals    \* bound: how often they do so

VARIABLES
  core,     \* core[c]: registers and memory of core c, see CoreState
  pc,       \* where the host is in the load
  cur,      \* the core its loop is at
  signals   \* interrupts raised by old programs so far

vars == <<core, pc, cur, signals>>

Cores == 0 .. NumCores - 1

\* run    "running", "idle" (STATUS says not active) or "halted" (DEBUGSTATUS)
\* ext    a read from outside the core is outstanding (DEBUGSTATUS)
\* dma    a DMA channel is not idle (DMAxSTATUS)
\* ilat   interrupts latched; imask: which are let through
\* ipend  an interrupt is being served; gid: interrupts are disabled
\* code   what the core executes when it runs
\* low    the memory that holds the interrupt table and the payload
\* rest   the rest of the memory
CoreState ==
  [run : {"running", "idle", "halted"}, ext : BOOLEAN, dma : BOOLEAN,
   ilat : SUBSET {"sync", "user"}, imask : {"all", "sync only"},
   ipend : BOOLEAN, gid : BOOLEAN,
   code : {"old", "payload", "image", "wild"},
   low : {"old", "payload", "clear", "image"},
   rest : {"old", "clear", "segments", "image", "spoilt"}]

\* A core as its last program left it.
Left(run, ext, dma, ipend) ==
  [run |-> run, ext |-> ext, dma |-> dma, ilat |-> {}, imask |-> "all",
   ipend |-> ipend, gid |-> ipend, code |-> "old", low |-> "old", rest |-> "old"]

Init ==
  /\ \E run \in [Cores -> {"running", "idle", "halted"}], dma, ipend \in [Cores -> BOOLEAN] :
       core = [c \in Cores |-> Left(run[c], FALSE, dma[c], ipend[c])]
  /\ pc = "idle"
  /\ cur = 0
  /\ signals = 0

Set(c, field, value) == core' = [core EXCEPT ![c][field] = value]

-----------------------------------------------------------------------------
(* The cores.                                                               *)

Old(c) == core[c].code = "old" /\ core[c].run = "running" /\ ~core[c].ext

\* An old program reads outside its core; the read may hang.
ExternalRead(c) ==
  /\ Old(c)
  /\ Set(c, "ext", TRUE)
  /\ UNCHANGED <<pc, cur, signals>>

ReadEnds(c) ==
  /\ core[c].ext
  /\ Set(c, "ext", FALSE)
  /\ UNCHANGED <<pc, cur, signals>>

\* It ends or idles, in an interrupt or not.
OldStops(c) ==
  /\ Old(c)
  /\ \E run \in {"idle", "halted"}, isr \in BOOLEAN :
       core' = [core EXCEPT ![c].run = run, ![c].ipend = isr, ![c].gid = isr]
  /\ UNCHANGED <<pc, cur, signals>>

\* It, or its DMA transfer, writes into the data of another core, which matters
\* when that core's memory has been cleared already.
OldWrite(c, d) ==
  /\ c # d
  /\ Old(c) \/ core[c].dma
  /\ Set(d, "rest", IF core[d].rest = "old" THEN "old" ELSE "spoilt")
  /\ UNCHANGED <<pc, cur, signals>>

DmaEnds(c) ==
  /\ core[c].dma
  /\ Set(c, "dma", FALSE)
  /\ UNCHANGED <<pc, cur, signals>>

\* It raises an interrupt on another core.
OldSignal(c, d) ==
  /\ c # d /\ Old(c)
  /\ signals < MaxSignals
  /\ signals' = signals + 1
  /\ \E irq \in Irqs : Set(d, "ilat", core[d].ilat \cup {irq})
  /\ UNCHANGED <<pc, cur>>

\* Interrupts that are let through; the reset of all registers leaves SYNC only.
Open(c) ==
  IF core[c].imask = "all" THEN core[c].ilat ELSE core[c].ilat \cap {"sync"}

\* An interrupt, SYNC before the others, takes the core to its interrupt table; while one
\* is served (ipend) interrupts are off, and the payload's rti ends it first.
TakeIrq(c) ==
  /\ core[c].run # "halted" /\ ~core[c].ext /\ ~core[c].gid /\ Open(c) # {}
  /\ LET irq == IF "sync" \in Open(c) THEN "sync" ELSE "user"
     IN  core' = [core EXCEPT ![c].run = "running", ![c].ipend = TRUE, ![c].gid = TRUE,
                              ![c].ilat = @ \ {irq},
                              ![c].code = IF core[c].low = "clear" THEN "wild" ELSE core[c].low]
  /\ UNCHANGED <<pc, cur, signals>>

InPayload(c) == core[c].code = "payload" /\ core[c].run = "running"

\* One round of clear_ipend: rti while IPEND is not zero, then gie and idle.
Payload(c) ==
  /\ InPayload(c)
  /\ core' = [core EXCEPT ![c].ipend = FALSE, ![c].gid = FALSE,
                          ![c].run = IF core[c].ipend THEN "running" ELSE "idle"]
  /\ UNCHANGED <<pc, cur, signals>>

-----------------------------------------------------------------------------
(* The host: ee_soft_reset_core.                                            *)

At(label) == pc = label
Goto(label) == pc' = label /\ UNCHANGED <<cur, signals>>
Fail == pc' = "failed" /\ UNCHANGED <<core, cur, signals>>

\* The loop over the cores goes on at label, or is at its end.
NextCore(label, next) ==
  /\ IF cur + 1 < NumCores THEN cur' = cur + 1 /\ pc' = label
                           ELSE cur' = 0 /\ pc' = next
  /\ UNCHANGED signals

Load ==
  /\ At("idle")
  /\ Goto("halt") /\ UNCHANGED core

\* e_halt, unless the core is halted.
Halt ==
  /\ At("halt")
  /\ Set(cur, "run", "halted")
  /\ Goto("fetch")

\* The wait for an external read, which ends in time or does not.
Fetch ==
  /\ At("fetch") /\ ~core[cur].ext
  /\ Goto("dma") /\ UNCHANGED core

FetchStuck ==
  /\ At("fetch") /\ core[cur].ext
  /\ Fail

\* ee_soft_reset_dma.
ResetDma ==
  /\ At("dma")
  /\ Set(cur, "dma", FALSE)
  /\ Goto("registers")

DmaStuck ==
  /\ At("dma") /\ core[cur].dma
  /\ Fail

\* ILATCL, and IMASK := 0 lets all interrupts through.
Registers ==
  /\ At("registers")
  /\ core' = [core EXCEPT ![cur].ilat = {}, ![cur].imask = "all"]
  /\ Goto("payload")

WritePayload ==
  /\ At("payload")
  /\ Set(cur, "low", "payload")
  /\ Goto("resume")

\* FSTATUS and PC are set, and the core runs the payload.
Resume ==
  /\ At("resume")
  /\ core' = [core EXCEPT ![cur].run = "running", ![cur].code = "payload"]
  /\ Goto("ipend")

\* The poll reads three registers one after the other; when one does not read
\* as it should the host sleeps and begins again, or gives up.
Poll(label, ok, next) ==
  /\ At(label) /\ UNCHANGED core
  /\ \/ ok /\ Goto(next)
     \/ ~ok /\ Goto("ipend")
     \/ ~ok /\ pc' = "failed" /\ UNCHANGED <<cur, signals>>

PollIpend == Poll("ipend", ~core[cur].ipend, "ilat")
PollIlat == Poll("ilat", core[cur].ilat = {}, "status")
PollStatus == Poll("status", core[cur].run = "idle", "fstatus")

\* ee_reset_regs: FSTATUS, PC and IRET are set to 0 ...
ResetRegs ==
  /\ At("fstatus")
  /\ core' = [core EXCEPT ![cur].run = "idle", ![cur].gid = FALSE]
  /\ Goto("imask")

\* ... IMASK := ~SYNC ...
MaskIrqs ==
  /\ At("imask")
  /\ Set(cur, "imask", "sync only")
  /\ Goto("ilatcl")

\* Mutant: every core is cleared as soon as it is reset.
ClearIrqsAndSram ==
  /\ At("ilatcl")
  /\ core' = [core EXCEPT ![cur].ilat = {}, ![cur].low = "clear", ![cur].rest = "clear"]
  /\ NextCore("halt", "load")

\* ... and ILATCL.  The next core, or all memories are cleared.
ClearIrqs ==
  /\ At("ilatcl")
  /\ Set(cur, "ilat", {})
  /\ NextCore("halt", "clear")

-----------------------------------------------------------------------------
(* The host: the rest of _e_default_load_group, and start_group.            *)

\* An interrupt and the payload take a few cycles: a core that was woken into
\* the payload is idle again long before the host, which still has register
\* writes and the zeroing of its own buffer to do, comes to the core's memory.
PayloadIsShort ==
  \A c \in Cores : core[c].code = "payload" => core[c].run = "idle" /\ Open(c) = {}

\* clear_sram.
ClearSram ==
  /\ At("clear") /\ PayloadIsShort
  /\ core' = [core EXCEPT ![cur].low = "clear", ![cur].rest = "clear"]
  /\ NextCore("clear", "load")

\* ee_process_elf: the segments are written, or the file turns out to be bad.
ProcessElf ==
  /\ At("load")
  /\ core' = [core EXCEPT ![cur].low = "image",
                          ![cur].rest = IF @ = "clear" THEN "segments" ELSE "spoilt"]
  /\ Goto("config")

BadElf ==
  /\ At("load")
  /\ Fail

\* Mutant: every core is started as soon as it is loaded.
SetCoreConfigStart ==
  /\ At("config")
  /\ core' = [core EXCEPT ![cur].rest = IF @ = "segments" THEN "image" ELSE "spoilt",
                          ![cur].ilat = @ \cup {"sync"}]
  /\ NextCore("load", "started")

\* _ee_set_core_config.  The next core, or the group is started.
SetCoreConfig ==
  /\ At("config")
  /\ Set(cur, "rest", IF core[cur].rest = "segments" THEN "image" ELSE "spoilt")
  /\ NextCore("load", "start")

\* Mutant: the last core is left out.
StartButLast ==
  /\ At("start")
  /\ Set(cur, "ilat", core[cur].ilat \cup {"sync"})
  /\ IF cur + 2 < NumCores THEN cur' = cur + 1 /\ pc' = "start"
                           ELSE cur' = 0 /\ pc' = "started"
  /\ UNCHANGED signals

\* _e_default_start_group: SYNC to the cores.
Start ==
  /\ At("start")
  /\ Set(cur, "ilat", core[cur].ilat \cup {"sync"})
  /\ NextCore("start", "started")

-----------------------------------------------------------------------------
OldStep ==
  \/ \E c \in Cores : ExternalRead(c) \/ ReadEnds(c) \/ OldStops(c) \/ DmaEnds(c)
  \/ \E c, d \in Cores : OldWrite(c, d) \/ OldSignal(c, d)

\* The cores as machines: interrupts and the payload.
CoreStep(c) == TakeIrq(c) \/ Payload(c)

SoftResetCore ==
  \/ Halt \/ Fetch \/ FetchStuck \/ ResetDma \/ DmaStuck \/ Registers
  \/ WritePayload \/ Resume \/ PollIpend \/ PollIlat \/ PollStatus
  \/ ResetRegs \/ MaskIrqs \/ ClearIrqs

Host == Load \/ SoftResetCore \/ ClearSram \/ ProcessElf \/ BadElf \/ SetCoreConfig \/ Start

Next == OldStep \/ (\E c \in Cores : CoreStep(c)) \/ Host

\* Cores go on by themselves.  So does the host, and it makes 10000 polls, more
\* than the old programs of the group raise interrupts.
Fairness == WF_vars(Host) /\ \A c \in Cores : WF_vars(CoreStep(c))

Spec == Init /\ [][Next]_vars /\ Fairness

-----------------------------------------------------------------------------
TypeOK ==
  /\ core \in [Cores -> CoreState]
  /\ pc \in {"idle", "halt", "fetch", "dma", "registers", "payload", "resume",
             "ipend", "ilat", "status", "fstatus", "imask", "ilatcl", "clear",
             "load", "config", "start", "started", "failed"}
  /\ cur \in Cores
  /\ signals \in 0 .. MaxSignals

\* A core runs the new program only when every core of the group holds all of
\* it over cleared memory, unspoilt by programs and DMA transfers that were still
\* under way during the load.
StartsComplete ==
  (\E c \in Cores : core[c].code = "image") =>
    \A d \in Cores : core[d].low = "image" /\ core[d].rest = "image"

\* No core executes cleared memory, or the interrupt table of a program that
\* has not been started, whatever interrupts come during the load.
NeverWild ==
  \A c \in Cores :
    /\ core[c].code # "wild"
    /\ core[c].code = "image" => pc \in {"start", "started"}

\* A core is not reset while a read of it is outstanding: it would hang.
NoResetDuringRead ==
  \A c \in Cores : core[c].code # "old" => ~core[c].ext

\* Why these hold.  A core that the loop has not reached is as its old program
\* left it; one that the loop has left runs nothing but the payload, has no
\* transfer under way and gets none; the one it is at is on its way.
Untouched(c) == core[c].code = "old" /\ core[c].low = "old"
Quiet(c) == ~core[c].dma /\ ~core[c].ext
OnPayload(c) == core[c].code = "payload" /\ core[c].low = "payload" /\ Quiet(c)
Frozen(c) == core[c].code = "payload" /\ core[c].run = "idle" /\ Quiet(c) /\ Open(c) = {}

Waiting == {"ipend", "ilat", "status", "fstatus", "imask", "ilatcl"}
Resetting == {"halt", "fetch", "dma", "registers", "payload", "resume"} \cup Waiting

UnderReset(c) ==
  /\ pc # "halt" /\ pc \notin Waiting => core[c].run = "halted"
  /\ pc \notin {"halt", "fetch"} => ~core[c].ext
  /\ pc \notin {"halt", "fetch", "dma"} => ~core[c].dma
  /\ core[c].code = IF pc \in Waiting THEN "payload" ELSE "old"
  /\ core[c].low = IF pc \in Waiting \cup {"resume"} THEN "payload" ELSE "old"

ResetInOrder ==
  pc \in Resetting =>
    \A c \in Cores : IF c < cur THEN OnPayload(c) ELSE IF c = cur THEN UnderReset(c) ELSE Untouched(c)

Unstarted == pc = "idle" => cur = 0 /\ \A c \in Cores : Untouched(c)

\* From the first memory that is cleared to the start nothing moves in the group.
AllFrozen ==
  pc \in {"clear", "load", "config"} =>
    \/ pc = "clear" /\ cur = 0 /\ \A c \in Cores : OnPayload(c)
    \/ \A c \in Cores : Frozen(c)

Holds(c, low, rest) == core[c].low = low /\ core[c].rest = rest

ClearedInOrder ==
  pc = "clear" =>
    \A c \in Cores : IF c < cur THEN Holds(c, "clear", "clear") ELSE core[c].low = "payload"

LoadedInOrder ==
  pc \in {"load", "config"} =>
    \A c \in Cores :
      IF c < cur THEN Holds(c, "image", "image")
      ELSE IF c = cur /\ pc = "config" THEN Holds(c, "image", "segments")
      ELSE Holds(c, "clear", "clear")

Loaded ==
  pc \in {"start", "started"} =>
    \A c \in Cores : Holds(c, "image", "image") /\ Quiet(c) /\ core[c].code \in {"payload", "image"}

GaveUp ==
  pc = "failed" =>
    \/ \A c \in Cores : Untouched(c) \/ OnPayload(c)
    \/ \A c \in Cores : Frozen(c)

LInv ==
  /\ TypeOK /\ Unstarted /\ ResetInOrder /\ AllFrozen
  /\ ClearedInOrder /\ LoadedInOrder /\ Loaded /\ GaveUp

\* A load ends; when it succeeds every core comes to run the new program.
LoadEnds == pc = "halt" ~> pc = "failed" \/ \A c \in Cores : core[c].code = "image"
=============================================================================
