------------------------------ MODULE TraceDma ------------------------------
(***************************************************************************)
(* Tracing over the DMA engine of a master core (e_trace_dma.c of e-lib,   *)
(* e-trace-dma.c of the host), and the common start of all cores by WAND,  *)
(* which both variants of the library have.  A trace_write is two stores   *)
(* into registers of the master; the second makes its DMA engine store an  *)
(* event into a short ring at the start of the buffer of the host.         *)
(*                                                                         *)
(* External: WAND raises its interrupt on all cores when the last of them  *)
(* has set its flag; idle ends with the next interrupt.  The host takes a  *)
(* word at once, which is right as long as the ring has not gone round.    *)
(***************************************************************************)
EXTENDS Integers, Sequences, FiniteSets

CONSTANTS Cores,       \* all cores of the chip
          Tracers,     \* those that write events
          Ring,        \* events until the DMA starts over
          BufSlots,    \* events the buffer of the host has room for
          WordBytes,   \* bytes of an event, by which traceBufEnd is too far
          MaxEvents,   \* bound: events written
          Counts       \* values of max_data

VARIABLES pc,          \* of the cores
          wand,        \* cores whose WAND flag is set
          irq,         \* cores at which the WAND interrupt is latched
          clock,       \* cores whose timer counts
          low,         \* the low DMA register of the master
          buf, dmaAt,  \* the buffer, and where the DMA stores next
          rd,          \* traceBufRdPtr
          call,        \* the call of the host: what it does, how much it has still to read
          sent, got    \* history: events written, one per trace_write; events handed out
coreVars == <<pc, wand, irq, clock>>
vars == <<coreVars, low, buf, dmaAt, rd, call, sent, got>>

None == [low |-> 0, high |-> 0]
Quiet == [fn |-> "none", left |-> 0]

\* The host's trace_init clears the buffer before the cores begin.
Init ==
    /\ pc = [c \in Cores |-> "off"] /\ wand = {} /\ irq = {} /\ clock = {}
    /\ low = 0 /\ buf = [i \in 0 .. BufSlots - 1 |-> None] /\ dmaAt = 0
    /\ rd = 0 /\ call = Quiet /\ sent = <<>> /\ got = <<>>

Host == <<rd, call, got>>
Dma == <<low, buf, dmaAt, sent>>
To(c, p) == pc' = [pc EXCEPT ![c] = p]

-----------------------------------------------------------------------------
(* Cores *)

\* trace_init and trace_start_wait_all up to the wand instruction, and that.
trace_init(c) == pc[c] = "off" /\ To(c, "ready") /\ UNCHANGED <<wand, irq, clock, Dma, Host>>
Wand(c) ==
    /\ pc[c] = "ready" /\ To(c, "idle") /\ wand' = wand \cup {c}
    /\ irq' = IF wand' = Cores THEN Cores ELSE irq
    /\ UNCHANGED <<clock, Dma, Host>>
IdleInstruction(c) == pc[c] = "idle" /\ To(c, "asleep") /\ UNCHANGED <<wand, irq, clock, Dma, Host>>

\* wand_trace_isr does nothing; it wakes a core that sleeps.
wand_trace_isr(c) ==
    /\ c \in irq /\ irq' = irq \ {c}
    /\ IF pc[c] = "asleep" THEN To(c, "awake") ELSE UNCHANGED pc
    /\ UNCHANGED <<wand, clock, Dma, Host>>

\* Awake: the flag is cleared (by one variant), the timer started.
StartClock(c) ==
    /\ pc[c] = "awake" /\ To(c, "on") /\ clock' = clock \cup {c} /\ wand' \in {wand, wand \ {c}}
    /\ UNCHANGED <<irq, Dma, Host>>
trace_stop(c) == pc[c] = "on" /\ To(c, "stopped") /\ clock' = clock \ {c} /\ UNCHANGED <<wand, irq, Dma, Host>>

\* Mutant: the data is stored without its time.
TraceWriteNoTime(c) ==
    /\ pc[c] = "on" /\ c \in Tracers /\ Len(sent) < MaxEvents /\ To(c, "high")
    /\ UNCHANGED <<wand, irq, clock, Dma, Host>>

\* trace_write: the time to the low register, the data to the high one.
TraceWriteLow(c) ==
    /\ pc[c] = "on" /\ c \in Tracers /\ Len(sent) < MaxEvents /\ To(c, "high")
    /\ low' = Len(sent) + 1
    /\ UNCHANGED <<wand, irq, clock, buf, dmaAt, sent, Host>>

TraceWriteHigh(c) ==
    /\ pc[c] = "high" /\ To(c, "on")
    /\ LET n == Len(sent) + 1 IN
       /\ sent' = Append(sent, n) /\ buf' = [buf EXCEPT ![dmaAt] = [low |-> low, high |-> n]]
    /\ dmaAt' = (dmaAt + 1) % Ring
    /\ UNCHANGED <<wand, irq, clock, low, Host>>

-----------------------------------------------------------------------------
(* Host *)

CoresSame == UNCHANGED <<coreVars, low, dmaAt, sent>>
BeginRead == call = Quiet /\ call' = [fn |-> "read", left |-> 1] /\ UNCHANGED <<coreVars, Dma, rd, got>>
BeginReadN(n) == call = Quiet /\ call' = [fn |-> "read_n", left |-> n] /\ UNCHANGED <<coreVars, Dma, rd, got>>

\* traceBufEnd adds a size in bytes to a pointer to events.
Advance == rd' = IF rd + 1 >= BufSlots * WordBytes THEN 0 ELSE rd + 1
InBuffer == rd \in DOMAIN buf
\* trace_read sets what it has taken to zero, trace_read_n does not.
Take ==
    /\ call.left > 0 /\ InBuffer /\ buf[rd] # None
    /\ got' = Append(got, buf[rd]) /\ Advance
    /\ buf' = IF call.fn = "read" THEN [buf EXCEPT ![rd] = None] ELSE buf
    /\ call' = [call EXCEPT !.left = @ - 1] /\ CoresSame
\* Nothing more: trace_read times out; or as much as was asked for.
Return ==
    /\ call # Quiet /\ InBuffer /\ (call.left = 0 \/ buf[rd] = None)
    /\ call' = Quiet /\ UNCHANGED <<coreVars, Dma, rd, got>>

Core(c) == trace_init(c) \/ Wand(c) \/ IdleInstruction(c) \/ wand_trace_isr(c) \/ StartClock(c) \/ trace_stop(c)
           \/ TraceWriteLow(c) \/ TraceWriteHigh(c)
Next == (\E c \in Cores : Core(c)) \/ BeginRead \/ (\E n \in Counts : BeginReadN(n)) \/ Take \/ Return
Fairness == \A c \in Cores : WF_vars(Core(c))
Spec == Init /\ [][Next]_vars /\ Fairness

-----------------------------------------------------------------------------
\* "wait until all processors on this chip are ready": no clock counts, and no
\* event is written, before every core has called trace_start_wait_all.
StartTogether == clock # {} => \A c \in Cores : pc[c] \notin {"off", "ready"}

\* All cores that wait for each other do start.
EveryoneStarts == \A c \in Cores : <>(c \in clock)

\* One core traces, and the ring has not gone round: the host gets the events in
\* the order they were written, each with its own time, none twice, whichever of
\* the two calls reads them.
EventsInOrder ==
    Len(sent) <= Ring => \A i \in DOMAIN got : got[i] = [low |-> sent[i], high |-> sent[i]]

-----------------------------------------------------------------------------
(* Why *)

\* A core wakes, and its clock starts, when all cores are behind wand.
Behind(c) == pc[c] \notin {"off", "ready"}
Woken(c) == pc[c] \in {"awake", "on", "high", "stopped"}
StartInv ==
    /\ pc \in [Cores -> {"off", "ready", "idle", "asleep", "awake", "on", "high", "stopped"}]
    /\ wand \subseteq Cores /\ irq \subseteq Cores /\ clock \subseteq Cores
    /\ \A c \in wand : Behind(c)
    /\ irq # {} \/ clock # {} \/ (\E c \in Cores : Woken(c)) => \A c \in Cores : Behind(c)

\* The time of what is written next is in the low register, and the buffer holds what has been
\* written and not been read, each event at its place.
Event(n) == [low |-> n, high |-> n]
Written == Len(sent)
RingInv ==
    /\ sent \in Seq(Nat) /\ dmaAt \in 0 .. Ring - 1 /\ DOMAIN buf = 0 .. BufSlots - 1
    /\ \A c \in Cores : pc[c] = "high" => c \in Tracers /\ low = Written + 1
    /\ Written <= Ring =>
         /\ dmaAt = Written % Ring /\ rd \in 0 .. Written
         /\ \A n \in 1 .. Written : sent[n] = n
         /\ \A i \in 0 .. BufSlots - 1 : i >= rd => buf[i] = IF i < Written THEN Event(i + 1) ELSE None
         /\ got \in Seq([low : Nat, high : Nat]) /\ Len(got) = rd /\ \A n \in 1 .. rd : got[n] = Event(n)
=============================================================================
