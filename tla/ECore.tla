-------------------------------- MODULE ECore --------------------------------
(***************************************************************************)
(* The parts of e-lib one core uses for itself: DMA, interrupts, timers.   *)
(* A program and the interrupt routines it attaches call the library; the  *)
(* calls are sequences of single accesses to registers, interrupt vectors  *)
(* and descriptors, and an interrupt may come between any two of them.     *)
(* The DMA engine, the timers and the interrupt controller are hardware.   *)
(* Descriptor fields stand as [body, src, dst]; config bits the engine     *)
(* gives no meaning here (master, message mode) are left out.              *)
(***************************************************************************)
EXTENDS Integers, Sequences, FiniteSets

CONSTANTS Irqs,       \* interrupts by number; the lowest is served first
          Routines,   \* Routines[i]: the calls the routine of i may make, one of them
          Requests,   \* copies [src, dst, n] the program makes
          CountMod,   \* a count field of a descriptor is modulo this (2^16)
          Clicks,     \* bound: what a timer is set to
          MaxCalls,   \* bound: calls of the program
          MaxSets     \* bound: interrupts that neighbours raise

Registers == {"IMASK", "CONFIG"}
None == [r \in Registers |-> {}]
Timers == {0, 1}
Chans == {0, 1}     \* e_dma_copy has channel 1 and a descriptor for it, the program the others

VARIABLES todo,       \* per context, the accesses its call has still to make
          val,        \* per context, the register value it has read
          reg,        \* IMASK: masked interrupts; CONFIG: timers that are on
          count,      \* the timers
          gid,        \* interrupts are off
          ilat,       \* interrupts that are latched
          serving,    \* the interrupt being served, or -1
          vec,        \* interrupt vectors: of the run-time, half written, or a routine's
          desc,       \* descriptors in memory
          dma,        \* the channels: what they do, for which descriptor
          asked,      \* history: what the last start of a channel was to move
          wish,       \* history: reg as the completed calls want it
          lost,       \* history: bits of reg a routine changed within a call that wrote them back
          used        \* calls of the program and interrupts raised by neighbours so far
vars == <<todo, val, reg, count, gid, ilat, serving, vec, desc, dma, asked, wish, lost, used>>

-----------------------------------------------------------------------------
(* Calls *)

Do(what, x, y) == <<what, x, y>>

e_reg_read(r) == Do("read", r, 0)
With(r, e)    == Do("with", r, e)     \* e_reg_write of what was read, with e in it
Without(r, e) == Do("without", r, e)

e_irq_mask(i, state) == <<e_reg_read("IMASK"), IF state THEN With("IMASK", i) ELSE Without("IMASK", i)>>
e_irq_global_mask(state) == <<Do("gid", state, 0)>>
e_irq_attach(i) == <<Do("vec", i, "half"), Do("vec", i, "routine")>>
e_irq_set(i) == <<Do("latch", i, TRUE)>>
e_irq_clear(i) == <<Do("latch", i, FALSE)>>

\* Mutants: the timer is not switched on; CONFIG is written without being read.
CtimerNotStarted(t) == <<e_reg_read("CONFIG"), Without("CONFIG", t)>>
CtimerStopUnread(t) == <<Without("CONFIG", t)>>

e_ctimer_stop(t) == <<e_reg_read("CONFIG"), Without("CONFIG", t)>>
e_ctimer_set(t) == <<Do("count", t, Clicks)>>
e_ctimer_start(t) == <<e_reg_read("CONFIG"), Without("CONFIG", t), With("CONFIG", t)>>
e_wait(t) == e_ctimer_stop(t) \o e_ctimer_set(t) \o e_ctimer_start(t) \o <<Do("zero", t, 0)>>

\* e_dma_copy: the largest element that divides addresses and length; counts.
Elem(q) == CHOOSE s \in {1, 2, 4, 8} : 
    /\ q.src % s = 0 /\ q.dst % s = 0 /\ q.n % s = 0
    /\ \A z \in {1, 2, 4, 8} : z > s => q.src % z # 0 \/ q.dst % z # 0 \/ q.n % z # 0
Body(q) ==
    LET units == q.n \div Elem(q) high == units \div CountMod
    IN [elem |-> Elem(q), inner |-> units % CountMod, outer |-> high + 1 - (high % 2)]
\* The counts hold it: larger copies are cut short.
IsRequest(q) == q \in [src : Nat, dst : Nat, n : Nat] /\ q.n \div Elem(q) < CountMod
Fill(d, q) == <<Do("body", d, Body(q)), Do("src", d, q.src), Do("dst", d, q.dst)>>

e_dma_wait(ch) == <<Do("idle", ch, 0)>>
e_dma_start(d, ch, q) == e_dma_wait(ch) \o <<Do("go", ch, [d |-> d, q |-> q])>>
\* Mutant: the descriptor is not kept from the transfer under way.
SetDescAtOnce(ch, q) == Fill("own", q)

e_dma_set_desc(ch, q) == e_dma_wait(ch) \o Fill("own", q)
e_dma_copy(q) == Fill("copy", q) \o e_dma_start("copy", 1, q) \o e_dma_wait(1)

\* What routines may call: a name stands for the call.
RoutineCall(i, c) ==
    CASE c = "copy"  -> {e_dma_copy(q) : q \in Requests}
      [] c = "mask"  -> {e_irq_mask(i, TRUE)}
      [] c = "timer" -> {e_ctimer_stop(1), e_ctimer_set(1) \o e_ctimer_start(1)}

-----------------------------------------------------------------------------
Empty == [body |-> [elem |-> 1, inner |-> 0, outer |-> 0], src |-> 0, dst |-> 0]
Idle == [st |-> "idle", d |-> "own", got |-> Empty]

\* A program may have attached and unmasked before.
Init ==
    /\ todo = [c \in {"main", "isr"} |-> <<>>] /\ val = [c \in {"main", "isr"} |-> {}]
    /\ reg \in {[IMASK |-> m, CONFIG |-> {}] : m \in SUBSET Irqs} /\ wish = reg
    /\ lost = None
    /\ count = [t \in Timers |-> 0]
    /\ gid = FALSE /\ ilat = {} /\ serving = -1 /\ vec \in [Irqs -> {"default", "routine"}]
    /\ desc = [d \in {"copy", "own"} |-> Empty] /\ dma = [ch \in Chans |-> Idle]
    /\ asked = [ch \in Chans |-> [src |-> 0, dst |-> 0, n |-> 0]]
    /\ used = [calls |-> 0, sets |-> 0]

\* Access a writes register r, from what was read of it.
OfReg(a, r) == a[1] \in {"with", "without"} /\ a[2] = r
\* No routine that makes calls of this kind can run: gid, or the mask. So a program
\* protects its copies, and a vector from its interrupt; calls that change a register
\* it makes with and without that, as the library's own code does.
Protected(kind) == gid \/ \A i \in Irqs : kind \in Routines[i] => i \in reg["IMASK"]

Call(accesses) ==
    /\ todo["main"] = <<>> /\ serving = -1 /\ todo' = [todo EXCEPT !["main"] = accesses]
    /\ used.calls < MaxCalls /\ used' = [used EXCEPT !.calls = @ + 1]
    /\ UNCHANGED <<val, reg, count, gid, ilat, serving, vec, desc, dma, asked, wish, lost>>

CallIrq == \E i \in Irqs : \/ \E s \in BOOLEAN : Call(e_irq_mask(i, s))
                           \/ (gid \/ i \in reg["IMASK"]) /\ Call(e_irq_attach(i))
                           \/ Call(e_irq_set(i)) \/ Call(e_irq_clear(i))
CallGlobalMask == \E s \in BOOLEAN : Call(e_irq_global_mask(s))
CallTimer == \E t \in Timers : Call(e_ctimer_stop(t)) \/ Call(e_ctimer_start(t))
CallWait == Call(e_wait(0))
CallDma == \E q \in Requests : \/ Protected("copy") /\ Call(e_dma_copy(q))
                               \/ Call(e_dma_set_desc(0, q) \o e_dma_start("own", 0, q))
                               \/ Call(e_dma_wait(0))

-----------------------------------------------------------------------------
(* The next access of context c *)

Rest(c) == todo' = [todo EXCEPT ![c] = Tail(@)]
Now(c, what) == todo[c] # <<>> /\ Head(todo[c])[1] = what /\ Rest(c)
X(c) == Head(todo[c])[2]
Y(c) == Head(todo[c])[3]

ReadRegister(c) ==
    /\ Now(c, "read") /\ val' = [val EXCEPT ![c] = reg[X(c)]]
    /\ UNCHANGED <<reg, count, gid, ilat, serving, vec, desc, dma, asked, wish, lost, used>>
e_reg_write(c, r, v) ==    \* the value read is of no use after the last access
    reg' = [reg EXCEPT ![r] = v] /\ val' = [val EXCEPT ![c] = IF Len(todo[c]) > 1 THEN v ELSE {}]
\* A routine changes a register the program, unprotected, has read and will write back.
Overtaken(c) == /\ c = "isr" /\ ~Protected(IF X(c) = "IMASK" THEN "mask" ELSE "timer")
                /\ todo["main"] # <<>> /\ OfReg(Head(todo["main"]), X(c))
WriteRegister(c) ==
    /\ \/ Now(c, "with") /\ e_reg_write(c, X(c), val[c] \cup {Y(c)}) /\ wish' = [wish EXCEPT ![X(c)] = @ \cup {Y(c)}]
       \/ Now(c, "without") /\ e_reg_write(c, X(c), val[c] \ {Y(c)}) /\ wish' = [wish EXCEPT ![X(c)] = @ \ {Y(c)}]
    /\ lost' = [lost EXCEPT ![X(c)] = IF Overtaken(c) THEN @ \cup {Y(c)} ELSE @ \ {Y(c)}]
    /\ UNCHANGED <<count, gid, ilat, serving, vec, desc, dma, asked, used>>

Interrupts(c) ==
    /\ \/ Now(c, "gid") /\ gid' = X(c) /\ UNCHANGED <<vec, ilat>>
       \/ Now(c, "vec") /\ vec' = [vec EXCEPT ![X(c)] = Y(c)] /\ UNCHANGED <<gid, ilat>>
       \/ Now(c, "latch") /\ ilat' = (IF Y(c) THEN ilat \cup {X(c)} ELSE ilat \ {X(c)}) /\ UNCHANGED <<gid, vec>>
    /\ UNCHANGED <<val, reg, count, serving, desc, dma, asked, wish, lost, used>>

Timer(c) ==
    /\ \/ Now(c, "count") /\ count' = [count EXCEPT ![X(c)] = Y(c)]
       \/ Now(c, "zero") /\ count[X(c)] = 0 /\ UNCHANGED count
    /\ UNCHANGED <<val, reg, gid, ilat, serving, vec, desc, dma, asked, wish, lost, used>>

Descriptor(c) ==
    /\ \/ \E f \in {"body", "src", "dst"} : Now(c, f) /\ desc' = [desc EXCEPT ![X(c)][f] = Y(c)]
                                            /\ UNCHANGED <<dma, asked>>
       \/ Now(c, "idle") /\ dma[X(c)].st = "idle" /\ UNCHANGED <<desc, dma, asked>>
       \/ /\ Now(c, "go") /\ UNCHANGED desc
          /\ dma' = [dma EXCEPT ![X(c)].st = "fetch", ![X(c)].d = Y(c).d]
          /\ asked' = [asked EXCEPT ![X(c)] = Y(c).q]
    /\ UNCHANGED <<val, reg, count, gid, ilat, serving, vec, wish, lost, used>>

Access(c) == ReadRegister(c) \/ WriteRegister(c) \/ Interrupts(c) \/ Timer(c) \/ Descriptor(c)
Main == serving = -1 /\ Access("main")

-----------------------------------------------------------------------------
(* Hardware *)

\* The lowest latched interrupt that is not masked; a routine runs with interrupts off.
Interrupt ==
    /\ serving = -1 /\ ~gid
    /\ \E i \in Irqs \ reg["IMASK"] :
         /\ i \in ilat /\ \A j \in ilat \ reg["IMASK"] : i <= j
         /\ serving' = i /\ ilat' = ilat \ {i}
         /\ \E code \in {<<>>} \cup (IF vec[i] = "routine" THEN UNION {RoutineCall(i, c) : c \in Routines[i]} ELSE {}) :
               todo' = [todo EXCEPT !["isr"] = code]
    /\ UNCHANGED <<val, reg, count, gid, vec, desc, dma, asked, wish, lost, used>>
Return ==
    /\ serving # -1 /\ todo["isr"] = <<>> /\ serving' = -1
    /\ UNCHANGED <<todo, val, reg, count, gid, ilat, vec, desc, dma, asked, wish, lost, used>>

Fetch(ch) ==
    /\ dma[ch].st = "fetch"
    /\ dma' = [dma EXCEPT ![ch].st = "move", ![ch].got = desc[dma[ch].d]]
    /\ UNCHANGED <<todo, val, reg, count, gid, ilat, serving, vec, desc, asked, wish, lost, used>>
Move(ch) ==
    /\ dma[ch].st = "move" /\ dma' = [dma EXCEPT ![ch] = Idle]
    /\ UNCHANGED <<todo, val, reg, count, gid, ilat, serving, vec, desc, asked, wish, lost, used>>

TimerIrq(t) == 3 + t
Tick(t) ==
    /\ t \in reg["CONFIG"] /\ count[t] > 0 /\ count' = [count EXCEPT ![t] = @ - 1]
    /\ ilat' = IF count[t] = 1 THEN ilat \cup ({TimerIrq(t)} \cap Irqs) ELSE ilat
    /\ UNCHANGED <<todo, val, reg, gid, serving, vec, desc, dma, asked, wish, lost, used>>

\* A neighbour calls e_irq_set for this core.
Raised(i) ==
    /\ used.sets < MaxSets /\ used' = [used EXCEPT !.sets = @ + 1] /\ ilat' = ilat \cup {i}
    /\ UNCHANGED <<todo, val, reg, count, gid, serving, vec, desc, dma, asked, wish, lost>>

Hardware == Return \/ (\E ch \in Chans : Fetch(ch) \/ Move(ch)) \/ (\E t \in Timers : Tick(t))
Next == CallIrq \/ CallGlobalMask \/ CallTimer \/ CallWait \/ CallDma
        \/ Main \/ Access("isr") \/ Interrupt \/ Hardware \/ (\E i \in Irqs : Raised(i))

\* A routine that restarts its timer does so for far longer than it runs (E_CTIMER_MAX).
Fairness == /\ SF_vars(Main) /\ WF_vars(Access("isr")) /\ WF_vars(Interrupt) /\ WF_vars(Return)
            /\ \A ch \in Chans : WF_vars(Fetch(ch) \/ Move(ch))
            /\ \A t \in Timers : WF_vars(Tick(t))
Spec == Init /\ [][Next]_vars /\ Fairness

-----------------------------------------------------------------------------
\* The engine moves what the call asked for and nothing else, all of it, although
\* the descriptor is read from memory after the call that started it has returned
\* and routines copy too (e_dma_copy, e_dma_set_desc, e_dma_start).
Transfer(g) == [src |-> g.src, dst |-> g.dst, n |-> g.body.elem * g.body.inner * g.body.outer]
TransfersAsAsked == \A ch \in Chans : dma[ch].st = "move" => Transfer(dma[ch].got) = asked[ch]

\* Between calls IMASK and CONFIG are as the calls of the program and of its routines
\* left them, but for bits a routine changed within a call of the program on the same
\* register that was not protected: no update of the program is ever lost, none within
\* a protected call, and of the others only those of the overtaken bits themselves.
UpdatesKept == serving = -1 /\ todo["main"] = <<>> => \A r \in Registers : reg[r] \ lost[r] = wish[r] \ lost[r]

\* Every call returns: loops that wait for a channel or a timer end.
CallsReturn == todo["main"] # <<>> ~> todo["main"] = <<>>

-----------------------------------------------------------------------------
(* Why: what e_dma_copy still has to do is done while no routine copies; what a *)
(* call has read of a register is current but for overtaken bits.                *)

Fields == {"body", "src", "dst"}
Contexts == {"main", "isr"}
IsSeq(s) == Len(s) \in Nat /\ s = [k \in 1 .. Len(s) |-> s[k]]
DescOf(ch) == IF ch = 1 THEN "copy" ELSE "own"
Filled(q) == [body |-> Body(q), src |-> q.src, dst |-> q.dst]

\* What access a is about.
OfDesc(a, d) == a[1] \in Fields /\ a[2] = d
OfChan(a, ch) == a[1] \in {"idle", "go"} /\ a[2] = ch
Uses(a, kind) == CASE kind = "mask" -> OfReg(a, "IMASK")
                   [] kind = "timer" -> OfReg(a, "CONFIG")
                   [] kind = "copy" -> OfDesc(a, "copy") \/ OfChan(a, 1)
Kinds == {"mask", "timer", "copy"}

\* Calls: a register is written right after it was read or written; what lets
\* interrupts in comes last; descriptors are filled for the transfer that follows, and
\* only in e_dma_copy for channel 1, which waits for it.
Formed(s) ==
    /\ \A k \in 2 .. Len(s), r \in Registers :
         OfReg(s[k], r) => s[k - 1][1] \in {"read", "with", "without"} /\ s[k - 1][2] = r
    /\ \A k \in 1 .. Len(s) : s[k][1] = "gid" \/ OfReg(s[k], "IMASK") => k = Len(s)
    /\ \A k \in 1 .. Len(s) : s[k][1] = "go" =>
         /\ s[k][2] \in Chans /\ s[k][3].d = DescOf(s[k][2]) /\ s[k][3].q \in Requests
         /\ s[k][2] = 1 => k = Len(s) - 1 /\ s[k + 1][1] = "idle" /\ s[k + 1][2] = 1
         /\ \A j \in 1 .. Len(s) : OfDesc(s[j], DescOf(s[k][2])) => j < k /\ s[j][3] = Filled(s[k][3].q)[s[j][1]]
OfRoutine(s) ==
    \A k \in 1 .. Len(s) :
        /\ s[k][1] # "gid" /\ (OfReg(s[k], "IMASK") => s[k][1] = "with")
        /\ s[k][1] \in Fields \cup {"idle", "go"} => Uses(s[k], "copy")

Has(s, kind) == \E k \in 1 .. Len(s) : Uses(s[k], kind)
Guarded == Has(todo["main"], "copy") => Protected("copy") /\ ~Has(todo["isr"], "copy")
\* A routine runs with interrupts on and its own not masked, until it masks it.
Served == serving # -1 /\ todo["isr"] # <<>> =>
    /\ ~gid /\ serving \in Irqs \ reg["IMASK"]
    /\ \A kind \in Kinds : Has(todo["isr"], kind) => kind \in Routines[serving]
\* What a context has read and will write back: of the program, but for overtaken bits.
Stale(c) == IF c = "main" THEN lost ELSE None
Current(c) == todo[c] # <<>> => \A r \in Registers : OfReg(todo[c][1], r) => val[c] \ Stale(c)[r] = reg[r] \ Stale(c)[r]
Kept == \A r \in Registers : reg[r] \ lost[r] = wish[r] \ lost[r]

\* Descriptors m: what a start finds there, or will; the one of the program is filled
\* once its channel is idle.
Fed(s, m) ==
    \A k \in 1 .. Len(s) : s[k][1] = "go" =>
        \A f \in Fields : LET d == s[k][3].d IN
            \/ \E j \in 1 .. k - 1 : s[j][1] = f /\ s[j][2] = d
            \/ m[d][f] = Filled(s[k][3].q)[f]
Waits(s, idle) ==
    \A k \in 1 .. Len(s) : OfDesc(s[k], "own") =>
        idle \/ \E j \in 1 .. k - 1 : s[j][1] = "idle" /\ s[j][2] = 0
Waiting(s) == Len(s) = 1 /\ s[1][1] = "idle" /\ s[1][2] = 1
Busy ==
    \A ch \in Chans :
        /\ dma[ch].st = "fetch" => dma[ch].d = DescOf(ch) /\ desc[DescOf(ch)] = Filled(asked[ch]) /\ asked[ch] \in Requests
        /\ dma[ch].st = "move" => dma[ch].got = Filled(asked[ch]) /\ asked[ch] \in Requests
        /\ ch = 1 /\ dma[ch].st # "idle" => \E c \in Contexts : Waiting(todo[c])

Calls ==
    /\ DOMAIN todo = Contexts /\ \A c \in Contexts : IsSeq(todo[c]) /\ Formed(todo[c])
    /\ OfRoutine(todo["isr"]) /\ (serving = -1 => todo["isr"] = <<>>)
Typed ==
    /\ DOMAIN lost = Registers /\ DOMAIN wish = Registers /\ DOMAIN val = Contexts /\ reg = [IMASK |-> reg["IMASK"], CONFIG |-> reg["CONFIG"]]
    /\ DOMAIN desc = {"copy", "own"} /\ DOMAIN dma = Chans /\ DOMAIN asked = Chans
    /\ \A d \in {"copy", "own"} : desc[d] = [body |-> desc[d].body, src |-> desc[d].src, dst |-> desc[d].dst]
    /\ \A ch \in Chans : dma[ch] = [st |-> dma[ch].st, d |-> dma[ch].d, got |-> dma[ch].got]
CoreInv ==
    /\ Calls /\ Typed /\ Guarded /\ Served /\ Kept /\ Current("main") /\ Current("isr")
    /\ Fed(todo["main"], desc) /\ Fed(todo["isr"], desc) /\ Waits(todo["main"], dma[0].st = "idle") /\ Busy
=============================================================================
