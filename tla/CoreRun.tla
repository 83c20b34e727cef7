------------------------------- MODULE CoreRun -------------------------------
(***************************************************************************)
(* One core that runs a program, and what the server makes of it: why did  *)
(* it stop (findStopReason, GdbServer.cpp), which call of the host does it *)
(* wait for, does it idle (Thread.cpp).  The core stops by itself at a     *)
(* BKPT or a TRAP, is halted by the server whenever that needs it, and     *)
(* goes on when the client says so.                                        *)
(*                                                                         *)
(* Addresses count 16-bit words.  Two words make a "long" instruction; the *)
(* second may look like any other one.  After a TRAP the core comes to     *)
(* rest behind one of the NOPs that follow.                                *)
(***************************************************************************)
EXTENDS Integers, FiniteSets

CONSTANTS Programs,     \* functions from addresses to instructions: see IsProgram
          Numbers,      \* what the program has in R3 when it traps
          NonStop       \* the client sets and removes breakpoints while the core runs

Files    == {"TRAP_WRITE", "TRAP_READ", "TRAP_OPEN", "TRAP_CLOSE"}
SYS      == {"SYS_open", "SYS_close", "SYS_read", "SYS_write", "SYS_lseek", "SYS_unlink", "SYS_fstat", "SYS_stat"}
Traps    == Files \cup {"TRAP_EXIT", "TRAP_PASS", "TRAP_FAIL", "TRAP_SYSCALL", "TRAP_reserved"}
Causes   == {"UNALIGNED", "FPU", "UNIMPL", "ILLEGAL", "other"}

VARIABLES code, bkpts,           \* the program, and where the client has breakpoints
          pc, halted, active, excause, r3,    \* the core
          runState,                \* Thread::mRunState
          sig,                     \* what findStopReason said of this stop, or "unasked"
          called,                  \* the request to the host that waits for an answer
          info,                    \* the run state in the last list of threads
          stop, due, rested        \* history: the instruction the core stopped itself at, where the program
                                   \* goes on, and whether it was idle since it was last made active
program == <<code, bkpts>>
core == <<pc, halted, active, excause, r3>>
server == <<runState, sig, called, info>>
history == <<stop, due, rested>>
vars == <<program, core, server, history>>

Slots == DOMAIN code
\* Where instructions begin: a long one takes the next word too.
Beginnings(p) == {s \in DOMAIN p : s - 1 \notin DOMAIN p \/ p[s - 1] # "long"}
Starts == Beginnings(code)
\* No search for a TRAP may leave the memory: a program does not begin with a NOP.  BKPT is for
\* debuggers: no program has one of its own, but a second word may look like it.
IsProgram(p) ==
    /\ 0 \in DOMAIN p /\ \A s \in DOMAIN p : s \in Nat /\ 0 .. s \subseteq DOMAIN p
    /\ p[0] # "nop" /\ \A s \in Beginnings(p) : p[s] # "bkpt"
At(s) == IF s \in bkpts THEN "bkpt" ELSE code[s]     \* Thread::readMem16
isValidPc(a) == a \in Slots

Init ==
    /\ code \in Programs /\ bkpts = {}
    /\ pc = 0 /\ halted = FALSE /\ active \in BOOLEAN /\ excause = "NONE" /\ r3 \in Numbers
    /\ runState = "unknown" /\ sig = "unasked" /\ called = "none" /\ info = "none"
    /\ stop = "none" /\ due = 0 /\ rested = ~active

-----------------------------------------------------------------------------
(* The core *)

Runs == ~halted /\ active /\ isValidPc(pc)
Goes(to) == pc' = to /\ due' = to
\* The second word of a long instruction is none of the program's, should the core be made to run it.
Noted(k) == IF pc \in Starts THEN k ELSE "none"
Behind(s) == {t \in Slots \cup {s + 1} : t > s /\ \A u \in (s + 1) .. (t - 1) : At(u) = "nop"}

Execute ==
    /\ Runs /\ At(pc) \in {"op", "nop", "long", "jump"}
    /\ \E to \in (CASE At(pc) = "jump" -> Starts [] At(pc) = "long" -> {pc + 2} [] OTHER -> {pc + 1}) : Goes(to)
    /\ UNCHANGED <<program, halted, active, excause, r3, server, stop, rested>>
Raise ==
    /\ Runs /\ At(pc) = "fault" /\ Goes(pc + 1) /\ excause' \in Causes
    /\ UNCHANGED <<program, halted, active, r3, server, stop, rested>>
FallIdle ==
    /\ Runs /\ At(pc) = "idle" /\ Goes(pc + 1) /\ active' = FALSE /\ rested' = TRUE
    /\ UNCHANGED <<program, halted, excause, r3, server, stop>>
Wake ==                                      \* an interrupt
    /\ ~halted /\ ~active /\ active' = TRUE
    /\ UNCHANGED <<program, pc, halted, excause, r3, server, history>>
HitBkpt ==
    /\ Runs /\ At(pc) = "bkpt" /\ pc' = pc + 1 /\ halted' = TRUE /\ stop' = Noted("bkpt")
    /\ UNCHANGED <<program, active, excause, r3, server, due, rested>>
HitTrap ==
    /\ Runs /\ At(pc) \in Traps /\ \E to \in Behind(pc) : Goes(to)
    /\ halted' = TRUE /\ stop' = Noted(At(pc))
    /\ UNCHANGED <<program, active, excause, r3, server, rested>>

-----------------------------------------------------------------------------
(* Why did it stop: findStopReason *)

getException == CASE excause = "NONE" -> "NONE"
                  [] excause = "UNALIGNED" -> "BUS"
                  [] excause = "FPU" -> "FPE"
                  [] excause \in {"UNIMPL", "ILLEGAL"} -> "ILL"
                  [] OTHER -> "ABRT"

\* The last instruction before an address that is not a NOP, the search beginning at s.
Search(s) == At(CHOOSE t \in 0 .. s : At(t) # "nop" /\ \A u \in (t + 1) .. s : At(u) = "nop")
Last(a) == IF a >= 1 THEN a - 1 ELSE a           \* "Don't adjust PC if it's zero"

TrapSignal(trap) ==
    CASE trap \in Files -> "EMT"
      [] trap = "TRAP_EXIT" -> "QUIT"
      [] trap = "TRAP_PASS" -> "USR1"
      [] trap = "TRAP_FAIL" -> "USR2"
      [] trap = "TRAP_SYSCALL" -> IF r3 \in SYS THEN "EMT" ELSE "SYS"
      [] OTHER -> "SYS"
\* Mutant: exceptions are looked at before the breakpoint.
FindExceptionFirst ==
    CASE ~isValidPc(pc) -> "ILL"
      [] isValidPc(pc) /\ getException # "NONE" -> getException
      [] isValidPc(pc) /\ getException = "NONE" /\ At(Last(pc)) = "bkpt" -> "TRAP"
      [] OTHER -> IF Search(Last(pc)) \in Traps THEN TrapSignal(Search(Last(pc))) ELSE "NONE"
findStopReason ==
    CASE ~isValidPc(pc) -> "ILL"
      [] isValidPc(pc) /\ At(Last(pc)) = "bkpt" -> "TRAP"
      [] isValidPc(pc) /\ At(Last(pc)) # "bkpt" /\ getException # "NONE" -> getException
      [] OTHER -> IF Search(Last(pc)) \in Traps THEN TrapSignal(Search(Last(pc))) ELSE "NONE"

Examine ==
    /\ halted /\ sig = "unasked"
    /\ sig' = findStopReason
    /\ pc' = IF sig' = "TRAP" THEN Last(pc) ELSE pc          \* writePc
    /\ UNCHANGED <<program, halted, active, excause, r3, runState, called, info, history>>

\* getStopInstr. Mutant: only the instruction just before the pc.
StopInstrBefore == IF At(pc - 1) \in Traps \cup {"bkpt", "idle"} THEN At(pc - 1) ELSE "nop"
getStopInstr ==
    CASE At(pc - 1) \in {"bkpt", "idle"} -> At(pc - 1)
      [] OTHER -> IF Search(pc - 1) \in Traps THEN Search(pc - 1) ELSE "nop"

\* redirectStdioOnTrap: the request to the client, without a terminal of the server's own.
Request(trap) ==
    CASE trap = "TRAP_WRITE" -> "Fwrite" [] trap = "TRAP_READ" -> "Fread"
      [] trap = "TRAP_OPEN" -> "Fopen"   [] trap = "TRAP_CLOSE" -> "Fclose"
      [] trap = "TRAP_EXIT" -> "T03"
      [] OTHER -> "nothing"
CallRequest(n) ==
    CASE n = "SYS_open" -> "Fopen"     [] n = "SYS_close" -> "Fclose" [] n = "SYS_read" -> "Fread"
      [] n = "SYS_write" -> "Fwrite"   [] n = "SYS_lseek" -> "Flseek" [] n = "SYS_unlink" -> "Funlink"
      [] n = "SYS_fstat" -> "Ffstat"   [] n = "SYS_stat" -> "Fstat"
      [] OTHER -> "echo"                                   \* the packet as it was left
redirectStdioOnTrap(trap) == IF trap = "TRAP_SYSCALL" THEN CallRequest(r3) ELSE Request(trap)

ServeCall ==
    /\ sig = "EMT" /\ called = "none" /\ called' = redirectStdioOnTrap(getStopInstr)
    /\ UNCHANGED <<program, core, runState, sig, info, history>>

-----------------------------------------------------------------------------
(* Halt, resume, activate *)

resume == halted' = FALSE /\ sig' = "unasked" /\ called' = "none" /\ stop' = "none"

\* The F reply: an error number goes to R3.
FileIOReply ==
    /\ called \notin {"none", "nothing"} /\ resume /\ r3' \in {r3, "errno"}
    /\ UNCHANGED <<program, pc, active, excause, runState, info, due, rested>>
\* The client takes a breakpoint away before it lets the core run over it.
Continue ==
    /\ halted /\ sig \notin {"unasked", "EMT"} /\ pc \notin bkpts /\ resume
    /\ UNCHANGED <<program, pc, active, excause, r3, runState, info, due, rested>>
Halt ==
    /\ ~halted /\ halted' = TRUE
    /\ UNCHANGED <<program, pc, active, excause, r3, server, history>>

\* Thread::isIdle asks the core unless it was idle the last time.
isIdle == runState = "idle" \/ ~active
haltAndActivate ==
    /\ halted' = TRUE
    /\ active' = (isIdle \/ active) /\ runState' = "active"
    /\ rested' = (rested /\ ~isIdle)
    /\ UNCHANGED <<program, pc, excause, r3, sig, called, info, stop, due>>

rspThreadExtraInfo ==
    /\ info' = IF isIdle THEN "idle" ELSE "active"
    /\ runState' = info'
    /\ UNCHANGED <<program, core, sig, called, history>>

\* The client, once it was told of the stop, or in non-stop mode at any time.
Breakpoint ==
    /\ NonStop \/ (halted /\ sig \notin {"unasked", "EMT"})
    /\ \E s \in Starts : bkpts' = (bkpts \ {s}) \/ bkpts' = bkpts \cup {s}
    /\ bkpts' # bkpts
    /\ UNCHANGED <<code, core, server, history>>

Next ==
    \/ Execute \/ Raise \/ FallIdle \/ Wake \/ HitBkpt \/ HitTrap
    \/ Examine \/ ServeCall \/ FileIOReply \/ Continue \/ Halt \/ haltAndActivate \/ rspThreadExtraInfo
    \/ Breakpoint
Spec == Init /\ [][Next]_vars

-----------------------------------------------------------------------------
\* A core that stopped by itself is named after the instruction it stopped at, wherever behind the
\* NOPs it came to rest, and after a breakpoint the program goes on at the instruction replaced.
\* An exception the program has had before hides a TRAP.
SelfStopNamed ==
    sig # "unasked" /\ stop # "none" /\ isValidPc(pc) =>
        CASE stop = "bkpt" -> sig = "TRAP" /\ pc = due
          [] stop # "bkpt" /\ excause = "NONE" -> sig = TrapSignal(stop)
          [] OTHER -> sig = getException

\* Each stop that is taken for a call of the host becomes one request that the client can answer,
\* and it is the call the core trapped for.
CallAnswerable == ServeCall /\ stop # "none" => called' \notin {"nothing", "echo", "T03"} /\ called' = redirectStdioOnTrap(stop)

\* A core that the list of threads calls idle has been idle since it was last made active.
InfoRight == info' # info /\ info' = "idle" => rested

\* What the comment of findStopReason says of a core that was halted from outside.
ExternalStopTold == sig # "unasked" /\ stop = "none" /\ isValidPc(pc) /\ excause = "NONE" => sig = "NONE"
-----------------------------------------------------------------------------
(* Why: up to findStopReason, and as long as a call waits, the breakpoints stay as they were when
   the core stopped. *)

Places ==
    /\ IsProgram(code) /\ bkpts \subseteq Starts /\ pc \in Nat
    /\ stop \in Traps \cup {"none", "bkpt"} /\ excause \in {"NONE"} \cup Causes
Resting ==
    /\ ~halted => sig = "unasked" /\ stop = "none"
    /\ called # "none" => sig = "EMT"
    /\ sig = "EMT" => isValidPc(pc) /\ stop # "bkpt"
\* Behind a TRAP there are only NOPs up to where the core rests.
BehindTrap ==
    sig \in {"unasked", "EMT"} /\ stop \in Traps => \E s \in Slots : At(s) = stop /\ pc \in Behind(s)
BehindBkpt == sig = "unasked" /\ stop = "bkpt" => isValidPc(due) /\ At(due) = "bkpt" /\ pc = due + 1
\* A core comes to a breakpoint from the instruction before, not by way of one that was taken
\* away: findStopReason may take the pc back when the core was halted just behind a breakpoint.
Aligned ==
    sig \in {"unasked", "EMT"} /\ stop # "bkpt" /\ isValidPc(pc) =>
        \/ pc = due \/ pc \notin bkpts
        \/ halted /\ sig = "unasked" /\ pc - 1 \in Slots /\ At(pc - 1) = "bkpt" /\ pc - 1 \notin Starts
IdleKnown == (runState = "idle" \/ ~active) => rested
RunInv == Places /\ Resting /\ BehindTrap /\ BehindBkpt /\ Aligned /\ IdleKnown /\ SelfStopNamed
=============================================================================
