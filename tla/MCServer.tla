------------------------------- MODULE MCServer -------------------------------
(* Parts of the server beside the run control, one at a time: breakpoints in   *)
(* the memory, the tables of threads and processes, one core that runs, long   *)
(* replies, and the connection.                                                *)
(* Breakpoints: one instruction in each of two cores, two in the external      *)
(* memory, whose last byte cannot be reached.  Documents shorter and longer    *)
(* than a packet of six bytes, of which the client asks for up to six.         *)
EXTENDS Breakpoints

CONSTANTS Chips, Rectangles, ULong, MaxPid,                  \* tables: see Processes
          Programs, Numbers,                                 \* a core that runs: CoreRun
          BufSize, Asks, Lengths, MaxChanges, Nybble,        \* long replies: Transfers
          Chunks, MaxRequests, MaxVersion, MaxFaults, MaxBreaks, MaxSessions      \* RspConnection

\* An object has a number of packets.
ASSUME LineAssumption == Chunks \in Nat \ {0}

VARIABLES part,
          chip, core2Tid, threads, members, owner, attached, current, allStop, up, listed, fresh,
          code, bkpts, pc, halted, active, excause, r3, runState, sig, called, info, stop, due, rested,
          doc, reply, got, done, cut,
          at, putting, cache, pendBrk, leaked, version, toServer, toClient, want, id, ask, chunks, taken, runs, used

Tables == INSTANCE Processes
Run == INSTANCE CoreRun WITH NonStop <- FALSE
Wire == INSTANCE Transfers
Line == INSTANCE RspConnection WITH pc <- at, reply <- putting, got <- chunks

ASSUME ChipsAssumption == \A g \in Chips : Tables!IsChip(g)
ASSUME ProgramsAssumption == \A p \in Programs : Run!IsProgram(p)

ASSUME PacketAssumption == BufSize \in Nat \ {0, 1} /\ Asks \subseteq Nat /\ Lengths \subseteq Nat
ASSUME DigitAssumption == Nybble \in Nat \ {0} /\ Nybble % 2 = 0

lineVars == <<at, putting, cache, pendBrk, leaked, version, toServer, toClient, want, id, ask, chunks, taken, runs, used>>
wireVars == <<doc, reply, got, done, cut>>
tableVars == <<chip, core2Tid, threads, members, owner, attached, current, allStop, up, listed, fresh>>
runVars == <<code, bkpts, pc, halted, active, excause, r3, runState, sig, called, info, stop, due, rested>>
NoTables ==
    /\ chip = [rows |-> 0, cols |-> 0] /\ core2Tid = <<>> /\ threads = {} /\ members = <<>> /\ owner = <<>>
    /\ attached = {} /\ current = 0 /\ allStop = FALSE /\ up = FALSE /\ listed = {} /\ fresh = FALSE
NoRun ==
    /\ code = <<>> /\ bkpts = {} /\ pc = 0 /\ halted = FALSE /\ active = FALSE /\ excause = "" /\ r3 = ""
    /\ runState = "" /\ sig = "" /\ called = "" /\ info = "" /\ stop = "" /\ due = 0 /\ rested = FALSE
NoWire == doc = [version |-> 0, len |-> 0] /\ reply = doc /\ got = <<>> /\ done = FALSE /\ cut = FALSE
NoMemory == mem = <<>> /\ hash = <<>> /\ member = <<>> /\ cur = 0 /\ truth = <<>> /\ planted = {} /\ spoilt = {}

\* (One of the two values of a byte, of which the memory is full at first, is enough.)
MCInit ==
    /\ Line!Init
    /\ \/ part = "memory" /\ Init /\ mem \in [Bytes -> {"x"}] /\ NoTables /\ NoRun /\ NoWire
       \/ part = "tables" /\ Tables!Init /\ NoMemory /\ NoRun /\ NoWire
       \/ part = "run" /\ Run!Init /\ NoMemory /\ NoTables /\ NoWire
       \/ part = "wire" /\ Wire!Init /\ NoMemory /\ NoTables /\ NoRun
       \/ part = "line" /\ NoMemory /\ NoTables /\ NoRun /\ NoWire
MCNext ==
    /\ UNCHANGED part
    /\ \/ part = "memory" /\ Next /\ UNCHANGED <<tableVars, runVars, wireVars, lineVars>>
       \/ part = "tables" /\ Tables!Next /\ UNCHANGED <<vars, runVars, wireVars, lineVars>>
       \/ part = "run" /\ Run!Next /\ UNCHANGED <<vars, tableVars, wireVars, lineVars>>
       \/ part = "wire" /\ Wire!Next /\ UNCHANGED <<vars, tableVars, runVars, lineVars>>
       \/ part = "line" /\ Line!Next /\ UNCHANGED <<vars, tableVars, runVars, wireVars>>

\* Without a client the connection is fair by itself: this asks nothing of the other parts.
LineFairness == WF_lineVars(Line!Getting) /\ WF_lineVars(Line!Waiting) /\ WF_lineVars(Line!Putting) /\ WF_lineVars(Line!Taking)
MCSpec == MCInit /\ [][MCNext]_<<part, vars, tableVars, runVars, wireVars, lineVars>> /\ LineFairness

InPart(p, P) == part = p => P
NeverShown == InPart("memory", Transparent)
BreakpointsKept == InPart("memory", Armed /\ NothingLeft)
TablesRight == InPart("tables", Tables!OneProcess /\ Tables!ListedAlive /\ Tables!CoresTold)
SelfStopNamed == InPart("run", Run!SelfStopNamed)
CallsAnswerable == [][part = "run" => Run!CallAnswerable /\ Run!InfoRight]_runVars
RepliesWhole == InPart("wire", Wire!TransferWhole /\ Wire!CodingRight)
AnswersMatch == Line!AnswersMatch /\ Line!OneVersion /\ Line!CarriedOutOnce
Answered == Line!Answered /\ Line!BreakAnswered

SmallAddresses == {0, 1} \cup 16 .. 19
Geometry(r, c) == [yid |-> 32, xid |-> 8, rows |-> r, cols |-> c]
SmallChips == {Geometry(2, 2), Geometry(1, 2), Geometry(2, 1)}
Rect(r, c, rs, cs) == [row |-> r, col |-> c, rows |-> rs, cols |-> cs]
SmallRectangles == {Rect(0, 0, 1, 1), Rect(0, 1, 2, 1), Rect(0, 0, 2, 2), Rect(0, 0, 0, 1), Rect(1, 0, 15, 1)}
Program(s) == [i \in 0 .. Len(s) - 1 |-> s[i + 1]]
SmallPrograms == {Program(<<"op", "TRAP_SYSCALL", "nop", "nop", "jump">>),
                  Program(<<"long", "bkpt", "TRAP_WRITE", "nop", "idle", "jump">>),
                  Program(<<"op", "fault", "TRAP_EXIT", "wild">>)}
===============================================================================
