------------------------------ MODULE GdbServer ------------------------------
(***************************************************************************)
(* Run control of the e-server (GdbServer.cpp): the loop that serves one   *)
(* GDB client, the processes (workgroups) and threads (cores) it knows, in *)
(* all-stop and in non-stop mode.  The cores run beside the server and     *)
(* stop by themselves; the client follows the remote protocol, may press   *)
(* ctrl-C while it waits and may vanish.                                   *)
(*                                                                         *)
(* A handler is one step, except that a scan for stopped threads looks at  *)
(* one thread per step: a core may stop behind the scan.  A core that is   *)
(* told to run is taken to get past the instruction it stopped at before   *)
(* it can be halted again, and the target answers every access.            *)
(***************************************************************************)
EXTENDS Integers, FiniteSets

CONSTANTS Threads,       \* the cores, as numbers in the order of the sets of Thread*
          Stops,         \* why a core stops by itself: "bkpt", "call", "exit"
          MaxPid,        \* bound: workgroups the client makes, plus one
          MaxSessions,   \* bound: connections accepted; one if the server prints for the cores
          HaltOnAttach   \* option of the server

ASSUME ThreadsAssumption == Threads \subseteq Nat /\ IsFiniteSet(Threads) /\ Threads # {}
ASSUME StopsAssumption == Stops \subseteq {"bkpt", "call", "exit"}
ASSUME BoundsAssumption == MaxPid \in Nat \ {0} /\ MaxSessions \in Nat \ {0}

NoThread == -1
DefaultPid == 1
Pids == DefaultPid .. MaxPid

VARIABLES core,       \* per core: running, halted or just reset; the stop instruction before its pc
          last,       \* Thread::mLastAction
          sig,        \* Thread::mPendingSignal
          member,     \* the process of a thread
          attached,   \* mAttachedProcesses
          nextPid,    \* mNextPid
          cur,        \* mCurrentThread
          mode,       \* mDebugMode
          notifying,  \* mNotifyingP
          extended,   \* mExtendedMode
          ttyOut,     \* whether the server prints for the cores (option)
          pc, todo,   \* where the server is; threads its scan has still to look at
          conn,       \* the connection: "closed", "open", or "eof" when the client has gone
          sessions,   \* connections so far
          brk, pendBrk, \* a ctrl-C in the socket; mPendingBreak
          client,     \* the client: "idle", "running" (waits for a stop), "fio" (serves I/O)
          synced,     \* the client has had its answer to '?'
          seq,        \* the client is in a notification sequence
          fault,      \* an assertion of the server that failed
          owed,       \* history: threads that stopped by themselves, not yet told
          missed      \* history: those of them the server overlooked

cores   == <<core, last, sig>>
table   == <<member, attached, nextPid>>
modes   == <<mode, notifying, extended, ttyOut>>
server  == <<pc, todo, fault>>
line    == <<conn, sessions, brk, pendBrk>>
user    == <<client, synced, seq>>
history == <<owed, missed>>
vars    == <<cores, table, cur, modes, server, line, user, history>>

Running == [st |-> "run", at |-> "none"]

TypeOK ==
    /\ core \in [Threads -> [st : {"run", "halt", "reset"}, at : Stops \cup {"none"}]]
    /\ last \in [Threads -> {"stop", "continue"}]
    /\ sig \in [Threads -> {"none", "TRAP", "EMT", "QUIT"}]
    /\ member \in [Threads -> Pids] /\ attached \subseteq Pids /\ nextPid \in Pids \cup {MaxPid + 1}
    /\ cur \in Threads \cup {NoThread}
    /\ mode \in {"all-stop", "non-stop"} /\ {notifying, extended, ttyOut} \subseteq BOOLEAN
    /\ pc \in {"accept", "loop", "poll", "pending", "break", "wait", "notify", "vstopped", "dead"}
    /\ todo \subseteq Threads /\ fault \in {"none", "assert", "empty"}
    /\ conn \in {"closed", "open", "eof"} /\ sessions \in 0 .. MaxSessions
    /\ {brk, pendBrk, synced, seq} \subseteq BOOLEAN /\ client \in {"idle", "running", "fio"}
    /\ owed \subseteq Threads /\ missed \subseteq owed

-----------------------------------------------------------------------------
(* Threads and processes *)

Att == {t \in Threads : member[t] \in attached}
Of(p) == {t \in Threads : member[t] = p}

\* The server visits threads by process, then by thread: the next one of S.
Before(s, t) == member[s] < member[t] \/ (member[s] = member[t] /\ s < t)
Foremost(S) == CHOOSE t \in S : \A u \in S : ~Before(u, t)

\* The first thread of the first attached process; an empty process has none.
FirstPid == CHOOSE p \in attached : \A q \in attached : p <= q
FirstOf(p) == CHOOSE t \in Of(p) : \A u \in Of(p) : t <= u

Halted(t) == core[t].st = "halt"

\* Thread::halt and Thread::resume of every thread of S.
Halt(c, S)   == [t \in Threads |-> IF t \in S THEN [c[t] EXCEPT !.st = "halt"] ELSE c[t]]
Resume(c, S) == [t \in Threads |-> IF t \in S THEN Running ELSE c[t]]

HaltAllThreads(c) == Halt(c, Att)

SetLast(l, S, a) == [t \in Threads |-> IF t \in S THEN a ELSE l[t]]
SetSig(s, t, v)  == [s EXCEPT ![t] = v]

\* The signal of a stop; reading a breakpoint also moves the pc back to it.
Reason(c) == CASE c.at = "bkpt" -> "TRAP" [] c.at = "call" -> "EMT"
               [] c.at = "exit" -> "QUIT" [] OTHER -> "none"
Rewound(c) == IF c.at = "bkpt" THEN [c EXCEPT !.at = "none"] ELSE c

-----------------------------------------------------------------------------
Init ==
    /\ core = [t \in Threads |-> Running]
    /\ last \in [Threads -> {"stop", "continue"}]    \* not initialised by the constructor
    /\ sig = [t \in Threads |-> "none"]
    /\ member = [t \in Threads |-> DefaultPid] /\ nextPid = DefaultPid + 1
    /\ attached \in {{DefaultPid}, {}}               \* the option multiProcess
    /\ cur = NoThread /\ extended = FALSE /\ ttyOut \in BOOLEAN
    /\ mode = "all-stop" /\ notifying = FALSE
    /\ pc = "accept" /\ todo = {} /\ fault = "none"
    /\ conn = "closed" /\ sessions = 0 /\ brk = FALSE /\ pendBrk = FALSE
    /\ client = "idle" /\ synced = FALSE /\ seq = FALSE
    /\ owed = {} /\ missed = {}

\* Replies.  One that is sent while a ctrl-C is in the socket takes it for an
\* acknowledgement; one to a client that has gone is lost.
Send(to) ==
    /\ brk' = FALSE
    /\ client' = IF conn = "open" THEN to ELSE client
Reply == Send("idle") /\ UNCHANGED <<conn, sessions, pendBrk>>
After(m) == pc' = (IF m = "non-stop" THEN "poll" ELSE "loop") /\ todo' = {}
Done == After(mode)
Die(f) == fault' = f /\ pc' = "dead" /\ todo' = {}
          /\ UNCHANGED <<cores, table, cur, modes, line, user, history>>

\* The server waits in getPkt (all-stop) or looks for input (non-stop), and the
\* client, that is idle, has sent a request.
Asked == pc = "loop" /\ conn = "open" /\ client = "idle"

\* History: the stops of S are told, or the threads run on; a pc left behind a
\* breakpoint is not settled.  Leave: the client leaves the threads of S, but what
\* is marked pending stays so.  '?' and vAttach tell what is pending for t and
\* overlook what is not marked.
Settle(S) ==
    LET done == {t \in S : core'[t].at # "bkpt"} IN owed' = owed \ done /\ missed' = missed \ done
Leave(S) ==
    LET done == {t \in S : sig[t] = "none"} IN
    owed' = owed \ done /\ missed' = (missed \ done) \cup ((owed \cap S) \ done)
ToldAtOnce(t, S) ==
    LET done == {u \in {t} : sig[u] # "none" /\ core'[u].at # "bkpt"} IN
    /\ owed' = owed \ done
    /\ missed' = (missed \ done) \cup {u \in owed \cap S : sig'[u] = "none" /\ u \notin done}

\* rspReportException of t in all-stop mode, from cores c and signals s:
\* everything halts, stops of other threads are marked pending.
Marked(t, s) == {u \in Att \ {t} : last[u] = "continue" /\ s[u] = "none"}
\* Mutant: the stop of t itself stays marked.
HaltAndMarkAll(t, c, s) ==
    LET h == HaltAllThreads(c) IN
    /\ core' = [u \in Threads |-> IF u \in Marked(t, s) THEN Rewound(h[u]) ELSE h[u]]
    /\ sig' = [u \in Threads |-> IF u \in Marked(t, s) THEN Reason(h[u]) ELSE s[u]]
    /\ cur' = t

HaltAndMark(t, c, s) ==
    LET h == HaltAllThreads(c) IN
    /\ core' = [u \in Threads |-> IF u \in Marked(t, s) THEN Rewound(h[u]) ELSE h[u]]
    /\ sig' = [u \in Threads |-> IF u = t THEN "none"
                                 ELSE IF u \in Marked(t, s) THEN Reason(h[u]) ELSE s[u]]
    /\ cur' = t

-----------------------------------------------------------------------------
(* Connecting and leaving *)

DetachProcess(p)   == core' = Resume(core, Of(p)) /\ Leave(Of(p))
DetachAllProcesses == core' = Resume(core, Att) /\ Leave(Att)

\* rspServer, while not connected: all-stop, everything attached runs, and the
\* server waits in rspConnect.
Accept ==
    /\ pc = "accept" /\ conn = "closed" /\ sessions < (IF ttyOut THEN 1 ELSE MaxSessions)
    /\ mode' = "all-stop" /\ notifying' = TRUE
    /\ DetachAllProcesses
    /\ conn' = "open" /\ sessions' = sessions + 1 /\ brk' = FALSE
    /\ client' = "idle" /\ synced' = FALSE /\ seq' = FALSE
    /\ pc' = "loop" /\ todo' = {}
    /\ UNCHANGED <<last, sig, table, cur, extended, ttyOut, fault, pendBrk>>

\* The client goes away (environment).
Vanish ==
    /\ conn = "open" /\ conn' = "eof" /\ brk' = FALSE
    /\ UNCHANGED <<cores, table, cur, modes, server, sessions, pendBrk, user, history>>

Closed == conn' = "closed" /\ brk' = FALSE /\ client' = "idle" /\ synced' = FALSE /\ seq' = FALSE
          /\ pc' = "accept" /\ todo' = {} /\ UNCHANGED <<sessions, pendBrk, fault>>

\* rspClientRequest, when getPkt fails: detach from everything and close.
Lost ==
    /\ pc = "loop" /\ conn = "eof"
    /\ DetachAllProcesses /\ Closed
    /\ UNCHANGED <<last, sig, table, cur, modes>>

\* The 'D' packet.
Detach(p) ==
    /\ Asked /\ synced /\ p \in attached
    /\ DetachProcess(p)
    /\ attached' = attached \ {p} /\ cur' = NoThread
    /\ IF extended THEN Done /\ Reply /\ UNCHANGED <<synced, seq, fault>> ELSE Closed
    /\ UNCHANGED <<last, sig, member, nextPid, modes>>

\* The 'k' packet: the process of the current thread runs, the connection closes.
Kill ==
    /\ Asked /\ synced /\ cur # NoThread
    /\ DetachProcess(member[cur]) /\ Closed
    /\ UNCHANGED <<last, sig, table, cur, modes>>

-----------------------------------------------------------------------------
(* Requests about the session, processes and threads *)

\* The '!' packet, and QNonStop, which the client sends before '?'.
SetExtended ==
    /\ Asked /\ ~synced /\ extended' = TRUE /\ Reply /\ Done
    /\ UNCHANGED <<cores, table, cur, mode, notifying, ttyOut, fault, synced, seq, history>>
NonStop(m) ==
    /\ Asked /\ ~synced /\ mode' = m /\ Reply /\ After(m)
    /\ UNCHANGED <<cores, table, cur, notifying, extended, ttyOut, fault, synced, seq, history>>

\* '?' in all-stop mode.
StatusAllStop ==
    /\ Asked /\ mode = "all-stop" /\ attached # {} /\ Of(FirstPid) # {}
    /\ LET t == FirstOf(FirstPid) IN
       /\ HaltAndMark(t, HaltAllThreads(core), sig)
       /\ Send("idle")
       /\ ToldAtOnce(t, Att)
    /\ last' = SetLast(last, Att, "stop")
    /\ synced' = TRUE /\ Done
    /\ UNCHANGED <<table, modes, conn, sessions, pendBrk, fault, seq>>
StatusNone ==
    /\ Asked /\ mode = "all-stop" /\ attached = {} /\ synced' = TRUE /\ Reply /\ Done
    /\ UNCHANGED <<cores, table, cur, modes, fault, seq, history>>
\* '?' or vAttach where the first thread is taken of a process that has none left.
NoFirstThread ==
    /\ Asked /\ mode = "all-stop" /\ Of(DefaultPid) = {}
    /\ (attached # {} /\ FirstPid = DefaultPid) \/ (synced /\ DefaultPid \notin attached)
    /\ Die("empty")

\* '?' in non-stop mode starts a sequence of vStopped over all threads.
StatusNonStop ==
    /\ Asked /\ ~synced /\ mode = "non-stop"
    /\ core' = HaltAllThreads(core) /\ last' = SetLast(last, Att, "continue")
    /\ notifying' = TRUE /\ pc' = "vstopped" /\ todo' = Att /\ synced' = TRUE
    /\ UNCHANGED <<sig, table, cur, mode, extended, ttyOut, fault, line, client, seq, history>>

\* vAttach of an existing process.
AttachAllStop(p) ==
    /\ Asked /\ synced /\ mode = "all-stop" /\ p \in 1 .. nextPid - 1 \ attached /\ Of(p) # {}
    /\ attached' = attached \cup {p}
    /\ LET t == FirstOf(p)
           all == Att \cup Of(p) IN
       /\ core' = Halt(core, all)                       \* every thread is "stop": none is marked
       /\ last' = SetLast(last, all, "stop")
       /\ sig' = SetSig(sig, t, "none") /\ cur' = t
       /\ Send("idle")
       /\ ToldAtOnce(t, all)
    /\ Done /\ UNCHANGED <<member, nextPid, modes, conn, sessions, pendBrk, fault, synced, seq>>
AttachNonStop(p) ==
    /\ Asked /\ synced /\ ~seq /\ mode = "non-stop" /\ p \in 1 .. nextPid - 1 \ attached
    /\ attached' = attached \cup {p}
    /\ core' = IF HaltOnAttach THEN Halt(core, Of(p)) ELSE core
    /\ last' = SetLast(last, Of(p), "continue")
    /\ Reply /\ Done
    /\ UNCHANGED <<sig, member, nextPid, cur, modes, fault, synced, seq, history>>

\* "monitor workgroup": cores of the idle process become a process of their own.

Workgroup(S) ==
    /\ Asked /\ synced /\ ~seq /\ nextPid <= MaxPid /\ S # {} /\ S \subseteq Of(DefaultPid)
    /\ member' = [t \in Threads |-> IF t \in S THEN nextPid ELSE member[t]]
    /\ nextPid' = nextPid + 1 /\ Reply /\ Done
    /\ UNCHANGED <<cores, attached, cur, modes, fault, synced, seq, history>>

\* The 'H' packet: a thread, or any thread.
SetThread(t) ==
    /\ Asked /\ synced /\ t \in Att /\ cur' = t /\ Reply /\ Done
    /\ UNCHANGED <<cores, table, modes, fault, synced, seq, history>>
SetAnyThread ==
    /\ Asked /\ synced /\ (attached # {} => Of(FirstPid) # {})
    /\ cur' = (IF attached = {} THEN NoThread ELSE FirstOf(FirstPid)) /\ Reply /\ Done
    /\ UNCHANGED <<cores, table, modes, fault, synced, seq, history>>

\* vRun, and 'R' without its reply: the pc of the current thread becomes 0.
Restart ==
    /\ Asked /\ synced /\ ~seq /\ cur \in Att /\ core[cur].at # "none"
    /\ core' = [core EXCEPT ![cur].at = "none"] /\ Leave({cur})
    /\ Reply /\ Done
    /\ UNCHANGED <<last, sig, table, cur, modes, fault, synced, seq>>

\* "monitor swreset" of the current core and "monitor hwreset" of all: a reset
\* clears DEBUGSTATUS, the core is no longer halted.
Reset(S) ==
    /\ Asked /\ synced /\ ~seq /\ cur \in Att /\ S \in {{cur}, Threads}
    /\ core' = [t \in Threads |-> IF t \in S THEN [st |-> "reset", at |-> "none"] ELSE core[t]]
    /\ Leave(S) /\ Reply /\ Done
    /\ UNCHANGED <<last, sig, table, cur, modes, fault, synced, seq>>

\* "monitor halt" and, in non-stop mode, vCtrlC.
HaltAll ==
    /\ Asked /\ synced /\ ~seq /\ core' = HaltAllThreads(core) /\ core' # core /\ Reply /\ Done
    /\ UNCHANGED <<last, sig, table, cur, modes, fault, synced, seq, history>>

-----------------------------------------------------------------------------
(* vCont, and waiting for a stop in all-stop mode *)

\* The actions of a vCont packet, for each thread the one that matches it first.
\* Mutant: threads with a stop pending are continued too.
ResumedAll(acts) == {t \in Att : acts[t] = "continue" /\ last[t] = "stop"}

Resumed(acts) == {t \in Att : acts[t] = "continue" /\ last[t] = "stop" /\ sig[t] = "none"}
VCont(acts) ==
    /\ Asked /\ synced /\ ~seq /\ Att # {}
    /\ acts \in [Att -> {"continue", "stop", "none"}]
    /\ last' = SetLast(last, {t \in Att : acts[t] = "continue"}, "continue")
    /\ core' = Halt(Resume(core, Resumed(acts)),
                    {t \in Att : acts[t] = "stop" /\ last[t] = "continue"})
    /\ Settle(Resumed(acts))
    /\ IF mode = "non-stop"
       THEN Done /\ Reply
       ELSE /\ pc' = "pending" /\ todo' = {} /\ client' = "running" /\ UNCHANGED line
    /\ UNCHANGED <<sig, table, cur, modes, fault, synced, seq>>

\* The client presses ctrl-C while it waits (environment).
PressCtrlC ==
    /\ conn = "open" /\ client = "running" /\ ~brk /\ brk' = TRUE
    /\ UNCHANGED <<cores, table, cur, modes, server, conn, sessions, pendBrk, user, history>>

\* doContinue of t that stopped for s: a system call is passed on with nothing
\* marked, any other stop is reported.
Served(t, s, c) ==
    /\ s = "EMT"
    /\ sig' = SetSig(sig, t, "none")
    /\ IF ttyOut
       THEN core' = Resume(HaltAllThreads(c), {t}) /\ UNCHANGED <<brk, client>>
       ELSE core' = HaltAllThreads(c) /\ Send("fio")
    /\ LET done == {u \in {t} : core'[u].at # "bkpt"}
           over == {u \in owed \ {t} : sig[u] = "none" /\ last[u] = "continue"} IN
       owed' = owed \ done /\ missed' = (missed \ done) \cup over
    /\ UNCHANGED <<last, cur>>
Reported(t, s, c) ==
    /\ s # "EMT"
    /\ HaltAndMark(t, c, [sig EXCEPT ![t] = s])
    /\ last' = SetLast(last, Att, "stop")
    /\ Send("idle") /\ Settle({t})
DoContinue(t, s, c) ==
    /\ c[t].st = "halt"
    /\ Served(t, s, c) \/ Reported(t, s, c)
    /\ pc' = "loop" /\ todo' = {}
    /\ UNCHANGED <<table, modes, fault, conn, sessions, pendBrk, synced, seq>>

\* waitAllThreads: first the stops that are pending ...

PendingThreads == {t \in Att : last[t] = "continue" /\ sig[t] # "none"}
ReportPending ==
    /\ pc = "pending" /\ PendingThreads # {}
    /\ LET t == Foremost(PendingThreads) IN DoContinue(t, sig[t], core)
PendingNotHalted ==
    /\ pc = "pending" /\ PendingThreads # {} /\ ~Halted(Foremost(PendingThreads)) /\ Die("assert")
NonePending ==
    /\ pc = "pending" /\ PendingThreads = {} /\ pc' = "break"
    /\ UNCHANGED <<cores, table, cur, modes, todo, fault, line, user, history>>

\* ... then, again and again, ctrl-C and the threads in order.
\* Mutant: only the first process is looked at.
NoBreakFirst ==
    /\ pc = "break" /\ ~brk /\ ~pendBrk
    /\ pc' = "wait" /\ todo' = Of(FirstPid)
    /\ UNCHANGED <<cores, table, cur, modes, fault, line, user, history>>

NoBreak ==
    /\ pc = "break" /\ ~brk /\ ~pendBrk
    /\ pc' = "wait" /\ todo' = Att
    /\ UNCHANGED <<cores, table, cur, modes, fault, line, user, history>>

\* rspSuspend: the first thread to be continued of the last process that has one.
Continued == {t \in Att : last[t] = "continue"}
LastPid == CHOOSE p \in attached : Of(p) \cap Continued # {}
                /\ \A q \in attached : q > p => Of(q) \cap Continued = {}
Suspend ==
    /\ pc = "break" /\ (brk \/ pendBrk)
    /\ pendBrk' = FALSE /\ pc' = "loop" /\ todo' = {}
    /\ IF Continued = {}
       THEN core' = HaltAllThreads(core) /\ brk' = (brk /\ pendBrk) /\ UNCHANGED <<last, sig, cur, client, history>>
       ELSE LET t == CHOOSE u \in Of(LastPid) \cap Continued : \A v \in Of(LastPid) \cap Continued : u <= v IN
            /\ HaltAndMark(t, HaltAllThreads(core), sig)
            /\ last' = SetLast(last, Att, "stop")
            /\ missed' = missed \cup ({t} \cap owed)
            /\ Send("idle") /\ UNCHANGED owed
    /\ UNCHANGED <<table, modes, fault, conn, sessions, synced, seq>>

\* One thread of a scan.  Stopped: it was to be continued and is halted.
Stopped(t) == last[t] = "continue" /\ Halted(t)
ScanOn ==
    /\ pc \in {"wait", "notify", "vstopped"} /\ todo # {} /\ ~Stopped(Foremost(todo))
    /\ todo' = todo \ {Foremost(todo)}
    /\ UNCHANGED <<cores, table, cur, modes, pc, fault, line, user, history>>
ScanStale ==        \* the assertion of findStopReason
    /\ pc \in {"wait", "notify", "vstopped"} /\ todo # {} /\ Stopped(Foremost(todo))
    /\ sig[Foremost(todo)] # "none" /\ Die("assert")
WaitFound ==
    /\ pc = "wait" /\ todo # {}
    /\ LET t == Foremost(todo) IN
       /\ Stopped(t) /\ sig[t] = "none"
       /\ DoContinue(t, Reason(core[t]), [core EXCEPT ![t] = Rewound(@)])
WaitAgain ==
    /\ pc = "wait" /\ todo = {} /\ pc' = "break"
    /\ UNCHANGED <<cores, table, cur, modes, todo, fault, line, user, history>>

\* The 'F' packet: the result goes to the current thread, then everything that
\* is to be continued and has no stop pending runs.

FileIOReply ==
    /\ pc = "loop" /\ conn = "open" /\ client = "fio" /\ cur # NoThread
    /\ LET run == {t \in Att : last[t] = "continue" /\ sig[t] = "none"} IN
       core' = Resume(core, run) /\ Settle(run)
    /\ pc' = "pending" /\ todo' = {} /\ client' = "running"
    /\ UNCHANGED <<last, sig, table, cur, modes, fault, line, synced, seq>>

\* getPkt meets a ctrl-C outside a packet.
StrayCtrlC ==
    /\ pc = "loop" /\ brk /\ brk' = FALSE /\ pendBrk' = TRUE
    /\ UNCHANGED <<cores, table, cur, modes, server, conn, sessions, user, history>>

-----------------------------------------------------------------------------
(* Non-stop mode: notifications *)

\* rspClientNotifications, after a request or when there is no input.
Poll ==
    /\ pc = "poll" \/ (pc = "loop" /\ mode = "non-stop" /\ conn = "open")
    /\ pc' = "notify" /\ todo' = IF notifying THEN {} ELSE Att
    /\ UNCHANGED <<cores, table, cur, modes, fault, line, user, history>>

\* findStoppedThread has found t; its stop goes out as s.
Tell(t) ==
    /\ Stopped(t) /\ sig[t] = "none"
    /\ core' = [core EXCEPT ![t] = Rewound(@)] /\ last' = SetLast(last, {t}, "stop")
    /\ Settle({t})
    /\ seq' = (conn = "open")
    /\ pc' = "loop" /\ todo' = {}
    /\ UNCHANGED <<sig, table, cur, mode, extended, ttyOut, fault, line, client, synced>>

NotifyFound == pc = "notify" /\ todo # {} /\ Tell(Foremost(todo)) /\ notifying' = TRUE
NotifyNone ==
    /\ pc = "notify" /\ todo = {} /\ pc' = "loop"
    /\ UNCHANGED <<cores, table, cur, modes, todo, fault, line, user, history>>

\* The vStopped packet.
VStopped ==
    /\ Asked /\ seq /\ pc' = "vstopped" /\ todo' = Att
    /\ UNCHANGED <<cores, table, cur, modes, fault, line, user, history>>
VStoppedFound == pc = "vstopped" /\ todo # {} /\ Tell(Foremost(todo)) /\ UNCHANGED notifying
\* Mutant: the sequence is never over for the server.
VStoppedStill ==
    /\ pc = "vstopped" /\ todo = {}
    /\ seq' = FALSE /\ pc' = "loop"
    /\ UNCHANGED <<cores, table, cur, modes, todo, fault, line, client, synced, history>>

VStoppedOK ==
    /\ pc = "vstopped" /\ todo = {}
    /\ notifying' = FALSE /\ seq' = FALSE /\ pc' = "loop"
    /\ UNCHANGED <<cores, table, cur, mode, extended, ttyOut, todo, fault, line, client, synced, history>>

-----------------------------------------------------------------------------
\* A running core executes BKPT, a TRAP, or ends its program (hardware).
Stop(t, k) ==
    /\ core[t].st = "run" /\ core' = [core EXCEPT ![t] = [st |-> "halt", at |-> k]]
    /\ owed' = owed \cup {t}
    /\ UNCHANGED <<last, sig, table, cur, modes, server, line, user, missed>>

Waiting == ReportPending \/ NonePending \/ NoBreak \/ Suspend \/ WaitFound \/ WaitAgain \/ PendingNotHalted
Scanning == ScanOn \/ ScanStale \/ NotifyFound \/ NotifyNone \/ VStoppedFound \/ VStoppedOK
Session == SetExtended \/ (\E m \in {"all-stop", "non-stop"} : NonStop(m)) \/ StatusAllStop \/ StatusNone
           \/ NoFirstThread \/ StatusNonStop \/ SetAnyThread \/ (\E t \in Threads : SetThread(t))
           \/ (\E p \in Pids : AttachAllStop(p) \/ AttachNonStop(p) \/ Detach(p)) \/ Kill
           \/ (\E S \in SUBSET Threads : Workgroup(S) \/ Reset(S)) \/ Restart \/ HaltAll
           \/ (\E acts \in [Att -> {"continue", "stop", "none"}] : VCont(acts))
Environment == Vanish \/ PressCtrlC \/ (\E t \in Threads, k \in Stops : Stop(t, k))

Next == Accept \/ Lost \/ Session \/ Waiting \/ Scanning \/ Poll \/ StrayCtrlC
        \/ FileIOReply \/ VStopped \/ Environment

\* The server is one thread that the system runs; a client that serves I/O or
\* has been notified goes on with the protocol.
Fairness == WF_vars(Waiting) /\ WF_vars(Scanning) /\ WF_vars(Poll)
            /\ WF_vars(FileIOReply) /\ SF_vars(VStopped) /\ WF_vars(Lost)
Spec == Init /\ [][Next]_vars /\ Fairness
=============================================================================
