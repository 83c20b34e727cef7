----------------------------- MODULE MCGdbServer -----------------------------
(* Properties of the run control, and its small instances. *)
EXTENDS GdbServer

Ran(t) == core[t].st = "halt" /\ core'[t].st = "run"
Left == conn # "open" \/ pc' = "accept" \/ attached' # attached
Printed(t) == ttyOut /\ (core[t].at = "call" \/ sig[t] = "EMT")

\* No stop is lost and no instruction under a breakpoint is skipped: a thread that
\* stopped by itself does not run again (vCont, F) before the client has been told
\* and the pc is back at the breakpoint, unless the server overlooked the stop
\* because a ctrl-C, a system call of another thread or '?' came first, or the
\* client detaches.
NoStopLost ==
    [][\A t \in Threads \ missed :
         Ran(t) /\ (t \in owed \/ core[t].at = "bkpt") => Left \/ Printed(t)]_vars

\* Every stop is told: what markPendingStops and vCont are written for (a
\* thread that was marked as stopped is reported, never continued).
StopsReported == [][\A t \in owed : Ran(t) => Left \/ Printed(t)]_vars

\* No stop is invented or told twice: what the server keeps to be told is a stop
\* that has not been told yet.
NoPhantomStop == \A t \in Threads : sig[t] # "none" => t \in owed

\* What the client was told has stopped stays halted until the client lets it
\* run.
ReportedMeansHalted ==
    synced => \A t \in Att : last[t] = "stop" => core[t].st # "run"

\* The assertions of findStopReason and doContinue hold, except that a stop that
\* is pending for a core the client has reset is asserted to be of a halted core,
\* and that a stop the client before has left pending is asserted not to be there.
AssertionsHold == fault = "assert" => sessions > 1 \/ \E t \in Threads : core[t].st = "reset"

\* A client that waits is answered when it presses ctrl-C and when a thread it
\* waits for stops.  (Without a terminal for the output of the cores.)
Expecting == ~ttyOut /\ client = "running" /\ conn = "open" /\ fault = "none" /\ \E t \in Att : last[t] = "continue" /\ (brk \/ t \in owed)
ClientAnswered == Expecting ~> ~Expecting

\* In non-stop mode every stop is told in the end, if the server lives.
StopsTold == \A t \in Threads : 
    (mode = "non-stop" /\ synced /\ t \in owed \cap Att) ~> (t \notin owed \cap Att \/ ~synced \/ fault # "none")

\* Why these hold.  Where the server and the client can be together.
AllStopWait == pc \in {"pending", "break", "wait"}
NonStopScan == pc \in {"poll", "notify", "vstopped"}
Connected == pc \notin {"accept", "dead"}
Places ==
    /\ Connected => conn # "closed" /\ sessions > 0
    /\ AllStopWait => mode = "all-stop" /\ synced
    /\ NonStopScan => mode = "non-stop" /\ (synced \/ pc # "vstopped")
    /\ pc = "accept" => conn = "closed" /\ client = "idle" /\ fault = "none"
    /\ pc = "wait" => todo \subseteq Att
    /\ fault # "none" => pc = "dead"
    /\ client = "fio" => pc = "loop" /\ mode = "all-stop" /\ synced
    /\ Connected /\ ~synced =>
         client = "idle" /\ notifying /\ ~seq /\ (pc = "notify" => todo = {})
    /\ Connected /\ seq => mode = "non-stop"

OldPids == \A p \in attached : p < nextPid

\* A stop that is marked is of a thread that stays halted, and before the bounds
\* of a session only of one that is attached in all-stop mode.
MarkedHalted == \A t \in Threads \ missed : sig[t] # "none" => core[t].at # "bkpt" /\ core[t].st # "run"
MarkedFirst ==
    sessions <= 1 /\ pc # "accept" => \A t \in Att : sig[t] # "none" => core[t].st # "run"
NoneMarked ==
    sessions = 0 \/ (sessions = 1 /\ pc # "accept" /\ (~synced \/ mode = "non-stop")) =>
      \A t \in Threads : sig[t] = "none"
NoneLeft == pc \in {"break", "wait"} => PendingThreads = {}

\* A stop that is not told is marked or can still be read from its core, and the
\* pc behind a breakpoint is of a stop that is not told.
StopsFound ==
    /\ \A t \in owed \ missed : core[t].at # "none" \/ sig[t] # "none"
    /\ \A t \in Threads : core[t].at = "bkpt" => t \in owed

\* Where a stop is looked for, a stopped thread that is to be continued has not
\* been told.
Listening ==
    /\ mode = "all-stop" \/ ~synced
    /\ AllStopWait \/ NonStopScan \/ (pc = "loop" /\ conn = "open" /\ client = "idle")
NotTold ==
    Listening => \A t \in Att : last[t] = "continue" /\ core[t].at # "none" => t \in owed

\* Of a thread that is not to be continued every stop is told or marked, and
\* while the client serves I/O that is so of all.
Told == synced => \A t \in Att \ missed : last[t] = "stop" /\ sig[t] = "none" => t \notin owed
AllHalted ==
    client = "fio" =>
      \A t \in Att : Halted(t) /\ (last[t] = "continue" /\ sig[t] = "none" => t \notin owed \ missed)

GInv ==
    /\ TypeOK /\ Places /\ OldPids /\ NoPhantomStop /\ AssertionsHold
    /\ MarkedHalted /\ MarkedFirst /\ NoneMarked /\ NoneLeft
    /\ StopsFound /\ NotTold /\ ReportedMeansHalted /\ Told /\ AllHalted

\* The invariants of the run control, and the types of its variables.
StopsRight == TypeOK /\ NoPhantomStop /\ ReportedMeansHalted /\ AssertionsHold
=============================================================================
