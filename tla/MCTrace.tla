-------------------------------- MODULE MCTrace --------------------------------
(* The trace buffers, one part at a time: all read calls while no core laps the *)
(* host (Calls), all calls while cores lap the host and the host leaves the     *)
(* rings (Laps: WordBytes 2 makes the rings of the host twice as long as they   *)
(* are), and the daemon, which makes one kind of request (see ReadTb).          *)
EXTENDS TraceServer

CONSTANTS LapSlots, LapBytes, LapEvents, LapRequests     \* where cores lap the host

\* What is read is right while no core has gone round its ring.
ASSUME NoLapAssumption == MaxEvents < SlotsPerCore
ASSUME LapsAssumption == LapSlots \in Nat \ {0} /\ LapBytes \in Nat \ {0} /\ LapEvents \in Nat /\ LapRequests \subseteq Nat \ {0}

VARIABLE part

Laps == INSTANCE TraceBuffer WITH SlotsPerCore <- LapSlots, WordBytes <- LapBytes, MaxEvents <- LapEvents, Requests <- LapRequests

NoServer == /\ pc = "exit" /\ key = FALSE /\ mark = 0 /\ left = 0 /\ retryCnt = 0
            /\ file = <<>> /\ count = 0 /\ trailer = -1 /\ cut = FALSE
MCInit ==
    \/ part = "calls" /\ Init /\ NoServer
    \/ part = "laps" /\ Laps!Init /\ NoServer
    \/ part = "server" /\ ServerInit
MCNext ==
    /\ UNCHANGED part
    /\ \/ part = "calls" /\ Next /\ UNCHANGED <<pc, key, fileVars>>
       \/ part = "laps" /\ Laps!Next /\ UNCHANGED <<pc, key, fileVars>>
       \/ part = "server" /\ ServerNext
MCSpec ==
    /\ MCInit /\ [][MCNext]_<<part, serverVars>>
    /\ WF_vars(part = "calls" /\ InCall) /\ SF_vars(part = "calls" /\ Timeout)
    /\ WF_serverVars(part = "server" /\ Daemon)

InPart(p, P) == part = p => P
EventsRead == InPart("calls", TypeOK /\ OldestFirst /\ NothingLost /\ FairToCores)
LapsHarmless == InPart("laps", Laps!NoWordTwice /\ Laps!WritersStayHome)
FileRight == InPart("server", ServerTypeOK /\ FileInOrder /\ TrailerCounts)
HostEnds == StopsAfterKey /\ (part = "calls" /\ call.at # "idle" ~> call.at = "idle")
=============================================================================
