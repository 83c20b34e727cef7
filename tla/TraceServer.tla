----------------------------- MODULE TraceServer -----------------------------
(***************************************************************************)
(* e-trace-server: the daemon that moves events from the trace buffers     *)
(* with trace_read_n into a file with trace_file_write_n, from one key to  *)
(* the next, and closes the file with a trailer that holds the number of   *)
(* its events.  write may fail, or write a part only.                      *)
(***************************************************************************)
EXTENDS TraceBuffer

CONSTANTS
  TbSize,       \* events the daemon's buffer tb holds
  MaxRetries,   \* 5
  ServerEvents  \* bound: events a core writes while the daemon runs

ASSUME ServerAssumption == TbSize \in Nat \ {0} /\ MaxRetries \in Nat \ {0} /\ ServerEvents \in Nat

VARIABLES
  pc,        \* where the daemon is
  key,       \* return has been pressed and not been read
  mark,      \* events read before the trace_read_n at hand
  left,      \* bytesToWrite, in events
  retryCnt,
  file,      \* the events in the file
  count,     \* traceEventCnt
  trailer,   \* the number in the trailer, -1 when there is none
  cut        \* history: a write has been short

fileVars == <<mark, left, retryCnt, file, count, trailer, cut>>
serverVars == <<vars, pc, key, fileVars>>

\* What trace_read_n has put into tb, and how much.
Tb == SubSeq(got, mark + 1, Len(got))
NEvent == Len(Tb)

\* trace_init and trace_start have succeeded.
ServerInit ==
  /\ Init
  /\ pc = "open"
  /\ key = FALSE
  /\ mark = 0 /\ left = 0 /\ retryCnt = 0
  /\ file = <<>>
  /\ count = 0 /\ trailer = -1 /\ cut = FALSE

\* trace_file_open; the server gives up when it fails.
Open ==
  /\ pc = "open"
  /\ pc' \in {"wait", "exit"}
  /\ UNCHANGED <<vars, key, fileVars>>

\* The first return, which the daemon sleeps for, begins the capture; cores write
\* meanwhile.
StartCapture ==
  /\ pc = "wait" /\ key
  /\ key' = FALSE
  /\ pc' = "loop"
  /\ UNCHANGED <<vars, fileVars>>

\* Mutant: tb is filled on from where it ended.
ReadTbOn ==
  /\ pc = "loop"
  /\ Begin("read_n", multi, TbSize)
  /\ pc' = "read"
  /\ UNCHANGED <<key, fileVars>>

\* nEvent = trace_read_n(tb, 1024).
ReadTb ==
  /\ pc = "loop"
  /\ Begin("read_n", multi, TbSize)
  /\ mark' = Len(got)
  /\ pc' = "read"
  /\ UNCHANGED <<key, left, retryCnt, file, count, trailer, cut>>

Reading ==
  /\ pc = "read"
  /\ InCall
  /\ UNCHANGED <<pc, key, fileVars>>

\* It has returned: trace_file_write_n begins, or the daemon sleeps.
HaveRead ==
  /\ pc = "read" /\ call.at = "idle"
  /\ pc' = IF NEvent > 0 THEN "write" ELSE "key"
  /\ left' = NEvent /\ retryCnt' = 0
  /\ UNCHANGED <<vars, key, mark, file, count, trailer, cut>>

\* trace_file_write_n returns after a write of n events.
WriteDone(n) ==
  /\ pc' = "key"
  /\ count' = count + n

\* write takes all it is given, which is tb from its start every time.
WriteFull ==
  /\ pc = "write"
  /\ file' = file \o Tb
  /\ UNCHANGED left
  /\ WriteDone(NEvent)
  /\ UNCHANGED <<vars, key, mark, retryCnt, trailer, cut>>

\* write takes the first n events only (whole ones): fewer than there are left
\* to write, so that the daemon tries again or gives up, or enough of them.
WriteShort ==
  /\ pc = "write"
  /\ cut' = TRUE
  /\ \E n \in 0 .. NEvent - 1 :
       /\ file' = file \o SubSeq(Tb, 1, n)
       /\ IF n < left
          THEN /\ left' = left - n
               /\ retryCnt' = retryCnt + 1
               /\ IF retryCnt + 1 < MaxRetries
                  THEN UNCHANGED <<pc, count>>
                  ELSE WriteDone(n)
          ELSE UNCHANGED <<left, retryCnt>> /\ WriteDone(n)
  /\ UNCHANGED <<vars, key, mark, trailer>>

\* write fails: trace_file_write_n returns -1, which the daemon does not look at.
WriteError ==
  /\ pc = "write"
  /\ pc' = "key"
  /\ UNCHANGED <<vars, key, mark, left, retryCnt, file, count, trailer, cut>>

\* The user presses return, at any time and as often as he likes; what is typed
\* before the daemon looks counts once.
Press ==
  /\ ~key
  /\ key' = TRUE
  /\ UNCHANGED <<vars, pc, fileVars>>

\* The daemon reads its standard input.
Key ==
  /\ pc = "key"
  /\ pc' = IF key THEN "close" ELSE "loop"
  /\ key' = FALSE
  /\ UNCHANGED <<vars, fileVars>>

\* trace_file_close; trace_stop and trace_finalize follow.
Close ==
  /\ pc = "close"
  /\ trailer' = count
  /\ pc' = "exit"
  /\ UNCHANGED <<vars, key, mark, left, retryCnt, file, count, cut>>

ServerCores == (\E c \in Cores : sent[c] < ServerEvents /\ Write(c)) /\ UNCHANGED <<pc, key, fileVars>>

Daemon ==
  \/ Open \/ StartCapture \/ ReadTb \/ Reading \/ HaveRead
  \/ WriteFull \/ WriteShort \/ WriteError \/ Key \/ Close

ServerNext == ServerCores \/ Press \/ Daemon

-----------------------------------------------------------------------------
ServerTypeOK ==
  /\ pc \in {"open", "wait", "loop", "read", "write", "key", "close", "exit"}
  /\ key \in BOOLEAN
  /\ mark \in 0 .. Len(got)
  /\ left \in 0 .. TbSize
  /\ retryCnt \in 0 .. MaxRetries
  /\ file \in Seq([lo : Events, hi : Events])
  /\ count \in Nat
  /\ trailer \in {-1} \cup 0 .. Len(file)
  /\ cut \in BOOLEAN

\* Unless a write was short, the file holds the events of each core in the order
\* in which the core wrote them, none of them twice, although trace_file_write_n
\* may fail and cores write while the daemon reads.
FileInOrder ==
  cut \/ \A i, j \in DOMAIN file :
    i < j /\ file[i].lo[1] = file[j].lo[1] => file[i].lo[2] < file[j].lo[2]

\* The trailer of a closed file says how many events the file holds:
\* traceEventCnt is "how many events have we written".
TrailerExact == trailer # -1 => trailer = Len(file)

\* It does so when no write was short, whichever writes failed.
TrailerCounts == cut \/ TrailerExact

-----------------------------------------------------------------------------
(* Why.  What is in the file was read before what is still to be written. *)

Behind == IF ~cut /\ pc \in {"read", "write"} THEN mark ELSE Len(got)
Filed == \A i \in DOMAIN file : \E k \in 1 .. Behind : file[i] = got[k]
AtRead ==
  /\ call.at # "idle" => pc = "read" /\ call.fn = "read_n" /\ call.max = TbSize
  /\ pc = "read" /\ call.at # "idle" =>
       Len(got) = mark + call.cnt + (IF call.at \in Clearing THEN 1 ELSE 0)
  /\ pc \in {"read", "write"} => Len(got) <= mark + TbSize
Counted ==
  /\ count <= Len(file) /\ (cut \/ count = Len(file))
  /\ pc = "write" => retryCnt < MaxRetries
  /\ trailer # -1 => pc = "exit" /\ trailer = count
SInv == ServerTypeOK /\ FileInOrder /\ TrailerCounts /\ Filed /\ AtRead /\ Counted

\* A return that is pressed once the capture has begun brings the server to its
\* end, whatever the cores and the disk do and wherever it is; one that is pressed
\* before begins the capture.
Capturing == pc \in {"loop", "read", "write", "key", "close"}
StopsAfterKey == (key /\ Capturing ~> pc = "exit") /\ (key /\ pc = "wait" ~> Capturing)
=============================================================================
