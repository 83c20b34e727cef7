------------------------------ MODULE Processes ------------------------------
(***************************************************************************)
(* The tables of the e-server: which thread stands for which core, which   *)
(* process (workgroup) it belongs to, which processes the client is        *)
(* attached to, and the requests that read and change them: "monitor       *)
(* workgroup", vAttach, D, Hg, qC, T, and the lists of threads, processes  *)
(* and cores (GdbServer.cpp, ProcessInfo.cpp, GdbTid.cpp, CoreId.cpp).     *)
(*                                                                         *)
(* One chip, as a comment in initMaps says.  A process keeps its threads   *)
(* in a set of pointers: the first of them is any.  What the code does     *)
(* with a null pointer or an iterator that is no longer valid ends the     *)
(* server, or goes well.                                                   *)
(***************************************************************************)
EXTENDS Integers, FiniteSets

CONSTANTS Chips,        \* see IsChip
          Rectangles,   \* arguments of "monitor workgroup": [row, col, rows, cols]
          ULong,        \* the values of an unsigned long
          MaxPid        \* bound: processes

\* An absolute id has six bits for the row and six for the column.
IsChip(g) ==
    /\ g \in [yid : Nat, xid : Nat, rows : Nat \ {0}, cols : Nat \ {0}]
    /\ g.yid + g.rows <= 64 /\ g.xid + g.cols <= 64

NoThread == 0
IdlePid == 1

VARIABLES chip,
          core2Tid, threads,   \* mCore2Tid and the keys of mThreads; a look-up of an unknown key adds it
          members,             \* mProcesses, and mThreads of each
          owner,               \* Thread::mProcess
          attached,            \* mAttachedProcesses
          current,                 \* mCurrentThread
          allStop,             \* mDebugMode
          up,                  \* the server runs
          listed, fresh        \* history: the threads the client was told, and whether nothing has changed since
tables == <<core2Tid, threads, members, owner>>
vars == <<chip, tables, attached, current, allStop, up, listed, fresh>>

Pid == DOMAIN members
NextPid == Cardinality(Pid) + 1

-----------------------------------------------------------------------------
(* Start: initMaps, initProcesses *)

OnChip == (0 .. chip.rows - 1) \X (0 .. chip.cols - 1)
tid(c) == (c[1] + 1) * 100 + c[2] + 1
NumRows == chip.rows
NumCols == chip.rows           \* numCols += chip.num_rows

\* Absolute ids have six bits for the column; CoreId takes them apart again.
AbsId(c) == (chip.yid + c[1]) * 64 + chip.xid + c[2]
CoreId(id) == <<(id \div 64) % 256, id % 64>>

Init ==
    /\ chip \in Chips
    /\ core2Tid = [c \in OnChip |-> tid(c)] /\ threads = {core2Tid[c] : c \in OnChip}
    /\ members = [p \in {IdlePid} |-> threads] /\ owner = [t \in threads |-> IdlePid]
    /\ attached \in {{IdlePid}, {}}        \* the option multiProcess
    /\ current = NoThread /\ allStop \in BOOLEAN /\ up = TRUE
    /\ listed = {} /\ fresh = FALSE

Dies == up' = FALSE /\ UNCHANGED <<chip, tables, attached, current, allStop, listed, fresh>>
TablesSame == UNCHANGED <<chip, tables, allStop, up>>
Stale == fresh' = FALSE /\ UNCHANGED listed
FreshSame == UNCHANGED <<listed, fresh>>

-----------------------------------------------------------------------------
(* monitor workgroup <row> <col> <rows> <cols> *)

TooLarge(q) ==
    \/ q.row >= NumRows \/ q.col >= NumCols
    \/ (q.row + q.rows) % ULong > NumRows \/ (q.col + q.cols) % ULong > NumCols

\* The loops come to the cores row by row; the first that is not an idle one ends them.
Cells(q) == (q.row .. (q.row + q.rows) - 1) \X (q.col .. (q.col + q.cols) - 1)
Before(c, d) == c[1] < d[1] \/ (c[1] = d[1] /\ c[2] < d[2])
Idle(c) == c \in DOMAIN core2Tid /\ core2Tid[c] \in members[IdlePid]
FirstBad(q) == CHOOSE c \in Cells(q) : ~Idle(c) /\ \A d \in Cells(q) : Before(d, c) => Idle(d)
Taken(q) == {core2Tid[d] : d \in {e \in Cells(q) : Before(e, FirstBad(q))}}

WorkgroupMade(q) ==
    /\ ~TooLarge(q) /\ \A c \in Cells(q) : Idle(c)
    /\ NextPid <= MaxPid
    /\ LET S == {core2Tid[c] : c \in Cells(q)} IN
       /\ members' = [p \in Pid \cup {NextPid} |-> CASE p = NextPid -> S
                                                    [] p = IdlePid -> members[p] \ S
                                                    [] OTHER -> members[p]]
       /\ owner' = [t \in DOMAIN owner |-> IF t \in S THEN NextPid ELSE owner[t]]
    /\ Stale /\ UNCHANGED <<chip, core2Tid, threads, attached, current, allStop, up>>

LookedUp(c) == [d \in DOMAIN core2Tid \cup {c} |-> IF d \in DOMAIN core2Tid THEN core2Tid[d] ELSE NoThread]

\* Half way: a core that does not exist is in the maps from now on, as thread 0; the loop
\* that gives the threads back goes on from an element it has just erased.
\* Mutant: the threads taken so far are not given back.
WorkgroupKept(q) ==
    /\ ~TooLarge(q) /\ \E c \in Cells(q) : ~Idle(c)
    /\ core2Tid' = LookedUp(FirstBad(q)) /\ threads' = threads \cup {core2Tid'[FirstBad(q)]}
    /\ members' = [members EXCEPT ![IdlePid] = @ \ Taken(q)]
    /\ up' \in (IF Taken(q) = {} THEN {up} ELSE BOOLEAN)
    /\ UNCHANGED <<chip, owner, attached, current, allStop, listed, fresh>>

WorkgroupHalfWay(q) ==
    /\ ~TooLarge(q) /\ \E c \in Cells(q) : ~Idle(c)
    /\ core2Tid' = LookedUp(FirstBad(q)) /\ threads' = threads \cup {core2Tid'[FirstBad(q)]}
    /\ up' \in (IF Taken(q) = {} THEN {up} ELSE BOOLEAN)
    /\ UNCHANGED <<chip, members, owner, attached, current, allStop, listed, fresh>>

-----------------------------------------------------------------------------
(* vAttach, D, Hg, qC *)

rspAttach(p) ==
    /\ p \in Pid \ attached
    /\ IF allStop /\ members[p] = {} THEN Dies
       ELSE /\ attached' = attached \cup {p}
            /\ current' \in (IF allStop THEN members[p] ELSE {current})
            /\ TablesSame /\ Stale

rspDetach(p) ==
    /\ p \in attached /\ attached' = attached \ {p} /\ current' = NoThread
    /\ TablesSame /\ Stale

\* firstThread: of the first attached process, if there is one.
FirstPid == CHOOSE p \in attached : \A q \in attached : p <= q
firstThread == IF attached = {} THEN {NoThread} ELSE members[FirstPid]
Choose(S) == IF S = {} THEN Dies ELSE current' \in S /\ UNCHANGED attached /\ TablesSame /\ FreshSame

\* GdbTid::fromString: "-1", "0", or a process and a thread.
fromString(str) ==
    CASE str = <<"-1">> -> <<0, -1>>
      [] str = <<"0">> -> <<-1, 0>>
      [] OTHER -> str
rspSetThread(str) ==
    LET p == fromString(str)[1]
        t == fromString(str)[2] IN
    CASE p = 0 -> Choose(firstThread)
      [] p # 0 /\ t = 0 -> Choose(IF p \in attached THEN members[p] ELSE {})
      [] OTHER -> Choose({t} \cap threads)

QueryCurrent ==
    /\ current = NoThread
    /\ IF firstThread = {NoThread} THEN Dies ELSE Choose(firstThread)

-----------------------------------------------------------------------------
(* What the client is told *)

\* qXfer:threads, and qXfer:osdata for processes, load and traffic.
rspMakeTransferThreadsReply == {pt \in attached \X threads : pt[2] \in members[pt[1]]}
rspMakeOsDataProcessesReply == members
rspMakeOsDataLoadReply == DOMAIN core2Tid
TrafficOut(c) == {d \in {"north", "south", "east", "west"} :
    CASE d = "north" -> c[1] > 0         [] d = "south" -> c[1] < NumRows - 1
      [] d = "east"  -> c[2] < NumCols - 1 [] d = "west" -> c[2] > 0}
rspMakeOsDataTrafficReply == [c \in DOMAIN core2Tid |-> TrafficOut(c)]

ListThreads ==
    /\ listed' = rspMakeTransferThreadsReply /\ fresh' = TRUE
    /\ UNCHANGED <<attached, current>> /\ TablesSame

\* The 'T' packet.
rspIsThreadAlive(p, t) ==
    CASE t <= 0 -> "E02" [] t > 0 /\ t \notin threads -> "E03" [] t > 0 /\ t \in threads /\ p \notin attached -> "E05"
      [] OTHER -> IF t \in members[p] THEN "OK" ELSE "E04"

\* "monitor coreid" reads the register COREID, which holds the absolute id.
abs2rel(id) ==
    LET is(c) == CoreId(AbsId(c)) = CoreId(id)
    IN IF \E c \in OnChip : is(c) THEN CHOOSE c \in OnChip : is(c) ELSE <<0, 0>>
CommandCoreId(c) == abs2rel((chip.yid + c[1]) * 64 + chip.xid + c[2])

Next ==
    /\ up
    /\ \/ \E q \in Rectangles : WorkgroupMade(q) \/ WorkgroupHalfWay(q)
       \/ \E p \in Pid : rspAttach(p) \/ rspDetach(p)
       \/ \E p \in Pid, t \in threads \cup {0} : rspSetThread(<<p, t>>)
       \/ rspSetThread(<<"-1">>) \/ rspSetThread(<<"0">>)
       \/ QueryCurrent \/ ListThreads
Spec == Init /\ [][Next]_vars

-----------------------------------------------------------------------------
\* Every thread is in the one process it names as its own, whatever requests for workgroups
\* were refused half way.
OneProcess ==
    up => \A t \in DOMAIN owner : {p \in Pid : t \in members[p]} = {owner[t]}

\* The client can select and ask for exactly the threads it was told, until a request of its own
\* changes the processes.
ListedAlive ==
    up /\ fresh => \A p \in Pid, t \in threads : <<p, t>> \in listed <=> rspIsThreadAlive(p, t) = "OK"

\* Every core is known by one thread and reads as the relative id the maps give it.  On a square
\* chip the lists name the cores of the chip, and traffic goes between neighbours, until a request
\* for a workgroup leads to a core that does not exist.
CoresTold ==
    /\ \A c \in OnChip : CommandCoreId(c) = c /\ \A d \in OnChip : core2Tid[c] = core2Tid[d] => c = d
    /\ chip.rows = chip.cols /\ NoThread \notin threads =>
         /\ rspMakeOsDataLoadReply = OnChip
         /\ \A c \in OnChip : Cardinality(rspMakeOsDataTrafficReply[c]) =
                Cardinality({d \in OnChip : (d[1] - c[1]) * (d[1] - c[1]) + (d[2] - c[2]) * (d[2] - c[2]) = 1})
-----------------------------------------------------------------------------
(* Why *)

Tids == {tid(c) : c \in OnChip}
\* A request for a workgroup may add cores to the maps, never threads but the null one.
Cores ==
    /\ IsChip(chip) /\ OnChip \subseteq DOMAIN core2Tid /\ \A c \in OnChip : core2Tid[c] = tid(c)
    /\ \A c \in DOMAIN core2Tid \ OnChip : core2Tid[c] = NoThread /\ NoThread \in threads
    /\ Tids \subseteq threads /\ threads \subseteq Tids \cup {NoThread}
Owned ==
    /\ Cardinality(Pid) \in Nat /\ Pid = 1 .. Cardinality(Pid) /\ IdlePid \in Pid /\ attached \subseteq Pid
    /\ DOMAIN owner = Tids /\ \A t \in Tids : owner[t] \in Pid
    /\ \A p \in Pid : members[p] \subseteq Tids /\ \A t \in Tids : t \in members[p] <=> owner[t] = p
Told == fresh => listed = rspMakeTransferThreadsReply
TablesInv == Cores /\ Owned /\ Told
=============================================================================
