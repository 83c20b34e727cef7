-------------------------- MODULE MCGdbServer_proofs --------------------------
(***************************************************************************)
(* Run control of the e-server, for every number of cores, processes and   *)
(* sessions: no stop is invented, what the client was told has stopped     *)
(* stays halted, and no stop is lost but those the server overlooked.      *)
(***************************************************************************)
EXTENDS MCGdbServer, WellFoundedInduction, TLAPS

CoreStates == [st : {"run", "halt", "reset"}, at : Stops \cup {"none"}]

-----------------------------------------------------------------------------
(* The threads and processes the server picks exist.                        *)

\* A set of natural numbers has a least element.
LEMMA Smallest ==
  ASSUME NEW S, S \subseteq Nat, S # {}
  PROVE  \E m \in S : \A k \in S : m <= k
<1>. DEFINE R == {p \in Nat \X Nat : p[1] < p[2]}
<1>1. R = OpToRel(<, Nat)
  BY DEF OpToRel
<1>2. IsWellFoundedOn(R, Nat)
  BY <1>1, NatLessThanWellFounded
<1>3. \A k, m \in Nat : <<k, m>> \in R <=> k < m
  OBVIOUS
<1>. HIDE DEF R
<1>4. \E m \in S : \A k \in S : ~(<<k, m>> \in R)
  BY <1>2, WFMin
<1>5. PICK m \in S : \A k \in S : ~(<<k, m>> \in R)
  BY <1>4
<1>6. ASSUME NEW k \in S PROVE m <= k
  <2>1. k \in Nat /\ m \in Nat
    OBVIOUS
  <2>2. ~(<<k, m>> \in R)
    BY <1>5
  <2>3. ~(k < m)
    BY <1>3, <2>1, <2>2
  <2>. QED
    BY <2>1, <2>3
<1>. QED
  BY <1>6

\* The first attached process, if there is one.
LEMMA FirstPidAttached ==
  ASSUME TypeOK, attached # {}
  PROVE  FirstPid \in attached
<1>1. attached \subseteq Nat
  BY BoundsAssumption DEF TypeOK, Pids, DefaultPid
<1>2. PICK p \in attached : \A q \in attached : p <= q
  BY <1>1, Smallest
<1>. QED
  BY <1>2 DEF FirstPid

\* The first thread of a process that has one.
LEMMA FirstOfProcess ==
  ASSUME NEW p, Of(p) # {}
  PROVE  FirstOf(p) \in Of(p) /\ FirstOf(p) \in Threads
<1>1. Of(p) \subseteq Nat /\ Of(p) \subseteq Threads
  BY ThreadsAssumption DEF Of
<1>2. PICK t \in Of(p) : \A u \in Of(p) : t <= u
  BY <1>1, Smallest
<1>. QED
  BY <1>1, <1>2 DEF FirstOf

\* The next thread of a scan that is not over.
LEMMA ForemostOfScan ==
  ASSUME TypeOK, NEW S, S \subseteq Threads, S # {}
  PROVE  Foremost(S) \in S
<1>. DEFINE M == {member[t] : t \in S}
<1>1. M \subseteq Nat /\ M # {}
  BY BoundsAssumption DEF TypeOK, Pids, DefaultPid
<1>2. PICK m \in M : \A k \in M : m <= k
  BY <1>1, Smallest
<1>. DEFINE F == {t \in S : member[t] = m}
<1>3. F \subseteq Nat /\ F # {}
  BY ThreadsAssumption, <1>2
<1>4. PICK t \in F : \A u \in F : t <= u
  BY <1>3, Smallest
<1>5. \A u \in S : ~Before(u, t)
  <2>. SUFFICES ASSUME NEW u \in S PROVE ~Before(u, t)
    OBVIOUS
  <2>1. member[u] \in Nat /\ m \in Nat /\ u \in Nat /\ t \in Nat /\ m <= member[u]
    BY <1>1, <1>2, <1>3, ThreadsAssumption
  <2>2. member[u] = m => t <= u
    BY <1>4
  <2>3. member[t] = m
    BY <1>4
  <2>. QED
    BY <2>1, <2>2, <2>3 DEF Before
<1>. QED
  BY <1>4, <1>5 DEF Foremost

\* The last process with a thread to be continued, and its first such thread.
LEMMA LastToContinue ==
  ASSUME TypeOK, Continued # {}
  PROVE  LET C == Of(LastPid) \cap Continued
             t == CHOOSE u \in C : \A v \in C : u <= v
         IN  t \in C /\ t \in Threads /\ t \in Att
<1>. DEFINE P == {p \in attached : Of(p) \cap Continued # {}}
            M == {MaxPid - p : p \in P}
<1>1. P \subseteq 1 .. MaxPid /\ P # {}
  BY DEF Continued, Att, Of, TypeOK, Pids, DefaultPid
<1>2. M \subseteq Nat /\ M # {}
  BY <1>1, BoundsAssumption
<1>3. PICK m \in M : \A k \in M : m <= k
  BY <1>2, Smallest
<1>4. PICK p \in P : m = MaxPid - p
  BY <1>3
<1>5. \A q \in attached : q > p => Of(q) \cap Continued = {}
  <2>. SUFFICES ASSUME NEW q \in P, q > p PROVE FALSE
    OBVIOUS
  <2>1. p \in Nat /\ q \in Nat /\ MaxPid \in Nat
    BY <1>1, BoundsAssumption
  <2>2. MaxPid - p <= MaxPid - q
    BY <1>3, <1>4
  <2>. QED
    BY <2>1, <2>2
<1>6. LastPid \in attached /\ Of(LastPid) \cap Continued # {}
  BY <1>5 DEF LastPid
<1>. DEFINE C == Of(LastPid) \cap Continued
<1>7. C \subseteq Nat /\ C # {} /\ C \subseteq Threads /\ C \subseteq Att
  BY <1>6, ThreadsAssumption DEF Of, Continued
<1>. HIDE DEF C
<1>8. PICK u \in C : \A v \in C : u <= v
  BY <1>7, Smallest
<1>9. (CHOOSE w \in C : \A v \in C : w <= v) \in C
  BY <1>8
<1>. QED
  BY <1>7, <1>9 DEF C

-----------------------------------------------------------------------------
(* Steps that leave cores, processes and histories alone.                   *)

\* Such a step keeps the invariant when the server and the client stay where
\* they may be, and no place is reached that asks more of the threads.
LEMMA UnmovedInvariance ==
  ASSUME GInv, UNCHANGED <<cores, table, history, sessions>>, TypeOK', Places', NoneLeft',
         synced' = synced \/ attached = {},
         (~synced' \/ mode' = "non-stop") => (~synced \/ mode = "non-stop"),
         pc' = "accept" <=> pc = "accept",
         Listening' => Listening, client' = "fio" => client = "fio",
         fault' = "assert" => AssertionsHold'
  PROVE  GInv'
<1>1. UNCHANGED <<core, last, sig, member, attached, nextPid, owed, missed, sessions>>
  BY DEF cores, table, history
<1>2. Att' = Att
  BY <1>1 DEF Att
<1>3. AssertionsHold' /\ OldPids' /\ NoPhantomStop' /\ MarkedHalted' /\ StopsFound'
  BY <1>1 DEF GInv, AssertionsHold, OldPids, NoPhantomStop, MarkedHalted, StopsFound
<1>4. MarkedFirst' /\ NoneMarked'
  BY <1>1, <1>2 DEF GInv, MarkedFirst, NoneMarked
<1>5. ReportedMeansHalted' /\ Told'
  BY <1>1, <1>2 DEF GInv, ReportedMeansHalted, Told, Att
<1>6. NotTold' /\ AllHalted'
  BY <1>1, <1>2 DEF GInv, NotTold, AllHalted, Halted
<1>. QED
  BY <1>3, <1>4, <1>5, <1>6 DEF GInv

\* The client goes away.
LEMMA VanishInvariance == GInv /\ Vanish => GInv'
<1>. SUFFICES ASSUME GInv, Vanish PROVE GInv'
  OBVIOUS
<1>. USE DEF Vanish, cores, table, modes, server, user, history
<1>1. TypeOK' /\ Places' /\ NoneLeft'
  BY ZenonT(60) DEF GInv, TypeOK, Places, NoneLeft, AllStopWait, NonStopScan, Connected, PendingThreads, Att
<1>2. Listening' => Listening
  BY DEF Listening, AllStopWait, NonStopScan
<1>. QED
  BY <1>1, <1>2, UnmovedInvariance DEF GInv, AssertionsHold

\* The client presses ctrl-C.
LEMMA PressCtrlCInvariance == GInv /\ PressCtrlC => GInv'
<1>. SUFFICES ASSUME GInv, PressCtrlC PROVE GInv'
  OBVIOUS
<1>. USE DEF PressCtrlC, cores, table, modes, server, line, user, history
<1>1. TypeOK' /\ Places' /\ NoneLeft'
  BY DEF GInv, TypeOK, Places, NoneLeft, AllStopWait, NonStopScan, Connected, PendingThreads, Att
<1>2. Listening' => Listening
  BY DEF Listening, AllStopWait, NonStopScan, GInv, Places, Connected
<1>. QED
  BY <1>1, <1>2, UnmovedInvariance DEF GInv, AssertionsHold, Places, AllStopWait, NonStopScan, Connected

\* A ctrl-C outside a packet is kept.
LEMMA StrayCtrlCInvariance == GInv /\ StrayCtrlC => GInv'
<1>. SUFFICES ASSUME GInv, StrayCtrlC PROVE GInv'
  OBVIOUS
<1>. USE DEF StrayCtrlC, cores, table, modes, server, line, user, history
<1>1. TypeOK' /\ Places' /\ NoneLeft'
  BY DEF GInv, TypeOK, Places, NoneLeft, AllStopWait, NonStopScan, Connected, PendingThreads, Att
<1>2. Listening' => Listening
  BY DEF Listening, AllStopWait, NonStopScan, GInv, Places, Connected
<1>. QED
  BY <1>1, <1>2, UnmovedInvariance DEF GInv, AssertionsHold, Places, AllStopWait, NonStopScan, Connected

\* The client asks for the extended mode.
LEMMA SetExtendedInvariance == GInv /\ SetExtended => GInv'
<1>. SUFFICES ASSUME GInv, SetExtended PROVE GInv'
  OBVIOUS
<1>. USE DEF SetExtended, cores, table, modes, server, line, user, history, Asked, Reply, Send, Done, After
<1>1. TypeOK' /\ Places' /\ NoneLeft'
  BY DEF GInv, TypeOK, Places, NoneLeft, AllStopWait, NonStopScan, Connected, PendingThreads, Att
<1>2. Listening' => Listening
  BY DEF Listening, AllStopWait, NonStopScan, GInv, Places, Connected
<1>. QED
  BY <1>1, <1>2, UnmovedInvariance DEF GInv, AssertionsHold, Places, AllStopWait, NonStopScan, Connected

\* There is nothing to tell.
LEMMA StatusNoneInvariance == GInv /\ StatusNone => GInv'
<1>. SUFFICES ASSUME GInv, StatusNone PROVE GInv'
  OBVIOUS
<1>. USE DEF StatusNone, cores, table, modes, server, line, user, history, Asked, Reply, Send, Done, After
<1>1. TypeOK' /\ Places' /\ NoneLeft'
  BY DEF GInv, TypeOK, Places, NoneLeft, AllStopWait, NonStopScan, Connected, PendingThreads, Att
<1>2. Listening' => Listening
  BY DEF Listening, AllStopWait, NonStopScan, GInv, Places, Connected
<1>. QED
  BY <1>1, <1>2, UnmovedInvariance DEF GInv, AssertionsHold, Places, AllStopWait, NonStopScan, Connected

\* The client chooses any thread.
LEMMA SetAnyThreadInvariance == GInv /\ SetAnyThread => GInv'
<1>. SUFFICES ASSUME GInv, SetAnyThread PROVE GInv'
  OBVIOUS
<1>1. attached # {} => FirstOf(FirstPid) \in Threads
  BY FirstPidAttached, FirstOfProcess DEF SetAnyThread, GInv
<1>. USE DEF SetAnyThread, cores, table, modes, server, line, user, history, Asked, Reply, Send, Done, After
<1>2. TypeOK' /\ Places' /\ NoneLeft'
  BY <1>1 DEF GInv, TypeOK, Places, NoneLeft, AllStopWait, NonStopScan, Connected, PendingThreads, Att
<1>3. Listening' => Listening
  BY DEF Listening, AllStopWait, NonStopScan, GInv, Places, Connected
<1>. QED
  BY <1>2, <1>3, UnmovedInvariance DEF GInv, AssertionsHold, Places, AllStopWait, NonStopScan, Connected

\* No stop is marked.
LEMMA NonePendingInvariance == GInv /\ NonePending => GInv'
<1>. SUFFICES ASSUME GInv, NonePending PROVE GInv'
  OBVIOUS
<1>. USE DEF NonePending, cores, table, modes, server, line, user, history
<1>1. TypeOK' /\ Places' /\ NoneLeft'
  BY DEF GInv, TypeOK, Places, NoneLeft, AllStopWait, NonStopScan, Connected, PendingThreads, Att
<1>2. Listening' => Listening
  BY DEF Listening, AllStopWait, NonStopScan, GInv, Places, Connected
<1>. QED
  BY <1>1, <1>2, UnmovedInvariance DEF GInv, AssertionsHold, Places, AllStopWait, NonStopScan, Connected

\* There is no ctrl-C.
LEMMA NoBreakInvariance == GInv /\ NoBreak => GInv'
<1>. SUFFICES ASSUME GInv, NoBreak PROVE GInv'
  OBVIOUS
<1>. USE DEF NoBreak, cores, table, modes, server, line, user, history
<1>1. TypeOK' /\ Places' /\ NoneLeft'
  BY DEF GInv, TypeOK, Places, NoneLeft, AllStopWait, NonStopScan, Connected, PendingThreads, Att
<1>2. Listening' => Listening
  BY DEF Listening, AllStopWait, NonStopScan, GInv, Places, Connected
<1>. QED
  BY <1>1, <1>2, UnmovedInvariance DEF GInv, AssertionsHold, Places, AllStopWait, NonStopScan, Connected

\* The scan is over.
LEMMA WaitAgainInvariance == GInv /\ WaitAgain => GInv'
<1>. SUFFICES ASSUME GInv, WaitAgain PROVE GInv'
  OBVIOUS
<1>. USE DEF WaitAgain, cores, table, modes, server, line, user, history
<1>1. TypeOK' /\ Places' /\ NoneLeft'
  BY DEF GInv, TypeOK, Places, NoneLeft, AllStopWait, NonStopScan, Connected, PendingThreads, Att
<1>2. Listening' => Listening
  BY DEF Listening, AllStopWait, NonStopScan, GInv, Places, Connected
<1>. QED
  BY <1>1, <1>2, UnmovedInvariance DEF GInv, AssertionsHold, Places, AllStopWait, NonStopScan, Connected

\* A thread of the scan has not stopped.
LEMMA ScanOnInvariance == GInv /\ ScanOn => GInv'
<1>. SUFFICES ASSUME GInv, ScanOn PROVE GInv'
  OBVIOUS
<1>. USE DEF ScanOn, cores, table, modes, server, line, user, history, Foremost, Before
<1>1. TypeOK' /\ Places' /\ NoneLeft'
  BY DEF GInv, TypeOK, Places, NoneLeft, AllStopWait, NonStopScan, Connected, PendingThreads, Att
<1>2. Listening' => Listening
  BY DEF Listening, AllStopWait, NonStopScan, GInv, Places, Connected
<1>. QED
  BY <1>1, <1>2, UnmovedInvariance DEF GInv, AssertionsHold, Places, AllStopWait, NonStopScan, Connected

\* The server looks for stops.
LEMMA PollInvariance == GInv /\ Poll => GInv'
<1>. SUFFICES ASSUME GInv, Poll PROVE GInv'
  OBVIOUS
<1>. USE DEF Poll, cores, table, modes, server, line, user, history
<1>1. TypeOK' /\ Places' /\ NoneLeft'
  BY DEF GInv, TypeOK, Places, NoneLeft, AllStopWait, NonStopScan, Connected, PendingThreads, Att
<1>2. Listening' => Listening
  BY DEF Listening, AllStopWait, NonStopScan, GInv, Places, Connected
<1>. QED
  BY <1>1, <1>2, UnmovedInvariance DEF GInv, AssertionsHold, Places, AllStopWait, NonStopScan, Connected

\* There are none.
LEMMA NotifyNoneInvariance == GInv /\ NotifyNone => GInv'
<1>. SUFFICES ASSUME GInv, NotifyNone PROVE GInv'
  OBVIOUS
<1>. USE DEF NotifyNone, cores, table, modes, server, line, user, history
<1>1. TypeOK' /\ Places' /\ NoneLeft'
  BY DEF GInv, TypeOK, Places, NoneLeft, AllStopWait, NonStopScan, Connected, PendingThreads, Att
<1>2. Listening' => Listening
  BY DEF Listening, AllStopWait, NonStopScan, GInv, Places, Connected
<1>. QED
  BY <1>1, <1>2, UnmovedInvariance DEF GInv, AssertionsHold, Places, AllStopWait, NonStopScan, Connected

\* The client asks for the next stop.
LEMMA VStoppedInvariance == GInv /\ VStopped => GInv'
<1>. SUFFICES ASSUME GInv, VStopped PROVE GInv'
  OBVIOUS
<1>. USE DEF VStopped, cores, table, modes, server, line, user, history, Asked
<1>1. TypeOK' /\ Places' /\ NoneLeft'
  BY DEF GInv, TypeOK, Places, NoneLeft, AllStopWait, NonStopScan, Connected, PendingThreads, Att
<1>2. Listening' => Listening
  BY DEF Listening, AllStopWait, NonStopScan, GInv, Places, Connected
<1>. QED
  BY <1>1, <1>2, UnmovedInvariance DEF GInv, AssertionsHold, Places, AllStopWait, NonStopScan, Connected

\* There is no other.
LEMMA VStoppedOKInvariance == GInv /\ VStoppedOK => GInv'
<1>. SUFFICES ASSUME GInv, VStoppedOK PROVE GInv'
  OBVIOUS
<1>. USE DEF VStoppedOK, cores, table, modes, server, line, user, history
<1>1. TypeOK' /\ Places' /\ NoneLeft'
  BY DEF GInv, TypeOK, Places, NoneLeft, AllStopWait, NonStopScan, Connected, PendingThreads, Att
<1>2. Listening' => Listening
  BY DEF Listening, AllStopWait, NonStopScan, GInv, Places, Connected
<1>. QED
  BY <1>1, <1>2, UnmovedInvariance DEF GInv, AssertionsHold, Places, AllStopWait, NonStopScan, Connected

\* The first thread of an empty process is taken.
LEMMA NoFirstThreadInvariance == GInv /\ NoFirstThread => GInv'
<1>. SUFFICES ASSUME GInv, NoFirstThread PROVE GInv'
  OBVIOUS
<1>. USE DEF NoFirstThread, cores, table, modes, server, line, user, history, Asked, Die
<1>1. TypeOK' /\ Places' /\ NoneLeft'
  BY DEF GInv, TypeOK, Places, NoneLeft, AllStopWait, NonStopScan, Connected, PendingThreads, Att
<1>2. Listening' => Listening
  BY DEF Listening, AllStopWait, NonStopScan, GInv, Places, Connected
<1>. QED
  BY <1>1, <1>2, UnmovedInvariance DEF GInv, AssertionsHold, Places, AllStopWait, NonStopScan, Connected

\* The client asks for a mode.
LEMMA NonStopInvariance == ASSUME GInv, NEW m \in {"all-stop", "non-stop"}, NonStop(m) PROVE GInv'
<1>. USE DEF NonStop, cores, table, modes, server, line, user, history, Asked, Reply, Send, After
<1>1. TypeOK' /\ Places' /\ NoneLeft'
  BY DEF GInv, TypeOK, Places, NoneLeft, AllStopWait, NonStopScan, Connected
<1>2. Listening' => Listening
  BY DEF Listening, AllStopWait, NonStopScan, GInv, Places, Connected
<1>. QED
  BY <1>1, <1>2, UnmovedInvariance DEF GInv, AssertionsHold, Places, AllStopWait, NonStopScan, Connected

\* The client chooses a thread.
LEMMA SetThreadInvariance == ASSUME GInv, NEW t \in Threads, SetThread(t) PROVE GInv'
<1>. USE DEF SetThread, cores, table, modes, server, line, user, history, Asked, Reply, Send, Done, After
<1>1. TypeOK' /\ Places' /\ NoneLeft'
  BY DEF GInv, TypeOK, Places, NoneLeft, AllStopWait, NonStopScan, Connected
<1>2. Listening' => Listening
  BY DEF Listening, AllStopWait, NonStopScan, GInv, Places, Connected
<1>. QED
  BY <1>1, <1>2, UnmovedInvariance DEF GInv, AssertionsHold, Places, AllStopWait, NonStopScan, Connected

\* The assertion of doContinue fails: the thread was reset, or its stop was marked
\* in an earlier session.
LEMMA PendingNotHaltedInvariance == ASSUME GInv, PendingNotHalted PROVE GInv'
<1>. USE DEF PendingNotHalted, Die, cores, table, modes, line, user, history
<1>1. TypeOK' /\ Places' /\ NoneLeft' /\ ~Listening'
  BY DEF GInv, TypeOK, Places, NoneLeft, Listening, AllStopWait, NonStopScan, Connected
<1>2. AssertionsHold'
  <2>. DEFINE t == Foremost(PendingThreads)
  <2>1. t \in PendingThreads /\ PendingThreads \subseteq Att /\ Att \subseteq Threads
    BY ForemostOfScan DEF PendingThreads, Att, GInv
  <2>2. t \in Threads /\ core[t] \in CoreStates /\ sessions \in Nat
    BY <2>1 DEF GInv, TypeOK, CoreStates
  <2>3. sessions <= 1 => core[t].st # "run"
    BY <2>1 DEF PendingThreads, GInv, MarkedFirst
  <2>4. sessions > 1 \/ core[t].st = "reset"
    BY <2>2, <2>3 DEF CoreStates, Halted
  <2>. QED
    BY <2>2, <2>4 DEF AssertionsHold
<1>. QED
  BY <1>1, <1>2, UnmovedInvariance DEF GInv, Places, Connected

\* The assertion of findStopReason fails: only for a stop marked in an earlier session.
LEMMA ScanStaleInvariance == ASSUME GInv, ScanStale PROVE GInv'
<1>. USE DEF ScanStale, Die, cores, table, modes, line, user, history
<1>1. TypeOK' /\ Places' /\ NoneLeft' /\ ~Listening'
  BY DEF GInv, TypeOK, Places, NoneLeft, Listening, AllStopWait, NonStopScan, Connected
<1>2. AssertionsHold'
  <2>. DEFINE t == Foremost(todo)
  <2>1. t \in todo /\ t \in Threads /\ sessions \in Nat
    BY ForemostOfScan DEF GInv, TypeOK
  <2>2. CASE pc = "wait"
    <3>1. t \in Att
      BY <2>1, <2>2 DEF GInv, Places
    <3>. QED
      BY <2>2, <3>1 DEF GInv, NoneLeft, PendingThreads, Stopped
  <2>3. CASE pc \in {"notify", "vstopped"}
    <3>1. mode = "non-stop" /\ sessions > 0
      BY <2>3 DEF GInv, Places, NonStopScan, Connected
    <3>2. sessions > 1
      BY <2>1, <2>3, <3>1 DEF GInv, NoneMarked
    <3>. QED
      BY <3>2 DEF AssertionsHold
  <2>. QED
    BY <2>2, <2>3
<1>. QED
  BY <1>1, <1>2, UnmovedInvariance DEF GInv, Places, Connected

-----------------------------------------------------------------------------
(* What the operators on threads do, thread by thread.                      *)

\* Thread::halt.
LEMMA HaltEffect ==
  ASSUME NEW c \in [Threads -> CoreStates], NEW S
  PROVE  /\ Halt(c, S) \in [Threads -> CoreStates]
         /\ \A u \in Threads :
              Halt(c, S)[u].at = c[u].at /\ Halt(c, S)[u].st = IF u \in S THEN "halt" ELSE c[u].st
  BY DEF Halt, CoreStates

\* Thread::resume.
LEMMA ResumeEffect ==
  ASSUME NEW c \in [Threads -> CoreStates], NEW S
  PROVE  /\ Resume(c, S) \in [Threads -> CoreStates]
         /\ \A u \in Threads :
              /\ u \in S => Resume(c, S)[u].at = "none" /\ Resume(c, S)[u].st = "run"
              /\ u \notin S => Resume(c, S)[u] = c[u]
  BY DEF Resume, CoreStates, Running

\* Reading a stop.
LEMMA ReasonEffect ==
  ASSUME NEW c \in CoreStates
  PROVE  /\ Rewound(c) \in CoreStates /\ Rewound(c).st = c.st
         /\ Rewound(c).at = IF c.at = "bkpt" THEN "none" ELSE c.at
         /\ Reason(c) \in {"none", "TRAP", "EMT", "QUIT"}
         /\ Reason(c) # "none" <=> c.at # "none"
         /\ Reason(c) = "EMT" <=> c.at = "call"
  BY StopsAssumption DEF CoreStates, Rewound, Reason

\* The types, for the provers.
LEMMA Types ==
  ASSUME TypeOK
  PROVE  /\ core \in [Threads -> CoreStates] /\ last \in [Threads -> {"stop", "continue"}]
         /\ sig \in [Threads -> {"none", "TRAP", "EMT", "QUIT"}]
         /\ missed \subseteq owed /\ owed \subseteq Threads /\ Att \subseteq Threads
  BY DEF TypeOK, CoreStates, Att

-----------------------------------------------------------------------------
(* Cores.                                                                   *)

\* A core stops by itself.
LEMMA StopInvariance == ASSUME GInv, NEW t \in Threads, NEW k \in Stops, Stop(t, k) PROVE GInv'
<1>1. /\ core[t].st = "run" /\ core' = [core EXCEPT ![t] = [st |-> "halt", at |-> k]]
      /\ owed' = owed \cup {t}
      /\ UNCHANGED <<last, sig, member, attached, nextPid, cur, mode, notifying, extended, ttyOut, pc, todo,
                     fault, conn, sessions, brk, pendBrk, client, synced, seq, missed>>
  BY DEF Stop, table, modes, server, line, user
<1>2. core \in [Threads -> CoreStates] /\ missed \subseteq owed /\ owed \subseteq Threads /\ Att \subseteq Threads
  BY Types DEF GInv
<1>3. /\ core'[t].st = "halt" /\ core'[t].at = k /\ k # "none"
      /\ \A u \in Threads : u # t => core'[u] = core[u]
      /\ core' \in [Threads -> CoreStates]
  BY <1>1, <1>2, StopsAssumption DEF CoreStates
<1>4. Att' = Att /\ PendingThreads' = PendingThreads
  BY <1>1 DEF Att, PendingThreads
<1>5. TypeOK' /\ Places' /\ OldPids' /\ NoneLeft' /\ NoneMarked'
  BY <1>1, <1>2, <1>3, <1>4 DEF GInv, TypeOK, CoreStates, Places, OldPids, NoneLeft, NoneMarked,
     AllStopWait, NonStopScan, Connected
<1>6. NoPhantomStop' /\ AssertionsHold' /\ MarkedHalted' /\ MarkedFirst'
  BY <1>1, <1>2, <1>3, <1>4 DEF GInv, NoPhantomStop, AssertionsHold, MarkedHalted, MarkedFirst
<1>7. StopsFound' /\ NotTold'
  BY <1>1, <1>2, <1>3, <1>4 DEF GInv, StopsFound, NotTold, Listening, AllStopWait, NonStopScan
<1>8. ReportedMeansHalted' /\ Told' /\ AllHalted'
  BY <1>1, <1>2, <1>3, <1>4 DEF GInv, ReportedMeansHalted, Told, AllHalted, Halted
<1>. QED
  BY <1>5, <1>6, <1>7, <1>8 DEF GInv

-----------------------------------------------------------------------------
(* Resets, and cores that are let go.                                       *)

\* History: the client leaves the threads of S.
LEMMA LeaveEffect ==
  ASSUME TypeOK, NEW S, Leave(S)
  PROVE  /\ missed' \subseteq owed' /\ owed' \subseteq owed
         /\ \A u \in Threads : u \notin S => (u \in owed' <=> u \in owed) /\ (u \in missed' <=> u \in missed)
         /\ \A u \in Threads \cap S : u \in owed' <=> u \in owed /\ sig[u] # "none"
         /\ \A u \in Threads \cap S : u \in owed' => u \in missed'
  BY DEF Leave, TypeOK

\* What the steps do that let the threads of S go, or reset them.
LetGo(S) ==
  /\ Leave(S) /\ UNCHANGED <<last, sig>>
  /\ core' \in [Threads -> CoreStates]
  /\ \A u \in Threads : u \in S => core'[u].at = "none"
  /\ \A u \in Threads : u \notin S => core'[u] = core[u]

\* What that keeps whether the threads run or not.
LEMMA LetGoKeeps ==
  ASSUME GInv, NEW S, LetGo(S)
  PROVE  NoPhantomStop' /\ MarkedHalted' /\ StopsFound'
<1>1. /\ missed' \subseteq owed' /\ owed' \subseteq owed
      /\ \A u \in Threads : u \notin S => (u \in owed' <=> u \in owed) /\ (u \in missed' <=> u \in missed)
      /\ \A u \in Threads \cap S : u \in owed' <=> u \in owed /\ sig[u] # "none"
      /\ \A u \in Threads \cap S : u \in owed' => u \in missed'
  BY LeaveEffect DEF GInv, LetGo
<1>2. owed' \subseteq Threads /\ sig' = sig
  BY <1>1 DEF GInv, TypeOK, LetGo
<1>3. NoPhantomStop'
  BY <1>1, <1>2 DEF GInv, NoPhantomStop
<1>4. MarkedHalted'
  BY <1>1, <1>2 DEF GInv, MarkedHalted, NoPhantomStop, LetGo
<1>5. StopsFound'
  BY <1>1, <1>2 DEF GInv, StopsFound, LetGo
<1>. QED
  BY <1>3, <1>4, <1>5

\* Cores are reset.
LEMMA ResetInvariance == ASSUME GInv, NEW S, Reset(S) PROVE GInv'
<1>1. /\ UNCHANGED <<last, sig, member, attached, nextPid, cur, mode, notifying, extended, ttyOut,
                     fault, conn, sessions, pendBrk, synced, seq>>
      /\ Asked /\ synced /\ Reply /\ Done /\ Leave(S) /\ S \subseteq Threads
      /\ core' = [t \in Threads |-> IF t \in S THEN [st |-> "reset", at |-> "none"] ELSE core[t]]
  BY DEF Reset, table, modes, Reply, Att
<1>2. core \in [Threads -> CoreStates] /\ missed \subseteq owed /\ owed \subseteq Threads /\ Att \subseteq Threads
  BY Types DEF GInv
<1>3. /\ core' \in [Threads -> CoreStates]
      /\ \A u \in Threads : u \in S => core'[u].st = "reset" /\ core'[u].at = "none"
      /\ \A u \in Threads : u \notin S => core'[u] = core[u]
  BY <1>1, <1>2 DEF CoreStates
<1>4. LetGo(S)
  BY <1>1, <1>3 DEF LetGo
<1>5. NoPhantomStop' /\ MarkedHalted' /\ StopsFound'
  BY <1>4, LetGoKeeps
<1>6. /\ missed' \subseteq owed' /\ owed' \subseteq owed
      /\ \A u \in Threads : u \notin S => (u \in owed' <=> u \in owed) /\ (u \in missed' <=> u \in missed)
      /\ \A u \in Threads \cap S : u \in owed' => u \in missed'
  BY <1>1, LeaveEffect DEF GInv
<1>7. Att' = Att
  BY <1>1 DEF Att
<1>8. /\ pc = "loop" /\ conn = "open" /\ client = "idle" /\ client' = "idle" /\ fault = "none"
      /\ pc' \in {"loop", "poll"} /\ (pc' = "poll" <=> mode = "non-stop") /\ todo' = {} /\ brk' = FALSE
  BY <1>1 DEF Asked, Reply, Send, Done, After, GInv, Places
<1>9. TypeOK'
  BY <1>1, <1>3, <1>6, <1>8 DEF GInv, TypeOK, CoreStates
<1>10. Places' /\ OldPids' /\ NoneLeft' /\ NoneMarked' /\ AssertionsHold' /\ AllHalted'
  BY <1>1, <1>8 DEF GInv, TypeOK, Places, OldPids, NoneLeft, NoneMarked, AssertionsHold, AllHalted,
     AllStopWait, NonStopScan, Connected
<1>11. MarkedFirst' /\ ReportedMeansHalted' /\ Told'
  BY <1>1, <1>2, <1>3, <1>6, <1>7, <1>8 DEF GInv, MarkedFirst, ReportedMeansHalted, Told
<1>12. NotTold'
  BY <1>1, <1>2, <1>3, <1>6, <1>7, <1>8 DEF GInv, NotTold, Listening, AllStopWait, NonStopScan
<1>. QED
  BY <1>5, <1>9, <1>10, <1>11, <1>12 DEF GInv

\* The pc of the current thread becomes 0.
LEMMA RestartInvariance == ASSUME GInv, Restart PROVE GInv'
<1>1. /\ UNCHANGED <<last, sig, member, attached, nextPid, cur, mode, notifying, extended, ttyOut,
                     fault, conn, sessions, pendBrk, synced, seq>>
      /\ Asked /\ synced /\ Reply /\ Done /\ Leave({cur}) /\ cur \in Att
      /\ core' = [core EXCEPT ![cur].at = "none"]
  BY DEF Restart, table, modes, Reply
<1>2. core \in [Threads -> CoreStates] /\ missed \subseteq owed /\ owed \subseteq Threads /\ Att \subseteq Threads
  BY Types DEF GInv
<1>3. /\ core' \in [Threads -> CoreStates] /\ cur \in Threads
      /\ core'[cur].st = core[cur].st /\ core'[cur].at = "none"
      /\ \A u \in Threads : u # cur => core'[u] = core[u]
  BY <1>1, <1>2 DEF CoreStates
<1>4. LetGo({cur})
  BY <1>1, <1>3 DEF LetGo
<1>5. NoPhantomStop' /\ MarkedHalted' /\ StopsFound'
  BY <1>4, LetGoKeeps
<1>6. /\ missed' \subseteq owed' /\ owed' \subseteq owed
      /\ \A u \in Threads : u # cur => (u \in owed' <=> u \in owed) /\ (u \in missed' <=> u \in missed)
      /\ cur \in owed' => cur \in missed'
  BY <1>1, <1>3, LeaveEffect DEF GInv
<1>7. Att' = Att
  BY <1>1 DEF Att
<1>8. /\ pc = "loop" /\ conn = "open" /\ client = "idle" /\ client' = "idle" /\ fault = "none"
      /\ pc' \in {"loop", "poll"} /\ (pc' = "poll" <=> mode = "non-stop") /\ todo' = {} /\ brk' = FALSE
  BY <1>1 DEF Asked, Reply, Send, Done, After, GInv, Places
<1>9. TypeOK'
  BY <1>1, <1>3, <1>6, <1>8 DEF GInv, TypeOK, CoreStates
<1>10. Places' /\ OldPids' /\ NoneLeft' /\ NoneMarked' /\ AssertionsHold' /\ AllHalted'
  BY <1>1, <1>8 DEF GInv, TypeOK, Places, OldPids, NoneLeft, NoneMarked, AssertionsHold, AllHalted,
     AllStopWait, NonStopScan, Connected
<1>11. MarkedFirst' /\ ReportedMeansHalted' /\ Told'
  BY <1>1, <1>2, <1>3, <1>6, <1>7, <1>8 DEF GInv, MarkedFirst, ReportedMeansHalted, Told
<1>12. NotTold'
  BY <1>1, <1>2, <1>3, <1>6, <1>7, <1>8 DEF GInv, NotTold, Listening, AllStopWait, NonStopScan
<1>. QED
  BY <1>5, <1>9, <1>10, <1>11, <1>12 DEF GInv

\* All attached threads are halted.
LEMMA HaltAllInvariance == ASSUME GInv, HaltAll PROVE GInv'
<1>1. /\ UNCHANGED <<last, sig, member, attached, nextPid, cur, mode, notifying, extended, ttyOut,
                     fault, conn, sessions, pendBrk, synced, seq, owed, missed>>
      /\ Asked /\ synced /\ Reply /\ Done /\ core' = Halt(core, Att)
  BY DEF HaltAll, table, modes, history, Reply, HaltAllThreads
<1>2. core \in [Threads -> CoreStates] /\ missed \subseteq owed /\ owed \subseteq Threads /\ Att \subseteq Threads
  BY Types DEF GInv
<1>3. /\ core' \in [Threads -> CoreStates]
      /\ \A u \in Threads : core'[u].at = core[u].at /\ core'[u].st = IF u \in Att THEN "halt" ELSE core[u].st
  BY <1>1, <1>2, HaltEffect
<1>7. Att' = Att
  BY <1>1 DEF Att
<1>8. /\ pc = "loop" /\ conn = "open" /\ client = "idle" /\ client' = "idle" /\ fault = "none"
      /\ pc' \in {"loop", "poll"} /\ (pc' = "poll" <=> mode = "non-stop") /\ todo' = {} /\ brk' = FALSE
  BY <1>1 DEF Asked, Reply, Send, Done, After, GInv, Places
<1>9. TypeOK'
  BY <1>1, <1>3, <1>8 DEF GInv, TypeOK, CoreStates
<1>10. Places' /\ OldPids' /\ NoneLeft' /\ NoneMarked' /\ AssertionsHold' /\ AllHalted'
  BY <1>1, <1>8 DEF GInv, TypeOK, Places, OldPids, NoneLeft, NoneMarked, AssertionsHold, AllHalted,
     AllStopWait, NonStopScan, Connected
<1>11. NoPhantomStop' /\ MarkedHalted' /\ MarkedFirst'
  BY <1>1, <1>2, <1>3, <1>7, <1>8 DEF GInv, NoPhantomStop, MarkedHalted, MarkedFirst
<1>12. StopsFound' /\ ReportedMeansHalted' /\ Told'
  BY <1>1, <1>2, <1>3, <1>7 DEF GInv, StopsFound, ReportedMeansHalted, Told
<1>13. NotTold'
  BY <1>1, <1>2, <1>3, <1>7, <1>8 DEF GInv, NotTold, Listening, AllStopWait, NonStopScan
<1>. QED
  BY <1>9, <1>10, <1>11, <1>12, <1>13 DEF GInv

\* Cores become a process, to which the client is not attached.
LEMMA WorkgroupInvariance == ASSUME GInv, NEW S, Workgroup(S) PROVE GInv'
<1>1. /\ UNCHANGED <<core, last, sig, attached, cur, mode, notifying, extended, ttyOut,
                     fault, conn, sessions, pendBrk, synced, seq, owed, missed>>
      /\ Asked /\ synced /\ Reply /\ Done /\ nextPid <= MaxPid /\ nextPid' = nextPid + 1
      /\ member' = [t \in Threads |-> IF t \in S THEN nextPid ELSE member[t]]
  BY DEF Workgroup, cores, modes, history, Reply
<1>2. core \in [Threads -> CoreStates] /\ missed \subseteq owed /\ owed \subseteq Threads /\ Att \subseteq Threads
  BY Types DEF GInv
<1>3. nextPid \in Nat /\ nextPid >= 1 /\ attached \subseteq Nat
  BY BoundsAssumption DEF GInv, TypeOK, Pids, DefaultPid
<1>7. Att' \subseteq Att
  BY <1>1, <1>3 DEF GInv, OldPids, Att
<1>8. /\ pc = "loop" /\ conn = "open" /\ client = "idle" /\ client' = "idle" /\ fault = "none"
      /\ pc' \in {"loop", "poll"} /\ (pc' = "poll" <=> mode = "non-stop") /\ todo' = {} /\ brk' = FALSE
  BY <1>1 DEF Asked, Reply, Send, Done, After, GInv, Places
<1>9. TypeOK'
  <2>1. nextPid \in Pids /\ nextPid' \in Pids \cup {MaxPid + 1}
    BY <1>1, <1>3, BoundsAssumption DEF Pids, DefaultPid
  <2>2. member' \in [Threads -> Pids]
    BY <1>1, <2>1 DEF GInv, TypeOK
  <2>. QED
    BY <1>1, <1>8, <2>1, <2>2 DEF GInv, TypeOK
<1>10. Places' /\ OldPids' /\ NoneLeft' /\ NoneMarked' /\ AssertionsHold' /\ AllHalted'
  BY <1>1, <1>3, <1>8 DEF GInv, TypeOK, Places, OldPids, NoneLeft, NoneMarked, AssertionsHold, AllHalted,
     AllStopWait, NonStopScan, Connected
<1>11. NoPhantomStop' /\ MarkedHalted' /\ MarkedFirst'
  BY <1>1, <1>2, <1>7, <1>8 DEF GInv, NoPhantomStop, MarkedHalted, MarkedFirst
<1>12. StopsFound' /\ ReportedMeansHalted' /\ Told'
  BY <1>1, <1>2, <1>7 DEF GInv, StopsFound, ReportedMeansHalted, Told
<1>13. NotTold'
  BY <1>1, <1>2, <1>7, <1>8 DEF GInv, NotTold, Listening, AllStopWait, NonStopScan
<1>. QED
  BY <1>9, <1>10, <1>11, <1>12, <1>13 DEF GInv

\* The threads of S are resumed and left.
LEMMA ResumedLetGo ==
  ASSUME GInv, NEW S, core' = Resume(core, S), Leave(S), UNCHANGED <<last, sig>>
  PROVE  LetGo(S)
<1>1. core \in [Threads -> CoreStates]
  BY Types DEF GInv
<1>2. /\ Resume(core, S) \in [Threads -> CoreStates]
      /\ \A u \in Threads :
           /\ u \in S => Resume(core, S)[u].at = "none" /\ Resume(core, S)[u].st = "run"
           /\ u \notin S => Resume(core, S)[u] = core[u]
  BY <1>1, ResumeEffect
<1>. QED
  BY <1>2 DEF LetGo

\* The connection ends: the rest of the invariant asks nothing of the threads.
LEMMA ClosedInvariance ==
  ASSUME GInv, NEW S, LetGo(S), Connected, Closed, UNCHANGED <<member, nextPid, modes>>,
         attached' \subseteq attached, cur' \in Threads \cup {NoThread}
  PROVE  GInv'
<1>1. /\ UNCHANGED <<member, nextPid, mode, notifying, extended, ttyOut, fault, sessions, pendBrk, last, sig>>
      /\ conn' = "closed" /\ brk' = FALSE /\ client' = "idle" /\ synced' = FALSE /\ seq' = FALSE
      /\ pc' = "accept" /\ todo' = {} /\ fault = "none" /\ sessions > 0
  BY DEF Closed, modes, LetGo, GInv, Places, Connected
<1>2. NoPhantomStop' /\ MarkedHalted' /\ StopsFound'
  BY LetGoKeeps
<1>3. missed' \subseteq owed' /\ owed' \subseteq owed
  BY LeaveEffect DEF GInv, LetGo
<1>4. TypeOK'
  BY <1>1, <1>3 DEF GInv, TypeOK, LetGo, CoreStates
<1>5. Places' /\ OldPids' /\ NoneLeft' /\ AssertionsHold' /\ AllHalted'
  BY <1>1 DEF GInv, Places, OldPids, NoneLeft, AssertionsHold, AllHalted, AllStopWait, NonStopScan, Connected
<1>6. MarkedFirst' /\ NoneMarked' /\ ReportedMeansHalted' /\ Told' /\ NotTold'
  BY <1>1 DEF GInv, TypeOK, MarkedFirst, NoneMarked, ReportedMeansHalted, Told, NotTold, Listening,
     AllStopWait, NonStopScan
<1>. QED
  BY <1>2, <1>4, <1>5, <1>6 DEF GInv

\* The client has gone.
LEMMA LostInvariance == GInv /\ Lost => GInv'
<1>. SUFFICES ASSUME GInv, Lost PROVE GInv'
  OBVIOUS
<1>1. /\ pc = "loop" /\ core' = Resume(core, Att) /\ Leave(Att) /\ Closed
      /\ UNCHANGED <<last, sig, member, attached, nextPid, cur, modes>>
  BY DEF Lost, DetachAllProcesses, table
<1>2. LetGo(Att)
  BY <1>1, ResumedLetGo
<1>. QED
  BY <1>1, <1>2, ClosedInvariance DEF Connected, GInv, TypeOK

\* The client kills a process.
LEMMA KillInvariance == GInv /\ Kill => GInv'
<1>. SUFFICES ASSUME GInv, Kill PROVE GInv'
  OBVIOUS
<1>. DEFINE S == Of(member[cur])
<1>1. /\ pc = "loop" /\ core' = Resume(core, S) /\ Leave(S) /\ Closed
      /\ UNCHANGED <<last, sig, member, attached, nextPid, cur, modes>>
  BY DEF Kill, DetachProcess, table, Asked
<1>. HIDE DEF S
<1>2. LetGo(S)
  BY <1>1, ResumedLetGo
<1>. QED
  BY <1>1, <1>2, ClosedInvariance DEF Connected, GInv, TypeOK

\* The client leaves a process.
LEMMA DetachInvariance == ASSUME GInv, NEW p, Detach(p) PROVE GInv'
<1>. DEFINE S == Of(p)
<1>1. /\ core' = Resume(core, S) /\ Leave(S) /\ Asked /\ synced /\ p \in attached
      /\ attached' = attached \ {p} /\ cur' = NoThread
      /\ UNCHANGED <<last, sig, member, nextPid, modes>>
      /\ Closed \/ (Done /\ Reply /\ UNCHANGED <<synced, seq, fault>>)
  BY DEF Detach, DetachProcess
<1>2. \A t \in Att' : t \in Att /\ t \notin S
  BY <1>1 DEF Att, Of
<1>. HIDE DEF S
<1>3. LetGo(S)
  BY <1>1, ResumedLetGo
<1>4. CASE Closed
  BY <1>1, <1>3, <1>4, ClosedInvariance DEF Connected, Asked
<1>5. CASE Done /\ Reply /\ UNCHANGED <<synced, seq, fault>>
  <2>1. /\ UNCHANGED <<mode, notifying, extended, ttyOut, conn, sessions, pendBrk>>
        /\ pc = "loop" /\ conn = "open" /\ client = "idle" /\ client' = "idle" /\ fault = "none"
        /\ pc' \in {"loop", "poll"} /\ (pc' = "poll" <=> mode = "non-stop") /\ todo' = {} /\ brk' = FALSE
    BY <1>1, <1>5 DEF Asked, Reply, Send, Done, After, modes, GInv, Places
  <2>2. /\ missed' \subseteq owed' /\ owed' \subseteq owed
        /\ \A u \in Threads : u \notin S => (u \in owed' <=> u \in owed) /\ (u \in missed' <=> u \in missed)
    BY <1>1, LeaveEffect DEF GInv
  <2>3. core' \in [Threads -> CoreStates] /\ \A u \in Att' : u \in Threads /\ core'[u] = core[u]
    BY <1>2, <1>3, Types DEF LetGo, GInv
  <2>4. NoPhantomStop' /\ MarkedHalted' /\ StopsFound'
    BY <1>3, LetGoKeeps
  <2>5. TypeOK'
    BY <1>1, <1>5, <2>1, <2>2, <2>3 DEF GInv, TypeOK, CoreStates
  <2>6. Places' /\ OldPids' /\ NoneLeft' /\ NoneMarked' /\ AssertionsHold' /\ AllHalted'
    BY <1>1, <1>5, <2>1 DEF GInv, TypeOK, Places, OldPids, NoneLeft, NoneMarked, AssertionsHold, AllHalted,
       AllStopWait, NonStopScan, Connected
  <2>7. MarkedFirst' /\ ReportedMeansHalted' /\ Told'
    BY <1>1, <1>2, <1>5, <2>1, <2>2, <2>3 DEF GInv, MarkedFirst, ReportedMeansHalted, Told
  <2>8. NotTold'
    BY <1>1, <1>2, <1>5, <2>1, <2>2, <2>3 DEF GInv, NotTold, Listening, AllStopWait, NonStopScan
  <2>. QED
    BY <2>4, <2>5, <2>6, <2>7, <2>8 DEF GInv
<1>. QED
  BY <1>1, <1>4, <1>5

\* A client connects: everything attached runs.
LEMMA AcceptInvariance == GInv /\ Accept => GInv'
<1>. SUFFICES ASSUME GInv, Accept PROVE GInv'
  OBVIOUS
<1>1. /\ pc = "accept" /\ core' = Resume(core, Att) /\ Leave(Att)
      /\ UNCHANGED <<last, sig, member, attached, nextPid, cur, extended, ttyOut, fault, pendBrk>>
      /\ mode' = "all-stop" /\ notifying' = TRUE /\ conn' = "open" /\ sessions' = sessions + 1 /\ brk' = FALSE
      /\ client' = "idle" /\ synced' = FALSE /\ seq' = FALSE /\ pc' = "loop" /\ todo' = {} /\ fault = "none"
      /\ sessions < (IF ttyOut THEN 1 ELSE MaxSessions)
  BY DEF Accept, DetachAllProcesses, table, GInv, Places
<1>2. LetGo(Att)
  BY <1>1, ResumedLetGo
<1>3. NoPhantomStop' /\ MarkedHalted' /\ StopsFound'
  BY <1>2, LetGoKeeps
<1>4. missed' \subseteq owed' /\ owed' \subseteq owed
  BY <1>1, LeaveEffect DEF GInv
<1>5. sessions \in Nat /\ sessions' \in 0 .. MaxSessions
  BY <1>1, BoundsAssumption DEF GInv, TypeOK
<1>6. TypeOK'
  BY <1>1, <1>2, <1>4, <1>5 DEF GInv, TypeOK, LetGo, CoreStates
<1>7. Places' /\ OldPids' /\ NoneLeft' /\ AssertionsHold' /\ AllHalted'
  BY <1>1, <1>5 DEF GInv, Places, OldPids, NoneLeft, AssertionsHold, AllHalted, AllStopWait, NonStopScan, Connected
<1>8. MarkedFirst' /\ NoneMarked' /\ ReportedMeansHalted' /\ Told'
  BY <1>1, <1>5, Types DEF GInv, MarkedFirst, NoneMarked, ReportedMeansHalted, Told, Att
<1>9. NotTold'
  BY <1>1, <1>2, Types DEF GInv, NotTold, LetGo, Att
<1>. QED
  BY <1>3, <1>6, <1>7, <1>8, <1>9 DEF GInv

-----------------------------------------------------------------------------
(* Stops that are told while others are marked.                             *)

Signals == {"none", "TRAP", "EMT", "QUIT"}

\* rspReportException: thread by thread.
LEMMA MarkEffect ==
  ASSUME NEW t \in Threads, NEW c \in [Threads -> CoreStates], NEW s \in [Threads -> Signals],
         HaltAndMark(t, c, s), Att \subseteq Threads
  PROVE  /\ core' \in [Threads -> CoreStates] /\ sig' \in [Threads -> Signals] /\ cur' = t /\ sig'[t] = "none"
         /\ \A u \in Threads :
              /\ core'[u].st = IF u \in Att THEN "halt" ELSE c[u].st
              /\ u \in Marked(t, s) => core'[u].at = IF c[u].at = "bkpt" THEN "none" ELSE c[u].at
              /\ u \notin Marked(t, s) => core'[u].at = c[u].at
              /\ u \in Marked(t, s) => (sig'[u] = "none" <=> c[u].at = "none")
              /\ u # t /\ u \notin Marked(t, s) => sig'[u] = s[u]
<1>. DEFINE h == Halt(c, Att)
<1>1. /\ h \in [Threads -> CoreStates]
      /\ \A u \in Threads : h[u].at = c[u].at /\ h[u].st = IF u \in Att THEN "halt" ELSE c[u].st
  BY HaltEffect
<1>2. /\ core' = [u \in Threads |-> IF u \in Marked(t, s) THEN Rewound(h[u]) ELSE h[u]]
      /\ sig' = [u \in Threads |-> IF u = t THEN "none"
                                   ELSE IF u \in Marked(t, s) THEN Reason(h[u]) ELSE s[u]]
      /\ cur' = t /\ t \notin Marked(t, s)
  BY DEF HaltAndMark, HaltAllThreads, Marked
<1>. HIDE DEF h
<1>3. \A u \in Threads :
        /\ Rewound(h[u]) \in CoreStates /\ Rewound(h[u]).st = h[u].st
        /\ Rewound(h[u]).at = IF h[u].at = "bkpt" THEN "none" ELSE h[u].at
        /\ Reason(h[u]) \in Signals
        /\ Reason(h[u]) # "none" <=> h[u].at # "none"
  BY <1>1, ReasonEffect DEF Signals
<1>4. core' \in [Threads -> CoreStates] /\ sig' \in [Threads -> Signals] /\ sig'[t] = "none"
  BY <1>1, <1>2, <1>3 DEF Signals
<1>. QED
  BY <1>1, <1>2, <1>3, <1>4

\* What that does to the other threads, when it is done where stops are looked for.
LEMMA MarkKeeps ==
  ASSUME GInv, NEW t \in Threads, NEW c \in [Threads -> CoreStates], NEW s \in [Threads -> Signals],
         HaltAndMark(t, c, s), Listening,
         \A u \in Threads : u # t => c[u].at = core[u].at /\ s[u] = sig[u],
         \A u \in Threads : c[u].st = core[u].st \/ c[u].st = "halt"
  PROVE  \A u \in Threads : u # t =>
           /\ sig'[u] # "none" => u \in owed /\ (u \in missed \/ (core'[u].at # "bkpt" /\ core'[u].st # "run"))
           /\ u \in owed \ missed => core'[u].at # "none" \/ sig'[u] # "none"
           /\ core'[u].at = "bkpt" => u \in owed
           /\ u \in Att \ missed /\ sig'[u] = "none" /\ last[u] = "continue" => u \notin owed
           /\ last[u] = "stop" => sig'[u] = sig[u]
<1>1. core \in [Threads -> CoreStates] /\ missed \subseteq owed /\ owed \subseteq Threads /\ Att \subseteq Threads
  BY Types DEF GInv
<1>2. \A u \in Threads :
              /\ core'[u].st = IF u \in Att THEN "halt" ELSE c[u].st
              /\ u \in Marked(t, s) => core'[u].at = IF c[u].at = "bkpt" THEN "none" ELSE c[u].at
              /\ u \notin Marked(t, s) => core'[u].at = c[u].at
              /\ u \in Marked(t, s) => (sig'[u] = "none" <=> c[u].at = "none")
              /\ u # t /\ u \notin Marked(t, s) => sig'[u] = s[u]
  BY <1>1, MarkEffect
<1>3. \A u \in Threads : u # t => (u \in Marked(t, s) <=> u \in Att /\ last[u] = "continue" /\ sig[u] = "none")
  BY <1>1 DEF Marked
<1>. SUFFICES ASSUME NEW u \in Threads, u # t
              PROVE  /\ sig'[u] # "none" => u \in owed /\ (u \in missed \/ (core'[u].at # "bkpt" /\ core'[u].st # "run"))
                     /\ u \in owed \ missed => core'[u].at # "none" \/ sig'[u] # "none"
                     /\ core'[u].at = "bkpt" => u \in owed
                     /\ u \in Att \ missed /\ sig'[u] = "none" /\ last[u] = "continue" => u \notin owed
                     /\ last[u] = "stop" => sig'[u] = sig[u]
  OBVIOUS
<1>4. /\ c[u].at = core[u].at /\ s[u] = sig[u] /\ (c[u].st = core[u].st \/ c[u].st = "halt")
      /\ u \in Marked(t, s) <=> u \in Att /\ last[u] = "continue" /\ sig[u] = "none"
  BY <1>3
<1>5. CASE u \in Marked(t, s)
  <2>1. core[u].at # "none" => u \in owed
    BY <1>4, <1>5 DEF GInv, NotTold
  <2>2. u \in owed \ missed => core[u].at # "none"
    BY <1>4, <1>5 DEF GInv, StopsFound
  <2>. QED
    BY <1>2, <1>4, <1>5, <2>1, <2>2
<1>6. CASE u \notin Marked(t, s)
  <2>1. sig'[u] = sig[u] /\ core'[u].at = core[u].at /\ (core'[u].st = core[u].st \/ core'[u].st = "halt")
    BY <1>2, <1>4, <1>6
  <2>2. sig[u] # "none" => u \in owed /\ (u \in missed \/ (core[u].at # "bkpt" /\ core[u].st # "run"))
    BY DEF GInv, NoPhantomStop, MarkedHalted
  <2>3. /\ u \in owed \ missed => core[u].at # "none" \/ sig[u] # "none"
        /\ core[u].at = "bkpt" => u \in owed
    BY DEF GInv, StopsFound
  <2>4. u \in Att /\ last[u] = "continue" => sig[u] # "none"
    BY <1>4, <1>6
  <2>. QED
    BY <2>1, <2>2, <2>3, <2>4
<1>. QED
  BY <1>5, <1>6

\* '?' in all-stop mode: the first thread is told, other stops are marked.
LEMMA StatusAllStopInvariance == GInv /\ StatusAllStop => GInv'
<1>. SUFFICES ASSUME GInv, StatusAllStop PROVE GInv'
  OBVIOUS
<1>. DEFINE t == FirstOf(FirstPid)  c == HaltAllThreads(core)
<1>1. /\ HaltAndMark(t, c, sig) /\ Send("idle") /\ ToldAtOnce(t, Att) /\ Asked /\ mode = "all-stop"
      /\ attached # {} /\ Of(FirstPid) # {}
      /\ last' = SetLast(last, Att, "stop") /\ synced' = TRUE /\ Done
      /\ UNCHANGED <<member, attached, nextPid, mode, notifying, extended, ttyOut, conn, sessions, pendBrk, fault, seq>>
  BY DEF StatusAllStop, table, modes
<1>2. /\ core \in [Threads -> CoreStates] /\ missed \subseteq owed /\ owed \subseteq Threads /\ Att \subseteq Threads
      /\ last \in [Threads -> {"stop", "continue"}] /\ sig \in [Threads -> Signals]
  BY Types DEF GInv, Signals
<1>3. t \in Threads /\ t \in Att
  BY <1>1, FirstPidAttached, FirstOfProcess DEF GInv, Att, Of
<1>. HIDE DEF t
<1>4. /\ c \in [Threads -> CoreStates]
      /\ \A u \in Threads : c[u].at = core[u].at /\ c[u].st = IF u \in Att THEN "halt" ELSE core[u].st
  BY <1>2, HaltEffect DEF HaltAllThreads
<1>. HIDE DEF c
<1>5. /\ pc = "loop" /\ conn = "open" /\ client = "idle" /\ client' = "idle" /\ fault = "none" /\ Listening
      /\ pc' = "loop" /\ todo' = {} /\ brk' = FALSE
  BY <1>1 DEF Asked, Send, Done, After, GInv, Places, Listening
<1>6. /\ core' \in [Threads -> CoreStates] /\ sig' \in [Threads -> Signals] /\ cur' = t /\ sig'[t] = "none"
      /\ \A u \in Threads : core'[u].st = IF u \in Att THEN "halt" ELSE c[u].st
      /\ core'[t].at = core[t].at
  BY <1>1, <1>2, <1>3, <1>4, MarkEffect DEF Marked
<1>7. \A u \in Threads : u # t =>
           /\ sig'[u] # "none" => u \in owed /\ (u \in missed \/ (core'[u].at # "bkpt" /\ core'[u].st # "run"))
           /\ u \in owed \ missed => core'[u].at # "none" \/ sig'[u] # "none"
           /\ core'[u].at = "bkpt" => u \in owed
           /\ u \in Att \ missed /\ sig'[u] = "none" /\ last[u] = "continue" => u \notin owed
           /\ last[u] = "stop" => sig'[u] = sig[u]
  BY <1>1, <1>2, <1>3, <1>4, <1>5, MarkKeeps, SMTT(30)
<1>8. /\ \A u \in Threads : u # t => (u \in owed' <=> u \in owed) /\ (u \in missed => u \in missed')
      /\ t \in owed' => t \in owed
      /\ core'[t].at = "bkpt" => (t \in owed' <=> t \in owed)
      /\ \A u \in Att : u \in owed' /\ sig'[u] = "none" => u \in missed'
      /\ missed' \subseteq owed' /\ owed' \subseteq owed
  BY <1>1, <1>2, <1>3 DEF ToldAtOnce
<1>9. Att' = Att
  BY <1>1 DEF Att
<1>10. last' \in [Threads -> {"stop", "continue"}] /\ \A u \in Att : last'[u] = "stop"
  BY <1>1, <1>2 DEF SetLast
<1>11. TypeOK'
  BY <1>1, <1>2, <1>3, <1>5, <1>6, <1>8, <1>10 DEF GInv, TypeOK, CoreStates, Signals
<1>12. Places' /\ OldPids' /\ NoneLeft' /\ NoneMarked' /\ AssertionsHold' /\ AllHalted'
  BY <1>1, <1>5 DEF GInv, TypeOK, Places, OldPids, NoneLeft, NoneMarked, AssertionsHold, AllHalted,
     AllStopWait, NonStopScan, Connected
<1>13. NoPhantomStop' /\ MarkedHalted' /\ MarkedFirst'
  BY <1>2, <1>6, <1>7, <1>8, <1>9 DEF NoPhantomStop, MarkedHalted, MarkedFirst
<1>14. StopsFound'
  <2>1. \A u \in owed' \ missed' : core'[u].at # "none" \/ sig'[u] # "none"
    BY <1>2, <1>3, <1>6, <1>7, <1>8
  <2>2. \A u \in Threads : core'[u].at = "bkpt" => u \in owed'
    BY <1>6, <1>7, <1>8 DEF GInv, StopsFound
  <2>. QED
    BY <2>1, <2>2 DEF StopsFound
<1>15. ReportedMeansHalted' /\ Told' /\ NotTold'
  BY <1>2, <1>6, <1>8, <1>9, <1>10 DEF ReportedMeansHalted, Told, NotTold
<1>. QED
  BY <1>11, <1>12, <1>13, <1>14, <1>15 DEF GInv

\* '?' in non-stop mode: all are halted, and told one after the other.
LEMMA StatusNonStopInvariance == GInv /\ StatusNonStop => GInv'
<1>. SUFFICES ASSUME GInv, StatusNonStop PROVE GInv'
  OBVIOUS
<1>1. /\ core' = Halt(core, Att) /\ last' = SetLast(last, Att, "continue") /\ Asked
      /\ mode = "non-stop" /\ ~synced /\ notifying' = TRUE /\ pc' = "vstopped" /\ todo' = Att /\ synced' = TRUE
      /\ UNCHANGED <<sig, member, attached, nextPid, cur, mode, extended, ttyOut, fault, conn, sessions, brk,
                     pendBrk, client, seq, owed, missed>>
  BY DEF StatusNonStop, HaltAllThreads, table, line, history
<1>2. /\ core \in [Threads -> CoreStates] /\ missed \subseteq owed /\ owed \subseteq Threads /\ Att \subseteq Threads
      /\ last \in [Threads -> {"stop", "continue"}]
  BY Types DEF GInv
<1>3. /\ core' \in [Threads -> CoreStates]
      /\ \A u \in Threads : core'[u].at = core[u].at /\ core'[u].st = IF u \in Att THEN "halt" ELSE core[u].st
  BY <1>1, <1>2, HaltEffect
<1>4. Att' = Att
  BY <1>1 DEF Att
<1>5. last' \in [Threads -> {"stop", "continue"}] /\ \A u \in Att : last'[u] = "continue"
  BY <1>1, <1>2 DEF SetLast
<1>6. pc = "loop" /\ conn = "open" /\ client = "idle" /\ fault = "none"
  BY <1>1 DEF Asked, GInv, Places
<1>7. TypeOK'
  BY <1>1, <1>2, <1>3, <1>5 DEF GInv, TypeOK, CoreStates
<1>8. Places' /\ OldPids' /\ NoneLeft' /\ NoneMarked' /\ AssertionsHold' /\ AllHalted'
  BY <1>1, <1>4, <1>6 DEF GInv, TypeOK, Places, OldPids, NoneLeft, NoneMarked, AssertionsHold, AllHalted,
     AllStopWait, NonStopScan, Connected
<1>9. NoPhantomStop' /\ MarkedHalted' /\ MarkedFirst'
  BY <1>1, <1>2, <1>3, <1>4 DEF GInv, NoPhantomStop, MarkedHalted, MarkedFirst
<1>10. StopsFound' /\ NotTold'
  BY <1>1, <1>2, <1>3 DEF GInv, StopsFound, NotTold, Listening
<1>11. ReportedMeansHalted' /\ Told'
  BY <1>4, <1>5 DEF ReportedMeansHalted, Told
<1>. QED
  BY <1>7, <1>8, <1>9, <1>10, <1>11 DEF GInv

\* vAttach in all-stop mode: the first thread of the process is told.
LEMMA AttachAllStopInvariance == ASSUME GInv, NEW p, AttachAllStop(p) PROVE GInv'
<1>. DEFINE t == FirstOf(p)  all == Att \cup Of(p)
<1>1. /\ core' = Halt(core, all) /\ last' = SetLast(last, all, "stop") /\ sig' = SetSig(sig, t, "none")
      /\ cur' = t /\ Send("idle") /\ ToldAtOnce(t, all) /\ Asked /\ synced /\ mode = "all-stop" /\ Done
      /\ p \in 1 .. nextPid - 1 \ attached /\ Of(p) # {} /\ attached' = attached \cup {p}
      /\ UNCHANGED <<member, nextPid, mode, notifying, extended, ttyOut, conn, sessions, pendBrk, fault, synced, seq>>
  BY DEF AttachAllStop, modes
<1>2. /\ core \in [Threads -> CoreStates] /\ missed \subseteq owed /\ owed \subseteq Threads
      /\ last \in [Threads -> {"stop", "continue"}] /\ sig \in [Threads -> Signals]
  BY Types DEF GInv, Signals
<1>3. Att' = all /\ all \subseteq Threads /\ t \in Threads /\ t \in all
  BY <1>1, FirstOfProcess DEF Att, Of
<1>4. nextPid \in Nat /\ nextPid <= MaxPid + 1 /\ p \in Pids /\ p < nextPid
  BY <1>1, BoundsAssumption DEF GInv, TypeOK, Pids, DefaultPid
<1>. HIDE DEF t, all
<1>5. /\ core' \in [Threads -> CoreStates]
      /\ \A u \in Threads : core'[u].at = core[u].at /\ core'[u].st = IF u \in all THEN "halt" ELSE core[u].st
  BY <1>1, <1>2, HaltEffect
<1>6. sig' \in [Threads -> Signals] /\ sig'[t] = "none" /\ \A u \in Threads : u # t => sig'[u] = sig[u]
  BY <1>1, <1>2, <1>3 DEF SetSig, Signals
<1>7. /\ pc = "loop" /\ conn = "open" /\ client = "idle" /\ client' = "idle" /\ fault = "none"
      /\ pc' = "loop" /\ todo' = {} /\ brk' = FALSE
  BY <1>1 DEF Asked, Send, Done, After, GInv, Places
<1>8. /\ \A u \in Threads : u # t => (u \in owed' <=> u \in owed) /\ (u \in missed => u \in missed')
      /\ t \in owed' => t \in owed
      /\ core'[t].at = "bkpt" => (t \in owed' <=> t \in owed)
      /\ \A u \in all : u \in owed' /\ sig'[u] = "none" => u \in missed'
      /\ missed' \subseteq owed' /\ owed' \subseteq owed
  BY <1>1, <1>2, <1>3 DEF ToldAtOnce
<1>9. last' \in [Threads -> {"stop", "continue"}] /\ \A u \in all : last'[u] = "stop"
  BY <1>1, <1>2, <1>3 DEF SetLast
<1>10. TypeOK'
  BY <1>1, <1>2, <1>3, <1>4, <1>5, <1>6, <1>7, <1>8, <1>9 DEF GInv, TypeOK, CoreStates, Signals
<1>11. Places' /\ OldPids' /\ NoneLeft' /\ NoneMarked' /\ AssertionsHold' /\ AllHalted'
  BY <1>1, <1>4, <1>7 DEF GInv, TypeOK, Places, OldPids, NoneLeft, NoneMarked, AssertionsHold, AllHalted,
     AllStopWait, NonStopScan, Connected
<1>12. NoPhantomStop' /\ MarkedHalted' /\ MarkedFirst'
  BY <1>2, <1>3, <1>5, <1>6, <1>8 DEF GInv, NoPhantomStop, MarkedHalted, MarkedFirst
<1>13. StopsFound'
  BY <1>2, <1>3, <1>5, <1>6, <1>8 DEF GInv, StopsFound
<1>14. ReportedMeansHalted' /\ Told' /\ NotTold'
  BY <1>2, <1>3, <1>5, <1>8, <1>9 DEF ReportedMeansHalted, Told, NotTold
<1>. QED
  BY <1>10, <1>11, <1>12, <1>13, <1>14 DEF GInv

\* vAttach in non-stop mode.
LEMMA AttachNonStopInvariance == ASSUME GInv, NEW p, AttachNonStop(p) PROVE GInv'
<1>1. /\ core' = Halt(core, Of(p)) \/ core' = core
      /\ last' = SetLast(last, Of(p), "continue")
      /\ Reply /\ Asked /\ synced /\ mode = "non-stop" /\ Done
      /\ p \in 1 .. nextPid - 1 \ attached /\ attached' = attached \cup {p}
      /\ UNCHANGED <<sig, member, nextPid, cur, mode, notifying, extended, ttyOut, conn, sessions, pendBrk, fault,
                     synced, seq, owed, missed>>
  BY DEF AttachNonStop, modes, history, Reply
<1>2. /\ core \in [Threads -> CoreStates] /\ missed \subseteq owed /\ owed \subseteq Threads
      /\ last \in [Threads -> {"stop", "continue"}] /\ Att \subseteq Threads /\ Of(p) \subseteq Threads
  BY Types DEF GInv, Of
<1>3. Att' = Att \cup Of(p)
  BY <1>1 DEF Att, Of
<1>4. nextPid \in Nat /\ nextPid <= MaxPid + 1 /\ p \in Pids /\ p < nextPid
  BY <1>1, BoundsAssumption DEF GInv, TypeOK, Pids, DefaultPid
<1>5. /\ core' \in [Threads -> CoreStates]
      /\ \A u \in Threads : core'[u].at = core[u].at /\ (core'[u].st = "halt" \/ core'[u].st = core[u].st)
  BY <1>1, <1>2, HaltEffect
<1>6. /\ pc = "loop" /\ conn = "open" /\ client = "idle" /\ client' = "idle" /\ fault = "none"
      /\ pc' = "poll" /\ todo' = {} /\ brk' = FALSE
  BY <1>1 DEF Asked, Reply, Send, Done, After, GInv, Places
<1>7. /\ last' \in [Threads -> {"stop", "continue"}] /\ \A u \in Of(p) : last'[u] = "continue"
      /\ \A u \in Threads : u \notin Of(p) => last'[u] = last[u]
  BY <1>1, <1>2 DEF SetLast
<1>8. TypeOK'
  BY <1>1, <1>2, <1>4, <1>5, <1>6, <1>7 DEF GInv, TypeOK, CoreStates
<1>9. Places' /\ OldPids' /\ NoneLeft' /\ NoneMarked' /\ AssertionsHold' /\ AllHalted'
  BY <1>1, <1>4, <1>6 DEF GInv, TypeOK, Places, OldPids, NoneLeft, NoneMarked, AssertionsHold, AllHalted,
     AllStopWait, NonStopScan, Connected
<1>10. NoPhantomStop' /\ MarkedHalted'
  BY <1>1, <1>2, <1>5 DEF GInv, NoPhantomStop, MarkedHalted
<1>11. MarkedFirst'
  <2>1. sessions <= 1 => \A u \in Threads : sig[u] = "none"
    BY <1>1, <1>6 DEF GInv, TypeOK, NoneMarked
  <2>. QED
    BY <1>1, <1>2, <1>3, <2>1 DEF MarkedFirst
<1>12. StopsFound' /\ NotTold'
  BY <1>1, <1>2, <1>5 DEF GInv, StopsFound, NotTold, Listening
<1>13. ReportedMeansHalted' /\ Told'
  BY <1>1, <1>2, <1>3, <1>5, <1>7 DEF GInv, ReportedMeansHalted, Told
<1>. QED
  BY <1>8, <1>9, <1>10, <1>11, <1>12, <1>13 DEF GInv

\* A ctrl-C: everything halts, the first thread to be continued is told.
LEMMA SuspendInvariance == GInv /\ Suspend => GInv'
<1>. SUFFICES ASSUME GInv, Suspend PROVE GInv'
  OBVIOUS
<1>. DEFINE c == HaltAllThreads(core)
<1>1. /\ pc = "break" /\ pendBrk' = FALSE /\ pc' = "loop" /\ todo' = {}
      /\ UNCHANGED <<member, attached, nextPid, mode, notifying, extended, ttyOut, fault, conn, sessions, synced, seq>>
      /\ mode = "all-stop" /\ synced /\ Listening /\ fault = "none" /\ conn # "closed" /\ sessions > 0
  BY DEF Suspend, table, modes, GInv, Places, Listening, AllStopWait, Connected
<1>2. /\ core \in [Threads -> CoreStates] /\ missed \subseteq owed /\ owed \subseteq Threads /\ Att \subseteq Threads
      /\ last \in [Threads -> {"stop", "continue"}] /\ sig \in [Threads -> Signals]
  BY Types DEF GInv, Signals
<1>3. /\ c \in [Threads -> CoreStates]
      /\ \A u \in Threads : c[u].at = core[u].at /\ c[u].st = IF u \in Att THEN "halt" ELSE core[u].st
  BY <1>2, HaltEffect DEF HaltAllThreads
<1>4. Att' = Att
  BY <1>1 DEF Att
<1>5. CASE Continued = {}
  <2>1. core' = c /\ brk' \in BOOLEAN /\ UNCHANGED <<last, sig, cur, client, owed, missed>>
    BY <1>5 DEF Suspend, history, GInv, TypeOK
  <2>. HIDE DEF c
  <2>2. TypeOK'
    BY <1>1, <1>3, <2>1 DEF GInv, TypeOK, CoreStates
  <2>3. Places' /\ OldPids' /\ NoneLeft' /\ NoneMarked' /\ AssertionsHold'
    BY <1>1, <2>1 DEF GInv, TypeOK, Places, OldPids, NoneLeft, NoneMarked, AssertionsHold,
       AllStopWait, NonStopScan, Connected
  <2>4. NoPhantomStop' /\ MarkedHalted' /\ MarkedFirst'
    BY <1>1, <1>2, <1>3, <1>4, <2>1 DEF GInv, NoPhantomStop, MarkedHalted, MarkedFirst
  <2>5. StopsFound' /\ NotTold'
    BY <1>2, <1>3, <1>4, <1>5, <2>1 DEF GInv, StopsFound, NotTold, Continued
  <2>6. ReportedMeansHalted' /\ Told' /\ AllHalted'
    BY <1>1, <1>2, <1>3, <1>4, <2>1 DEF GInv, Places, ReportedMeansHalted, Told, AllHalted, Halted
  <2>. QED
    BY <2>2, <2>3, <2>4, <2>5, <2>6 DEF GInv
<1>6. CASE Continued # {}
  <2>. DEFINE C == Of(LastPid) \cap Continued
              t == CHOOSE u \in C : \A v \in C : u <= v
  <2>1. /\ HaltAndMark(t, c, sig) /\ last' = SetLast(last, Att, "stop")
        /\ missed' = missed \cup ({t} \cap owed) /\ Send("idle") /\ owed' = owed
    BY <1>6 DEF Suspend
  <2>2. t \in Threads /\ t \in Att
    BY <1>6, LastToContinue DEF GInv
  <2>. HIDE DEF t, C, c
  <2>3. /\ core' \in [Threads -> CoreStates] /\ sig' \in [Threads -> Signals] /\ cur' = t /\ sig'[t] = "none"
        /\ \A u \in Threads : core'[u].st = IF u \in Att THEN "halt" ELSE c[u].st
        /\ core'[t].at = core[t].at
    BY <1>2, <1>3, <2>1, <2>2, MarkEffect DEF Marked
  <2>4. \A u \in Threads : u # t =>
           /\ sig'[u] # "none" => u \in owed /\ (u \in missed \/ (core'[u].at # "bkpt" /\ core'[u].st # "run"))
           /\ u \in owed \ missed => core'[u].at # "none" \/ sig'[u] # "none"
           /\ core'[u].at = "bkpt" => u \in owed
           /\ u \in Att \ missed /\ sig'[u] = "none" /\ last[u] = "continue" => u \notin owed
           /\ last[u] = "stop" => sig'[u] = sig[u]
    BY <1>1, <1>2, <1>3, <2>1, <2>2, MarkKeeps
  <2>5. brk' = FALSE /\ client' \in {client, "idle"}
    BY <2>1 DEF Send
  <2>6. last' \in [Threads -> {"stop", "continue"}] /\ \A u \in Att : last'[u] = "stop"
    BY <1>2, <2>1 DEF SetLast
  <2>7. TypeOK'
    BY <1>1, <1>2, <2>1, <2>2, <2>3, <2>5, <2>6 DEF GInv, TypeOK, CoreStates, Signals
  <2>8. Places' /\ OldPids' /\ NoneLeft' /\ NoneMarked' /\ AssertionsHold' /\ AllHalted'
    BY <1>1, <2>5 DEF GInv, TypeOK, Places, OldPids, NoneLeft, NoneMarked, AssertionsHold, AllHalted,
       AllStopWait, NonStopScan, Connected
  <2>9. NoPhantomStop' /\ MarkedHalted' /\ MarkedFirst'
    BY <1>2, <1>4, <2>1, <2>3, <2>4 DEF NoPhantomStop, MarkedHalted, MarkedFirst
  <2>10. StopsFound'
    BY <1>2, <2>1, <2>2, <2>3, <2>4 DEF GInv, StopsFound
  <2>11. ReportedMeansHalted' /\ NotTold'
    BY <1>2, <1>4, <2>3, <2>6 DEF ReportedMeansHalted, NotTold
  <2>12. Told'
    <3>. SUFFICES ASSUME NEW u \in Att, u \notin missed', sig'[u] = "none" PROVE u \notin owed
      BY <1>4, <2>1 DEF Told
    <3>1. u \in Threads /\ u \notin missed /\ (u = t => u \notin owed)
      BY <1>2, <2>1
    <3>2. u # t /\ last[u] = "stop" => u \notin owed
      BY <1>1, <2>4, <3>1 DEF GInv, Told
    <3>3. last[u] \in {"stop", "continue"}
      BY <1>2, <3>1
    <3>. QED
      BY <2>4, <3>1, <3>2, <3>3
  <2>. QED
    BY <2>7, <2>8, <2>9, <2>10, <2>11, <2>12 DEF GInv
<1>. QED
  BY <1>5, <1>6

-----------------------------------------------------------------------------
(* Threads that are continued, and stops that are waited for.               *)

\* History: the stops of S are told.
LEMMA SettleEffect ==
  ASSUME TypeOK, NEW S, Settle(S)
  PROVE  /\ missed' \subseteq owed' /\ owed' \subseteq owed
         /\ \A u \in Threads : u \notin S => (u \in owed' <=> u \in owed) /\ (u \in missed' <=> u \in missed)
         /\ \A u \in Threads \cap S : u \in owed' <=> u \in owed /\ core'[u].at = "bkpt"
         /\ \A u \in Threads \cap S : u \in missed' <=> u \in missed /\ core'[u].at = "bkpt"
  BY DEF Settle, TypeOK

\* The threads of S run on: no stop of theirs is marked.
LEMMA RunsOn ==
  ASSUME GInv, NEW S, Settle(S), UNCHANGED <<sig, member, attached, sessions>>, pc # "accept",
         core' \in [Threads -> CoreStates],
         \A u \in Threads : u \in S => core'[u].at = "none" /\ sig[u] = "none",
         \A u \in Threads : u \notin S => core'[u].at = core[u].at /\ (core'[u].st = core[u].st \/ core'[u].st = "halt")
  PROVE  NoPhantomStop' /\ MarkedHalted' /\ MarkedFirst' /\ StopsFound'
<1>1. /\ missed' \subseteq owed' /\ owed' \subseteq owed
      /\ \A u \in Threads : u \notin S => (u \in owed' <=> u \in owed) /\ (u \in missed' <=> u \in missed)
      /\ \A u \in Threads \cap S : u \notin owed'
  BY SettleEffect DEF GInv
<1>2. owed \subseteq Threads /\ Att \subseteq Threads /\ Att' = Att
  BY Types DEF GInv, Att
<1>3. NoPhantomStop' /\ MarkedHalted'
  BY <1>1, <1>2 DEF GInv, NoPhantomStop, MarkedHalted
<1>4. MarkedFirst'
  BY <1>1, <1>2 DEF GInv, MarkedFirst
<1>5. StopsFound'
  BY <1>1, <1>2 DEF GInv, StopsFound
<1>. QED
  BY <1>3, <1>4, <1>5

\* vCont.
LEMMA VContInvariance == ASSUME GInv, NEW acts, VCont(acts) PROVE GInv'
<1>. DEFINE R == Resumed(acts)
            K == {t \in Att : acts[t] = "continue"}
            H == {t \in Att : acts[t] = "stop" /\ last[t] = "continue"}
<1>1. /\ core' = Halt(Resume(core, R), H) /\ last' = SetLast(last, K, "continue") /\ Settle(R)
      /\ Asked /\ synced
      /\ UNCHANGED <<sig, member, attached, nextPid, cur, mode, notifying, extended, ttyOut, fault, synced, seq,
                     conn, sessions, pendBrk>>
      /\ IF mode = "non-stop" THEN Done /\ Reply
         ELSE pc' = "pending" /\ todo' = {} /\ client' = "running" /\ UNCHANGED line
  BY DEF VCont, table, modes, Reply, line
<1>2. /\ core \in [Threads -> CoreStates] /\ missed \subseteq owed /\ owed \subseteq Threads /\ Att \subseteq Threads
      /\ last \in [Threads -> {"stop", "continue"}]
  BY Types DEF GInv
<1>3. /\ \A u \in Threads : u \in R <=> u \in Att /\ acts[u] = "continue" /\ last[u] = "stop" /\ sig[u] = "none"
      /\ \A u \in R : u \notin H
  BY <1>2 DEF Resumed
<1>4. /\ last' \in [Threads -> {"stop", "continue"}]
      /\ \A u \in Threads : last'[u] = IF u \in Att /\ acts[u] = "continue" THEN "continue" ELSE last[u]
  BY <1>1, <1>2 DEF SetLast
<1>. HIDE DEF R, H, K
<1>5. /\ core' \in [Threads -> CoreStates]
      /\ \A u \in Threads : u \in R => core'[u].at = "none"
      /\ \A u \in Threads : u \notin R => core'[u].at = core[u].at /\ (core'[u].st = core[u].st \/ core'[u].st = "halt")
  <2>1. /\ Resume(core, R) \in [Threads -> CoreStates]
        /\ \A u \in Threads :
             /\ u \in R => Resume(core, R)[u].at = "none" /\ Resume(core, R)[u].st = "run"
             /\ u \notin R => Resume(core, R)[u] = core[u]
    BY <1>2, ResumeEffect
  <2>2. /\ core' \in [Threads -> CoreStates]
        /\ \A u \in Threads :
             core'[u].at = Resume(core, R)[u].at /\ core'[u].st = IF u \in H THEN "halt" ELSE Resume(core, R)[u].st
    BY <1>1, <2>1, HaltEffect
  <2>. QED
    BY <2>1, <2>2
<1>6. /\ missed' \subseteq owed' /\ owed' \subseteq owed
      /\ \A u \in Threads : u \notin R => (u \in owed' <=> u \in owed) /\ (u \in missed' <=> u \in missed)
  BY <1>1, SettleEffect DEF GInv
<1>7. pc = "loop" /\ conn = "open" /\ client = "idle" /\ fault = "none"
  BY <1>1 DEF Asked, GInv, Places
<1>8. /\ brk' \in BOOLEAN /\ todo' = {}
      /\ \/ mode = "non-stop" /\ pc' = "poll" /\ client' = "idle"
         \/ mode = "all-stop" /\ pc' = "pending" /\ client' = "running"
  BY <1>1, <1>7 DEF Done, Reply, Send, After, line, GInv, TypeOK
<1>9. Att' = Att
  BY <1>1 DEF Att
<1>10. NoPhantomStop' /\ MarkedHalted' /\ MarkedFirst' /\ StopsFound'
  BY <1>1, <1>3, <1>5, <1>7, RunsOn
<1>11. TypeOK'
  BY <1>1, <1>4, <1>5, <1>6, <1>8 DEF GInv, TypeOK, CoreStates
<1>12. Places' /\ OldPids' /\ NoneLeft' /\ NoneMarked' /\ AssertionsHold' /\ AllHalted'
  BY <1>1, <1>7, <1>8 DEF GInv, TypeOK, Places, OldPids, NoneLeft, NoneMarked, AssertionsHold, AllHalted,
     AllStopWait, NonStopScan, Connected
<1>13. ReportedMeansHalted' /\ Told'
  BY <1>1, <1>2, <1>3, <1>4, <1>5, <1>6, <1>9 DEF GInv, ReportedMeansHalted, Told
<1>14. NotTold'
  <2>. SUFFICES ASSUME Listening', NEW u \in Att, last'[u] = "continue", core'[u].at # "none" PROVE u \in owed'
    BY <1>9 DEF NotTold
  <2>1. u \in Threads /\ u \notin R /\ core[u].at # "none" /\ last[u] \in {"stop", "continue"}
    BY <1>2, <1>5
  <2>2. Listening
    BY <1>1, <1>7 DEF Listening
  <2>3. last[u] = "continue" => u \in owed
    BY <2>1, <2>2 DEF GInv, NotTold
  <2>4. last[u] = "stop" => u \in owed
    BY <1>3, <1>4, <2>1 DEF GInv, NoPhantomStop
  <2>. QED
    BY <1>6, <2>1, <2>3, <2>4
<1>. QED
  BY <1>10, <1>11, <1>12, <1>13, <1>14 DEF GInv

\* The client has served the I/O; what is to be continued and has no stop marked runs.
LEMMA FileIOReplyInvariance == GInv /\ FileIOReply => GInv'
<1>. SUFFICES ASSUME GInv, FileIOReply PROVE GInv'
  OBVIOUS
<1>. DEFINE R == {t \in Att : last[t] = "continue" /\ sig[t] = "none"}
<1>1. /\ core' = Resume(core, R) /\ Settle(R) /\ pc' = "pending" /\ todo' = {} /\ client' = "running"
      /\ UNCHANGED <<last, sig, member, attached, nextPid, cur, mode, notifying, extended, ttyOut, fault,
                     conn, sessions, brk, pendBrk, synced, seq>>
      /\ pc = "loop" /\ conn = "open" /\ mode = "all-stop" /\ synced /\ fault = "none"
  BY DEF FileIOReply, table, modes, line, GInv, Places
<1>2. /\ core \in [Threads -> CoreStates] /\ missed \subseteq owed /\ owed \subseteq Threads /\ Att \subseteq Threads
      /\ last \in [Threads -> {"stop", "continue"}]
  BY Types DEF GInv
<1>3. \A u \in Threads : u \in R <=> u \in Att /\ last[u] = "continue" /\ sig[u] = "none"
  BY <1>2
<1>. HIDE DEF R
<1>4. /\ core' \in [Threads -> CoreStates]
      /\ \A u \in Threads : u \in R => core'[u].at = "none"
      /\ \A u \in Threads : u \notin R => core'[u] = core[u]
  BY <1>1, <1>2, ResumeEffect
<1>5. /\ missed' \subseteq owed' /\ owed' \subseteq owed
      /\ \A u \in Threads : u \notin R => (u \in owed' <=> u \in owed) /\ (u \in missed' <=> u \in missed)
  BY <1>1, SettleEffect DEF GInv
<1>6. Att' = Att
  BY <1>1 DEF Att
<1>7. NoPhantomStop' /\ MarkedHalted' /\ MarkedFirst' /\ StopsFound'
  BY <1>1, <1>3, <1>4, RunsOn
<1>8. TypeOK'
  BY <1>1, <1>4, <1>5 DEF GInv, TypeOK, CoreStates
<1>9. Places' /\ OldPids' /\ NoneLeft' /\ NoneMarked' /\ AssertionsHold' /\ AllHalted'
  BY <1>1 DEF GInv, TypeOK, Places, OldPids, NoneLeft, NoneMarked, AssertionsHold, AllHalted,
     AllStopWait, NonStopScan, Connected
<1>10. ReportedMeansHalted' /\ Told'
  BY <1>1, <1>2, <1>3, <1>4, <1>5, <1>6 DEF GInv, ReportedMeansHalted, Told
<1>11. NotTold'
  BY <1>1, <1>2, <1>3, <1>4, <1>5, <1>6 DEF GInv, NotTold, NoPhantomStop
<1>. QED
  BY <1>7, <1>8, <1>9, <1>10, <1>11 DEF GInv

\* What the server knows of the thread whose stop it handles.
Handles(t, s, c) ==
  /\ pc \in {"pending", "wait"}
  /\ t \in Att /\ last[t] = "continue" /\ s \in Signals
  /\ c \in [Threads -> CoreStates]
  /\ \A u \in Threads : u # t => c[u] = core[u]
  /\ c[t].st = core[t].st
  /\ c[t].at = "bkpt" => t \in missed /\ core[t].at = "bkpt"

\* The stop is a system call: it is passed on and nothing is marked.
LEMMA ServedInvariance ==
  ASSUME GInv, NEW t, NEW s, NEW c, Handles(t, s, c), Served(t, s, c), pc' = "loop", todo' = {},
         UNCHANGED <<table, modes, fault, conn, sessions, pendBrk, synced, seq>>
  PROVE  GInv'
<1>. DEFINE done == {u \in {t} : core'[u].at # "bkpt"}
            over == {u \in owed \ {t} : sig[u] = "none" /\ last[u] = "continue"}
            h == HaltAllThreads(c)
<1>1. /\ sig' = SetSig(sig, t, "none") /\ owed' = owed \ done /\ missed' = (missed \ done) \cup over
      /\ \/ core' = Resume(h, {t}) /\ UNCHANGED <<brk, client>>
         \/ core' = h /\ Send("fio")
      /\ UNCHANGED <<last, cur, member, attached, nextPid, mode, notifying, extended, ttyOut, fault, conn, sessions,
                     pendBrk, synced, seq>>
  BY DEF Served, table, modes
<1>2. /\ core \in [Threads -> CoreStates] /\ missed \subseteq owed /\ owed \subseteq Threads /\ Att \subseteq Threads
      /\ last \in [Threads -> {"stop", "continue"}] /\ sig \in [Threads -> Signals]
  BY Types DEF GInv, Signals
<1>3. t \in Threads /\ t \in Att /\ last[t] = "continue" /\ c \in [Threads -> CoreStates]
  BY <1>2 DEF Handles
<1>4. /\ mode = "all-stop" /\ synced /\ Listening /\ fault = "none" /\ conn # "closed" /\ sessions > 0
      /\ client # "fio" /\ pc \in {"pending", "wait"}
  BY DEF Handles, GInv, Places, Listening, AllStopWait, Connected
<1>5. /\ h \in [Threads -> CoreStates]
      /\ \A u \in Threads : h[u].at = c[u].at /\ h[u].st = IF u \in Att THEN "halt" ELSE c[u].st
  BY <1>3, HaltEffect DEF HaltAllThreads
<1>. HIDE DEF h
<1>6. /\ core' \in [Threads -> CoreStates]
      /\ \A u \in Threads : u # t => core'[u].at = core[u].at /\ core'[u].st = IF u \in Att THEN "halt" ELSE core[u].st
      /\ core'[t].at = "bkpt" => t \in missed /\ core[t].at = "bkpt"
      /\ \/ core'[t].at = "none" /\ client' = client /\ brk' = brk
         \/ core'[t].st = "halt" /\ brk' = FALSE /\ client' = IF conn = "open" THEN "fio" ELSE client
  <2>1. CASE core' = h /\ Send("fio")
    BY <1>3, <1>5, <2>1 DEF Handles, Send
  <2>2. CASE core' = Resume(h, {t}) /\ UNCHANGED <<brk, client>>
    <3>1. /\ core' \in [Threads -> CoreStates]
          /\ \A u \in Threads :
               /\ u \in {t} => core'[u].at = "none" /\ core'[u].st = "run"
               /\ u \notin {t} => core'[u] = h[u]
      BY <1>5, <2>2, ResumeEffect
    <3>. QED
      BY <1>3, <1>5, <2>2, <3>1, ZenonT(60) DEF Handles
  <2>. QED
    BY <1>1, <2>1, <2>2
<1>7. sig' \in [Threads -> Signals] /\ sig'[t] = "none" /\ \A u \in Threads : u # t => sig'[u] = sig[u]
  BY <1>1, <1>2, <1>3 DEF SetSig, Signals
<1>8. /\ owed' \subseteq owed /\ missed' \subseteq owed'
      /\ \A u \in Threads : u # t => (u \in owed' <=> u \in owed) /\ (u \in missed => u \in missed')
      /\ \A u \in Threads : u # t /\ u \in owed /\ sig[u] = "none" /\ last[u] = "continue" => u \in missed'
      /\ t \in owed' => core'[t].at = "bkpt"
      /\ core'[t].at = "bkpt" => t \in missed' /\ t \in owed'
  BY <1>1, <1>2, <1>6
<1>. HIDE DEF done, over
<1>9. Att' = Att
  BY <1>1 DEF Att
<1>10. TypeOK'
  <2>1. brk' \in BOOLEAN /\ client' \in {"idle", "running", "fio"}
    BY <1>6 DEF GInv, TypeOK
  <2>2. owed' \subseteq Threads /\ missed' \subseteq owed'
    BY <1>2, <1>8
  <2>. QED
    BY <1>1, <1>6, <1>7, <2>1, <2>2 DEF GInv, TypeOK, CoreStates, Signals
<1>11. Places' /\ OldPids' /\ NoneLeft' /\ NoneMarked' /\ AssertionsHold'
  BY <1>1, <1>4 DEF GInv, TypeOK, Places, OldPids, NoneLeft, NoneMarked, AssertionsHold,
     AllStopWait, NonStopScan, Connected
<1>12. NoPhantomStop' /\ MarkedHalted' /\ MarkedFirst'
  BY <1>1, <1>2, <1>4, <1>6, <1>7, <1>8, <1>9 DEF GInv, NoPhantomStop, MarkedHalted, MarkedFirst
<1>13. StopsFound'
  BY <1>2, <1>6, <1>7, <1>8 DEF GInv, StopsFound
<1>14. NotTold'
  <2>. SUFFICES ASSUME Listening', NEW u \in Att, last[u] = "continue", core'[u].at # "none" PROVE u \in owed'
    BY <1>1, <1>9 DEF NotTold
  <2>1. u # t
    BY <1>1, <1>4, <1>6 DEF Listening, AllStopWait, NonStopScan
  <2>2. u \in owed
    BY <1>2, <1>4, <1>6, <2>1 DEF GInv, NotTold
  <2>. QED
    BY <1>2, <1>8, <2>1, <2>2
<1>15. ReportedMeansHalted' /\ Told'
  BY <1>1, <1>2, <1>3, <1>4, <1>6, <1>7, <1>8, <1>9 DEF GInv, ReportedMeansHalted, Told
<1>16. AllHalted'
  <2>. SUFFICES ASSUME client' = "fio", NEW u \in Att
                PROVE  core'[u].st = "halt" /\ (last[u] = "continue" /\ sig'[u] = "none" => u \notin owed' \ missed')
    BY <1>1, <1>9 DEF AllHalted, Halted
  <2>1. core'[t].st = "halt"
    BY <1>4, <1>6
  <2>. QED
    BY <1>2, <1>6, <1>7, <1>8, <2>1
<1>. QED
  BY <1>10, <1>11, <1>12, <1>13, <1>14, <1>15, <1>16 DEF GInv

\* The stop is reported: everything halts, and other stops are marked.
LEMMA ReportedInvariance ==
  ASSUME GInv, NEW t, NEW s, NEW c, Handles(t, s, c), Reported(t, s, c), pc' = "loop", todo' = {},
         UNCHANGED <<table, modes, fault, conn, sessions, pendBrk, synced, seq>>
  PROVE  GInv'
<1>. DEFINE g == [sig EXCEPT ![t] = s]
<1>1. /\ HaltAndMark(t, c, g) /\ last' = SetLast(last, Att, "stop") /\ Send("idle") /\ Settle({t})
      /\ UNCHANGED <<member, attached, nextPid, mode, notifying, extended, ttyOut, fault, conn, sessions,
                     pendBrk, synced, seq>>
  BY DEF Reported, table, modes
<1>2. /\ core \in [Threads -> CoreStates] /\ missed \subseteq owed /\ owed \subseteq Threads /\ Att \subseteq Threads
      /\ last \in [Threads -> {"stop", "continue"}] /\ sig \in [Threads -> Signals]
  BY Types DEF GInv, Signals
<1>3. /\ t \in Threads /\ t \in Att /\ last[t] = "continue" /\ s \in Signals /\ c \in [Threads -> CoreStates]
      /\ \A u \in Threads : u # t => c[u] = core[u]
      /\ \A u \in Threads : c[u].st = core[u].st
      /\ c[t].at = "bkpt" => t \in missed
  BY <1>2 DEF Handles
<1>4. /\ mode = "all-stop" /\ synced /\ Listening /\ fault = "none" /\ conn # "closed" /\ sessions > 0
      /\ pc \in {"pending", "wait"} /\ client # "fio"
  BY DEF Handles, GInv, Places, Listening, AllStopWait, Connected
<1>5. g \in [Threads -> Signals] /\ \A u \in Threads : u # t => g[u] = sig[u]
  BY <1>2, <1>3
<1>. HIDE DEF g
<1>6. /\ core' \in [Threads -> CoreStates] /\ sig' \in [Threads -> Signals] /\ cur' = t /\ sig'[t] = "none"
      /\ \A u \in Threads : core'[u].st = IF u \in Att THEN "halt" ELSE c[u].st
      /\ core'[t].at = c[t].at
  BY <1>1, <1>2, <1>3, <1>5, MarkEffect DEF Marked
<1>7. \A u \in Threads : u # t =>
           /\ sig'[u] # "none" => u \in owed /\ (u \in missed \/ (core'[u].at # "bkpt" /\ core'[u].st # "run"))
           /\ u \in owed \ missed => core'[u].at # "none" \/ sig'[u] # "none"
           /\ core'[u].at = "bkpt" => u \in owed
           /\ u \in Att \ missed /\ sig'[u] = "none" /\ last[u] = "continue" => u \notin owed
           /\ last[u] = "stop" => sig'[u] = sig[u]
  <2>1. \A u \in Threads : u # t => c[u].at = core[u].at /\ g[u] = sig[u]
    BY <1>3, <1>5
  <2>2. \A u \in Threads : c[u].st = core[u].st \/ c[u].st = "halt"
    BY <1>3
  <2>. QED
    BY <1>1, <1>3, <1>4, <1>5, <2>1, <2>2, MarkKeeps
<1>8. /\ missed' \subseteq owed' /\ owed' \subseteq owed
      /\ \A u \in Threads : u # t => (u \in owed' <=> u \in owed) /\ (u \in missed' <=> u \in missed)
      /\ core'[t].at = "bkpt" <=> t \in missed'
      /\ t \in owed' => t \in missed'
  <2>1. /\ missed' \subseteq owed' /\ owed' \subseteq owed
        /\ \A u \in Threads : u \notin {t} => (u \in owed' <=> u \in owed) /\ (u \in missed' <=> u \in missed)
        /\ \A u \in Threads \cap {t} : u \in owed' <=> u \in owed /\ core'[u].at = "bkpt"
        /\ \A u \in Threads \cap {t} : u \in missed' <=> u \in missed /\ core'[u].at = "bkpt"
    BY <1>1, SettleEffect DEF GInv
  <2>. QED
    BY <1>3, <1>6, <2>1
<1>9. Att' = Att
  BY <1>1 DEF Att
<1>10. last' \in [Threads -> {"stop", "continue"}] /\ \A u \in Att : last'[u] = "stop"
  BY <1>1, <1>2 DEF SetLast
<1>11. TypeOK'
  <2>1. brk' \in BOOLEAN /\ client' \in {"idle", "running", "fio"}
    BY <1>1 DEF Send, GInv, TypeOK
  <2>2. owed' \subseteq Threads /\ missed' \subseteq owed'
    BY <1>2, <1>8
  <2>. QED
    BY <1>1, <1>3, <1>6, <1>10, <2>1, <2>2 DEF GInv, TypeOK, CoreStates, Signals
<1>12. Places' /\ OldPids' /\ NoneLeft' /\ NoneMarked' /\ AssertionsHold' /\ AllHalted'
  BY <1>1, <1>4 DEF GInv, TypeOK, Send, Places, OldPids, NoneLeft, NoneMarked, AssertionsHold, AllHalted,
     AllStopWait, NonStopScan, Connected
<1>13. NoPhantomStop' /\ MarkedHalted' /\ MarkedFirst'
  BY <1>2, <1>6, <1>7, <1>8, <1>9 DEF NoPhantomStop, MarkedHalted, MarkedFirst
<1>14. StopsFound'
  BY <1>2, <1>6, <1>7, <1>8 DEF StopsFound
<1>15. ReportedMeansHalted' /\ NotTold'
  BY <1>2, <1>6, <1>9, <1>10 DEF ReportedMeansHalted, NotTold
<1>16. Told'
  <2>. SUFFICES ASSUME NEW u \in Att, u \notin missed', sig'[u] = "none" PROVE u \notin owed'
    BY <1>9 DEF Told
  <2>1. CASE u = t
    BY <1>8, <2>1
  <2>2. CASE u # t
    <3>1. u \in Threads /\ u \notin missed /\ last[u] \in {"stop", "continue"}
      BY <1>2, <1>8, <2>2
    <3>2. last[u] = "stop" => u \notin owed
      BY <1>4, <1>7, <2>2, <3>1 DEF GInv, Told
    <3>. QED
      BY <1>7, <1>8, <2>2, <3>1, <3>2
  <2>. QED
    BY <2>1, <2>2
<1>. QED
  BY <1>11, <1>12, <1>13, <1>14, <1>15, <1>16 DEF GInv

\* doContinue of a thread that has stopped.
LEMMA DoContinueInvariance ==
  ASSUME GInv, NEW t, NEW s, NEW c, Handles(t, s, c), DoContinue(t, s, c)
  PROVE  GInv'
<1>1. /\ pc' = "loop" /\ todo' = {} /\ UNCHANGED <<table, modes, fault, conn, sessions, pendBrk, synced, seq>>
      /\ Served(t, s, c) \/ Reported(t, s, c)
  BY DEF DoContinue
<1>. QED
  BY <1>1, ServedInvariance, ReportedInvariance

\* A stop that was marked is handled when the threads are continued.
LEMMA PendingHandled ==
  ASSUME GInv, pc = "pending", PendingThreads # {}
  PROVE  Handles(Foremost(PendingThreads), sig[Foremost(PendingThreads)], core)
<1>. DEFINE t == Foremost(PendingThreads)
<1>1. /\ core \in [Threads -> CoreStates] /\ Att \subseteq Threads /\ sig \in [Threads -> Signals]
  BY Types DEF GInv, Signals
<1>2. t \in PendingThreads
  BY <1>1, ForemostOfScan DEF GInv, PendingThreads
<1>. HIDE DEF t
<1>3. t \in Threads /\ t \in Att /\ last[t] = "continue" /\ sig[t] # "none" /\ sig[t] \in Signals
  BY <1>1, <1>2 DEF PendingThreads
<1>4. Handles(t, sig[t], core)
  BY <1>1, <1>3 DEF Handles, GInv, MarkedHalted
<1>. QED
  BY <1>4 DEF t

\* A stop that the scan finds.
LEMMA FoundHandled ==
  ASSUME GInv, WaitFound
  PROVE  Handles(Foremost(todo), Reason(core[Foremost(todo)]), [core EXCEPT ![Foremost(todo)] = Rewound(@)])
<1>. DEFINE t == Foremost(todo)  s == Reason(core[t])  c == [core EXCEPT ![t] = Rewound(@)]
<1>1. pc = "wait" /\ todo # {} /\ Stopped(t) /\ sig[t] = "none"
  BY DEF WaitFound
<1>2. /\ core \in [Threads -> CoreStates] /\ Att \subseteq Threads /\ todo \subseteq Att
  BY <1>1, Types DEF GInv, Places
<1>3. t \in Att /\ t \in Threads /\ last[t] = "continue" /\ core[t].st = "halt"
  BY <1>1, <1>2, ForemostOfScan DEF GInv, Stopped, Halted
<1>. HIDE DEF t
<1>4. /\ Rewound(core[t]) \in CoreStates /\ Rewound(core[t]).st = core[t].st
      /\ Rewound(core[t]).at = IF core[t].at = "bkpt" THEN "none" ELSE core[t].at
      /\ Reason(core[t]) \in Signals
  BY <1>2, <1>3, ReasonEffect DEF Signals
<1>5. /\ c \in [Threads -> CoreStates] /\ c[t].st = core[t].st /\ c[t].at # "bkpt" /\ s \in Signals
      /\ \A u \in Threads : u # t => c[u] = core[u]
  BY <1>2, <1>3, <1>4
<1>. HIDE DEF c, s
<1>6. Handles(t, s, c)
  BY <1>1, <1>3, <1>5 DEF Handles
<1>. QED
  BY <1>6 DEF t, s, c

\* Both are then handled by doContinue.
LEMMA ReportPendingInvariance == GInv /\ ReportPending => GInv'
<1>. SUFFICES ASSUME GInv, ReportPending PROVE GInv'
  OBVIOUS
<1>1. /\ pc = "pending" /\ PendingThreads # {}
      /\ DoContinue(Foremost(PendingThreads), sig[Foremost(PendingThreads)], core)
  BY DEF ReportPending
<1>. QED
  BY <1>1, PendingHandled, DoContinueInvariance

\* The scan has found a stopped thread.
LEMMA WaitFoundInvariance == GInv /\ WaitFound => GInv'
<1>. SUFFICES ASSUME GInv, WaitFound PROVE GInv'
  OBVIOUS
<1>1. DoContinue(Foremost(todo), Reason(core[Foremost(todo)]), [core EXCEPT ![Foremost(todo)] = Rewound(@)])
  BY DEF WaitFound
<1>. QED
  BY <1>1, FoundHandled, DoContinueInvariance

-----------------------------------------------------------------------------
(* Stops that are told one by one in non-stop mode.                         *)

\* The stop of t goes out.
LEMMA TellInvariance ==
  ASSUME GInv, NEW t, Tell(t), pc \in {"notify", "vstopped"}, todo # {}, t \in todo,
         notifying' \in {notifying, TRUE}
  PROVE  GInv'
<1>1. /\ Stopped(t) /\ sig[t] = "none" /\ core' = [core EXCEPT ![t] = Rewound(@)]
      /\ last' = SetLast(last, {t}, "stop") /\ Settle({t}) /\ seq' = (conn = "open") /\ pc' = "loop" /\ todo' = {}
      /\ UNCHANGED <<sig, member, attached, nextPid, cur, mode, extended, ttyOut, fault, conn, sessions, brk,
                     pendBrk, client, synced>>
  BY DEF Tell, table, line
<1>2. /\ core \in [Threads -> CoreStates] /\ missed \subseteq owed /\ owed \subseteq Threads /\ Att \subseteq Threads
      /\ last \in [Threads -> {"stop", "continue"}] /\ todo \subseteq Threads
  BY Types DEF GInv, TypeOK
<1>3. t \in Threads /\ last[t] = "continue" /\ core[t].st = "halt"
  BY <1>1, <1>2 DEF Stopped, Halted
<1>4. /\ mode = "non-stop" /\ synced /\ fault = "none" /\ conn # "closed" /\ sessions > 0 /\ client # "fio"
  BY DEF GInv, Places, NonStopScan, Connected
<1>5. /\ Rewound(core[t]) \in CoreStates /\ Rewound(core[t]).st = core[t].st
      /\ Rewound(core[t]).at = IF core[t].at = "bkpt" THEN "none" ELSE core[t].at
  BY <1>2, <1>3, ReasonEffect
<1>6. /\ core' \in [Threads -> CoreStates] /\ core'[t].st = "halt" /\ core'[t].at # "bkpt"
      /\ \A u \in Threads : u # t => core'[u] = core[u]
  BY <1>1, <1>2, <1>3, <1>5
<1>7. /\ last' \in [Threads -> {"stop", "continue"}] /\ last'[t] = "stop"
      /\ \A u \in Threads : u # t => last'[u] = last[u]
  BY <1>1, <1>2, <1>3 DEF SetLast
<1>8. /\ missed' \subseteq owed' /\ owed' \subseteq owed /\ t \notin owed'
      /\ \A u \in Threads : u # t => (u \in owed' <=> u \in owed) /\ (u \in missed' <=> u \in missed)
  <2>1. /\ missed' \subseteq owed' /\ owed' \subseteq owed
        /\ \A u \in Threads : u \notin {t} => (u \in owed' <=> u \in owed) /\ (u \in missed' <=> u \in missed)
        /\ \A u \in Threads \cap {t} : u \in owed' <=> u \in owed /\ core'[u].at = "bkpt"
    BY <1>1, SettleEffect DEF GInv
  <2>. QED
    BY <1>3, <1>6, <2>1
<1>9. Att' = Att
  BY <1>1 DEF Att
<1>10. TypeOK'
  <2>1. owed' \subseteq Threads /\ missed' \subseteq owed'
    BY <1>2, <1>8
  <2>2. seq' \in BOOLEAN /\ notifying' \in BOOLEAN
    BY <1>1 DEF GInv, TypeOK
  <2>. QED
    BY <1>1, <1>6, <1>7, <2>1, <2>2 DEF GInv, TypeOK, CoreStates
<1>11. Places' /\ OldPids' /\ NoneLeft' /\ NoneMarked' /\ AssertionsHold' /\ AllHalted'
  BY <1>1, <1>4 DEF GInv, TypeOK, Places, OldPids, NoneLeft, NoneMarked, AssertionsHold, AllHalted,
     AllStopWait, NonStopScan, Connected
<1>12. NoPhantomStop' /\ MarkedHalted' /\ MarkedFirst'
  BY <1>1, <1>2, <1>3, <1>6, <1>8, <1>9 DEF GInv, NoPhantomStop, MarkedHalted, MarkedFirst
<1>13. StopsFound'
  BY <1>1, <1>2, <1>6, <1>8 DEF GInv, StopsFound
<1>14. NotTold'
  BY <1>1, <1>2, <1>4, <1>6, <1>7, <1>8, <1>9 DEF GInv, NotTold, Listening, NonStopScan
<1>15. ReportedMeansHalted' /\ Told'
  BY <1>1, <1>2, <1>6, <1>7, <1>8, <1>9, ZenonT(60) DEF GInv, ReportedMeansHalted, Told
<1>. QED
  BY <1>10, <1>11, <1>12, <1>13, <1>14, <1>15 DEF GInv

\* A notification.
LEMMA NotifyFoundInvariance == GInv /\ NotifyFound => GInv'
<1>. SUFFICES ASSUME GInv, NotifyFound PROVE GInv'
  OBVIOUS
<1>1. Foremost(todo) \in todo
  BY ForemostOfScan DEF GInv, TypeOK, NotifyFound
<1>2. pc = "notify" /\ todo # {} /\ Tell(Foremost(todo)) /\ notifying' = TRUE
  BY DEF NotifyFound
<1>. QED
  BY <1>1, <1>2, TellInvariance

\* The answer to vStopped.
LEMMA VStoppedFoundInvariance == GInv /\ VStoppedFound => GInv'
<1>. SUFFICES ASSUME GInv, VStoppedFound PROVE GInv'
  OBVIOUS
<1>1. Foremost(todo) \in todo
  BY ForemostOfScan DEF GInv, TypeOK, VStoppedFound
<1>2. pc = "vstopped" /\ todo # {} /\ Tell(Foremost(todo)) /\ notifying' = notifying
  BY DEF VStoppedFound
<1>. QED
  BY <1>1, <1>2, TellInvariance

-----------------------------------------------------------------------------
(* The run control.                                                         *)

\* The server starts unconnected, with no stop told or marked.
LEMMA InitInvariant == Init => GInv
<1>. SUFFICES ASSUME Init PROVE GInv
  OBVIOUS
<1>1. /\ core = [t \in Threads |-> Running] /\ sig = [t \in Threads |-> "none"]
      /\ last \in [Threads -> {"stop", "continue"}]
      /\ member = [t \in Threads |-> DefaultPid] /\ nextPid = DefaultPid + 1 /\ attached \in {{DefaultPid}, {}}
      /\ cur = NoThread /\ extended = FALSE /\ ttyOut \in BOOLEAN /\ mode = "all-stop" /\ notifying = FALSE
      /\ pc = "accept" /\ todo = {} /\ fault = "none" /\ conn = "closed" /\ sessions = 0 /\ brk = FALSE
      /\ pendBrk = FALSE /\ client = "idle" /\ synced = FALSE /\ seq = FALSE /\ owed = {} /\ missed = {}
  BY DEF Init
<1>2. /\ DefaultPid \in Pids /\ nextPid \in Pids \cup {MaxPid + 1} /\ sessions \in 0 .. MaxSessions
      /\ \A p \in attached : p < nextPid
  BY <1>1, BoundsAssumption DEF Pids, DefaultPid
<1>3. /\ core \in [Threads -> CoreStates] /\ member \in [Threads -> Pids] /\ attached \subseteq Pids
      /\ \A t \in Threads : core[t].at = "none"
  BY <1>1, <1>2 DEF CoreStates, Running
<1>4. TypeOK
  BY <1>1, <1>2, <1>3 DEF TypeOK, CoreStates
<1>5. Places /\ OldPids /\ NoneLeft /\ NoneMarked /\ AssertionsHold /\ AllHalted
  BY <1>1, <1>2 DEF Places, OldPids, NoneLeft, NoneMarked, AssertionsHold, AllHalted, AllStopWait,
     NonStopScan, Connected
<1>6. NoPhantomStop /\ MarkedHalted /\ MarkedFirst /\ StopsFound /\ NotTold /\ ReportedMeansHalted /\ Told
  BY <1>1, <1>3 DEF NoPhantomStop, MarkedHalted, MarkedFirst, StopsFound, NotTold, Listening, AllStopWait,
     NonStopScan, ReportedMeansHalted, Told
<1>. QED
  BY <1>4, <1>5, <1>6 DEF GInv

\* No step breaks the invariant.
LEMMA NextInvariant == GInv /\ [Next]_vars => GInv'
<1>. SUFFICES ASSUME GInv, [Next]_vars PROVE GInv'
  OBVIOUS
<1>1. CASE Accept
  BY <1>1, AcceptInvariance
<1>2. CASE Lost
  BY <1>2, LostInvariance
<1>3. CASE Session
  <2>1. CASE SetExtended \/ (\E m \in {"all-stop", "non-stop"} : NonStop(m))
    BY <2>1, SetExtendedInvariance, NonStopInvariance
  <2>2. CASE StatusAllStop \/ StatusNone \/ NoFirstThread \/ StatusNonStop
    BY <2>2, StatusAllStopInvariance, StatusNoneInvariance, NoFirstThreadInvariance, StatusNonStopInvariance
  <2>3. CASE SetAnyThread \/ (\E t \in Threads : SetThread(t))
    BY <2>3, SetAnyThreadInvariance, SetThreadInvariance
  <2>4. CASE \E p \in Pids : AttachAllStop(p) \/ AttachNonStop(p) \/ Detach(p)
    BY <2>4, AttachAllStopInvariance, AttachNonStopInvariance, DetachInvariance
  <2>5. CASE Kill \/ Restart \/ HaltAll
    BY <2>5, KillInvariance, RestartInvariance, HaltAllInvariance
  <2>6. CASE \E S \in SUBSET Threads : Workgroup(S) \/ Reset(S)
    BY <2>6, WorkgroupInvariance, ResetInvariance
  <2>7. CASE \E acts \in [Att -> {"continue", "stop", "none"}] : VCont(acts)
    BY <2>7, VContInvariance
  <2>. QED
    BY <1>3, <2>1, <2>2, <2>3, <2>4, <2>5, <2>6, <2>7 DEF Session
<1>4. CASE Waiting
  <2>1. CASE ReportPending \/ NonePending \/ PendingNotHalted
    BY <2>1, ReportPendingInvariance, NonePendingInvariance, PendingNotHaltedInvariance
  <2>2. CASE NoBreak \/ Suspend
    BY <2>2, NoBreakInvariance, SuspendInvariance
  <2>3. CASE WaitFound \/ WaitAgain
    BY <2>3, WaitFoundInvariance, WaitAgainInvariance
  <2>. QED
    BY <1>4, <2>1, <2>2, <2>3 DEF Waiting
<1>5. CASE Scanning
  <2>1. CASE ScanOn \/ ScanStale
    BY <2>1, ScanOnInvariance, ScanStaleInvariance
  <2>2. CASE NotifyFound \/ NotifyNone
    BY <2>2, NotifyFoundInvariance, NotifyNoneInvariance
  <2>3. CASE VStoppedFound \/ VStoppedOK
    BY <2>3, VStoppedFoundInvariance, VStoppedOKInvariance
  <2>. QED
    BY <1>5, <2>1, <2>2, <2>3 DEF Scanning
<1>6. CASE Poll \/ StrayCtrlC \/ FileIOReply \/ VStopped
  BY <1>6, PollInvariance, StrayCtrlCInvariance, FileIOReplyInvariance, VStoppedInvariance
<1>7. CASE Environment
  BY <1>7, VanishInvariance, PressCtrlCInvariance, StopInvariance DEF Environment
<1>8. CASE UNCHANGED vars
  BY <1>8 DEF vars, cores, table, modes, server, line, user, history, GInv, TypeOK, Places, OldPids, NoPhantomStop,
     AssertionsHold, MarkedHalted, MarkedFirst, NoneMarked, NoneLeft, StopsFound, NotTold, ReportedMeansHalted,
     Told, AllHalted, AllStopWait, NonStopScan, Connected, Listening, PendingThreads, Att, Halted
<1>. QED
  BY <1>1, <1>2, <1>3, <1>4, <1>5, <1>6, <1>7, <1>8 DEF Next

\* The invariant holds of the run control, whatever the cores, the client and the
\* number of sessions.
THEOREM RunControlInvariant == Spec => []GInv
  BY InitInvariant, NextInvariant, PTL DEF Spec

\* No stop is invented, what was told has stopped is halted, and the assertions of
\* the server hold up to what a reset or the client before has left.
THEOREM StopsStayRight == Spec => []StopsRight
<1>1. GInv => StopsRight
  BY DEF GInv, StopsRight
<1>. QED
  BY <1>1, RunControlInvariant, PTL

-----------------------------------------------------------------------------
(* What may make a thread run.                                              *)

\* The cores are left as they are.
LEMMA SameCores == ASSUME NEW t, UNCHANGED core PROVE ~Ran(t)
  BY DEF Ran

\* A handler that halts threads lets none run.
LEMMA HaltsOnly ==
  ASSUME GInv, NEW S, core' = Halt(core, S), NEW t \in Threads
  PROVE  ~Ran(t)
<1>1. core \in [Threads -> CoreStates]
  BY Types DEF GInv
<1>. QED
  BY <1>1, HaltEffect DEF Ran

\* Nor does one that halts all, reads stops and marks them.
LEMMA MarkHaltsOnly ==
  ASSUME GInv, NEW u \in Threads, NEW c \in [Threads -> CoreStates], NEW s \in [Threads -> Signals],
         HaltAndMark(u, c, s), \A v \in Threads : c[v].st = core[v].st \/ c[v].st = "halt",
         NEW t \in Threads
  PROVE  ~Ran(t)
<1>1. Att \subseteq Threads
  BY Types DEF GInv
<1>2. \A v \in Threads : core'[v].st = IF v \in Att THEN "halt" ELSE c[v].st
  BY <1>1, MarkEffect
<1>. QED
  BY <1>2 DEF Ran

\* Requests that let no thread run.
LEMMA SessionHalts ==
  ASSUME GInv, NEW t \in Threads,
         \/ SetExtended \/ StatusAllStop \/ StatusNone \/ NoFirstThread \/ StatusNonStop \/ SetAnyThread
         \/ Restart \/ HaltAll
         \/ \E m \in {"all-stop", "non-stop"} : NonStop(m)
         \/ \E u \in Threads : SetThread(u)
         \/ \E p \in Pids : AttachAllStop(p) \/ AttachNonStop(p)
         \/ \E S \in SUBSET Threads : Workgroup(S) \/ Reset(S)
  PROVE  ~Ran(t)
<1>1. core \in [Threads -> CoreStates] /\ sig \in [Threads -> Signals] /\ Att \subseteq Threads
  BY Types DEF GInv, Signals
<1>2. CASE SetExtended \/ StatusNone \/ NoFirstThread \/ SetAnyThread
  BY <1>2, SameCores DEF SetExtended, StatusNone, NoFirstThread, Die, SetAnyThread, cores
<1>3. CASE \/ \E m \in {"all-stop", "non-stop"} : NonStop(m)
           \/ \E u \in Threads : SetThread(u)
           \/ \E S \in SUBSET Threads : Workgroup(S)
  BY <1>3, SameCores DEF NonStop, SetThread, Workgroup, cores
<1>4. CASE StatusAllStop
  <2>. DEFINE u == FirstOf(FirstPid)  c == HaltAllThreads(core)
  <2>1. HaltAndMark(u, c, sig) /\ attached # {} /\ Of(FirstPid) # {}
    BY <1>4 DEF StatusAllStop
  <2>2. u \in Threads
    BY <2>1, FirstPidAttached, FirstOfProcess DEF GInv, Of
  <2>3. c \in [Threads -> CoreStates] /\ \A v \in Threads : c[v].st = core[v].st \/ c[v].st = "halt"
    BY <1>1, HaltEffect DEF HaltAllThreads
  <2>. QED
    BY <1>1, <2>1, <2>2, <2>3, MarkHaltsOnly
<1>5. CASE StatusNonStop \/ HaltAll
  BY <1>5, HaltsOnly DEF StatusNonStop, HaltAll, HaltAllThreads
<1>6. CASE Restart
  <2>1. core' = [core EXCEPT ![cur].at = "none"]
    BY <1>6 DEF Restart
  <2>2. core'[t].st = core[t].st
    BY <1>1, <2>1 DEF CoreStates
  <2>. QED
    BY <2>2 DEF Ran
<1>7. CASE \E p \in Pids : AttachAllStop(p)
  BY <1>7, HaltsOnly DEF AttachAllStop
<1>8. CASE \E p \in Pids : AttachNonStop(p)
  BY <1>8, HaltsOnly, SameCores DEF AttachNonStop
<1>9. CASE \E S \in SUBSET Threads : Reset(S)
  BY <1>9 DEF Reset, Ran
<1>. QED
  BY <1>2, <1>3, <1>4, <1>5, <1>6, <1>7, <1>8, <1>9

\* Of a thread whose stop is handled, only one whose system call is printed runs.
LEMMA HandledHalts ==
  ASSUME GInv, NEW u, NEW s, NEW c, Handles(u, s, c), DoContinue(u, s, c), NEW t \in Threads, Ran(t)
  PROVE  t = u /\ s = "EMT" /\ ttyOut
<1>1. /\ core \in [Threads -> CoreStates] /\ Att \subseteq Threads /\ sig \in [Threads -> Signals]
      /\ u \in Threads /\ s \in Signals /\ c \in [Threads -> CoreStates]
      /\ \A v \in Threads : c[v].st = core[v].st
  BY Types DEF GInv, Handles, Signals
<1>2. ASSUME Reported(u, s, c) PROVE FALSE
  <2>. DEFINE g == [sig EXCEPT ![u] = s]
  <2>1. HaltAndMark(u, c, g) /\ g \in [Threads -> Signals]
    BY <1>1, <1>2 DEF Reported
  <2>. HIDE DEF g
  <2>. QED
    BY <1>1, <2>1, MarkHaltsOnly
<1>3. CASE Served(u, s, c)
  <2>. DEFINE h == HaltAllThreads(c)
  <2>1. h \in [Threads -> CoreStates] /\ \A v \in Threads : h[v].st = IF v \in Att THEN "halt" ELSE c[v].st
    BY <1>1, HaltEffect DEF HaltAllThreads
  <2>2. s = "EMT" /\ IF ttyOut THEN core' = Resume(h, {u}) ELSE core' = h
    BY <1>3 DEF Served
  <2>. HIDE DEF h
  <2>3. ttyOut
    BY <1>1, <2>1, <2>2 DEF Ran
  <2>4. \A v \in Threads : v \notin {u} => Resume(h, {u})[v] = h[v]
    BY <2>1, ResumeEffect
  <2>. QED
    BY <1>1, <2>1, <2>2, <2>3, <2>4 DEF Ran
<1>. QED
  BY <1>2, <1>3 DEF DoContinue

\* What runs after vCont and after the reply to an I/O request has been told.
LEMMA ContinuedTold ==
  ASSUME GInv, NEW t \in Threads, t \notin missed, Ran(t),
         FileIOReply \/ \E acts \in [Att -> {"continue", "stop", "none"}] : VCont(acts)
  PROVE  t \notin owed /\ core[t].at # "bkpt"
<1>1. core \in [Threads -> CoreStates] /\ Att \subseteq Threads
  BY Types DEF GInv
<1>2. core[t].at = "bkpt" => t \in owed
  BY DEF GInv, StopsFound
<1>3. CASE FileIOReply
  <2>. DEFINE R == {u \in Att : last[u] = "continue" /\ sig[u] = "none"}
  <2>1. core' = Resume(core, R) /\ client = "fio"
    BY <1>3 DEF FileIOReply
  <2>2. t \in R
    <3>1. t \notin R => Resume(core, R)[t] = core[t]
      BY <1>1, ResumeEffect
    <3>. QED
      BY <2>1, <3>1 DEF Ran
  <2>. QED
    BY <1>2, <2>1, <2>2 DEF GInv, AllHalted
<1>4. ASSUME NEW acts \in [Att -> {"continue", "stop", "none"}], VCont(acts)
      PROVE  t \notin owed /\ core[t].at # "bkpt"
  <2>. DEFINE R == Resumed(acts)
              H == {u \in Att : acts[u] = "stop" /\ last[u] = "continue"}
  <2>1. core' = Halt(Resume(core, R), H) /\ synced
    BY <1>4 DEF VCont
  <2>2. t \in R
    <3>. HIDE DEF R, H
    <3>1. /\ Resume(core, R) \in [Threads -> CoreStates]
          /\ t \notin R => Resume(core, R)[t] = core[t]
      BY <1>1, ResumeEffect
    <3>2. core'[t].st = IF t \in H THEN "halt" ELSE Resume(core, R)[t].st
      BY <2>1, <3>1, HaltEffect
    <3>. QED
      BY <3>1, <3>2 DEF Ran
  <2>. QED
    BY <1>2, <2>1, <2>2 DEF Resumed, GInv, Told
<1>. QED
  BY <1>3, <1>4

\* No step lets a thread run whose stop was not told.
LEMMA NextLosesNoStop ==
  ASSUME GInv, Next, NEW t \in Threads, t \notin missed, Ran(t), t \in owed \/ core[t].at = "bkpt"
  PROVE  Left \/ Printed(t)
<1>1. core \in [Threads -> CoreStates] /\ Att \subseteq Threads /\ todo \subseteq Threads /\ sig \in [Threads -> Signals]
  BY Types DEF GInv, TypeOK, Signals
<1>2. CASE Accept \/ Lost
  BY <1>2 DEF Accept, Lost, Left
<1>3. CASE Session
  <2>1. CASE Kill
    BY <2>1 DEF Kill, Closed, Left
  <2>2. CASE \E p \in Pids : Detach(p)
    BY <2>2 DEF Detach, Left
  <2>3. CASE \E acts \in [Att -> {"continue", "stop", "none"}] : VCont(acts)
    BY <2>3, ContinuedTold
  <2>4. CASE \/ SetExtended \/ StatusAllStop \/ StatusNone \/ NoFirstThread \/ StatusNonStop \/ SetAnyThread
             \/ Restart \/ HaltAll
             \/ \E m \in {"all-stop", "non-stop"} : NonStop(m)
             \/ \E u \in Threads : SetThread(u)
             \/ \E p \in Pids : AttachAllStop(p) \/ AttachNonStop(p)
             \/ \E S \in SUBSET Threads : Workgroup(S) \/ Reset(S)
    BY <2>4, SessionHalts
  <2>. QED
    BY <1>3, <2>1, <2>2, <2>3, <2>4 DEF Session
<1>4. CASE Waiting
  <2>1. CASE NonePending \/ NoBreak \/ WaitAgain \/ PendingNotHalted
    BY <2>1, SameCores DEF NonePending, NoBreak, WaitAgain, PendingNotHalted, Die, cores
  <2>2. CASE ReportPending
    <3>. DEFINE u == Foremost(PendingThreads)
    <3>1. pc = "pending" /\ PendingThreads # {} /\ DoContinue(u, sig[u], core)
      BY <2>2 DEF ReportPending
    <3>2. Handles(u, sig[u], core)
      BY <3>1, PendingHandled
    <3>3. t = u /\ sig[u] = "EMT" /\ ttyOut
      BY <3>1, <3>2, HandledHalts
    <3>. QED
      BY <3>3 DEF Printed
  <2>3. CASE WaitFound
    <3>. DEFINE u == Foremost(todo)  s == Reason(core[u])  c == [core EXCEPT ![u] = Rewound(@)]
    <3>1. DoContinue(u, s, c)
      BY <2>3 DEF WaitFound
    <3>2. Handles(u, s, c)
      BY <2>3, FoundHandled
    <3>3. t = u /\ s = "EMT" /\ ttyOut
      BY <3>1, <3>2, HandledHalts
    <3>4. core[t].at = "call"
      BY <1>1, <3>3, ReasonEffect
    <3>. QED
      BY <3>3, <3>4 DEF Printed
  <2>4. CASE Suspend
    <3>. DEFINE c == HaltAllThreads(core)
                C == Of(LastPid) \cap Continued
                u == CHOOSE v \in C : \A w \in C : v <= w
    <3>1. IF Continued = {} THEN core' = c ELSE HaltAndMark(u, c, sig)
      BY <2>4 DEF Suspend
    <3>2. c \in [Threads -> CoreStates] /\ \A v \in Threads : c[v].st = core[v].st \/ c[v].st = "halt"
      BY <1>1, HaltEffect DEF HaltAllThreads
    <3>3. Continued # {} => u \in Threads
      BY LastToContinue DEF GInv
    <3>. HIDE DEF c, u
    <3>. QED
      BY <1>1, <3>1, <3>2, <3>3, MarkHaltsOnly DEF Ran
  <2>. QED
    BY <1>4, <2>1, <2>2, <2>3, <2>4 DEF Waiting
<1>5. CASE Scanning
  <2>1. CASE ScanOn \/ ScanStale \/ NotifyNone \/ VStoppedOK
    BY <2>1, SameCores DEF ScanOn, ScanStale, NotifyNone, VStoppedOK, Die, cores
  <2>2. ASSUME NEW u, u \in Threads, Tell(u) PROVE ~Ran(t)
    <3>1. core' = [core EXCEPT ![u] = Rewound(@)] /\ Rewound(core[u]).st = core[u].st
      BY <1>1, <2>2, ReasonEffect DEF Tell
    <3>2. core'[t].st = core[t].st
      BY <1>1, <3>1
    <3>. QED
      BY <3>2 DEF Ran
  <2>3. CASE NotifyFound \/ VStoppedFound
    <3>1. todo # {} /\ Tell(Foremost(todo))
      BY <2>3 DEF NotifyFound, VStoppedFound
    <3>2. Foremost(todo) \in Threads
      BY <1>1, <3>1, ForemostOfScan DEF GInv
    <3>. QED
      BY <2>2, <3>1, <3>2
  <2>. QED
    BY <1>5, <2>1, <2>3 DEF Scanning
<1>6. CASE FileIOReply
  BY <1>6, ContinuedTold
<1>7. CASE Poll \/ StrayCtrlC \/ VStopped \/ Vanish \/ PressCtrlC
  BY <1>7, SameCores DEF Poll, StrayCtrlC, VStopped, Vanish, PressCtrlC, cores
<1>8. CASE \E u \in Threads, k \in Stops : Stop(u, k)
  BY <1>1, <1>8 DEF Stop, Ran
<1>. QED
  BY <1>2, <1>3, <1>4, <1>5, <1>6, <1>7, <1>8 DEF Next, Environment

\* No stop is lost and no instruction under a breakpoint is skipped.
THEOREM NoStopIsLost == Spec => NoStopLost
<1>1. GInv /\ [Next]_vars =>
        [\A t \in Threads \ missed :
           Ran(t) /\ (t \in owed \/ core[t].at = "bkpt") => Left \/ Printed(t)]_vars
  BY NextLosesNoStop
<1>. QED
  BY <1>1, RunControlInvariant, PTL DEF Spec, NoStopLost
=============================================================================
