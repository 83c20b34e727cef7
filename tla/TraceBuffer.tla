----------------------------- MODULE TraceBuffer -----------------------------
(***************************************************************************)
(* The trace buffers: one ring of 8-byte events per core in a shared       *)
(* memory segment.  trace_write of e-lib stores an event in the core's     *)
(* ring without looking at what it overwrites; the host reads an event and *)
(* sets it to zero, which is how it knows what is unread.  There is no     *)
(* other synchronisation.                                                  *)
(*                                                                         *)
(* A core stores an event with one 64-bit store.  The hosts are 32-bit     *)
(* ARMs that load and clear it as two words, so an event is a pair of      *)
(* words here, and a word is <<core, number>>: event number n of the core, *)
(* its time stamp in the low word, the rest in the high one.  The mesh     *)
(* keeps the order of a core's stores, so a late store is a late core.     *)
(*                                                                         *)
(* Slots are numbered from the start of the segment.  The work group of    *)
(* the cores is the whole platform, and its size divides the segment.      *)
(***************************************************************************)
EXTENDS Integers, Sequences, FiniteSets

CONSTANTS
  NumCores,      \* traceNumCores, rows * cols of the platform
  SlotsPerCore,  \* events in the part of the segment that belongs to a core
  WordBytes,     \* sizeof(unsigned long long)
  MaxEvents,     \* bound: events a core writes
  Requests       \* bound: the values of max_data

ASSUME SizeAssumption ==
  /\ NumCores \in Nat \ {0}
  /\ SlotsPerCore \in Nat \ {0}
  /\ WordBytes \in Nat \ {0}
  /\ MaxEvents \in Nat
  /\ Requests \subseteq Nat \ {0}

VARIABLES
  mem,      \* mem[i]: the two words of slot i
  wr,       \* wr[c]: the slot of traceBufWrPtr on core c
  sent,     \* sent[c]: events core c has written
  rd,       \* rd[c]: the slot of traceBufRdPtr[c] on the host
  single,   \* traceSingleNextCore
  multi,    \* traceMultiNextCore
  call,     \* the host's call in progress
  got,      \* history: what the calls have read, in order
  passed    \* history: passed[f][c], see Passed

vars == <<mem, wr, sent, rd, single, multi, call, got, passed>>
coreVars == <<wr, sent>>

Cores == 0 .. NumCores - 1

Zero == <<>>
Foreign == <<NumCores>>               \* a word of whoever owns the memory behind the segment
Word(c, n) == <<c, n>>
Whole(w) == [lo |-> w, hi |-> w]
Empty == Whole(Zero)

\* What the host computes: a size in bytes, added to a void pointer for the
\* start of a core's ring and to a pointer to 8-byte events for its end.
CoreTraceBufSz == SlotsPerCore * WordBytes
BufStart(c) == (CoreTraceBufSz * c) \div WordBytes
BufEnd(c) == BufStart(c) + CoreTraceBufSz

\* What core c computes, in bytes from the start of the segment.
TraceBufStart(c) == (c * CoreTraceBufSz) \div WordBytes
TraceBufEnd(c) == (c * CoreTraceBufSz + CoreTraceBufSz) \div WordBytes

Segment == 0 .. NumCores * SlotsPerCore - 1
Slots == 0 .. BufEnd(NumCores - 1) - 1

NoCall == [fn |-> "none", at |-> "idle", core |-> 0, seen |-> 0, cnt |-> 0,
           max |-> 0, lo |-> Zero]

-----------------------------------------------------------------------------
(* The core side, e-lib.                                                    *)

\* The host's trace_init has cleared the segment, and every core has attached
\* to it, before the first event.
Init ==
  /\ mem    = [i \in Slots |-> IF i \in Segment THEN Empty ELSE Whole(Foreign)]
  /\ wr     = [c \in Cores |-> TraceBufStart(c)]
  /\ sent   = [c \in Cores |-> 0]
  /\ rd     = [c \in Cores |-> BufStart(c)]
  /\ single = 0
  /\ multi  = 0
  /\ call   = NoCall
  /\ got    = <<>>
  /\ passed = [f \in {"read", "read_n"} |-> [c \in Cores |-> 0]]

\* trace_write.
Write(c) ==
  /\ sent[c] < MaxEvents
  /\ mem' = [mem EXCEPT ![wr[c]] = Whole(Word(c, sent[c] + 1))]
  /\ wr' = [wr EXCEPT ![c] =
              IF wr[c] + 1 >= TraceBufEnd(c) THEN TraceBufStart(c) ELSE wr[c] + 1]
  /\ sent' = [sent EXCEPT ![c] = @ + 1]
  /\ UNCHANGED <<rd, single, multi, call, got, passed>>

-----------------------------------------------------------------------------
(* The host side, e-trace.                                                  *)

NextCore(c) == IF c + 1 >= NumCores THEN 0 ELSE c + 1

\* The event of core c that the host reads next is there.
Unread(c) == mem[rd[c]] # Empty

\* passed[f][c]: returns of f that left an event of core c unread, since the
\* last one that did not or since core c was last read from.
Passed(fn, served) ==
  [f \in {"read", "read_n"} |-> [c \in Cores |->
     IF c = served \/ (f = fn /\ ~Unread(c)) THEN 0
     ELSE passed[f][c] + (IF f = fn THEN 1 ELSE 0)]]

Return ==
  /\ call' = NoCall
  /\ passed' = Passed(call.fn, NumCores)

\* A call begins.  trace_read and trace_read_n go on with the core after the
\* last one they looked at; trace_read_coreNo_n is told which.
Begin(fn, c, max) ==
  /\ call.at = "idle"
  /\ call' = [NoCall EXCEPT !.fn = fn, !.at = "check", !.core = c, !.max = max]
  /\ UNCHANGED <<mem, wr, sent, rd, single, multi, got, passed>>

Read == Begin("read", single, 1)
ReadN == \E max \in Requests : Begin("read_n", multi, max)
ReadCoreNoN == \E c \in Cores, max \in Requests : Begin("read_coreNo_n", c, max)

At(label) == call.at = label
Goto(label) == [call EXCEPT !.at = label]

\* The test of the slot: an event, and room for it.
Check ==
  /\ At("check")
  /\ call.cnt < call.max /\ call.seen < NumCores
  /\ Unread(call.core)
  /\ call' = Goto("low")
  /\ UNCHANGED <<mem, wr, sent, rd, single, multi, got, passed>>

\* trace_read: nothing from this core, on to the next one.
MissRead ==
  /\ At("check") /\ call.fn = "read"
  /\ ~Unread(call.core)
  /\ call.seen < NumCores
  /\ single' = NextCore(single)
  /\ call' = [call EXCEPT !.core = NextCore(@), !.seen = @ + 1]
  /\ UNCHANGED <<mem, wr, sent, rd, multi, got, passed>>

\* trace_read has looked at every core: another round after a sleep ...
Sleep ==
  /\ At("check") /\ call.fn = "read"
  /\ call.seen = NumCores
  /\ call' = [call EXCEPT !.seen = 0]
  /\ UNCHANGED <<mem, wr, sent, rd, single, multi, got, passed>>

\* ... or, when the time is up, 0.
Timeout ==
  /\ At("check") /\ call.fn = "read"
  /\ call.seen = NumCores
  /\ Return
  /\ UNCHANGED <<mem, wr, sent, rd, single, multi, got>>

\* The loop of trace_read_coreNo_n is at its end: the buffer is full, or the
\* core has no more.
CoreDone ==
  /\ At("check")
  /\ call.cnt = call.max \/ ~Unread(call.core)

\* Mutant: the cores that were looked at are not counted.
DoneReadNUncounted ==
  /\ call.fn = "read_n" /\ CoreDone
  /\ multi' = NextCore(multi)
  /\ IF call.cnt = call.max
     THEN Return
     ELSE /\ call' = [call EXCEPT !.core = NextCore(@)]
          /\ UNCHANGED passed
  /\ UNCHANGED <<mem, wr, sent, rd, single, got>>

\* trace_read_n goes on with the next core, or returns.
DoneReadN ==
  /\ call.fn = "read_n" /\ CoreDone
  /\ multi' = NextCore(multi)
  /\ IF call.cnt = call.max \/ call.seen + 1 = NumCores
     THEN Return
     ELSE /\ call' = [call EXCEPT !.core = NextCore(@), !.seen = @ + 1]
          /\ UNCHANGED passed
  /\ UNCHANGED <<mem, wr, sent, rd, single, got>>

DoneReadCoreNoN ==
  /\ call.fn = "read_coreNo_n" /\ CoreDone
  /\ Return
  /\ UNCHANGED <<mem, wr, sent, rd, single, multi, got>>

\* The event is loaded a second time, word by word, for the caller.
LoadLow ==
  /\ At("low")
  /\ call' = [Goto("high") EXCEPT !.lo = mem[rd[call.core]].lo]
  /\ UNCHANGED <<mem, wr, sent, rd, single, multi, got, passed>>

LoadHigh ==
  /\ At("high")
  /\ got' = Append(got, [lo |-> call.lo, hi |-> mem[rd[call.core]].hi])
  /\ call' = [Goto("clearLow") EXCEPT !.lo = Zero]
  /\ UNCHANGED <<mem, wr, sent, rd, single, multi, passed>>

\* The slot is set to zero, word by word.
ClearLow ==
  /\ At("clearLow")
  /\ mem' = [mem EXCEPT ![rd[call.core]].lo = Zero]
  /\ call' = Goto("clearHigh")
  /\ UNCHANGED <<wr, sent, rd, single, multi, got, passed>>

\* Mutant: only the low word is cleared.
ClearHighNot ==
  /\ At("clearHigh")
  /\ call' = Goto("advance")
  /\ UNCHANGED <<mem, wr, sent, rd, single, multi, got, passed>>

\* Mutant: the word of the slot after it is cleared.
ClearHighNext ==
  /\ At("clearHigh")
  /\ mem' = [mem EXCEPT ![rd[call.core] + 1].hi = Zero]
  /\ call' = Goto("advance")
  /\ UNCHANGED <<wr, sent, rd, single, multi, got, passed>>

ClearHigh ==
  /\ At("clearHigh")
  /\ mem' = [mem EXCEPT ![rd[call.core]].hi = Zero]
  /\ call' = Goto("advance")
  /\ UNCHANGED <<wr, sent, rd, single, multi, got, passed>>


Advanced(c) ==
  IF rd[c] + 1 >= BufEnd(c) THEN BufStart(c) ELSE rd[c] + 1

\* The read pointer of the core moves on; trace_read returns.
Advance ==
  /\ At("advance")
  /\ rd' = [rd EXCEPT ![call.core] = Advanced(call.core)]
  /\ IF call.fn = "read"
     THEN /\ single' = NextCore(single)
          /\ call' = NoCall
          /\ passed' = Passed("read", call.core)
     ELSE /\ call' = [Goto("check") EXCEPT !.cnt = @ + 1]
          /\ passed' = Passed("none", call.core)
          /\ UNCHANGED single
  /\ UNCHANGED <<mem, wr, sent, multi, got>>

-----------------------------------------------------------------------------
CoreStep == \E c \in Cores : Write(c)

InCall ==
  \/ Check \/ LoadLow \/ LoadHigh \/ ClearLow \/ ClearHigh \/ Advance
  \/ MissRead \/ Sleep \/ Timeout \/ DoneReadN \/ DoneReadCoreNoN

Next == CoreStep \/ Read \/ ReadN \/ ReadCoreNoN \/ InCall

\* The host goes on with its call, and the time of a timeout comes: trace_read
\* does not sleep for ever.
Fairness == WF_vars(InCall) /\ SF_vars(Timeout)

Spec == Init /\ [][Next]_vars /\ Fairness

-----------------------------------------------------------------------------
TypeOK ==
  /\ mem \in [Slots -> [lo : {Zero, Foreign} \cup (Cores \X (1 .. MaxEvents)),
                        hi : {Zero, Foreign} \cup (Cores \X (1 .. MaxEvents))]]
  /\ wr \in [Cores -> Slots]
  /\ sent \in [Cores -> 0 .. MaxEvents]
  /\ rd \in [Cores -> Slots]
  /\ single \in Cores
  /\ multi \in Cores
  /\ call.at \in {"idle", "check", "low", "high", "clearLow", "clearHigh", "advance"}
  /\ call.core \in Cores
  /\ call.seen \in 0 .. NumCores
  /\ call.cnt \in 0 .. call.max

\* The events of a core that the host has read.
ReadFrom(c) == {i \in DOMAIN got : got[i].lo \in {c} \X (1 .. MaxEvents)}

\* The read calls hand out the events of each core in the order in which
\* trace_write stored them, whole and without a gap: "the oldest trace record".
OldestFirst ==
  \A i \in DOMAIN got :
    /\ got[i].lo = got[i].hi
    /\ \E c \in Cores : got[i].lo = Word(c, Cardinality({j \in ReadFrom(c) : j <= i}))

\* Every event of a core is either read or still in the core's part of the
\* segment: zeroing the slots that were read destroys nothing.
NothingLost ==
  \A c \in Cores : \A n \in 1 .. sent[c] :
    \/ \E i \in DOMAIN got : got[i] = Whole(Word(c, n))
    \/ mem[BufStart(c) + n - 1] = Whole(Word(c, n))

\* trace_read and trace_read_n are fair to the cores: a core with an unread
\* event is served within as many calls as there are cores.
FairToCores ==
  \A f \in {"read", "read_n"} : \A c \in Cores : passed[f][c] <= NumCores

\* However far the cores are ahead of the host, and wherever its pointers go,
\* no word of an event is handed out twice.
NoWordTwice ==
  \A i, j \in DOMAIN got : i < j =>
    /\ got[i].lo = got[j].lo => got[i].lo \in {Zero, Foreign}
    /\ got[i].hi = got[j].hi => got[i].hi \in {Zero, Foreign}

\* A core writes into its own part of the segment only.
WritersStayHome ==
  \A c \in Cores : wr[c] \in c * SlotsPerCore .. (c + 1) * SlotsPerCore - 1

\* The host reads and clears the trace segment only.
InsideSegment == \A c \in Cores : rd[c] \in Segment

-----------------------------------------------------------------------------
(* Why, wherever the pointers are: an event is stored once, and a word of it that *)
(* was read is in memory only until it is cleared.                                *)

Ats == {"idle", "check", "low", "high", "clearLow", "clearHigh", "advance"}
Fns == {"read", "read_n", "read_coreNo_n"}
Events == Cores \X (1 .. MaxEvents)
Words == {Zero, Foreign} \cup Events
Pairs == [lo : Words, hi : Words]
CallState == [fn : {"none"} \cup Fns, at : Ats, core : Cores, seen : Nat, cnt : Nat, max : Nat, lo : Words]
Typed ==
  /\ mem \in [Slots -> Pairs] /\ sent \in [Cores -> 0 .. MaxEvents]
  /\ rd \in [Cores -> Slots] /\ \A c \in Cores : rd[c] \in BufStart(c) .. BufEnd(c) - 1
  /\ wr \in [Cores -> Slots] /\ single \in Cores /\ multi \in Cores /\ got \in Seq(Pairs)
  /\ call \in CallState
  /\ passed \in [{"read", "read_n"} -> [Cores -> Nat]]

Stored(w) == w \in Events => w[2] <= sent[w[1]]
NotAhead ==
  /\ \A i \in Slots : Stored(mem[i].lo) /\ Stored(mem[i].hi)
  /\ Stored(call.lo) /\ \A k \in DOMAIN got : Stored(got[k].lo) /\ Stored(got[k].hi)
StoredOnce ==
  \A i, j \in Slots : i # j => /\ mem[i].lo = mem[j].lo => mem[i].lo \notin Events
                               /\ mem[i].hi = mem[j].hi => mem[i].hi \notin Events

AtHand(i, k) == i = rd[call.core] /\ k = Len(got)
TakenOnce ==
  \A i \in Slots, k \in DOMAIN got :
    /\ got[k].lo \in Events /\ mem[i].lo = got[k].lo => call.at = "clearLow" /\ AtHand(i, k)
    /\ got[k].hi \in Events /\ mem[i].hi = got[k].hi => call.at \in {"clearLow", "clearHigh"} /\ AtHand(i, k)
LoadedOnce ==
  call.at = "high" /\ call.lo \in Events =>
    /\ \A k \in DOMAIN got : got[k].lo # call.lo
    /\ \A i \in Slots : mem[i].lo = call.lo => i = rd[call.core]
LapInv == Typed /\ WritersStayHome /\ NotAhead /\ StoredOnce /\ TakenOnce /\ LoadedOnce /\ NoWordTwice

-----------------------------------------------------------------------------
(* Why, when no core goes round its ring: slot n of the ring is event n of the core, *)
(* until it is taken.                                                                 *)

TakenOf(c) == rd[c] - BufStart(c)
Clearing == {"clearLow", "clearHigh", "advance"}
Handling == {"low", "high"} \cup Clearing
\* How many events of core c the callers have.
GotOf(c) == TakenOf(c) + (IF call.core = c /\ call.at \in Clearing THEN 1 ELSE 0)
Slot(c, n) == mem[BufStart(c) + n - 1]

InCallRight ==
  /\ call.cnt <= call.max /\ call.seen <= NumCores /\ (call.at = "idle") = (call.fn = "none")
  /\ call.at \in Handling => call.cnt < call.max /\ TakenOf(call.core) < sent[call.core]
  /\ call.at # "idle" => call.max > 0
  /\ call.fn = "read" => call.core = single /\ call.max = 1
  /\ call.fn = "read_n" => call.core = multi /\ call.seen < NumCores
  /\ call.at = "high" => call.lo = Word(call.core, TakenOf(call.core) + 1)

Cleared(c, n) == call.core = c /\ n = TakenOf(c) + 1
Rings ==
  \A c \in Cores :
    /\ wr[c] = BufStart(c) + sent[c] /\ TakenOf(c) <= sent[c]
    /\ \A n \in 1 .. SlotsPerCore :
         Slot(c, n) = IF n <= TakenOf(c) \/ n > sent[c] \/ (Cleared(c, n) /\ call.at = "advance") THEN Empty
                      ELSE IF Cleared(c, n) /\ call.at = "clearHigh" THEN [lo |-> Zero, hi |-> Word(c, n)]
                      ELSE Whole(Word(c, n))

AllTaken ==
  \A c \in Cores :
    /\ Cardinality(ReadFrom(c)) = GotOf(c)
    /\ \A n \in 1 .. GotOf(c) : \E k \in DOMAIN got : got[k] = Whole(Word(c, n))
InOrder ==
  /\ \A k \in DOMAIN got : got[k].lo \in Events /\ got[k].lo[2] <= GotOf(got[k].lo[1])
  /\ \A j, k \in DOMAIN got : j < k /\ got[j].lo[1] = got[k].lo[1] => got[j].lo[2] < got[k].lo[2]

\* A core with an event to read comes nearer with every call.
Ahead(from, c) == IF c >= from THEN c - from ELSE c - from + NumCores
Waits(f, c) == passed[f][c] > 0
Nearer ==
  \A c \in Cores :
    /\ Waits("read", c) => TakenOf(c) < sent[c] /\ passed["read"][c] + Ahead(single, c) <= NumCores
    /\ Waits("read_n", c) => TakenOf(c) < sent[c] /\ passed["read_n"][c] + Ahead(multi, c) <= NumCores
LookedAt ==
  /\ call.fn = "read" /\ call.at = "check" =>
       \A c \in Cores : Ahead(single, c) >= NumCores - call.seen => ~Waits("read", c)
  /\ call.fn = "read_n" /\ call.cnt = call.max => ~Waits("read_n", call.core)
BInv == Typed /\ InCallRight /\ Rings /\ AllTaken /\ InOrder /\ OldestFirst /\ Nearer /\ LookedAt

\* Every read call returns.
CallsReturn == call.at # "idle" ~> call.at = "idle"
=============================================================================
