----------------------------- MODULE MCTrace_proofs -----------------------------
(***************************************************************************)
(* The trace buffers.  However far the cores are ahead of the host, and    *)
(* wherever the ends of its rings are, no word of an event is handed out   *)
(* twice and cores stay in their rings.  While no core has gone round its  *)
(* ring the host reads every event, whole, once and in the order of its    *)
(* core, serves all cores, and the daemon's file holds what it has read.   *)
(***************************************************************************)
EXTENDS MCTrace, FiniteSetTheorems, SequenceTheorems, TLAPS

-----------------------------------------------------------------------------
(* Places and words                                                         *)

\* A multiple of the size of an event.
LEMMA Multiples ==
  ASSUME NEW W \in Nat \ {0}, NEW y \in Int
  PROVE  (y * W) \div W = y
  OBVIOUS

\* Where the rings are.
LEMMA Bounds ==
  ASSUME NEW S \in Nat \ {0}, NEW W \in Nat \ {0}, NEW c \in Nat
  PROVE  /\ ((S * W) * c) \div W = S * c
         /\ (c * (S * W)) \div W = S * c
         /\ (c * (S * W) + S * W) \div W = S * c + S
         /\ S * c \in Nat /\ S * W \in Nat /\ S <= S * W
<1>1. (S * W) * c = (S * c) * W /\ c * (S * W) = (S * c) * W /\ c * (S * W) + S * W = (S * c + S) * W
  OBVIOUS
<1>2. S * c \in Nat /\ S * c + S \in Nat
  OBVIOUS
<1>3. ((S * c) * W) \div W = S * c /\ ((S * c + S) * W) \div W = S * c + S
  BY <1>2, Multiples
<1>4. S <= S * W /\ S * W \in Nat
  OBVIOUS
<1>. QED
  BY <1>1, <1>2, <1>3, <1>4

\* A ring ends where the next one begins, or before.
LEMMA Rows ==
  ASSUME NEW S \in Nat \ {0}, NEW N \in Nat \ {0}, NEW c \in 0 .. N - 1, NEW d \in 0 .. N - 1
  PROVE  /\ S * c \in Nat /\ S * c <= S * (N - 1)
         /\ c < d => S * c + S <= S * d
<1>1. S * (N - 1) - S * c = S * ((N - 1) - c) /\ (N - 1) - c \in Nat
  OBVIOUS
<1>2. ASSUME c < d PROVE S * c + S <= S * d
  <2>1. S * d - (S * c + S) = S * ((d - c) - 1) /\ (d - c) - 1 \in Nat
    BY <1>2
  <2>. QED
    BY <2>1
<1>. QED
  BY <1>1, <1>2

\* Rings of two cores share no slot.
LEMMA RingsApart ==
  ASSUME NEW S \in Nat \ {0}, NEW N \in Nat \ {0}, NEW c \in 0 .. N - 1, NEW d \in 0 .. N - 1, c # d,
         NEW i \in S * c .. (S * c + S) - 1
  PROVE  i \notin S * d .. (S * d + S) - 1
<1>1. S * c \in Nat /\ S * d \in Nat
  OBVIOUS
<1>2. (c < d => S * c + S <= S * d) /\ (d < c => S * d + S <= S * c)
  BY Rows
<1>. QED
  BY <1>1, <1>2

\* The words of an event tell it from all others, and from what is no event.
LEMMA WordsDiffer ==
  ASSUME NEW c \in Cores, NEW n \in 1 .. MaxEvents
  PROVE  /\ Word(c, n) \in Events /\ Word(c, n)[1] = c /\ Word(c, n)[2] = n
         /\ Word(c, n) # Zero /\ Word(c, n) # Foreign
         /\ Zero \notin Events /\ Foreign \notin Events /\ Zero # Foreign
  BY DEF Word, Events, Zero, Foreign


-----------------------------------------------------------------------------
(* Rings that are lapped                                                    *)

\* Where the rings are, for the cores and for the host, whose rings may overlap.
LEMMA LapPlaces ==
  ASSUME NEW c \in Laps!Cores
  PROVE  /\ c \in Nat /\ LapSlots * c \in Nat /\ LapSlots \in Nat \ {0}
         /\ Laps!BufStart(c) = LapSlots * c /\ Laps!BufEnd(c) \in Nat /\ Laps!BufStart(c) < Laps!BufEnd(c)
         /\ Laps!TraceBufStart(c) = LapSlots * c /\ Laps!TraceBufEnd(c) = LapSlots * c + LapSlots
         /\ Laps!BufStart(c) .. Laps!BufEnd(c) - 1 \subseteq Laps!Slots
         /\ LapSlots * c .. (LapSlots * c + LapSlots) - 1 \subseteq Laps!Slots
         /\ c * LapSlots .. (c + 1) * LapSlots - 1 = LapSlots * c .. (LapSlots * c + LapSlots) - 1
<1>1. /\ NumCores \in Nat \ {0} /\ LapSlots \in Nat \ {0} /\ LapBytes \in Nat \ {0} /\ c \in 0 .. NumCores - 1
      /\ NumCores - 1 \in 0 .. NumCores - 1 /\ c \in Nat /\ NumCores - 1 \in Nat
  BY SizeAssumption, LapsAssumption DEF Laps!Cores
<1>2. \A d \in Nat : /\ Laps!BufStart(d) = LapSlots * d /\ Laps!TraceBufStart(d) = LapSlots * d
                     /\ Laps!TraceBufEnd(d) = LapSlots * d + LapSlots
                     /\ Laps!BufEnd(d) = LapSlots * d + LapSlots * LapBytes
                     /\ LapSlots * d \in Nat /\ LapSlots * LapBytes \in Nat /\ LapSlots <= LapSlots * LapBytes
  BY <1>1, Bounds DEF Laps!BufStart, Laps!BufEnd, Laps!TraceBufStart, Laps!TraceBufEnd, Laps!CoreTraceBufSz
<1>3. LapSlots * c <= LapSlots * (NumCores - 1)
  BY <1>1, Rows
<1>4. Laps!Slots = 0 .. (LapSlots * (NumCores - 1) + LapSlots * LapBytes) - 1
  BY <1>1, <1>2 DEF Laps!Slots
<1>5. c * LapSlots = LapSlots * c /\ (c + 1) * LapSlots = LapSlots * c + LapSlots
  BY <1>1
<1>. DEFINE x == LapSlots * c  y == LapSlots * (NumCores - 1)  z == LapSlots * LapBytes
<1>6. /\ x \in Nat /\ y \in Nat /\ z \in Nat /\ x <= y /\ LapSlots <= z
      /\ Laps!BufStart(c) = x /\ Laps!BufEnd(c) = x + z /\ Laps!Slots = 0 .. (y + z) - 1
  BY <1>1, <1>2, <1>3, <1>4
<1>. HIDE DEF x, y, z
<1>7. /\ x + z \in Nat /\ x < x + z /\ x .. (x + z) - 1 \subseteq 0 .. (y + z) - 1
      /\ x .. (x + LapSlots) - 1 \subseteq 0 .. (y + z) - 1
  BY <1>1, <1>6
<1>. QED
  BY <1>1, <1>2, <1>5, <1>6, <1>7 DEF x

\* The words of these rings.
LEMMA LapWords ==
  /\ Laps!Zero \in Laps!Words /\ Laps!Foreign \in Laps!Words
  /\ Laps!Zero \notin Laps!Events /\ Laps!Foreign \notin Laps!Events
  /\ \A c \in Laps!Cores, n \in 1 .. LapEvents :
       Laps!Word(c, n) \in Laps!Events /\ Laps!Word(c, n)[1] = c /\ Laps!Word(c, n)[2] = n
  /\ Laps!Events \subseteq Laps!Words
  /\ Laps!Empty \in Laps!Pairs /\ Laps!Empty.lo = Laps!Zero /\ Laps!Empty.hi = Laps!Zero
  /\ Laps!Whole(Laps!Foreign) \in Laps!Pairs
  /\ \A w : Laps!Whole(w).lo = w /\ Laps!Whole(w).hi = w
  BY DEF Laps!Words, Laps!Events, Laps!Word, Laps!Zero, Laps!Foreign, Laps!Pairs, Laps!Empty, Laps!Whole

\* At first there is nothing to take.
LEMMA LapInit ==
  Laps!Init => Laps!LapInv
<1> SUFFICES ASSUME Laps!Init PROVE Laps!LapInv
  OBVIOUS
<1>0. NumCores \in Nat \ {0} /\ 0 \in Laps!Cores /\ LapEvents \in Nat
  BY SizeAssumption, LapsAssumption DEF Laps!Cores
<1>1. /\ mem \in [Laps!Slots -> Laps!Pairs]
      /\ \A i \in Laps!Slots : mem[i].lo \notin Laps!Events /\ mem[i].hi \notin Laps!Events
  BY LapWords DEF Laps!Init
<1>2. sent \in [Laps!Cores -> 0 .. LapEvents]
  BY <1>0 DEF Laps!Init
<1>3. \A c \in Laps!Cores : /\ rd[c] \in Laps!BufStart(c) .. Laps!BufEnd(c) - 1 /\ rd[c] \in Laps!Slots
                            /\ wr[c] \in LapSlots * c .. (LapSlots * c + LapSlots) - 1 /\ wr[c] \in Laps!Slots
                            /\ wr[c] \in c * LapSlots .. (c + 1) * LapSlots - 1
  <2> TAKE c \in Laps!Cores
  <2>1. rd[c] = Laps!BufStart(c) /\ wr[c] = Laps!TraceBufStart(c)
    BY DEF Laps!Init
  <2>2. rd[c] \in Laps!BufStart(c) .. Laps!BufEnd(c) - 1 /\ wr[c] \in LapSlots * c .. (LapSlots * c + LapSlots) - 1
    BY <2>1, LapPlaces
  <2>. QED
    BY <2>2, LapPlaces
<1>4. rd \in [Laps!Cores -> Laps!Slots] /\ wr \in [Laps!Cores -> Laps!Slots]
  BY <1>3 DEF Laps!Init
<1>5. got = <<>> /\ got \in Seq(Laps!Pairs) /\ DOMAIN got = {}
  BY DEF Laps!Init
<1>6. call \in Laps!CallState /\ call.at = "idle" /\ call.lo = Laps!Zero
  BY <1>0, LapWords DEF Laps!Init, Laps!NoCall, Laps!CallState, Laps!Ats
<1>7. single \in Laps!Cores /\ multi \in Laps!Cores /\ passed \in [{"read", "read_n"} -> [Laps!Cores -> Nat]]
  BY <1>0 DEF Laps!Init
<1>8. Laps!Typed
  BY <1>1, <1>2, <1>3, <1>4, <1>5, <1>6, <1>7 DEF Laps!Typed
<1>9. Laps!WritersStayHome
  BY <1>3 DEF Laps!WritersStayHome
<1>10. Laps!NotAhead /\ Laps!StoredOnce /\ Laps!TakenOnce /\ Laps!LoadedOnce /\ Laps!NoWordTwice
  BY <1>1, <1>5, <1>6, LapWords DEF Laps!NotAhead, Laps!Stored, Laps!StoredOnce, Laps!TakenOnce, Laps!LoadedOnce, Laps!NoWordTwice
<1>. QED
  BY <1>8, <1>9, <1>10 DEF Laps!LapInv

\* A step of a call that neither loads nor clears.
LEMMA LapQuiet ==
  ASSUME Laps!LapInv, UNCHANGED <<mem, wr, sent, rd, got>>, single' \in Laps!Cores, multi' \in Laps!Cores,
         call.at \notin {"high", "clearLow", "clearHigh"}, call'.at # "high",
         call' \in Laps!CallState, call'.lo \in {call.lo, Laps!Zero},
         passed' \in [{"read", "read_n"} -> [Laps!Cores -> Nat]]
  PROVE  Laps!LapInv'
<1>1. Laps!Typed' /\ Laps!WritersStayHome'
  BY DEF Laps!LapInv, Laps!Typed, Laps!WritersStayHome
<1>2. Laps!NotAhead'
  BY LapWords DEF Laps!LapInv, Laps!NotAhead, Laps!Stored
<1>3. Laps!StoredOnce' /\ Laps!TakenOnce' /\ Laps!LoadedOnce' /\ Laps!NoWordTwice'
  BY DEF Laps!LapInv, Laps!StoredOnce, Laps!TakenOnce, Laps!LoadedOnce, Laps!NoWordTwice
<1>. QED
  BY <1>1, <1>2, <1>3 DEF Laps!LapInv

\* The counters of calls.
LEMMA LapPassed ==
  ASSUME Laps!Typed, NEW f, NEW c
  PROVE  Laps!Passed(f, c) \in [{"read", "read_n"} -> [Laps!Cores -> Nat]]
  BY SMTT(30) DEF Laps!Typed, Laps!Passed

\* The parts of a well typed state.
LEMMA LapTypes ==
  ASSUME Laps!Typed
  PROVE  /\ \A i \in Laps!Slots : mem[i] \in Laps!Pairs /\ mem[i].lo \in Laps!Words /\ mem[i].hi \in Laps!Words
         /\ \A k \in DOMAIN got : got[k] \in Laps!Pairs /\ got[k].lo \in Laps!Words /\ got[k].hi \in Laps!Words
         /\ call.lo \in Laps!Words /\ call.core \in Laps!Cores /\ call.at \in Laps!Ats
         /\ rd[call.core] \in Laps!Slots
         /\ Len(got) \in Nat /\ DOMAIN got = 1 .. Len(got)
         /\ \A c \in Laps!Cores : sent[c] \in 0 .. LapEvents /\ wr[c] \in Laps!Slots
<1>1. \A i \in Laps!Slots : mem[i] \in Laps!Pairs
  BY DEF Laps!Typed
<1>2. got \in Seq(Laps!Pairs)
  BY DEF Laps!Typed
<1>3. Len(got) \in Nat /\ DOMAIN got = 1 .. Len(got) /\ \A k \in DOMAIN got : got[k] \in Laps!Pairs
  BY <1>2
<1>4. \A e \in Laps!Pairs : e.lo \in Laps!Words /\ e.hi \in Laps!Words
  BY DEF Laps!Pairs
<1>5. call.lo \in Laps!Words /\ call.core \in Laps!Cores /\ call.at \in Laps!Ats
  BY DEF Laps!Typed, Laps!CallState
<1>6. rd[call.core] \in Laps!Slots /\ \A c \in Laps!Cores : sent[c] \in 0 .. LapEvents /\ wr[c] \in Laps!Slots
  BY <1>5 DEF Laps!Typed
<1>. QED
  BY <1>1, <1>3, <1>4, <1>5, <1>6

\* A core stores an event, over whatever is there.
LEMMA LapWrite ==
  ASSUME Laps!LapInv, NEW c \in Laps!Cores, Laps!Write(c)
  PROVE  Laps!LapInv'
<1>. DEFINE i0 == wr[c]  w == Laps!Word(c, sent[c] + 1)
<1>1. /\ Laps!Typed /\ sent[c] \in 0 .. LapEvents /\ sent[c] < LapEvents /\ i0 \in Laps!Slots
      /\ sent[c] + 1 \in 1 .. LapEvents /\ LapEvents \in Nat
  <2>1. Laps!Typed /\ sent[c] < LapEvents /\ LapEvents \in Nat
    BY LapsAssumption DEF Laps!LapInv, Laps!Write
  <2>2. sent[c] \in 0 .. LapEvents /\ i0 \in Laps!Slots
    BY <2>1, LapTypes
  <2>. QED
    BY <2>1, <2>2
<1>2. w \in Laps!Events /\ w \in Laps!Words /\ w[1] = c /\ w[2] = sent[c] + 1
  BY <1>1, LapWords
<1>3. /\ mem' = [mem EXCEPT ![i0] = Laps!Whole(w)] /\ sent' = [sent EXCEPT ![c] = @ + 1]
      /\ UNCHANGED <<rd, single, multi, call, got, passed>>
      /\ wr' = [wr EXCEPT ![c] = IF wr[c] + 1 >= Laps!TraceBufEnd(c) THEN Laps!TraceBufStart(c) ELSE wr[c] + 1]
  BY DEF Laps!Write
<1>. HIDE DEF i0, w
<1>4. /\ mem' \in [Laps!Slots -> Laps!Pairs] /\ mem'[i0] = Laps!Whole(w)
      /\ \A i \in Laps!Slots : i # i0 => mem'[i] = mem[i]
  BY <1>1, <1>2, <1>3 DEF Laps!Typed, Laps!Whole, Laps!Pairs
<1>5. mem'[i0].lo = w /\ mem'[i0].hi = w
  BY <1>4 DEF Laps!Whole
<1>6. sent' \in [Laps!Cores -> 0 .. LapEvents] /\ sent'[c] = sent[c] + 1 /\ \A d \in Laps!Cores : d # c => sent'[d] = sent[d]
  BY <1>1, <1>3, SMTT(30) DEF Laps!Typed
<1>7. \A d \in Laps!Cores : wr'[d] \in LapSlots * d .. (LapSlots * d + LapSlots) - 1
  <2> TAKE d \in Laps!Cores
  <2>1. wr[d] \in LapSlots * d .. (LapSlots * d + LapSlots) - 1
    BY LapPlaces DEF Laps!LapInv, Laps!WritersStayHome
  <2>2. CASE d # c
    BY <1>1, <1>3, <2>1, <2>2 DEF Laps!Typed
  <2>3. CASE d = c
    <3>1. wr'[c] = IF wr[c] + 1 >= LapSlots * c + LapSlots THEN LapSlots * c ELSE wr[c] + 1
      BY <1>1, <1>3, LapPlaces DEF Laps!Typed
    <3>2. LapSlots * c \in Nat /\ LapSlots \in Nat \ {0}
      BY LapPlaces
    <3>. QED
      BY <2>1, <2>3, <3>1, <3>2
  <2>. QED
    BY <2>2, <2>3
<1>8. \A d \in Laps!Cores : wr'[d] \in Laps!Slots /\ wr'[d] \in d * LapSlots .. (d + 1) * LapSlots - 1
  BY <1>7, LapPlaces
<1>9. wr' \in [Laps!Cores -> Laps!Slots]
  BY <1>1, <1>3, <1>8 DEF Laps!Typed
<1>10. Laps!Typed' /\ Laps!WritersStayHome'
  BY <1>1, <1>3, <1>4, <1>6, <1>8, <1>9 DEF Laps!Typed, Laps!WritersStayHome
<1>. DEFINE SP(v) == v \in Laps!Events => v[2] <= sent'[v[1]]
<1>11. \A v \in Laps!Words : Laps!Stored(v) => SP(v) /\ v # w
  <2> SUFFICES ASSUME NEW v \in Laps!Words, Laps!Stored(v) PROVE SP(v) /\ v # w
    OBVIOUS
  <2>1. v # w
    BY <1>1, <1>2 DEF Laps!Stored
  <2>2. ASSUME v \in Laps!Events PROVE v[2] <= sent'[v[1]]
    <3>1. v[1] \in Laps!Cores /\ v[2] \in 1 .. LapEvents /\ v[2] <= sent[v[1]] /\ sent[v[1]] \in Nat
      BY <1>1, <2>2 DEF Laps!Stored, Laps!Events, Laps!Typed
    <3>. QED
      BY <1>1, <1>6, <3>1
  <2>. QED
    BY <2>1, <2>2
<1>12. /\ \A i \in Laps!Slots : mem[i].lo \in Laps!Words /\ mem[i].hi \in Laps!Words
       /\ \A k \in DOMAIN got : got[k].lo \in Laps!Words /\ got[k].hi \in Laps!Words
       /\ call.lo \in Laps!Words
  BY <1>1, LapTypes
<1>13. /\ \A i \in Laps!Slots : SP(mem[i].lo) /\ mem[i].lo # w /\ SP(mem[i].hi) /\ mem[i].hi # w
       /\ \A k \in DOMAIN got : SP(got[k].lo) /\ got[k].lo # w /\ SP(got[k].hi) /\ got[k].hi # w
       /\ SP(call.lo) /\ call.lo # w
  <2>. HIDE DEF SP
  <2>. QED
    BY <1>11, <1>12 DEF Laps!LapInv, Laps!NotAhead
<1>14. SP(w)
  BY <1>1, <1>2, <1>6
<1>15. \A i \in Laps!Slots : SP(mem'[i].lo) /\ SP(mem'[i].hi)
  <2>. HIDE DEF SP
  <2>. QED
    BY <1>4, <1>5, <1>13, <1>14
<1>16. Laps!NotAhead'
  BY <1>3, <1>13, <1>15 DEF Laps!NotAhead, Laps!Stored
<1>. HIDE DEF SP
<1>17. Laps!StoredOnce'
  <2> SUFFICES ASSUME NEW i \in Laps!Slots, NEW j \in Laps!Slots, i # j
               PROVE  /\ mem'[i].lo = mem'[j].lo => mem'[i].lo \notin Laps!Events
                      /\ mem'[i].hi = mem'[j].hi => mem'[i].hi \notin Laps!Events
    BY DEF Laps!StoredOnce
  <2>1. CASE i = i0
    BY <1>4, <1>5, <1>13, <2>1
  <2>2. CASE j = i0
    BY <1>4, <1>5, <1>13, <2>2
  <2>3. CASE i # i0 /\ j # i0
    BY <1>4, <2>3 DEF Laps!LapInv, Laps!StoredOnce
  <2>. QED
    BY <2>1, <2>2, <2>3
<1>18. Laps!TakenOnce'
  <2> SUFFICES ASSUME NEW i \in Laps!Slots, NEW k \in DOMAIN got
               PROVE  /\ got[k].lo \in Laps!Events /\ mem'[i].lo = got[k].lo => call.at = "clearLow" /\ Laps!AtHand(i, k)
                      /\ got[k].hi \in Laps!Events /\ mem'[i].hi = got[k].hi =>
                           call.at \in {"clearLow", "clearHigh"} /\ Laps!AtHand(i, k)
    BY <1>3 DEF Laps!TakenOnce, Laps!AtHand
  <2>1. CASE i = i0
    BY <1>5, <1>13, <2>1
  <2>2. CASE i # i0
    BY <1>4, <2>2 DEF Laps!LapInv, Laps!TakenOnce
  <2>. QED
    BY <2>1, <2>2
<1>19. Laps!LoadedOnce'
  BY <1>3, <1>4, <1>5, <1>13 DEF Laps!LapInv, Laps!LoadedOnce
<1>20. Laps!NoWordTwice'
  BY <1>3 DEF Laps!LapInv, Laps!NoWordTwice
<1>. QED
  BY <1>10, <1>16, <1>17, <1>18, <1>19, <1>20 DEF Laps!LapInv

\* The low word is loaded: it is one that was not handed out.
LEMMA LapLoadLow ==
  ASSUME Laps!LapInv, Laps!LoadLow
  PROVE  Laps!LapInv'
<1>. DEFINE r == rd[call.core]
<1>1. /\ Laps!Typed /\ call.at = "low" /\ r \in Laps!Slots /\ call \in Laps!CallState
      /\ UNCHANGED <<mem, wr, sent, rd, single, multi, got, passed>>
      /\ call' = [[call EXCEPT !.at = "high"] EXCEPT !.lo = mem[r].lo]
  BY LapTypes DEF Laps!LapInv, Laps!LoadLow, Laps!At, Laps!Goto, Laps!Typed
<1>2. mem[r].lo \in Laps!Words /\ "high" \in Laps!Ats
  BY <1>1, LapTypes DEF Laps!Ats
<1>. HIDE DEF r
<1>3. call' \in Laps!CallState /\ call'.at = "high" /\ call'.lo = mem[r].lo /\ call'.core = call.core
  BY <1>1, <1>2 DEF Laps!CallState
<1>4. Laps!Typed' /\ Laps!WritersStayHome' /\ Laps!StoredOnce' /\ Laps!NoWordTwice'
  BY <1>1, <1>3 DEF Laps!LapInv, Laps!Typed, Laps!WritersStayHome, Laps!StoredOnce, Laps!NoWordTwice
<1>5. Laps!NotAhead'
  BY <1>1, <1>3 DEF Laps!LapInv, Laps!NotAhead, Laps!Stored
<1>6. Laps!TakenOnce'
  BY <1>1 DEF Laps!LapInv, Laps!TakenOnce
<1>7. Laps!LoadedOnce'
  BY <1>1, <1>3 DEF Laps!LapInv, Laps!TakenOnce, Laps!StoredOnce, Laps!LoadedOnce, r
<1>. QED
  BY <1>4, <1>5, <1>6, <1>7 DEF Laps!LapInv

\* Then the high one, and the caller has both.
LEMMA LapLoadHigh ==
  ASSUME Laps!LapInv, Laps!LoadHigh
  PROVE  Laps!LapInv'
<1>. DEFINE r == rd[call.core]  e == [lo |-> call.lo, hi |-> mem[rd[call.core]].hi]  n == Len(got)
<1>1. /\ Laps!Typed /\ call.at = "high" /\ r \in Laps!Slots /\ call \in Laps!CallState
      /\ UNCHANGED <<mem, wr, sent, rd, single, multi, passed>> /\ got' = Append(got, e)
      /\ call' = [[call EXCEPT !.at = "clearLow"] EXCEPT !.lo = Laps!Zero]
  BY LapTypes DEF Laps!LapInv, Laps!LoadHigh, Laps!At, Laps!Goto, Laps!Typed
<1>2. e \in Laps!Pairs /\ e.lo = call.lo /\ e.hi = mem[r].hi
  BY <1>1, LapTypes DEF Laps!Pairs
<1>. HIDE DEF e
<1>3. call' \in Laps!CallState /\ call'.at = "clearLow" /\ call'.lo = Laps!Zero /\ call'.core = call.core
  BY <1>1, LapWords DEF Laps!CallState, Laps!Ats
<1>4. /\ got' \in Seq(Laps!Pairs) /\ n \in Nat /\ Len(got') = n + 1 /\ DOMAIN got = 1 .. n /\ DOMAIN got' = 1 .. n + 1
      /\ got'[n + 1] = e /\ \A k \in 1 .. n : got'[k] = got[k]
  BY <1>1, <1>2 DEF Laps!Typed
<1>. HIDE DEF n
<1>5. Laps!Typed' /\ Laps!WritersStayHome' /\ Laps!StoredOnce'
  BY <1>1, <1>3, <1>4 DEF Laps!LapInv, Laps!Typed, Laps!WritersStayHome, Laps!StoredOnce
<1>6. \A k \in DOMAIN got' : (k \in DOMAIN got /\ got'[k] = got[k]) \/ (k = n + 1 /\ got'[k] = e)
  BY <1>4
<1>7. Laps!NotAhead'
  <2>1. Laps!Stored(e.lo) /\ Laps!Stored(e.hi) /\ Laps!Stored(Laps!Zero)
    BY <1>1, <1>2, LapWords DEF Laps!LapInv, Laps!NotAhead, Laps!Stored
  <2>. QED
    BY <1>1, <1>3, <1>6, <2>1 DEF Laps!LapInv, Laps!NotAhead, Laps!Stored
<1>8. /\ call.lo \in Laps!Events => /\ \A k \in DOMAIN got : got[k].lo # call.lo
                                    /\ \A i \in Laps!Slots : mem[i].lo = call.lo => i = r
      /\ \A i \in Laps!Slots, k \in DOMAIN got : got[k].hi \in Laps!Events => mem[i].hi # got[k].hi
      /\ \A i \in Laps!Slots, k \in DOMAIN got : got[k].lo \in Laps!Events => mem[i].lo # got[k].lo
  BY <1>1 DEF Laps!LapInv, Laps!TakenOnce, Laps!LoadedOnce
<1>9. Laps!TakenOnce'
  <2> SUFFICES ASSUME NEW i \in Laps!Slots, NEW k \in DOMAIN got'
               PROVE  /\ got'[k].lo \in Laps!Events /\ mem[i].lo = got'[k].lo => i = r /\ k = n + 1
                      /\ got'[k].hi \in Laps!Events /\ mem[i].hi = got'[k].hi => i = r /\ k = n + 1
    BY <1>1, <1>3, <1>4 DEF Laps!TakenOnce, Laps!AtHand
  <2>1. CASE k \in DOMAIN got /\ got'[k] = got[k]
    BY <1>8, <2>1
  <2>2. CASE k = n + 1 /\ got'[k] = e
    BY <1>1, <1>2, <1>8, <2>2 DEF Laps!LapInv, Laps!StoredOnce
  <2>. QED
    BY <1>6, <2>1, <2>2
<1>10. Laps!LoadedOnce'
  BY <1>3 DEF Laps!LoadedOnce
<1>11. Laps!NoWordTwice'
  <2> SUFFICES ASSUME NEW i \in DOMAIN got', NEW j \in DOMAIN got', i < j
               PROVE  /\ got'[i].lo = got'[j].lo => got'[i].lo \in {Laps!Zero, Laps!Foreign}
                      /\ got'[i].hi = got'[j].hi => got'[i].hi \in {Laps!Zero, Laps!Foreign}
    BY DEF Laps!NoWordTwice
  <2>1. i \in DOMAIN got /\ got'[i] = got[i]
    BY <1>4
  <2>2. CASE j \in DOMAIN got /\ got'[j] = got[j]
    BY <2>1, <2>2 DEF Laps!LapInv, Laps!NoWordTwice
  <2>3. CASE j = n + 1 /\ got'[j] = e
    <3>1. got[i].lo \in Laps!Words /\ got[i].hi \in Laps!Words
      BY <1>1, <2>1, LapTypes
    <3>. QED
      BY <1>1, <1>2, <1>8, <2>1, <2>3, <3>1 DEF Laps!Words
  <2>. QED
    BY <1>6, <2>2, <2>3
<1>. QED
  BY <1>5, <1>7, <1>9, <1>10, <1>11 DEF Laps!LapInv

\* The words are cleared, unless a core has stored others there.
LEMMA LapClear ==
  ASSUME Laps!LapInv, Laps!ClearLow \/ Laps!ClearHigh
  PROVE  Laps!LapInv'
<1>. DEFINE r == rd[call.core]
<1>1. /\ Laps!Typed /\ call.at \in {"clearLow", "clearHigh"} /\ r \in Laps!Slots /\ call \in Laps!CallState
      /\ UNCHANGED <<wr, sent, rd, single, multi, got, passed>>
      /\ call' = [call EXCEPT !.at = IF call.at = "clearLow" THEN "clearHigh" ELSE "advance"]
      /\ mem' = IF call.at = "clearLow" THEN [mem EXCEPT ![r].lo = Laps!Zero] ELSE [mem EXCEPT ![r].hi = Laps!Zero]
  BY LapTypes DEF Laps!LapInv, Laps!ClearLow, Laps!ClearHigh, Laps!At, Laps!Goto, Laps!Typed
<1>2. mem[r] \in Laps!Pairs
  BY <1>1, LapTypes
<1>. HIDE DEF r
<1>3. /\ call' \in Laps!CallState /\ call'.lo = call.lo /\ call'.core = call.core
      /\ call'.at = IF call.at = "clearLow" THEN "clearHigh" ELSE "advance"
  BY <1>1 DEF Laps!CallState, Laps!Ats
<1>4. /\ mem' \in [Laps!Slots -> Laps!Pairs] /\ \A i \in Laps!Slots : i # r => mem'[i] = mem[i]
      /\ mem'[r].lo = IF call.at = "clearLow" THEN Laps!Zero ELSE mem[r].lo
      /\ mem'[r].hi = IF call.at = "clearHigh" THEN Laps!Zero ELSE mem[r].hi
  <2>1. mem \in [Laps!Slots -> Laps!Pairs]
    BY <1>1 DEF Laps!Typed
  <2>2. CASE call.at = "clearLow"
    <3>1. [mem[r] EXCEPT !.lo = Laps!Zero] \in Laps!Pairs
      BY <1>2, LapWords DEF Laps!Pairs
    <3>2. mem' = [mem EXCEPT ![r] = [mem[r] EXCEPT !.lo = Laps!Zero]]
      BY <1>1, <2>2
    <3>. QED
      BY <1>1, <1>2, <2>1, <2>2, <3>1, <3>2 DEF Laps!Pairs
  <2>3. CASE call.at = "clearHigh"
    <3>1. [mem[r] EXCEPT !.hi = Laps!Zero] \in Laps!Pairs
      BY <1>2, LapWords DEF Laps!Pairs
    <3>2. mem' = [mem EXCEPT ![r] = [mem[r] EXCEPT !.hi = Laps!Zero]]
      BY <1>1, <2>3
    <3>. QED
      BY <1>1, <1>2, <2>1, <2>3, <3>1, <3>2 DEF Laps!Pairs
  <2>. QED
    BY <1>1, <2>2, <2>3
<1>5. /\ \A i \in Laps!Slots : mem'[i].lo \in {mem[i].lo, Laps!Zero} /\ mem'[i].hi \in {mem[i].hi, Laps!Zero}
      /\ Laps!Zero \notin Laps!Events
  BY <1>4, LapWords
<1>6. Laps!Typed' /\ Laps!WritersStayHome' /\ Laps!NoWordTwice'
  BY <1>1, <1>3, <1>4 DEF Laps!LapInv, Laps!Typed, Laps!WritersStayHome, Laps!NoWordTwice
<1>7. Laps!NotAhead'
  BY <1>1, <1>3, <1>5 DEF Laps!LapInv, Laps!NotAhead, Laps!Stored
<1>8. Laps!StoredOnce'
  BY <1>5 DEF Laps!LapInv, Laps!StoredOnce
<1>9. Laps!TakenOnce'
  <2> SUFFICES ASSUME NEW i \in Laps!Slots, NEW k \in DOMAIN got
               PROVE  /\ got[k].lo \in Laps!Events /\ mem'[i].lo = got[k].lo => FALSE
                      /\ got[k].hi \in Laps!Events /\ mem'[i].hi = got[k].hi =>
                           call'.at \in {"clearLow", "clearHigh"} /\ i = r /\ k = Len(got)
    BY <1>1, <1>3 DEF Laps!TakenOnce, Laps!AtHand, r
  <2>1. /\ got[k].lo \in Laps!Events /\ mem[i].lo = got[k].lo => call.at = "clearLow" /\ i = r
        /\ got[k].hi \in Laps!Events /\ mem[i].hi = got[k].hi => i = r /\ k = Len(got)
    BY DEF Laps!LapInv, Laps!TakenOnce, Laps!AtHand, r
  <2>2. CASE i = r
    BY <1>1, <1>3, <1>4, <1>5, <2>1, <2>2
  <2>3. CASE i # r
    BY <1>4, <2>1, <2>3
  <2>. QED
    BY <2>2, <2>3
<1>10. Laps!LoadedOnce'
  BY <1>3 DEF Laps!LoadedOnce
<1>. QED
  BY <1>6, <1>7, <1>8, <1>9, <1>10 DEF Laps!LapInv

\* The host's pointer moves on within its ring.
LEMMA LapAdvance ==
  ASSUME Laps!LapInv, Laps!Advance
  PROVE  Laps!LapInv'
<1>. DEFINE c == call.core
<1>1. /\ Laps!Typed /\ call.at = "advance" /\ c \in Laps!Cores /\ call \in Laps!CallState
      /\ UNCHANGED <<mem, wr, sent, multi, got>> /\ rd' = [rd EXCEPT ![c] = Laps!Advanced(c)]
      /\ single' \in {single, Laps!NextCore(single)}
      /\ call' \in {Laps!NoCall, [[call EXCEPT !.at = "check"] EXCEPT !.cnt = @ + 1]}
      /\ passed' \in {Laps!Passed("read", c), Laps!Passed("none", c)}
  <2>1. Laps!Typed /\ c \in Laps!Cores /\ call \in Laps!CallState
    BY LapTypes DEF Laps!LapInv, Laps!Typed
  <2>. QED
    BY <2>1 DEF Laps!Advance, Laps!At, Laps!Goto
<1>2. NumCores \in Nat \ {0} /\ Laps!Cores = 0 .. NumCores - 1 /\ single \in Laps!Cores
  BY <1>1, SizeAssumption DEF Laps!Cores, Laps!Typed
<1>3. single' \in Laps!Cores /\ 0 \in Laps!Cores /\ 0 \in 0 .. NumCores
  BY <1>1, <1>2 DEF Laps!NextCore
<1>4. call' \in Laps!CallState /\ call'.at \in {"idle", "check"} /\ call'.lo \in {call.lo, Laps!Zero}
  <2>1. Laps!NoCall \in Laps!CallState /\ Laps!NoCall.at = "idle" /\ Laps!NoCall.lo = Laps!Zero
    BY <1>3, LapWords DEF Laps!NoCall, Laps!CallState, Laps!Ats
  <2>. DEFINE n == [[call EXCEPT !.at = "check"] EXCEPT !.cnt = @ + 1]
  <2>. DEFINE m == [call EXCEPT !.at = "check"]
  <2>2. m \in Laps!CallState /\ m.at = "check" /\ m.lo = call.lo /\ m.cnt + 1 \in Nat
    BY <1>1 DEF Laps!CallState, Laps!Ats
  <2>. HIDE DEF m
  <2>3. [m EXCEPT !.cnt = m.cnt + 1] \in Laps!CallState /\ [m EXCEPT !.cnt = m.cnt + 1].at = "check"
        /\ [m EXCEPT !.cnt = m.cnt + 1].lo = call.lo
    BY <2>2 DEF Laps!CallState
  <2>4. n \in Laps!CallState /\ n.at = "check" /\ n.lo = call.lo
    BY <2>3 DEF m
  <2>. QED
    BY <1>1, <2>1, <2>4
<1>5. passed' \in [{"read", "read_n"} -> [Laps!Cores -> Nat]]
  BY <1>1, LapPassed
<1>. HIDE DEF c
<1>6. \A d \in Laps!Cores : rd'[d] \in Laps!BufStart(d) .. Laps!BufEnd(d) - 1
  <2> TAKE d \in Laps!Cores
  <2>1. rd[d] \in Laps!BufStart(d) .. Laps!BufEnd(d) - 1 /\ rd'[d] = IF d = c THEN Laps!Advanced(d) ELSE rd[d]
    BY <1>1 DEF Laps!Typed
  <2>2. Laps!BufStart(d) \in Nat /\ Laps!BufEnd(d) \in Nat /\ Laps!BufStart(d) < Laps!BufEnd(d)
    BY LapPlaces
  <2>. QED
    BY <2>1, <2>2 DEF Laps!Advanced
<1>7. \A d \in Laps!Cores : rd'[d] \in Laps!Slots
  BY <1>6, LapPlaces
<1>8. rd' \in [Laps!Cores -> Laps!Slots]
  BY <1>1, <1>7 DEF Laps!Typed
<1>9. Laps!Typed' /\ Laps!WritersStayHome'
  BY <1>1, <1>3, <1>4, <1>5, <1>6, <1>8 DEF Laps!LapInv, Laps!Typed, Laps!WritersStayHome
<1>10. Laps!NotAhead'
  BY <1>1, <1>4, LapWords DEF Laps!LapInv, Laps!NotAhead, Laps!Stored
<1>11. Laps!StoredOnce' /\ Laps!LoadedOnce' /\ Laps!NoWordTwice'
  BY <1>1, <1>4 DEF Laps!LapInv, Laps!StoredOnce, Laps!LoadedOnce, Laps!NoWordTwice
<1>12. Laps!TakenOnce'
  BY <1>1 DEF Laps!LapInv, Laps!TakenOnce
<1>. QED
  BY <1>9, <1>10, <1>11, <1>12 DEF Laps!LapInv

\* All steps, lapped or not.
LEMMA LapStep ==
  Laps!LapInv /\ [Laps!Next]_vars => Laps!LapInv'
<1> SUFFICES ASSUME Laps!LapInv, [Laps!Next]_vars PROVE Laps!LapInv'
  OBVIOUS
<1>0. /\ NumCores \in Nat \ {0} /\ Laps!Cores = 0 .. NumCores - 1 /\ single \in Laps!Cores /\ multi \in Laps!Cores
      /\ call \in Laps!CallState /\ Laps!Typed /\ passed \in [{"read", "read_n"} -> [Laps!Cores -> Nat]]
  BY SizeAssumption DEF Laps!Cores, Laps!Typed, Laps!LapInv
<1>1. CASE Laps!CoreStep
  BY <1>1, LapWrite DEF Laps!CoreStep
<1>2. CASE Laps!LoadLow
  BY <1>2, LapLoadLow
<1>3. CASE Laps!LoadHigh
  BY <1>3, LapLoadHigh
<1>4. CASE Laps!ClearLow \/ Laps!ClearHigh
  BY <1>4, LapClear
<1>5. CASE Laps!Advance
  BY <1>5, LapAdvance
<1>6. Laps!NoCall \in Laps!CallState /\ Laps!NoCall.at = "idle" /\ Laps!NoCall.lo = Laps!Zero
  <2>1. 0 \in Laps!Cores /\ 0 \in 0 .. NumCores
    BY <1>0
  <2>. QED
    BY <2>1, LapWords DEF Laps!NoCall, Laps!CallState, Laps!Ats
<1>7. \A c \in Laps!Cores : Laps!NextCore(c) \in Laps!Cores
  BY <1>0 DEF Laps!NextCore
<1>8. CASE Laps!Read \/ Laps!ReadN \/ Laps!ReadCoreNoN
  <2>1. PICK f \in Laps!Fns, c \in Laps!Cores, m \in Nat : Laps!Begin(f, c, m)
    BY <1>0, <1>8, LapsAssumption DEF Laps!Read, Laps!ReadN, Laps!ReadCoreNoN, Laps!Fns
  <2>. DEFINE n == [fn |-> f, at |-> "check", core |-> c, seen |-> 0, cnt |-> 0, max |-> m, lo |-> Laps!Zero]
  <2>2. call' = n
    BY <2>1 DEF Laps!Begin, Laps!NoCall
  <2>3. n \in Laps!CallState /\ n.at = "check" /\ n.lo = Laps!Zero
    BY <1>0, LapWords DEF Laps!CallState, Laps!Ats
  <2>4. /\ call.at = "idle" /\ UNCHANGED <<mem, wr, sent, rd, single, multi, got, passed>>
    BY <2>1 DEF Laps!Begin
  <2>. HIDE DEF n
  <2>. QED
    BY <1>0, <2>2, <2>3, <2>4, LapQuiet
<1>9. CASE Laps!Check \/ Laps!MissRead \/ Laps!Sleep \/ Laps!Timeout \/ Laps!DoneReadN \/ Laps!DoneReadCoreNoN
  <2>. DEFINE a == [call EXCEPT !.at = "low"]
              b == [call EXCEPT !.core = Laps!NextCore(@), !.seen = @ + 1]
              d == [call EXCEPT !.seen = 0]
  <2>1. call.at = "check" /\ UNCHANGED <<mem, wr, sent, rd, got>>
    BY <1>9 DEF Laps!Check, Laps!MissRead, Laps!Sleep, Laps!Timeout, Laps!DoneReadN, Laps!DoneReadCoreNoN, Laps!CoreDone, Laps!At
  <2>2. single' \in {single, Laps!NextCore(single)} /\ multi' \in {multi, Laps!NextCore(multi)}
    BY <1>9 DEF Laps!Check, Laps!MissRead, Laps!Sleep, Laps!Timeout, Laps!DoneReadN, Laps!DoneReadCoreNoN
  <2>3. passed' = passed \/ \E f : passed' = Laps!Passed(f, NumCores)
    BY <1>9 DEF Laps!Check, Laps!MissRead, Laps!Sleep, Laps!Timeout, Laps!DoneReadN, Laps!DoneReadCoreNoN, Laps!Return
  <2>4. passed' \in [{"read", "read_n"} -> [Laps!Cores -> Nat]]
    BY <1>0, <2>3, LapPassed
  <2>5. call' \in {a, b, d, Laps!NoCall}
    BY <1>9 DEF Laps!Check, Laps!MissRead, Laps!Sleep, Laps!Timeout, Laps!DoneReadN, Laps!DoneReadCoreNoN, Laps!Return, Laps!Goto
  <2>6. /\ a \in Laps!CallState /\ a.at = "low" /\ a.lo = call.lo
        /\ d \in Laps!CallState /\ d.at = call.at /\ d.lo = call.lo
    BY <1>0 DEF Laps!CallState, Laps!Ats
  <2>7. b \in Laps!CallState /\ b.at = call.at /\ b.lo = call.lo
    <3>0. call.core \in Laps!Cores /\ Laps!NextCore(call.core) \in Laps!Cores /\ call.seen \in Nat /\ call.seen + 1 \in Nat
      <4>1. call.core \in Laps!Cores
        BY <1>0, LapTypes
      <4>2. call.seen \in Nat
        BY <1>0 DEF Laps!CallState
      <4>. QED
        BY <1>7, <4>1, <4>2
    <3>. DEFINE e == [call EXCEPT !.core = Laps!NextCore(call.core)]
    <3>1. e \in Laps!CallState /\ e.at = call.at /\ e.lo = call.lo /\ e.seen = call.seen
      BY <1>0, <3>0 DEF Laps!CallState
    <3>2. b = [e EXCEPT !.seen = e.seen + 1]
      BY <1>0 DEF Laps!CallState
    <3>. HIDE DEF e, b
    <3>. QED
      BY <3>0, <3>1, <3>2 DEF Laps!CallState
  <2>8. call' \in Laps!CallState /\ call'.at # "high" /\ call'.lo \in {call.lo, Laps!Zero}
    BY <1>6, <2>1, <2>5, <2>6, <2>7
  <2>. QED
    BY <1>0, <1>7, <2>1, <2>2, <2>4, <2>8, LapQuiet
<1>10. CASE UNCHANGED vars
  <2>1. UNCHANGED <<mem, wr, sent, rd, single, multi, call, got, passed>>
    BY <1>10 DEF vars
  <2>. QED
    BY <2>1 DEF Laps!LapInv, Laps!Typed, Laps!WritersStayHome, Laps!NotAhead, Laps!Stored, Laps!StoredOnce, Laps!TakenOnce,
       Laps!AtHand, Laps!LoadedOnce, Laps!NoWordTwice
<1>. QED
  BY <1>1, <1>2, <1>3, <1>4, <1>5, <1>8, <1>9, <1>10 DEF Laps!Next, Laps!InCall

\* For every number of cores and of slots, for every width of an event and any number of
\* events: no word of an event is handed out twice, and cores store in their own rings.
THEOREM LapsStayHarmless ==
  MCSpec => []LapsHarmless
<1>. DEFINE I == part = "laps" => Laps!LapInv
<1>1. MCInit => I
  BY LapInit DEF MCInit
<1>2. I /\ [MCNext]_<<part, serverVars>> => I'
  <2> SUFFICES ASSUME I, [MCNext]_<<part, serverVars>>, part' = "laps" PROVE Laps!LapInv'
    OBVIOUS
  <2>1. part = "laps" /\ [Laps!Next]_vars
    BY DEF MCNext, serverVars
  <2>. QED
    BY <2>1, LapStep
<1>3. I => LapsHarmless
  BY DEF LapsHarmless, InPart, Laps!LapInv
<1>. QED
  BY <1>1, <1>2, <1>3, PTL DEF MCSpec

-----------------------------------------------------------------------------
(* Rings that are not lapped                                                *)

\* The place of slot n in the ring of core c.
Place(c, n) == (SlotsPerCore * c + n) - 1

\* Where the rings are.
LEMMA Places ==
  ASSUME NEW c \in Cores
  PROVE  /\ SlotsPerCore * c \in Nat /\ SlotsPerCore \in Nat \ {0} /\ MaxEvents \in Nat /\ MaxEvents < SlotsPerCore
         /\ BufStart(c) = SlotsPerCore * c /\ BufEnd(c) \in Nat /\ SlotsPerCore * c + SlotsPerCore <= BufEnd(c)
         /\ TraceBufStart(c) = SlotsPerCore * c /\ TraceBufEnd(c) = SlotsPerCore * c + SlotsPerCore
         /\ BufStart(c) .. BufEnd(c) - 1 \subseteq Slots
         /\ \A n \in 1 .. SlotsPerCore : Place(c, n) \in Slots /\ Place(c, n) \in Segment /\ Slot(c, n) = mem[Place(c, n)]
<1>1. /\ NumCores \in Nat \ {0} /\ SlotsPerCore \in Nat \ {0} /\ WordBytes \in Nat \ {0} /\ c \in 0 .. NumCores - 1
      /\ NumCores - 1 \in 0 .. NumCores - 1 /\ c \in Nat /\ NumCores - 1 \in Nat
      /\ MaxEvents \in Nat /\ MaxEvents < SlotsPerCore
  BY SizeAssumption, NoLapAssumption DEF Cores
<1>2. \A d \in Nat : /\ BufStart(d) = SlotsPerCore * d /\ TraceBufStart(d) = SlotsPerCore * d
                     /\ TraceBufEnd(d) = SlotsPerCore * d + SlotsPerCore
                     /\ BufEnd(d) = SlotsPerCore * d + SlotsPerCore * WordBytes
                     /\ SlotsPerCore * d \in Nat /\ SlotsPerCore * WordBytes \in Nat /\ SlotsPerCore <= SlotsPerCore * WordBytes
  BY <1>1, Bounds DEF BufStart, BufEnd, TraceBufStart, TraceBufEnd, CoreTraceBufSz
<1>3. SlotsPerCore * c <= SlotsPerCore * (NumCores - 1)
  BY <1>1, Rows
<1>4. Slots = 0 .. (SlotsPerCore * (NumCores - 1) + SlotsPerCore * WordBytes) - 1
  BY <1>1, <1>2 DEF Slots
<1>5. NumCores * SlotsPerCore = SlotsPerCore * (NumCores - 1) + SlotsPerCore
  BY <1>1
<1>. DEFINE x == SlotsPerCore * c  y == SlotsPerCore * (NumCores - 1)  z == SlotsPerCore * WordBytes
<1>6. /\ x \in Nat /\ y \in Nat /\ z \in Nat /\ x <= y /\ SlotsPerCore <= z
      /\ BufStart(c) = x /\ BufEnd(c) = x + z /\ Slots = 0 .. (y + z) - 1 /\ Segment = 0 .. (y + SlotsPerCore) - 1
  BY <1>1, <1>2, <1>3, <1>4, <1>5 DEF Segment
<1>7. \A n \in 1 .. SlotsPerCore : Place(c, n) = (x + n) - 1 /\ Slot(c, n) = mem[(x + n) - 1]
  BY <1>6 DEF Place, Slot
<1>. HIDE DEF x, y, z
<1>8. /\ x + z \in Nat /\ x + SlotsPerCore <= x + z /\ x .. (x + z) - 1 \subseteq 0 .. (y + z) - 1
      /\ \A n \in 1 .. SlotsPerCore : (x + n) - 1 \in 0 .. (y + z) - 1 /\ (x + n) - 1 \in 0 .. (y + SlotsPerCore) - 1
  BY <1>1, <1>6
<1>. QED
  BY <1>1, <1>2, <1>6, <1>7, <1>8 DEF x

\* A place is that of one slot of one ring.
LEMMA PlacesDiffer ==
  ASSUME NEW c \in Cores, NEW d \in Cores, NEW n \in 1 .. SlotsPerCore, NEW m \in 1 .. SlotsPerCore,
         Place(c, n) = Place(d, m)
  PROVE  c = d /\ n = m
<1>1. /\ NumCores \in Nat \ {0} /\ SlotsPerCore \in Nat \ {0} /\ c \in 0 .. NumCores - 1 /\ d \in 0 .. NumCores - 1
      /\ SlotsPerCore * c \in Nat /\ SlotsPerCore * d \in Nat
  BY SizeAssumption, Places DEF Cores
<1>2. c = d
  <2> SUFFICES ASSUME c # d PROVE FALSE
    OBVIOUS
  <2>. DEFINE i == Place(c, n)
  <2>1. i \in SlotsPerCore * c .. (SlotsPerCore * c + SlotsPerCore) - 1
    BY <1>1 DEF Place
  <2>2. i \in SlotsPerCore * d .. (SlotsPerCore * d + SlotsPerCore) - 1
    BY <1>1 DEF Place
  <2>. HIDE DEF i
  <2>. QED
    BY <1>1, <2>1, <2>2, RingsApart
<1>. QED
  BY <1>1, <1>2 DEF Place

\* The parts of a well typed state.
LEMMA Types ==
  ASSUME Typed
  PROVE  /\ \A i \in Slots : mem[i] \in Pairs
         /\ got \in Seq(Pairs) /\ Len(got) \in Nat /\ DOMAIN got = 1 .. Len(got)
         /\ \A k \in DOMAIN got : got[k] \in Pairs
         /\ call \in CallState /\ call.core \in Cores /\ call.seen \in Nat /\ call.cnt \in Nat /\ call.max \in Nat
         /\ single \in Cores /\ multi \in Cores /\ NumCores \in Nat \ {0} /\ Cores = 0 .. NumCores - 1
         /\ \A c \in Cores : sent[c] \in 0 .. MaxEvents /\ rd[c] \in Slots /\ wr[c] \in Slots
         /\ \A c \in Cores : passed["read"][c] \in Nat /\ passed["read_n"][c] \in Nat
<1>1. got \in Seq(Pairs) /\ call \in CallState
  BY DEF Typed
<1>2. Len(got) \in Nat /\ DOMAIN got = 1 .. Len(got) /\ \A k \in DOMAIN got : got[k] \in Pairs
  BY <1>1
<1>3. call.core \in Cores /\ call.seen \in Nat /\ call.cnt \in Nat /\ call.max \in Nat
  BY <1>1 DEF CallState
<1>4. \A i \in Slots : mem[i] \in Pairs
  BY DEF Typed
<1>5. single \in Cores /\ multi \in Cores /\ NumCores \in Nat \ {0} /\ Cores = 0 .. NumCores - 1
  BY SizeAssumption DEF Typed, Cores
<1>6. \A c \in Cores : sent[c] \in 0 .. MaxEvents /\ rd[c] \in Slots /\ wr[c] \in Slots
  BY DEF Typed
<1>7. \A c \in Cores : passed["read"][c] \in Nat /\ passed["read_n"][c] \in Nat
  <2>1. passed["read"] \in [Cores -> Nat] /\ passed["read_n"] \in [Cores -> Nat]
    BY DEF Typed
  <2>. QED
    BY <2>1
<1>. QED
  BY <1>1, <1>2, <1>3, <1>4, <1>5, <1>6, <1>7

\* The pointers of a core and of the host are in the core's ring.
LEMMA Pointers ==
  ASSUME Typed, Rings, NEW c \in Cores
  PROVE  /\ sent[c] \in 0 .. MaxEvents /\ TakenOf(c) \in 0 .. sent[c] /\ MaxEvents \in Nat
         /\ TakenOf(c) + 1 \in 1 .. SlotsPerCore /\ sent[c] + 1 \in 1 .. SlotsPerCore
         /\ rd[c] = Place(c, TakenOf(c) + 1) /\ wr[c] = Place(c, sent[c] + 1)
         /\ mem[rd[c]] = Slot(c, TakenOf(c) + 1) /\ rd[c] \in Slots
         /\ GotOf(c) \in Nat
<1>1. sent[c] \in 0 .. MaxEvents /\ rd[c] \in BufStart(c) .. BufEnd(c) - 1 /\ wr[c] = BufStart(c) + sent[c] /\ TakenOf(c) <= sent[c]
  BY DEF Typed, Rings
<1>. DEFINE x == SlotsPerCore * c
<1>2. x \in Nat /\ BufStart(c) = x /\ BufEnd(c) \in Nat /\ MaxEvents \in Nat /\ MaxEvents < SlotsPerCore /\ SlotsPerCore \in Nat
  BY Places
<1>3. TakenOf(c) = rd[c] - x
  BY <1>2 DEF TakenOf
<1>4. \A n : Place(c, n) = (x + n) - 1
  BY DEF Place
<1>. HIDE DEF x
<1>5. TakenOf(c) \in 0 .. sent[c] /\ TakenOf(c) + 1 \in 1 .. SlotsPerCore /\ sent[c] + 1 \in 1 .. SlotsPerCore
  BY <1>1, <1>2, <1>3
<1>6. rd[c] = Place(c, TakenOf(c) + 1) /\ wr[c] = Place(c, sent[c] + 1)
  BY <1>1, <1>2, <1>3, <1>4, <1>5
<1>7. mem[rd[c]] = Slot(c, TakenOf(c) + 1) /\ rd[c] \in Slots
  BY <1>5, <1>6, Places
<1>8. GotOf(c) \in Nat
  BY <1>1, <1>5 DEF GotOf
<1>. QED
  BY <1>1, <1>2, <1>5, <1>6, <1>7, <1>8

\* Unless its slot is being cleared, a core has an event to read just when one was not taken.
LEMMA UnreadRight ==
  ASSUME Typed, Rings, NEW c \in Cores, c = call.core => call.at \notin {"clearHigh", "advance"}
  PROVE  /\ Unread(c) <=> TakenOf(c) < sent[c]
         /\ TakenOf(c) < sent[c] => mem[rd[c]] = Whole(Word(c, TakenOf(c) + 1)) /\ TakenOf(c) + 1 \in 1 .. MaxEvents
<1>. DEFINE t == TakenOf(c)
<1>1. /\ t \in 0 .. sent[c] /\ sent[c] \in 0 .. MaxEvents /\ MaxEvents \in Nat /\ t + 1 \in 1 .. SlotsPerCore
      /\ mem[rd[c]] = Slot(c, t + 1)
  BY Pointers
<1>2. Slot(c, t + 1) = IF t + 1 > sent[c] THEN Empty ELSE Whole(Word(c, t + 1))
  BY <1>1 DEF Rings, Cleared
<1>3. t < sent[c] => t + 1 \in 1 .. MaxEvents
  BY <1>1
<1>4. t + 1 \in 1 .. MaxEvents => Whole(Word(c, t + 1)) # Empty
  <2>1. Whole(Word(c, t + 1)).lo = Word(c, t + 1) /\ Empty.lo = Zero
    BY DEF Whole, Empty
  <2>. QED
    BY <2>1, WordsDiffer
<1>. QED
  BY <1>1, <1>2, <1>3, <1>4 DEF Unread

\* A step of a call that leaves rings and readers as they are.
LEMMA Quiet ==
  ASSUME Typed, Rings, AllTaken, InOrder, OldestFirst, UNCHANGED <<mem, wr, sent, rd, got>>,
         call.at \notin Clearing, call'.at \notin Clearing,
         single' \in Cores, multi' \in Cores, call' \in CallState,
         passed' \in [{"read", "read_n"} -> [Cores -> Nat]]
  PROVE  Typed' /\ Rings' /\ AllTaken' /\ InOrder' /\ OldestFirst' /\ \A c \in Cores : TakenOf(c)' = TakenOf(c)
<1>1. \A c \in Cores : TakenOf(c)' = TakenOf(c) /\ GotOf(c)' = TakenOf(c) /\ GotOf(c) = TakenOf(c)
  <2> TAKE c \in Cores
  <2>1. TakenOf(c) \in Int
    BY Pointers
  <2>. QED
    BY <2>1 DEF TakenOf, GotOf
<1>2. Typed'
  BY DEF Typed
<1>3. Rings'
  BY <1>1 DEF Rings, Clearing, Slot
<1>4. \A c : ReadFrom(c)' = ReadFrom(c)
  BY DEF ReadFrom
<1>5. AllTaken' /\ OldestFirst'
  BY <1>1, <1>4 DEF AllTaken, OldestFirst
<1>6. InOrder'
  <2>1. \A k \in DOMAIN got : got[k].lo \in Events => got[k].lo[1] \in Cores
    BY DEF Events
  <2>. QED
    BY <1>1, <2>1 DEF InOrder
<1>. QED
  BY <1>1, <1>2, <1>3, <1>5, <1>6

\* How far the host has to go to a core, and that it comes nearer.
LEMMA AheadRight ==
  ASSUME NEW N, N = NumCores, NEW k \in Cores, NEW c \in Cores
  PROVE  /\ N \in Nat \ {0} /\ NextCore(k) \in Cores /\ Ahead(k, c) \in 0 .. N - 1
         /\ c # k => Ahead(NextCore(k), c) = Ahead(k, c) - 1
         /\ Ahead(NextCore(k), k) = N - 1
  BY SizeAssumption DEF Cores, NextCore, Ahead

\* The counters of calls.
LEMMA PassedRight ==
  ASSUME Typed, NEW f, NEW s, NEW p, p = Passed(f, s)
  PROVE  /\ p \in [{"read", "read_n"} -> [Cores -> Nat]]
         /\ \A g \in {"read", "read_n"}, c \in Cores :
              p[g][c] = IF c = s \/ (g = f /\ ~Unread(c)) THEN 0 ELSE passed[g][c] + (IF g = f THEN 1 ELSE 0)
<1>. DEFINE v(g, c) == IF c = s \/ (g = f /\ ~Unread(c)) THEN 0 ELSE passed[g][c] + (IF g = f THEN 1 ELSE 0)
<1>1. p = [g \in {"read", "read_n"} |-> [c \in Cores |-> v(g, c)]]
  BY DEF Passed
<1>2. \A g \in {"read", "read_n"}, c \in Cores : v(g, c) \in Nat
  <2>1. \A g \in {"read", "read_n"}, c \in Cores : passed[g][c] \in Nat
    BY Types
  <2>. QED
    BY <2>1
<1>3. \A g \in {"read", "read_n"}, c \in Cores : p[g][c] = v(g, c)
  BY <1>1
<1>. HIDE DEF v
<1>4. p \in [{"read", "read_n"} -> [Cores -> Nat]]
  BY <1>1, <1>2
<1>. QED
  BY <1>3, <1>4 DEF v

\* At first every slot is empty.
LEMMA BufferInit ==
  Init => BInv
<1> SUFFICES ASSUME Init PROVE BInv
  OBVIOUS
<1>0. NumCores \in Nat \ {0} /\ 0 \in Cores /\ MaxEvents \in Nat /\ Cores = 0 .. NumCores - 1
  BY SizeAssumption DEF Cores
<1>1. /\ mem \in [Slots -> Pairs] /\ \A i \in Segment \cap Slots : mem[i] = Empty
  BY DEF Init, Pairs, Words, Empty, Whole
<1>2. /\ sent \in [Cores -> 0 .. MaxEvents] /\ \A c \in Cores : sent[c] = 0
      /\ call = NoCall /\ got = <<>> /\ DOMAIN got = {} /\ got \in Seq(Pairs) /\ single \in Cores /\ multi \in Cores
      /\ passed \in [{"read", "read_n"} -> [Cores -> Nat]] /\ \A f \in {"read", "read_n"}, c \in Cores : passed[f][c] = 0
  BY <1>0 DEF Init
<1>3. \A c \in Cores : /\ rd[c] = SlotsPerCore * c /\ wr[c] = SlotsPerCore * c /\ BufStart(c) = SlotsPerCore * c
                       /\ rd[c] \in BufStart(c) .. BufEnd(c) - 1 /\ rd[c] \in Slots /\ wr[c] \in Slots /\ TakenOf(c) = 0
  <2> TAKE c \in Cores
  <2>1. rd[c] = BufStart(c) /\ wr[c] = TraceBufStart(c)
    BY DEF Init
  <2>2. rd[c] \in BufStart(c) .. BufEnd(c) - 1
    BY <2>1, Places
  <2>. QED
    BY <2>1, <2>2, Places DEF TakenOf
<1>4. rd \in [Cores -> Slots] /\ wr \in [Cores -> Slots]
  BY <1>3 DEF Init
<1>5. call \in CallState /\ call.at = "idle" /\ call.fn = "none" /\ call.cnt = 0 /\ call.max = 0 /\ call.seen = 0
  BY <1>0, <1>2 DEF NoCall, CallState, Ats, Words
<1>6. Typed
  BY <1>1, <1>2, <1>3, <1>4, <1>5 DEF Typed
<1>7. InCallRight
  BY <1>0, <1>5 DEF InCallRight, Handling, Clearing
<1>8. Rings
  <2> SUFFICES ASSUME NEW c \in Cores
               PROVE  wr[c] = BufStart(c) + sent[c] /\ TakenOf(c) <= sent[c] /\ \A n \in 1 .. SlotsPerCore : Slot(c, n) = Empty
    BY <1>2 DEF Rings
  <2>1. /\ SlotsPerCore * c \in Nat
        /\ \A n \in 1 .. SlotsPerCore : Place(c, n) \in Slots /\ Place(c, n) \in Segment /\ Slot(c, n) = mem[Place(c, n)]
    BY Places
  <2>2. \A n \in 1 .. SlotsPerCore : Slot(c, n) = Empty
    BY <1>1, <2>1
  <2>. QED
    BY <1>2, <1>3, <2>1, <2>2
<1>9. \A c \in Cores : GotOf(c) = 0 /\ ReadFrom(c) = {}
  BY <1>2, <1>3, <1>5 DEF GotOf, Clearing, ReadFrom
<1>10. AllTaken
  BY <1>9, FS_EmptySet DEF AllTaken
<1>11. InOrder /\ OldestFirst
  BY <1>2 DEF InOrder, OldestFirst
<1>12. Nearer /\ LookedAt
  BY <1>2, <1>5 DEF Nearer, LookedAt, Waits
<1>. QED
  BY <1>6, <1>7, <1>8, <1>10, <1>11, <1>12 DEF BInv

\* A core stores its next event into an empty slot.
LEMMA WriteRight ==
  ASSUME BInv, NEW c \in Cores, Write(c)
  PROVE  BInv'
<1>0. Typed /\ Rings /\ InCallRight
  BY DEF BInv
<1>. PICK m \in Nat : m = sent[c] + 1
  <2>1. sent[c] \in 0 .. MaxEvents /\ MaxEvents \in Nat
    BY <1>0, Pointers
  <2>. QED
    BY <2>1
<1>1. /\ sent[c] \in 0 .. MaxEvents /\ m \in 1 .. MaxEvents /\ m \in 1 .. SlotsPerCore /\ wr[c] = Place(c, m)
      /\ TakenOf(c) \in 0 .. sent[c] /\ MaxEvents \in Nat /\ MaxEvents < SlotsPerCore
  BY <1>0, Pointers, Places DEF Write
<1>2. /\ mem' = [mem EXCEPT ![wr[c]] = Whole(Word(c, m))] /\ sent' = [sent EXCEPT ![c] = m]
      /\ UNCHANGED <<rd, single, multi, call, got, passed>>
      /\ wr' = [wr EXCEPT ![c] = IF wr[c] + 1 >= TraceBufEnd(c) THEN TraceBufStart(c) ELSE wr[c] + 1]
  BY DEF Write
<1>3. Place(c, m) \in Slots /\ Whole(Word(c, m)) \in Pairs
  BY <1>1, Places, WordsDiffer DEF Whole, Pairs, Words
<1>4. /\ mem' \in [Slots -> Pairs] /\ mem'[Place(c, m)] = Whole(Word(c, m))
      /\ \A i \in Slots : i # Place(c, m) => mem'[i] = mem[i]
  BY <1>0, <1>1, <1>2, <1>3 DEF Typed
<1>5. sent' \in [Cores -> 0 .. MaxEvents] /\ sent'[c] = m /\ \A d \in Cores : d # c => sent'[d] = sent[d]
  BY <1>0, <1>1, <1>2 DEF Typed
<1>6. wr'[c] = wr[c] + 1 /\ wr'[c] \in Slots /\ wr'[c] = BufStart(c) + m /\ \A d \in Cores : d # c => wr'[d] = wr[d]
  <2>. DEFINE x == SlotsPerCore * c
  <2>1. x \in Nat /\ BufStart(c) = x /\ TraceBufEnd(c) = x + SlotsPerCore /\ wr[c] = (x + m) - 1 /\ SlotsPerCore \in Nat
    BY <1>1, Places DEF Place
  <2>2. m + 1 \in 1 .. SlotsPerCore /\ Place(c, m + 1) = (x + m + 1) - 1
    BY <1>1, <2>1 DEF Place
  <2>. HIDE DEF x
  <2>3. ~(wr[c] + 1 >= TraceBufEnd(c))
    BY <1>1, <2>1
  <2>4. wr'[c] = wr[c] + 1 /\ \A d \in Cores : d # c => wr'[d] = wr[d]
    BY <1>0, <1>2, <2>3 DEF Typed
  <2>5. wr'[c] = Place(c, m + 1) /\ wr'[c] = BufStart(c) + m
    BY <1>1, <2>1, <2>2, <2>4
  <2>. QED
    BY <2>2, <2>4, <2>5, Places
<1>7. wr' \in [Cores -> Slots]
  BY <1>0, <1>2, <1>6 DEF Typed
<1>8. Typed'
  BY <1>0, <1>2, <1>4, <1>5, <1>7 DEF Typed
<1>9. \A d \in Cores : TakenOf(d)' = TakenOf(d) /\ GotOf(d)' = GotOf(d) /\ sent[d] <= sent'[d] /\ TakenOf(d) \in 0 .. sent[d]
                       /\ sent[d] \in Nat
  <2>1. \A d \in Cores : TakenOf(d) \in 0 .. sent[d] /\ sent[d] \in 0 .. MaxEvents
    BY <1>0, Pointers
  <2>. QED
    BY <1>1, <1>2, <1>5, <2>1 DEF TakenOf, GotOf
<1>10. \A d \in Cores, n \in 1 .. SlotsPerCore :
         Slot(d, n)' = IF d = c /\ n = m THEN Whole(Word(c, m)) ELSE Slot(d, n)
  <2> TAKE d \in Cores, n \in 1 .. SlotsPerCore
  <2>1. Place(d, n) \in Slots /\ Slot(d, n) = mem[Place(d, n)] /\ Slot(d, n)' = mem'[Place(d, n)]
    BY Places DEF Slot, Place
  <2>2. Place(d, n) = Place(c, m) => d = c /\ n = m
    BY <1>1, PlacesDiffer
  <2>. QED
    BY <1>4, <2>1, <2>2
<1>11. InCallRight'
  <2>1. call.core \in Cores
    BY <1>0, Types
  <2>2. TakenOf(call.core)' = TakenOf(call.core)
    BY <1>2 DEF TakenOf
  <2>. QED
    BY <1>0, <1>2, <1>9, <2>1, <2>2 DEF InCallRight
<1>12. Rings'
  <2> SUFFICES ASSUME NEW d \in Cores
               PROVE  /\ wr'[d] = BufStart(d) + sent'[d] /\ TakenOf(d)' <= sent'[d]
                      /\ \A n \in 1 .. SlotsPerCore :
                           Slot(d, n)' = IF n <= TakenOf(d) \/ n > sent'[d] \/ (Cleared(d, n) /\ call.at = "advance") THEN Empty
                                         ELSE IF Cleared(d, n) /\ call.at = "clearHigh" THEN [lo |-> Zero, hi |-> Word(d, n)]
                                         ELSE Whole(Word(d, n))
    BY <1>2, <1>9 DEF Rings, Cleared
  <2>1. wr'[d] = BufStart(d) + sent'[d] /\ TakenOf(d)' <= sent'[d]
    BY <1>0, <1>5, <1>6, <1>9 DEF Rings
  <2>2. ASSUME NEW n \in 1 .. SlotsPerCore, d # c \/ n # m
        PROVE  Slot(d, n)' = Slot(d, n) /\ (n > sent'[d] <=> n > sent[d])
    BY <1>1, <1>5, <1>9, <1>10, <2>2
  <2>3. ASSUME NEW n \in 1 .. SlotsPerCore, d = c, n = m
        PROVE  /\ Slot(d, n)' = Whole(Word(d, n)) /\ ~(n <= TakenOf(d)) /\ ~(n > sent'[d])
               /\ ~(Cleared(d, n) /\ call.at \in {"clearHigh", "advance"})
    <3>1. call.core = c /\ call.at \in {"clearHigh", "advance"} => TakenOf(c) < sent[c]
      BY <1>0 DEF InCallRight, Handling, Clearing
    <3>2. Slot(d, n)' = Whole(Word(d, n))
      BY <1>10, <2>3
    <3>3. ~(n <= TakenOf(d)) /\ ~(n > sent'[d]) /\ (n = TakenOf(d) + 1 => ~(TakenOf(c) < sent[c]))
      BY <1>1, <1>5, <1>9, <2>3
    <3>. QED
      BY <2>3, <3>1, <3>2, <3>3 DEF Cleared
  <2>. QED
    BY <1>0, <2>1, <2>2, <2>3 DEF Rings
<1>13. AllTaken' /\ OldestFirst' /\ InOrder'
  <2>1. \A d : ReadFrom(d)' = ReadFrom(d)
    BY <1>2 DEF ReadFrom
  <2>2. \A k \in DOMAIN got : got[k].lo \in Events => got[k].lo[1] \in Cores
    BY DEF Events
  <2>. QED
    BY <1>2, <1>9, <2>1, <2>2 DEF BInv, AllTaken, OldestFirst, InOrder
<1>14. Nearer' /\ LookedAt'
  <2>1. \A d \in Cores : TakenOf(d) < sent[d] => TakenOf(d)' < sent'[d]
    BY <1>1, <1>5, <1>9
  <2>. QED
    BY <1>2, <2>1 DEF BInv, Nearer, LookedAt, Waits
<1>. QED
  BY <1>8, <1>11, <1>12, <1>13, <1>14 DEF BInv

\* A call begins.
LEMMA BeginRight ==
  ASSUME BInv, NEW f \in Fns, NEW c \in Cores, NEW m \in Nat \ {0}, Begin(f, c, m),
         f = "read" => c = single /\ m = 1, f = "read_n" => c = multi
  PROVE  BInv'
<1>. DEFINE n == [fn |-> f, at |-> "check", core |-> c, seen |-> 0, cnt |-> 0, max |-> m, lo |-> Zero]
<1>1. call.at = "idle" /\ call' = n /\ UNCHANGED <<mem, wr, sent, rd, single, multi, got, passed>>
  BY DEF Begin, NoCall
<1>2. /\ n \in CallState /\ n.at = "check" /\ n.fn = f /\ n.core = c /\ n.cnt = 0 /\ n.max = m /\ n.seen = 0 /\ n.lo = Zero
  BY DEF CallState, Ats, Words
<1>. HIDE DEF n
<1>3. Typed /\ NumCores \in Nat \ {0} /\ single \in Cores /\ multi \in Cores /\ passed \in [{"read", "read_n"} -> [Cores -> Nat]]
  BY Types DEF BInv, Typed
<1>4. Typed' /\ Rings' /\ AllTaken' /\ InOrder' /\ OldestFirst' /\ \A d \in Cores : TakenOf(d)' = TakenOf(d)
  BY <1>1, <1>2, <1>3, Quiet DEF BInv, Clearing
<1>5. InCallRight'
  BY <1>1, <1>2, <1>3 DEF InCallRight, Handling, Clearing, Fns
<1>6. Nearer'
  BY <1>1, <1>4 DEF BInv, Nearer, Waits
<1>7. LookedAt'
  <2>1. \A d \in Cores : ~(Ahead(single, d) >= NumCores - 0)
    BY <1>3, AheadRight
  <2>. QED
    BY <1>1, <1>2, <1>3, <2>1 DEF LookedAt, Waits
<1>. QED
  BY <1>4, <1>5, <1>6, <1>7 DEF BInv

\* The slot has an event: it is loaded.
LEMMA LoadRight ==
  ASSUME BInv, Check \/ LoadLow
  PROVE  BInv'
<1>. DEFINE c == call.core
<1>1. Typed /\ Rings /\ InCallRight /\ call \in CallState /\ c \in Cores /\ single \in Cores /\ multi \in Cores
      /\ passed \in [{"read", "read_n"} -> [Cores -> Nat]]
  BY Types DEF BInv, Typed
<1>2. /\ call.at \in {"check", "low"} /\ UNCHANGED <<mem, wr, sent, rd, single, multi, got, passed>>
      /\ TakenOf(c) < sent[c] /\ call.cnt < call.max
      /\ mem[rd[c]].lo = Word(c, TakenOf(c) + 1) /\ TakenOf(c) + 1 \in 1 .. MaxEvents
  <2>1. call.at \in {"check", "low"} /\ UNCHANGED <<mem, wr, sent, rd, single, multi, got, passed>>
    BY DEF Check, LoadLow, At
  <2>2. /\ Unread(c) <=> TakenOf(c) < sent[c]
        /\ TakenOf(c) < sent[c] => mem[rd[c]] = Whole(Word(c, TakenOf(c) + 1)) /\ TakenOf(c) + 1 \in 1 .. MaxEvents
    BY <1>1, <2>1, UnreadRight
  <2>3. \A w : Whole(w).lo = w
    BY DEF Whole
  <2>4. TakenOf(c) < sent[c] /\ call.cnt < call.max
    <3>1. CASE Check
      BY <2>2, <3>1 DEF Check
    <3>2. CASE LoadLow
      BY <1>1, <3>2 DEF LoadLow, At, InCallRight, Handling
    <3>. QED
      BY <3>1, <3>2
  <2>. QED
    BY <2>1, <2>2, <2>3, <2>4
<1>3. /\ call' \in CallState /\ call'.at \in {"low", "high"} /\ call'.fn = call.fn /\ call'.core = c /\ call'.seen = call.seen
      /\ call'.cnt = call.cnt /\ call'.max = call.max /\ (call'.at = "high" => call'.lo = Word(c, TakenOf(c) + 1))
  <2>1. CASE Check
    BY <1>1, <2>1 DEF Check, Goto, CallState, Ats
  <2>2. CASE LoadLow
    <3>1. Word(c, TakenOf(c) + 1) \in Words
      BY <1>1, <1>2, WordsDiffer DEF Words
    <3>. QED
      BY <1>1, <1>2, <2>2, <3>1 DEF LoadLow, Goto, CallState, Ats
  <2>. QED
    BY <2>1, <2>2
<1>4. Typed' /\ Rings' /\ AllTaken' /\ InOrder' /\ OldestFirst' /\ \A d \in Cores : TakenOf(d)' = TakenOf(d)
  BY <1>1, <1>2, <1>3, Quiet DEF BInv, Clearing
<1>5. TakenOf(call.core)' = TakenOf(c)
  BY <1>2, <1>3 DEF TakenOf
<1>6. InCallRight'
  BY <1>1, <1>2, <1>3, <1>5 DEF InCallRight, Handling, Clearing
<1>7. Nearer' /\ LookedAt'
  BY <1>2, <1>3, <1>4 DEF BInv, Nearer, LookedAt, Waits
<1>. QED
  BY <1>4, <1>6, <1>7 DEF BInv

\* Nothing from this core: it does not wait.
LEMMA MissReadRight ==
  ASSUME BInv, MissRead
  PROVE  BInv'
<1>. DEFINE c == call.core  n == [call EXCEPT !.core = NextCore(@), !.seen = @ + 1]
<1>1. /\ Typed /\ Rings /\ InCallRight /\ call \in CallState /\ single \in Cores /\ multi \in Cores
      /\ passed \in [{"read", "read_n"} -> [Cores -> Nat]] /\ call.seen \in Nat /\ NumCores \in Nat \ {0}
  BY Types DEF BInv, Typed
<1>2. /\ call.at = "check" /\ call.fn = "read" /\ ~Unread(c) /\ call.seen < NumCores /\ single' = NextCore(single)
      /\ call' = n /\ UNCHANGED <<mem, wr, sent, rd, multi, got, passed>> /\ c = single /\ call.max = 1 /\ call.seen # NumCores
  BY <1>1 DEF MissRead, At, InCallRight
<1>3. NextCore(single) \in Cores /\ c \in Cores
  BY <1>1, <1>2, AheadRight
<1>4. n = [[call EXCEPT !.core = NextCore(single)] EXCEPT !.seen = call.seen + 1]
  BY <1>1, <1>2 DEF CallState
<1>5. /\ call' \in CallState /\ call'.at = "check" /\ call'.fn = "read" /\ call'.core = NextCore(single)
      /\ call'.seen = call.seen + 1 /\ call'.cnt = call.cnt /\ call'.max = 1
  <2>. DEFINE e == [call EXCEPT !.core = NextCore(single)]
  <2>1. e \in CallState /\ e.at = "check" /\ e.fn = "read" /\ e.core = NextCore(single) /\ e.cnt = call.cnt /\ e.max = 1
    BY <1>1, <1>2, <1>3 DEF CallState
  <2>2. call' = [e EXCEPT !.seen = call.seen + 1] /\ call.seen + 1 \in Nat
    BY <1>1, <1>2, <1>4
  <2>. HIDE DEF e
  <2>. QED
    BY <2>1, <2>2 DEF CallState
<1>6. Typed' /\ Rings' /\ AllTaken' /\ InOrder' /\ OldestFirst' /\ \A d \in Cores : TakenOf(d)' = TakenOf(d)
  BY <1>1, <1>2, <1>3, <1>5, Quiet DEF BInv, Clearing
<1>7. InCallRight'
  BY <1>1, <1>2, <1>5 DEF InCallRight, Handling, Clearing
<1>8. \A d \in Cores : Waits("read", d) => d # c
  BY <1>1, <1>2, UnreadRight DEF BInv, Nearer
<1>9. \A d \in Cores : Ahead(single, d) \in Int /\ (d # c => Ahead(single', d) = Ahead(single, d) - 1)
  BY <1>1, <1>2, AheadRight
<1>10. \A d \in Cores : passed["read"][d] \in Nat
  BY <1>1, Types
<1>11. Nearer'
  BY <1>1, <1>2, <1>6, <1>8, <1>9, <1>10 DEF BInv, Nearer, Waits
<1>12. LookedAt'
  <2>1. \A d \in Cores : Ahead(single, d) >= NumCores - call.seen => ~Waits("read", d)
    BY <1>2 DEF BInv, LookedAt
  <2>2. \A d \in Cores : Ahead(single', d) >= NumCores - (call.seen + 1) => ~Waits("read", d)
    BY <1>1, <1>8, <1>9, <2>1
  <2>. QED
    BY <1>2, <1>5, <2>2 DEF LookedAt, Waits
<1>. QED
  BY <1>6, <1>7, <1>11, <1>12 DEF BInv

\* Another round: no core was looked at in it.
LEMMA SleepRight ==
  ASSUME BInv, Sleep
  PROVE  BInv'
<1>1. /\ Typed /\ Rings /\ InCallRight /\ call \in CallState /\ single \in Cores /\ multi \in Cores
      /\ passed \in [{"read", "read_n"} -> [Cores -> Nat]] /\ NumCores \in Nat \ {0}
  BY Types DEF BInv, Typed
<1>2. /\ call.at = "check" /\ call.fn = "read" /\ call' = [call EXCEPT !.seen = 0]
      /\ UNCHANGED <<mem, wr, sent, rd, single, multi, got, passed>>
  BY DEF Sleep, At
<1>3. /\ call' \in CallState /\ call'.at = "check" /\ call'.fn = "read" /\ call'.core = call.core /\ call'.seen = 0
      /\ call'.cnt = call.cnt /\ call'.max = call.max
  BY <1>1, <1>2 DEF CallState
<1>4. Typed' /\ Rings' /\ AllTaken' /\ InOrder' /\ OldestFirst' /\ \A d \in Cores : TakenOf(d)' = TakenOf(d)
  BY <1>1, <1>2, <1>3, Quiet DEF BInv, Clearing
<1>5. InCallRight'
  BY <1>1, <1>2, <1>3 DEF InCallRight, Handling, Clearing
<1>6. \A d \in Cores : ~(Ahead(single, d) >= NumCores - 0)
  BY <1>1, AheadRight
<1>7. Nearer' /\ LookedAt'
  BY <1>1, <1>2, <1>3, <1>4, <1>6 DEF BInv, Nearer, LookedAt, Waits
<1>. QED
  BY <1>4, <1>5, <1>7 DEF BInv

\* A call returns without having moved on a pointer since the last test.
LEMMA ReturnRight ==
  ASSUME BInv, call.at = "check", Return, UNCHANGED <<mem, wr, sent, rd, got>>, single' \in Cores, multi' \in Cores, Nearer'
  PROVE  BInv'
<1>1. /\ Typed /\ Rings /\ NumCores \in Nat \ {0} /\ 0 \in Cores
  BY Types DEF BInv
<1>2. /\ NoCall \in CallState /\ NoCall.at = "idle" /\ NoCall.fn = "none" /\ NoCall.cnt = 0 /\ NoCall.max = 0 /\ NoCall.seen = 0
  BY <1>1 DEF NoCall, CallState, Ats, Words
<1>3. call' = NoCall /\ passed' \in [{"read", "read_n"} -> [Cores -> Nat]]
  BY <1>1, PassedRight DEF Return
<1>4. Typed' /\ Rings' /\ AllTaken' /\ InOrder' /\ OldestFirst' /\ \A d \in Cores : TakenOf(d)' = TakenOf(d)
  BY <1>1, <1>2, <1>3, Quiet DEF BInv, Clearing
<1>5. InCallRight' /\ LookedAt'
  BY <1>1, <1>2, <1>3 DEF InCallRight, LookedAt, Handling, Clearing
<1>. QED
  BY <1>4, <1>5 DEF BInv

\* The time is up: all cores were looked at, and the ones that wait now did not wait before.
LEMMA TimeoutRight ==
  ASSUME BInv, Timeout
  PROVE  BInv'
<1>1. /\ Typed /\ Rings /\ InCallRight /\ single \in Cores /\ multi \in Cores /\ NumCores \in Nat \ {0}
  BY Types DEF BInv
<1>2. /\ call.at = "check" /\ call.fn = "read" /\ call.seen = NumCores /\ Return /\ passed' = Passed("read", NumCores)
      /\ UNCHANGED <<mem, wr, sent, rd, single, multi, got>>
  BY DEF Timeout, At, Return
<1>3. Nearer'
  <2> SUFFICES ASSUME NEW d \in Cores
               PROVE  /\ passed'["read"][d] > 0 => TakenOf(d) < sent[d] /\ passed'["read"][d] + Ahead(single, d) <= NumCores
                      /\ passed'["read_n"][d] > 0 => TakenOf(d) < sent[d] /\ passed'["read_n"][d] + Ahead(multi, d) <= NumCores
    BY <1>2 DEF Nearer, Waits, TakenOf
  <2>1. d # NumCores /\ Ahead(single, d) \in 0 .. NumCores - 1 /\ passed["read"][d] \in Nat /\ passed["read_n"][d] \in Nat
    <3>1. Ahead(single, d) \in 0 .. NumCores - 1
      BY <1>1, AheadRight
    <3>2. d # NumCores /\ passed["read"][d] \in Nat /\ passed["read_n"][d] \in Nat
      BY <1>1, Types
    <3>. QED
      BY <3>1, <3>2
  <2>2. ~Waits("read", d)
    BY <1>1, <1>2, <2>1 DEF BInv, LookedAt
  <2>3. Unread(d) => TakenOf(d) < sent[d]
    BY <1>1, <1>2, UnreadRight
  <2>4. /\ passed'["read"][d] = IF ~Unread(d) THEN 0 ELSE passed["read"][d] + 1
        /\ passed'["read_n"][d] = passed["read_n"][d] + 0
    BY <1>1, <1>2, <2>1, PassedRight
  <2>5. passed["read_n"][d] > 0 => TakenOf(d) < sent[d] /\ passed["read_n"][d] + Ahead(multi, d) <= NumCores
    BY DEF BInv, Nearer, Waits
  <2>. QED
    BY <1>1, <2>1, <2>2, <2>3, <2>4, <2>5 DEF Waits
<1>. QED
  BY <1>1, <1>2, <1>3, ReturnRight

\* trace_read_coreNo_n does not go round the cores.
LEMMA DoneCoreRight ==
  ASSUME BInv, DoneReadCoreNoN
  PROVE  BInv'
<1>1. /\ Typed /\ Rings /\ single \in Cores /\ multi \in Cores /\ NumCores \in Nat \ {0}
  BY Types DEF BInv
<1>2. /\ call.at = "check" /\ Return /\ passed' = Passed("read_coreNo_n", NumCores)
      /\ UNCHANGED <<mem, wr, sent, rd, single, multi, got>>
  BY DEF DoneReadCoreNoN, CoreDone, At, Return
<1>3. \A d \in Cores : passed'["read"][d] = passed["read"][d] /\ passed'["read_n"][d] = passed["read_n"][d]
  <2> TAKE d \in Cores
  <2>1. d # NumCores /\ passed["read"][d] \in Nat /\ passed["read_n"][d] \in Nat
    BY <1>1, Types
  <2>2. passed'["read"][d] = passed["read"][d] + 0 /\ passed'["read_n"][d] = passed["read_n"][d] + 0
    BY <1>1, <1>2, <2>1, PassedRight
  <2>. QED
    BY <2>1, <2>2
<1>4. Nearer'
  BY <1>2, <1>3 DEF BInv, Nearer, Waits, TakenOf
<1>. QED
  BY <1>1, <1>2, <1>4, ReturnRight

\* trace_read_n has done with a core: the others come nearer, and this one is the last one
\* because it has nothing more, or because the caller has just got an event of it.
LEMMA DoneReadNRight ==
  ASSUME BInv, DoneReadN
  PROVE  BInv'
<1>. DEFINE c == call.core
<1>1. /\ Typed /\ Rings /\ InCallRight /\ call \in CallState /\ single \in Cores /\ multi \in Cores
      /\ passed \in [{"read", "read_n"} -> [Cores -> Nat]] /\ call.seen \in Nat /\ NumCores \in Nat \ {0}
      /\ call.cnt \in Nat /\ call.max \in Nat
  BY Types DEF BInv, Typed
<1>2. /\ call.at = "check" /\ call.fn = "read_n" /\ (call.cnt = call.max \/ ~Unread(c)) /\ c = multi
      /\ multi' = NextCore(multi) /\ UNCHANGED <<mem, wr, sent, rd, single, got>> /\ call.seen < NumCores
      /\ call.cnt <= call.max /\ call.max > 0
  BY <1>1 DEF DoneReadN, CoreDone, At, InCallRight
<1>3. multi' \in Cores
  BY <1>1, <1>2, AheadRight
<1>4. \A d \in Cores : /\ Ahead(multi, d) \in 0 .. NumCores - 1 /\ Ahead(multi', d) \in 0 .. NumCores - 1
                       /\ (d # multi => Ahead(multi', d) = Ahead(multi, d) - 1)
  BY <1>1, <1>2, <1>3, AheadRight
<1>5. \A d \in Cores : /\ Unread(d) <=> TakenOf(d) < sent[d]
                       /\ passed["read"][d] \in Nat /\ passed["read_n"][d] \in Nat /\ d # NumCores
  BY <1>1, <1>2, UnreadRight, Types, SMTT(30)
<1>6. CASE call.cnt = call.max \/ call.seen + 1 = NumCores
  <2>1. Return /\ passed' = Passed("read_n", NumCores)
    BY <1>2, <1>6 DEF DoneReadN, Return
  <2>2. Nearer'
    <3> SUFFICES ASSUME NEW d \in Cores
                 PROVE  /\ passed'["read"][d] > 0 => TakenOf(d) < sent[d] /\ passed'["read"][d] + Ahead(single, d) <= NumCores
                        /\ passed'["read_n"][d] > 0 => TakenOf(d) < sent[d] /\ passed'["read_n"][d] + Ahead(multi', d) <= NumCores
      BY <1>2 DEF Nearer, Waits, TakenOf
    <3>1. /\ passed'["read_n"][d] = IF ~Unread(d) THEN 0 ELSE passed["read_n"][d] + 1
          /\ passed'["read"][d] = passed["read"][d] + 0
      BY <1>1, <1>5, <2>1, PassedRight
    <3>2. /\ passed["read"][d] > 0 => TakenOf(d) < sent[d] /\ passed["read"][d] + Ahead(single, d) <= NumCores
          /\ passed["read_n"][d] > 0 => TakenOf(d) < sent[d] /\ passed["read_n"][d] + Ahead(multi, d) <= NumCores
      BY DEF BInv, Nearer, Waits
    <3>3. d = multi /\ Unread(d) => passed["read_n"][d] = 0
      BY <1>2, <1>5 DEF BInv, LookedAt, Waits
    <3>4. passed["read"][d] \in Nat /\ passed["read_n"][d] \in Nat
      BY <1>5
    <3>5. d # multi => Ahead(multi', d) = Ahead(multi, d) - 1
      BY <1>4
    <3>6. Ahead(multi, d) \in 0 .. NumCores - 1 /\ Ahead(multi', d) \in 0 .. NumCores - 1
      BY <1>4
    <3>7. Unread(d) <=> TakenOf(d) < sent[d]
      BY <1>5
    <3>. QED
      BY <1>1, <3>1, <3>2, <3>3, <3>4, <3>5, <3>6, <3>7
  <2>. QED
    BY <1>1, <1>2, <1>3, <2>1, <2>2, ReturnRight
<1>7. CASE ~(call.cnt = call.max \/ call.seen + 1 = NumCores)
  <2>. DEFINE e == [call EXCEPT !.core = NextCore(call.core)]
  <2>1. e \in CallState /\ e.at = "check" /\ e.fn = "read_n" /\ e.core = multi' /\ e.cnt = call.cnt /\ e.max = call.max /\ e.seen = call.seen
    BY <1>1, <1>2, <1>3 DEF CallState
  <2>2. call' = [e EXCEPT !.seen = call.seen + 1] /\ call.seen + 1 \in Nat /\ passed' = passed
    BY <1>1, <1>2, <1>7 DEF DoneReadN, CallState
  <2>. HIDE DEF e
  <2>3. /\ call' \in CallState /\ call'.at = "check" /\ call'.fn = "read_n" /\ call'.core = multi'
        /\ call'.seen = call.seen + 1 /\ call'.cnt = call.cnt /\ call'.max = call.max
    BY <2>1, <2>2 DEF CallState
  <2>4. Typed' /\ Rings' /\ AllTaken' /\ InOrder' /\ OldestFirst' /\ \A d \in Cores : TakenOf(d)' = TakenOf(d)
    BY <1>1, <1>2, <1>3, <2>2, <2>3, Quiet DEF BInv, Clearing
  <2>5. InCallRight'
    BY <1>1, <1>2, <1>7, <2>3 DEF InCallRight, Handling, Clearing
  <2>6. \A d \in Cores : Waits("read_n", d) => d # multi
    BY <1>2, <1>5, <1>7 DEF BInv, Nearer
  <2>7. Nearer'
    <3> SUFFICES ASSUME NEW d \in Cores
                 PROVE  /\ passed["read"][d] > 0 => TakenOf(d) < sent[d] /\ passed["read"][d] + Ahead(single, d) <= NumCores
                        /\ passed["read_n"][d] > 0 => TakenOf(d) < sent[d] /\ passed["read_n"][d] + Ahead(multi', d) <= NumCores
      BY <1>2, <2>2 DEF Nearer, Waits, TakenOf
    <3>1. /\ passed["read"][d] > 0 => TakenOf(d) < sent[d] /\ passed["read"][d] + Ahead(single, d) <= NumCores
          /\ passed["read_n"][d] > 0 => TakenOf(d) < sent[d] /\ passed["read_n"][d] + Ahead(multi, d) <= NumCores
      BY DEF BInv, Nearer, Waits
    <3>2. passed["read_n"][d] \in Nat /\ Ahead(multi, d) \in Int /\ NumCores \in Int
      BY <1>1, <1>4, <1>5
    <3>3. passed["read_n"][d] > 0 => Ahead(multi', d) = Ahead(multi, d) - 1
      BY <1>4, <2>6 DEF Waits
    <3>. QED
      BY <3>1, <3>2, <3>3
  <2>8. LookedAt'
    BY <1>1, <1>2, <1>7, <2>3 DEF LookedAt
  <2>. QED
    BY <2>4, <2>5, <2>7, <2>8 DEF BInv
<1>. QED
  BY <1>6, <1>7

\* The caller gets the event: it is the next one of its core.
LEMMA LoadHighRight ==
  ASSUME BInv, LoadHigh
  PROVE  BInv'
<1>0. call.core \in Cores
  BY Types DEF BInv
<1>. PICK c \in Cores : c = call.core
  BY <1>0
<1>. DEFINE e == [lo |-> call.lo, hi |-> mem[rd[c]].hi]
<1>1. /\ Typed /\ Rings /\ InCallRight /\ call \in CallState /\ c \in Cores /\ single \in Cores /\ multi \in Cores
      /\ passed \in [{"read", "read_n"} -> [Cores -> Nat]] /\ got \in Seq(Pairs) /\ Len(got) \in Nat /\ DOMAIN got = 1 .. Len(got)
  BY Types DEF BInv, Typed
<1>. PICK k0 \in Nat : k0 = Len(got)
  BY <1>1
<1>2. /\ call.at = "high" /\ got' = Append(got, e) /\ UNCHANGED <<mem, wr, sent, rd, single, multi, passed>>
      /\ call' = [[call EXCEPT !.at = "clearLow"] EXCEPT !.lo = Zero]
  BY DEF LoadHigh, At, Goto
<1>3. TakenOf(c) < sent[c] /\ call.lo = Word(c, TakenOf(c) + 1) /\ call.cnt < call.max
  BY <1>1, <1>2 DEF InCallRight, Handling
<1>4. call.at \notin {"clearHigh", "advance"}
  BY <1>2
<1>5. mem[rd[c]] = Whole(Word(c, TakenOf(c) + 1)) /\ TakenOf(c) + 1 \in 1 .. MaxEvents /\ TakenOf(c) \in Nat
  <2>1. TakenOf(c) < sent[c] => mem[rd[c]] = Whole(Word(c, TakenOf(c) + 1)) /\ TakenOf(c) + 1 \in 1 .. MaxEvents
    BY <1>1, <1>4, UnreadRight
  <2>2. TakenOf(c) \in Nat
    <3>1. TakenOf(c) \in 0 .. sent[c]
      BY <1>1, Pointers
    <3>. QED
      BY <3>1
  <2>. QED
    BY <1>3, <2>1, <2>2
<1>. PICK t \in Nat : t = TakenOf(c)
  BY <1>5
<1>. PICK w : w = Word(c, t + 1)
  OBVIOUS
<1>6. e = Whole(w) /\ w \in Events /\ w[1] = c /\ w[2] = t + 1 /\ t + 1 \in 1 .. MaxEvents /\ Whole(w).lo = w /\ Whole(w).hi = w
  BY <1>1, <1>3, <1>5, WordsDiffer DEF Whole
<1>7. e \in Pairs
  BY <1>6 DEF Whole, Pairs, Words
<1>. HIDE DEF e
<1>8. /\ got' \in Seq(Pairs) /\ Len(got') = k0 + 1 /\ DOMAIN got' = 1 .. k0 + 1 /\ DOMAIN got = 1 .. k0
      /\ got'[k0 + 1] = Whole(w) /\ \A k \in 1 .. k0 : got'[k] = got[k]
  BY <1>1, <1>2, <1>6, <1>7
<1>9. /\ call' \in CallState /\ call'.at = "clearLow" /\ call'.fn = call.fn /\ call'.core = c /\ call'.seen = call.seen
      /\ call'.cnt = call.cnt /\ call'.max = call.max
  BY <1>1, <1>2 DEF CallState, Ats, Words
<1>10. Typed'
  BY <1>1, <1>2, <1>8, <1>9 DEF Typed
<1>11. \A d : TakenOf(d)' = TakenOf(d)
  BY <1>2 DEF TakenOf
<1>12. /\ GotOf(c) = t /\ GotOf(c)' = t + 1 /\ \A d \in Cores : TakenOf(d) \in Nat /\ (d # c => GotOf(d)' = GotOf(d))
  <2>1. \A d \in Cores : TakenOf(d) \in Nat
    BY <1>1, Pointers
  <2>. QED
    BY <1>1, <1>2, <1>9, <1>11, <2>1 DEF GotOf, Clearing
<1>13. InCallRight'
  <2>1. TakenOf(call.core)' = TakenOf(c)
    BY <1>2, <1>9 DEF TakenOf
  <2>. QED
    BY <1>1, <1>2, <1>3, <1>9, <2>1 DEF InCallRight, Handling, Clearing
<1>14. Rings'
  BY <1>1, <1>2, <1>9, <1>11 DEF Rings, Slot, Cleared
<1>15. InOrder'
  <2>1. \A k \in DOMAIN got : got[k].lo \in Events /\ got[k].lo[1] \in Cores /\ got[k].lo[2] \in Nat /\ got[k].lo[2] <= GotOf(got[k].lo[1])
    BY DEF BInv, InOrder, Events
  <2>2. \A d \in Cores : GotOf(d) \in Nat /\ GotOf(d)' \in Nat /\ GotOf(d) <= GotOf(d)'
    <3>1. \A d \in Cores : GotOf(d) \in Nat
      BY <1>1, Pointers
    <3>. QED
      BY <1>12, <3>1
  <2>3. \A k \in DOMAIN got' : got'[k].lo \in Events /\ got'[k].lo[2] <= GotOf(got[k].lo[1])'
    <3> TAKE k \in DOMAIN got'
    <3>1. CASE k = k0 + 1
      <4>1. got'[k].lo = w
        BY <1>6, <1>8, <3>1
      <4>2. GotOf(got[k].lo[1])' = GotOf(c)'
        BY <1>6, <4>1 DEF GotOf, TakenOf
      <4>. QED
        BY <1>6, <1>12, <4>1, <4>2
    <3>2. CASE k \in 1 .. k0
      <4>1. got'[k] = got[k] /\ k \in DOMAIN got
        BY <1>8, <3>2
      <4>. PICK d \in Cores : d = got[k].lo[1]
        BY <2>1, <4>1
      <4>2. GotOf(got[k].lo[1])' = GotOf(d)'
        BY <4>1 DEF GotOf, TakenOf
      <4>. QED
        BY <2>1, <2>2, <4>1, <4>2
    <3>. QED
      BY <1>8, <3>1, <3>2
  <2>4. ASSUME NEW j \in DOMAIN got', NEW k \in DOMAIN got', j < k, got'[j].lo[1] = got'[k].lo[1]
        PROVE  got'[j].lo[2] < got'[k].lo[2]
    <3>1. j \in DOMAIN got /\ got'[j] = got[j]
      BY <1>8, <2>4
    <3>2. CASE k = k0 + 1
      BY <1>6, <1>8, <1>12, <2>1, <2>4, <3>1, <3>2
    <3>3. CASE k \in 1 .. k0
      BY <1>8, <2>4, <3>1, <3>3 DEF BInv, InOrder
    <3>. QED
      BY <1>8, <3>2, <3>3
  <2>. QED
    BY <2>3, <2>4 DEF InOrder
<1>16. /\ \A d \in Cores : d # c => ReadFrom(d)' = ReadFrom(d)
       /\ ReadFrom(c)' = ReadFrom(c) \cup {k0 + 1} /\ k0 + 1 \notin ReadFrom(c) /\ IsFiniteSet(ReadFrom(c))
       /\ Cardinality(ReadFrom(c)') = t + 1 /\ Cardinality(ReadFrom(c)) = t
  <2>1. ReadFrom(c) \subseteq 1 .. k0
    BY <1>8 DEF ReadFrom
  <2>2. IsFiniteSet(ReadFrom(c)) /\ k0 + 1 \notin ReadFrom(c)
    <3>1. IsFiniteSet(1 .. k0) /\ k0 + 1 \notin 1 .. k0
      BY FS_Interval
    <3>. QED
      BY <2>1, <3>1, FS_Subset
  <2>3. got'[k0 + 1].lo = w /\ w \in {c} \X (1 .. MaxEvents) /\ \A d \in Cores : d # c => w \notin {d} \X (1 .. MaxEvents)
    BY <1>6, <1>8 DEF Events
  <2>4. ReadFrom(c)' = ReadFrom(c) \cup {k0 + 1}
    BY <1>8, <2>3 DEF ReadFrom
  <2>5. \A d \in Cores : d # c => ReadFrom(d)' = ReadFrom(d)
    BY <1>8, <2>3 DEF ReadFrom
  <2>6. Cardinality(ReadFrom(c)) = t
    BY <1>1, <1>12 DEF BInv, AllTaken
  <2>7. Cardinality(ReadFrom(c)') = t + 1
    <3>1. Cardinality(ReadFrom(c) \cup {k0 + 1}) = Cardinality(ReadFrom(c)) + 1
      BY <2>2, FS_AddElement
    <3>. QED
      BY <2>4, <2>6, <3>1
  <2>. QED
    BY <2>2, <2>4, <2>5, <2>6, <2>7
<1>17. AllTaken'
  <2> SUFFICES ASSUME NEW d \in Cores
               PROVE  /\ Cardinality(ReadFrom(d)') = GotOf(d)'
                      /\ \A n \in 1 .. GotOf(d)' : \E k \in DOMAIN got' : got'[k] = Whole(Word(d, n))
    BY DEF AllTaken
  <2>1. \A n \in 1 .. GotOf(d) : \E k \in DOMAIN got' : got'[k] = Whole(Word(d, n))
    BY <1>8 DEF BInv, AllTaken
  <2>2. CASE d = c
    <3>1. \A n \in 1 .. t + 1 : n \in 1 .. t \/ n = t + 1
      OBVIOUS
    <3>2. k0 + 1 \in DOMAIN got'
      BY <1>8
    <3>. QED
      BY <1>8, <1>12, <1>16, <2>1, <2>2, <3>1, <3>2
  <2>3. CASE d # c
    BY <1>12, <1>16, <2>1, <2>3 DEF BInv, AllTaken
  <2>. QED
    BY <2>2, <2>3
<1>18. OldestFirst'
  <2> SUFFICES ASSUME NEW i \in DOMAIN got'
               PROVE  /\ got'[i].lo = got'[i].hi
                      /\ \E d \in Cores : got'[i].lo = Word(d, Cardinality({j \in ReadFrom(d)' : j <= i}))
    BY DEF OldestFirst
  <2>1. CASE i = k0 + 1
    <3>1. {j \in ReadFrom(c)' : j <= i} = ReadFrom(c)'
      <4>1. ReadFrom(c)' \subseteq 1 .. k0 + 1
        BY <1>8 DEF ReadFrom
      <4>. QED
        BY <2>1, <4>1
    <3>. QED
      BY <1>1, <1>6, <1>8, <1>16, <2>1, <3>1
  <2>2. CASE i \in 1 .. k0
    <3>1. i \in DOMAIN got /\ got'[i] = got[i]
      BY <1>8, <2>2
    <3>2. PICK d \in Cores : got[i].lo = Word(d, Cardinality({j \in ReadFrom(d) : j <= i}))
      BY <3>1 DEF BInv, OldestFirst
    <3>3. {j \in ReadFrom(d)' : j <= i} = {j \in ReadFrom(d) : j <= i}
      BY <1>16, <2>2
    <3>4. got[i].lo = got[i].hi
      BY <3>1 DEF BInv, OldestFirst
    <3>. QED
      BY <3>1, <3>2, <3>3, <3>4
  <2>. QED
    BY <1>8, <2>1, <2>2
<1>19. Nearer' /\ LookedAt'
  BY <1>1, <1>2, <1>3, <1>9, <1>11 DEF BInv, Nearer, LookedAt, Waits
<1>. QED
  BY <1>10, <1>13, <1>14, <1>15, <1>17, <1>18, <1>19 DEF BInv

\* The words at hand are cleared, one after the other; no other slot changes.
LEMMA ClearRight ==
  ASSUME BInv, ClearLow \/ ClearHigh
  PROVE  BInv'
<1>0. Typed /\ Rings /\ InCallRight /\ call.core \in Cores /\ call \in CallState
  BY Types DEF BInv
<1>. PICK c \in Cores : c = call.core
  BY <1>0
<1>. PICK a : a = call.at
  OBVIOUS
<1>. PICK t \in Nat : t = TakenOf(c)
  <2>1. TakenOf(c) \in 0 .. sent[c]
    BY <1>0, Pointers
  <2>. QED
    BY <2>1
<1>. PICK w : w = Word(c, t + 1)
  OBVIOUS
<1>1. /\ a \in {"clearLow", "clearHigh"} /\ UNCHANGED <<wr, sent, rd, single, multi, got, passed>>
      /\ call' = [call EXCEPT !.at = IF a = "clearLow" THEN "clearHigh" ELSE "advance"]
      /\ mem' = IF a = "clearLow" THEN [mem EXCEPT ![rd[c]].lo = Zero] ELSE [mem EXCEPT ![rd[c]].hi = Zero]
  BY DEF ClearLow, ClearHigh, At, Goto
<1>2. /\ call' \in CallState /\ call'.core = c /\ call'.fn = call.fn /\ call'.seen = call.seen /\ call'.cnt = call.cnt
      /\ call'.max = call.max /\ call'.at = IF a = "clearLow" THEN "clearHigh" ELSE "advance"
  BY <1>0, <1>1 DEF CallState, Ats
<1>3. t < sent[c] /\ call.cnt < call.max
  BY <1>0, <1>1 DEF InCallRight, Handling, Clearing
<1>4. /\ t + 1 \in 1 .. SlotsPerCore /\ rd[c] = Place(c, t + 1) /\ rd[c] \in Slots /\ mem[rd[c]] = Slot(c, t + 1)
      /\ sent[c] \in 0 .. MaxEvents /\ MaxEvents \in Nat
  BY <1>0, Pointers
<1>5. mem[rd[c]] = IF a = "clearLow" THEN Whole(w) ELSE [lo |-> Zero, hi |-> w]
  <2>1. ~(t + 1 <= TakenOf(c)) /\ ~(t + 1 > sent[c]) /\ (Cleared(c, t + 1) <=> TRUE)
    BY <1>3, <1>4 DEF Cleared
  <2>. QED
    BY <1>0, <1>1, <1>4, <2>1 DEF Rings
<1>6. t + 1 \in 1 .. MaxEvents /\ w \in Words /\ Zero \in Words
  <2>1. t + 1 \in 1 .. MaxEvents
    BY <1>3, <1>4
  <2>. QED
    BY <2>1, WordsDiffer DEF Words
<1>. DEFINE e == IF a = "clearLow" THEN [lo |-> Zero, hi |-> w] ELSE Empty
<1>7. mem' = [mem EXCEPT ![rd[c]] = e]
  <2>1. a = "clearLow" => [mem[rd[c]] EXCEPT !.lo = Zero] = e
    BY <1>5 DEF Whole
  <2>2. a = "clearHigh" => [mem[rd[c]] EXCEPT !.hi = Zero] = e
    BY <1>5 DEF Empty, Whole
  <2>. QED
    BY <1>1, <2>1, <2>2
<1>8. e \in Pairs
  BY <1>6 DEF Pairs, Empty, Whole
<1>. HIDE DEF e
<1>9. /\ mem' \in [Slots -> Pairs] /\ mem'[Place(c, t + 1)] = e /\ \A i \in Slots : i # Place(c, t + 1) => mem'[i] = mem[i]
  BY <1>0, <1>4, <1>7, <1>8 DEF Typed
<1>10. \A d \in Cores, n \in 1 .. SlotsPerCore : Slot(d, n)' = IF d = c /\ n = t + 1 THEN e ELSE Slot(d, n)
  <2> TAKE d \in Cores, n \in 1 .. SlotsPerCore
  <2>1. Place(d, n) \in Slots /\ Slot(d, n) = mem[Place(d, n)] /\ Slot(d, n)' = mem'[Place(d, n)]
    BY Places DEF Slot, Place
  <2>2. Place(d, n) = Place(c, t + 1) => d = c /\ n = t + 1
    BY <1>4, PlacesDiffer
  <2>. QED
    BY <1>9, <2>1, <2>2
<1>11. \A d \in Cores : TakenOf(d)' = TakenOf(d) /\ GotOf(d)' = GotOf(d)
  BY <1>1, <1>2 DEF TakenOf, GotOf, Clearing
<1>12. Typed'
  BY <1>0, <1>1, <1>2, <1>9 DEF Typed
<1>13. InCallRight'
  <2>1. TakenOf(call.core)' = TakenOf(c)
    BY <1>1, <1>2 DEF TakenOf
  <2>. QED
    BY <1>0, <1>1, <1>2, <1>3, <2>1 DEF InCallRight, Handling, Clearing
<1>14. Rings'
  <2> SUFFICES ASSUME NEW d \in Cores
               PROVE  /\ wr[d] = BufStart(d) + sent[d] /\ TakenOf(d) <= sent[d]
                      /\ \A n \in 1 .. SlotsPerCore :
                           Slot(d, n)' = IF n <= TakenOf(d) \/ n > sent[d] \/ (c = d /\ n = TakenOf(d) + 1 /\ call'.at = "advance") THEN Empty
                                         ELSE IF c = d /\ n = TakenOf(d) + 1 /\ call'.at = "clearHigh" THEN [lo |-> Zero, hi |-> Word(d, n)]
                                         ELSE Whole(Word(d, n))
    BY <1>1, <1>2, <1>11 DEF Rings, Cleared
  <2>1. wr[d] = BufStart(d) + sent[d] /\ TakenOf(d) <= sent[d]
    BY <1>0 DEF Rings
  <2>2. ASSUME NEW n \in 1 .. SlotsPerCore, d # c \/ n # t + 1
        PROVE  /\ Slot(d, n)' = IF n <= TakenOf(d) \/ n > sent[d] THEN Empty ELSE Whole(Word(d, n))
               /\ ~(c = d /\ n = TakenOf(d) + 1)
    BY <1>0, <1>10, <2>2 DEF Rings, Cleared
  <2>3. ASSUME NEW n \in 1 .. SlotsPerCore, d = c, n = t + 1
        PROVE  Slot(d, n)' = e /\ ~(n <= TakenOf(d)) /\ ~(n > sent[d])
    BY <1>3, <1>4, <1>10, <2>3
  <2>4. e = IF a = "clearLow" THEN [lo |-> Zero, hi |-> w] ELSE Empty
    BY DEF e
  <2>. QED
    BY <1>1, <1>2, <2>1, <2>2, <2>3, <2>4
<1>15. AllTaken' /\ OldestFirst' /\ InOrder'
  <2>1. \A d : ReadFrom(d)' = ReadFrom(d)
    BY <1>1 DEF ReadFrom
  <2>2. \A k \in DOMAIN got : got[k].lo \in Events => got[k].lo[1] \in Cores
    BY DEF Events
  <2>. QED
    BY <1>1, <1>11, <2>1, <2>2 DEF BInv, AllTaken, OldestFirst, InOrder
<1>16. Nearer' /\ LookedAt'
  BY <1>1, <1>2, <1>3, <1>11 DEF BInv, Nearer, LookedAt, Waits
<1>. QED
  BY <1>12, <1>13, <1>14, <1>15, <1>16 DEF BInv

\* The pointer moves on: the core was served, the others come nearer.
LEMMA AdvanceRight ==
  ASSUME BInv, Advance
  PROVE  BInv'
<1>0. /\ Typed /\ Rings /\ InCallRight /\ call.core \in Cores /\ call \in CallState /\ NumCores \in Nat \ {0}
      /\ single \in Cores /\ multi \in Cores /\ call.cnt \in Nat /\ call.max \in Nat /\ 0 \in Cores
  BY Types DEF BInv
<1>. PICK c \in Cores : c = call.core
  BY <1>0
<1>1. /\ call.at = "advance" /\ UNCHANGED <<mem, wr, sent, multi, got>> /\ rd' = [rd EXCEPT ![c] = Advanced(c)]
      /\ call.fn = "read" => single' = NextCore(single) /\ call' = NoCall /\ passed' = Passed("read", c)
      /\ call.fn # "read" => single' = single /\ passed' = Passed("none", c)
                             /\ call' = [[call EXCEPT !.at = "check"] EXCEPT !.cnt = @ + 1]
  BY DEF Advance, At, Goto
<1>2. TakenOf(c) < sent[c] /\ call.cnt < call.max /\ (call.fn = "read" => c = single)
  BY <1>0, <1>1 DEF InCallRight, Handling, Clearing
<1>. PICK t \in Nat : t = TakenOf(c)
  <2>1. TakenOf(c) \in 0 .. sent[c]
    BY <1>0, Pointers
  <2>. QED
    BY <2>1
<1>3. /\ t + 1 \in 1 .. SlotsPerCore /\ rd[c] = Place(c, t + 1) /\ sent[c] \in 0 .. MaxEvents /\ MaxEvents \in Nat
  BY <1>0, Pointers
<1>4. Advanced(c) = rd[c] + 1 /\ rd[c] + 1 \in Slots /\ rd[c] + 1 \in BufStart(c) .. BufEnd(c) - 1 /\ rd[c] + 1 = BufStart(c) + (t + 1)
  <2>. DEFINE x == SlotsPerCore * c
  <2>1. x \in Nat /\ BufStart(c) = x /\ BufEnd(c) \in Nat /\ x + SlotsPerCore <= BufEnd(c) /\ rd[c] = (x + (t + 1)) - 1
        /\ SlotsPerCore \in Nat /\ MaxEvents < SlotsPerCore
    BY <1>3, Places DEF Place
  <2>. HIDE DEF x
  <2>2. rd[c] + 1 = x + (t + 1) /\ x + (t + 1) < BufEnd(c) /\ rd[c] + 1 \in BufStart(c) .. BufEnd(c) - 1
    BY <1>2, <1>3, <2>1
  <2>3. BufStart(c) .. BufEnd(c) - 1 \subseteq Slots
    BY Places
  <2>. QED
    BY <2>1, <2>2, <2>3 DEF Advanced
<1>5. rd' \in [Cores -> Slots] /\ rd'[c] = rd[c] + 1 /\ \A d \in Cores : d # c => rd'[d] = rd[d]
  BY <1>0, <1>1, <1>4 DEF Typed
<1>6. TakenOf(c)' = t + 1 /\ \A d \in Cores : d # c => TakenOf(d)' = TakenOf(d)
  <2>1. BufStart(c) \in Nat
    BY Places
  <2>. QED
    BY <1>4, <1>5, <2>1 DEF TakenOf
<1>7. /\ call' \in CallState /\ call'.at \in {"idle", "check"} /\ (call.fn = "read" => call' = NoCall)
      /\ call.fn # "read" => /\ call'.at = "check" /\ call'.fn = call.fn /\ call'.core = c /\ call'.seen = call.seen
                             /\ call'.cnt = call.cnt + 1 /\ call'.max = call.max
  <2>1. NoCall \in CallState /\ NoCall.at = "idle"
    BY <1>0 DEF NoCall, CallState, Ats, Words
  <2>. DEFINE e == [call EXCEPT !.at = "check"]
  <2>2. /\ e \in CallState /\ e.at = "check" /\ e.fn = call.fn /\ e.core = c /\ e.seen = call.seen /\ e.cnt = call.cnt
        /\ e.max = call.max
    BY <1>0 DEF CallState, Ats
  <2>3. call.fn # "read" => call' = [e EXCEPT !.cnt = call.cnt + 1]
    BY <1>0, <1>1, <2>2
  <2>. HIDE DEF e
  <2>. QED
    BY <1>0, <1>1, <2>1, <2>2, <2>3 DEF CallState
<1>8. single' \in Cores /\ passed' \in [{"read", "read_n"} -> [Cores -> Nat]]
  <2>1. NextCore(single) \in Cores
    BY <1>0, AheadRight
  <2>. QED
    BY <1>0, <1>1, <2>1, PassedRight
<1>9. Typed'
  <2>1. \A d \in Cores : rd'[d] \in BufStart(d) .. BufEnd(d) - 1
    BY <1>0, <1>4, <1>5 DEF Typed
  <2>. QED
    BY <1>0, <1>1, <1>5, <1>7, <1>8, <2>1 DEF Typed
<1>10. InCallRight'
  <2>1. CASE call.fn = "read"
    BY <1>0, <1>7, <2>1 DEF InCallRight, NoCall, Handling, Clearing
  <2>2. CASE call.fn # "read"
    BY <1>0, <1>1, <1>2, <1>7, <2>2 DEF InCallRight, Handling, Clearing
  <2>. QED
    BY <2>1, <2>2
<1>11. Rings'
  <2> SUFFICES ASSUME NEW d \in Cores
               PROVE  /\ wr[d] = BufStart(d) + sent[d] /\ TakenOf(d)' <= sent[d]
                      /\ \A n \in 1 .. SlotsPerCore :
                           Slot(d, n) = IF n <= TakenOf(d)' \/ n > sent[d] THEN Empty ELSE Whole(Word(d, n))
    BY <1>1, <1>7 DEF Rings, Slot, Cleared
  <2>1. wr[d] = BufStart(d) + sent[d] /\ TakenOf(d)' <= sent[d]
    BY <1>0, <1>2, <1>3, <1>6 DEF Rings
  <2>2. ASSUME NEW n \in 1 .. SlotsPerCore
        PROVE  Slot(d, n) = IF n <= TakenOf(d) \/ n > sent[d] \/ (d = c /\ n = TakenOf(d) + 1) THEN Empty ELSE Whole(Word(d, n))
    BY <1>0, <1>1 DEF Rings, Cleared
  <2>3. ASSUME NEW n \in 1 .. SlotsPerCore
        PROVE  n <= TakenOf(d)' <=> n <= TakenOf(d) \/ (d = c /\ n = TakenOf(d) + 1)
    BY <1>6
  <2>. QED
    BY <2>1, <2>2, <2>3
<1>12. \A d \in Cores : GotOf(d)' = GotOf(d)
  <2>1. \A d \in Cores : TakenOf(d) \in Int
    <3>1. \A d \in Cores : TakenOf(d) \in 0 .. sent[d] /\ sent[d] \in 0 .. MaxEvents
      BY <1>0, Pointers
    <3>. QED
      BY <3>1
  <2>2. call'.at \notin Clearing
    BY <1>7 DEF Clearing
  <2>3. \A d \in Cores : GotOf(d)' = TakenOf(d)' + 0
    BY <2>2 DEF GotOf
  <2>4. GotOf(c) = t + 1 /\ \A d \in Cores : d # c => GotOf(d) = TakenOf(d) + 0
    BY <1>1 DEF GotOf, Clearing
  <2>. QED
    BY <1>6, <2>1, <2>3, <2>4
<1>13. AllTaken' /\ OldestFirst' /\ InOrder'
  <2>1. \A d : ReadFrom(d)' = ReadFrom(d)
    BY <1>1 DEF ReadFrom
  <2>2. \A k \in DOMAIN got : got[k].lo \in Events => got[k].lo[1] \in Cores
    BY DEF Events
  <2>. QED
    BY <1>1, <1>12, <2>1, <2>2 DEF BInv, AllTaken, OldestFirst, InOrder
<1>14. Nearer'
  <2> SUFFICES ASSUME NEW d \in Cores
               PROVE  /\ passed'["read"][d] > 0 => TakenOf(d)' < sent[d] /\ passed'["read"][d] + Ahead(single', d) <= NumCores
                      /\ passed'["read_n"][d] > 0 => TakenOf(d)' < sent[d] /\ passed'["read_n"][d] + Ahead(multi, d) <= NumCores
    BY <1>1 DEF Nearer, Waits
  <2>1. /\ passed["read"][d] > 0 => TakenOf(d) < sent[d] /\ passed["read"][d] + Ahead(single, d) <= NumCores
        /\ passed["read_n"][d] > 0 => TakenOf(d) < sent[d] /\ passed["read_n"][d] + Ahead(multi, d) <= NumCores
    BY DEF BInv, Nearer, Waits
  <2>2. passed["read"][d] \in Nat /\ passed["read_n"][d] \in Nat
    BY <1>0, Types
  <2>3. CASE d = c
    <3>1. passed'["read"][d] = 0 /\ passed'["read_n"][d] = 0
      BY <1>0, <1>1, <2>3, PassedRight
    <3>. QED
      BY <3>1
  <2>4. CASE d # c /\ call.fn = "read"
    <3>1. /\ passed'["read"][d] = IF ~Unread(d) THEN 0 ELSE passed["read"][d] + 1
          /\ passed'["read_n"][d] = passed["read_n"][d] + 0
      BY <1>0, <1>1, <2>4, PassedRight
    <3>2. Unread(d) => TakenOf(d) < sent[d]
      BY <1>0, <2>4, UnreadRight
    <3>3. Ahead(single, d) \in 0 .. NumCores - 1 /\ Ahead(single', d) = Ahead(single, d) - 1
      BY <1>0, <1>1, <1>2, <2>4, AheadRight
    <3>. QED
      BY <1>0, <1>6, <2>1, <2>2, <2>4, <3>1, <3>2, <3>3
  <2>5. CASE d # c /\ call.fn # "read"
    <3>1. passed'["read"][d] = passed["read"][d] + 0 /\ passed'["read_n"][d] = passed["read_n"][d] + 0
      BY <1>0, <1>1, <2>5, PassedRight
    <3>. QED
      BY <1>1, <1>6, <2>1, <2>2, <2>5, <3>1
  <2>. QED
    BY <2>3, <2>4, <2>5
<1>15. LookedAt'
  <2>1. CASE call.fn = "read"
    BY <1>7, <2>1 DEF LookedAt, NoCall
  <2>2. CASE call.fn # "read"
    <3>1. passed'["read_n"][c] = 0
      BY <1>0, <1>1, <2>2, PassedRight
    <3>. QED
      BY <1>7, <2>2, <3>1 DEF LookedAt, Waits
  <2>. QED
    BY <2>1, <2>2
<1>. QED
  BY <1>9, <1>10, <1>11, <1>13, <1>14, <1>15 DEF BInv

\* All steps of cores and calls.
LEMMA BufferStep ==
  BInv /\ [Next]_vars => BInv'
<1> SUFFICES ASSUME BInv, [Next]_vars PROVE BInv'
  OBVIOUS
<1>0. single \in Cores /\ multi \in Cores /\ Requests \subseteq Nat \ {0}
  BY Types, SizeAssumption DEF BInv
<1>1. CASE CoreStep
  BY <1>1, WriteRight DEF CoreStep
<1>2. CASE Read
  BY <1>0, <1>2, BeginRight DEF Read, Fns
<1>3. CASE ReadN
  BY <1>0, <1>3, BeginRight DEF ReadN, Fns
<1>4. CASE ReadCoreNoN
  BY <1>0, <1>4, BeginRight DEF ReadCoreNoN, Fns
<1>5. CASE InCall
  BY <1>5, LoadRight, LoadHighRight, ClearRight, AdvanceRight, MissReadRight, SleepRight, TimeoutRight, DoneReadNRight,
     DoneCoreRight DEF InCall
<1>6. CASE UNCHANGED vars
  <2>1. UNCHANGED <<mem, wr, sent, rd, single, multi, call, got, passed>>
    BY <1>6 DEF vars
  <2>2. Typed' /\ InCallRight'
    BY <2>1 DEF BInv, Typed, InCallRight, TakenOf
  <2>3. \A d : TakenOf(d)' = TakenOf(d) /\ GotOf(d)' = GotOf(d) /\ ReadFrom(d)' = ReadFrom(d)
    BY <2>1 DEF TakenOf, GotOf, ReadFrom
  <2>4. Rings'
    BY <2>1, <2>3 DEF BInv, Rings, Slot, Cleared
  <2>5. AllTaken' /\ OldestFirst' /\ InOrder'
    BY <2>1, <2>3 DEF BInv, AllTaken, OldestFirst, InOrder
  <2>6. Nearer' /\ LookedAt'
    BY <2>1, <2>3 DEF BInv, Nearer, LookedAt, Waits
  <2>. QED
    BY <2>2, <2>4, <2>5, <2>6 DEF BInv
<1>. QED
  BY <1>1, <1>2, <1>3, <1>4, <1>5, <1>6 DEF Next

\* What is in the segment or with the callers, and how near the cores are, is what was promised.
LEMMA BufferRight ==
  BInv => TypeOK /\ OldestFirst /\ NothingLost /\ FairToCores
<1> SUFFICES ASSUME BInv PROVE TypeOK /\ OldestFirst /\ NothingLost /\ FairToCores
  OBVIOUS
<1>0. Typed /\ Rings /\ InCallRight /\ OldestFirst /\ AllTaken
  BY DEF BInv
<1>1. TypeOK
  <2>1. call.cnt \in 0 .. call.max /\ call.seen \in 0 .. NumCores
    BY <1>0, Types DEF InCallRight
  <2>2. call \in CallState
    BY <1>0, Types
  <2>. QED
    BY <1>0, <2>1, <2>2 DEF TypeOK, Typed, Pairs, Words, Events, CallState, Ats
<1>2. NothingLost
  <2> SUFFICES ASSUME NEW c \in Cores, NEW n \in 1 .. sent[c]
               PROVE  (\E i \in DOMAIN got : got[i] = Whole(Word(c, n))) \/ Slot(c, n) = Whole(Word(c, n))
    BY DEF NothingLost, Slot
  <2>1. /\ TakenOf(c) \in 0 .. sent[c] /\ sent[c] \in 0 .. MaxEvents /\ MaxEvents \in Nat /\ GotOf(c) \in Nat
        /\ sent[c] + 1 \in 1 .. SlotsPerCore
    BY <1>0, Pointers
  <2>2. n \in 1 .. SlotsPerCore /\ n <= sent[c] /\ SlotsPerCore \in Nat
    BY <2>1, SizeAssumption
  <2>3. CASE n <= GotOf(c)
    <3>1. n \in 1 .. GotOf(c)
      BY <2>1, <2>3
    <3>. QED
      BY <1>0, <3>1 DEF AllTaken
  <2>4. CASE ~(n <= GotOf(c))
    <3>1. ~(n <= TakenOf(c)) /\ ~(Cleared(c, n) /\ call.at \in {"clearHigh", "advance"})
      BY <2>1, <2>2, <2>4 DEF GotOf, Cleared, Clearing
    <3>. QED
      BY <1>0, <2>1, <2>2, <3>1 DEF Rings
  <2>. QED
    BY <2>3, <2>4
<1>3. FairToCores
  <2> SUFFICES ASSUME NEW c \in Cores PROVE passed["read"][c] <= NumCores /\ passed["read_n"][c] <= NumCores
    BY DEF FairToCores
  <2>1. passed["read"][c] \in Nat /\ passed["read_n"][c] \in Nat /\ single \in Cores /\ multi \in Cores /\ NumCores \in Nat \ {0}
    BY <1>0, Types
  <2>2. Ahead(single, c) \in 0 .. NumCores - 1 /\ Ahead(multi, c) \in 0 .. NumCores - 1
    BY <2>1, AheadRight
  <2>. QED
    BY <2>1, <2>2 DEF BInv, Nearer, Waits
<1>. QED
  BY <1>0, <1>1, <1>2, <1>3

\* For every number of cores and slots, and for all calls in any order, while no core goes
\* round its ring: the calls hand out the events of each core whole, once and in order, none
\* gets lost, and a core that has one is served within as many calls as there are cores.
THEOREM ReadsStayRight ==
  MCSpec => []EventsRead
<1>. DEFINE I == part = "calls" => BInv
<1>1. MCInit => I
  BY BufferInit DEF MCInit
<1>2. I /\ [MCNext]_<<part, serverVars>> => I'
  <2> SUFFICES ASSUME I, [MCNext]_<<part, serverVars>>, part' = "calls" PROVE BInv'
    OBVIOUS
  <2>1. part = "calls" /\ [Next]_vars
    BY DEF MCNext, serverVars
  <2>. QED
    BY <2>1, BufferStep
<1>3. I => EventsRead
  BY BufferRight DEF EventsRead, InPart
<1>. QED
  BY <1>1, <1>2, <1>3, PTL DEF MCSpec

-----------------------------------------------------------------------------
(* The daemon and its file                                                  *)

Whats == [lo : Events, hi : Events]

\* What is read are events, the later ones of a core after the earlier ones.
LEMMA GotEvents ==
  ASSUME BInv
  PROVE  /\ got \in Seq(Pairs) /\ Len(got) \in Nat /\ DOMAIN got = 1 .. Len(got) /\ \A k \in DOMAIN got : got[k] \in Whats
         /\ \A j, k \in DOMAIN got : j < k /\ got[j].lo[1] = got[k].lo[1] => got[j].lo[2] < got[k].lo[2]
<1>1. got \in Seq(Pairs) /\ Len(got) \in Nat /\ DOMAIN got = 1 .. Len(got) /\ \A k \in DOMAIN got : got[k] \in Pairs
  BY Types DEF BInv
<1>2. \A k \in DOMAIN got : got[k].lo \in Events /\ got[k].hi = got[k].lo
  BY DEF BInv, InOrder, OldestFirst
<1>3. \A k \in DOMAIN got : got[k] \in Whats
  BY <1>1, <1>2 DEF Pairs, Whats
<1>. QED
  BY <1>1, <1>3 DEF BInv, InOrder

\* What is in tb, and in the part of it that write has taken.
LEMMA TbRight ==
  ASSUME BInv, mark \in 0 .. Len(got)
  PROVE  /\ NEvent = Len(got) - mark /\ NEvent \in Nat /\ Tb \in Seq(Whats) /\ Len(Tb) = NEvent
         /\ \A j \in 1 .. NEvent : mark + j \in DOMAIN got /\ Tb[j] = got[mark + j]
         /\ \A n \in 0 .. NEvent :
              /\ SubSeq(Tb, 1, n) \in Seq(Whats) /\ Len(SubSeq(Tb, 1, n)) = n
              /\ \A j \in 1 .. n : SubSeq(Tb, 1, n)[j] = Tb[j]
<1>1. got \in Seq(Pairs) /\ Len(got) \in Nat /\ DOMAIN got = 1 .. Len(got) /\ \A k \in DOMAIN got : got[k] \in Whats
  BY GotEvents
<1>2. /\ Len(Tb) = Len(got) - mark /\ Len(got) - mark \in Nat /\ \A j \in 1 .. (Len(got) - mark) : Tb[j] = got[mark + j]
  <2>. PICK k \in Nat : k = mark + 1
    BY <1>1
  <2>1. \A i \in k .. Len(got) : got[i] \in Whats
    BY <1>1
  <2>2. /\ Len(SubSeq(got, k, Len(got))) = IF k <= Len(got) THEN Len(got) - k + 1 ELSE 0
        /\ \A i \in 1 .. Len(got) - k + 1 : SubSeq(got, k, Len(got))[i] = got[k + i - 1]
    BY <1>1, <2>1, SubSeqProperties
  <2>3. Tb = SubSeq(got, k, Len(got))
    BY DEF Tb
  <2>. PICK l \in Nat : l = Len(got)
    BY <1>1
  <2>4. mark \in 0 .. l
    OBVIOUS
  <2>5. /\ l - mark \in Nat /\ l - k + 1 = l - mark /\ (~(k <= l) => l - mark = 0)
        /\ \A j \in 1 .. l - mark : k + j - 1 = mark + j
    BY <2>4
  <2>. QED
    BY <2>2, <2>3, <2>5
<1>3. \A j \in 1 .. (Len(got) - mark) : mark + j \in DOMAIN got
  BY <1>1
<1>4. Tb \in Seq(Whats)
  <2>. PICK k \in Nat : k = mark + 1
    BY <1>1
  <2>1. \A i \in k .. Len(got) : got[i] \in Whats
    BY <1>1
  <2>. QED
    BY <1>1, <2>1, SubSeqProperties DEF Tb
<1>5. ASSUME NEW n \in 0 .. Len(Tb)
      PROVE  SubSeq(Tb, 1, n) \in Seq(Whats) /\ Len(SubSeq(Tb, 1, n)) = n /\ \A j \in 1 .. n : SubSeq(Tb, 1, n)[j] = Tb[j]
  BY <1>2, <1>4, <1>5
<1>. QED
  BY <1>2, <1>3, <1>4, <1>5 DEF NEvent

\* The counters of a call of trace_read_n.
LEMMA CallCounts ==
  ASSUME BInv, InCall, call.fn = "read_n"
  PROVE  /\ UNCHANGED got \/ \E e \in Pairs : got' = Append(got, e)
         /\ call'.at # "idle" => call'.fn = "read_n" /\ call'.max = call.max
         /\ \/ call'.at = "idle" /\ UNCHANGED got
            \/ /\ UNCHANGED got
               /\ call'.cnt + (IF call'.at \in Clearing THEN 1 ELSE 0) = call.cnt + (IF call.at \in Clearing THEN 1 ELSE 0)
            \/ /\ Len(got') = Len(got) + 1 /\ call.cnt < call.max /\ call.at \notin Clearing
               /\ call'.at \in Clearing /\ call'.cnt = call.cnt
<1>1. call \in CallState /\ call.cnt \in Nat /\ call.core \in Cores /\ NoCall.at = "idle" /\ Typed /\ Rings
  BY Types DEF BInv, NoCall
<1>2. CASE Check \/ LoadLow \/ ClearLow \/ ClearHigh
  <2>1. UNCHANGED got /\ call'.cnt = call.cnt /\ call'.max = call.max /\ call'.fn = call.fn /\ (call'.at \in Clearing <=> call.at \in Clearing)
    BY <1>1, <1>2 DEF Check, LoadLow, ClearLow, ClearHigh, At, Goto, CallState, Clearing
  <2>. QED
    BY <2>1
<1>3. CASE LoadHigh
  <2>1. call.at = "high" /\ call'.at = "clearLow" /\ call'.cnt = call.cnt /\ call'.max = call.max /\ call'.fn = call.fn
    BY <1>1, <1>3 DEF LoadHigh, At, Goto, CallState
  <2>2. got' = Append(got, [lo |-> call.lo, hi |-> mem[rd[call.core]].hi])
    BY <1>3 DEF LoadHigh
  <2>3. rd[call.core] \in Slots
    BY <1>1, Types
  <2>4. [lo |-> call.lo, hi |-> mem[rd[call.core]].hi] \in Pairs
    BY <1>1, <2>3, Types DEF Pairs, CallState
  <2>5. Len(got') = Len(got) + 1
    BY <1>1, <2>2, <2>4, Types
  <2>6. call.cnt < call.max
    BY <2>1 DEF BInv, InCallRight, Handling
  <2>. QED
    BY <2>1, <2>2, <2>4, <2>5, <2>6 DEF Clearing
<1>4. CASE Advance
  <2>. DEFINE e == [call EXCEPT !.at = "check"]
  <2>1. call' = [e EXCEPT !.cnt = call.cnt + 1] /\ UNCHANGED got /\ call.at = "advance"
    BY <1>1, <1>4 DEF Advance, At, Goto, CallState
  <2>2. e \in CallState /\ e.at = "check" /\ e.fn = call.fn /\ e.max = call.max
    BY <1>1 DEF CallState, Ats
  <2>. HIDE DEF e
  <2>3. call'.at = "check" /\ call'.fn = call.fn /\ call'.max = call.max /\ call'.cnt = call.cnt + 1
    BY <1>1, <2>1, <2>2 DEF CallState
  <2>. QED
    BY <1>1, <2>1, <2>3 DEF Clearing
<1>5. CASE MissRead \/ Sleep \/ Timeout \/ DoneReadCoreNoN
  BY <1>5 DEF MissRead, Sleep, Timeout, DoneReadCoreNoN
<1>6. CASE DoneReadN
  <2>. DEFINE e == [call EXCEPT !.core = NextCore(call.core)]
  <2>1. (call' = NoCall \/ call' = [e EXCEPT !.seen = call.seen + 1]) /\ UNCHANGED got /\ call.at = "check"
    BY <1>1, <1>6 DEF DoneReadN, CoreDone, Return, At, CallState
  <2>2. NextCore(call.core) \in Cores /\ call.seen \in Nat
    BY <1>1, AheadRight, Types
  <2>3. e \in CallState /\ e.at = call.at /\ e.fn = call.fn /\ e.max = call.max /\ e.cnt = call.cnt
    BY <1>1, <2>2 DEF CallState
  <2>. HIDE DEF e
  <2>4. call' = NoCall \/ (call'.at = call.at /\ call'.fn = call.fn /\ call'.max = call.max /\ call'.cnt = call.cnt)
    BY <2>1, <2>3 DEF CallState
  <2>. QED
    BY <1>1, <2>1, <2>4
<1>. QED
  BY <1>2, <1>3, <1>4, <1>5, <1>6 DEF InCall

\* The file when something is written behind what it holds.
LEMMA FileGrows ==
  ASSUME NEW f \in Seq(Whats), NEW g \in Seq(Whats)
  PROVE  /\ f \o g \in Seq(Whats) /\ Len(f \o g) = Len(f) + Len(g) /\ DOMAIN (f \o g) = 1 .. Len(f \o g)
         /\ DOMAIN f = 1 .. Len(f) /\ Len(f) \in Nat /\ Len(g) \in Nat
         /\ \A i \in 1 .. Len(f) : (f \o g)[i] = f[i]
         /\ \A i \in DOMAIN (f \o g) : i \in 1 .. Len(f) \/ \E j \in 1 .. Len(g) : i = Len(f) + j /\ (f \o g)[i] = g[j]
<1>. PICK h : h = f \o g
  OBVIOUS
<1>1. /\ h \in Seq(Whats) /\ Len(h) = Len(f) + Len(g)
      /\ \A i \in 1 .. Len(f) + Len(g) : h[i] = IF i <= Len(f) THEN f[i] ELSE g[i - Len(f)]
  BY ConcatProperties
<1>2. DOMAIN h = 1 .. Len(h) /\ DOMAIN f = 1 .. Len(f) /\ DOMAIN g = 1 .. Len(g) /\ Len(f) \in Nat /\ Len(g) \in Nat
  BY <1>1
<1>3. \A i \in 1 .. Len(f) : h[i] = f[i]
  BY <1>1, <1>2
<1>4. ASSUME NEW i \in DOMAIN h, i \notin 1 .. Len(f)
      PROVE  \E j \in 1 .. Len(g) : i = Len(f) + j /\ h[i] = g[j]
  <2>1. i - Len(f) \in 1 .. Len(g) /\ i = Len(f) + (i - Len(f)) /\ h[i] = g[i - Len(f)]
    BY <1>1, <1>2, <1>4
  <2>. QED
    BY <2>1
<1>. QED
  BY <1>1, <1>2, <1>3, <1>4

\* A step that leaves alone the file and what was read.
LEMMA FileKept ==
  ASSUME BInv, SInv, UNCHANGED <<got, call, file, count, cut, mark>>,
         pc' \in {"open", "wait", "loop", "read", "write", "key", "close", "exit"}, key' \in BOOLEAN,
         left' \in 0 .. TbSize, retryCnt' \in 0 .. MaxRetries, pc' = "write" => retryCnt' < MaxRetries,
         trailer' \in {trailer, count}, trailer' # -1 => pc' = "exit" /\ trailer' = count,
         pc' \in {"read", "write"} => pc \in {"read", pc'}, call.at # "idle" => pc' = pc
  PROVE  SInv'
<1>1. /\ Len(got) \in Nat /\ mark \in 0 .. Len(got) /\ file \in Seq(Whats) /\ Len(file) \in Nat /\ count \in Nat
      /\ count <= Len(file) /\ trailer \in {-1} \cup 0 .. Len(file) /\ (cut \/ count = Len(file)) /\ cut \in BOOLEAN
  BY GotEvents DEF SInv, ServerTypeOK, Counted, Whats
<1>2. ServerTypeOK'
  BY <1>1 DEF ServerTypeOK, Whats
<1>3. FileInOrder'
  BY DEF SInv, FileInOrder
<1>4. TrailerCounts' /\ Counted'
  BY <1>1 DEF SInv, TrailerCounts, TrailerExact, Counted
<1>5. Filed'
  <2>1. Behind \in Nat /\ Behind' \in Nat /\ Behind <= Behind'
    BY <1>1 DEF Behind
  <2>. QED
    BY <2>1 DEF SInv, Filed
<1>6. AtRead'
  BY DEF SInv, AtRead
<1>. QED
  BY <1>2, <1>3, <1>4, <1>5, <1>6 DEF SInv

\* The daemon's call begins: tb holds nothing.
LEMMA ReadTbRight ==
  ASSUME BInv, SInv, ReadTb
  PROVE  SInv'
<1>1. /\ Len(got) \in Nat /\ mark \in 0 .. Len(got) /\ file \in Seq(Whats) /\ Len(file) \in Nat
      /\ count <= Len(file) /\ trailer \in {-1} \cup 0 .. Len(file) /\ (cut \/ count = Len(file)) /\ TbSize \in Nat
  BY GotEvents, ServerAssumption DEF SInv, ServerTypeOK, Counted, Whats
<1>2. /\ pc = "loop" /\ pc' = "read" /\ UNCHANGED <<got, key, left, retryCnt, file, count, trailer, cut>> /\ mark' = Len(got)
      /\ call' = [fn |-> "read_n", at |-> "check", core |-> multi, seen |-> 0, cnt |-> 0, max |-> TbSize, lo |-> Zero]
  BY DEF ReadTb, Begin, NoCall
<1>3. ServerTypeOK'
  BY <1>1, <1>2 DEF SInv, ServerTypeOK, Whats
<1>4. FileInOrder' /\ TrailerCounts' /\ Counted'
  BY <1>1, <1>2 DEF SInv, FileInOrder, TrailerCounts, TrailerExact, Counted
<1>5. Filed'
  <2>1. Behind = Len(got) /\ Behind' = Len(got)
    BY <1>2 DEF Behind
  <2>. QED
    BY <1>2, <2>1 DEF SInv, Filed
<1>6. AtRead'
  BY <1>1, <1>2 DEF AtRead, Clearing
<1>. QED
  BY <1>3, <1>4, <1>5, <1>6 DEF SInv

\* Its call goes on: what it gets is behind what is in the file.
LEMMA ReadingRight ==
  ASSUME BInv, SInv, Reading, BInv'
  PROVE  SInv'
<1>1. /\ Len(got) \in Nat /\ mark \in 0 .. Len(got) /\ file \in Seq(Whats) /\ Len(file) \in Nat /\ got \in Seq(Pairs)
      /\ count <= Len(file) /\ trailer \in {-1} \cup 0 .. Len(file) /\ (cut \/ count = Len(file)) /\ TbSize \in Nat
      /\ call.cnt \in Nat /\ call.max \in Nat
  BY GotEvents, Types, ServerAssumption DEF BInv, SInv, ServerTypeOK, Counted, Whats
<1>2. /\ pc = "read" /\ InCall /\ UNCHANGED <<pc, key, mark, left, retryCnt, file, count, trailer, cut>> /\ call.at # "idle"
  <2>1. InCall => call.at # "idle"
    BY DEF InCall, Check, LoadLow, LoadHigh, ClearLow, ClearHigh, Advance, MissRead, Sleep, Timeout, DoneReadN, DoneReadCoreNoN,
       CoreDone, At
  <2>. QED
    BY <2>1 DEF Reading, fileVars
<1>3. call.fn = "read_n" /\ call.max = TbSize /\ Len(got) = mark + call.cnt + (IF call.at \in Clearing THEN 1 ELSE 0)
  BY <1>2 DEF SInv, AtRead
<1>4. /\ UNCHANGED got \/ \E e \in Pairs : got' = Append(got, e)
      /\ call'.at # "idle" => call'.fn = "read_n" /\ call'.max = call.max
      /\ \/ call'.at = "idle" /\ UNCHANGED got
         \/ /\ UNCHANGED got
            /\ call'.cnt + (IF call'.at \in Clearing THEN 1 ELSE 0) = call.cnt + (IF call.at \in Clearing THEN 1 ELSE 0)
         \/ /\ Len(got') = Len(got) + 1 /\ call.cnt < call.max /\ call.at \notin Clearing
            /\ call'.at \in Clearing /\ call'.cnt = call.cnt
  BY <1>2, <1>3, CallCounts
<1>5. Len(got') \in Nat /\ Len(got) <= Len(got') /\ \A k \in 1 .. Len(got) : got'[k] = got[k]
  <2>1. CASE UNCHANGED got
    BY <1>1, <2>1
  <2>2. CASE \E e \in Pairs : got' = Append(got, e)
    <3>. PICK e \in Pairs : got' = Append(got, e)
      BY <2>2
    <3>. QED
      BY <1>1, AppendProperties
  <2>. QED
    BY <1>4, <2>1, <2>2
<1>6. ServerTypeOK'
  BY <1>1, <1>2, <1>5 DEF SInv, ServerTypeOK, Whats
<1>7. FileInOrder' /\ TrailerCounts' /\ Counted'
  BY <1>2 DEF SInv, FileInOrder, TrailerCounts, TrailerExact, Counted
<1>8. Filed'
  <2>1. Behind \in Nat /\ Behind' \in Nat /\ Behind <= Behind' /\ Behind <= Len(got)
    <3>1. (Behind = mark /\ Behind' = mark) \/ (Behind = Len(got) /\ Behind' = Len(got'))
      BY <1>2 DEF Behind
    <3>. QED
      BY <1>1, <1>5, <3>1
  <2>2. ASSUME NEW i \in DOMAIN file PROVE \E k \in 1 .. Behind' : file[i] = got'[k]
    <3>1. PICK k \in 1 .. Behind : file[i] = got[k]
      BY DEF SInv, Filed
    <3>2. k \in 1 .. Len(got) /\ k \in 1 .. Behind'
      BY <1>1, <2>1
    <3>. QED
      BY <1>5, <3>1, <3>2
  <2>. QED
    BY <1>2, <2>2 DEF Filed
<1>9. AtRead'
  <2>1. call'.at # "idle" => call'.fn = "read_n" /\ call'.max = TbSize
    BY <1>3, <1>4
  <2>2. call'.at # "idle" => Len(got') = mark + call'.cnt + (IF call'.at \in Clearing THEN 1 ELSE 0)
    <3>1. call'.cnt \in Nat
      BY DEF BInv, Typed, CallState
    <3>. PICK l \in Nat, m \in Nat : l = Len(got) /\ m = mark
      BY <1>1
    <3>. PICK a \in {0, 1}, b \in {0, 1} : /\ a = (IF call.at \in Clearing THEN 1 ELSE 0)
                                          /\ b = (IF call'.at \in Clearing THEN 1 ELSE 0)
      OBVIOUS
    <3>2. l = m + call.cnt + a
      BY <1>3
    <3>3. CASE UNCHANGED got /\ call'.cnt + b = call.cnt + a
      <4>1. l = m + call'.cnt + b
        <5>1. m \in Nat /\ call.cnt \in Nat /\ call'.cnt \in Nat /\ a \in Nat /\ b \in Nat
          BY <1>1, <3>1
        <5>. QED
          BY <3>2, <3>3, <5>1
      <4>. QED
        BY <1>2, <3>3, <4>1
    <3>4. CASE Len(got') = Len(got) + 1 /\ a = 0 /\ b = 1 /\ call'.cnt = call.cnt
      <4>1. l + 1 = m + call'.cnt + b
        BY <1>1, <3>1, <3>2, <3>4
      <4>. QED
        BY <1>2, <3>4, <4>1
    <3>. QED
      BY <1>4, <3>3, <3>4
  <2>3. Len(got') <= mark + TbSize
    <3>1. Len(got) <= mark + TbSize
      BY <1>2 DEF SInv, AtRead
    <3>. QED
      BY <1>1, <1>3, <1>4, <3>1
  <2>. QED
    BY <1>2, <2>1, <2>2, <2>3 DEF AtRead
<1>. QED
  BY <1>6, <1>7, <1>8, <1>9 DEF SInv

\* What write has taken of tb is behind what was in the file, and as it was read.
LEMMA FileWritten ==
  ASSUME BInv, SInv, pc = "write", NEW n \in 0 .. NEvent, NEW g \in Seq(Whats), Len(g) = n, \A j \in 1 .. n : g[j] = Tb[j],
         file' = file \o g, pc' \in {"write", "key"}, cut' \in BOOLEAN, cut' \/ (~cut /\ pc' = "key" /\ count' = count + n),
         count' \in {count, count + n}, left' \in 0 .. TbSize, retryCnt' \in 0 .. MaxRetries,
         pc' = "write" => retryCnt' < MaxRetries, UNCHANGED <<got, call, mark, key, trailer>>
  PROVE  SInv'
<1>1. /\ Len(got) \in Nat /\ mark \in 0 .. Len(got) /\ file \in Seq(Whats) /\ Len(file) \in Nat /\ DOMAIN got = 1 .. Len(got)
      /\ count <= Len(file) /\ count \in Nat /\ trailer = -1 /\ (cut \/ count = Len(file)) /\ TbSize \in Nat
      /\ key \in BOOLEAN
  BY GotEvents, ServerAssumption DEF SInv, ServerTypeOK, Counted, Whats
<1>2. NEvent = Len(got) - mark /\ \A j \in 1 .. NEvent : mark + j \in DOMAIN got /\ Tb[j] = got[mark + j]
  BY <1>1, TbRight
<1>3. n \in Nat /\ \A j \in 1 .. n : mark + j \in DOMAIN got /\ g[j] = got[mark + j] /\ mark + j <= Len(got)
  <2>. PICK l \in Nat : l = NEvent
    BY <1>1, TbRight
  <2>1. n \in 0 .. l
    OBVIOUS
  <2>2. n \in Nat /\ \A j \in 1 .. n : j \in 1 .. l
    BY <2>1
  <2>3. \A j \in 1 .. n : mark + j \in DOMAIN got /\ g[j] = got[mark + j]
    BY <1>2, <2>2
  <2>. QED
    BY <1>1, <2>2, <2>3
<1>4. /\ file' \in Seq(Whats) /\ Len(file') = Len(file) + n /\ DOMAIN file' = 1 .. Len(file') /\ DOMAIN file = 1 .. Len(file)
      /\ \A i \in 1 .. Len(file) : file'[i] = file[i]
      /\ \A i \in DOMAIN file' : i \in 1 .. Len(file) \/ \E j \in 1 .. n : i = Len(file) + j /\ file'[i] = g[j]
  <2>. PICK h : h = file \o g
    OBVIOUS
  <2>1. /\ h \in Seq(Whats) /\ Len(h) = Len(file) + Len(g) /\ DOMAIN h = 1 .. Len(h) /\ DOMAIN file = 1 .. Len(file)
        /\ \A i \in 1 .. Len(file) : h[i] = file[i]
        /\ \A i \in DOMAIN h : i \in 1 .. Len(file) \/ \E j \in 1 .. Len(g) : i = Len(file) + j /\ h[i] = g[j]
    <3>1. file \in Seq(Whats)
      BY <1>1
    <3>2. /\ file \o g \in Seq(Whats) /\ Len(file \o g) = Len(file) + Len(g) /\ DOMAIN (file \o g) = 1 .. Len(file \o g)
          /\ DOMAIN file = 1 .. Len(file) /\ \A i \in 1 .. Len(file) : (file \o g)[i] = file[i]
          /\ \A i \in DOMAIN (file \o g) :
               i \in 1 .. Len(file) \/ \E j \in 1 .. Len(g) : i = Len(file) + j /\ (file \o g)[i] = g[j]
      BY <3>1, FileGrows
    <3>. QED
      BY <3>2
  <2>. QED
    BY <2>1
<1>5. ServerTypeOK'
  <2>1. count' \in Nat /\ trailer' \in {-1}
    BY <1>1, <1>3
  <2>2. pc' \in {"open", "wait", "loop", "read", "write", "key", "close", "exit"} /\ key' \in BOOLEAN /\ mark' \in 0 .. Len(got')
    BY <1>1
  <2>. QED
    BY <1>4, <2>1, <2>2 DEF ServerTypeOK, Whats
<1>6. Counted' /\ TrailerCounts'
  <2>1. ~(trailer' # -1)
    BY <1>1
  <2>. PICK f \in Nat : f = Len(file)
    BY <1>1
  <2>2. Len(file') = f + n /\ count <= f /\ count \in Nat /\ n \in Nat /\ (cut \/ count = f)
    BY <1>1, <1>3, <1>4
  <2>3. count' <= f + n /\ (cut' \/ count' = f + n)
    BY <2>2
  <2>. QED
    BY <2>1, <2>2, <2>3 DEF Counted, TrailerCounts, TrailerExact
<1>7. \A i \in DOMAIN file : \E k \in 1 .. Behind : file[i] = got[k]
  BY DEF SInv, Filed
<1>8. Filed'
  <2>1. Behind \in Nat /\ Behind <= Len(got) /\ Behind' = Len(got)
    <3>1. Behind \in {mark, Len(got)} /\ Behind' = Len(got)
      BY DEF Behind
    <3>2. mark \in Nat /\ Len(got) \in Nat /\ mark <= Len(got)
      BY <1>1
    <3>3. CASE Behind = mark
      BY <3>1, <3>2, <3>3
    <3>4. CASE Behind = Len(got)
      BY <3>1, <3>2, <3>4
    <3>. QED
      BY <3>1, <3>3, <3>4
  <2>2. ASSUME NEW i \in DOMAIN file' PROVE \E k \in 1 .. Len(got) : file'[i] = got[k]
    <3>1. CASE i \in 1 .. Len(file)
      <4>1. file'[i] = file[i] /\ i \in DOMAIN file
        BY <1>4, <3>1
      <4>2. PICK k \in 1 .. Behind : file[i] = got[k]
        BY <1>7, <4>1
      <4>3. k \in 1 .. Len(got)
        BY <1>1, <2>1
      <4>. QED
        BY <4>1, <4>2, <4>3
    <3>2. CASE \E j \in 1 .. n : i = Len(file) + j /\ file'[i] = g[j]
      BY <1>1, <1>3, <3>2
    <3>. QED
      BY <1>4, <2>2, <3>1, <3>2
  <2>. QED
    BY <2>1, <2>2 DEF Filed
<1>9. FileInOrder'
  <2> SUFFICES ASSUME ~cut', NEW i \in DOMAIN file', NEW j \in DOMAIN file', i < j, file'[i].lo[1] = file'[j].lo[1]
               PROVE  file'[i].lo[2] < file'[j].lo[2]
    BY DEF FileInOrder
  <2>1. ~cut /\ Behind = mark
    BY DEF Behind
  <2>2. \A k, l \in DOMAIN got : k < l /\ got[k].lo[1] = got[l].lo[1] => got[k].lo[2] < got[l].lo[2]
    BY GotEvents
  <2>3. CASE j \in 1 .. Len(file)
    <3>1. i \in 1 .. Len(file)
      BY <1>1, <1>4, <2>3
    <3>. QED
      BY <1>4, <2>1, <2>3, <3>1 DEF SInv, FileInOrder
  <2>4. CASE i \in 1 .. Len(file) /\ j \notin 1 .. Len(file)
    <3>1. PICK k \in 1 .. mark : file'[i] = got[k]
      BY <1>4, <1>7, <2>1, <2>4
    <3>2. PICK l \in 1 .. n : file'[j] = g[l]
      BY <1>4, <2>4
    <3>3. file'[j] = got[mark + l] /\ mark + l \in DOMAIN got /\ k \in DOMAIN got /\ k < mark + l
      BY <1>1, <1>3, <3>1, <3>2
    <3>. QED
      BY <2>2, <3>1, <3>3
  <2>5. CASE i \notin 1 .. Len(file) /\ j \notin 1 .. Len(file)
    <3>1. PICK k \in 1 .. n : i = Len(file) + k /\ file'[i] = g[k]
      BY <1>4, <2>5
    <3>2. PICK l \in 1 .. n : j = Len(file) + l /\ file'[j] = g[l]
      BY <1>4, <2>5
    <3>3. mark + k < mark + l
      <4>1. mark \in Nat /\ k \in Nat /\ l \in Nat /\ Len(file) \in Nat
        BY <1>1, <1>3
      <4>2. Len(file) + k < Len(file) + l
        BY <3>1, <3>2
      <4>. QED
        BY <4>1, <4>2
    <3>4. file'[i] = got[mark + k] /\ file'[j] = got[mark + l] /\ mark + k \in DOMAIN got /\ mark + l \in DOMAIN got
      BY <1>3, <3>1, <3>2
    <3>. QED
      BY <2>2, <3>3, <3>4
  <2>. QED
    BY <2>3, <2>4, <2>5
<1>10. AtRead'
  BY DEF SInv, AtRead
<1>. QED
  BY <1>5, <1>6, <1>8, <1>9, <1>10 DEF SInv

\* The daemon starts with an empty file.
LEMMA FileInit ==
  ServerInit => BInv /\ SInv
<1> SUFFICES ASSUME ServerInit PROVE BInv /\ SInv
  OBVIOUS
<1>1. BInv
  BY BufferInit DEF ServerInit
<1>2. got = <<>> /\ call = NoCall /\ Len(got) = 0
  BY DEF ServerInit, Init
<1>3. /\ pc = "open" /\ key = FALSE /\ mark = 0 /\ left = 0 /\ retryCnt = 0 /\ file = <<>> /\ count = 0 /\ trailer = -1
      /\ cut = FALSE /\ Len(file) = 0 /\ DOMAIN file = {} /\ file \in Seq(Whats)
  BY DEF ServerInit
<1>4. TbSize \in Nat /\ MaxRetries \in Nat
  BY ServerAssumption
<1>5. ServerTypeOK
  <2>1. mark \in 0 .. Len(got) /\ left \in 0 .. TbSize /\ retryCnt \in 0 .. MaxRetries /\ count \in Nat
        /\ trailer \in {-1} \cup 0 .. Len(file) /\ file \in Seq([lo : Events, hi : Events])
    BY <1>2, <1>3, <1>4 DEF Whats
  <2>2. pc \in {"open", "wait", "loop", "read", "write", "key", "close", "exit"} /\ key \in BOOLEAN /\ cut \in BOOLEAN
    BY <1>3
  <2>. QED
    BY <2>1, <2>2 DEF ServerTypeOK
<1>6. FileInOrder /\ TrailerCounts /\ Filed /\ Counted
  BY <1>3 DEF FileInOrder, TrailerCounts, TrailerExact, Filed, Counted
<1>7. AtRead
  BY <1>2, <1>3 DEF AtRead, NoCall
<1>. QED
  BY <1>1, <1>5, <1>6, <1>7 DEF SInv

\* All steps of the daemon, the cores and the user.
LEMMA FileStep ==
  BInv /\ SInv /\ [ServerNext]_serverVars => BInv' /\ SInv'
<1> SUFFICES ASSUME BInv, SInv, [ServerNext]_serverVars PROVE BInv' /\ SInv'
  OBVIOUS
<1>1. /\ key \in BOOLEAN /\ left \in 0 .. TbSize /\ retryCnt \in 0 .. MaxRetries /\ cut \in BOOLEAN /\ mark \in 0 .. Len(got)
      /\ pc \in {"open", "wait", "loop", "read", "write", "key", "close", "exit"} /\ TbSize \in Nat \ {0} /\ MaxRetries \in Nat \ {0}
      /\ (trailer # -1 => pc = "exit" /\ trailer = count) /\ (pc = "write" => retryCnt < MaxRetries)
      /\ (call.at # "idle" => pc = "read") /\ (pc \in {"read", "write"} => Len(got) <= mark + TbSize)
      /\ count \in Nat /\ Len(got) \in Nat /\ multi \in Cores /\ MaxRetries \in Nat
  BY ServerAssumption, GotEvents, Types DEF BInv, SInv, ServerTypeOK, Counted, AtRead
<1>2. BInv'
  <2>1. CASE ServerCores
    BY <2>1, WriteRight DEF ServerCores
  <2>2. CASE ReadTb
    BY <1>1, <2>2, BeginRight DEF ReadTb, Fns
  <2>3. CASE Reading
    BY <2>3, BufferStep DEF Reading, Next
  <2>4. CASE UNCHANGED vars
    BY <2>4, BufferStep
  <2>5. Press \/ Open \/ StartCapture \/ HaveRead \/ WriteFull \/ WriteShort \/ WriteError \/ Key \/ Close \/ UNCHANGED serverVars => UNCHANGED vars
    BY DEF Press, Open, StartCapture, HaveRead, WriteFull, WriteShort, WriteError, Key, Close, serverVars
  <2>. QED
    BY <2>1, <2>2, <2>3, <2>4, <2>5 DEF ServerNext, Daemon
<1>3. CASE ServerCores
  <2>1. UNCHANGED <<got, call, pc, key, mark, left, retryCnt, file, count, trailer, cut>>
    BY <1>3 DEF ServerCores, Write, fileVars
  <2>. QED
    BY <1>1, <1>2, <2>1, FileKept
<1>4. CASE ReadTb
  BY <1>2, <1>4, ReadTbRight
<1>5. CASE Reading
  BY <1>2, <1>5, ReadingRight
<1>6. CASE Press \/ Open \/ StartCapture \/ WriteError \/ Key \/ Close \/ UNCHANGED serverVars
  <2>1. /\ UNCHANGED <<got, call, file, count, cut, mark, left, retryCnt>> /\ (call.at # "idle" => pc' = pc)
        /\ pc' \in {"open", "wait", "loop", "read", "write", "key", "close", "exit"} /\ key' \in BOOLEAN
        /\ (pc' \in {"read", "write"} => pc' = pc)
    BY <1>1, <1>6 DEF Press, Open, StartCapture, WriteError, Key, Close, vars, serverVars, fileVars
  <2>2. trailer' \in {trailer, count} /\ (trailer' # -1 => pc' = "exit" /\ trailer' = count)
    BY <1>1, <1>6 DEF Press, Open, StartCapture, WriteError, Key, Close, vars, serverVars, fileVars
  <2>. QED
    BY <1>1, <1>2, <2>1, <2>2, FileKept
<1>7. CASE HaveRead
  <2>1. NEvent = Len(got) - mark /\ NEvent \in Nat
    BY <1>1, TbRight
  <2>2. /\ pc = "read" /\ call.at = "idle" /\ pc' \in {"write", "key"} /\ left' = NEvent /\ retryCnt' = 0
        /\ UNCHANGED <<got, call, key, mark, file, count, trailer, cut>>
    BY <1>7 DEF HaveRead, vars
  <2>3. left' \in 0 .. TbSize /\ retryCnt' \in 0 .. MaxRetries /\ retryCnt' < MaxRetries /\ trailer' = -1
    BY <1>1, <2>1, <2>2
  <2>. QED
    BY <1>1, <1>2, <2>2, <2>3, FileKept
<1>8. CASE WriteFull
  <2>1. PICK n \in Nat : n = NEvent
    BY <1>1, TbRight
  <2>2. n \in 0 .. NEvent
    BY <2>1
  <2>3. Tb \in Seq(Whats) /\ Len(Tb) = n
    BY <1>1, <2>1, <2>2, TbRight
  <2>4. /\ pc = "write" /\ pc' = "key" /\ file' = file \o Tb /\ count' = count + n
        /\ UNCHANGED <<got, call, mark, key, trailer, left, retryCnt, cut>>
    BY <1>8, <2>1 DEF WriteFull, WriteDone, vars
  <2>. QED
    BY <1>1, <1>2, <2>2, <2>3, <2>4, FileWritten
<1>9. CASE WriteShort
  <2>1. PICK n \in 0 .. NEvent - 1 :
          /\ file' = file \o SubSeq(Tb, 1, n)
          /\ IF n < left
             THEN /\ left' = left - n
                  /\ retryCnt' = retryCnt + 1
                  /\ IF retryCnt + 1 < MaxRetries
                     THEN UNCHANGED <<pc, count>>
                     ELSE WriteDone(n)
             ELSE UNCHANGED <<left, retryCnt>> /\ WriteDone(n)
    BY <1>9 DEF WriteShort
  <2>2. pc = "write" /\ cut' = TRUE /\ UNCHANGED <<got, call, mark, key, trailer>>
    BY <1>9 DEF WriteShort, vars
  <2>3. NEvent \in Nat
    BY <1>1, TbRight
  <2>4. n \in 0 .. NEvent /\ n \in Nat
    BY <2>1, <2>3
  <2>5. SubSeq(Tb, 1, n) \in Seq(Whats) /\ Len(SubSeq(Tb, 1, n)) = n /\ \A j \in 1 .. n : SubSeq(Tb, 1, n)[j] = Tb[j]
    BY <1>1, <2>4, TbRight
  <2>6. left' \in 0 .. TbSize
    BY <1>1, <2>1, <2>4
  <2>7. pc' \in {"write", "key"} /\ count' \in {count, count + n}
    BY <2>1, <2>2 DEF WriteDone
  <2>8. retryCnt' \in 0 .. MaxRetries /\ (pc' = "write" => retryCnt' < MaxRetries)
    <3>1. retryCnt' = retryCnt \/ retryCnt' = retryCnt + 1
      BY <2>1
    <3>2. pc' = "write" => retryCnt' = retryCnt + 1 /\ retryCnt + 1 < MaxRetries
      BY <2>1 DEF WriteDone
    <3>. QED
      BY <1>1, <2>2, <3>1, <3>2
  <2>. QED
    BY <1>1, <1>2, <2>1, <2>2, <2>4, <2>5, <2>6, <2>7, <2>8, FileWritten
<1>. QED
  BY <1>2, <1>3, <1>4, <1>5, <1>6, <1>7, <1>8, <1>9 DEF ServerNext, Daemon

\* For every number of cores and slots, every size of tb and any number of retries: the
\* daemon's file holds what was read, each core's events in order and once, and its trailer
\* says how many they are, unless a write was short, whatever fails and whenever cores write.
THEOREM FileStaysRight ==
  MCSpec => []FileRight
<1>. DEFINE I == part = "server" => BInv /\ SInv
<1>1. MCInit => I
  BY FileInit DEF MCInit
<1>2. I /\ [MCNext]_<<part, serverVars>> => I'
  <2> SUFFICES ASSUME I, [MCNext]_<<part, serverVars>>, part' = "server" PROVE BInv' /\ SInv'
    OBVIOUS
  <2>1. part = "server" /\ [ServerNext]_serverVars
    BY DEF MCNext
  <2>. QED
    BY <2>1, FileStep
<1>3. I => FileRight
  BY DEF FileRight, InPart, SInv
<1>. QED
  BY <1>1, <1>2, <1>3, PTL DEF MCSpec
=============================================================================
