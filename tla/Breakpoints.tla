----------------------------- MODULE Breakpoints -----------------------------
(***************************************************************************)
(* The memory requests of the GDB client (GdbServer.cpp, MpHash.cpp):      *)
(* breakpoints are BKPT instructions in the memory of the cores, and what  *)
(* the client reads and writes must not show them.  A request is one step: *)
(* the server does nothing else meanwhile.                                 *)
(***************************************************************************)
EXTENDS TargetAccess, Sequences

CONSTANTS Values,        \* what a byte may hold
          Addresses,     \* the addresses the client uses
          MaxLen,        \* bound: bytes of a read or a write
          MaxSpoilt      \* bound: bytes lost track of when the session ends

ASSUME ValuesAssumption == Values # {} /\ {"bkpt0", "bkpt1", "junk"} \cap Values = {}

\* The ids of columns have six bits.
ASSUME PlatformAssumption ==
    /\ {Rows, Cols} \subseteq Nat \ {0} /\ {FirstRow, FirstCol} \subseteq Nat /\ FirstCol + Cols <= 64
    /\ CoreSpace % 2 = 0 /\ MaxLen \in Nat

\* The client names the memory of its cores by local addresses, and no read or write
\* of it leaves a core or passes over other addresses.
ASSUME AddressesAssumption ==
    /\ Addresses \subseteq Nat
    /\ \A a \in Addresses, t \in Threads : ~isLocalAddr(a) => a \notin AbsId(t) * CoreSpace .. (AbsId(t) + 1) * CoreSpace - 1
    /\ \A a \in Addresses, n \in 1 .. MaxLen : a + n - 1 \in Addresses =>
         a .. a + n - 1 \subseteq Addresses /\ isLocalAddr(a) = isLocalAddr(a + n - 1)

Bytes == {convertAddress(t, a) : t \in Threads, a \in Addresses}
BKPT  == <<"bkpt0", "bkpt1">>
Junk  == <<"junk", "junk">>          \* an instruction that could not be read

VARIABLES mem,       \* the memory of the target
          hash,      \* mpHash: the instruction replaced at an address of a thread
          member,    \* the process of a thread
          cur,       \* mCurrentThread
          truth,     \* history: the memory as the client knows it
          planted,   \* history: the breakpoints the client has, with their process
          spoilt     \* history: bytes for which the server has lost track

vars == <<mem, hash, member, cur, truth, planted, spoilt>>

Of(p) == {t \in Threads : member[t] = p}
Codes == {a \in Addresses : a % 2 = 0 /\ a + 1 \in Addresses}
Full(t, a) == convertAddress(t, a)
Cells(t, a) == {Full(t, a), Full(t, a) + 1}

\* A breakpoint in the memory of a core is set in all of the process, one in
\* shared memory for the current thread.
Affected(a) == IF isLocalAddr(a) THEN Of(member[cur]) ELSE {cur}
Entries(a)  == {<<a, t>> : t \in Affected(a)}
Owner(a)    == IF isLocalAddr(a) THEN member[cur] ELSE 0

Init ==
    /\ \E v \in Values : mem = [b \in Bytes |-> v]
    /\ truth = mem /\ hash = [k \in {} |-> BKPT] /\ planted = {} /\ spoilt = {}
    /\ member = [t \in Threads |-> 1] /\ cur = 1

\* An instruction at address a of thread t, and memory with one written there.
readMem16(t, a) ==
    IF Reaches(Full(t, a), 2) THEN <<mem[Full(t, a)], mem[Full(t, a) + 1]>> ELSE Junk
Poke(m, a, instr) ==
    [b \in Bytes |-> IF \E t \in DOMAIN instr : b \in Cells(t, a) /\ Reaches(Full(t, a), 2)
                     THEN LET t == CHOOSE u \in DOMAIN instr : b \in Cells(u, a) IN instr[t][b - Full(t, a) + 1]
                     ELSE m[b]]
insertBkptInstr(m, S, a) == Poke(m, a, [t \in S |-> BKPT])

\* MpHash.
add(h, instr) == [k \in DOMAIN h \cup DOMAIN instr |-> IF k \in DOMAIN instr THEN instr[k] ELSE h[k]]
remove(h, S) == [k \in DOMAIN h \ S |-> h[k]]

\* The 'H' packet.
SetThread(t) == cur # t /\ cur' = t /\ UNCHANGED <<mem, hash, member, truth, planted, spoilt>>

\* "monitor workgroup", once: a thread leaves the process it shares breakpoints with.
Workgroup(t) ==
    /\ Of(1) = Threads /\ member' = [member EXCEPT ![t] = 2]
    /\ UNCHANGED <<mem, hash, cur, truth, planted, spoilt>>

\* The 'Z' packet: always "OK".
rspInsertMatchpoint(a) ==
    /\ hash' = add(hash, [k \in Entries(a) |-> readMem16(k[2], a)])
    /\ mem' = insertBkptInstr(mem, Affected(a), a)
    /\ planted' = planted \cup {<<a, Owner(a)>>}
    /\ spoilt' = spoilt \cup UNION {Cells(t, a) : t \in {u \in Affected(a) :
                    \/ ~Reaches(Full(u, a), 2)
                    \/ \E w \in Threads : <<a, w>> \in DOMAIN hash /\ Full(w, a) = Full(u, a)}}
    /\ UNCHANGED <<member, cur, truth>>

\* Mutant: only the current core gets its instruction back.
rspRemoveOne(a) ==
    LET found == {t \in Affected(a) : <<a, t>> \in DOMAIN hash}
        lost  == {t \in Threads \ found : <<a, t>> \in DOMAIN hash /\ <<a, Owner(a)>> \in planted} IN
    /\ mem' = Poke(mem, a, [t \in found \cap {cur} |-> hash[<<a, t>>]])
    /\ hash' = remove(hash, Entries(a))
    /\ planted' = planted \ {<<a, Owner(a)>>}
    /\ spoilt' = spoilt \cup UNION {Cells(t, a) : t \in lost}
    /\ UNCHANGED <<member, cur, truth>>

\* The 'z' packet: always "OK".
rspRemoveMatchpoint(a) ==
    LET found == {t \in Affected(a) : <<a, t>> \in DOMAIN hash}
        lost  == {t \in Threads \ found : <<a, t>> \in DOMAIN hash /\ <<a, Owner(a)>> \in planted} IN
    /\ mem' = Poke(mem, a, [t \in found |-> hash[<<a, t>>]])
    /\ hash' = remove(hash, Entries(a))
    /\ planted' = planted \ {<<a, Owner(a)>>}
    /\ spoilt' = spoilt \cup UNION {Cells(t, a) : t \in lost}
    /\ UNCHANGED <<member, cur, truth>>

\* copyInsn and hideBreakpoints: what a read of thread t returns for address x.
Over(t, x) == {k \in DOMAIN hash : k[2] = t /\ x \in {k[1], k[1] + 1}}
Hidden(t, x) ==
    IF Over(t, x) = {} THEN mem[Full(t, x)]
    ELSE LET k == CHOOSE j \in Over(t, x) : TRUE IN hash[k][x - k[1] + 1]
rspReadMem(t, a, n) == [i \in 1 .. n |-> Hidden(t, a + i - 1)]

\* The 'X' packet.  unhideBreakpoints puts the data into the shadows of every
\* thread of the process and the breakpoint into the data; then the data is
\* written, as far as the target takes it.
\* Mutant: the shadows stay.
ShadowKept(k, a, data) == hash[k]

Shadow(k, a, data) ==
    [i \in 1 .. 2 |-> IF k[1] + i - 1 \in a .. a + Len(data) - 1 THEN data[k[1] + i - a] ELSE hash[k][i]]
Met(a, n) == {k \in DOMAIN hash : k[2] = cur /\ k[1] + 1 >= a /\ k[1] < a + n}
unhideBreakpoints(a, data) ==
    LET met == Met(a, Len(data))
        new == UNION {{<<k[1], t>> : t \in IF isLocalAddr(k[1]) THEN Of(member[cur]) ELSE {cur}} : k \in met} IN
    hash' = add(hash, [j \in new |-> Shadow(<<j[1], cur>>, a, data)])

Filled(a, data) ==
    [i \in 1 .. Len(data) |->
        IF Over(cur, a + i - 1) = {} THEN data[i]
        ELSE LET k == CHOOSE j \in Over(cur, a + i - 1) : TRUE IN BKPT[a + i - k[1]]]
\* Where the shadows and the memory part: another thread of the process has other
\* code there; a byte that was not written; a breakpoint of another thread.
Parted(a, data, done) ==
    LET f == Full(cur, a) IN
    {b \in Bytes : \E k \in Met(a, Len(data)), t \in Of(member[cur]) \ {cur}, i \in 1 .. 2 :
        isLocalAddr(a) /\ b = Full(t, k[1]) + i - 1 /\ truth[b] # Shadow(k, a, data)[i]}
    \cup {f + i : i \in {j \in 0 .. Len(data) - 1 : j \notin done /\ Over(cur, a + j) # {}}}
    \cup {f + i : i \in {j \in done : ~isLocalAddr(a) /\ \E t \in Threads \ {cur} : Over(t, a + j) # {}}}
rspWriteMemBin(a, data) ==
    LET f == Full(cur, a)
        done == Written(f, Len(data))
        at(b) == b - f + 1 IN
    /\ unhideBreakpoints(a, data)
    /\ mem' = [b \in Bytes |-> IF b - f \in done THEN Filled(a, data)[at(b)] ELSE mem[b]]
    /\ truth' = [b \in Bytes |-> IF b - f \in done THEN data[at(b)] ELSE truth[b]]
    /\ spoilt' = spoilt \cup Parted(a, data, done)
    /\ UNCHANGED <<member, cur, planted>>

Next ==
  /\ Cardinality(spoilt) <= MaxSpoilt
  /\ \/ \E t \in Threads : SetThread(t) \/ Workgroup(t)
     \/ \E a \in Codes : rspInsertMatchpoint(a) \/ rspRemoveMatchpoint(a)
     \/ \E a \in Addresses, n \in 1 .. MaxLen, v \in Values :
          a + n - 1 \in Addresses /\ rspWriteMemBin(a, [i \in 1 .. n |-> v])

Spec == Init /\ [][Next]_vars

-----------------------------------------------------------------------------
\* A breakpoint of shared memory is known under one thread only.
Foreign(t, x) == ~isLocalAddr(x) /\ \E u \in Threads \ {t} : Over(u, x) # {}

\* The client never sees a breakpoint: what it reads is what it has written, byte
\* by byte, however reads, writes and breakpoints overlap.
Transparent ==
    \A t \in Threads, a \in Addresses, n \in 1 .. MaxLen :
        a + n - 1 \in Addresses /\ ReadSucceeds(Full(t, a), n) =>
            \A i \in 1 .. n :
                Full(t, a + i - 1) \in spoilt \/ Foreign(t, a + i - 1)
                \/ rspReadMem(t, a, n)[i] = truth[Full(t, a + i - 1)]

\* A breakpoint the client has is in the memory of every core of its process, even
\* after the client has written over it.
Armed ==
    \A pl \in planted, t \in Threads :
        (pl[2] = 0 \/ pl[2] = member[t]) /\ <<pl[1], t>> \in DOMAIN hash /\ Cells(t, pl[1]) \cap spoilt = {}
            => readMem16(t, pl[1]) = BKPT

\* Where the client has no breakpoint left the memory is what it has written.
NothingLeft ==
    \A t \in Threads, x \in Addresses :
        (\A pl \in planted : x \notin {pl[1], pl[1] + 1}) /\ Full(t, x) \notin spoilt
            => mem[Full(t, x)] = truth[Full(t, x)]

-----------------------------------------------------------------------------
(* Why: under every entry of the table there is a breakpoint, and the entry knows *)
(* what it hides; everywhere else the memory is the client's.                      *)

Cell(k, i) == Full(k[2], k[1]) + i - 1
Bare(b) == \A k \in DOMAIN hash, i \in 1 .. 2 : b # Cell(k, i)

Known == DOMAIN hash \subseteq Codes \X Threads /\ member \in [Threads -> {1, 2}] /\ cur \in Threads
Covered ==
    \A k \in DOMAIN hash, i \in 1 .. 2 : Cell(k, i) \notin spoilt =>
        /\ hash[k][i] = truth[Cell(k, i)] /\ mem[Cell(k, i)] = BKPT[i] /\ Reaches(Full(k[2], k[1]), 2)
        /\ \E pl \in planted : pl[1] = k[1]
Plain == \A b \in Bytes \ spoilt : Bare(b) => mem[b] = truth[b]
OneHolder ==
    \A k, l \in DOMAIN hash, i, j \in 1 .. 2 : k # l /\ Cell(k, i) = Cell(l, j) => Cell(k, i) \in spoilt
\* A process has a breakpoint in all its cores.
AllCores ==
    \A k \in DOMAIN hash, t \in Threads : isLocalAddr(k[1]) /\ member[t] = member[k[2]] => <<k[1], t>> \in DOMAIN hash
MInv == Known /\ Covered /\ Plain /\ OneHolder /\ AllCores
=============================================================================
