----------------------------- MODULE TargetAccess -----------------------------
(***************************************************************************)
(* How the e-server reaches the memory of the target                       *)
(* (TargetControlHardware.cpp): which byte an address names, which         *)
(* accesses a transfer is cut into, and which of them succeed.  A value is *)
(* not looked at: a transfer is the set of its bytes that arrive.          *)
(***************************************************************************)
EXTENDS Integers, FiniteSets

CONSTANTS CoreSpace,            \* CORE_MEM_SPACE, the addresses of one core (2^20)
          Sram,                 \* bytes of them that are memory
          Word, Double,         \* E_WORD_BYTES, E_DOUBLE_BYTES
          MaxWrite, MaxRead,    \* MAX_BURST_WRITE_BYTES, MAX_BURST_READ_BYTES
          Rows, Cols,           \* the platform, and the coordinates of its first core
          FirstRow, FirstCol,
          ExtBase, ExtSize      \* the window of external memory

ASSUME SizesAssumption ==
    /\ {CoreSpace, Sram, Word, Double, MaxWrite, MaxRead} \subseteq Nat \ {0}
    /\ Sram <= CoreSpace /\ Word < Double /\ Double % Word = 0
    /\ MaxWrite % Double = 0 /\ MaxRead % Word = 0

Threads == 1 .. Rows * Cols

\* initMaps: the cores row by row; an absolute id has six bits for the column.
AbsId(t) == (FirstRow + (t - 1) \div Cols) * 64 + FirstCol + ((t - 1) % Cols)

isLocalAddr(a)   == a < CoreSpace
convertAddress(t, a) == IF isLocalAddr(a) THEN AbsId(t) * CoreSpace + a ELSE a

\* The bounds of the rows are those of the columns.
addrToCoords(a) ==
    LET id == a \div CoreSpace
        row == id \div 64
        col == id % 64 IN
    /\ id # 0
    /\ FirstRow <= row /\ row < FirstRow + Cols
    /\ FirstCol <= col /\ col < FirstCol + Cols

\* writeTo and readFrom: one access of len bytes; the last byte of the external
\* memory is beyond the test.  An access to a core must stay in its memory.
ReachesExt(a, len) == ExtBase <= a /\ (a + len) - ExtBase < ExtSize
Reaches(a, len) ==
    \/ ReachesExt(a, len)
    \/ ~ReachesExt(a, len) /\ addrToCoords(a) /\ (a % CoreSpace) + len <= Sram

-----------------------------------------------------------------------------
(* Transfers of n bytes from the global address a: the access that moves   *)
(* byte b (of 0 .. n-1) starts at byte "from" and has "len" bytes.         *)

Smaller(x, y) == IF x < y THEN x ELSE y

\* writeBurst: bytes up to a double boundary, maximal bursts, the double words
\* that remain, bytes; an aligned word is one access.
WordWrite(a, n) == n = Word /\ a % Word = 0
HeadSize(a, n)  == IF a % Double = 0 THEN 0 ELSE Smaller(n, Double - (a % Double))
Bursts(a, n)    == ((n - HeadSize(a, n)) \div MaxWrite) * MaxWrite
TrailSize(a, n) == ((n - HeadSize(a, n)) % MaxWrite) % Double
WriteAccess(a, n, b) ==
    LET head == HeadSize(a, n)
        last == head + Bursts(a, n) IN
    CASE WordWrite(a, n) -> [from |-> 0, len |-> n]
      [] ~WordWrite(a, n) /\ b >= head /\ b < last ->
            [from |-> head + ((b - head) \div MaxWrite) * MaxWrite, len |-> MaxWrite]
      [] ~WordWrite(a, n) /\ b >= last /\ b < n - TrailSize(a, n) ->
            [from |-> last, len |-> n - TrailSize(a, n) - last]
      [] OTHER -> [from |-> b, len |-> 1]

\* readBurst: maximal blocks and a last one from a word boundary, else bytes.
ReadAccess(a, n, b) ==
    LET block == (b \div MaxRead) * MaxRead IN
    IF a % Word = 0 THEN [from |-> block, len |-> Smaller(MaxRead, n - block)]
                    ELSE [from |-> b, len |-> 1]

\* The bytes that arrive: a transfer ends at the first access that fails.
Written(a, n) ==
    {b \in 0 .. n - 1 : \A c \in 0 .. b :
        LET x == WriteAccess(a, n, c) IN Reaches(a + x.from, x.len)}
ReadSucceeds(a, n) ==
    \A b \in 0 .. n - 1 : LET x == ReadAccess(a, n, b) IN Reaches(a + x.from, x.len)
=============================================================================
