------------------------------- MODULE MeshDump -------------------------------
(***************************************************************************)
(* e-meshdump.c: an executable becomes a list of write packets for the     *)
(* mesh, segment by segment; what a segment has in memory beyond its part  *)
(* of the file is cleared.  One step is one call of mesh_memcpy.           *)
(***************************************************************************)
EXTENDS Integers, Sequences

CONSTANTS Executables,   \* sequences of segments [vaddr, offset, filesz, memsz]
          CoreSpace,     \* addresses of one core; lower ones are local to it
          CoreIds,       \* of the cores an executable may be dumped for
          MaxAway        \* bound: packets that clear too much

VARIABLES exe, coreid,
          seg, part,      \* the segment at hand, "copy" or "clear"
          packets,        \* [at, from, width]: from is a place in the file, or -1 for zeros
          st              \* "run", "end", or "dead"
vars == <<exe, coreid, seg, part, packets, st>>

Smaller(a, b) == IF a < b THEN a ELSE b
Zeros == -1

Init ==
    /\ exe \in Executables /\ coreid \in CoreIds /\ seg = 1 /\ part = "copy" /\ packets = <<>> /\ st = "run"

\* k packets of w bytes each, from byte i of a transfer on; zeros come from an aligned buffer.
Chunks(d, s, i, k, w) ==
    [j \in 1 .. k |-> [at |-> d + i + (j - 1) * w, from |-> IF s = Zeros THEN Zeros ELSE s + i + (j - 1) * w, width |-> w]]
Source(s) == IF s = Zeros THEN 0 ELSE s

\* mesh_memcpy, by the alignment both sides have in common.
TwoByteHead(d, s, n) == (d - Source(s)) % 4 = 0 /\ (d + (IF n > 0 THEN d % 2 ELSE 0)) % 4 >= 2 /\ n - (d % 2) > 1
\* Mutant: three bytes that remain are one packet of two.
RemainderTwo(d, s, i, n) == IF n - i >= 2 THEN Chunks(d, s, i, 1, 2) ELSE Chunks(d, s, i, n - i, 1)
Remainder(d, s, i, n) ==
    LET halves == (n - i) \div 2
    IN Chunks(d, s, i, halves, 2) \o Chunks(d, s, i + 2 * halves, (n - i) % 2, 1)
WordWise(d, s, n) ==
    LET head == Smaller(n, (4 - (d % 4)) % 4)
        odd == Smaller(n, d % 2)
        doubles == (n - head) \div 8
        words == ((n - head) % 8) \div 4
        i == head + 8 * doubles + 4 * words IN
    Chunks(d, s, 0, odd, 1) \o (IF TwoByteHead(d, s, n) THEN <<>> ELSE Chunks(d, s, odd, head - odd, 1))
    \o Chunks(d, s, head, doubles, 8) \o Chunks(d, s, head + 8 * doubles, words, 4)
    \o Remainder(d, s, i, n)
HalfWise(d, s, n) ==
    LET odd == Smaller(n, d % 2)
        halves == (n - odd) \div 2 IN
    Chunks(d, s, 0, odd, 1) \o Chunks(d, s, odd, halves, 2) \o Chunks(d, s, odd + 2 * halves, n - odd - 2 * halves, 1)
mesh_memcpy(d, s, n) ==
    CASE (d - Source(s)) % 4 = 0 -> WordWise(d, s, n)
      [] (d - Source(s)) % 4 = 2 -> HalfWise(d, s, n)
      [] OTHER -> Chunks(d, s, 0, n, 1)

\* process_elf.
Segment == exe[seg]
is_local(a) == a < CoreSpace
PlaceOf(e, c, i) == IF is_local(e[i].vaddr) THEN c * CoreSpace + e[i].vaddr ELSE e[i].vaddr
Place(i) == PlaceOf(exe, coreid, i)
dst == Place(seg)

\* Two bytes to an even address that is not a word's are stored into the tool's own memory, where
\* the address of a core means nothing.
Copy ==
    /\ st = "run" /\ part = "copy"
    /\ IF TwoByteHead(dst, Segment.offset, Segment.filesz)
       THEN st' = "dead" /\ UNCHANGED <<part, packets>>
       ELSE /\ packets' = packets \o mesh_memcpy(dst, Segment.offset, Segment.filesz)
            /\ part' = "clear" /\ st' = st
    /\ UNCHANGED <<exe, coreid, seg>>

NextSegment ==
    /\ part' = "copy"
    /\ IF seg < Len(exe) THEN seg' = seg + 1 /\ st' = "run" ELSE seg' = seg /\ st' = "end"
\* mesh_memclear: up to eight bytes; of more it clears eight and has sixteen more to clear.
Clear ==
    LET n == Segment.memsz - Segment.filesz IN
    /\ st = "run" /\ part = "clear" /\ n <= 8
    /\ packets' = packets \o mesh_memcpy(dst + Segment.filesz, Zeros, n)
    /\ NextSegment /\ UNCHANGED <<exe, coreid>>
ClearOn ==
    LET n == Segment.memsz - Segment.filesz IN
    /\ st = "run" /\ part = "clear" /\ n > 8 /\ Len(packets) < MaxAway
    /\ packets' = packets \o mesh_memcpy(IF packets # <<>> /\ packets[Len(packets)].from = Zeros
                                         THEN packets[Len(packets)].at + packets[Len(packets)].width
                                         ELSE dst + Segment.filesz, Zeros, 8)
    /\ UNCHANGED <<exe, coreid, seg, part, st>>

Next == Copy \/ Clear \/ ClearOn
Spec == Init /\ [][Next]_vars

-----------------------------------------------------------------------------
Covers(p, a) == p.at <= a /\ a < p.at + p.width
Aligned(p) == p.at % (IF p.width = 8 THEN 4 ELSE p.width) = 0

\* One packet covers byte b of a segment, at x, with what the file has at o or, from f on, with zero.
HasByte(P, x, b, f, o) ==
    \E k \in 1 .. Len(P) : /\ \A l \in 1 .. Len(P) : Covers(P[l], x) <=> l = k
                           /\ IF b < f THEN P[k].from + (x - P[k].at) = o + b ELSE P[k].from = Zeros

\* When the dump ends it writes each byte of each segment once, in a packet that does not cross the
\* word it begins in unless it is one of eight bytes, with the byte the file has there or with zero.
DumpRight ==
    /\ \A k \in 1 .. Len(packets) : Aligned(packets[k])
    /\ st = "end" =>
         \A i \in 1 .. Len(exe) : \A b \in 0 .. exe[i].memsz - 1 :
             HasByte(packets, Place(i) + b, b, exe[i].filesz, exe[i].offset)

Phdr == [vaddr : Nat, offset : Nat, filesz : Nat, memsz : Nat]
\* An executable whose segments lie apart, for this core.
Loadable(e, c) ==
    /\ e \in Seq(Phdr) /\ e # <<>>
    /\ \A i \in 1 .. Len(e) : e[i].filesz <= e[i].memsz
    /\ \A i, j \in 1 .. Len(e) : i # j =>
          \/ PlaceOf(e, c, i) + e[i].memsz <= PlaceOf(e, c, j)
          \/ PlaceOf(e, c, j) + e[j].memsz <= PlaceOf(e, c, i)

(***************************************************************************)
(* Why: a call of mesh_memcpy tiles its destination, so that the packets   *)
(* are those of the parts of segments that are written, and no other.      *)
(* Where more than eight bytes are to be cleared the dump never ends.      *)
(***************************************************************************)
Packet == [at : Nat, from : Int, width : {1, 2, 4, 8}]
From(s, n) == IF s = Zeros THEN Zeros ELSE s + n

\* Each byte of the n at a is in one packet, which has it from its place behind s, and nothing else is.
Tiles(P, a, n, s) ==
    /\ P \in Seq(Packet)
    /\ \A k \in 1 .. Len(P) : /\ Aligned(P[k]) /\ a <= P[k].at /\ P[k].at + P[k].width <= a + n
                              /\ P[k].from = From(s, P[k].at - a)
    /\ \A x \in a .. a + n - 1 : \E k \in 1 .. Len(P) : \A l \in 1 .. Len(P) : Covers(P[l], x) <=> l = k

\* The first bytes of each segment are there, as many as W says.
Laid(P, W) ==
    /\ \A k \in 1 .. Len(P) : \E i \in 1 .. Len(exe) : Place(i) <= P[k].at /\ P[k].at + P[k].width <= Place(i) + W[i]
    /\ \A i \in 1 .. Len(exe) : \A b \in 0 .. W[i] - 1 : HasByte(P, Place(i) + b, b, exe[i].filesz, exe[i].offset)
Written == [i \in 1 .. Len(exe) |->
              CASE i < seg \/ st = "end" -> exe[i].memsz
                [] i = seg /\ st = "run" /\ part = "clear" -> exe[i].filesz
                [] OTHER -> 0]
NeverEnds == st = "dead" \/ (part = "clear" /\ Segment.memsz - Segment.filesz > 8)
DumpInv ==
    /\ exe \in Executables /\ coreid \in CoreIds /\ seg \in 1 .. Len(exe)
    /\ part \in {"copy", "clear"} /\ st \in {"run", "dead", "end"} /\ (st = "end" => part = "copy")
    /\ packets \in Seq(Packet) /\ \A k \in 1 .. Len(packets) : Aligned(packets[k])
    /\ NeverEnds \/ Laid(packets, Written)
===============================================================================
