----------------------------- MODULE AlignedCopy -----------------------------
(***************************************************************************)
(* aligned_memcpy of epiphany-hal.c, which copies into the memory of a     *)
(* core: the bus takes only aligned accesses.  One step is one access.     *)
(***************************************************************************)
EXTENDS Integers

CONSTANTS Addresses, Sizes    \* of buffers, of copies

VARIABLES dst, src, size,     \* the call
          at, width,          \* bytes copied, and the width of the last access
          pc
vars == <<dst, src, size, at, width, pc>>

Left == size - at
WordWise == (dst - src) % 4 = 0        \* evenly word (un)aligned
HalfWise == ~WordWise /\ (dst - src) % 2 = 0

Idle == dst = 0 /\ src = 0 /\ size = 0 /\ at = 0 /\ width = 1 /\ pc = "done"
Init ==
    /\ dst \in Addresses /\ src \in Addresses /\ size \in Sizes /\ at = 0 /\ width = 1
    /\ pc = IF WordWise \/ HalfWise THEN "odd" ELSE "bytes"

Copy(w, next) ==
    /\ at' = at + w /\ width' = w /\ pc' = next /\ UNCHANGED <<dst, src, size>>
Skip(next) == pc' = next /\ UNCHANGED <<dst, src, size, at, width>>

\* The head: one byte to an even address, then two bytes to a word's.
ByteHead ==
    /\ pc = "odd"
    /\ LET next == IF WordWise THEN "half" ELSE "halves"
       IN IF Left > 0 /\ dst % 2 = 1 THEN Copy(1, next) ELSE Skip(next)
HalfHead ==
    /\ pc = "half"
    /\ IF (dst + at) % 4 >= 2
       THEN IF Left > 1 THEN Copy(2, "words") ELSE IF Left = 1 THEN Copy(1, "words") ELSE Skip("words")
       ELSE Skip("words")
WholeWords == pc = "words" /\ IF Left >= 4 THEN Copy(4, "words") ELSE Skip("tail")

\* The remainder in the largest possible chunks.
Tail == pc = "tail" /\ IF Left >= 2 THEN Copy(2, "tail") ELSE IF Left = 1 THEN Copy(1, "done") ELSE Skip("done")

Halves == pc = "halves" /\ IF Left > 1 THEN Copy(2, "halves") ELSE Skip("bytes")
Bytes == pc = "bytes" /\ IF Left > 0 THEN Copy(1, "bytes") ELSE Skip("done")

Next == ByteHead \/ HalfHead \/ WholeWords \/ Tail \/ Halves \/ Bytes
Spec == Init /\ [][Next]_vars

\* Every access is aligned on both sides and inside the buffers, and at the end the whole
\* of them is copied (the three assertions at the end of aligned_memcpy).
CopyRight ==
    /\ at <= size /\ (pc = "done" => at = size)
    /\ at > 0 => ((dst + at) - width) % width = 0 /\ ((src + at) - width) % width = 0

\* Why: each loop finds the address as even as its accesses are wide, unless nothing is left.
Even(w) == (dst + at) % w = 0 \/ Left = 0
CopyInv ==
    /\ dst \in Nat /\ src \in Nat /\ size \in Nat /\ at \in 0 .. size
    /\ pc = "odd" => (WordWise \/ HalfWise) /\ at = 0
    /\ pc = "half" => WordWise /\ Even(2)
    /\ pc = "words" => WordWise /\ Even(4)
    /\ pc = "tail" => WordWise /\ Even(2) /\ Left < 4
    /\ pc = "halves" => HalfWise /\ Even(2)
    /\ pc = "done" => at = size
    /\ CopyRight
=============================================================================
