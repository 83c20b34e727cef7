------------------------------ MODULE ThreadRegs ------------------------------
(***************************************************************************)
(* The registers of the current thread, as the packets g, G, p and P reach *)
(* them (GdbServer.cpp, Thread.cpp): GDB numbers map to memory-mapped      *)
(* hardware registers.  Only the general registers are modelled; the       *)
(* special ones have each an address of their own, and effects of their    *)
(* own.                                                                    *)
(***************************************************************************)
EXTENDS Integers, FiniteSetsExt

CONSTANTS Regs,      \* the GDB numbers the client uses, of 0 .. 63
          Values     \* what a register may hold

VARIABLES hw,        \* the hardware registers, by their offset from R0
          view       \* history: what the client has written last, by GDB number

vars == <<hw, view>>

\* The table of Thread::regAddr: the line of r49 is followed by a second copy of
\* the offsets of r25 to r37, for r50 to r62.
regAddr(r) == 4 * (IF r \in 50 .. 62 THEN r - 25 ELSE r)

Offsets == {regAddr(r) : r \in Regs}
Init == \E v \in Values : hw = [o \in Offsets |-> v] /\ view = [r \in Regs |-> v]

\* The 'P' packet.
rspWriteReg(r, v) ==
    /\ hw' = [hw EXCEPT ![regAddr(r)] = v] /\ view' = [view EXCEPT ![r] = v]

\* The 'G' packet writes the registers in order: the last one to an address stays.
rspWriteAllRegs(new) ==
    /\ hw' = [o \in Offsets |-> new[Max({r \in Regs : regAddr(r) = o})]]
    /\ view' = new

\* The 'g' packet, and 'p' for one register.
rspReadAllRegs == [r \in Regs |-> hw[regAddr(r)]]

Next == (\E r \in Regs, v \in Values : rspWriteReg(r, v)) \/ \E new \in [Regs -> Values] : rspWriteAllRegs(new)
Spec == Init /\ [][Next]_vars

\* "Map GDB register number to hardware register memory address" (Thread.cpp): a
\* register reads as what was last written to it.
ReadsBack == rspReadAllRegs = view
=============================================================================
