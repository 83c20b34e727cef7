----------------------------- MODULE MCHalTargets -----------------------------
(* Two chips of two cores, described in a file; the simulator has one of them. *)
EXTENDS HalTargets

CONSTANTS CopyAddresses, CopySizes,           \* where and how much it copies
          Executables, CoreSpace, CoreIds, MaxAway   \* what e-meshdump dumps

ASSUME CopyAssumption == CopyAddresses \subseteq Nat /\ CopySizes \subseteq Nat

VARIABLES dst, src, size, at, width, pc       \* aligned_memcpy, which runs by itself
copying == <<dst, src, size, at, width, pc>>
C == INSTANCE AlignedCopy WITH Addresses <- CopyAddresses, Sizes <- CopySizes

VARIABLES exe, coreid, seg, part, packets, st   \* e-meshdump, a tool of its own
dumping == <<exe, coreid, seg, part, packets, st>>
D == INSTANCE MeshDump
ASSUME DumpAssumption ==
    /\ CoreSpace \in Nat /\ CoreIds \subseteq Nat /\ MaxAway \in Nat
    /\ \A e \in Executables, c \in CoreIds : D!Loadable(e, c)
NoDump == exe = <<>> /\ coreid = 0 /\ seg = 0 /\ part = "" /\ packets = <<>> /\ st = ""

NoSession ==
    /\ target = "none" /\ plat = NoPlat /\ dev = Closed /\ buf = Closed /\ mem = [w \in Words |-> 0] /\ ideal = mem
    /\ res = Nothing /\ used = [writes |-> MaxWrites, faults |-> MaxFaults, opens |-> MaxOpens]
MCInit == (Init /\ C!Idle /\ NoDump) \/ (NoSession /\ C!Init /\ NoDump) \/ (NoSession /\ C!Idle /\ D!Init)
MCNext ==
    \/ exe = <<>> /\ Next /\ UNCHANGED <<copying, dumping>>
    \/ C!Next /\ UNCHANGED <<vars, dumping>>
    \/ exe # <<>> /\ D!Next /\ UNCHANGED <<vars, copying>>
MCSpec == MCInit /\ [][MCNext]_<<vars, copying, dumping>>

\* The two tools that cut a copy into accesses.
CopiesRight == C!CopyRight /\ (exe # <<>> => D!DumpRight)

Line(t, v) == [tag |-> t, val |-> v]
MCChipDb == <<[version |-> "E16", rows |-> 1, cols |-> 2], [version |-> "E64", rows |-> 2, cols |-> 1]>>
Memory == <<Line("NUM_EXT_MEMS", 1), Line("EMEM", 0), Line("EMEM_BASE_ADDRESS", 300), Line("EMEM_EPI_BASE", 200), Line("EMEM_SIZE", 4)>>
OneChip == <<Line("//", 0), Line("PLATFORM_VERSION", 0), Line("ESYS_REGS_BASE", 0), Line("NUM_CHIPS", 1), Line("CHIP", "E16"), Line("CHIP_ROW", 1), Line("CHIP_COL", 1)>>
TwoChips == <<Line("NUM_CHIPS", 2), Line("CHIP", "E64"), Line("CHIP_ROW", 1), Line("CHIP_COL", 1),
              Line("CHIP", "E64"), Line("CHIP_ROW", 1), Line("CHIP_COL", 2)>>
MCHdfFiles == {[lines |-> l \o Memory, newline |-> n] : l \in {OneChip, TwoChips}, n \in BOOLEAN}
              \cup {[lines |-> <<Line("ESYS", 0)>>, newline |-> TRUE], [lines |-> Memory \o <<Line("CHIP_ROW", 1)>>, newline |-> FALSE]}
Segment(v, o, f, m) == [vaddr |-> v, offset |-> o, filesz |-> f, memsz |-> m]
MCExecutables == {<<Segment(v, o, f, f + z), Segment(401, 19, 2, 5)>> :
                    v \in 0 .. 5, o \in 0 .. 3, f \in {0, 1, 2, 3, 6, 9, 15, 16, 19}, z \in {0, 1, 3, 8, 9}}
MCDevice == [row |-> 1, col |-> 1, rows |-> 2, cols |-> 2]
Shape(r, c, rs, cs) == [row |-> r, col |-> c, rows |-> rs, cols |-> cs]
MCShapes == {Shape(0, 0, 1, 2), Shape(0, 1, 2, 1), Shape(0, 0, 2, 2)}
MCBuffers == {[off |-> 0, size |-> 4], [off |-> 1, size |-> 2]}
Record(t, a, n) == [type |-> t, addr |-> a, n |-> n]
MCSrecFiles ==
    {[lines |-> <<Record("S3", 0, 1), Record("S0", 0, 0), Record("S3", 1, 1), Record("S3", 201, 2), Record("S7", 0, 0),
                  Record("S3", 0, 1), Record("S0", 0, 0), Record("S3", 2, 1)>>, newline |-> FALSE],
     [lines |-> <<Record("S0", 0, 0), Record("S3", 5 * 8, 2), Record("S1", 0, 1), Record("S3", 5 * 8 + 1, 1),
                  Record("none", 0, 0), Record("S3", 1, 1)>>, newline |-> TRUE]}
===============================================================================
