-------------------------------- MODULE MCELib --------------------------------
(* The parts of e-lib that do not work together run one at a time: three cores *)
(* with the ids of the first row of an Epiphany III use a mutex, a core has    *)
(* its interrupts, a token goes round a group, a core looks a shared region    *)
(* up, cores trace over DMA, and events are coded.                             *)
EXTENDS EMutex, Sequences, TLC

CONSTANTS ShmNames, ShmSegments,    \* names and segments of shared regions
          ShmSlots, ShmAllocs,      \* slots of their table; bound: regions the host adds
          OneIrqs, OneRoutines,     \* a core by itself: see ECore
          OneRequests, OneCountMod, OneClicks, OneCalls, OneSets,
          IdCols, IdWindow, IdEmem, IdGroups,       \* the address space of cores, groups: see CoreIds
          DmaCores, DmaTracers, DmaRing, DmaSlots, DmaEvents, DmaCounts,   \* cores that trace: see TraceDma
          FieldSize, Samples        \* values of the fields of an event; events

ASSUME ShmConstants == ShmSlots \in Nat \ {0} /\ ShmAllocs \in Nat

VARIABLES part, group, wrap, dir, at, visited, magic, regions, host, core, allocs, held,
          todo, val, reg, count, gid, ilat, serving, vec, desc, dma, asked, wish, lost, used,
          tpc, wand, irq, clock, low, buf, dmaAt, rd, call, sent, got, sample

MCCores == {"c0", "c1", "c2"}
MCCoreId == ("c0" :> 2056) @@ ("c1" :> 2057) @@ ("c2" :> 2058)

Req(s, d, n) == [src |-> s, dst |-> d, n |-> n]
MCRoutines == (4 :> {"timer"}) @@ (9 :> {"copy", "mask"})
MCRequests == {Req(8, 16, 8), Req(4, 18, 6)}
One == INSTANCE ECore WITH Irqs <- OneIrqs, Routines <- OneRoutines, Requests <- OneRequests,
                  CountMod <- OneCountMod, Clicks <- OneClicks, MaxCalls <- OneCalls, MaxSets <- OneSets
Ids == INSTANCE CoreIds WITH ChipDb <- <<>>, Window <- IdWindow, EmemBase <- IdEmem, Groups <- IdGroups
Shm == INSTANCE ShmView WITH Names <- ShmNames, Segments <- ShmSegments, Slots <- ShmSlots, MaxAllocs <- ShmAllocs
Dma == INSTANCE TraceDma WITH Cores <- DmaCores, Tracers <- DmaTracers, Ring <- DmaRing, BufSlots <- DmaSlots, WordBytes <- 8,
                  MaxEvents <- DmaEvents, Counts <- DmaCounts, pc <- tpc
Coding == INSTANCE TraceEvent WITH Size <- FieldSize

ASSUME OneConstants ==
    /\ OneIrqs \subseteq Nat /\ OneRoutines \in [OneIrqs -> SUBSET {"copy", "mask", "timer"}]
    /\ OneCountMod \in Nat \ {0} /\ \A q \in OneRequests : One!IsRequest(q)
\* A group lies in the address space, no core of it has the id 0, and its rows and
\* columns are powers of two.
PowersOfTwo == {2 ^ k : k \in 0 .. IdCols}
ASSUME IdConstants ==
    /\ IdCols \in Nat \ {0} /\ IdWindow \in Nat \ {0} /\ IdEmem \in Nat
    /\ \A g \in IdGroups : /\ g \in [row : Nat, col : Nat, rows : Nat \ {0}, cols : Nat \ {0}]
                           /\ g.row + g.rows <= IdCols /\ g.col + g.cols <= IdCols /\ g.row + g.col > 0
                           /\ g.rows \in PowersOfTwo /\ g.cols \in PowersOfTwo
ASSUME DmaConstants ==
    /\ \A c, d \in DmaTracers : c = d
    /\ DmaRing \in Nat \ {0} /\ DmaSlots \in Nat /\ DmaRing <= DmaSlots /\ DmaCounts \subseteq Nat
ASSUME CodingConstants == FieldSize \in [Coding!Fields -> Nat \ {0}] /\ Samples \subseteq [Coding!Fields -> Nat]

idsVars == <<group, wrap, dir, at, visited>>
shmVars == <<magic, regions, host, core, allocs, held>>
oneVars == <<todo, val, reg, count, gid, ilat, serving, vec, desc, dma, asked, wish, lost, used>>
dmaVars == <<tpc, wand, irq, clock, low, buf, dmaAt, rd, call, sent, got>>

NoIds == group = 0 /\ wrap = 0 /\ dir = 0 /\ at = 0 /\ visited = {}
NoShm == magic = 0 /\ regions = 0 /\ host = 0 /\ core = 0 /\ allocs = 0 /\ held = 0
NoDma == tpc = 0 /\ wand = {} /\ irq = {} /\ clock = {} /\ low = 0 /\ buf = 0 /\ dmaAt = 0 /\ rd = 0
         /\ call = 0 /\ sent = <<>> /\ got = <<>>
NoCore == One!Init /\ reg["IMASK"] = OneIrqs /\ vec = [i \in OneIrqs |-> "default"]

MCGroups == {[row |-> 1, col |-> 2, rows |-> r, cols |-> c] : r, c \in {1, 2, 4}}

\* Fields of 2, 3, 1, 2 and 2 bits, in range and, but for the data, one more than that.
MCFieldSize == [data |-> 4, coreId |-> 8, breakpoint |-> 2, eventId |-> 4, severity |-> 4]
MCSamples == [data : {0, 3}, coreId : {5, 8, 9}, breakpoint : {0, 1, 2}, eventId : {0, 3, 4}, severity : {1, 3, 4}]

MCInit ==
    /\ Init
    /\ \/ part = "mutex" /\ NoCore /\ NoIds /\ NoShm /\ NoDma /\ sample = 0
       \/ part = "core" /\ One!Init /\ NoIds /\ NoShm /\ NoDma /\ sample = 0
       \/ part = "ids" /\ Ids!Init /\ NoCore /\ NoShm /\ NoDma /\ sample = 0
       \/ part = "shm" /\ Shm!Init /\ NoCore /\ NoIds /\ NoDma /\ sample = 0
       \/ part = "dma" /\ Dma!Init /\ NoCore /\ NoIds /\ NoShm /\ sample = 0
       \/ part = "coding" /\ sample \in Samples /\ NoCore /\ NoIds /\ NoShm /\ NoDma
MCNext ==
    /\ UNCHANGED <<part, sample>>
    /\ \/ part = "mutex" /\ Next /\ UNCHANGED <<oneVars, idsVars, shmVars, dmaVars>>
       \/ part = "core" /\ One!Next /\ UNCHANGED <<vars, idsVars, shmVars, dmaVars>>
       \/ part = "ids" /\ Ids!Next /\ UNCHANGED <<vars, oneVars, shmVars, dmaVars>>
       \/ part = "shm" /\ Shm!Next /\ UNCHANGED <<vars, oneVars, idsVars, dmaVars>>
       \/ part = "dma" /\ Dma!Next /\ UNCHANGED <<vars, oneVars, idsVars, shmVars>>

\* Initially nothing of the mutex and of the core is enabled that must happen: their
\* fairness asks nothing of the other parts.
MCSpec == MCInit /\ [][MCNext]_<<vars, oneVars, idsVars, shmVars, dmaVars, part, sample>>
          /\ Fairness /\ One!Fairness

InPart(p, P) == part = p => P
CopiesRight == InPart("core", One!TransfersAsAsked)
RegistersRight == InPart("core", One!UpdatesKept)
Returns == One!CallsReturn
SameCells == []InPart("ids", Ids!AddressesAgree) /\ [][InPart("ids", Ids!RoundTrip)]_idsVars
AttachWhole == InPart("shm", Shm!AttachWhole)

\* What a core codes, the host decodes: each field modulo its width, whatever the
\* others are, as long as the data fits; the host's own events come back too.
Small(s) == [f \in DOMAIN s |-> s[f] % FieldSize[f]]
EventsDecode ==
    LET s == Small(sample)
        upper == Coding!trace_write_word(s.severity, s.eventId, s.breakpoint, sample.coreId, s.data)
    IN /\ Coding!trace_event_to_struct(upper) = s
       /\ Coding!trace_event_to_struct(Coding!trace_to_event(sample)) = s
       /\ Coding!trace_struct_to_event(sample) = upper
TracingRight ==
    /\ InPart("dma", Dma!StartTogether /\ Dma!EventsInOrder)
    /\ InPart("coding", EventsDecode)
===============================================================================
