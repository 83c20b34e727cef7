------------------------------ MODULE HalTargets ------------------------------
(***************************************************************************)
(* The host library (e-hal) as an application uses it: a session from      *)
(* e_init to e_finalize, groups and buffers opened and closed in it, and   *)
(* reads and writes, by three different routes to the device: the kernel   *)
(* driver (native), the simulator (esim) and PAL (pal).  The server's      *)
(* ee_read_abs and ee_write_abs and the loader of SREC files are clients   *)
(* of the same calls.                                                      *)
(*                                                                         *)
(* Memory is words.  A core has a window of Window words, the first Sram   *)
(* of them memory, Regs of them from RegR0 on registers.  External memory  *)
(* is at EBase for the cores and at PBase for the host; a page is Page     *)
(* words.  mem is what the device holds, ideal what the client has meant   *)
(* to be there.                                                            *)
(***************************************************************************)
EXTENDS Platform

CONSTANTS Window, Sram, RegR0, Regs, EBase, PBase, ESize, Page,
          Targets,      \* subset of {"native", "esim", "pal"}
          HdfFiles,     \* descriptions for the native target
          Device,       \* the device as esim and PAL report it: [row, col, rows, cols]
          Shapes,       \* groups opened: [row, col, rows, cols]
          Buffers,      \* buffers allocated: [off, size]
          SrecFiles,    \* files loaded: [lines, newline], the lines [type, addr, n]
          MaxWrites, MaxFaults, MaxOpens    \* bounds

VARIABLES target, plat, dev, buf, mem, ideal,
          res,          \* what is held: tables, connections, descriptors, mappings, core arrays
          used          \* bounds used up

vars == <<target, plat, dev, buf, mem, ideal, res, used>>

Native == target = "native"
Phys == IF Native THEN PBase ELSE EBase     \* emem[0].phy_base
CoreAt(g, r, c) == Window * ee_get_id_from_coords(g, r, c)
CoreWords(id) == {id * Window + o : o \in 0 .. Sram - 1} \cup {id * Window + RegR0 + o : o \in 0 .. Regs - 1}
DeviceIds == {ee_get_id_from_coords(Device, r, c) : r \in 0 .. Device.rows - 1, c \in 0 .. Device.cols - 1}
Words == (UNION {CoreWords(id) : id \in DeviceIds}) \cup (EBase .. EBase + ESize - 1)

None == <<>>
Span(a, n) == [i \in 1 .. n |-> (a + i) - 1]
\* The simulator and PAL refuse what is not there.
Checked(s) == IF Range(s) \subseteq Words THEN s ELSE None

\* A last line without a newline is not looked at; a line that is no S record ends the load
\* with an error, and what was loaded stays.  Data counts between S0 and S7 only; any other
\* record is skipped with a warning.
SrecRead(file) ==
    {i \in 1 .. Len(file.lines) - (IF file.newline THEN 0 ELSE 1) : \A j \in 1 .. i : file.lines[j].type # "none"}
InSection(file, i) ==
    \E j \in 1 .. i - 1 : file.lines[j].type = "S0" /\ \A k \in j .. i - 1 : file.lines[k].type # "S7"
Data(file) == {i \in SrecRead(file) : file.lines[i].type = "S3" /\ InSection(file, i)}

\* Chips of a platform: of a description, of the simulator.  The version "PAL" is not in the
\* table of chips: the first one is taken.
Found(file) == {ChipParams(c) : c \in Range(ee_parse_simple_hdf(file).chips)}
Readable == {file \in HdfFiles : ee_parse_simple_hdf(file).ok /\ ~ee_parse_simple_hdf(file).wild}
PalChip == ChipParams([version |-> "PAL", row |-> Device.row, col |-> Device.col])

\* Cores have their memory below their registers, in windows that the external memory
\* does not share, and registers begin at a multiple of what is left of the window.
ASSUME LayoutAssumption ==
    /\ IdCols \in Nat \ {0} /\ Window \in Nat \ {0} /\ Page \in Nat \ {0} /\ Targets \subseteq {"native", "esim", "pal"}
    /\ Sram \in Nat /\ RegR0 \in Nat /\ Regs \in Nat \ {0} /\ Sram < RegR0 /\ RegR0 + Regs <= Window
    /\ RegR0 % (Window - RegR0) = 0
    /\ EBase \in Nat /\ PBase \in Nat /\ ESize \in Nat /\ EBase % Page = 0
    /\ \A a \in (EBase .. EBase + ESize - 1) \cup (PBase .. PBase + ESize - 1) : a \div Window \notin DeviceIds

\* Chips lie in the address space, beside the external memory, and the box around them has no
\* core of the device that is on none of them.  PAL's chip is a part of the device.
ASSUME DeviceAssumption ==
    /\ \A chips \in {Found(file) : file \in Readable} \cup {{Device}, {PalChip}} :
         /\ chips # {}
         /\ \A c \in chips : /\ c.row \in Nat /\ c.col \in Nat /\ c.rows \in Nat /\ c.cols \in Nat
                            /\ c.row + c.rows <= IdCols /\ c.col + c.cols <= IdCols
         /\ \A a \in EBase .. EBase + ESize - 1 : ~e_is_addr_on_chip(chips, a \div Window)
         /\ \A id \in DeviceIds : e_is_addr_on_group(Box(chips), id) => e_is_addr_on_chip(chips, id)
    /\ PalChip.rows <= Device.rows /\ PalChip.cols <= Device.cols

\* What clients ask for: buffers inside the memory; records inside the memory of a core, or of
\* the board.
ASSUME ClientAssumption ==
    /\ \A s \in Shapes : s.row \in Nat /\ s.col \in Nat /\ s.rows \in Nat /\ s.cols \in Nat
    /\ \A b \in Buffers : b.off \in Nat /\ b.size \in Nat /\ b.off + b.size <= ESize
    /\ \A file \in SrecFiles : \A i \in Data(file) :
         LET rec == file.lines[i] IN
         /\ rec.addr \in Nat /\ rec.n \in Nat
         /\ \/ rec.addr >= Window /\ rec.addr \in EBase .. EBase + ESize - 1 /\ rec.addr + rec.n <= EBase + ESize
            \/ rec.addr < Window /\ rec.addr + rec.n <= Sram
            \/ rec.addr >= Window /\ rec.addr \div Window \in DeviceIds /\ (rec.addr % Window) + rec.n <= Sram
    /\ MaxWrites \in Nat /\ MaxFaults \in Nat /\ MaxOpens \in Nat

Closed == [open |-> FALSE]
NoPlat == [init |-> FALSE]
Nothing == [tables |-> 0, conn |-> 0, fd |-> 0, maps |-> 0, arrays |-> 0]

-----------------------------------------------------------------------------
(* Where an access goes: the words touched, in order; None when it fails. *)

\* ee_read_buf, ee_write_buf and the word calls
ee_read_buf_native(g, r, c, a, n) == IF a + n > Sram THEN None ELSE Span(CoreAt(g, r, c) + a, n)
ee_read_buf_esim(g, r, c, a, n) == Checked(Span(CoreAt(g, r, c) + a, n))
pal_read_buf(g, r, c, a, n) == Checked(Span(CoreAt(g, r, c) + (a % Window), n))
BufWords(g, r, c, a, n) ==
    CASE Native -> ee_read_buf_native(g, r, c, a, n)
      [] target = "esim" -> ee_read_buf_esim(g, r, c, a, n)
      [] target = "pal" -> pal_read_buf(g, r, c, a, n)

\* ee_read_reg, ee_write_reg: the offset counts from the window or from the registers
ee_read_reg_native(g, r, c, a) ==
    LET o == IF a >= RegR0 THEN a - RegR0 ELSE a
    IN IF o + 1 > Regs THEN None ELSE <<CoreAt(g, r, c) + RegR0 + o>>
ee_read_reg_esim(g, r, c, a) == Checked(<<CoreAt(g, r, c) + (IF a < RegR0 THEN a + RegR0 ELSE a)>>)
pal_reg_as_memory(g, r, c, a) == pal_read_buf(g, r, c, a, 1)
pal_read_reg(g, r, c, a) == Checked(<<CoreAt(g, r, c) + RegR0 + ((a % Window) % (Window - RegR0))>>)
RegWord(g, r, c, a) ==
    CASE Native -> ee_read_reg_native(g, r, c, a)
      [] target = "esim" -> ee_read_reg_esim(g, r, c, a)
      [] target = "pal" -> pal_read_reg(g, r, c, a)

\* e_read and e_write of a group
GroupWords(g, r, c, a, n) == IF a < Sram THEN BufWords(g, r, c, a, n) ELSE RegWord(g, r, c, a)

\* The page offset is added to the map's size; native checks against that, esim and PAL add
\* it to an address that has it already.
PageOffset(b) == (Phys + b.off) % Page
ee_mread_buf_native(b, a, n) == IF a < 0 \/ a + n > b.size + PageOffset(b) THEN None ELSE Span(EBase + b.off + a, n)
ee_mread_buf_esim(b, a, n) == Checked(Span(EBase + b.off + PageOffset(b) + a, n))
pal_mread_buf(b, a, n) == IF PageOffset(b) + a + n > b.size THEN None ELSE Span(EBase + b.off + PageOffset(b) + a, n)
MapWords(b, a, n) ==
    CASE Native -> ee_mread_buf_native(b, a, n)
      [] target = "esim" -> ee_mread_buf_esim(b, a, n)
      [] target = "pal" -> pal_mread_buf(b, a, n)
\* This one leaves the page offset out.
ee_mwrite_word_esim(b, a) == Checked(<<EBase + b.off + a>>)

\* ee_read_abs and ee_write_abs: dev is the whole platform, buf all of the memory.  Local
\* addresses are refused, and what lies between the memory and the registers of a core.
\* Each word of a register burst that is written goes to the first register.
AllMem == [off |-> 0, size |-> ESize]
External(a) == a \in Phys .. Phys + ESize - 1 \/ a \in EBase .. EBase + ESize - 1
AbsOffset(a) == (IF a \in EBase .. EBase + ESize - 1 THEN a - (EBase - Phys) ELSE a) - Phys
AbsWords(a, n, step) ==
    LET at == ee_get_coords_from_id(dev, a \div Window) o == a % Window
    IN CASE a >= Window /\ External(a) -> MapWords(AllMem, AbsOffset(a), n)
         [] a >= Window /\ ~External(a) /\ e_is_addr_on_chip(plat.chips, a \div Window) ->
                IF o < Sram THEN BufWords(dev, at.row, at.col, o, n)
                ELSE IF o < RegR0 THEN None
                ELSE [i \in 1 .. n |-> RegWord(dev, at.row, at.col, o + (i - 1) * step)[1]]
         [] OTHER -> None

ee_read_abs(a, n) == AbsWords(a, n, 1)
ee_write_abs(a, n) == AbsWords(a, n, 0)

\* ee_process_SREC: where the data of a record goes when the file is loaded into a core
SrecWords(r, c, rec) ==
    LET at == ee_get_coords_from_id(dev, rec.addr \div Window)
    IN CASE rec.addr < Window -> BufWords(dev, r, c, rec.addr, rec.n)
         [] rec.addr >= Window /\ e_is_addr_on_chip(plat.chips, rec.addr \div Window) ->
                BufWords(dev, at.row, at.col, rec.addr % Window, rec.n)
         [] OTHER -> MapWords(AllMem, AbsOffset(rec.addr), rec.n)

-----------------------------------------------------------------------------
(* The session *)

Init ==
    /\ target \in Targets /\ plat = NoPlat /\ dev = Closed /\ buf = Closed
    /\ mem = [w \in Words |-> 0] /\ ideal = mem
    /\ res = Nothing /\ used = [writes |-> 0, faults |-> 0, opens |-> 0]

Use(k) == used' = [used EXCEPT ![k] = @ + 1]
Fault == used.faults < MaxFaults /\ Use("faults")
Opening == used.opens < MaxOpens

Platform(chips) ==
    LET box == Box(chips)
    IN [init |-> TRUE, chips |-> chips, row |-> box.row, col |-> box.col, rows |-> box.rows, cols |-> box.cols]
ee_populate_platform_esim == Platform({Device})
pal_populate_platform == Platform({PalChip})

\* The tables of a platform that cannot be used stay allocated.  populate_platform_native
\* returns no value when all is well: whatever is left in the register is taken for one.
\* (A file that leads outside the tables ends the program.)
InitNative ==
    /\ Native /\ ~plat.init /\ Opening
    /\ \E file \in HdfFiles :
         /\ ~ee_parse_simple_hdf(file).wild
         /\ \/ ee_parse_simple_hdf(file).ok /\ plat' = Platform(Found(file)) /\ Use("opens")
            \/ plat' = plat /\ Fault
    /\ res' = [res EXCEPT !.tables = @ + 1]
    /\ UNCHANGED <<target, dev, buf, mem, ideal>>
InitOther ==
    /\ ~Native /\ ~plat.init /\ Opening
    /\ \/ /\ plat' = (IF target = "esim" THEN ee_populate_platform_esim ELSE pal_populate_platform) /\ Use("opens")
          /\ res' = [res EXCEPT !.tables = @ + 1, !.conn = @ + 1]
       \/ Fault /\ UNCHANGED <<plat, res>>
    /\ UNCHANGED <<target, dev, buf, mem, ideal>>
e_finalize ==
    /\ plat.init /\ ~dev.open /\ ~buf.open /\ plat' = NoPlat
    /\ res' = [res EXCEPT !.tables = @ - 1, !.conn = IF Native THEN @ ELSE @ - 1]
    /\ UNCHANGED <<target, dev, buf, mem, ideal, used>>

\* What opening and closing adds to and takes from res.  A group has an array of rows and
\* an array of cores for each of them.
Cores(g) == g.rows * g.cols
Rows(g) == 0 .. g.rows - 1
Cols(g) == 0 .. g.cols - 1
ee_open_native(g) == [fd |-> 1, arrays |-> g.rows + 1, maps |-> 2 * Cores(g)]
ee_open_esim(g) == [fd |-> 0, arrays |-> g.rows + 1, maps |-> 0]
pal_open(g) == [fd |-> 0, arrays |-> g.rows + 1, maps |-> Cores(g)]
Opened(g) == IF Native THEN ee_open_native(g) ELSE IF target = "esim" THEN ee_open_esim(g) ELSE pal_open(g)
\* e_close: row by row the memory and the registers of each core, if they are mapped, and the
\* row; then the array of rows, and the device.  PAL has its own way.
close_rows(g) ==
    IF Native THEN [fd |-> 1, arrays |-> g.rows + 1, maps |-> Cores(g) + Cores(g)]
    ELSE [fd |-> 0, arrays |-> g.rows + 1, maps |-> 0]
pal_close(g) == [fd |-> 0, arrays |-> 0, maps |-> 0]      \* "Unmap members" is a comment
Closes(g) == IF target = "pal" THEN pal_close(g) ELSE close_rows(g)
alloc_native == [fd |-> 1, arrays |-> 0, maps |-> 1]
alloc_esim == [fd |-> 0, arrays |-> 0, maps |-> 0]
pal_alloc == [fd |-> 0, arrays |-> 0, maps |-> 1]
free_native_unmaps == [fd |-> 0, arrays |-> 0, maps |-> 1]
free_native == [fd |-> 1, arrays |-> 0, maps |-> 1]
pal_free == [fd |-> 0, arrays |-> 0, maps |-> 0]
Allocated == IF Native THEN alloc_native ELSE IF target = "esim" THEN alloc_esim ELSE pal_alloc
Freed == IF Native THEN free_native ELSE pal_free
Plus(d, sign) == [f \in DOMAIN res |-> IF f \in DOMAIN d THEN res[f] + sign * d[f] ELSE res[f]]

\* When one of the two mappings of core (r, c) fails, or both, those made before stay, and the
\* descriptor and the arrays; so may the other one.
e_open(s) ==
    /\ plat.init /\ ~dev.open /\ Opening
    /\ s.row + s.rows <= plat.rows /\ s.col + s.cols <= plat.cols
    /\ \/ /\ Use("opens") /\ res' = Plus(Opened(s), 1)
          /\ dev' = [open |-> TRUE, row |-> s.row + plat.row, col |-> s.col + plat.col, rows |-> s.rows, cols |-> s.cols]
       \/ Native /\ Fault /\ UNCHANGED <<dev, res>>           \* no device
       \/ /\ Native /\ Fault /\ dev' = dev                    \* no mapping
          /\ \E r \in Rows(s), c \in Cols(s), one \in {0, 1} :
               res' = Plus([fd |-> 1, arrays |-> r + 2, maps |-> 2 * (c + r * s.cols) + one], 1)
    /\ UNCHANGED <<target, plat, buf, mem, ideal>>
e_close ==
    /\ dev.open /\ dev' = Closed /\ res' = Plus(Closes(dev), -1)
    /\ UNCHANGED <<target, plat, buf, mem, ideal, used>>

e_alloc(b) ==
    /\ plat.init /\ ~buf.open /\ Opening
    /\ \/ Use("opens") /\ buf' = [open |-> TRUE, off |-> b.off, size |-> b.size] /\ res' = Plus(Allocated, 1)
       \/ target # "esim" /\ Fault /\ UNCHANGED <<buf, res>>
       \/ Native /\ Fault /\ buf' = buf /\ res' = Plus([fd |-> 1], 1)
    /\ UNCHANGED <<target, plat, dev, mem, ideal>>
e_free ==
    /\ buf.open /\ buf' = Closed /\ res' = Plus(Freed, -1)
    /\ UNCHANGED <<target, plat, dev, mem, ideal, used>>

\* Registers lose their values; the simulator's version opens the platform as a group, which
\* it does not close.
RegWords == UNION {{id * Window + RegR0 + o : o \in 0 .. Regs - 1} : id \in DeviceIds}
Reset(m) == [w \in Words |-> IF w \in RegWords THEN 0 ELSE m[w]]
e_reset_system ==
    /\ plat.init /\ Opening /\ Use("opens") /\ target # "pal"
    /\ mem' = Reset(mem) /\ ideal' = Reset(ideal)
    /\ res' = IF Native THEN res ELSE [res EXCEPT !.arrays = @ + plat.rows + 1]
    /\ UNCHANGED <<target, plat, dev, buf>>

-----------------------------------------------------------------------------
(* What a client may read and write *)

Request(op, r, c, a, n) == [op |-> op, r |-> r, c |-> c, a |-> a, n |-> n]
OfGroup ==
    IF ~dev.open THEN {}
    ELSE {q \in {Request("group", r, c, a, n) : r \in Rows(dev), c \in Cols(dev), a \in 0 .. Sram - 1, n \in {1, 2}} :
            q.a + q.n <= Sram}
         \cup {Request(op, r, c, a, 1) : op \in {"group", "reg"}, r \in Rows(dev), c \in Cols(dev), a \in RegR0 .. RegR0 + Regs - 1}
         \cup {Request("reg", r, c, a, 1) : r \in Rows(dev), c \in Cols(dev), a \in 0 .. Regs - 1}
OfBuffer ==
    IF ~buf.open THEN {}
    ELSE {q \in {Request(op, 0, 0, a, n) : op \in {"map", "word"}, a \in 0 .. buf.size - 1, n \in {1, 2}} :
            q.a + q.n <= (IF q.op = "word" THEN q.a + 1 ELSE buf.size)}
Whole == dev.open /\ buf.open /\ dev.rows = plat.rows /\ dev.cols = plat.cols /\ buf.size = ESize
OfServer ==
    IF ~Whole THEN {}
    ELSE {q \in {Request("abs", 0, 0, a, n) : a \in Words, n \in {1, 2}} :
            /\ q.a >= Window /\ Range(Span(q.a, q.n)) \subseteq Words /\ q.a \div Window = ((q.a + q.n) - 1) \div Window
            /\ External(q.a) \/ e_is_addr_on_group(dev, q.a \div Window)}

Meant(q) ==
    CASE q.op = "group" -> Span(CoreAt(dev, q.r, q.c) + q.a, q.n)
      [] q.op = "reg" -> <<CoreAt(dev, q.r, q.c) + (IF q.a < RegR0 THEN q.a + RegR0 ELSE q.a)>>
      [] q.op \in {"map", "word"} -> Span(EBase + buf.off + q.a, q.n)
      [] q.op = "abs" -> Span(q.a, q.n)
WordsRead(q) ==
    CASE q.op = "group" -> GroupWords(dev, q.r, q.c, q.a, q.n)
      [] q.op = "reg" -> RegWord(dev, q.r, q.c, q.a)
      [] q.op \in {"map", "word"} -> MapWords(buf, q.a, q.n)
      [] q.op = "abs" -> ee_read_abs(q.a, q.n)
WordsWritten(q) ==
    CASE q.op = "word" /\ target = "esim" -> ee_mwrite_word_esim(buf, q.a)
      [] q.op = "abs" -> ee_write_abs(q.a, q.n)
      [] OTHER -> WordsRead(q)

\* What does not work, and a careful client does not do: a buffer that does not begin on
\* a page with esim and PAL, the word call of PAL, which writes an uninitialised variable,
\* and a burst of registers through the server's call.
Avoided(q) ==
    \/ q.op \in {"map", "word"} /\ ~Native /\ PageOffset(buf) # 0
    \/ q.op = "word" /\ target = "pal"
    \/ q.op = "abs" /\ q.n > 1 /\ q.a % Window >= RegR0 /\ ~External(q.a)

Put(m, words, value) ==
    [w \in Words |-> IF \E i \in DOMAIN words : words[i] = w
                     THEN value[Max({i \in DOMAIN words : words[i] = w})] ELSE m[w]]
Garbage == -1
e_write(q) ==
    LET given == [i \in 1 .. q.n |-> 2 * used.writes + i]
        sent == [i \in 1 .. q.n |-> IF target = "pal" /\ q.op = "word" THEN Garbage ELSE given[i]]
    IN /\ used.writes < MaxWrites /\ Use("writes")
       /\ mem' = Put(mem, WordsWritten(q), sent) /\ ideal' = Put(ideal, Meant(q), given)
       /\ UNCHANGED <<target, plat, dev, buf, res>>

\* ee_process_SREC, for one core.  The words the file means are those of its addresses.
SrecMeant(r, c, rec) == Span(IF rec.addr < Window THEN CoreAt(dev, r, c) + rec.addr ELSE rec.addr, rec.n)
\* The file is for the platform and the group.  (A core outside the group is looked up
\* beyond the array of cores.)
OnGroup(rec) ==
    LET id == rec.addr \div Window
    IN \/ rec.addr < Window \/ rec.addr \in EBase .. EBase + ESize - 1
       \/ e_is_addr_on_chip(plat.chips, id) /\ e_is_addr_on_group(dev, id)
Loaded(file, to) == [w \in Words |-> {i \in Data(file) : w \in Range(to[i])}]
ee_process_SREC(file, r, c) ==
    LET to == [i \in Data(file) |-> SrecWords(r, c, file.lines[i])]
        meant == [i \in Data(file) |-> SrecMeant(r, c, file.lines[i])]
        after(m, l) == [w \in Words |-> IF l[w] = {} THEN m[w] ELSE 100 + Max(l[w])]
    IN /\ target # "pal" /\ \A i \in Data(file) : OnGroup(file.lines[i])
       /\ used.writes < MaxWrites /\ Use("writes")
       /\ mem' = after(mem, Loaded(file, to)) /\ ideal' = after(ideal, Loaded(file, meant))
       /\ UNCHANGED <<target, plat, dev, buf, res>>

Requests == OfGroup \cup OfBuffer \cup OfServer
Next ==
    \/ InitNative \/ InitOther \/ e_finalize
    \/ \E s \in Shapes : e_open(s)
    \/ e_close
    \/ \E b \in Buffers : e_alloc(b)
    \/ e_free \/ e_reset_system
    \/ \E q \in Requests : ~Avoided(q) /\ e_write(q)
    \/ dev.open /\ \E file \in SrecFiles : \E r \in Rows(dev), c \in Cols(dev) : ee_process_SREC(file, r, c)

Spec == Init /\ [][Next]_vars

-----------------------------------------------------------------------------
\* Whatever call and whatever target a word was written through, every call that may read
\* it returns what was written last.
ReadsBack ==
    \A q \in Requests : ~Avoided(q) =>
        LET words == WordsRead(q) meant == Meant(q)
        IN Len(words) = q.n /\ \A i \in 1 .. q.n : mem[words[i]] = ideal[meant[i]]

\* A native or esim session in which nothing failed holds nothing when all it opened is closed
\* (apart from the group of esim's e_reset_system).
NothingHeld ==
    (~plat.init /\ used.faults = 0 /\ target # "pal") =>
        res.fd = 0 /\ res.maps = 0 /\ res.conn = 0 /\ res.tables = 0 /\ (Native => res.arrays = 0)

\* The box of the platform holds every core, and the four ways to name a core of a group agree.
CoresNamed ==
    /\ plat.init => \A c \in plat.chips : c.row >= plat.row /\ c.row + c.rows <= plat.row + plat.rows
                                          /\ c.col >= plat.col /\ c.col + c.cols <= plat.col + plat.cols
    /\ dev.open => \A r \in Rows(dev), c \in Cols(dev) :
         LET id == ee_get_id_from_coords(dev, r, c)
         IN /\ e_is_addr_on_group(dev, id) /\ ee_get_coords_from_id(dev, id) = [row |-> r, col |-> c]
            /\ ee_get_num_from_id(dev, id) = e_get_num_from_coords(dev, r, c)
            /\ ee_get_id_from_num(dev, ee_get_num_from_id(dev, id)) = id
            /\ e_get_coords_from_num(dev, ee_get_num_from_id(dev, id)) = [row |-> r, col |-> c]

-----------------------------------------------------------------------------
(* Why: what is kept through a session. *)

\* The platforms that the target may be.
OnTarget == IF Native THEN {Found(file) : file \in Readable} ELSE IF target = "esim" THEN {{Device}} ELSE {{PalChip}}
Known ==
    /\ target \in Targets \/ (target = "none" /\ used.opens = MaxOpens)
    /\ plat = NoPlat \/ (target \in Targets /\ \E chips \in OnTarget : plat = Platform(chips))
    /\ used \in [writes : Nat, faults : Nat, opens : Nat]
    /\ res \in [tables : Int, conn : Int, fd : Int, maps : Int, arrays : Int]

\* Groups lie in the platform, buffers in the memory.
Within ==
    dev = Closed \/ /\ plat.init /\ dev \in [open : {TRUE}, row : Nat, col : Nat, rows : Nat, cols : Nat]
                    /\ plat.row <= dev.row /\ dev.row + dev.rows <= plat.row + plat.rows
                    /\ plat.col <= dev.col /\ dev.col + dev.cols <= plat.col + plat.cols
Mapped == buf = Closed \/ (plat.init /\ \E b \in Buffers : buf = [open |-> TRUE, off |-> b.off, size |-> b.size])

\* What clients have meant is what they have done.
Same == mem = ideal

\* Without faults, what is held is what is open.
If(b, n) == IF b THEN n ELSE 0
Held ==
    used.faults = 0 /\ target # "pal" =>
        /\ res.tables = If(plat.init, 1) /\ res.conn = If(~Native /\ plat.init, 1)
        /\ res.fd = If(Native /\ dev.open, 1) + If(Native /\ buf.open, 1)
        /\ res.maps = If(Native /\ dev.open, 2 * Cores(dev)) + If(Native /\ buf.open, 1)
        /\ Native => res.arrays = If(dev.open, dev.rows + 1)

HInv == Known /\ Within /\ Mapped /\ Same /\ Held

=============================================================================
