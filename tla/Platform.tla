------------------------------- MODULE Platform -------------------------------
(***************************************************************************)
(* What e_init learns of the platform (epiphany-hal.c): the hardware       *)
(* description file (HDF), the parameters of chips known by version, the   *)
(* smallest box around the chips, and the numbering of cores in a group.   *)
(* Core identifiers are row * IdCols + column; the code shifts by 6.       *)
(* Unsigned differences that wrap around are out of every range here, as   *)
(* they are there.                                                         *)
(***************************************************************************)
EXTENDS Integers, Sequences, SequencesExt, FiniteSets, FiniteSetsExt

CONSTANTS IdCols,     \* columns of the whole address space (0x40)
          ChipDb      \* e_chip_params_table: a sequence of [version, rows, cols]

NoChip == [version |-> "", row |-> 0, col |-> 0]
NoMem == [phy |-> 0, ephy |-> 0, size |-> 0]
Unread == [chips |-> <<>>, chip |-> 0, emems |-> <<>>, emem |-> 0, ok |-> TRUE, wild |-> FALSE]

\* What a line says: a field of the current chip or memory.  Before the first CHIP (EMEM)
\* and after more of them than announced the pointer leads outside the table.
ChipField == [CHIP |-> "version", CHIP_ROW |-> "row", CHIP_COL |-> "col"]
EmemField == [EMEM_BASE_ADDRESS |-> "phy", EMEM_EPI_BASE |-> "ephy", EMEM_SIZE |-> "size"]

SetChip(p, i, f, v) ==
    IF i \in DOMAIN p.chips THEN [p EXCEPT !.chip = i, !.chips[i][f] = v] ELSE [p EXCEPT !.chip = i, !.wild = TRUE]
SetEmem(p, f, v) ==
    IF p.emem \in DOMAIN p.emems THEN [p EXCEPT !.emems[p.emem][f] = v] ELSE [p EXCEPT !.wild = TRUE]

\* One turn of ee_parse_simple_hdf: [tag, val] is the line.
HdfLine(p, l) ==
    CASE ~p.ok \/ p.wild -> p
      [] l.tag = "NUM_CHIPS" -> [p EXCEPT !.chips = [i \in 1 .. l.val |-> NoChip]]
      [] l.tag = "NUM_EXT_MEMS" -> [p EXCEPT !.emems = [i \in 1 .. l.val |-> NoMem]]
      [] l.tag = "CHIP" -> SetChip(p, p.chip + 1, "version", l.val)
      [] l.tag \in {"CHIP_ROW", "CHIP_COL"} -> SetChip(p, p.chip, ChipField[l.tag], l.val)
      [] l.tag = "EMEM" -> [p EXCEPT !.emem = @ + 1, !.wild = p.emem + 1 \notin DOMAIN p.emems]
      [] l.tag \in DOMAIN EmemField -> SetEmem(p, EmemField[l.tag], l.val)
      [] l.tag \in {"PLATFORM_VERSION", "ESYS_REGS_BASE", "EMEM_TYPE", "//"} -> p
      [] OTHER -> [p EXCEPT !.ok = FALSE]

\* The loop tests the end of the file before it reads: after a final newline the
\* last line is processed once more.
LinesRead(file) == IF file.newline THEN Append(file.lines, Last(file.lines)) ELSE file.lines
ee_parse_simple_hdf(file) == FoldLeft(HdfLine, Unread, LinesRead(file))

\* ee_set_chip_params: an unknown version is taken for the first one.
ChipParams(c) ==
    LET known == {i \in DOMAIN ChipDb : ChipDb[i].version = c.version}
        db == ChipDb[IF known = {} THEN 1 ELSE Min(known)]
    IN [row |-> c.row, col |-> c.col, rows |-> db.rows, cols |-> db.cols]

\* e_init: the box around the chips.
Box(chips) ==
    LET row == Min({c.row : c \in chips}) col == Min({c.col : c \in chips})
    IN [row |-> row, col |-> col,
        rows |-> Max({(c.row + c.rows) - 1 : c \in chips}) - row + 1,
        cols |-> Max({(c.col + c.cols) - 1 : c \in chips}) - col + 1]

-----------------------------------------------------------------------------
(* Cores of a group g, at row and col of the platform *)

ee_get_id_from_coords(g, r, c) == (g.col + c) + (g.row + r) * IdCols
ee_get_coords_from_id(g, id) == [row |-> (id \div IdCols) - g.row, col |-> (id % IdCols) - g.col]
e_get_num_from_coords(g, r, c) == c + r * g.cols
num_from_id_rows(g, id) == ((id % IdCols) - g.col) + ((id \div IdCols) - g.row) * g.rows
ee_get_num_from_id(g, id) == ((id % IdCols) - g.col) + ((id \div IdCols) - g.row) * g.cols
ee_get_id_from_num(g, n) == (g.col + (n % g.cols)) + (g.row + (n \div g.cols)) * IdCols
e_get_coords_from_num(g, n) == [row |-> n \div g.cols, col |-> n % g.cols]

e_is_addr_on_chip(chips, id) ==
    \E c \in chips : /\ id \div IdCols \in c.row .. (c.row + c.rows) - 1
                     /\ id % IdCols \in c.col .. (c.col + c.cols) - 1
e_is_addr_on_group(g, id) ==
    LET at == ee_get_coords_from_id(g, id) IN at.row \in 0 .. g.rows - 1 /\ at.col \in 0 .. g.cols - 1
=============================================================================
