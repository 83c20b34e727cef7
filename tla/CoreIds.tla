------------------------------- MODULE CoreIds -------------------------------
(***************************************************************************)
(* How a core names the others of its group and their memories (e_coreid_*,*)
(* e_read and e_write of e-lib), from the configuration the loader stores  *)
(* in each core.  A token goes round the group by e_neighbor_id.           *)
(* Groups have powers of two of rows and columns, as e_neighbor_id needs.  *)
(***************************************************************************)
EXTENDS Platform

CONSTANTS Window,     \* size of the address space of a core (2^20)
          Groups,     \* groups [row, col, rows, cols] the host opens
          EmemBase    \* where the cores see the external memory

VARIABLES group,      \* the group as the host knows it
          wrap, dir,  \* how the token goes
          at,         \* where it is
          visited     \* where it has been since it left
vars == <<group, wrap, dir, at, visited>>

\* _ee_set_core_config: what the loader stores in core (r, c) of group g.
e_group_config(g, r, c) ==
    [group_id |-> ee_get_id_from_coords(g, 0, 0), group_rows |-> g.rows, group_cols |-> g.cols,
     core_row |-> r, core_col |-> c]
e_emem_config == [base |-> EmemBase]

\* On the core with configuration cfg.
e_get_coreid(cfg) == cfg.group_id + cfg.core_row * IdCols + cfg.core_col
e_coreid_from_coords(cfg, row, col) == (row % IdCols) * IdCols + (col % IdCols) + cfg.group_id
e_coords_from_coreid(cfg, id) ==
    LET n == id - cfg.group_id IN [row |-> (n \div IdCols) % IdCols, col |-> n % IdCols]

SELF == -1
\* Mutant: cores are numbered inside the group.
GlobalAddressInGroup(cfg, row, col, ptr) ==
    IF ptr >= Window THEN ptr
    ELSE IF row = SELF \/ col = SELF THEN e_get_coreid(cfg) * Window + ptr
    ELSE (row * cfg.group_cols + col + cfg.group_id) * Window + ptr

e_get_global_address(cfg, row, col, ptr) ==
    IF ptr >= Window THEN ptr
    ELSE IF row = SELF \/ col = SELF THEN e_get_coreid(cfg) * Window + ptr
    ELSE (row * IdCols + col + cfg.group_id) * Window + ptr
e_is_on_core(cfg, ptr) == ptr \div Window \in {e_get_coreid(cfg), 0}

\* e_read and e_write: the address used for ptr of a remote object.
e_read_addr(cfg, remote, row, col, ptr) ==
    CASE remote.objtype = "group" -> e_get_global_address(cfg, row, col, ptr)
      [] remote.objtype = "shm"   -> remote.ephy_base + ptr
      [] OTHER                    -> e_emem_config.base + ptr
e_write_addr(cfg, remote, row, col, ptr) ==
    CASE remote.objtype = "group" -> e_get_global_address(cfg, row, col, ptr)
      [] remote.objtype = "shm"   -> remote.ephy_base + ptr
      [] OTHER                    -> e_emem_config.base + ptr

Adjust(d) == IF d = "next" THEN 1 ELSE -1

\* The masks with group_rows - 1 and group_cols - 1, which are powers of two, are %.
e_neighbor_id(cfg, d, w) ==
    LET col == cfg.core_col + (IF w = "col" THEN 0 ELSE Adjust(d))
        over == w = "group" /\ col \notin 0 .. cfg.group_cols - 1    \* unsigned: one comparison
        row == cfg.core_row + (IF w = "col" \/ over THEN Adjust(d) ELSE 0)
    IN [row |-> row % cfg.group_rows, col |-> col % cfg.group_cols]

-----------------------------------------------------------------------------
CoresOf(g) == [row : 0 .. g.rows - 1, col : 0 .. g.cols - 1]

Init ==
    /\ group \in Groups /\ at \in CoresOf(group)
    /\ wrap \in {"group", "row", "col"} /\ dir \in {"next", "prev"} /\ visited = {at}

Config == e_group_config(group, at.row, at.col)
Pass ==
    /\ at' = e_neighbor_id(Config, dir, wrap)
    /\ visited' = IF at' \in visited THEN {at'} ELSE visited \cup {at'}
    /\ UNCHANGED <<group, wrap, dir>>
Next == Pass
Spec == Init /\ [][Next]_vars

-----------------------------------------------------------------------------
\* A token passed on by e_neighbor_id visits every core of its row, column or
\* group once before it is back, in either direction.
Domain == {c \in CoresOf(group) : (wrap = "row" => c.row = at.row) /\ (wrap = "col" => c.col = at.col)}
RoundTrip == at' \in visited => visited = Domain

\* Every core of the group and the host mean the same cell by (row, col, ptr); a
\* core knows its own cells, and what it writes at an address it reads there.
HostAddress(c, ptr) == ee_get_id_from_coords(group, c.row, c.col) * Window + ptr
AddressesAgree ==
    \A c \in CoresOf(group), ptr \in {0, Window - 1} :
        LET addr == e_get_global_address(Config, c.row, c.col, ptr) IN
        /\ addr = HostAddress(c, ptr)
        /\ e_is_on_core(Config, addr) <=> c = at
        /\ e_get_global_address(Config, SELF, SELF, ptr) = HostAddress(at, ptr)
        /\ e_coords_from_coreid(Config, e_coreid_from_coords(Config, c.row, c.col)) = c
        /\ \A o \in {[objtype |-> "group"], [objtype |-> "shm", ephy_base |-> EmemBase + 1], [objtype |-> "emem"]} :
              /\ e_write_addr(Config, o, c.row, c.col, ptr) = e_read_addr(Config, o, c.row, c.col, ptr)
              /\ e_write_addr(Config, o, c.row, c.col, addr) = addr \/ o.objtype # "group"

-----------------------------------------------------------------------------
(* Why *)

\* The cores of the token's way have numbers, of which it takes the next or the previous one; it
\* has been at those it has left the fewest steps behind.
Place(c) == CASE wrap = "row" -> c.col [] wrap = "col" -> c.row [] OTHER -> e_get_num_from_coords(group, c.row, c.col)
Places == CASE wrap = "row" -> group.cols [] wrap = "col" -> group.rows [] OTHER -> group.rows * group.cols
StepsBehind(c) ==
    LET d == IF dir = "next" THEN Place(at) - Place(c) ELSE Place(c) - Place(at) IN IF d >= 0 THEN d ELSE d + Places
OnWay == group \in Groups /\ at \in CoresOf(group) /\ wrap \in {"group", "row", "col"} /\ dir \in {"next", "prev"}
TokenInv ==
    /\ OnWay
    /\ \E k \in 0 .. Places - 1 : visited = {c \in Domain : StepsBehind(c) <= k}
=============================================================================
