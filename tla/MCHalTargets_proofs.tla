------------------------- MODULE MCHalTargets_proofs -------------------------
(***************************************************************************)
(* What e-hal does is what its client means, for every layout of memory,   *)
(* every description of a platform, every group and buffer in it, and      *)
(* every order of calls, whatever fails: the native target, the simulator  *)
(* and PAL, the server's absolute addresses and the SREC loader all come   *)
(* to the same words (HInv: mem = ideal, groups inside the platform).      *)
(***************************************************************************)
EXTENDS MCHalTargets, WellFoundedInduction, TLAPS

-----------------------------------------------------------------------------
(* Numbers *)

\* A set of natural numbers has a smallest element.
LEMMA Smallest ==
  ASSUME NEW S, S \subseteq Nat, S # {}
  PROVE  \E m \in S : \A k \in S : m <= k
<1>. DEFINE R == {p \in Nat \X Nat : p[1] < p[2]}
<1>1. R = OpToRel(<, Nat)
  BY DEF OpToRel
<1>2. IsWellFoundedOn(R, Nat)
  BY <1>1, NatLessThanWellFounded
<1>3. \A k, m \in Nat : <<k, m>> \in R <=> k < m
  OBVIOUS
<1>. HIDE DEF R
<1>4. PICK m \in S : \A k \in S : ~(<<k, m>> \in R)
  BY <1>2, WFMin
<1>5. ASSUME NEW k \in S PROVE m <= k
  <2>1. k \in Nat /\ m \in Nat /\ ~(<<k, m>> \in R)
    BY <1>4
  <2>. QED
    BY <1>3, <2>1
<1>. QED
  BY <1>5

\* Min of it is that element.
LEMMA MinRight ==
  ASSUME NEW S, S \subseteq Nat, S # {}
  PROVE  Min(S) \in S /\ \A k \in S : Min(S) <= k
<1>1. PICK m \in S : \A k \in S : m <= k
  BY Smallest
<1>. QED
  BY <1>1 DEF Min

\* A bounded set of integers has a largest element, and Max is that one.
LEMMA MaxRight ==
  ASSUME NEW B \in Int, NEW S, S \subseteq Int, S # {}, \A k \in S : k <= B
  PROVE  Max(S) \in S /\ \A k \in S : Max(S) >= k
<1>. DEFINE T == {B - k : k \in S}
<1>0. \A k \in S : B - k \in Nat
  OBVIOUS
<1>1. T \subseteq Nat /\ T # {}
  BY <1>0
<1>2. PICK m \in T : \A k \in T : m <= k
  BY <1>1, Smallest
<1>3. PICK x \in S : m = B - x
  OBVIOUS
<1>4. \A k \in S : x >= k
  <2>. TAKE k \in S
  <2>1. m <= B - k
    BY <1>2
  <2>. QED
    BY <1>3, <2>1
<1>. QED
  BY <1>4 DEF Max

\* Division finds the row and the column again.
LEMMA Digits ==
  ASSUME NEW K \in Nat \ {0}, NEW x \in 0 .. K - 1, NEW y \in Int
  PROVE  (x + y * K) \div K = y /\ (x + y * K) % K = x
  OBVIOUS

\* A number is made of its quotient and its remainder.
LEMMA Quotient ==
  ASSUME NEW K \in Nat \ {0}, NEW a \in Nat
  PROVE  a = (a % K) + (a \div K) * K /\ a % K \in 0 .. K - 1 /\ a \div K \in Nat
  OBVIOUS

-----------------------------------------------------------------------------
(* The platform *)

GoodChips(chips) == chips \in {Found(file) : file \in Readable} \cup {{Device}, {PalChip}}

\* The box of e_init holds the chips, and lies in the address space.
LEMMA BoxHolds ==
  ASSUME NEW chips, GoodChips(chips)
  PROVE  /\ Box(chips).row \in Nat /\ Box(chips).col \in Nat /\ Box(chips).rows \in Int /\ Box(chips).cols \in Int
         /\ Box(chips).row + Box(chips).rows <= IdCols /\ Box(chips).col + Box(chips).cols <= IdCols
         /\ \A c \in chips : c.row >= Box(chips).row /\ c.row + c.rows <= Box(chips).row + Box(chips).rows
                             /\ c.col >= Box(chips).col /\ c.col + c.cols <= Box(chips).col + Box(chips).cols
<1>. DEFINE R == {c.row : c \in chips}  K == {c.col : c \in chips}
            Re == {(c.row + c.rows) - 1 : c \in chips}  Ce == {(c.col + c.cols) - 1 : c \in chips}
<1>1. /\ chips # {} /\ IdCols \in Nat
      /\ \A c \in chips : /\ c.row \in Nat /\ c.col \in Nat /\ c.rows \in Nat /\ c.cols \in Nat
                          /\ c.row + c.rows <= IdCols /\ c.col + c.cols <= IdCols
  BY DeviceAssumption, LayoutAssumption DEF GoodChips
<1>2. R \subseteq Nat /\ R # {} /\ K \subseteq Nat /\ K # {}
  BY <1>1
<1>3. Re \subseteq Int /\ Re # {} /\ \A k \in Re : k <= IdCols - 1
  BY <1>1
<1>4. Ce \subseteq Int /\ Ce # {} /\ \A k \in Ce : k <= IdCols - 1
  BY <1>1
<1>5. IdCols - 1 \in Int
  BY <1>1
<1>. DEFINE r == Min(R)  k == Min(K)  re == Max(Re)  ke == Max(Ce)
<1>6. r \in R /\ (\A x \in R : r <= x) /\ k \in K /\ (\A x \in K : k <= x)
  BY <1>2, MinRight
<1>7. re \in Re /\ (\A x \in Re : re >= x)
  BY <1>3, <1>5, MaxRight
<1>8. ke \in Ce /\ (\A x \in Ce : ke >= x)
  BY <1>4, <1>5, MaxRight
<1>9. Box(chips) = [row |-> r, col |-> k, rows |-> re - r + 1, cols |-> ke - k + 1]
  BY DEF Box
<1>. HIDE DEF r, k, re, ke
<1>10. /\ r \in Nat /\ k \in Nat /\ re \in Int /\ ke \in Int /\ re <= IdCols - 1 /\ ke <= IdCols - 1
  BY <1>2, <1>3, <1>4, <1>6, <1>7, <1>8
<1>11. ASSUME NEW c \in chips
       PROVE  c.row >= r /\ c.col >= k /\ (c.row + c.rows) - 1 <= re /\ (c.col + c.cols) - 1 <= ke
  BY <1>1, <1>6, <1>7, <1>8, <1>10
<1>12. \A c \in chips : c.row >= r /\ c.row + c.rows <= r + (re - r + 1)
                        /\ c.col >= k /\ c.col + c.cols <= k + (ke - k + 1)
  BY <1>1, <1>10, <1>11
<1>13. /\ r + (re - r + 1) <= IdCols /\ k + (ke - k + 1) <= IdCols /\ re - r + 1 \in Int /\ ke - k + 1 \in Int
  BY <1>1, <1>10
<1>. QED
  BY <1>9, <1>10, <1>12, <1>13

\* The box of one chip is that chip.
LEMMA BoxOfOne ==
  ASSUME NEW c, GoodChips({c})
  PROVE  Box({c}).row = c.row /\ Box({c}).col = c.col /\ Box({c}).rows = c.rows /\ Box({c}).cols = c.cols
<1>1. c.row \in Nat /\ c.col \in Nat /\ c.rows \in Nat /\ c.cols \in Nat
  BY DeviceAssumption DEF GoodChips
<1>2. ASSUME NEW x \in Int PROVE Min({x}) = x /\ Max({x}) = x
  BY DEF Min, Max
<1>3. /\ {d.row : d \in {c}} = {c.row} /\ {d.col : d \in {c}} = {c.col}
      /\ {(d.row + d.rows) - 1 : d \in {c}} = {(c.row + c.rows) - 1}
      /\ {(d.col + d.cols) - 1 : d \in {c}} = {(c.col + c.cols) - 1}
  OBVIOUS
<1>4. /\ Min({c.row}) = c.row /\ Min({c.col}) = c.col
      /\ Max({(c.row + c.rows) - 1}) = (c.row + c.rows) - 1 /\ Max({(c.col + c.cols) - 1}) = (c.col + c.cols) - 1
  <2>1. c.row \in Int /\ c.col \in Int /\ (c.row + c.rows) - 1 \in Int /\ (c.col + c.cols) - 1 \in Int
    BY <1>1
  <2>. QED
    BY <1>2, <2>1
<1>5. Box({c}) = [row |-> c.row, col |-> c.col, rows |-> (c.row + c.rows) - 1 - c.row + 1,
                  cols |-> (c.col + c.cols) - 1 - c.col + 1]
  BY <1>3, <1>4 DEF Box
<1>. QED
  BY <1>1, <1>5

-----------------------------------------------------------------------------
(* The cores of a group *)

Group(g) ==
  /\ g.row \in Nat /\ g.col \in Nat /\ g.rows \in Nat /\ g.cols \in Nat
  /\ g.col + g.cols <= IdCols

\* The identifier of a core gives its row and column.
LEMMA IdRight ==
  ASSUME NEW g, Group(g), NEW r \in Rows(g), NEW c \in Cols(g), NEW id, id = ee_get_id_from_coords(g, r, c)
  PROVE  id \in Nat /\ id \div IdCols = g.row + r /\ id % IdCols = g.col + c
<1>. DEFINE x == g.col + c  y == g.row + r
<1>0. IdCols \in Nat \ {0}
  BY LayoutAssumption
<1>1. x \in 0 .. IdCols - 1 /\ y \in Nat /\ IdCols \in Nat \ {0}
  BY <1>0 DEF Group, Rows, Cols
<1>2. id = x + y * IdCols
  BY DEF ee_get_id_from_coords
<1>. HIDE DEF x, y
<1>3. id \in Nat /\ id \div IdCols = y /\ id % IdCols = x
  BY <1>1, <1>2, Digits
<1>. QED
  BY <1>3 DEF x, y

\* The four ways to name a core agree.
LEMMA NamesAgree ==
  ASSUME NEW g, Group(g), NEW r \in Rows(g), NEW c \in Cols(g), NEW id, id = ee_get_id_from_coords(g, r, c)
  PROVE  /\ e_is_addr_on_group(g, id) /\ ee_get_coords_from_id(g, id) = [row |-> r, col |-> c]
         /\ ee_get_num_from_id(g, id) = e_get_num_from_coords(g, r, c)
         /\ ee_get_id_from_num(g, ee_get_num_from_id(g, id)) = id
         /\ e_get_coords_from_num(g, ee_get_num_from_id(g, id)) = [row |-> r, col |-> c]
<1>1. id \div IdCols = g.row + r /\ id % IdCols = g.col + c
  BY IdRight
<1>2. /\ r \in 0 .. g.rows - 1 /\ c \in 0 .. g.cols - 1 /\ g.rows \in Nat /\ g.cols \in Nat \ {0}
      /\ g.row \in Nat /\ g.col \in Nat
  BY DEF Group, Rows, Cols
<1>3. (id \div IdCols) - g.row = r /\ (id % IdCols) - g.col = c
  BY <1>1, <1>2
<1>4. ee_get_coords_from_id(g, id) = [row |-> r, col |-> c]
  BY <1>3 DEF ee_get_coords_from_id
<1>5. ee_get_num_from_id(g, id) = c + r * g.cols
  BY <1>3 DEF ee_get_num_from_id
<1>6. (c + r * g.cols) \div g.cols = r /\ (c + r * g.cols) % g.cols = c
  <2>1. r \in Int
    BY <1>2
  <2>. QED
    BY <1>2, <2>1, Digits
<1>7. e_is_addr_on_group(g, id)
  BY <1>2, <1>4 DEF e_is_addr_on_group
<1>8. ee_get_id_from_num(g, c + r * g.cols) = id
  BY <1>6 DEF ee_get_id_from_num, ee_get_id_from_coords
<1>9. e_get_coords_from_num(g, c + r * g.cols) = [row |-> r, col |-> c]
  BY <1>6 DEF e_get_coords_from_num
<1>. QED
  BY <1>4, <1>5, <1>7, <1>8, <1>9 DEF e_get_num_from_coords

\* A core with an identifier on a group has its coordinates in the group.
LEMMA OnGroupCoords ==
  ASSUME NEW g, Group(g), NEW id \in Nat, e_is_addr_on_group(g, id), NEW xy, xy = ee_get_coords_from_id(g, id)
  PROVE  xy.row \in Rows(g) /\ xy.col \in Cols(g) /\ ee_get_id_from_coords(g, xy.row, xy.col) = id
<1>1. xy.row \in Rows(g) /\ xy.col \in Cols(g)
  BY DEF e_is_addr_on_group, Rows, Cols
<1>2. xy.row = (id \div IdCols) - g.row /\ xy.col = (id % IdCols) - g.col
  BY DEF ee_get_coords_from_id
<1>0. IdCols \in Nat \ {0}
  BY LayoutAssumption
<1>3. id = (id % IdCols) + (id \div IdCols) * IdCols /\ id % IdCols \in Nat /\ id \div IdCols \in Nat
  <2>1. id = (id % IdCols) + (id \div IdCols) * IdCols /\ id % IdCols \in 0 .. IdCols - 1 /\ id \div IdCols \in Nat
    BY <1>0, Quotient
  <2>2. 0 .. IdCols - 1 \subseteq Nat
    BY <1>0
  <2>. QED
    BY <2>1, <2>2
<1>. DEFINE m == id % IdCols  d == id \div IdCols
<1>4. g.col + xy.col = m /\ g.row + xy.row = d
  <2>. HIDE DEF m, d
  <2>1. m \in Nat /\ d \in Nat /\ xy.row = d - g.row /\ xy.col = m - g.col
    BY <1>2, <1>3 DEF m, d
  <2>. QED
    BY <2>1 DEF Group
<1>. QED
  BY <1>1, <1>3, <1>4 DEF ee_get_id_from_coords

\* What is known of a platform that is there.
LEMMA PlatformKnown ==
  ASSUME Known, plat.init
  PROVE  /\ target \in Targets /\ plat.chips \in OnTarget /\ GoodChips(plat.chips)
         /\ plat.row = Box(plat.chips).row /\ plat.col = Box(plat.chips).col
         /\ plat.rows = Box(plat.chips).rows /\ plat.cols = Box(plat.chips).cols
<1>1. plat # NoPlat
  BY DEF NoPlat
<1>2. target \in Targets
  BY <1>1 DEF Known
<1>3. PICK chips \in OnTarget : plat = Platform(chips)
  BY <1>1 DEF Known
<1>4. /\ plat.chips = chips /\ plat.row = Box(chips).row /\ plat.col = Box(chips).col
      /\ plat.rows = Box(chips).rows /\ plat.cols = Box(chips).cols
  BY <1>3 DEF Platform
<1>5. GoodChips(chips)
  BY <1>3 DEF OnTarget, GoodChips
<1>. QED
  BY <1>2, <1>3, <1>4, <1>5

\* And of a group that is open.
LEMMA GroupKnown ==
  ASSUME Known, Within, dev.open
  PROVE  /\ plat.init /\ Group(dev)
         /\ plat.row \in Nat /\ plat.col \in Nat /\ plat.rows \in Int /\ plat.cols \in Int
         /\ plat.row <= dev.row /\ dev.row + dev.rows <= plat.row + plat.rows
         /\ plat.col <= dev.col /\ dev.col + dev.cols <= plat.col + plat.cols
<1>1. dev # Closed
  BY DEF Closed
<1>2. /\ plat.init /\ dev.row \in Nat /\ dev.col \in Nat /\ dev.rows \in Nat /\ dev.cols \in Nat
      /\ plat.row <= dev.row /\ dev.row + dev.rows <= plat.row + plat.rows
      /\ plat.col <= dev.col /\ dev.col + dev.cols <= plat.col + plat.cols
  BY <1>1 DEF Within
<1>3. /\ GoodChips(plat.chips) /\ plat.row = Box(plat.chips).row /\ plat.col = Box(plat.chips).col
      /\ plat.rows = Box(plat.chips).rows /\ plat.cols = Box(plat.chips).cols
  BY <1>2, PlatformKnown
<1>4. /\ plat.row \in Nat /\ plat.col \in Nat /\ plat.rows \in Int /\ plat.cols \in Int
      /\ plat.col + plat.cols <= IdCols
  BY <1>3, BoxHolds
<1>5. IdCols \in Nat
  BY LayoutAssumption
<1>. QED
  BY <1>2, <1>4, <1>5 DEF Group

\* The simulator and PAL have the cores of the group.
LEMMA CoreThere ==
  ASSUME Known, Within, dev.open, ~Native, NEW r \in Rows(dev), NEW c \in Cols(dev)
  PROVE  ee_get_id_from_coords(dev, r, c) \in DeviceIds
<1>1. /\ plat.init /\ Group(dev)
      /\ plat.row <= dev.row /\ dev.row + dev.rows <= plat.row + plat.rows
      /\ plat.col <= dev.col /\ dev.col + dev.cols <= plat.col + plat.cols
  BY GroupKnown
<1>2. /\ plat.chips \in OnTarget /\ GoodChips(plat.chips)
      /\ plat.row = Box(plat.chips).row /\ plat.col = Box(plat.chips).col
      /\ plat.rows = Box(plat.chips).rows /\ plat.cols = Box(plat.chips).cols
  BY <1>1, PlatformKnown
<1>3. PICK k \in {Device, PalChip} : plat.chips = {k}
  BY <1>2 DEF OnTarget
<1>4. plat.row = k.row /\ plat.col = k.col /\ plat.rows = k.rows /\ plat.cols = k.cols
  BY <1>2, <1>3, BoxOfOne
<1>5. /\ Device.row \in Nat /\ Device.col \in Nat /\ Device.rows \in Nat /\ Device.cols \in Nat
      /\ PalChip.rows \in Nat /\ PalChip.cols \in Nat
      /\ PalChip.rows <= Device.rows /\ PalChip.cols <= Device.cols
  BY DeviceAssumption
<1>6. PalChip.row = Device.row /\ PalChip.col = Device.col
  BY DEF PalChip, ChipParams
<1>7. k.row = Device.row /\ k.col = Device.col /\ k.rows <= Device.rows /\ k.cols <= Device.cols
      /\ k.rows \in Nat /\ k.cols \in Nat
  BY <1>5, <1>6
<1>. DEFINE x == dev.row - Device.row + r  y == dev.col - Device.col + c
<1>8. /\ r \in Nat /\ c \in Nat /\ r < dev.rows /\ c < dev.cols
      /\ dev.row \in Nat /\ dev.col \in Nat /\ dev.rows \in Nat /\ dev.cols \in Nat
  BY <1>1 DEF Rows, Cols, Group
<1>9. x \in 0 .. Device.rows - 1 /\ y \in 0 .. Device.cols - 1
  BY <1>1, <1>4, <1>5, <1>7, <1>8
<1>10. Device.row + x = dev.row + r /\ Device.col + y = dev.col + c
  BY <1>5, <1>8
<1>11. ee_get_id_from_coords(Device, x, y) = ee_get_id_from_coords(dev, r, c)
  BY <1>10 DEF ee_get_id_from_coords
<1>. QED
  BY <1>9, <1>11 DEF DeviceIds

-----------------------------------------------------------------------------
(* Words *)

\* An address in a window gives the core and the offset.
LEMMA WindowRight ==
  ASSUME NEW id \in Nat, NEW o \in 0 .. Window - 1
  PROVE  /\ id * Window + o \in Nat /\ id * Window + o = Window * id + o
         /\ (id * Window + o) \div Window = id /\ (id * Window + o) % Window = o
<1>1. Window \in Nat \ {0}
  BY LayoutAssumption
<1>2. (o + id * Window) \div Window = id /\ (o + id * Window) % Window = o
  BY <1>1, Digits
<1>3. id * Window \in Nat /\ id * Window = Window * id
  BY <1>1
<1>. DEFINE b == id * Window
<1>4. b + o = o + b
  BY <1>1, <1>3
<1>. QED
  BY <1>1, <1>2, <1>3, <1>4

\* The memory of a core that is there is words.
LEMMA SramThere ==
  ASSUME NEW id \in DeviceIds, id \in Nat, NEW a \in Nat, NEW n \in Nat, a + n <= Sram
  PROVE  Range(Span(Window * id + a, n)) \subseteq Words
<1>1. Window \in Nat /\ Sram \in Nat
  BY LayoutAssumption
<1>. DEFINE b == Window * id
<1>2. b \in Nat /\ id * Window = b
  BY <1>1
<1>3. ASSUME NEW i \in 1 .. n PROVE (b + a + i) - 1 \in Words
  <2>1. (a + i) - 1 \in 0 .. Sram - 1 /\ (b + a + i) - 1 = id * Window + ((a + i) - 1)
    BY <1>1, <1>2
  <2>2. (b + a + i) - 1 \in CoreWords(id)
    BY <2>1 DEF CoreWords
  <2>. QED
    BY <2>2 DEF Words
<1>. QED
  BY <1>3 DEF Range, Span

\* The registers of a core that is there are words.
LEMMA RegThere ==
  ASSUME NEW id \in DeviceIds, id \in Nat, NEW o \in 0 .. Regs - 1
  PROVE  Range(<<Window * id + RegR0 + o>>) \subseteq Words
<1>1. Window \in Nat /\ RegR0 \in Nat /\ Regs \in Nat
  BY LayoutAssumption
<1>. DEFINE b == Window * id
<1>2. b \in Nat /\ id * Window = b
  BY <1>1
<1>3. b + RegR0 + o \in CoreWords(id)
  BY <1>1, <1>2 DEF CoreWords
<1>4. b + RegR0 + o \in Words
  BY <1>3 DEF Words
<1>. HIDE DEF b
<1>5. Range(<<b + RegR0 + o>>) = {b + RegR0 + o}
  BY DEF Range
<1>. QED
  BY <1>4, <1>5 DEF b

\* The external memory is words.
LEMMA MemThere ==
  ASSUME NEW a \in Nat, NEW n \in Nat, a + n <= ESize
  PROVE  Range(Span(EBase + a, n)) \subseteq Words
<1>1. EBase \in Nat /\ ESize \in Nat
  BY LayoutAssumption
<1>2. ASSUME NEW i \in 1 .. n PROVE (EBase + a + i) - 1 \in Words
  <2>1. (EBase + a + i) - 1 \in EBase .. EBase + ESize - 1
    BY <1>1
  <2>2. EBase .. EBase + ESize - 1 \subseteq Words
    BY DEF Words
  <2>. QED
    BY <2>1, <2>2
<1>. QED
  BY <1>2 DEF Range, Span

-----------------------------------------------------------------------------
(* Every route ends at the words that are meant *)

\* The three targets.
LEMMA OneTarget ==
  ASSUME target \in Targets
  PROVE  \/ Native
         \/ ~Native /\ target = "esim" /\ target # "pal"
         \/ ~Native /\ target = "pal" /\ target # "esim"
  BY LayoutAssumption DEF Native

\* The memory of a core.
LEMMA BufRight ==
  ASSUME Known, Within, dev.open, NEW r \in Rows(dev), NEW c \in Cols(dev), NEW a \in Nat, NEW n \in Nat, a + n <= Sram
  PROVE  BufWords(dev, r, c, a, n) = Span(CoreAt(dev, r, c) + a, n)
<1>. DEFINE id == ee_get_id_from_coords(dev, r, c)
<1>1. target \in Targets /\ Group(dev)
  BY GroupKnown, PlatformKnown
<1>2. Window \in Nat /\ Sram \in Nat /\ RegR0 \in Nat /\ Regs \in Nat /\ Sram < RegR0 /\ RegR0 + Regs <= Window
  BY LayoutAssumption
<1>3. CoreAt(dev, r, c) = Window * id
  BY DEF CoreAt
<1>4. CASE Native
  <2>1. ~(a + n > Sram)
    BY <1>2
  <2>. QED
    BY <1>4, <2>1 DEF BufWords, ee_read_buf_native, Native
<1>5. CASE ~Native
  <2>1. id \in DeviceIds /\ id \in Nat
    BY <1>1, <1>5, CoreThere, IdRight
  <2>2. Checked(Span(Window * id + a, n)) = Span(Window * id + a, n)
    BY <2>1, SramThere DEF Checked
  <2>3. CASE n = 0
    <3>1. ASSUME NEW x PROVE Checked(Span(x, n)) = <<>> /\ Span(x, n) = <<>>
      BY <2>3 DEF Checked, Span, None, Range
    <3>. QED
      BY <1>1, <1>5, <3>1, OneTarget DEF BufWords, ee_read_buf_esim, pal_read_buf
  <2>4. CASE n # 0
    <3>1. a % Window = a
      <4>1. a \in 0 .. Window - 1
        BY <1>2, <2>4
      <4>. QED
        BY <1>2, <4>1
    <3>. QED
      BY <1>1, <1>3, <1>5, <2>2, <3>1, OneTarget DEF BufWords, ee_read_buf_esim, pal_read_buf
  <2>. QED
    BY <2>3, <2>4
<1>. QED
  BY <1>4, <1>5

\* A register of a core, by its place in the window or among the registers.
LEMMA RegRight ==
  ASSUME Known, Within, dev.open, NEW r \in Rows(dev), NEW c \in Cols(dev),
         NEW a \in (0 .. Regs - 1) \cup (RegR0 .. RegR0 + Regs - 1)
  PROVE  RegWord(dev, r, c, a) = <<CoreAt(dev, r, c) + (IF a < RegR0 THEN a + RegR0 ELSE a)>>
<1>. DEFINE id == ee_get_id_from_coords(dev, r, c)
            o == IF a < RegR0 THEN a ELSE a - RegR0
<1>1. target \in Targets /\ Group(dev)
  BY GroupKnown, PlatformKnown
<1>2. Window \in Nat \ {0} /\ Sram \in Nat /\ RegR0 \in Nat /\ Regs \in Nat /\ Sram < RegR0 /\ RegR0 + Regs <= Window
      /\ RegR0 % (Window - RegR0) = 0 /\ Regs # 0
  BY LayoutAssumption
<1>3. CoreAt(dev, r, c) = Window * id /\ id \in Nat /\ Window * id \in Nat
  BY <1>1, <1>2, IdRight DEF CoreAt
<1>. HIDE DEF id
<1>4. o \in 0 .. Regs - 1 /\ (IF a < RegR0 THEN a + RegR0 ELSE a) = RegR0 + o /\ o + 1 <= Regs
  BY <1>2
<1>5. CASE Native
  <2>1. (IF a >= RegR0 THEN a - RegR0 ELSE a) = o
    BY <1>2
  <2>2. ~(o + 1 > Regs)
    BY <1>2, <1>4
  <2>3. ee_read_reg_native(dev, r, c, a) = <<CoreAt(dev, r, c) + RegR0 + o>>
    BY <2>1, <2>2 DEF ee_read_reg_native
  <2>4. CoreAt(dev, r, c) + RegR0 + o = CoreAt(dev, r, c) + (RegR0 + o)
    BY <1>2, <1>3, <1>4
  <2>. QED
    BY <1>4, <1>5, <2>3, <2>4 DEF RegWord, Native
<1>6. CASE ~Native
  <2>1. id \in DeviceIds
    BY <1>6, CoreThere DEF id
  <2>2. Checked(<<Window * id + RegR0 + o>>) = <<Window * id + RegR0 + o>>
    BY <1>3, <1>4, <2>1, RegThere DEF Checked
  <2>3. Window * id + RegR0 + o = Window * id + (RegR0 + o)
    BY <1>2, <1>3, <1>4
  <2>4. CASE target = "esim"
    BY <1>3, <1>4, <1>6, <2>2, <2>3, <2>4 DEF RegWord, ee_read_reg_esim
  <2>5. CASE target = "pal"
    <3>. DEFINE K == Window - RegR0
    <3>1. a \in 0 .. Window - 1 /\ K \in Nat \ {0} /\ o \in 0 .. K - 1
      BY <1>2, <1>4
    <3>2. a % Window = a
      BY <1>2, <3>1
    <3>3. a % K = o
      <4>1. CASE a < RegR0
        BY <3>1, <4>1
      <4>2. CASE ~(a < RegR0)
        <5>1. RegR0 = (RegR0 % K) + (RegR0 \div K) * K /\ RegR0 \div K \in Nat
          BY <1>2, <3>1, Quotient
        <5>2. a = o + (RegR0 \div K) * K
          <6>. DEFINE m == (RegR0 \div K) * K
          <6>1. RegR0 = m
            BY <1>2, <5>1
          <6>2. a = o + RegR0
            BY <1>2, <4>2
          <6>. QED
            BY <6>1, <6>2
        <5>3. (o + (RegR0 \div K) * K) % K = o
          <6>1. RegR0 \div K \in Int
            BY <5>1
          <6>. HIDE DEF K, o
          <6>. QED
            BY <3>1, <6>1, Digits
        <5>. QED
          BY <5>2, <5>3
      <4>. QED
        BY <4>1, <4>2
    <3>4. pal_read_reg(dev, r, c, a) = <<Window * id + RegR0 + o>>
      BY <1>3, <2>2, <3>2, <3>3 DEF pal_read_reg
    <3>. QED
      BY <1>3, <1>4, <1>6, <2>3, <2>5, <3>4 DEF RegWord
  <2>. QED
    BY <1>1, <1>6, <2>4, <2>5, OneTarget
<1>. QED
  BY <1>5, <1>6

\* A buffer of external memory that begins on a page, or is mapped by the driver.
LEMMA MapRight ==
  ASSUME target \in Targets, NEW b, b.off \in Nat, b.size \in Nat, b.off + b.size <= ESize,
         Native \/ PageOffset(b) = 0,
         NEW a \in Nat, NEW n \in Nat, a + n <= b.size
  PROVE  MapWords(b, a, n) = Span(EBase + b.off + a, n)
<1>1. EBase \in Nat /\ ESize \in Nat /\ PBase \in Nat /\ Page \in Nat \ {0}
  BY LayoutAssumption
<1>2. PageOffset(b) \in Nat
  BY <1>1 DEF PageOffset, Phys
<1>3. ~(a < 0 \/ a + n > b.size + PageOffset(b))
  BY <1>2
<1>4. CASE Native
  BY <1>3, <1>4 DEF MapWords, ee_mread_buf_native, Native
<1>5. CASE ~Native
  <2>1. EBase + b.off + PageOffset(b) + a = EBase + b.off + a /\ EBase + (b.off + a) = EBase + b.off + a
        /\ ~(PageOffset(b) + a + n > b.size)
    BY <1>1, <1>5
  <2>2. b.off + a \in Nat /\ (b.off + a) + n <= ESize
    BY <1>1
  <2>3. Range(Span(EBase + (b.off + a), n)) \subseteq Words
    BY <2>2, MemThere
  <2>4. Checked(Span(EBase + b.off + a, n)) = Span(EBase + b.off + a, n)
    BY <2>1, <2>3 DEF Checked
  <2>5. CASE target = "esim"
    BY <1>5, <2>1, <2>4, <2>5 DEF MapWords, ee_mread_buf_esim
  <2>6. CASE target = "pal"
    BY <1>5, <2>1, <2>6 DEF MapWords, pal_mread_buf
  <2>. QED
    BY <1>5, <2>5, <2>6, OneTarget
<1>. QED
  BY <1>4, <1>5

\* Identifiers of the device are numbers.
LEMMA IdsAreNumbers == DeviceIds \subseteq Nat
<1>1. Device.row \in Nat /\ Device.col \in Nat /\ Device.rows \in Nat /\ Device.cols \in Nat /\ IdCols \in Nat
  BY DeviceAssumption, LayoutAssumption
<1>2. ASSUME NEW r \in 0 .. Device.rows - 1, NEW c \in 0 .. Device.cols - 1
      PROVE  ee_get_id_from_coords(Device, r, c) \in Nat
  <2>1. Device.row + r \in Nat /\ Device.col + c \in Nat
    BY <1>1
  <2>2. \A x, y \in Nat : x + y * IdCols \in Nat
    BY <1>1
  <2>. QED
    BY <2>1, <2>2 DEF ee_get_id_from_coords
<1>. QED
  BY <1>2 DEF DeviceIds

OfCore(x) == /\ x \in Nat /\ x \div Window \in DeviceIds /\ x % Window \in (0 .. Sram - 1) \cup (RegR0 .. RegR0 + Regs - 1)
             /\ x = Window * (x \div Window) + (x % Window)
OfMemory(x) == x \in EBase .. EBase + ESize - 1

\* A word is one of the external memory or one of a core, and never both.
LEMMA WordPlace ==
  ASSUME NEW x \in Words
  PROVE  OfMemory(x) \/ OfCore(x)
<1>1. /\ Window \in Nat \ {0} /\ Sram \in Nat /\ RegR0 \in Nat /\ Regs \in Nat
      /\ Sram < RegR0 /\ RegR0 + Regs <= Window
  BY LayoutAssumption
<1>2. CASE x \in EBase .. EBase + ESize - 1
  BY <1>2 DEF OfMemory
<1>3. CASE x \notin EBase .. EBase + ESize - 1
  <2>1. PICK id \in DeviceIds : x \in CoreWords(id)
    BY <1>3 DEF Words
  <2>2. PICK o \in (0 .. Sram - 1) \cup (RegR0 .. RegR0 + Regs - 1) : x = id * Window + o
    <3>1. x \in {id * Window + o : o \in 0 .. Sram - 1} \/ x \in {id * Window + RegR0 + o : o \in 0 .. Regs - 1}
      BY <2>1 DEF CoreWords
    <3>2. CASE x \in {id * Window + o : o \in 0 .. Sram - 1}
      BY <3>2
    <3>3. CASE x \in {id * Window + RegR0 + o : o \in 0 .. Regs - 1}
      <4>1. PICK o \in 0 .. Regs - 1 : x = id * Window + RegR0 + o
        BY <3>3
      <4>2. id * Window \in Nat
        BY <1>1, IdsAreNumbers
      <4>3. x = id * Window + (RegR0 + o) /\ RegR0 + o \in RegR0 .. RegR0 + Regs - 1
        BY <1>1, <4>1, <4>2
      <4>. QED
        BY <4>3
    <3>. QED
      BY <3>1, <3>2, <3>3
  <2>3. o \in 0 .. Window - 1 /\ id \in Nat
    BY <1>1, IdsAreNumbers
  <2>4. x \in Nat /\ x = Window * id + o /\ x \div Window = id /\ x % Window = o
    BY <2>2, <2>3, WindowRight
  <2>. QED
    BY <2>4 DEF OfCore
<1>. QED
  BY <1>2, <1>3

\* An address of the memory, as cores or as the host see it, is in no window of a core.
LEMMA NotOfCore ==
  ASSUME NEW x, External(x)
  PROVE  x \div Window \notin DeviceIds /\ ~OfCore(x)
  BY LayoutAssumption DEF External, Phys, OfCore

\* The whole platform is a group: what is on it is on a chip.
LEMMA WholeOnChip ==
  ASSUME Known, Within, Whole, NEW id \in DeviceIds, e_is_addr_on_group(dev, id)
  PROVE  e_is_addr_on_chip(plat.chips, id)
<1>1. dev.open /\ dev.rows = plat.rows /\ dev.cols = plat.cols
  BY DEF Whole
<1>2. /\ plat.init /\ Group(dev)
      /\ plat.row \in Nat /\ plat.col \in Nat /\ plat.rows \in Int /\ plat.cols \in Int
      /\ plat.row <= dev.row /\ dev.row + dev.rows <= plat.row + plat.rows
      /\ plat.col <= dev.col /\ dev.col + dev.cols <= plat.col + plat.cols
  BY <1>1, GroupKnown
<1>3. dev.row = plat.row /\ dev.col = plat.col
  BY <1>1, <1>2 DEF Group
<1>4. /\ GoodChips(plat.chips) /\ plat.row = Box(plat.chips).row /\ plat.col = Box(plat.chips).col
      /\ plat.rows = Box(plat.chips).rows /\ plat.cols = Box(plat.chips).cols
  BY <1>2, PlatformKnown
<1>5. e_is_addr_on_group(Box(plat.chips), id)
  BY <1>1, <1>3, <1>4 DEF e_is_addr_on_group, ee_get_coords_from_id
<1>. QED
  BY <1>4, <1>5, DeviceAssumption DEF GoodChips

\* A word of a core of the group, by its absolute address.
LEMMA CoreWordRight ==
  ASSUME Known, Within, dev.open, NEW x \in Nat, NEW n \in Nat, x \div Window \in Nat,
         x = Window * (x \div Window) + (x % Window),
         e_is_addr_on_group(dev, x \div Window), NEW xy, xy = ee_get_coords_from_id(dev, x \div Window)
  PROVE  /\ xy.row \in Rows(dev) /\ xy.col \in Cols(dev) /\ CoreAt(dev, xy.row, xy.col) + (x % Window) = x
         /\ x % Window \in Nat
         /\ (x % Window) + n <= Sram => BufWords(dev, xy.row, xy.col, x % Window, n) = Span(x, n)
<1>1. Group(dev)
  BY GroupKnown
<1>2. xy.row \in Rows(dev) /\ xy.col \in Cols(dev) /\ ee_get_id_from_coords(dev, xy.row, xy.col) = x \div Window
  BY <1>1, OnGroupCoords
<1>3. CoreAt(dev, xy.row, xy.col) + (x % Window) = x
  BY <1>2 DEF CoreAt
<1>4. x % Window \in Nat
  BY LayoutAssumption
<1>. QED
  BY <1>2, <1>3, <1>4, BufRight

\* An address of the external memory, as the cores see it, is turned into an offset.
LEMMA ExternalRight ==
  ASSUME target \in Targets, NEW a, OfMemory(a), NEW n \in Nat, a + n <= EBase + ESize
  PROVE  MapWords(AllMem, AbsOffset(a), n) = Span(a, n)
<1>1. EBase \in Nat /\ ESize \in Nat /\ PBase \in Nat /\ EBase % Page = 0
  BY LayoutAssumption
<1>2. a \in Nat /\ a - EBase \in Nat /\ (a - EBase) + n <= ESize
  BY <1>1 DEF OfMemory
<1>3. AbsOffset(a) = a - EBase
  BY <1>1, <1>2 DEF AbsOffset, OfMemory, Phys
<1>4. Native \/ PageOffset(AllMem) = 0
  BY <1>1 DEF PageOffset, AllMem, Phys
<1>5. AllMem.off = 0 /\ AllMem.size = ESize
  BY DEF AllMem
<1>6. AllMem.off \in Nat /\ AllMem.size \in Nat /\ AllMem.off + AllMem.size <= ESize
      /\ (a - EBase) + n <= AllMem.size
  BY <1>1, <1>2, <1>5
<1>7. MapWords(AllMem, a - EBase, n) = Span(EBase + AllMem.off + (a - EBase), n)
  BY <1>2, <1>4, <1>6, MapRight
<1>8. EBase + AllMem.off + (a - EBase) = a
  BY <1>1, <1>2, <1>5
<1>. QED
  BY <1>3, <1>7, <1>8

\* The server's addresses, read (step 1) or written (step 0).
LEMMA AbsRight ==
  ASSUME Known, Within, Whole, NEW a, NEW n \in {1, 2}, NEW step \in {0, 1},
         a >= Window, Range(Span(a, n)) \subseteq Words, a \in Words, a \div Window = ((a + n) - 1) \div Window,
         External(a) \/ e_is_addr_on_group(dev, a \div Window),
         ~(n > 1 /\ a % Window >= RegR0 /\ ~External(a))
  PROVE  AbsWords(a, n, step) = Span(a, n)
<1>1. /\ Window \in Nat \ {0} /\ Sram \in Nat /\ RegR0 \in Nat /\ Regs \in Nat /\ Sram < RegR0
      /\ EBase \in Nat /\ ESize \in Nat /\ PBase \in Nat /\ EBase % Page = 0
  BY LayoutAssumption
<1>2. dev.open /\ plat.init /\ target \in Targets
  BY GroupKnown, PlatformKnown DEF Whole
<1>3. a \in Nat
  BY <1>1, WordPlace DEF OfMemory, OfCore
<1>4. (a + n) - 1 \in Words
  <2>1. Span(a, n)[n] \in Range(Span(a, n)) /\ Span(a, n)[n] = (a + n) - 1
    BY DEF Span, Range
  <2>. QED
    BY <2>1
<1>5. CASE External(a)
  <2>1. OfMemory(a)
    BY <1>5, WordPlace, NotOfCore
  <2>2. ~OfCore((a + n) - 1)
    BY <1>5, NotOfCore DEF OfCore
  <2>3. OfMemory((a + n) - 1)
    BY <1>4, <2>2, WordPlace
  <2>4. a + n <= EBase + ESize
    BY <1>1, <1>3, <2>1, <2>3 DEF OfMemory
  <2>. QED
    BY <1>2, <1>5, <2>1, <2>4, ExternalRight DEF AbsWords
<1>6. CASE ~External(a)
  <2>. DEFINE id == a \div Window
              o == a % Window
              xy == ee_get_coords_from_id(dev, id)
  <2>1. OfCore(a) /\ e_is_addr_on_group(dev, id)
    BY <1>6, WordPlace DEF OfMemory, External
  <2>2. id \in DeviceIds /\ id \in Nat /\ a = Window * id + o
        /\ o \in (0 .. Sram - 1) \cup (RegR0 .. RegR0 + Regs - 1)
    BY <2>1, IdsAreNumbers DEF OfCore
  <2>3. e_is_addr_on_chip(plat.chips, id)
    BY <2>1, <2>2, WholeOnChip
  <2>4. /\ xy.row \in Rows(dev) /\ xy.col \in Cols(dev) /\ CoreAt(dev, xy.row, xy.col) + o = a
        /\ o + n <= Sram => BufWords(dev, xy.row, xy.col, o, n) = Span(a, n)
    BY <1>2, <1>3, <2>1, <2>2, CoreWordRight
  <2>5. AbsWords(a, n, step) =
          IF o < Sram THEN BufWords(dev, xy.row, xy.col, o, n)
          ELSE IF o < RegR0 THEN None
          ELSE [i \in 1 .. n |-> RegWord(dev, xy.row, xy.col, o + (i - 1) * step)[1]]
    BY <1>6, <2>3 DEF AbsWords
  <2>6. CASE o < Sram
    <3>1. o + n <= Sram
      <4>1. CASE n = 1
        BY <1>1, <2>2, <2>6, <4>1
      <4>2. CASE n = 2
        <5>1. a + 1 \in Words /\ (a + 1) \div Window = id
          <6>1. (a + 2) - 1 = a + 1
            BY <1>3
          <6>. QED
            BY <1>4, <4>2, <6>1
        <5>2. ~External(a + 1)
          BY <2>2, <5>1, NotOfCore
        <5>3. OfCore(a + 1)
          BY <5>1, <5>2, WordPlace DEF OfMemory, External
        <5>. DEFINE p == (a + 1) % Window
        <5>4. p \in (0 .. Sram - 1) \cup (RegR0 .. RegR0 + Regs - 1) /\ a + 1 = Window * id + p
          BY <5>1, <5>3 DEF OfCore
        <5>5. p = o + 1
          <6>. DEFINE w == Window * id
          <6>1. w \in Nat /\ a = w + o /\ a + 1 = w + p
            BY <1>1, <2>2, <5>4
          <6>2. o \in Nat /\ p \in Nat
            BY <1>1, <2>2, <5>4
          <6>. HIDE DEF w, o, p
          <6>. QED
            BY <1>3, <6>1, <6>2
        <5>. QED
          BY <1>1, <2>2, <2>6, <4>2, <5>4, <5>5
      <4>. QED
        BY <4>1, <4>2
    <3>. QED
      BY <2>4, <2>5, <2>6, <3>1
  <2>7. CASE ~(o < Sram)
    <3>1. o \in RegR0 .. RegR0 + Regs - 1 /\ o >= RegR0
      BY <1>1, <2>2, <2>7
    <3>2. n = 1
      BY <1>6, <3>1
    <3>3. RegWord(dev, xy.row, xy.col, o) = <<CoreAt(dev, xy.row, xy.col) + o>>
      <4>1. (IF o < RegR0 THEN o + RegR0 ELSE o) = o
        BY <1>1, <3>1
      <4>. QED
        BY <1>2, <2>4, <3>1, <4>1, RegRight
    <3>4. ASSUME NEW i \in 1 .. n PROVE o + (i - 1) * step = o /\ (a + i) - 1 = a
      BY <1>1, <1>3, <3>1, <3>2
    <3>5. [i \in 1 .. n |-> RegWord(dev, xy.row, xy.col, o + (i - 1) * step)[1]] = Span(a, n)
      <4>1. ASSUME NEW i \in 1 .. n
            PROVE  RegWord(dev, xy.row, xy.col, o + (i - 1) * step)[1] = (a + i) - 1
        BY <2>4, <3>3, <3>4
      <4>. QED
        BY <4>1 DEF Span
    <3>. QED
      BY <1>1, <2>5, <2>7, <3>1, <3>5
  <2>. QED
    BY <2>6, <2>7
<1>. QED
  BY <1>5, <1>6

\* What requests look like.
LEMMA GroupRequest ==
  ASSUME NEW q \in OfGroup
  PROVE  /\ dev.open /\ q.r \in Rows(dev) /\ q.c \in Cols(dev)
         /\ \/ /\ q.op = "group" /\ q.a \in 0 .. Sram - 1 /\ q.n \in {1, 2} /\ q.a + q.n <= Sram
            \/ /\ q.op \in {"group", "reg"} /\ q.a \in RegR0 .. RegR0 + Regs - 1 /\ q.n = 1
            \/ /\ q.op = "reg" /\ q.a \in 0 .. Regs - 1 /\ q.n = 1
  BY DEF OfGroup, Request

\* Of a buffer.
LEMMA BufferRequest ==
  ASSUME NEW q \in OfBuffer
  PROVE  /\ buf.open /\ q.op \in {"map", "word"} /\ q.a \in 0 .. buf.size - 1 /\ q.n \in {1, 2}
         /\ q.a + q.n <= (IF q.op = "word" THEN q.a + 1 ELSE buf.size)
  BY DEF OfBuffer, Request

\* Of the server.
LEMMA ServerRequest ==
  ASSUME NEW q \in OfServer
  PROVE  /\ Whole /\ q.op = "abs" /\ q.a \in Words /\ q.n \in {1, 2}
         /\ q.a >= Window /\ Range(Span(q.a, q.n)) \subseteq Words /\ q.a \div Window = ((q.a + q.n) - 1) \div Window
         /\ External(q.a) \/ e_is_addr_on_group(dev, q.a \div Window)
  BY DEF OfServer, Request

\* One word is a span.
LEMMA SpanOfOne == ASSUME NEW x \in Int PROVE Span(x, 1) = <<x>>
<1>1. \A i \in 1 .. 1 : (x + i) - 1 = x
  OBVIOUS
<1>. QED
  BY <1>1 DEF Span

\* Every access that works goes, in order, to the words that are meant.
LEMMA RequestRight ==
  ASSUME Known, Within, Mapped, NEW q \in Requests, ~Avoided(q)
  PROVE  /\ WordsRead(q) = Meant(q) /\ WordsWritten(q) = Meant(q)
         /\ Len(Meant(q)) = q.n /\ ~(target = "pal" /\ q.op = "word")
<1>1. /\ Window \in Nat \ {0} /\ Sram \in Nat /\ RegR0 \in Nat /\ Regs \in Nat /\ Sram < RegR0
      /\ EBase \in Nat /\ ESize \in Nat
  BY LayoutAssumption
<1>2. ASSUME NEW x, NEW n \in Nat PROVE Len(Span(x, n)) = n
  BY DEF Span
<1>3. CASE q \in OfGroup
  <2>1. /\ dev.open /\ q.r \in Rows(dev) /\ q.c \in Cols(dev)
        /\ \/ /\ q.op = "group" /\ q.a \in 0 .. Sram - 1 /\ q.n \in {1, 2} /\ q.a + q.n <= Sram
           \/ /\ q.op \in {"group", "reg"} /\ q.a \in RegR0 .. RegR0 + Regs - 1 /\ q.n = 1
           \/ /\ q.op = "reg" /\ q.a \in 0 .. Regs - 1 /\ q.n = 1
    BY <1>3, GroupRequest
  <2>. DEFINE b == CoreAt(dev, q.r, q.c)
  <2>2. b \in Nat
    <3>1. ee_get_id_from_coords(dev, q.r, q.c) \in Nat
      BY <2>1, GroupKnown, IdRight
    <3>. QED
      BY <1>1, <3>1 DEF CoreAt
  <2>3. WordsWritten(q) = WordsRead(q)
    BY <2>1 DEF WordsWritten
  <2>4. CASE q.op = "group" /\ q.a \in 0 .. Sram - 1 /\ q.n \in {1, 2} /\ q.a + q.n <= Sram
    <3>1. WordsRead(q) = BufWords(dev, q.r, q.c, q.a, q.n)
      BY <2>4, <1>1 DEF WordsRead, GroupWords
    <3>2. q.a \in Nat /\ q.n \in Nat
      BY <2>4, <1>1
    <3>3. WordsRead(q) = Span(b + q.a, q.n)
      BY <2>1, <2>4, <3>1, <3>2, BufRight
    <3>4. Meant(q) = Span(b + q.a, q.n)
      BY <2>4 DEF Meant
    <3>. QED
      BY <1>2, <2>3, <2>4, <3>2, <3>3, <3>4
  <2>5. CASE q.op = "group" /\ q.a \in RegR0 .. RegR0 + Regs - 1 /\ q.n = 1
    <3>1. WordsRead(q) = RegWord(dev, q.r, q.c, q.a)
      BY <2>5, <1>1 DEF WordsRead, GroupWords
    <3>2. (IF q.a < RegR0 THEN q.a + RegR0 ELSE q.a) = q.a /\ q.a \in Nat
      BY <2>5, <1>1
    <3>3. WordsRead(q) = <<b + q.a>>
      BY <2>1, <2>5, <3>1, <3>2, RegRight
    <3>4. Meant(q) = Span(b + q.a, 1)
      BY <2>5 DEF Meant
    <3>5. Span(b + q.a, 1) = <<b + q.a>>
      BY <2>2, <3>2, SpanOfOne
    <3>. QED
      BY <1>2, <2>3, <2>5, <3>3, <3>4, <3>5
  <2>6. CASE q.op = "reg" /\ q.a \in (0 .. Regs - 1) \cup (RegR0 .. RegR0 + Regs - 1) /\ q.n = 1
    <3>1. WordsRead(q) = RegWord(dev, q.r, q.c, q.a)
      BY <2>6 DEF WordsRead
    <3>2. WordsRead(q) = <<b + (IF q.a < RegR0 THEN q.a + RegR0 ELSE q.a)>>
      BY <2>1, <2>6, <3>1, RegRight
    <3>3. Meant(q) = <<b + (IF q.a < RegR0 THEN q.a + RegR0 ELSE q.a)>>
      BY <2>6 DEF Meant
    <3>. QED
      BY <2>3, <2>6, <3>2, <3>3
  <2>. QED
    BY <2>1, <2>4, <2>5, <2>6
<1>4. CASE q \in OfBuffer
  <2>1. /\ buf.open /\ q.op \in {"map", "word"} /\ q.a \in 0 .. buf.size - 1 /\ q.n \in {1, 2}
        /\ q.a + q.n <= (IF q.op = "word" THEN q.a + 1 ELSE buf.size)
    BY <1>4, BufferRequest
  <2>2. plat.init /\ \E k \in Buffers : buf = [open |-> TRUE, off |-> k.off, size |-> k.size]
    BY <2>1 DEF Mapped, Closed
  <2>3. buf.off \in Nat /\ buf.size \in Nat /\ buf.off + buf.size <= ESize
    <3>1. PICK k \in Buffers : buf = [open |-> TRUE, off |-> k.off, size |-> k.size]
      BY <2>2
    <3>2. k.off \in Nat /\ k.size \in Nat /\ k.off + k.size <= ESize
      BY ClientAssumption
    <3>. QED
      BY <3>1, <3>2
  <2>4. target \in Targets
    BY <2>2, PlatformKnown
  <2>5. Native \/ PageOffset(buf) = 0
    BY <2>1 DEF Avoided
  <2>6. ~(target = "pal" /\ q.op = "word")
    BY DEF Avoided
  <2>7. q.a \in Nat /\ q.n \in Nat /\ q.a + q.n <= buf.size
    BY <2>1, <2>3
  <2>8. MapWords(buf, q.a, q.n) = Span(EBase + buf.off + q.a, q.n)
    BY <2>3, <2>4, <2>5, <2>7, MapRight
  <2>9. WordsRead(q) = MapWords(buf, q.a, q.n) /\ Meant(q) = Span(EBase + buf.off + q.a, q.n)
    BY <2>1 DEF WordsRead, Meant
  <2>10. CASE q.op = "word" /\ target = "esim"
    <3>1. q.n = 1
      BY <2>1, <2>7, <2>10
    <3>2. Checked(Span(EBase + (buf.off + q.a), 1)) = Span(EBase + (buf.off + q.a), 1)
      <4>1. buf.off + q.a \in Nat /\ (buf.off + q.a) + 1 <= ESize
        BY <1>1, <2>3, <2>7, <3>1
      <4>. QED
        BY <4>1, MemThere DEF Checked
    <3>3. EBase + (buf.off + q.a) = EBase + buf.off + q.a /\ EBase + buf.off + q.a \in Int
      BY <1>1, <2>3, <2>7
    <3>4. Span(EBase + buf.off + q.a, 1) = <<EBase + buf.off + q.a>>
      BY <3>3, SpanOfOne
    <3>5. ee_mwrite_word_esim(buf, q.a) = <<EBase + buf.off + q.a>>
      BY <3>2, <3>3, <3>4 DEF ee_mwrite_word_esim
    <3>6. WordsWritten(q) = ee_mwrite_word_esim(buf, q.a)
      BY <2>10 DEF WordsWritten
    <3>. QED
      BY <1>2, <2>6, <2>7, <2>8, <2>9, <3>1, <3>4, <3>5, <3>6
  <2>11. CASE ~(q.op = "word" /\ target = "esim")
    <3>1. WordsWritten(q) = WordsRead(q)
      BY <2>1, <2>11 DEF WordsWritten
    <3>. QED
      BY <1>2, <2>6, <2>7, <2>8, <2>9, <3>1
  <2>. QED
    BY <2>10, <2>11
<1>5. CASE q \in OfServer
  <2>1. /\ Whole /\ q.op = "abs" /\ q.a \in Words /\ q.n \in {1, 2}
        /\ q.a >= Window /\ Range(Span(q.a, q.n)) \subseteq Words /\ q.a \div Window = ((q.a + q.n) - 1) \div Window
        /\ External(q.a) \/ e_is_addr_on_group(dev, q.a \div Window)
    BY <1>5, ServerRequest
  <2>2. ~(q.n > 1 /\ q.a % Window >= RegR0 /\ ~External(q.a))
    BY <2>1 DEF Avoided
  <2>3. AbsWords(q.a, q.n, 1) = Span(q.a, q.n) /\ AbsWords(q.a, q.n, 0) = Span(q.a, q.n)
    BY <2>1, <2>2, AbsRight
  <2>4. WordsRead(q) = Span(q.a, q.n) /\ WordsWritten(q) = Span(q.a, q.n) /\ Meant(q) = Span(q.a, q.n)
    BY <2>1, <2>3 DEF WordsRead, WordsWritten, Meant, ee_read_abs, ee_write_abs
  <2>. QED
    BY <1>2, <2>1, <2>4
<1>. QED
  BY <1>3, <1>4, <1>5 DEF Requests

\* The data of a record goes to its addresses.
LEMMA SrecRight ==
  ASSUME Known, Within, dev.open, NEW r \in Rows(dev), NEW c \in Cols(dev), NEW file \in SrecFiles,
         NEW i \in Data(file), OnGroup(file.lines[i])
  PROVE  SrecWords(r, c, file.lines[i]) = SrecMeant(r, c, file.lines[i])
<1>. DEFINE rec == file.lines[i]
            id == rec.addr \div Window
            xy == ee_get_coords_from_id(dev, id)
<1>1. Window \in Nat \ {0} /\ Sram \in Nat /\ RegR0 \in Nat /\ Sram < RegR0 /\ RegR0 <= Window
  BY LayoutAssumption
<1>2. plat.init /\ target \in Targets /\ GoodChips(plat.chips)
  BY GroupKnown, PlatformKnown
<1>3. /\ rec.addr \in Nat /\ rec.n \in Nat
      /\ \/ rec.addr >= Window /\ rec.addr \in EBase .. EBase + ESize - 1 /\ rec.addr + rec.n <= EBase + ESize
         \/ rec.addr < Window /\ rec.addr + rec.n <= Sram
         \/ rec.addr >= Window /\ rec.addr \div Window \in DeviceIds /\ (rec.addr % Window) + rec.n <= Sram
  BY ClientAssumption
<1>4. CASE rec.addr < Window /\ rec.addr + rec.n <= Sram
  <2>1. SrecWords(r, c, rec) = BufWords(dev, r, c, rec.addr, rec.n)
    BY <1>1, <1>3, <1>4 DEF SrecWords
  <2>2. SrecMeant(r, c, rec) = Span(CoreAt(dev, r, c) + rec.addr, rec.n)
    BY <1>4 DEF SrecMeant
  <2>. QED
    BY <1>3, <1>4, <2>1, <2>2, BufRight
<1>5. CASE rec.addr >= Window /\ OfMemory(rec.addr) /\ rec.addr + rec.n <= EBase + ESize
  <2>1. ~e_is_addr_on_chip(plat.chips, id)
    BY <1>2, <1>5, DeviceAssumption DEF GoodChips, OfMemory
  <2>2. ~(rec.addr < Window)
    BY <1>1, <1>3, <1>5
  <2>3. SrecWords(r, c, rec) = MapWords(AllMem, AbsOffset(rec.addr), rec.n)
    BY <2>1, <2>2 DEF SrecWords
  <2>4. SrecMeant(r, c, rec) = Span(rec.addr, rec.n)
    BY <2>2 DEF SrecMeant
  <2>. QED
    BY <1>2, <1>3, <1>5, <2>3, <2>4, ExternalRight
<1>6. CASE rec.addr >= Window /\ rec.addr \div Window \in DeviceIds /\ (rec.addr % Window) + rec.n <= Sram
  <2>1. ~(rec.addr < Window)
    BY <1>1, <1>3, <1>6
  <2>2. ~OfMemory(rec.addr)
    BY <1>6, LayoutAssumption DEF OfMemory
  <2>3. e_is_addr_on_chip(plat.chips, id) /\ e_is_addr_on_group(dev, id)
    BY <2>1, <2>2 DEF OnGroup, OfMemory
  <2>4. SrecWords(r, c, rec) = BufWords(dev, xy.row, xy.col, rec.addr % Window, rec.n)
    BY <1>6, <2>1, <2>3 DEF SrecWords
  <2>5. SrecMeant(r, c, rec) = Span(rec.addr, rec.n)
    BY <2>1 DEF SrecMeant
  <2>6. rec.addr = Window * id + (rec.addr % Window)
    <3>1. rec.addr = (rec.addr % Window) + id * Window /\ rec.addr % Window \in Nat /\ id \in Nat
      <4>1. rec.addr = (rec.addr % Window) + id * Window /\ rec.addr % Window \in 0 .. Window - 1 /\ id \in Nat
        BY <1>1, <1>3, Quotient
      <4>2. 0 .. Window - 1 \subseteq Nat
        BY <1>1
      <4>. QED
        BY <4>1, <4>2
    <3>2. id * Window = Window * id /\ id * Window \in Nat
      BY <1>1, <3>1
    <3>. QED
      BY <1>3, <3>1, <3>2
  <2>7. BufWords(dev, xy.row, xy.col, rec.addr % Window, rec.n) = Span(rec.addr, rec.n)
    <3>1. ASSUME NEW x \in Nat, NEW n \in Nat, x \div Window \in Nat, x = Window * (x \div Window) + (x % Window),
                 e_is_addr_on_group(dev, x \div Window), NEW to, to = ee_get_coords_from_id(dev, x \div Window),
                 (x % Window) + n <= Sram
          PROVE  BufWords(dev, to.row, to.col, x % Window, n) = Span(x, n)
      BY <3>1, CoreWordRight
    <3>2. id \in Nat
      BY <1>6, IdsAreNumbers
    <3>. HIDE DEF rec
    <3>. QED
      BY <1>3, <1>6, <2>3, <2>6, <3>1, <3>2
  <2>. QED
    BY <2>4, <2>5, <2>7
<1>. QED
  BY <1>3, <1>4, <1>5, <1>6 DEF OfMemory

-----------------------------------------------------------------------------
(* What is held *)

UsedSet == [writes : Nat, faults : Nat, opens : Nat]
HeldSet == [tables : Int, conn : Int, fd : Int, maps : Int, arrays : Int]

\* A bound is used up, and faults are counted apart.
LEMMA UseRight ==
  ASSUME used \in UsedSet, NEW k \in {"writes", "faults", "opens"}, Use(k)
  PROVE  used' \in UsedSet /\ (k = "faults" => used'.faults # 0) /\ (k # "faults" => used'.faults = used.faults)
<1>1. used.writes \in Nat /\ used.faults \in Nat /\ used.opens \in Nat
      /\ used = [writes |-> used.writes, faults |-> used.faults, opens |-> used.opens]
  BY DEF UsedSet
<1>2. used' = [used EXCEPT ![k] = @ + 1]
  BY DEF Use
<1>3. CASE k = "writes"
  <2>1. used' = [writes |-> used.writes + 1, faults |-> used.faults, opens |-> used.opens]
    BY <1>1, <1>2, <1>3
  <2>. QED
    BY <1>1, <1>3, <2>1 DEF UsedSet
<1>4. CASE k = "faults"
  <2>1. used' = [writes |-> used.writes, faults |-> used.faults + 1, opens |-> used.opens]
    BY <1>1, <1>2, <1>4
  <2>. QED
    BY <1>1, <1>4, <2>1 DEF UsedSet
<1>5. CASE k = "opens"
  <2>1. used' = [writes |-> used.writes, faults |-> used.faults, opens |-> used.opens + 1]
    BY <1>1, <1>2, <1>5
  <2>. QED
    BY <1>1, <1>5, <2>1 DEF UsedSet
<1>. QED
  BY <1>3, <1>4, <1>5

\* What opening adds and closing takes.
LEMMA PlusRight ==
  ASSUME res \in HeldSet, NEW f \in Int, NEW g \in Int, NEW m \in Int, NEW sign \in {1, -1},
         NEW h, h = Plus([fd |-> f, arrays |-> g, maps |-> m], sign)
  PROVE  /\ h \in HeldSet /\ h.tables = res.tables /\ h.conn = res.conn
         /\ h.fd = res.fd + sign * f /\ h.arrays = res.arrays + sign * g /\ h.maps = res.maps + sign * m
<1>. DEFINE k == [tables |-> res.tables, conn |-> res.conn, fd |-> res.fd + sign * f,
                  maps |-> res.maps + sign * m, arrays |-> res.arrays + sign * g]
<1>1. res.tables \in Int /\ res.conn \in Int /\ res.fd \in Int /\ res.maps \in Int /\ res.arrays \in Int
      /\ DOMAIN res = {"tables", "conn", "fd", "maps", "arrays"}
  BY DEF HeldSet
<1>2. h = k
  BY <1>1 DEF Plus
<1>3. k \in HeldSet
  BY <1>1 DEF HeldSet
<1>. QED
  BY <1>2, <1>3

\* An open of the device alone.
LEMMA PlusDescriptor ==
  ASSUME res \in HeldSet, NEW h, h = Plus([fd |-> 1], 1)
  PROVE  h \in HeldSet
<1>. DEFINE k == [tables |-> res.tables, conn |-> res.conn, fd |-> res.fd + 1, maps |-> res.maps, arrays |-> res.arrays]
<1>1. res.tables \in Int /\ res.conn \in Int /\ res.fd \in Int /\ res.maps \in Int /\ res.arrays \in Int
      /\ DOMAIN res = {"tables", "conn", "fd", "maps", "arrays"}
  BY DEF HeldSet
<1>2. h = k
  BY <1>1 DEF Plus
<1>3. k \in HeldSet
  BY <1>1 DEF HeldSet
<1>. QED
  BY <1>2, <1>3

-----------------------------------------------------------------------------
(* The session *)

\* A group or a buffer that is not open is none, and without a platform there is none.
LEMMA NoneOpen ==
  ASSUME Within, Mapped
  PROVE  /\ ~dev.open \/ ~plat.init => dev = Closed
         /\ ~buf.open \/ ~plat.init => buf = Closed
<1>1. dev # Closed => plat.init /\ dev.open
  BY DEF Within
<1>2. buf # Closed => plat.init /\ buf.open
  BY DEF Mapped
<1>. QED
  BY <1>1, <1>2

\* The target and the platform stay.
LEMMA KnownStays ==
  ASSUME Known, target \in Targets, target' = target, plat' = plat, used' \in UsedSet, res' \in HeldSet
  PROVE  Known'
<1>1. OnTarget' = OnTarget
  BY DEF OnTarget, Native
<1>2. plat = NoPlat \/ (target \in Targets /\ \E chips \in OnTarget : plat = Platform(chips))
  BY DEF Known
<1>3. plat' = NoPlat \/ (target' \in Targets /\ \E chips \in OnTarget' : plat' = Platform(chips))
  BY <1>1, <1>2
<1>. QED
  BY <1>3 DEF Known, UsedSet, HeldSet

\* It begins as HInv says, with or without a target.
LEMMA SessionInit == ASSUME Init \/ NoSession PROVE HInv
<1>1. plat = NoPlat /\ dev = Closed /\ buf = Closed /\ mem = ideal /\ res = Nothing /\ ~plat.init /\ ~dev.open /\ ~buf.open
  BY DEF Init, NoSession, NoPlat, Closed
<1>2. /\ target \in Targets \/ (target = "none" /\ used.opens = MaxOpens)
      /\ used \in [writes : Nat, faults : Nat, opens : Nat]
  BY ClientAssumption DEF Init, NoSession
<1>3. res \in [tables : Int, conn : Int, fd : Int, maps : Int, arrays : Int]
  BY <1>1 DEF Nothing
<1>4. Held
  BY <1>1 DEF Held, If, Nothing
<1>. QED
  BY <1>1, <1>2, <1>3, <1>4 DEF HInv, Known, Within, Mapped, Same

\* e_init of the native target: a file that can be read, or a fault.
LEMMA InitNativeRight == ASSUME HInv, InitNative PROVE HInv'
<1>. DEFINE h == [tables |-> res.tables + 1, conn |-> res.conn, fd |-> res.fd, maps |-> res.maps, arrays |-> res.arrays]
<1>1. Native /\ ~plat.init /\ dev' = dev /\ buf' = buf /\ mem' = mem /\ ideal' = ideal /\ target' = target
      /\ res' = [res EXCEPT !.tables = @ + 1]
  BY DEF InitNative
<1>2. used \in UsedSet /\ res \in HeldSet
  BY DEF HInv, Known, UsedSet, HeldSet
<1>3. dev = Closed /\ buf = Closed /\ ~dev.open /\ ~buf.open
  <2>1. dev = Closed /\ buf = Closed
    BY <1>1, NoneOpen DEF HInv
  <2>. QED
    BY <2>1 DEF Closed
<1>4. h \in HeldSet /\ res' = h
  <2>1. res.tables \in Int /\ res.conn \in Int /\ res.fd \in Int /\ res.maps \in Int /\ res.arrays \in Int
    BY <1>2 DEF HeldSet
  <2>. QED
    BY <1>1, <1>2, <2>1 DEF HeldSet
<1>5. target \in Targets /\ target # "pal"
  BY <1>1 DEF HInv, Known, Native
<1>6. PICK file \in HdfFiles :
         /\ ~ee_parse_simple_hdf(file).wild
         /\ \/ ee_parse_simple_hdf(file).ok /\ plat' = Platform(Found(file)) /\ Use("opens")
            \/ plat' = plat /\ Fault
  BY DEF InitNative
<1>7. CASE ee_parse_simple_hdf(file).ok /\ plat' = Platform(Found(file)) /\ Use("opens")
  <2>1. used' \in UsedSet /\ used'.faults = used.faults
    BY <1>2, <1>7, UseRight
  <2>2. plat'.init
    BY <1>7 DEF Platform
  <2>3. Found(file) \in OnTarget
    BY <1>1, <1>6, <1>7 DEF OnTarget, Readable
  <2>4. Known'
    BY <1>1, <1>4, <1>5, <1>7, <2>1, <2>3 DEF Known, OnTarget, Native, UsedSet, HeldSet
  <2>5. Held'
    <3>1. SUFFICES ASSUME used.faults = 0
                   PROVE  /\ h.tables = 1 /\ h.conn = 0 /\ h.fd = 0 /\ h.maps = 0 /\ h.arrays = 0
      BY <1>1, <1>3, <1>4, <2>1, <2>2 DEF Held, If, Native
    <3>. QED
      BY <1>1, <1>3, <1>5, <3>1 DEF HInv, Held, If
  <2>6. Within' /\ Mapped' /\ Same'
    BY <1>1, <1>3 DEF HInv, Within, Mapped, Same
  <2>. QED
    BY <2>4, <2>5, <2>6 DEF HInv
<1>8. CASE plat' = plat /\ Fault
  <2>1. used' \in UsedSet /\ used'.faults # 0
    BY <1>2, <1>8, UseRight DEF Fault
  <2>2. Known'
    BY <1>1, <1>4, <1>5, <1>8, <2>1 DEF HInv, Known, OnTarget, Native, UsedSet, HeldSet
  <2>3. Within' /\ Mapped' /\ Same' /\ Held'
    BY <1>1, <1>3, <2>1 DEF HInv, Within, Mapped, Same, Held
  <2>. QED
    BY <2>2, <2>3 DEF HInv
<1>. QED
  BY <1>6, <1>7, <1>8

\* e_init of the simulator and PAL.
LEMMA InitOtherRight == ASSUME HInv, InitOther PROVE HInv'
<1>. DEFINE h == [tables |-> res.tables + 1, conn |-> res.conn + 1, fd |-> res.fd, maps |-> res.maps, arrays |-> res.arrays]
<1>1. ~Native /\ ~plat.init /\ dev' = dev /\ buf' = buf /\ mem' = mem /\ ideal' = ideal /\ target' = target
  BY DEF InitOther
<1>2. used \in UsedSet /\ res \in HeldSet
  BY DEF HInv, Known, UsedSet, HeldSet
<1>3. dev = Closed /\ buf = Closed /\ ~dev.open /\ ~buf.open
  <2>1. dev = Closed /\ buf = Closed
    BY <1>1, NoneOpen DEF HInv
  <2>. QED
    BY <2>1 DEF Closed
<1>4. target \in Targets /\ OnTarget' = OnTarget
  <2>1. used.opens \in Nat /\ used.opens < MaxOpens
    BY <1>2 DEF InitOther, Opening, UsedSet
  <2>2. used.opens # MaxOpens
    BY <2>1, ClientAssumption
  <2>. QED
    BY <1>1, <2>2 DEF HInv, Known, OnTarget, Native
<1>5. CASE /\ plat' = (IF target = "esim" THEN ee_populate_platform_esim ELSE pal_populate_platform) /\ Use("opens")
           /\ res' = [res EXCEPT !.tables = @ + 1, !.conn = @ + 1]
  <2>1. used' \in UsedSet /\ used'.faults = used.faults
    BY <1>2, <1>5, UseRight
  <2>2. PICK chips \in OnTarget : plat' = Platform(chips)
    BY <1>1, <1>5 DEF OnTarget, ee_populate_platform_esim, pal_populate_platform
  <2>3. plat'.init
    BY <2>2 DEF Platform
  <2>4. h \in HeldSet /\ res' = h
    <3>1. res.tables \in Int /\ res.conn \in Int /\ res.fd \in Int /\ res.maps \in Int /\ res.arrays \in Int
          /\ res = [tables |-> res.tables, conn |-> res.conn, fd |-> res.fd, maps |-> res.maps, arrays |-> res.arrays]
      BY <1>2 DEF HeldSet
    <3>2. h \in HeldSet
      BY <3>1 DEF HeldSet
    <3>. QED
      BY <1>5, <3>1, <3>2
  <2>5. Known'
    <3>1. (Platform(chips))' = Platform(chips) /\ chips \in OnTarget'
      BY <1>4, <2>2 DEF Platform, Box
    <3>. QED
      BY <1>1, <1>4, <2>1, <2>2, <2>4, <3>1 DEF Known, UsedSet, HeldSet
  <2>6. Held'
    <3>1. SUFFICES ASSUME used.faults = 0, target # "pal"
                   PROVE  h.tables = 1 /\ h.conn = 1 /\ h.fd = 0 /\ h.maps = 0
      BY <1>1, <1>3, <2>1, <2>3, <2>4 DEF Held, If, Native
    <3>. QED
      BY <1>1, <1>3, <3>1 DEF HInv, Held, If
  <2>7. Within' /\ Mapped' /\ Same'
    BY <1>1, <1>3 DEF HInv, Within, Mapped, Same
  <2>. QED
    BY <2>5, <2>6, <2>7 DEF HInv
<1>6. CASE Fault /\ UNCHANGED <<plat, res>>
  <2>1. used' \in UsedSet /\ used'.faults # 0
    BY <1>2, <1>6, UseRight DEF Fault
  <2>2. Known'
    BY <1>1, <1>4, <1>6, <2>1 DEF HInv, Known, UsedSet
  <2>3. Within' /\ Mapped' /\ Same' /\ Held'
    BY <1>1, <1>3, <2>1 DEF HInv, Within, Mapped, Same, Held
  <2>. QED
    BY <2>2, <2>3 DEF HInv
<1>. QED
  BY <1>5, <1>6 DEF InitOther

\* e_finalize.
LEMMA FinalizeRight == ASSUME HInv, e_finalize PROVE HInv'
<1>. DEFINE h == [tables |-> res.tables - 1, conn |-> IF Native THEN res.conn ELSE res.conn - 1,
                  fd |-> res.fd, maps |-> res.maps, arrays |-> res.arrays]
<1>1. plat.init /\ ~dev.open /\ ~buf.open /\ plat' = NoPlat /\ dev' = dev /\ buf' = buf /\ mem' = mem /\ ideal' = ideal
      /\ target' = target /\ used' = used
  BY DEF e_finalize
<1>2. res \in HeldSet
  BY DEF HInv, Known, HeldSet
<1>3. dev = Closed /\ buf = Closed /\ ~plat'.init
  BY <1>1, NoneOpen DEF HInv, NoPlat
<1>4. h \in HeldSet /\ res' = h
  <2>1. res.tables \in Int /\ res.conn \in Int /\ res.fd \in Int /\ res.maps \in Int /\ res.arrays \in Int
        /\ res = [tables |-> res.tables, conn |-> res.conn, fd |-> res.fd, maps |-> res.maps, arrays |-> res.arrays]
    BY <1>2 DEF HeldSet
  <2>2. res' = [res EXCEPT !.tables = @ - 1, !.conn = IF Native THEN @ ELSE @ - 1]
    BY DEF e_finalize
  <2>3. h \in HeldSet
    <3>1. (IF Native THEN res.conn ELSE res.conn - 1) \in Int
      BY <2>1
    <3>. QED
      BY <2>1, <3>1 DEF HeldSet
  <2>. QED
    BY <2>1, <2>2, <2>3
<1>5. Known'
  BY <1>1, <1>4 DEF HInv, Known, HeldSet
<1>6. Held'
  <2>1. SUFFICES ASSUME used.faults = 0, target # "pal"
                 PROVE  /\ h.tables = 0 /\ h.conn = 0 /\ h.fd = 0 /\ h.maps = 0 /\ (Native => h.arrays = 0)
    BY <1>1, <1>3, <1>4 DEF Held, If, Native
  <2>. QED
    BY <1>1, <1>3, <2>1 DEF HInv, Held, If
<1>7. Within' /\ Mapped' /\ Same'
  BY <1>1, <1>3 DEF HInv, Within, Mapped, Same
<1>. QED
  BY <1>5, <1>6, <1>7 DEF HInv

\* The number of cores of a group is a number.
LEMMA CoresAreNumbers == ASSUME NEW g, g.rows \in Nat, g.cols \in Nat PROVE Cores(g) \in Nat
  BY DEF Cores

\* e_open: a group inside the platform, and what it holds on each target.
LEMMA OpenRight == ASSUME HInv, NEW s \in Shapes, e_open(s) PROVE HInv'
<1>. DEFINE g == [open |-> TRUE, row |-> s.row + plat.row, col |-> s.col + plat.col, rows |-> s.rows, cols |-> s.cols]
<1>1. /\ plat.init /\ ~dev.open /\ target' = target /\ plat' = plat /\ buf' = buf /\ mem' = mem /\ ideal' = ideal
      /\ s.row + s.rows <= plat.rows /\ s.col + s.cols <= plat.cols
  BY DEF e_open
<1>2. used \in UsedSet /\ res \in HeldSet
  BY DEF HInv, Known, UsedSet, HeldSet
<1>3. dev = Closed
  BY <1>1, NoneOpen DEF HInv
<1>4. /\ target \in Targets /\ GoodChips(plat.chips) /\ plat.row = Box(plat.chips).row /\ plat.col = Box(plat.chips).col
      /\ plat.rows = Box(plat.chips).rows /\ plat.cols = Box(plat.chips).cols
  BY <1>1, PlatformKnown DEF HInv
<1>5. plat.row \in Nat /\ plat.col \in Nat /\ plat.rows \in Int /\ plat.cols \in Int
  BY <1>4, BoxHolds
<1>6. s.row \in Nat /\ s.col \in Nat /\ s.rows \in Nat /\ s.cols \in Nat
  BY ClientAssumption
<1>7. Mapped' /\ Same'
  BY <1>1 DEF HInv, Mapped, Same
<1>8. CASE Use("opens") /\ res' = Plus(Opened(s), 1) /\ dev' = g
  <2>1. used' \in UsedSet /\ used'.faults = used.faults
    BY <1>2, <1>8, UseRight
  <2>2. g \in [open : {TRUE}, row : Nat, col : Nat, rows : Nat, cols : Nat]
    BY <1>5, <1>6
  <2>3. Within'
    BY <1>1, <1>5, <1>6, <1>8, <2>2 DEF Within
  <2>4. Cores(s) \in Nat /\ Cores(g) = Cores(s) /\ 2 * Cores(s) \in Int /\ s.rows + 1 \in Int
    <3>1. Cores(s) \in Nat
      BY <1>6, CoresAreNumbers
    <3>. QED
      BY <1>6, <3>1 DEF Cores
  <2>5. /\ res' \in HeldSet /\ res'.tables = res.tables /\ res'.conn = res.conn
        /\ Native => res'.fd = res.fd + 1 /\ res'.arrays = res.arrays + (s.rows + 1) /\ res'.maps = res.maps + 2 * Cores(s)
        /\ target = "esim" => res'.fd = res.fd /\ res'.maps = res.maps
    <3>0. res.fd \in Int /\ res.maps \in Int /\ res.arrays \in Int
      BY <1>2 DEF HeldSet
    <3>1. CASE Native
      <4>1. res' = Plus([fd |-> 1, arrays |-> s.rows + 1, maps |-> 2 * Cores(s)], 1)
        BY <1>8, <3>1 DEF Opened, ee_open_native
      <4>2. /\ res' \in HeldSet /\ res'.tables = res.tables /\ res'.conn = res.conn /\ res'.fd = res.fd + 1 * 1
            /\ res'.arrays = res.arrays + 1 * (s.rows + 1) /\ res'.maps = res.maps + 1 * (2 * Cores(s))
        BY <1>2, <2>4, <4>1, PlusRight
      <4>. QED
        BY <2>4, <3>0, <3>1, <4>2 DEF Native
    <3>2. CASE ~Native /\ target = "esim"
      <4>1. res' = Plus([fd |-> 0, arrays |-> s.rows + 1, maps |-> 0], 1)
        BY <1>8, <3>2 DEF Opened, ee_open_esim
      <4>2. /\ res' \in HeldSet /\ res'.tables = res.tables /\ res'.conn = res.conn /\ res'.fd = res.fd + 1 * 0
            /\ res'.maps = res.maps + 1 * 0
        BY <1>2, <2>4, <4>1, PlusRight
      <4>. QED
        BY <3>0, <3>2, <4>2
    <3>3. CASE ~Native /\ target # "esim"
      <4>1. res' = Plus([fd |-> 0, arrays |-> s.rows + 1, maps |-> Cores(s)], 1)
        BY <1>8, <3>3 DEF Opened, pal_open
      <4>2. res' \in HeldSet /\ res'.tables = res.tables /\ res'.conn = res.conn
        BY <1>2, <2>4, <4>1, PlusRight
      <4>. QED
        BY <3>3, <4>2
    <3>. QED
      BY <3>1, <3>2, <3>3
  <2>6. Known'
    BY <1>1, <1>4, <2>1, <2>5, KnownStays DEF HInv
  <2>7. Held'
    <3>1. SUFFICES ASSUME used.faults = 0, target # "pal"
                   PROVE  /\ res'.tables = If(plat.init, 1) /\ res'.conn = If(~Native /\ plat.init, 1)
                          /\ res'.fd = If(Native, 1) + If(Native /\ buf.open, 1)
                          /\ res'.maps = If(Native, 2 * Cores(s)) + If(Native /\ buf.open, 1)
                          /\ Native => res'.arrays = s.rows + 1
      <4>1. dev'.open /\ Cores(dev') = Cores(s) /\ dev'.rows = s.rows
        BY <1>8, <2>4
      <4>. QED
        BY <1>1, <2>1, <4>1 DEF Held, If, Native, Cores
    <3>2. /\ res.tables = If(plat.init, 1) /\ res.conn = If(~Native /\ plat.init, 1)
          /\ res.fd = 0 + If(Native /\ buf.open, 1) /\ res.maps = 0 + If(Native /\ buf.open, 1)
          /\ Native => res.arrays = 0
      BY <1>1, <3>1 DEF HInv, Held, If
    <3>3. CASE Native
      BY <2>4, <2>5, <3>2, <3>3 DEF If
    <3>4. CASE ~Native /\ target = "esim"
      BY <2>5, <3>2, <3>4 DEF If
    <3>. QED
      BY <1>4, <3>1, <3>3, <3>4, OneTarget
  <2>. QED
    BY <1>7, <2>3, <2>6, <2>7 DEF HInv
<1>9. CASE Fault /\ dev' = dev /\ res' \in HeldSet
  <2>1. used' \in UsedSet /\ used'.faults # 0
    BY <1>2, <1>9, UseRight DEF Fault
  <2>2. Known'
    BY <1>1, <1>4, <1>9, <2>1, KnownStays DEF HInv
  <2>3. Within' /\ Held'
    BY <1>1, <1>3, <1>9, <2>1 DEF HInv, Within, Held
  <2>. QED
    BY <1>7, <2>2, <2>3 DEF HInv
<1>10. ASSUME NEW r \in Rows(s), NEW c \in Cols(s), NEW one \in {0, 1}, NEW h,
              h = Plus([fd |-> 1, arrays |-> r + 2, maps |-> 2 * (c + r * s.cols) + one], 1)
       PROVE  h \in HeldSet
  <2>1. r + 2 \in Int /\ 2 * (c + r * s.cols) + one \in Int
    <3>1. r \in Int /\ c \in Int
      BY <1>6 DEF Rows, Cols
    <3>2. r * s.cols \in Int
      BY <1>6, <3>1
    <3>. QED
      BY <3>1, <3>2
  <2>. QED
    BY <1>2, <1>10, <2>1, PlusRight
<1>. QED
  BY <1>2, <1>8, <1>9, <1>10 DEF e_open

\* e_close.
LEMMA CloseRight == ASSUME HInv, e_close PROVE HInv'
<1>1. dev.open /\ dev' = Closed /\ target' = target /\ plat' = plat /\ buf' = buf /\ mem' = mem /\ ideal' = ideal
      /\ used' = used /\ res' = Plus(Closes(dev), -1)
  BY DEF e_close
<1>2. res \in HeldSet
  BY DEF HInv, Known, HeldSet
<1>3. plat.init /\ target \in Targets /\ Cores(dev) \in Nat /\ dev.rows \in Nat
  BY <1>1, GroupKnown, PlatformKnown, CoresAreNumbers DEF HInv, Group
<1>4. Within' /\ Mapped' /\ Same'
  BY <1>1 DEF HInv, Within, Mapped, Same
<1>5. /\ res' \in HeldSet /\ res'.tables = res.tables /\ res'.conn = res.conn
      /\ Native => res'.fd = res.fd - 1 /\ res'.arrays = res.arrays - (dev.rows + 1) /\ res'.maps = res.maps - 2 * Cores(dev)
      /\ target = "esim" => res'.fd = res.fd /\ res'.maps = res.maps
  <2>0. res.fd \in Int /\ res.maps \in Int /\ res.arrays \in Int /\ Cores(dev) + Cores(dev) \in Int /\ dev.rows + 1 \in Int
    BY <1>2, <1>3 DEF HeldSet
  <2>1. CASE Native
    <3>1. res' = Plus([fd |-> 1, arrays |-> dev.rows + 1, maps |-> Cores(dev) + Cores(dev)], -1)
      BY <1>1, <2>1 DEF Closes, close_rows, Native
    <3>2. /\ res' \in HeldSet /\ res'.tables = res.tables /\ res'.conn = res.conn /\ res'.fd = res.fd + (-1) * 1
          /\ res'.arrays = res.arrays + (-1) * (dev.rows + 1) /\ res'.maps = res.maps + (-1) * (Cores(dev) + Cores(dev))
      BY <1>2, <2>0, <3>1, PlusRight
    <3>. QED
      <4>1. target # "esim" /\ res'.fd = res.fd - 1
        BY <2>0, <2>1, <3>2 DEF Native
      <4>2. res'.arrays = res.arrays - (dev.rows + 1)
        BY <1>3, <2>0, <3>2
      <4>. DEFINE k == Cores(dev)
      <4>3. k \in Nat /\ res'.maps = res.maps + (-1) * (k + k)
        BY <1>3, <3>2
      <4>4. res'.maps = res.maps - 2 * k
        <5>. HIDE DEF k
        <5>. QED
          BY <2>0, <4>3
      <4>. QED
        BY <3>2, <4>1, <4>2, <4>4
  <2>2. CASE ~Native /\ target = "esim" /\ target # "pal"
    <3>1. res' = Plus([fd |-> 0, arrays |-> dev.rows + 1, maps |-> 0], -1)
      BY <1>1, <2>2 DEF Closes, close_rows
    <3>2. /\ res' \in HeldSet /\ res'.tables = res.tables /\ res'.conn = res.conn /\ res'.fd = res.fd + (-1) * 0
          /\ res'.maps = res.maps + (-1) * 0
      BY <1>2, <2>0, <3>1, PlusRight
    <3>. QED
      BY <2>0, <2>2, <3>2
  <2>3. CASE ~Native /\ target = "pal" /\ target # "esim"
    <3>1. res' = Plus([fd |-> 0, arrays |-> 0, maps |-> 0], -1)
      BY <1>1, <2>3 DEF Closes, pal_close
    <3>2. res' \in HeldSet /\ res'.tables = res.tables /\ res'.conn = res.conn
      BY <1>2, <3>1, PlusRight
    <3>. QED
      BY <2>3, <3>2
  <2>. QED
    BY <1>3, <2>1, <2>2, <2>3, OneTarget
<1>6. Known'
  BY <1>1, <1>5 DEF HInv, Known, OnTarget, Native, HeldSet
<1>7. Held'
  <2>1. SUFFICES ASSUME used.faults = 0, target # "pal"
                 PROVE  /\ res'.tables = If(plat.init, 1) /\ res'.conn = If(~Native /\ plat.init, 1)
                        /\ res'.fd = If(Native /\ buf.open, 1) /\ res'.maps = If(Native /\ buf.open, 1)
                        /\ Native => res'.arrays = 0
    <3>1. ~dev'.open
      BY <1>1 DEF Closed
    <3>. QED
      BY <1>1, <3>1 DEF Held, If, Native
  <2>2. /\ res.tables = If(plat.init, 1) /\ res.conn = If(~Native /\ plat.init, 1)
        /\ res.fd = If(Native, 1) + If(Native /\ buf.open, 1)
        /\ res.maps = If(Native, 2 * Cores(dev)) + If(Native /\ buf.open, 1)
        /\ Native => res.arrays = dev.rows + 1
    BY <1>1, <2>1 DEF HInv, Held, If
  <2>3. CASE Native
    BY <1>3, <1>5, <2>2, <2>3 DEF If
  <2>4. CASE ~Native /\ target = "esim"
    BY <1>5, <2>2, <2>4 DEF If
  <2>. QED
    BY <1>3, <2>1, <2>3, <2>4, OneTarget
<1>. QED
  BY <1>4, <1>6, <1>7 DEF HInv

\* e_alloc.
LEMMA AllocRight == ASSUME HInv, NEW b \in Buffers, e_alloc(b) PROVE HInv'
<1>1. plat.init /\ ~buf.open /\ target' = target /\ plat' = plat /\ dev' = dev /\ mem' = mem /\ ideal' = ideal
  BY DEF e_alloc
<1>2. used \in UsedSet /\ res \in HeldSet
  BY DEF HInv, Known, UsedSet, HeldSet
<1>3. buf = Closed
  BY <1>1, NoneOpen DEF HInv
<1>4. target \in Targets
  BY <1>1, PlatformKnown DEF HInv
<1>5. Within' /\ Same'
  BY <1>1 DEF HInv, Within, Same
<1>6. CASE Use("opens") /\ buf' = [open |-> TRUE, off |-> b.off, size |-> b.size] /\ res' = Plus(Allocated, 1)
  <2>1. used' \in UsedSet /\ used'.faults = used.faults
    BY <1>2, <1>6, UseRight
  <2>2. Mapped' /\ buf'.open
    BY <1>1, <1>6 DEF Mapped
  <2>3. PICK f \in {0, 1}, m \in {0, 1} :
          /\ Allocated = [fd |-> f, arrays |-> 0, maps |-> m]
          /\ Native => f = 1 /\ m = 1
          /\ ~Native /\ target = "esim" => f = 0 /\ m = 0
    BY DEF Allocated, alloc_native, alloc_esim, pal_alloc
  <2>4. res' = Plus([fd |-> f, arrays |-> 0, maps |-> m], 1)
    BY <1>6, <2>3
  <2>5. /\ res' \in HeldSet /\ res'.tables = res.tables /\ res'.conn = res.conn /\ res'.fd = res.fd + 1 * f
        /\ res'.arrays = res.arrays + 1 * 0 /\ res'.maps = res.maps + 1 * m
    BY <1>2, <2>4, PlusRight
  <2>6. Known'
    BY <1>1, <1>4, <2>1, <2>5, KnownStays DEF HInv
  <2>7. Held'
    <3>1. SUFFICES ASSUME used.faults = 0, target # "pal"
                   PROVE  /\ res'.tables = If(plat.init, 1) /\ res'.conn = If(~Native /\ plat.init, 1)
                          /\ res'.fd = If(Native /\ dev.open, 1) + If(Native, 1)
                          /\ res'.maps = If(Native /\ dev.open, 2 * Cores(dev)) + If(Native, 1)
                          /\ Native => res'.arrays = If(dev.open, dev.rows + 1)
      BY <1>1, <2>1, <2>2 DEF Held, If, Native, Cores
    <3>2. ~buf.open
      BY <1>1
    <3>3. /\ res.tables = If(plat.init, 1) /\ res.conn = If(~Native /\ plat.init, 1)
          /\ res.fd = If(Native /\ dev.open, 1) + 0
          /\ res.maps = If(Native /\ dev.open, 2 * Cores(dev)) + 0
          /\ Native => res.arrays = If(dev.open, dev.rows + 1)
      BY <1>1, <3>1 DEF HInv, Held, If
    <3>4. res.fd \in Int /\ res.maps \in Int /\ res.arrays \in Int
      BY <1>2 DEF HeldSet
    <3>5. If(Native /\ dev.open, 2 * Cores(dev)) \in Int /\ If(Native /\ dev.open, 1) \in Int
      <4>1. dev.open => Cores(dev) \in Nat
        BY GroupKnown, CoresAreNumbers DEF HInv, Group
      <4>. QED
        BY <4>1 DEF If
    <3>6. CASE Native
      BY <2>3, <2>5, <3>3, <3>4, <3>5, <3>6 DEF If
    <3>7. CASE ~Native /\ target = "esim"
      BY <2>3, <2>5, <3>3, <3>4, <3>7 DEF If
    <3>. QED
      BY <1>4, <3>1, <3>6, <3>7, OneTarget
  <2>. QED
    BY <1>5, <2>2, <2>6, <2>7 DEF HInv
<1>7. CASE Fault /\ buf' = buf /\ res' \in HeldSet
  <2>1. used' \in UsedSet /\ used'.faults # 0
    BY <1>2, <1>7, UseRight DEF Fault
  <2>2. Known'
    BY <1>1, <1>4, <1>7, <2>1, KnownStays DEF HInv
  <2>3. Mapped' /\ Held'
    BY <1>3, <1>7, <2>1 DEF HInv, Mapped, Held
  <2>. QED
    BY <1>5, <2>2, <2>3 DEF HInv
<1>8. ASSUME NEW h, h = Plus([fd |-> 1], 1) PROVE h \in HeldSet
  BY <1>2, <1>8, PlusDescriptor
<1>. QED
  BY <1>2, <1>6, <1>7, <1>8 DEF e_alloc

\* e_free.
LEMMA FreeRight == ASSUME HInv, e_free PROVE HInv'
<1>1. buf.open /\ buf' = Closed /\ target' = target /\ plat' = plat /\ dev' = dev /\ mem' = mem /\ ideal' = ideal
      /\ used' = used /\ res' = Plus(Freed, -1)
  BY DEF e_free
<1>2. res \in HeldSet
  BY DEF HInv, Known, HeldSet
<1>3. plat.init /\ target \in Targets
  <2>1. plat.init
    BY <1>1 DEF HInv, Mapped, Closed
  <2>. QED
    BY <2>1, PlatformKnown DEF HInv
<1>4. Within' /\ Mapped' /\ Same'
  BY <1>1 DEF HInv, Within, Mapped, Same
<1>5. PICK f \in {0, 1}, m \in {0, 1} :
        /\ Freed = [fd |-> f, arrays |-> 0, maps |-> m]
        /\ Native => f = 1 /\ m = 1
        /\ ~Native => f = 0 /\ m = 0
  BY DEF Freed, free_native, pal_free
<1>6. res' = Plus([fd |-> f, arrays |-> 0, maps |-> m], -1)
  BY <1>1, <1>5
<1>7. /\ res' \in HeldSet /\ res'.tables = res.tables /\ res'.conn = res.conn /\ res'.fd = res.fd + (-1) * f
      /\ res'.arrays = res.arrays + (-1) * 0 /\ res'.maps = res.maps + (-1) * m
  BY <1>2, <1>6, PlusRight
<1>8. Known'
  BY <1>1, <1>7 DEF HInv, Known, OnTarget, Native, HeldSet
<1>9. Held'
  <2>1. SUFFICES ASSUME used.faults = 0, target # "pal"
                 PROVE  /\ res'.tables = If(plat.init, 1) /\ res'.conn = If(~Native /\ plat.init, 1)
                        /\ res'.fd = If(Native /\ dev.open, 1) + 0
                        /\ res'.maps = If(Native /\ dev.open, 2 * Cores(dev)) + 0
                        /\ Native => res'.arrays = If(dev.open, dev.rows + 1)
    <3>1. ~buf'.open
      BY <1>1 DEF Closed
    <3>. QED
      BY <1>1, <3>1 DEF Held, If, Native, Cores
  <2>2. /\ res.tables = If(plat.init, 1) /\ res.conn = If(~Native /\ plat.init, 1)
        /\ res.fd = If(Native /\ dev.open, 1) + If(Native, 1)
        /\ res.maps = If(Native /\ dev.open, 2 * Cores(dev)) + If(Native, 1)
        /\ Native => res.arrays = If(dev.open, dev.rows + 1)
    BY <1>1, <2>1 DEF HInv, Held, If
  <2>3. res.fd \in Int /\ res.maps \in Int /\ res.arrays \in Int
    BY <1>2 DEF HeldSet
  <2>4. If(Native /\ dev.open, 2 * Cores(dev)) \in Int /\ If(Native /\ dev.open, 1) \in Int
    <3>1. dev.open => Cores(dev) \in Nat
      BY GroupKnown, CoresAreNumbers DEF HInv, Group
    <3>. QED
      BY <3>1 DEF If
  <2>5. CASE Native
    BY <1>5, <1>7, <2>2, <2>3, <2>4, <2>5 DEF If
  <2>6. CASE ~Native
    BY <1>5, <1>7, <2>2, <2>3, <2>6 DEF If
  <2>. QED
    BY <2>5, <2>6
<1>. QED
  BY <1>4, <1>8, <1>9 DEF HInv

\* e_reset_system: registers lose what was written and what was meant alike.
LEMMA ResetRight == ASSUME HInv, e_reset_system PROVE HInv'
<1>1. /\ plat.init /\ Use("opens") /\ target' = target /\ plat' = plat /\ dev' = dev /\ buf' = buf
      /\ mem' = Reset(mem) /\ ideal' = Reset(ideal) /\ res' = IF Native THEN res ELSE [res EXCEPT !.arrays = @ + plat.rows + 1]
  BY DEF e_reset_system
<1>. DEFINE h == [tables |-> res.tables, conn |-> res.conn, fd |-> res.fd, maps |-> res.maps,
                  arrays |-> IF Native THEN res.arrays ELSE res.arrays + plat.rows + 1]
<1>2. used \in UsedSet /\ res \in HeldSet
  BY DEF HInv, Known, UsedSet, HeldSet
<1>3. used' \in UsedSet /\ used'.faults = used.faults
  BY <1>1, <1>2, UseRight
<1>4. target \in Targets /\ plat.rows \in Int
  BY <1>1, PlatformKnown, BoxHolds DEF HInv
<1>5. h \in HeldSet /\ res' = h
  <2>1. res.tables \in Int /\ res.conn \in Int /\ res.fd \in Int /\ res.maps \in Int /\ res.arrays \in Int
        /\ res = [tables |-> res.tables, conn |-> res.conn, fd |-> res.fd, maps |-> res.maps, arrays |-> res.arrays]
    BY <1>2 DEF HeldSet
  <2>2. (IF Native THEN res.arrays ELSE res.arrays + plat.rows + 1) \in Int
    BY <1>4, <2>1
  <2>3. h \in HeldSet
    BY <2>1, <2>2 DEF HeldSet
  <2>. QED
    BY <1>1, <2>1, <2>3
<1>6. Known'
  <2>. HIDE DEF h
  <2>. QED
    BY <1>1, <1>3, <1>4, <1>5, KnownStays DEF HInv
<1>7. Within' /\ Mapped' /\ Same'
  BY <1>1 DEF HInv, Within, Mapped, Same
<1>8. Held'
  <2>1. SUFFICES ASSUME used.faults = 0, target # "pal"
                 PROVE  /\ h.tables = If(plat.init, 1) /\ h.conn = If(~Native /\ plat.init, 1)
                        /\ h.fd = If(Native /\ dev.open, 1) + If(Native /\ buf.open, 1)
                        /\ h.maps = If(Native /\ dev.open, 2 * Cores(dev)) + If(Native /\ buf.open, 1)
                        /\ Native => h.arrays = If(dev.open, dev.rows + 1)
    BY <1>1, <1>3, <1>5 DEF Held, If, Native, Cores
  <2>. QED
    BY <1>1, <2>1 DEF HInv, Held
<1>. QED
  BY <1>6, <1>7, <1>8 DEF HInv

\* e_write and the calls beside it: what goes is what was given, to the words that are meant.
LEMMA WriteRight == ASSUME HInv, NEW q \in Requests, ~Avoided(q), e_write(q) PROVE HInv'
<1>1. WordsWritten(q) = Meant(q) /\ ~(target = "pal" /\ q.op = "word")
  BY RequestRight DEF HInv
<1>. DEFINE given == [i \in 1 .. q.n |-> 2 * used.writes + i]
            sent == [i \in 1 .. q.n |-> IF target = "pal" /\ q.op = "word" THEN Garbage ELSE given[i]]
<1>2. /\ Use("writes") /\ mem' = Put(mem, WordsWritten(q), sent) /\ ideal' = Put(ideal, Meant(q), given)
      /\ target' = target /\ plat' = plat /\ dev' = dev /\ buf' = buf /\ res' = res
  BY DEF e_write
<1>3. sent = given
  BY <1>1
<1>4. Same'
  BY <1>1, <1>2, <1>3 DEF HInv, Same
<1>5. target \in Targets
  <2>1. plat.init
    BY GroupKnown DEF Requests, OfGroup, OfBuffer, OfServer, Whole, HInv, Mapped, Closed
  <2>. QED
    BY <2>1, PlatformKnown DEF HInv
<1>6. used \in UsedSet /\ res \in HeldSet
  BY DEF HInv, Known, UsedSet, HeldSet
<1>7. used' \in UsedSet /\ used'.faults = used.faults
  BY <1>2, <1>6, UseRight
<1>8. Known'
  BY <1>2, <1>5, <1>6, <1>7, KnownStays DEF HInv
<1>9. Within' /\ Mapped' /\ Held'
  BY <1>2, <1>7 DEF HInv, Within, Mapped, Held, If, Native, Cores
<1>. QED
  BY <1>4, <1>8, <1>9 DEF HInv

\* The loader of SREC files.
LEMMA LoadRight ==
  ASSUME HInv, dev.open, NEW file \in SrecFiles, NEW r \in Rows(dev), NEW c \in Cols(dev), ee_process_SREC(file, r, c)
  PROVE  HInv'
<1>. DEFINE to == [i \in Data(file) |-> SrecWords(r, c, file.lines[i])]
            meant == [i \in Data(file) |-> SrecMeant(r, c, file.lines[i])]
            after(m, l) == [w \in Words |-> IF l[w] = {} THEN m[w] ELSE 100 + Max(l[w])]
<1>1. /\ Use("writes") /\ \A i \in Data(file) : OnGroup(file.lines[i])
      /\ mem' = after(mem, Loaded(file, to)) /\ ideal' = after(ideal, Loaded(file, meant))
      /\ target' = target /\ plat' = plat /\ dev' = dev /\ buf' = buf /\ res' = res
  BY DEF ee_process_SREC
<1>2. to = meant
  BY <1>1, SrecRight DEF HInv
<1>3. Same'
  BY <1>1, <1>2 DEF HInv, Same
<1>4. target \in Targets
  BY GroupKnown, PlatformKnown DEF HInv
<1>5. used \in UsedSet /\ res \in HeldSet
  BY DEF HInv, Known, UsedSet, HeldSet
<1>6. used' \in UsedSet /\ used'.faults = used.faults
  BY <1>1, <1>5, UseRight
<1>7. Known'
  BY <1>1, <1>4, <1>5, <1>6, KnownStays DEF HInv
<1>8. Within' /\ Mapped' /\ Held'
  BY <1>1, <1>6 DEF HInv, Within, Mapped, Held, If, Native, Cores
<1>. QED
  BY <1>3, <1>7, <1>8 DEF HInv

\* A step of the library, or of one of the two tools beside it.
LEMMA HStep == HInv /\ [MCNext]_<<vars, copying, dumping>> => HInv'
<1>. SUFFICES ASSUME HInv, [MCNext]_<<vars, copying, dumping>> PROVE HInv'
  OBVIOUS
<1>1. CASE InitNative
  BY <1>1, InitNativeRight
<1>2. CASE InitOther
  BY <1>2, InitOtherRight
<1>3. CASE e_finalize
  BY <1>3, FinalizeRight
<1>4. ASSUME NEW s \in Shapes, e_open(s) PROVE HInv'
  BY <1>4, OpenRight
<1>5. CASE e_close
  BY <1>5, CloseRight
<1>6. ASSUME NEW b \in Buffers, e_alloc(b) PROVE HInv'
  BY <1>6, AllocRight
<1>7. CASE e_free
  BY <1>7, FreeRight
<1>8. CASE e_reset_system
  BY <1>8, ResetRight
<1>9. ASSUME NEW q \in Requests, ~Avoided(q), e_write(q) PROVE HInv'
  BY <1>9, WriteRight
<1>10. ASSUME dev.open, NEW file \in SrecFiles, NEW r \in Rows(dev), NEW c \in Cols(dev), ee_process_SREC(file, r, c)
       PROVE  HInv'
  BY <1>10, LoadRight
<1>11. CASE UNCHANGED vars
  BY <1>11 DEF vars, HInv, Known, Within, Mapped, Same, Held, OnTarget, Native, If, Cores
<1>12. Next \/ UNCHANGED vars
  BY DEF MCNext
<1>. QED
  BY <1>1, <1>2, <1>3, <1>4, <1>5, <1>6, <1>7, <1>8, <1>9, <1>10, <1>11, <1>12 DEF Next

-----------------------------------------------------------------------------
(* aligned_memcpy *)

\* The head leaves the address as even as the loop after it needs it.
LEMMA HeadRight == ASSUME C!CopyInv, C!ByteHead \/ C!HalfHead PROVE C!CopyInv'
<1>. USE DEF C!CopyInv, C!CopyRight, C!Even, C!Left, C!WordWise, C!HalfWise
<1>1. CASE C!ByteHead
  BY <1>1 DEF C!ByteHead, C!Copy, C!Skip
<1>2. CASE C!HalfHead
  <2>1. (dst - src) % 4 = 0 /\ pc = "half" /\ dst \in Nat /\ src \in Nat /\ size \in Nat /\ at \in 0 .. size /\ ((dst + at) % 2 = 0 \/ size - at = 0)
    BY <1>2 DEF C!HalfHead
  <2>2. CASE (dst + at) % 4 >= 2 /\ size - at > 1
    <3>1. at' = at + 2 /\ width' = 2 /\ pc' = "words" /\ dst' = dst /\ src' = src /\ size' = size
      BY <1>2, <2>2 DEF C!HalfHead, C!Copy, C!Skip
    <3>2. (dst + at) % 2 = 0
      BY <2>1, <2>2
    <3>3. (dst + (at + 2)) % 4 = 0 /\ (dst + at) % 2 = 0 /\ (src + at) % 2 = 0
      BY <2>1, <2>2, <3>2
    <3>4. (dst + (at + 2)) - 2 = dst + at /\ (src + (at + 2)) - 2 = src + at
      BY <2>1
    <3>. QED
      BY <2>1, <2>2, <3>1, <3>3, <3>4
  <2>3. CASE (dst + at) % 4 >= 2 /\ size - at = 1
    <3>1. at' = at + 1 /\ width' = 1 /\ pc' = "words" /\ dst' = dst /\ src' = src /\ size' = size
      BY <1>2, <2>3 DEF C!HalfHead, C!Copy, C!Skip
    <3>. QED
      BY <2>1, <2>3, <3>1
  <2>4. CASE ~((dst + at) % 4 >= 2) \/ size - at = 0
    <3>1. at' = at /\ width' = width /\ pc' = "words" /\ dst' = dst /\ src' = src /\ size' = size
      BY <1>2, <2>1, <2>4 DEF C!HalfHead, C!Copy, C!Skip
    <3>2. (dst + at) % 4 = 0 \/ size - at = 0
      BY <2>1, <2>4
    <3>3. at > 0 => ((dst + at) - width) % width = 0 /\ ((src + at) - width) % width = 0
      BY <1>2
    <3>. QED
      BY <2>1, <3>1, <3>2, <3>3
  <2>. QED
    BY <2>1, <2>2, <2>3, <2>4
<1>. QED
  BY <1>1, <1>2

\* Each loop, and what it leaves to the next.
LEMMA LoopRight == ASSUME C!CopyInv, C!WholeWords \/ C!Tail \/ C!Halves \/ C!Bytes PROVE C!CopyInv'
<1>. USE DEF C!CopyInv, C!CopyRight, C!Even, C!Left, C!WordWise, C!HalfWise
<1>1. CASE C!WholeWords
  BY <1>1 DEF C!WholeWords, C!Copy, C!Skip
<1>2. CASE C!Tail
  BY <1>2 DEF C!Tail, C!Copy, C!Skip
<1>3. CASE C!Halves
  BY <1>3 DEF C!Halves, C!Copy, C!Skip
<1>4. CASE C!Bytes
  BY <1>4 DEF C!Bytes, C!Copy, C!Skip
<1>. QED
  BY <1>1, <1>2, <1>3, <1>4

\* It starts at the beginning, or rests.
LEMMA CopyStarts == ASSUME C!Init \/ C!Idle PROVE C!CopyInv
<1>. USE CopyAssumption DEF C!CopyInv, C!CopyRight, C!Even, C!Left, C!WordWise, C!HalfWise
<1>1. CASE C!Idle
  BY <1>1 DEF C!Idle
<1>2. CASE C!Init
  BY <1>2 DEF C!Init
<1>. QED
  BY <1>1, <1>2

-----------------------------------------------------------------------------
(* e-meshdump: the packets of a copy, and of a dump *)

\* One row of packets.
LEMMA ChunksTile ==
  ASSUME NEW d \in Nat, NEW s \in Nat \cup {-1}, NEW i \in Nat, NEW k \in Nat, NEW w \in {1, 2, 4, 8},
         k > 0 => (d + i) % (IF w = 8 THEN 4 ELSE w) = 0
  PROVE  D!Tiles(D!Chunks(d, s, i, k, w), d + i, k * w, D!From(s, i))
<1>. DEFINE P == D!Chunks(d, s, i, k, w)
            F(j) == IF s = -1 THEN -1 ELSE s + i + (j - 1) * w
<1>1. \A j \in Nat : j * w \in Nat
  OBVIOUS
<1>2. \A j \in 1 .. k : (j - 1) * w \in Nat
  BY <1>1
<1>3. /\ P = [j \in 1 .. k |-> [at |-> d + i + (j - 1) * w, from |-> F(j), width |-> w]]
      /\ \A j \in 1 .. k : [at |-> d + i + (j - 1) * w, from |-> F(j), width |-> w] \in D!Packet
  BY <1>2 DEF D!Chunks, D!Zeros, D!Packet
<1>4. P \in Seq(D!Packet) /\ Len(P) = k
  <2>1. P \in [1 .. k -> D!Packet]
    BY <1>3
  <2>. HIDE DEF P
  <2>. QED
    BY <2>1
<1>5. \A j \in 1 .. k : P[j].at = d + i + (j - 1) * w /\ P[j].width = w /\ P[j].from = F(j)
  BY <1>3
<1>. HIDE DEF P
<1>6. ASSUME NEW j \in 1 .. k
      PROVE  /\ D!Aligned(P[j]) /\ d + i <= P[j].at /\ P[j].at + P[j].width <= d + i + k * w
             /\ P[j].from = D!From(D!From(s, i), P[j].at - (d + i))
  <2>1. (d + i) % (IF w = 8 THEN 4 ELSE w) = 0
    BY <1>6
  <2>2. CASE w = 1
    BY <1>5, <2>1, <2>2 DEF D!Aligned, D!From, D!Zeros
  <2>3. CASE w = 2
    BY <1>5, <2>1, <2>3 DEF D!Aligned, D!From, D!Zeros
  <2>4. CASE w = 4
    BY <1>5, <2>1, <2>4 DEF D!Aligned, D!From, D!Zeros
  <2>5. CASE w = 8
    BY <1>5, <2>1, <2>5 DEF D!Aligned, D!From, D!Zeros
  <2>. QED
    BY <2>2, <2>3, <2>4, <2>5
<1>7. ASSUME NEW x \in d + i .. d + i + k * w - 1
      PROVE  \E j \in 1 .. k : \A l \in 1 .. k : D!Covers(P[l], x) <=> l = j
  <2>1. CASE w = 1
    <3>. DEFINE j == x - (d + i) + 1
    <3>1. j \in 1 .. k
      BY <2>1
    <3>2. ASSUME NEW l \in 1 .. k PROVE D!Covers(P[l], x) <=> l = j
      <4>1. P[l].at = d + i + (l - 1) * 1 /\ P[l].width = 1
        BY <1>5, <2>1
      <4>. QED
        BY <2>1, <4>1 DEF D!Covers
    <3>. QED
      BY <3>1, <3>2
  <2>2. CASE w = 2
    <3>. DEFINE j == (x - (d + i)) \div 2 + 1
    <3>1. j \in 1 .. k
      BY <2>2
    <3>2. ASSUME NEW l \in 1 .. k PROVE D!Covers(P[l], x) <=> l = j
      <4>1. P[l].at = d + i + (l - 1) * 2 /\ P[l].width = 2
        BY <1>5, <2>2
      <4>2. x \in Nat /\ x >= d + i
        OBVIOUS
      <4>3. D!Covers(P[l], x) <=> 2 * (l - 1) <= x - (d + i) /\ x - (d + i) < 2 * (l - 1) + 2
        BY <4>1, <4>2 DEF D!Covers
      <4>. QED
        BY <4>2, <4>3
    <3>. QED
      BY <3>1, <3>2
  <2>3. CASE w = 4
    <3>. DEFINE j == (x - (d + i)) \div 4 + 1
    <3>1. j \in 1 .. k
      BY <2>3
    <3>2. ASSUME NEW l \in 1 .. k PROVE D!Covers(P[l], x) <=> l = j
      <4>1. P[l].at = d + i + (l - 1) * 4 /\ P[l].width = 4
        BY <1>5, <2>3
      <4>2. x \in Nat /\ x >= d + i
        OBVIOUS
      <4>3. D!Covers(P[l], x) <=> 4 * (l - 1) <= x - (d + i) /\ x - (d + i) < 4 * (l - 1) + 4
        BY <4>1, <4>2 DEF D!Covers
      <4>. QED
        BY <4>2, <4>3
    <3>. QED
      BY <3>1, <3>2
  <2>4. CASE w = 8
    <3>. DEFINE j == (x - (d + i)) \div 8 + 1
    <3>1. j \in 1 .. k
      BY <2>4
    <3>2. ASSUME NEW l \in 1 .. k PROVE D!Covers(P[l], x) <=> l = j
      <4>1. P[l].at = d + i + (l - 1) * 8 /\ P[l].width = 8
        BY <1>5, <2>4
      <4>2. x \in Nat /\ x >= d + i
        OBVIOUS
      <4>3. D!Covers(P[l], x) <=> 8 * (l - 1) <= x - (d + i) /\ x - (d + i) < 8 * (l - 1) + 8
        BY <4>1, <4>2 DEF D!Covers
      <4>. QED
        BY <4>2, <4>3
    <3>. QED
      BY <3>1, <3>2
  <2>. QED
    BY <2>1, <2>2, <2>3, <2>4
<1>8. k * w \in Nat
  BY <1>1
<1>9. D!Tiles(P, d + i, k * w, D!From(s, i))
  BY <1>4, <1>6, <1>7, <1>8 DEF D!Tiles
<1>. QED
  BY <1>9 DEF P

\* What a sequence of packets is made of.
LEMMA PacketsTyped ==
  ASSUME NEW P \in Seq(D!Packet)
  PROVE  \A k \in 1 .. Len(P) : P[k].at \in Nat /\ P[k].width \in {1, 2, 4, 8} /\ P[k].from \in Int
<1>1. ASSUME NEW k \in 1 .. Len(P) PROVE P[k] \in D!Packet
  OBVIOUS
<1>. QED
  BY <1>1 DEF D!Packet

\* One copy behind another.
LEMMA TilesJoin ==
  ASSUME NEW P, NEW Q, NEW a \in Nat, NEW n \in Nat, NEW m \in Nat, NEW s \in Nat \cup {-1},
         D!Tiles(P, a, n, s), D!Tiles(Q, a + n, m, D!From(s, n))
  PROVE  D!Tiles(P \o Q, a, n + m, s)
<1>1. /\ P \in Seq(D!Packet) /\ Q \in Seq(D!Packet)
      /\ \A k \in 1 .. Len(P) : P[k].at \in Int /\ P[k].width \in {1, 2, 4, 8}
      /\ \A k \in 1 .. Len(Q) : Q[k].at \in Int /\ Q[k].width \in {1, 2, 4, 8}
  <2>1. P \in Seq(D!Packet) /\ Q \in Seq(D!Packet)
    BY DEF D!Tiles
  <2>2. \A k \in 1 .. Len(P) : P[k].at \in Int /\ P[k].width \in {1, 2, 4, 8}
    BY <2>1, PacketsTyped
  <2>3. \A k \in 1 .. Len(Q) : Q[k].at \in Int /\ Q[k].width \in {1, 2, 4, 8}
    BY <2>1, PacketsTyped
  <2>. QED
    BY <2>1, <2>2, <2>3
<1>. DEFINE R == P \o Q
<1>2. /\ R \in Seq(D!Packet) /\ Len(R) = Len(P) + Len(Q) /\ Len(P) \in Nat /\ Len(Q) \in Nat
      /\ \A k \in 1 .. Len(P) : R[k] = P[k]
      /\ \A k \in Len(P) + 1 .. Len(R) : R[k] = Q[k - Len(P)] /\ k - Len(P) \in 1 .. Len(Q)
  BY <1>1
<1>. HIDE DEF R
<1>3. ASSUME NEW k \in 1 .. Len(R)
      PROVE  /\ D!Aligned(R[k]) /\ a <= R[k].at /\ R[k].at + R[k].width <= a + (n + m)
             /\ R[k].from = D!From(s, R[k].at - a)
  <2>1. CASE k \in 1 .. Len(P)
    <3>1. /\ D!Aligned(P[k]) /\ a <= P[k].at /\ P[k].at + P[k].width <= a + n /\ P[k].from = D!From(s, P[k].at - a)
          /\ R[k] = P[k]
      BY <1>2, <2>1 DEF D!Tiles
    <3>2. PICK p \in Int : p = P[k].at
      BY <1>1, <2>1
    <3>3. PICK w \in Nat : w = P[k].width
      BY <1>1, <2>1
    <3>4. p + w <= a + (n + m)
      <4>1. p + w <= a + n
        BY <3>1, <3>2, <3>3
      <4>. QED
        BY <4>1
    <3>. QED
      BY <3>1, <3>2, <3>3, <3>4
  <2>2. CASE k \in Len(P) + 1 .. Len(R)
    <3>1. PICK l \in 1 .. Len(Q) : R[k] = Q[l]
      BY <1>2, <2>2
    <3>2. /\ D!Aligned(Q[l]) /\ a + n <= Q[l].at /\ Q[l].at + Q[l].width <= a + n + m
          /\ Q[l].from = D!From(D!From(s, n), Q[l].at - (a + n))
      BY DEF D!Tiles
    <3>3. PICK q \in Int : q = Q[l].at
      BY <1>1
    <3>4. PICK w \in Nat : w = Q[l].width
      BY <1>1
    <3>5. a <= q /\ q + w <= a + (n + m)
      BY <3>2, <3>3, <3>4
    <3>6. D!From(D!From(s, n), q - (a + n)) = D!From(s, q - a)
      <4>1. CASE s = -1
        BY <4>1 DEF D!From, D!Zeros
      <4>2. CASE s \in Nat
        <5>1. D!From(s, n) = s + n /\ s + n # -1 /\ s # -1
          BY <4>2 DEF D!From, D!Zeros
        <5>2. s + n + (q - (a + n)) = s + (q - a)
          BY <3>3, <4>2
        <5>. QED
          BY <5>1, <5>2 DEF D!From, D!Zeros
      <4>. QED
        BY <4>1, <4>2
    <3>. QED
      BY <3>1, <3>2, <3>3, <3>4, <3>5, <3>6
  <2>. QED
    BY <1>2, <2>1, <2>2
<1>4. ASSUME NEW x \in a .. a + (n + m) - 1
      PROVE  \E k \in 1 .. Len(R) : \A l \in 1 .. Len(R) : D!Covers(R[l], x) <=> l = k
  <2>1. CASE x < a + n
    <3>1. PICK k \in 1 .. Len(P) : \A l \in 1 .. Len(P) : D!Covers(P[l], x) <=> l = k
      BY <2>1 DEF D!Tiles
    <3>2. ASSUME NEW l \in 1 .. Len(Q) PROVE ~D!Covers(Q[l], x)
      <4>1. a + n <= Q[l].at /\ Q[l].at \in Int /\ Q[l].width \in {1, 2, 4, 8}
        BY <1>1 DEF D!Tiles
      <4>. QED
        BY <2>1, <4>1 DEF D!Covers
    <3>3. ASSUME NEW l \in 1 .. Len(R) PROVE D!Covers(R[l], x) <=> l = k
      <4>1. CASE l \in 1 .. Len(P)
        BY <1>2, <3>1, <4>1
      <4>2. CASE l \in Len(P) + 1 .. Len(R)
        <5>1. R[l] = Q[l - Len(P)] /\ l - Len(P) \in 1 .. Len(Q) /\ l # k
          BY <1>2, <4>2
        <5>. QED
          BY <3>2, <5>1
      <4>. QED
        BY <1>2, <4>1, <4>2
    <3>. QED
      BY <1>2, <3>3
  <2>2. CASE x >= a + n
    <3>0. x \in a + n .. a + n + m - 1
      BY <2>2
    <3>1. PICK k \in 1 .. Len(Q) : \A l \in 1 .. Len(Q) : D!Covers(Q[l], x) <=> l = k
      BY <3>0 DEF D!Tiles
    <3>2. ASSUME NEW l \in 1 .. Len(P) PROVE ~D!Covers(P[l], x)
      <4>1. P[l].at + P[l].width <= a + n
        BY DEF D!Tiles
      <4>2. PICK p \in Int : p = P[l].at
        BY <1>1
      <4>3. PICK w \in Nat : w = P[l].width
        BY <1>1
      <4>4. ~(x < p + w)
        <5>1. p + w <= a + n
          BY <4>1, <4>2, <4>3
        <5>. QED
          BY <2>2, <5>1
      <4>. QED
        BY <4>2, <4>3, <4>4 DEF D!Covers
    <3>3. ASSUME NEW l \in 1 .. Len(R) PROVE D!Covers(R[l], x) <=> l = Len(P) + k
      <4>1. CASE l \in 1 .. Len(P)
        BY <1>2, <3>2, <4>1
      <4>2. CASE l \in Len(P) + 1 .. Len(R)
        <5>1. R[l] = Q[l - Len(P)] /\ l - Len(P) \in 1 .. Len(Q)
          BY <1>2, <4>2
        <5>2. D!Covers(Q[l - Len(P)], x) <=> l - Len(P) = k
          BY <3>1, <5>1
        <5>. QED
          BY <1>2, <5>1, <5>2
      <4>. QED
        BY <1>2, <4>1, <4>2
    <3>4. Len(P) + k \in 1 .. Len(R)
      BY <1>2
    <3>. QED
      BY <3>3, <3>4
  <2>. QED
    BY <2>1, <2>2
<1>. QED
  <2>1. D!Tiles(R, a, n + m, s)
    BY <1>2, <1>3, <1>4 DEF D!Tiles
  <2>. QED
    BY <2>1 DEF R


\* Rows of one width each.
LEMMA RowsTile ==
  ASSUME NEW d \in Nat, NEW s \in Nat \cup {-1}, NEW i \in Nat, NEW k \in Nat
  PROVE  /\ D!Tiles(D!Chunks(d, s, i, k, 1), d + i, k, D!From(s, i))
         /\ (k > 0 => (d + i) % 2 = 0) => D!Tiles(D!Chunks(d, s, i, k, 2), d + i, 2 * k, D!From(s, i))
         /\ (k > 0 => (d + i) % 4 = 0) => D!Tiles(D!Chunks(d, s, i, k, 4), d + i, 4 * k, D!From(s, i))
         /\ (k > 0 => (d + i) % 4 = 0) => D!Tiles(D!Chunks(d, s, i, k, 8), d + i, 8 * k, D!From(s, i))
<1>1. D!Tiles(D!Chunks(d, s, i, k, 1), d + i, k, D!From(s, i))
  <2>1. D!Tiles(D!Chunks(d, s, i, k, 1), d + i, k * 1, D!From(s, i))
    <3>1. 1 \in {1, 2, 4, 8} /\ (k > 0 => (d + i) % (IF 1 = 8 THEN 4 ELSE 1) = 0)
      OBVIOUS
    <3>. QED
      BY <3>1, ChunksTile
  <2>2. k * 1 = k
    OBVIOUS
  <2>. QED
    BY <2>1, <2>2
<1>2. ASSUME k > 0 => (d + i) % 2 = 0 PROVE D!Tiles(D!Chunks(d, s, i, k, 2), d + i, 2 * k, D!From(s, i))
  <2>1. D!Tiles(D!Chunks(d, s, i, k, 2), d + i, k * 2, D!From(s, i))
    <3>1. 2 \in {1, 2, 4, 8} /\ (k > 0 => (d + i) % (IF 2 = 8 THEN 4 ELSE 2) = 0)
      BY <1>2
    <3>. QED
      BY <3>1, ChunksTile
  <2>2. k * 2 = 2 * k
    OBVIOUS
  <2>. QED
    BY <2>1, <2>2
<1>3. ASSUME k > 0 => (d + i) % 4 = 0 PROVE D!Tiles(D!Chunks(d, s, i, k, 4), d + i, 4 * k, D!From(s, i))
  <2>1. D!Tiles(D!Chunks(d, s, i, k, 4), d + i, k * 4, D!From(s, i))
    <3>1. 4 \in {1, 2, 4, 8} /\ (k > 0 => (d + i) % (IF 4 = 8 THEN 4 ELSE 4) = 0)
      BY <1>3
    <3>. QED
      BY <3>1, ChunksTile
  <2>2. k * 4 = 4 * k
    OBVIOUS
  <2>. QED
    BY <2>1, <2>2
<1>4. ASSUME k > 0 => (d + i) % 4 = 0 PROVE D!Tiles(D!Chunks(d, s, i, k, 8), d + i, 8 * k, D!From(s, i))
  <2>1. D!Tiles(D!Chunks(d, s, i, k, 8), d + i, k * 8, D!From(s, i))
    <3>1. 8 \in {1, 2, 4, 8} /\ (k > 0 => (d + i) % (IF 8 = 8 THEN 4 ELSE 8) = 0)
      BY <1>4
    <3>. QED
      BY <3>1, ChunksTile
  <2>2. k * 8 = 8 * k
    OBVIOUS
  <2>. QED
    BY <2>1, <2>2
<1>. QED
  BY <1>1, <1>2, <1>3, <1>4

\* One copy behind another, with sums as they come.
LEMMA TilesAfter ==
  ASSUME NEW P, NEW Q, NEW a \in Nat, NEW n \in Nat, NEW m \in Nat, NEW l \in Nat, NEW s \in Nat \cup {-1},
         D!Tiles(P, a, n, s), D!Tiles(Q, a + n, m, D!From(s, n)), n + m = l
  PROVE  D!Tiles(P \o Q, a, l, s)
<1>1. D!Tiles(P \o Q, a, n + m, s)
  BY TilesJoin
<1>. QED
  BY <1>1

\* How a copy is cut when both sides are alike as far as words go.
LEMMA WordWiseTiles ==
  ASSUME NEW d \in Nat, NEW s \in Nat \cup {-1}, NEW n \in Nat, ~D!TwoByteHead(d, s, n)
  PROVE  D!Tiles(D!WordWise(d, s, n), d, n, s)
<1>1. D!From(s, 0) = s /\ \A i, j \in Nat : D!From(D!From(s, i), j) = D!From(s, i + j)
  BY DEF D!From, D!Zeros
<1>2. \A i \in Nat : D!From(s, i) \in Nat \cup {-1}
  BY DEF D!From, D!Zeros
<1>3. PICK odd : odd = D!Smaller(n, d % 2)
  OBVIOUS
<1>4. PICK head : head = D!Smaller(n, (4 - (d % 4)) % 4)
  OBVIOUS
<1>5. /\ odd \in Nat /\ head \in Nat /\ odd <= head /\ head <= n /\ head - odd \in Nat
      /\ (head < n => (d + head) % 4 = 0)
  <2>1. CASE d % 4 = 0
    BY <1>3, <1>4, <2>1 DEF D!Smaller
  <2>2. CASE d % 4 = 1
    BY <1>3, <1>4, <2>2 DEF D!Smaller
  <2>3. CASE d % 4 = 2
    BY <1>3, <1>4, <2>3 DEF D!Smaller
  <2>4. CASE d % 4 = 3
    BY <1>3, <1>4, <2>4 DEF D!Smaller
  <2>. QED
    BY <2>1, <2>2, <2>3, <2>4
<1>6. PICK doubles : doubles = (n - head) \div 8
  OBVIOUS
<1>7. PICK words : words = ((n - head) % 8) \div 4
  OBVIOUS
<1>8. PICK i : i = head + 8 * doubles + 4 * words
  OBVIOUS
<1>9. /\ doubles \in Nat /\ words \in 0 .. 1 /\ i \in Nat /\ i <= n /\ n - i \in 0 .. 3
      /\ (doubles > 0 => head < n) /\ (words > 0 => head < n) /\ (i < n => head < n)
  BY <1>5, <1>6, <1>7, <1>8
<1>10. /\ (doubles > 0 => (d + head) % 4 = 0) /\ (words > 0 => (d + (head + 8 * doubles)) % 4 = 0)
       /\ (i < n => (d + i) % 2 = 0)
  BY <1>5, <1>8, <1>9
<1>11. PICK halves : halves = (n - i) \div 2
  OBVIOUS
<1>12. PICK last : last = (n - i) % 2
  OBVIOUS
<1>13. /\ halves \in Nat /\ last \in Nat /\ i + 2 * halves \in Nat /\ i + 2 * halves + last = n
       /\ 2 * halves + last = n - i /\ (halves > 0 => (d + i) % 2 = 0)
  BY <1>9, <1>10, <1>11, <1>12
<1>. DEFINE P1 == D!Chunks(d, s, 0, odd, 1)
            P2 == D!Chunks(d, s, odd, head - odd, 1)
            P3 == D!Chunks(d, s, head, doubles, 8)
            P4 == D!Chunks(d, s, head + 8 * doubles, words, 4)
            P5 == D!Chunks(d, s, i, halves, 2)
            P6 == D!Chunks(d, s, i + 2 * halves, last, 1)
<1>14. D!WordWise(d, s, n) = P1 \o P2 \o P3 \o P4 \o (P5 \o P6)
  BY <1>3, <1>4, <1>6, <1>7, <1>8, <1>11, <1>12, ZenonT(60) DEF D!WordWise, D!Remainder
<1>15. D!Tiles(P1, d, odd, s)
  <2>1. D!Tiles(P1, d + 0, odd, D!From(s, 0))
    BY <1>5, RowsTile
  <2>. QED
    BY <1>1, <2>1
<1>16. D!Tiles(P2, d + odd, head - odd, D!From(s, odd))
  BY <1>5, RowsTile
<1>17. D!Tiles(P3, d + head, 8 * doubles, D!From(s, head))
  BY <1>5, <1>9, <1>10, RowsTile
<1>18. D!Tiles(P4, d + (head + 8 * doubles), 4 * words, D!From(s, head + 8 * doubles))
  <2>1. head + 8 * doubles \in Nat /\ words \in Nat
    BY <1>5, <1>9
  <2>. QED
    BY <1>10, <2>1, RowsTile
<1>19. D!Tiles(P5, d + i, 2 * halves, D!From(s, i))
  BY <1>9, <1>13, RowsTile
<1>20. D!Tiles(P6, d + i + 2 * halves, last, D!From(D!From(s, i), 2 * halves))
  <2>1. D!Tiles(P6, d + (i + 2 * halves), last, D!From(s, i + 2 * halves))
    BY <1>13, RowsTile
  <2>2. d + (i + 2 * halves) = d + i + 2 * halves /\ 2 * halves \in Nat
    BY <1>9, <1>13
  <2>3. D!From(s, i + 2 * halves) = D!From(D!From(s, i), 2 * halves)
    BY <1>1, <1>9, <2>2
  <2>. QED
    BY <2>1, <2>2, <2>3
<1>. HIDE DEF P1, P2, P3, P4, P5, P6
<1>21. D!Tiles(P1 \o P2, d, head, s)
  <2>1. odd + (head - odd) = head
    BY <1>5
  <2>. QED
    BY <1>5, <1>15, <1>16, <2>1, TilesAfter
<1>22. D!Tiles(P1 \o P2 \o P3, d, head + 8 * doubles, s) /\ head + 8 * doubles \in Nat
  <2>1. 8 * doubles \in Nat /\ head + 8 * doubles \in Nat
    BY <1>5, <1>9
  <2>. QED
    BY <1>5, <1>17, <1>21, <2>1, TilesAfter
<1>23. D!Tiles(P1 \o P2 \o P3 \o P4, d, i, s)
  <2>1. 4 * words \in Nat
    BY <1>9
  <2>. QED
    BY <1>8, <1>9, <1>18, <1>22, <2>1, TilesAfter
<1>24. D!Tiles(P5 \o P6, d + i, n - i, D!From(s, i))
  <2>1. d + i \in Nat /\ 2 * halves \in Nat /\ n - i \in Nat /\ D!From(s, i) \in Nat \cup {-1}
    BY <1>2, <1>9, <1>13
  <2>. QED
    BY <1>13, <1>19, <1>20, <2>1, TilesAfter
<1>25. D!Tiles(P1 \o P2 \o P3 \o P4 \o (P5 \o P6), d, n, s)
  <2>1. n - i \in Nat /\ i + (n - i) = n
    BY <1>9
  <2>. QED
    BY <1>9, <1>23, <1>24, <2>1, TilesAfter
<1>. QED
  BY <1>14, <1>25

\* When they are alike as far as half words go.
LEMMA HalfWiseTiles ==
  ASSUME NEW d \in Nat, NEW s \in Nat \cup {-1}, NEW n \in Nat
  PROVE  D!Tiles(D!HalfWise(d, s, n), d, n, s)
<1>1. D!From(s, 0) = s
  BY DEF D!From, D!Zeros
<1>2. PICK odd : odd = D!Smaller(n, d % 2)
  OBVIOUS
<1>3. PICK halves : halves = (n - odd) \div 2
  OBVIOUS
<1>4. odd \in Nat /\ odd <= n /\ (odd < n => (d + odd) % 2 = 0)
  BY <1>2 DEF D!Smaller
<1>5. /\ halves \in Nat /\ odd + 2 * halves \in Nat /\ 2 * halves \in Nat /\ n - odd - 2 * halves \in Nat
      /\ (halves > 0 => (d + odd) % 2 = 0) /\ odd + 2 * halves + (n - odd - 2 * halves) = n
  BY <1>3, <1>4
<1>. DEFINE P1 == D!Chunks(d, s, 0, odd, 1)
            P2 == D!Chunks(d, s, odd, halves, 2)
            P3 == D!Chunks(d, s, odd + 2 * halves, n - odd - 2 * halves, 1)
<1>6. D!HalfWise(d, s, n) = P1 \o P2 \o P3
  BY <1>2, <1>3 DEF D!HalfWise
<1>7. D!Tiles(P1, d, odd, s)
  <2>1. D!Tiles(P1, d + 0, odd, D!From(s, 0))
    BY <1>4, RowsTile
  <2>. QED
    BY <1>1, <2>1
<1>8. D!Tiles(P2, d + odd, 2 * halves, D!From(s, odd))
  BY <1>4, <1>5, RowsTile
<1>9. D!Tiles(P3, d + (odd + 2 * halves), n - odd - 2 * halves, D!From(s, odd + 2 * halves))
  BY <1>5, RowsTile
<1>. HIDE DEF P1, P2, P3
<1>10. D!Tiles(P1 \o P2, d, odd + 2 * halves, s)
  BY <1>4, <1>5, <1>7, <1>8, TilesAfter
<1>11. D!Tiles(P1 \o P2 \o P3, d, n, s)
  BY <1>5, <1>9, <1>10, TilesAfter
<1>. QED
  BY <1>6, <1>11

\* A copy of mesh_memcpy, but for the one that kills the tool.
LEMMA MemcpyTiles ==
  ASSUME NEW d \in Nat, NEW s \in Nat \cup {-1}, NEW n \in Nat, ~D!TwoByteHead(d, s, n)
  PROVE  D!Tiles(D!mesh_memcpy(d, s, n), d, n, s)
<1>1. CASE (d - D!Source(s)) % 4 = 0
  BY <1>1, WordWiseTiles DEF D!mesh_memcpy
<1>2. CASE (d - D!Source(s)) % 4 = 2
  BY <1>2, HalfWiseTiles DEF D!mesh_memcpy
<1>3. CASE (d - D!Source(s)) % 4 # 0 /\ (d - D!Source(s)) % 4 # 2
  <2>1. D!mesh_memcpy(d, s, n) = D!Chunks(d, s, 0, n, 1)
    BY <1>3 DEF D!mesh_memcpy
  <2>2. D!Tiles(D!Chunks(d, s, 0, n, 1), d + 0, n, D!From(s, 0))
    BY RowsTile
  <2>3. D!From(s, 0) = s
    BY DEF D!From, D!Zeros
  <2>. QED
    BY <2>1, <2>2, <2>3
<1>. QED
  BY <1>1, <1>2, <1>3

\* Zeros come from an aligned place: the two bytes are never written to the tool's own memory.
LEMMA ZerosAligned ==
  ASSUME NEW d \in Nat, NEW n \in Nat
  PROVE  ~D!TwoByteHead(d, -1, n)
<1>1. CASE d % 4 = 0
  <2>1. d % 2 = 0
    BY <1>1
  <2>. QED
    BY <1>1, <2>1 DEF D!TwoByteHead, D!Source, D!Zeros
<1>2. CASE d % 4 # 0
  BY <1>2 DEF D!TwoByteHead, D!Source, D!Zeros
<1>. QED
  BY <1>1, <1>2


\* What the assumption says of the executable at hand.
LEMMA ExeFacts ==
  ASSUME exe \in Executables, coreid \in CoreIds
  PROVE  /\ exe # <<>> /\ exe \in Seq(D!Phdr) /\ Len(exe) \in Nat \ {0}
         /\ \A i \in 1 .. Len(exe) :
              /\ D!Place(i) \in Nat /\ exe[i].offset \in Nat /\ exe[i].filesz \in Nat /\ exe[i].memsz \in Nat
              /\ exe[i].filesz <= exe[i].memsz
         /\ \A i, j \in 1 .. Len(exe) : i # j =>
              \/ D!Place(i) + exe[i].memsz <= D!Place(j) \/ D!Place(j) + exe[j].memsz <= D!Place(i)
<1>1. D!Loadable(exe, coreid) /\ CoreSpace \in Nat /\ coreid \in Nat
  BY DumpAssumption
<1>2. exe # <<>> /\ exe \in Seq(D!Phdr)
  BY <1>1 DEF D!Loadable
<1>3. Len(exe) \in Nat \ {0}
  BY <1>2
<1>4. ASSUME NEW i \in 1 .. Len(exe)
      PROVE  exe[i].vaddr \in Nat /\ exe[i].offset \in Nat /\ exe[i].filesz \in Nat /\ exe[i].memsz \in Nat
  <2>1. exe[i] \in D!Phdr
    BY <1>2
  <2>. QED
    BY <2>1 DEF D!Phdr
<1>5. coreid * CoreSpace \in Nat
  BY <1>1
<1>6. \A i \in 1 .. Len(exe) : D!Place(i) \in Nat
  BY <1>4, <1>5 DEF D!Place, D!PlaceOf
<1>7. (\A i \in 1 .. Len(exe) : exe[i].filesz <= exe[i].memsz)
      /\ \A i, j \in 1 .. Len(exe) : i # j =>
              \/ D!Place(i) + exe[i].memsz <= D!Place(j) \/ D!Place(j) + exe[j].memsz <= D!Place(i)
  BY <1>1 DEF D!Loadable, D!Place
<1>. QED
  BY <1>2, <1>3, <1>4, <1>6, <1>7

\* L pieces of memory at Q, of lengths Z, that lie apart; packets within their first W bytes; a packet
\* for byte b of piece i, with what F and O say of it.
Apart(L, Q, Z) == \A i, j \in 1 .. L : i # j => Q[i] + Z[i] <= Q[j] \/ Q[j] + Z[j] <= Q[i]
InPieces(P, L, Q, W) == \A k \in 1 .. Len(P) : \E i \in 1 .. L : Q[i] <= P[k].at /\ P[k].at + P[k].width <= Q[i] + W[i]
There(P, x, from) ==
    \E k \in 1 .. Len(P) : /\ \A l \in 1 .. Len(P) : D!Covers(P[l], x) <=> l = k
                           /\ P[k].from = IF from = -1 THEN -1 ELSE from - (x - P[k].at)
AllThere(P, L, Q, W, F, O) ==
    \A i \in 1 .. L : \A b \in 0 .. W[i] - 1 : There(P, Q[i] + b, IF b < F[i] THEN O[i] + b ELSE -1)

\* A packet for a byte is not disturbed by packets elsewhere.
LEMMA ThereBefore ==
  ASSUME NEW P \in Seq(D!Packet), NEW M \in Seq(D!Packet), NEW x, NEW y, There(P, x, y),
         \A l \in 1 .. Len(M) : ~D!Covers(M[l], x)
  PROVE  There(P \o M, x, y)
<1>1. PICK R : R = P \o M
  OBVIOUS
<1>2. /\ Len(R) = Len(P) + Len(M) /\ Len(P) \in Nat /\ Len(M) \in Nat
      /\ \A k \in 1 .. Len(P) : R[k] = P[k]
      /\ \A k \in Len(P) + 1 .. Len(R) : R[k] = M[k - Len(P)] /\ k - Len(P) \in 1 .. Len(M)
  BY <1>1
<1>3. PICK k \in 1 .. Len(P) : /\ \A l \in 1 .. Len(P) : D!Covers(P[l], x) <=> l = k
                               /\ P[k].from = IF y = -1 THEN -1 ELSE y - (x - P[k].at)
  BY DEF There
<1>4. ASSUME NEW l \in 1 .. Len(R) PROVE D!Covers(R[l], x) <=> l = k
  <2>1. CASE l \in 1 .. Len(P)
    BY <1>2, <1>3, <2>1
  <2>2. CASE l \in Len(P) + 1 .. Len(R)
    <3>1. R[l] = M[l - Len(P)] /\ l - Len(P) \in 1 .. Len(M)
      BY <1>2, <2>2
    <3>2. l # k
      BY <1>2, <2>2
    <3>. QED
      BY <3>1, <3>2
  <2>. QED
    BY <1>2, <2>1, <2>2
<1>5. k \in 1 .. Len(R) /\ R[k] = P[k]
  BY <1>2
<1>. QED
  BY <1>1, <1>3, <1>4, <1>5 DEF There

\* Nor by packets before it.
LEMMA ThereBehind ==
  ASSUME NEW P \in Seq(D!Packet), NEW M \in Seq(D!Packet), NEW x, NEW y, There(M, x, y),
         \A l \in 1 .. Len(P) : ~D!Covers(P[l], x)
  PROVE  There(P \o M, x, y)
<1>1. PICK R : R = P \o M
  OBVIOUS
<1>2. /\ Len(R) = Len(P) + Len(M) /\ Len(P) \in Nat /\ Len(M) \in Nat
      /\ \A k \in 1 .. Len(P) : R[k] = P[k]
      /\ \A k \in Len(P) + 1 .. Len(R) : R[k] = M[k - Len(P)] /\ k - Len(P) \in 1 .. Len(M)
  BY <1>1
<1>3. PICK k \in 1 .. Len(M) : /\ \A l \in 1 .. Len(M) : D!Covers(M[l], x) <=> l = k
                               /\ M[k].from = IF y = -1 THEN -1 ELSE y - (x - M[k].at)
  BY DEF There
<1>4. PICK j : j = Len(P) + k
  OBVIOUS
<1>5. j \in Len(P) + 1 .. Len(R) /\ j - Len(P) = k /\ j \in 1 .. Len(R)
  BY <1>2, <1>4
<1>6. R[j] = M[k]
  BY <1>2, <1>5
<1>7. ASSUME NEW l \in 1 .. Len(R) PROVE D!Covers(R[l], x) <=> l = j
  <2>1. CASE l \in 1 .. Len(P)
    <3>1. l # j
      BY <1>2, <1>4, <2>1
    <3>. QED
      BY <1>2, <2>1, <3>1
  <2>2. CASE l \in Len(P) + 1 .. Len(R)
    <3>1. R[l] = M[l - Len(P)] /\ l - Len(P) \in 1 .. Len(M)
      BY <1>2, <2>2
    <3>2. D!Covers(M[l - Len(P)], x) <=> l - Len(P) = k
      BY <1>3, <3>1
    <3>3. l - Len(P) = k <=> l = j
      BY <1>2, <1>4, <2>2
    <3>. QED
      BY <3>1, <3>2, <3>3
  <2>. QED
    BY <1>2, <2>1, <2>2
<1>. QED
  BY <1>1, <1>3, <1>5, <1>6, <1>7 DEF There

\* A packet beside a byte does not cover it.
LEMMA Beside ==
  ASSUME NEW M \in Seq(D!Packet), NEW l \in 1 .. Len(M), NEW x \in Nat, M[l].at > x \/ M[l].at + M[l].width <= x
  PROVE  ~D!Covers(M[l], x)
<1>1. M[l].at \in Nat /\ M[l].width \in {1, 2, 4, 8}
  BY PacketsTyped
<1>. QED
  BY <1>1 DEF D!Covers

\* Packets M that tile the n next bytes of piece h, from place s of the file on.
TilesNext(P, M, L, h, n, s, Q, Z, F, O, W) ==
    /\ P \in Seq(D!Packet) /\ M \in Seq(D!Packet) /\ L \in Nat /\ h \in 1 .. L /\ n \in Nat /\ s \in Nat \cup {-1}
    /\ Q \in [1 .. L -> Nat] /\ Z \in [1 .. L -> Nat] /\ F \in [1 .. L -> Nat] /\ O \in [1 .. L -> Nat] /\ W \in [1 .. L -> Nat]
    /\ Apart(L, Q, Z) /\ (\A i \in 1 .. L : W[i] <= Z[i]) /\ W[h] + n <= Z[h]
    /\ InPieces(P, L, Q, W) /\ AllThere(P, L, Q, W, F, O) /\ D!Tiles(M, Q[h] + W[h], n, s)
    /\ (W[h] + n <= F[h] /\ s = O[h] + W[h]) \/ (W[h] >= F[h] /\ s = -1)

\* They lie in the piece, and so do the older ones.
LEMMA MoreInPieces ==
  ASSUME NEW P, NEW M, NEW L, NEW h, NEW n, NEW s, NEW Q, NEW Z, NEW F, NEW O, NEW W, NEW V,
         TilesNext(P, M, L, h, n, s, Q, Z, F, O, W), V = [W EXCEPT ![h] = W[h] + n]
  PROVE  InPieces(P \o M, L, Q, V)
<1>1. P \in Seq(D!Packet) /\ M \in Seq(D!Packet)
  BY DEF TilesNext
<1>2. PICK a \in Nat : a = Q[h]
  BY DEF TilesNext
<1>3. PICK w \in Nat : w = W[h]
  BY DEF TilesNext
<1>4. n \in Nat /\ h \in 1 .. L /\ V[h] = w + n /\ \A i \in 1 .. L : i # h => V[i] = W[i]
  BY <1>3 DEF TilesNext
<1>5. ASSUME NEW k \in 1 .. Len(P) PROVE \E i \in 1 .. L : Q[i] <= P[k].at /\ P[k].at + P[k].width <= Q[i] + V[i]
  <2>1. PICK i \in 1 .. L : Q[i] <= P[k].at /\ P[k].at + P[k].width <= Q[i] + W[i]
    BY DEF TilesNext, InPieces
  <2>2. PICK p \in Nat : p = P[k].at
    BY <1>1, PacketsTyped
  <2>3. PICK g \in {1, 2, 4, 8} : g = P[k].width
    BY <1>1, PacketsTyped
  <2>4. CASE i = h
    <3>1. a <= p /\ p + g <= a + w
      BY <1>2, <1>3, <2>1, <2>2, <2>3, <2>4
    <3>2. p + g <= a + (w + n)
      BY <1>4, <3>1
    <3>. QED
      BY <1>2, <1>4, <2>2, <2>3, <3>1, <3>2
  <2>5. CASE i # h
    BY <1>4, <2>1, <2>5
  <2>. QED
    BY <2>4, <2>5
<1>6. ASSUME NEW k \in 1 .. Len(M) PROVE Q[h] <= M[k].at /\ M[k].at + M[k].width <= Q[h] + V[h]
  <2>1. PICK p \in Nat : p = M[k].at
    BY <1>1, PacketsTyped
  <2>2. PICK g \in {1, 2, 4, 8} : g = M[k].width
    BY <1>1, PacketsTyped
  <2>3. a + w <= p /\ p + g <= a + w + n
    BY <1>2, <1>3, <2>1, <2>2 DEF TilesNext, D!Tiles
  <2>4. a <= p /\ p + g <= a + (w + n)
    BY <1>4, <2>3
  <2>. QED
    BY <1>2, <1>4, <2>1, <2>2, <2>4
<1>7. ASSUME NEW k \in 1 .. Len(P \o M)
      PROVE  \E i \in 1 .. L : Q[i] <= (P \o M)[k].at /\ (P \o M)[k].at + (P \o M)[k].width <= Q[i] + V[i]
  <2>1. Len(P \o M) = Len(P) + Len(M) /\ Len(P) \in Nat /\ Len(M) \in Nat
    BY <1>1
  <2>2. CASE k \in 1 .. Len(P)
    <3>1. (P \o M)[k] = P[k]
      BY <1>1, <2>2
    <3>. QED
      BY <1>5, <2>2, <3>1
  <2>3. CASE k \in Len(P) + 1 .. Len(P) + Len(M)
    <3>1. (P \o M)[k] = M[k - Len(P)] /\ k - Len(P) \in 1 .. Len(M)
      BY <1>1, <2>3
    <3>. QED
      BY <1>4, <1>6, <3>1
  <2>. QED
    BY <2>1, <2>2, <2>3
<1>. QED
  BY <1>7 DEF InPieces

\* Each byte of them is there, and so are the older ones.
LEMMA MoreThere ==
  ASSUME NEW P, NEW M, NEW L, NEW h, NEW n, NEW s, NEW Q, NEW Z, NEW F, NEW O, NEW W, NEW V,
         TilesNext(P, M, L, h, n, s, Q, Z, F, O, W), V = [W EXCEPT ![h] = W[h] + n]
  PROVE  AllThere(P \o M, L, Q, V, F, O)
<1>1. P \in Seq(D!Packet) /\ M \in Seq(D!Packet) /\ n \in Nat /\ h \in 1 .. L
  BY DEF TilesNext
<1>2. PICK a \in Nat : a = Q[h]
  BY DEF TilesNext
<1>3. PICK w \in Nat : w = W[h]
  BY DEF TilesNext
<1>4. PICK z \in Nat : z = Z[h]
  BY DEF TilesNext
<1>5. PICK f \in Nat : f = F[h]
  BY DEF TilesNext
<1>6. PICK o \in Nat : o = O[h]
  BY DEF TilesNext
<1>7. w + n <= z /\ ((w + n <= f /\ s = o + w) \/ (w >= f /\ s = -1))
  BY <1>3, <1>4, <1>5, <1>6 DEF TilesNext
<1>8. V[h] = w + n /\ \A i \in 1 .. L : i # h => V[i] = W[i]
  BY <1>3 DEF TilesNext
<1>9. D!Tiles(M, a + w, n, s)
  BY <1>2, <1>3 DEF TilesNext
<1>10. ASSUME NEW i \in 1 .. L, NEW b \in 0 .. V[i] - 1
       PROVE  There(P \o M, Q[i] + b, IF b < F[i] THEN O[i] + b ELSE -1)
  <2>1. PICK q \in Nat : q = Q[i]
    BY DEF TilesNext
  <2>2. PICK v \in Nat : v = W[i]
    BY DEF TilesNext
  <2>3. PICK u \in Nat : u = Z[i]
    BY DEF TilesNext
  <2>4. v <= u /\ (i = h => q = a /\ v = w)
    BY <1>2, <1>3, <2>1, <2>2, <2>3 DEF TilesNext
  <2>5. i # h => q + u <= a \/ a + z <= q
    BY <1>1, <1>2, <1>4, <2>1, <2>3 DEF TilesNext, Apart
  <2>6. b \in Nat /\ q + b \in Nat /\ (i # h => b < v) /\ (i = h => b < w + n)
    <3>1. CASE i = h
      BY <1>1, <1>8, <3>1
    <3>2. CASE i # h
      BY <1>8, <2>2, <3>2
    <3>. QED
      BY <3>1, <3>2
  <2>7. CASE b < v
    <3>1. There(P, Q[i] + b, IF b < F[i] THEN O[i] + b ELSE -1)
      <4>1. b \in 0 .. W[i] - 1
        BY <2>2, <2>6, <2>7
      <4>. QED
        BY <4>1 DEF TilesNext, AllThere
    <3>2. ASSUME NEW l \in 1 .. Len(M) PROVE ~D!Covers(M[l], q + b)
      <4>1. PICK p \in Nat : p = M[l].at
        BY <1>1, PacketsTyped
      <4>2. PICK g \in {1, 2, 4, 8} : g = M[l].width
        BY <1>1, PacketsTyped
      <4>3. a + w <= p /\ p + g <= a + w + n
        BY <1>9, <4>1, <4>2 DEF D!Tiles
      <4>4. p > q + b \/ p + g <= q + b
        <5>1. CASE i = h
          BY <2>4, <2>6, <2>7, <4>3, <5>1
        <5>2. CASE i # h
          BY <1>1, <1>7, <2>4, <2>5, <2>6, <2>7, <4>3, <5>2
        <5>. QED
          BY <5>1, <5>2
      <4>. QED
        BY <1>1, <2>6, <4>1, <4>2, <4>4, Beside
    <3>. QED
      BY <1>1, <2>1, <3>1, <3>2, ThereBefore
  <2>8. CASE b >= v
    <3>1. i = h /\ q = a /\ v = w /\ b < w + n
      BY <2>4, <2>6, <2>8
    <3>2. a + b \in a + w .. a + w + n - 1
      BY <1>1, <2>6, <2>8, <3>1
    <3>3. PICK k \in 1 .. Len(M) : \A l \in 1 .. Len(M) : D!Covers(M[l], a + b) <=> l = k
      BY <1>9, <3>2 DEF D!Tiles
    <3>4. ASSUME NEW l \in 1 .. Len(P) PROVE ~D!Covers(P[l], a + b)
      <4>1. PICK j \in 1 .. L : Q[j] <= P[l].at /\ P[l].at + P[l].width <= Q[j] + W[j]
        BY DEF TilesNext, InPieces
      <4>2. PICK p \in Nat : p = P[l].at
        BY <1>1, PacketsTyped
      <4>3. PICK g \in {1, 2, 4, 8} : g = P[l].width
        BY <1>1, PacketsTyped
      <4>4. PICK qj \in Nat : qj = Q[j]
        BY DEF TilesNext
      <4>5. PICK wj \in Nat : wj = W[j]
        BY DEF TilesNext
      <4>6. PICK zj \in Nat : zj = Z[j]
        BY DEF TilesNext
      <4>7. qj <= p /\ p + g <= qj + wj /\ wj <= zj
        BY <4>1, <4>2, <4>3, <4>4, <4>5, <4>6 DEF TilesNext
      <4>8. p > a + b \/ p + g <= a + b
        <5>1. CASE j = h
          <6>1. qj = a /\ wj = w
            BY <1>2, <1>3, <4>4, <4>5, <5>1
          <6>. QED
            BY <2>6, <2>8, <3>1, <4>7, <6>1
        <5>2. CASE j # h
          <6>1. qj + zj <= a \/ a + z <= qj
            BY <1>1, <1>2, <1>4, <4>4, <4>6, <5>2 DEF TilesNext, Apart
          <6>. QED
            BY <1>1, <1>7, <2>6, <3>1, <4>7, <6>1
        <5>. QED
          BY <5>1, <5>2
      <4>. QED
        BY <1>1, <2>6, <3>1, <4>2, <4>3, <4>8, Beside
    <3>5. PICK p \in Nat : p = M[k].at
      BY <1>1, PacketsTyped
    <3>6. M[k].from = D!From(s, p - (a + w))
      BY <1>9, <3>5 DEF D!Tiles
    <3>7. PICK y : y = IF b < f THEN o + b ELSE -1
      OBVIOUS
    <3>8. M[k].from = IF y = -1 THEN -1 ELSE y - (a + b - p)
      <4>1. CASE w + n <= f /\ s = o + w
        <5>1. y = o + b /\ y # -1 /\ s # -1
          BY <2>6, <3>1, <3>7, <4>1, <1>1
        <5>2. M[k].from = s + (p - (a + w))
          BY <3>6, <5>1 DEF D!From, D!Zeros
        <5>3. s + (p - (a + w)) = y - (a + b - p)
          BY <2>6, <4>1, <5>1
        <5>. QED
          BY <5>1, <5>2, <5>3
      <4>2. CASE w >= f /\ s = -1
        <5>1. y = -1
          BY <2>6, <2>8, <3>1, <3>7, <4>2
        <5>. QED
          BY <3>6, <4>2, <5>1 DEF D!From, D!Zeros
      <4>. QED
        BY <1>7, <4>1, <4>2
    <3>9. There(M, a + b, y)
      BY <3>3, <3>5, <3>8 DEF There
    <3>10. There(P \o M, a + b, y)
      BY <1>1, <3>4, <3>9, ThereBehind
    <3>11. y = IF b < F[i] THEN O[i] + b ELSE -1
      BY <1>5, <1>6, <3>1, <3>7
    <3>. QED
      BY <2>1, <3>1, <3>10, <3>11
  <2>. QED
    BY <2>2, <2>6, <2>7, <2>8
<1>. QED
  BY <1>10 DEF AllThere

\* A packet for a byte, as the invariant has it and as above.
LEMMA ThereIs ==
  ASSUME NEW P \in Seq(D!Packet), NEW x \in Nat, NEW b \in Nat, NEW f \in Nat, NEW o \in Nat,
         NEW y, y = IF b < f THEN o + b ELSE -1
  PROVE  There(P, x, y) <=> D!HasByte(P, x, b, f, o)
<1>2. ASSUME NEW k \in 1 .. Len(P)
      PROVE  (P[k].from = IF y = -1 THEN -1 ELSE y - (x - P[k].at))
             <=> IF b < f THEN P[k].from + (x - P[k].at) = o + b ELSE P[k].from = D!Zeros
  <2>1. PICK a \in Nat : a = P[k].at
    BY PacketsTyped
  <2>2. PICK r \in Int : r = P[k].from
    BY PacketsTyped
  <2>3. (r = IF y = -1 THEN -1 ELSE y - (x - a)) <=> IF b < f THEN r + (x - a) = o + b ELSE r = -1
    <3>1. CASE b < f
      <4>1. y = o + b /\ y # -1
        BY <3>1
      <4>. QED
        BY <3>1, <4>1
    <3>2. CASE ~(b < f)
      BY <3>2
    <3>. QED
      BY <3>1, <3>2
  <2>. QED
    BY <2>1, <2>2, <2>3 DEF D!Zeros
<1>. QED
  BY <1>2 DEF There, D!HasByte

\* What is written of the segments, said of the functions of their places and sizes.
LEMMA LaidIs ==
  ASSUME exe \in Executables, coreid \in CoreIds, NEW P \in Seq(D!Packet), NEW W, NEW L, NEW Q, NEW F, NEW O,
         L = Len(exe), Q = [i \in 1 .. L |-> D!Place(i)],
         F = [i \in 1 .. L |-> exe[i].filesz], O = [i \in 1 .. L |-> exe[i].offset]
  PROVE  D!Laid(P, W) <=> InPieces(P, L, Q, W) /\ AllThere(P, L, Q, W, F, O)
<1>1. (\A k \in 1 .. Len(P) : \E i \in 1 .. Len(exe) : D!Place(i) <= P[k].at /\ P[k].at + P[k].width <= D!Place(i) + W[i])
      <=> InPieces(P, L, Q, W)
  BY DEF InPieces
<1>2. ASSUME NEW i \in 1 .. L, NEW b \in 0 .. W[i] - 1
      PROVE  There(P, Q[i] + b, IF b < F[i] THEN O[i] + b ELSE -1) <=>
             D!HasByte(P, D!Place(i) + b, b, exe[i].filesz, exe[i].offset)
  <2>1. PICK q \in Nat : q = D!Place(i)
    BY ExeFacts
  <2>2. PICK f \in Nat : f = exe[i].filesz
    BY ExeFacts
  <2>3. PICK o \in Nat : o = exe[i].offset
    BY ExeFacts
  <2>4. b \in Nat /\ q + b \in Nat
    BY <2>1
  <2>5. Q[i] = q /\ F[i] = f /\ O[i] = o
    BY <2>1, <2>2, <2>3
  <2>6. PICK x \in Nat : x = q + b
    BY <2>4
  <2>7. PICK y : y = IF b < f THEN o + b ELSE -1
    OBVIOUS
  <2>8. There(P, x, y) <=> D!HasByte(P, x, b, f, o)
    BY <2>4, <2>7, ThereIs
  <2>9. Q[i] + b = x /\ (IF b < F[i] THEN O[i] + b ELSE -1) = y
    BY <2>5, <2>6, <2>7
  <2>10. There(P, Q[i] + b, IF b < F[i] THEN O[i] + b ELSE -1) <=> There(P, x, y)
    BY <2>9
  <2>11. D!Place(i) + b = x /\ exe[i].filesz = f /\ exe[i].offset = o
    BY <2>1, <2>2, <2>3, <2>6
  <2>. QED
    BY <2>8, <2>10, <2>11
<1>. QED
  <2>1. D!Laid(P, W) <=>
          /\ \A k \in 1 .. Len(P) : \E i \in 1 .. Len(exe) : D!Place(i) <= P[k].at /\ P[k].at + P[k].width <= D!Place(i) + W[i]
          /\ \A i \in 1 .. Len(exe) : \A b \in 0 .. W[i] - 1 :
                D!HasByte(P, D!Place(i) + b, b, exe[i].filesz, exe[i].offset)
    BY DEF D!Laid
  <2>2. (\A i \in 1 .. L : \A b \in 0 .. W[i] - 1 : D!HasByte(P, D!Place(i) + b, b, exe[i].filesz, exe[i].offset))
        <=> AllThere(P, L, Q, W, F, O)
    BY <1>2 DEF AllThere
  <2>. QED
    BY <1>1, <2>1, <2>2

\* Packets that tile the next bytes of a segment.
LEMMA LaidMore ==
  ASSUME exe \in Executables, coreid \in CoreIds, NEW P \in Seq(D!Packet), NEW M,
         NEW W \in [1 .. Len(exe) -> Nat], NEW h \in 1 .. Len(exe), NEW n \in Nat, NEW s \in Nat \cup {-1},
         \A i \in 1 .. Len(exe) : W[i] <= exe[i].memsz, W[h] + n <= exe[h].memsz,
         D!Laid(P, W), D!Tiles(M, D!Place(h) + W[h], n, s),
         \/ W[h] + n <= exe[h].filesz /\ s = exe[h].offset + W[h]
         \/ W[h] >= exe[h].filesz /\ s = -1
  PROVE  D!Laid(P \o M, [W EXCEPT ![h] = W[h] + n])
<1>1. PICK L : L = Len(exe)
  OBVIOUS
<1>2. PICK Q : Q = [i \in 1 .. L |-> D!Place(i)]
  OBVIOUS
<1>3. PICK Z : Z = [i \in 1 .. L |-> exe[i].memsz]
  OBVIOUS
<1>4. PICK F : F = [i \in 1 .. L |-> exe[i].filesz]
  OBVIOUS
<1>5. PICK O : O = [i \in 1 .. L |-> exe[i].offset]
  OBVIOUS
<1>6. PICK V : V = [W EXCEPT ![h] = W[h] + n]
  OBVIOUS
<1>7. L \in Nat /\ Q \in [1 .. L -> Nat] /\ Z \in [1 .. L -> Nat] /\ F \in [1 .. L -> Nat] /\ O \in [1 .. L -> Nat]
  BY <1>1, <1>2, <1>3, <1>4, <1>5, ExeFacts
<1>8. W \in [1 .. L -> Nat] /\ h \in 1 .. L
  BY <1>1
<1>9. Apart(L, Q, Z)
  BY <1>1, <1>2, <1>3, ExeFacts DEF Apart
<1>10. (\A i \in 1 .. L : W[i] <= Z[i]) /\ W[h] + n <= Z[h]
  BY <1>1, <1>3
<1>11. InPieces(P, L, Q, W) /\ AllThere(P, L, Q, W, F, O)
  BY <1>1, <1>2, <1>4, <1>5, LaidIs
<1>13. /\ D!Tiles(M, Q[h] + W[h], n, s)
       /\ (W[h] + n <= F[h] /\ s = O[h] + W[h]) \/ (W[h] >= F[h] /\ s = -1)
  BY <1>1, <1>2, <1>4, <1>5
<1>14. PICK R : R = P \o M
  OBVIOUS
<1>15. InPieces(R, L, Q, V) /\ AllThere(R, L, Q, V, F, O)
  <2>1. M \in Seq(D!Packet)
    BY DEF D!Tiles
  <2>2. TilesNext(P, M, L, h, n, s, Q, Z, F, O, W)
    BY <1>7, <1>8, <1>9, <1>10, <1>11, <1>13, <2>1 DEF TilesNext
  <2>. QED
    BY <1>6, <1>14, <2>2, MoreInPieces, MoreThere
<1>16. D!Laid(R, V)
  <2>1. R \in Seq(D!Packet)
    BY <1>14 DEF D!Tiles
  <2>. QED
    BY <1>1, <1>2, <1>4, <1>5, <1>15, <2>1, LaidIs
<1>. QED
  BY <1>6, <1>14, <1>16


\* More packets that lie as they should.
LEMMA AlignedMore ==
  ASSUME NEW P \in Seq(D!Packet), NEW M, NEW a, NEW n, NEW s, D!Tiles(M, a, n, s),
         \A k \in 1 .. Len(P) : D!Aligned(P[k])
  PROVE  P \o M \in Seq(D!Packet) /\ \A k \in 1 .. Len(P \o M) : D!Aligned((P \o M)[k])
<1>1. M \in Seq(D!Packet) /\ \A k \in 1 .. Len(M) : D!Aligned(M[k])
  BY DEF D!Tiles
<1>2. ASSUME NEW k \in 1 .. Len(P \o M) PROVE D!Aligned((P \o M)[k])
  <2>1. CASE k \in 1 .. Len(P)
    <3>1. (P \o M)[k] = P[k]
      BY <1>1, <2>1
    <3>. QED
      BY <2>1, <3>1
  <2>2. CASE k \in Len(P) + 1 .. Len(P) + Len(M)
    <3>1. (P \o M)[k] = M[k - Len(P)] /\ k - Len(P) \in 1 .. Len(M)
      BY <1>1, <2>2
    <3>. QED
      BY <1>1, <3>1
  <2>3. Len(P \o M) = Len(P) + Len(M) /\ Len(P) \in Nat /\ Len(M) \in Nat
    BY <1>1
  <2>. QED
    BY <2>1, <2>2, <2>3
<1>. QED
  BY <1>1, <1>2

\* The part of a segment that the file has.
LEMMA DumpCopy ==
  ASSUME D!DumpInv, D!Copy
  PROVE  D!DumpInv'
<1>1. /\ exe \in Executables /\ coreid \in CoreIds /\ seg \in 1 .. Len(exe) /\ part = "copy" /\ st = "run"
      /\ packets \in Seq(D!Packet) /\ \A k \in 1 .. Len(packets) : D!Aligned(packets[k])
      /\ UNCHANGED <<exe, coreid, seg>>
  BY DEF D!DumpInv, D!Copy
<1>2. CASE D!TwoByteHead(D!dst, D!Segment.offset, D!Segment.filesz)
  <2>1. st' = "dead" /\ UNCHANGED <<part, packets>>
    BY <1>2 DEF D!Copy
  <2>. QED
    BY <1>1, <2>1 DEF D!DumpInv, D!NeverEnds
<1>3. CASE ~D!TwoByteHead(D!dst, D!Segment.offset, D!Segment.filesz)
  <2>. DEFINE M == D!mesh_memcpy(D!Place(seg), exe[seg].offset, exe[seg].filesz)
              W == D!Written
              f == exe[seg].filesz
  <2>1. packets' = packets \o M /\ part' = "clear" /\ st' = "run"
    BY <1>1, <1>3 DEF D!Copy, D!dst, D!Segment
  <2>2. /\ D!Place(seg) \in Nat /\ f \in Nat /\ exe[seg].offset \in Nat /\ f <= exe[seg].memsz
        /\ \A i \in 1 .. Len(exe) : exe[i].memsz \in Nat
    BY <1>1, ExeFacts
  <2>3. D!Tiles(M, D!Place(seg), f, exe[seg].offset)
    BY <1>3, <2>2, MemcpyTiles DEF D!dst, D!Segment
  <2>. HIDE DEF M
  <2>4. packets' \in Seq(D!Packet) /\ \A k \in 1 .. Len(packets') : D!Aligned(packets'[k])
    BY <1>1, <2>1, <2>3, AlignedMore
  <2>5. D!Laid(packets, W)
    BY <1>1 DEF D!DumpInv, D!NeverEnds
  <2>6. /\ W = [i \in 1 .. Len(exe) |-> IF i < seg THEN exe[i].memsz ELSE 0]
        /\ D!Written' = [i \in 1 .. Len(exe) |-> IF i < seg THEN exe[i].memsz ELSE IF i = seg THEN f ELSE 0]
    BY <1>1, <2>1 DEF D!Written
  <2>. HIDE DEF W
  <2>7. W \in [1 .. Len(exe) -> Nat] /\ W[seg] = 0 /\ \A i \in 1 .. Len(exe) : W[i] <= exe[i].memsz
    BY <1>1, <2>2, <2>6
  <2>8. D!Written' = [W EXCEPT ![seg] = W[seg] + f]
    <3>1. ASSUME NEW i \in 1 .. Len(exe) PROVE D!Written'[i] = IF i = seg THEN W[seg] + f ELSE W[i]
      BY <2>2, <2>6, <2>7
    <3>. QED
      BY <2>6, <2>7, <3>1
  <2>9. D!Tiles(M, D!Place(seg) + W[seg], f, exe[seg].offset) /\ W[seg] + f <= exe[seg].memsz
        /\ W[seg] + f <= exe[seg].filesz /\ exe[seg].offset = exe[seg].offset + W[seg]
    BY <2>2, <2>3, <2>7
  <2>10. D!Laid(packets \o M, [W EXCEPT ![seg] = W[seg] + f])
    BY <1>1, <2>2, <2>5, <2>7, <2>9, LaidMore
  <2>11. D!Laid(packets, D!Written)'
    BY <1>1, <2>1, <2>8, <2>10 DEF D!Laid, D!Place
  <2>. QED
    BY <1>1, <2>1, <2>4, <2>11 DEF D!DumpInv
<1>. QED
  BY <1>2, <1>3

\* The rest of a segment, up to eight bytes of it.
LEMMA DumpClear ==
  ASSUME D!DumpInv, D!Clear
  PROVE  D!DumpInv'
<1>1. /\ exe \in Executables /\ coreid \in CoreIds /\ seg \in 1 .. Len(exe) /\ part = "clear" /\ st = "run"
      /\ packets \in Seq(D!Packet) /\ (\A k \in 1 .. Len(packets) : D!Aligned(packets[k]))
      /\ UNCHANGED <<exe, coreid>>
  BY DEF D!DumpInv, D!Clear
<1>2. /\ part' = "copy" /\ IF seg < Len(exe) THEN seg' = seg + 1 /\ st' = "run" ELSE seg' = seg /\ st' = "end"
  BY DEF D!Clear, D!NextSegment
<1>3. PICK f \in Nat : f = exe[seg].filesz
  BY <1>1, ExeFacts
<1>4. PICK q \in Nat : q = D!Place(seg)
  BY <1>1, ExeFacts
<1>5. PICK n \in Nat : n = exe[seg].memsz - exe[seg].filesz
  <2>1. exe[seg].memsz \in Nat /\ exe[seg].filesz \in Nat /\ exe[seg].filesz <= exe[seg].memsz
    BY <1>1, ExeFacts
  <2>2. exe[seg].memsz - exe[seg].filesz \in Nat
    BY <2>1
  <2>. QED
    BY <2>2
<1>6. f + n = exe[seg].memsz
  <2>1. exe[seg].memsz \in Nat
    BY <1>1, ExeFacts
  <2>. QED
    BY <1>3, <1>5, <2>1
<1>7. PICK M : M = D!mesh_memcpy(q + f, -1, n)
  OBVIOUS
<1>8. n <= 8 /\ packets' = packets \o M
  BY <1>3, <1>4, <1>5, <1>7 DEF D!Clear, D!Segment, D!dst, D!Zeros
<1>9. D!Tiles(M, q + f, n, -1)
  BY <1>7, MemcpyTiles, ZerosAligned
<1>10. packets' \in Seq(D!Packet) /\ \A k \in 1 .. Len(packets') : D!Aligned(packets'[k])
  BY <1>1, <1>8, <1>9, AlignedMore
<1>11. PICK W : W = D!Written
  OBVIOUS
<1>12. /\ W = [i \in 1 .. Len(exe) |-> IF i < seg THEN exe[i].memsz ELSE IF i = seg THEN f ELSE 0]
       /\ D!Written' = [i \in 1 .. Len(exe) |-> IF i < seg \/ i = seg THEN exe[i].memsz ELSE 0]
  <2>1. W = [i \in 1 .. Len(exe) |-> IF i < seg THEN exe[i].memsz ELSE IF i = seg THEN f ELSE 0]
    BY <1>1, <1>3, <1>11 DEF D!Written
  <2>2. ASSUME NEW i \in 1 .. Len(exe) PROVE D!Written'[i] = IF i < seg \/ i = seg THEN exe[i].memsz ELSE 0
    BY <1>1, <1>2 DEF D!Written
  <2>3. D!Written' = [i \in 1 .. Len(exe) |-> D!Written'[i]]
    BY <1>1 DEF D!Written
  <2>. QED
    BY <2>1, <2>2, <2>3
<1>13. /\ W \in [1 .. Len(exe) -> Nat] /\ W[seg] = f
       /\ \A i \in 1 .. Len(exe) : W[i] <= exe[i].memsz
  <2>1. ASSUME NEW i \in 1 .. Len(exe) PROVE W[i] \in Nat /\ W[i] <= exe[i].memsz
    <3>1. exe[i].memsz \in Nat
      BY <1>1, ExeFacts
    <3>2. W[i] = exe[i].memsz \/ (i = seg /\ W[i] = f) \/ W[i] = 0
      BY <1>12
    <3>3. (i = seg /\ W[i] = f) => W[i] <= exe[i].memsz
      BY <1>3, <1>6, <3>1
    <3>. QED
      BY <1>3, <3>1, <3>2, <3>3
  <2>2. W[seg] = f
    BY <1>1, <1>12
  <2>. QED
    BY <1>12, <2>1, <2>2
<1>14. D!Written' = [W EXCEPT ![seg] = W[seg] + n]
  <2>1. ASSUME NEW i \in 1 .. Len(exe) PROVE D!Written'[i] = IF i = seg THEN f + n ELSE W[i]
    BY <1>6, <1>12
  <2>. QED
    BY <1>12, <1>13, <2>1
<1>15. D!Tiles(M, D!Place(seg) + W[seg], n, -1) /\ W[seg] + n <= exe[seg].memsz /\ W[seg] >= exe[seg].filesz
  BY <1>3, <1>4, <1>6, <1>9, <1>13
<1>16. D!Laid(packets, W)
  <2>1. ~D!NeverEnds
    BY <1>1, <1>5, <1>8 DEF D!NeverEnds, D!Segment
  <2>. QED
    BY <1>11, <2>1 DEF D!DumpInv
<1>17. D!Laid(packets \o M, [W EXCEPT ![seg] = W[seg] + n])
  BY <1>1, <1>13, <1>15, <1>16, LaidMore
<1>18. D!Laid(packets, D!Written)'
  BY <1>1, <1>8, <1>14, <1>17 DEF D!Laid, D!Place
<1>19. seg' \in 1 .. Len(exe) /\ st' \in {"run", "end"}
  BY <1>1, <1>2
<1>. QED
  BY <1>1, <1>2, <1>10, <1>18, <1>19 DEF D!DumpInv

\* More than eight bytes to clear: the packets stay aligned, and the dump does not end.
LEMMA DumpClearOn ==
  ASSUME D!DumpInv, D!ClearOn
  PROVE  D!DumpInv'
<1>1. /\ exe \in Executables /\ coreid \in CoreIds /\ seg \in 1 .. Len(exe) /\ part = "clear" /\ st = "run"
      /\ packets \in Seq(D!Packet) /\ \A k \in 1 .. Len(packets) : D!Aligned(packets[k])
      /\ UNCHANGED <<exe, coreid, seg, part, st>> /\ D!Segment.memsz - D!Segment.filesz > 8
  BY DEF D!DumpInv, D!ClearOn
<1>2. PICK d : /\ packets' = packets \o D!mesh_memcpy(d, -1, 8)
               /\ \/ packets # <<>> /\ d = packets[Len(packets)].at + packets[Len(packets)].width
                  \/ d = D!Place(seg) + exe[seg].filesz
  BY DEF D!ClearOn, D!Segment, D!dst, D!Zeros
<1>3. d \in Nat
  <2>1. D!Place(seg) + exe[seg].filesz \in Nat
    BY <1>1, ExeFacts
  <2>2. ASSUME packets # <<>> PROVE packets[Len(packets)] \in D!Packet
    BY <1>1, <2>2
  <2>3. ASSUME packets # <<>> PROVE packets[Len(packets)].at + packets[Len(packets)].width \in Nat
    BY <2>2, <2>3 DEF D!Packet
  <2>. QED
    BY <1>2, <2>1, <2>3
<1>4. D!Tiles(D!mesh_memcpy(d, -1, 8), d, 8, -1)
  BY <1>3, MemcpyTiles, ZerosAligned
<1>5. packets' \in Seq(D!Packet) /\ \A k \in 1 .. Len(packets') : D!Aligned(packets'[k])
  BY <1>1, <1>2, <1>4, AlignedMore
<1>6. D!NeverEnds'
  BY <1>1 DEF D!NeverEnds, D!Segment
<1>. QED
  BY <1>1, <1>5, <1>6 DEF D!DumpInv

\* Before the first packet.
LEMMA DumpStarts == ASSUME D!Init PROVE D!DumpInv
<1>1. exe \in Executables /\ coreid \in CoreIds /\ seg = 1 /\ part = "copy" /\ packets = <<>> /\ st = "run"
  BY DEF D!Init
<1>2. Len(exe) \in Nat \ {0}
  BY <1>1, ExeFacts
<1>3. \A i \in 1 .. Len(exe) : D!Written[i] = 0
  BY <1>1 DEF D!Written
<1>4. D!Laid(packets, D!Written)
  BY <1>1, <1>3 DEF D!Laid
<1>. QED
  BY <1>1, <1>2, <1>4 DEF D!DumpInv

\* What the invariant says in the end.
LEMMA DumpEnds == ASSUME D!DumpInv PROVE D!DumpRight
<1>1. \A k \in 1 .. Len(packets) : D!Aligned(packets[k])
  BY DEF D!DumpInv
<1>2. ASSUME st = "end", NEW i \in 1 .. Len(exe), NEW b \in 0 .. exe[i].memsz - 1
      PROVE  D!HasByte(packets, D!Place(i) + b, b, exe[i].filesz, exe[i].offset)
  <2>1. D!Laid(packets, D!Written)
    BY <1>2 DEF D!DumpInv, D!NeverEnds
  <2>2. D!Written[i] = exe[i].memsz
    BY <1>2 DEF D!Written
  <2>. QED
    BY <2>1, <2>2 DEF D!Laid
<1>. QED
  BY <1>1, <1>2 DEF D!DumpRight

-----------------------------------------------------------------------------
(* The results *)

\* What HInv says is kept: groups inside the platform, memory as it is meant, and what is held.
THEOREM SessionInvariant == MCSpec => []HInv
<1>1. MCInit => HInv
  BY SessionInit DEF MCInit
<1>. QED
  BY <1>1, HStep, PTL DEF MCSpec

\* Whatever call and target a word was written through, every call that may read it returns
\* what was written last.
THEOREM ReadsAreRight == MCSpec => []ReadsBack
<1>1. HInv => ReadsBack
  <2>. SUFFICES ASSUME HInv, NEW q \in Requests, ~Avoided(q)
                PROVE  Len(WordsRead(q)) = q.n /\ \A i \in 1 .. q.n : mem[WordsRead(q)[i]] = ideal[Meant(q)[i]]
    BY DEF ReadsBack
  <2>1. WordsRead(q) = Meant(q) /\ Len(Meant(q)) = q.n
    BY RequestRight DEF HInv
  <2>. QED
    BY <2>1 DEF HInv, Same
<1>. QED
  BY <1>1, SessionInvariant, PTL

\* A session without failures gives back every descriptor, mapping and table.
THEOREM NothingIsHeld == MCSpec => []NothingHeld
<1>1. HInv => NothingHeld
  <2>. SUFFICES ASSUME HInv, ~plat.init, used.faults = 0, target # "pal"
                PROVE  res.fd = 0 /\ res.maps = 0 /\ res.conn = 0 /\ res.tables = 0 /\ (Native => res.arrays = 0)
    BY DEF NothingHeld
  <2>1. ~dev.open /\ ~buf.open
    <3>1. dev = Closed /\ buf = Closed
      BY NoneOpen DEF HInv
    <3>. QED
      BY <3>1 DEF Closed
  <2>. QED
    BY <2>1 DEF HInv, Held, If
<1>. QED
  BY <1>1, SessionInvariant, PTL

\* The box of the platform holds every core of its chips, and the four ways to name a core agree.
THEOREM NamesAreRight == MCSpec => []CoresNamed
<1>1. HInv => CoresNamed
  <2>. SUFFICES ASSUME HInv PROVE CoresNamed
    OBVIOUS
  <2>1. ASSUME plat.init
        PROVE  \A c \in plat.chips : c.row >= plat.row /\ c.row + c.rows <= plat.row + plat.rows
                                     /\ c.col >= plat.col /\ c.col + c.cols <= plat.col + plat.cols
    <3>1. /\ GoodChips(plat.chips) /\ plat.row = Box(plat.chips).row /\ plat.col = Box(plat.chips).col
          /\ plat.rows = Box(plat.chips).rows /\ plat.cols = Box(plat.chips).cols
      BY <2>1, PlatformKnown DEF HInv
    <3>. QED
      BY <3>1, BoxHolds
  <2>2. ASSUME dev.open, NEW r \in Rows(dev), NEW c \in Cols(dev), NEW id, id = ee_get_id_from_coords(dev, r, c)
        PROVE  /\ e_is_addr_on_group(dev, id) /\ ee_get_coords_from_id(dev, id) = [row |-> r, col |-> c]
               /\ ee_get_num_from_id(dev, id) = e_get_num_from_coords(dev, r, c)
               /\ ee_get_id_from_num(dev, ee_get_num_from_id(dev, id)) = id
               /\ e_get_coords_from_num(dev, ee_get_num_from_id(dev, id)) = [row |-> r, col |-> c]
    <3>1. Group(dev)
      BY <2>2, GroupKnown DEF HInv
    <3>. QED
      BY <2>2, <3>1, NamesAgree
  <2>. QED
    BY <2>1, <2>2 DEF CoresNamed
<1>. QED
  BY <1>1, SessionInvariant, PTL

\* Each loop of aligned_memcpy finds the address as even as its accesses are wide.
THEOREM CopiesKnown == MCSpec => []C!CopyInv
<1>1. MCInit => C!CopyInv
  BY CopyStarts DEF MCInit
<1>2. C!CopyInv /\ [MCNext]_<<vars, copying, dumping>> => C!CopyInv'
  <2>. SUFFICES ASSUME C!CopyInv, [MCNext]_<<vars, copying, dumping>> PROVE C!CopyInv'
    OBVIOUS
  <2>1. CASE C!Next
    BY <2>1, HeadRight, LoopRight DEF C!Next
  <2>2. CASE UNCHANGED copying
    BY <2>2 DEF copying, C!CopyInv, C!CopyRight, C!Even, C!Left, C!WordWise, C!HalfWise
  <2>. QED
    BY <2>1, <2>2 DEF MCNext
<1>. QED
  BY <1>1, <1>2, PTL DEF MCSpec

\* Every packet of a dump lies in one word, or is one of eight bytes; a dump that ends has written each
\* byte of each segment once, from its place in the file, or zero where the file has none.
THEOREM DumpsRight == MCSpec => [](exe # <<>> => D!DumpInv)
<1>. DEFINE I == exe # <<>> => D!DumpInv
<1>1. MCInit => I
  BY DumpStarts DEF MCInit, NoDump
<1>2. I /\ [MCNext]_<<vars, copying, dumping>> => I'
  <2>. SUFFICES ASSUME I, [MCNext]_<<vars, copying, dumping>> PROVE I'
    OBVIOUS
  <2>1. CASE exe # <<>> /\ D!Next
    BY <2>1, DumpCopy, DumpClear, DumpClearOn DEF D!Next
  <2>2. CASE UNCHANGED dumping
    <3>1. (exe # <<>> /\ D!DumpInv) => D!DumpInv'
      BY <2>2 DEF dumping, D!DumpInv, D!Laid, D!HasByte, D!Written, D!NeverEnds, D!Place, D!Segment
    <3>. QED
      BY <2>2, <3>1 DEF dumping
  <2>. QED
    BY <2>1, <2>2 DEF MCNext
<1>. QED
  BY <1>1, <1>2, PTL DEF MCSpec

\* Every access of aligned_memcpy is aligned on both sides, and at the end all is copied; e-meshdump
\* writes every byte of every segment once, in packets that are aligned.
THEOREM CopiesStayRight == MCSpec => []CopiesRight
<1>1. C!CopyInv => C!CopyRight
  BY DEF C!CopyInv
<1>2. (exe # <<>> => D!DumpInv) => (exe # <<>> => D!DumpRight)
  BY DumpEnds
<1>. QED
  BY <1>1, <1>2, CopiesKnown, DumpsRight, PTL DEF CopiesRight
==============================================================================
