---------------------------- MODULE DisplayProofs ----------------------------
(***************************************************************************)
(* What the terminals show, for every size of the screen, number of        *)
(* terminals, keys, printed strings and interleaving.                      *)
(***************************************************************************)
EXTENDS Display, WellFoundedInduction, TLAPS

-----------------------------------------------------------------------------
(* The grid *)

Limit == (NUM_ROWS - 1) * NUM_COLS      \* the first cell of the last row

\* The constants are numbers, and the buffer fits the rows above the last.
LEMMA Grid ==
    /\ T \in Nat /\ T > 0 /\ NUM_COLS \in Nat /\ NUM_COLS > 0
    /\ NUM_ROWS \in Nat /\ NUM_ROWS > 1
    /\ BUF_SIZE \in Nat /\ BUF_SIZE > 0 /\ BUF_SIZE <= Limit /\ TabSize \in Nat
    /\ Limit \in Nat /\ NUM_ROWS * NUM_COLS = Limit + NUM_COLS
    /\ Cells = 0..(Limit + NUM_COLS - 1)
<1>1. /\ T \in Nat /\ T > 0 /\ NUM_COLS \in Nat /\ NUM_COLS > 0
      /\ NUM_ROWS \in Nat /\ NUM_ROWS > 1
      /\ BUF_SIZE \in Nat /\ BUF_SIZE > 0 /\ BUF_SIZE <= Limit /\ TabSize \in Nat
    BY DisplayAssumption DEF Limit
<1>2. Limit \in Nat
    BY <1>1 DEF Limit
<1>3. NUM_ROWS * NUM_COLS = Limit + NUM_COLS
    BY <1>1 DEF Limit
<1> QED BY <1>1, <1>2, <1>3 DEF Cells

\* The first cell of row y.
LEMMA Rows ==
    ASSUME NEW y \in Int
    PROVE  /\ y * NUM_COLS \in Int
           /\ (y + 1) * NUM_COLS = y * NUM_COLS + NUM_COLS
           /\ (y - 1) * NUM_COLS = y * NUM_COLS - NUM_COLS
           /\ y >= 0 => y * NUM_COLS >= 0
           /\ y >= 1 => y * NUM_COLS >= NUM_COLS
           /\ y <= NUM_ROWS - 1 => y * NUM_COLS <= Limit
           /\ y >= NUM_ROWS - 1 => y * NUM_COLS >= Limit
           /\ y < 0 => y * NUM_COLS <= -NUM_COLS
<1>1. y * NUM_COLS \in Int
    BY Grid
<1>2. (y + 1) * NUM_COLS = y * NUM_COLS + NUM_COLS
    BY Grid
<1>3. (y - 1) * NUM_COLS = y * NUM_COLS - NUM_COLS
    BY Grid
<1>4. y >= 0 => y * NUM_COLS >= 0
    BY Grid
<1>5. y >= 1 => y * NUM_COLS >= NUM_COLS
    BY Grid
<1>6. y <= NUM_ROWS - 1 => y * NUM_COLS <= Limit
    BY Grid DEF Limit
<1>7. y >= NUM_ROWS - 1 => y * NUM_COLS >= Limit
    BY Grid DEF Limit
<1>8. y < 0 => y * NUM_COLS <= -NUM_COLS
    BY Grid
<1> QED BY <1>1, <1>2, <1>3, <1>4, <1>5, <1>6, <1>7, <1>8

\* The column after the last is the first.
LEMMA Wraps ==
    ASSUME NEW x \in 0..(NUM_COLS - 1)
    PROVE  (x + 1) % NUM_COLS = IF x + 1 >= NUM_COLS THEN 0 ELSE x + 1
<1>1. x \in Int /\ NUM_COLS \in Int /\ NUM_COLS > 0 /\ x >= 0 /\ x <= NUM_COLS - 1
    BY Grid
<1>2. CASE x + 1 = NUM_COLS
  <2>1. NUM_COLS % NUM_COLS = 0
    BY <1>1
  <2> QED BY <1>1, <1>2, <2>1
<1>3. CASE x + 1 < NUM_COLS
  <2>1. (x + 1) % NUM_COLS = x + 1
    BY <1>1, <1>3
  <2> QED BY <1>1, <1>3, <2>1
<1> QED BY <1>1, <1>2, <1>3

-----------------------------------------------------------------------------
(* putc *)

Pages == [Cells -> {Blank, "a"}]
Curs == [x : 0..(NUM_COLS - 1), y : Int, start : Int]
Drawings == [mem : Pages, c : Curs]

\* The parts of a cursor, and the cell it is at.
LEMMA Positions ==
    ASSUME NEW c \in Curs
    PROVE  /\ c.x \in Int /\ c.x >= 0 /\ c.x <= NUM_COLS - 1
           /\ c.y \in Int /\ c.start \in Int
           /\ Pos(c) \in Int /\ Pos(c) = c.y * NUM_COLS + c.x
BY Grid, Rows DEF Curs, Pos

\* A cursor is given by its parts.
LEMMA NewCur ==
    ASSUME NEW c \in Curs, NEW x \in 0..(NUM_COLS - 1), NEW y \in Int, NEW st \in Int
    PROVE  [c EXCEPT !.x = x, !.y = y] \in Curs /\ [c EXCEPT !.y = y, !.start = st] \in Curs
BY DEF Curs

\* A character stored in a page leaves a page.
LEMMA StoredPage ==
    ASSUME NEW mem \in Pages, NEW pos, NEW ch \in {Blank, "a"}
    PROVE  Stored(mem, pos, ch) \in Pages
BY DEF Stored, Pages

\* Scrolling leaves a screen and a cursor (lib.c 311-330).
LEMMA ScrollTyped ==
    ASSUME NEW s \in Drawings
    PROVE  Scroll(s) \in Drawings
<1>1. s.mem \in Pages /\ s.c \in Curs
    BY DEF Drawings
<1>2. [p \in Cells |-> IF p + NUM_COLS \in Cells THEN s.mem[p + NUM_COLS] ELSE Blank] \in Pages
    BY <1>1 DEF Pages
<1>3. [s.c EXCEPT !.y = s.c.y - 1, !.start = s.c.start - NUM_COLS] \in Curs
  <2>1. s.c.x \in 0..(NUM_COLS - 1) /\ s.c.y - 1 \in Int /\ s.c.start - NUM_COLS \in Int
    BY <1>1, Positions, Grid DEF Curs
  <2> QED BY <1>1, <2>1, NewCur
<1> QED BY <1>2, <1>3 DEF Scroll, Drawings

\* So does storing a character and moving on (lib.c 278-310).
LEMMA AdvanceTyped ==
    ASSUME NEW s \in Drawings, NEW ch \in {"a", Blank, "nl", "bs"}
    PROVE  Advance(s, ch) \in Drawings
<1>0. Blank # "nl" /\ Blank # "bs" /\ Blank = "sp"
    BY DEF Blank
<1>1. s.mem \in Pages /\ s.c \in Curs
    BY DEF Drawings
<1>2. /\ s.c.x \in 0..(NUM_COLS - 1) /\ s.c.y \in Int /\ s.c.start \in Int
    BY <1>1 DEF Curs
<1>3. CASE ch = "nl"
  <2>1. [x |-> 0, y |-> s.c.y + 1, start |-> (s.c.y + 1) * NUM_COLS] \in Curs
    BY <1>2, Grid, Rows DEF Curs
  <2>2. Advance(s, ch) = [s EXCEPT !.c = [x |-> 0, y |-> s.c.y + 1, start |-> (s.c.y + 1) * NUM_COLS]]
    BY <1>3 DEF Advance, NewLine
  <2> QED BY <2>1, <2>2 DEF Drawings
<1>4. CASE ch = "bs"
  <2> DEFINE c == [s.c EXCEPT !.x = IF s.c.x = 0 THEN NUM_COLS - 1 ELSE s.c.x - 1,
                              !.y = IF s.c.x = 0 THEN s.c.y - 1 ELSE s.c.y]
  <2>1. c \in Curs
    <3>1. /\ (IF s.c.x = 0 THEN NUM_COLS - 1 ELSE s.c.x - 1) \in 0..(NUM_COLS - 1)
          /\ (IF s.c.x = 0 THEN s.c.y - 1 ELSE s.c.y) \in Int
      BY SMTT(30), <1>2, Grid
    <3> QED BY <1>1, <1>2, <3>1, NewCur
  <2>2. Advance(s, ch) = [mem |-> Stored(s.mem, Pos(c), Blank), c |-> c]
    BY <1>4 DEF Advance, Back
  <2> HIDE DEF c
  <2>3. Stored(s.mem, Pos(c), Blank) \in Pages
    BY <1>1, StoredPage
  <2> QED BY <2>1, <2>2, <2>3 DEF Drawings
<1>5. CASE ch \in {"a", Blank}
  <2> DEFINE c == [s.c EXCEPT !.x = (s.c.x + 1) % NUM_COLS,
                              !.y = IF s.c.x + 1 >= NUM_COLS THEN s.c.y + 1 ELSE s.c.y]
  <2>1. (s.c.x + 1) % NUM_COLS \in 0..(NUM_COLS - 1)
    BY SMTT(30), <1>2, Grid, Wraps
  <2>2. c \in Curs
    <3>1. (IF s.c.x + 1 >= NUM_COLS THEN s.c.y + 1 ELSE s.c.y) \in Int
      BY <1>2
    <3> QED BY <1>1, <1>2, <2>1, <3>1, NewCur
  <2>3. Advance(s, ch) = [mem |-> Stored(s.mem, Pos(s.c), ch), c |-> c]
    BY <1>0, <1>5 DEF Advance, Letter
  <2> HIDE DEF c
  <2>4. Stored(s.mem, Pos(s.c), ch) \in Pages
    BY <1>1, <1>5, StoredPage
  <2> QED BY <2>2, <2>3, <2>4 DEF Drawings
<1> QED BY <1>3, <1>4, <1>5

\* So does the whole of putc2screen.
LEMMA PutTyped ==
    ASSUME NEW s \in Drawings, NEW ch \in {"a", Blank, "nl", "bs"}
    PROVE  Put(s, ch) \in Drawings
BY AdvanceTyped, ScrollTyped DEF Put

\* A cursor on the screen, or on the row below it before it scrolls.  When the
\* line starts above the screen, m characters can still be erased.
Below(c, m, rows) ==
    /\ c \in Curs /\ c.y >= 0 /\ c.y <= rows
    /\ c.start <= Pos(c) /\ (c.start < 0 => Pos(c) >= m)
Good(c, m) == Below(c, m, NUM_ROWS - 1)

\* A character that is no backspace moves the cursor forward by a column or to
\* the next row, no further than the row below the screen.
LEMMA Advances ==
    ASSUME NEW s \in Drawings, NEW m \in Nat, Good(s.c, m), NEW ch \in {"a", Blank, "nl"}
    PROVE  Below(Advance(s, ch).c, m + 1, NUM_ROWS)
<1>0. Blank # "nl" /\ Blank # "bs" /\ Blank = "sp"
    BY DEF Blank
<1>1. s.c \in Curs /\ Advance(s, ch).c \in Curs
    BY AdvanceTyped DEF Drawings
<1>2. /\ s.c.x \in 0..(NUM_COLS - 1) /\ s.c.x \in Int /\ s.c.y \in Int /\ s.c.start \in Int
      /\ s.c.y >= 0 /\ s.c.y <= NUM_ROWS - 1 /\ s.c.start <= Pos(s.c)
      /\ s.c.start < 0 => Pos(s.c) >= m
    BY <1>1, Positions DEF Good, Below, Curs
<1>3. CASE ch = "nl"
  <2> DEFINE c == Advance(s, ch).c
  <2>1. c = [x |-> 0, y |-> s.c.y + 1, start |-> (s.c.y + 1) * NUM_COLS]
    BY <1>3 DEF Advance, NewLine, Drawings
  <2>2. c.x = 0 /\ c.y = s.c.y + 1 /\ c.start = (s.c.y + 1) * NUM_COLS
    BY <2>1
  <2> HIDE DEF c
  <2>3. Pos(c) = c.start /\ c.start >= 0 /\ c.start \in Int
    BY <1>2, <2>2, Rows, Grid DEF Pos
  <2>4. c.y >= 0 /\ c.y <= NUM_ROWS
    <3>1. NUM_ROWS \in Int
      BY Grid
    <3> QED BY <1>2, <2>2, <3>1
  <2>5. c \in Curs
    BY <1>1 DEF c
  <2> QED BY <2>3, <2>4, <2>5 DEF Below, c
<1>5. CASE ch \in {"a", Blank}
  <2> DEFINE c == Advance(s, ch).c
  <2>1. c = [s.c EXCEPT !.x = (s.c.x + 1) % NUM_COLS,
                        !.y = IF s.c.x + 1 >= NUM_COLS THEN s.c.y + 1 ELSE s.c.y]
    BY <1>0, <1>5 DEF Advance, Letter
  <2>2. /\ c.x = IF s.c.x + 1 >= NUM_COLS THEN 0 ELSE s.c.x + 1
        /\ c.y = IF s.c.x + 1 >= NUM_COLS THEN s.c.y + 1 ELSE s.c.y
        /\ c.start = s.c.start
    BY <1>1, <1>2, <2>1, Wraps DEF Curs
  <2> HIDE DEF c
  <2>3. Pos(c) = Pos(s.c) + 1
    <3>1. CASE s.c.x + 1 >= NUM_COLS
      <4>1. s.c.x = NUM_COLS - 1
        BY SMTT(30), <1>2, <3>1, Grid
      <4>2. c.y * NUM_COLS = s.c.y * NUM_COLS + NUM_COLS /\ s.c.y * NUM_COLS \in Int
        BY <1>2, <2>2, <3>1, Rows
      <4> QED BY <2>2, <3>1, <4>1, <4>2, Grid DEF Pos
    <3>2. CASE ~(s.c.x + 1 >= NUM_COLS)
      <4>1. s.c.y * NUM_COLS \in Int
        BY <1>2, Rows
      <4> QED BY <1>2, <2>2, <3>2, <4>1 DEF Pos
    <3> QED BY <3>1, <3>2
  <2>4. c.y >= 0 /\ c.y <= NUM_ROWS
    <3>1. NUM_ROWS \in Int
      BY Grid
    <3> QED BY <1>2, <2>2, <3>1
  <2>5. c \in Curs
    BY <1>1 DEF c
  <2>6. Pos(s.c) \in Int
    BY <1>1, Positions
  <2>7. c.start <= Pos(c) /\ (c.start < 0 => Pos(c) >= m + 1)
    BY <1>2, <2>2, <2>3, <2>6
  <2> QED BY <2>4, <2>5, <2>7 DEF Below, c
<1> QED BY <1>3, <1>5

\* Scrolling brings a cursor of that row back onto the screen.
LEMMA Scrolls ==
    ASSUME NEW s \in Drawings, NEW m \in Nat, m <= Limit, Below(s.c, m, NUM_ROWS)
    PROVE  Good(Scroll(s).c, m)
<1> DEFINE c == Scroll(s).c
<1>1. s.c \in Curs /\ c \in Curs
    BY ScrollTyped DEF Drawings
<1>2. /\ s.c.x \in Int /\ s.c.x >= 0 /\ s.c.y \in Int /\ s.c.start \in Int /\ Pos(s.c) \in Int
      /\ s.c.y >= 0 /\ s.c.y <= NUM_ROWS /\ s.c.start <= Pos(s.c)
      /\ s.c.start < 0 => Pos(s.c) >= m
      /\ Pos(s.c) = s.c.y * NUM_COLS + s.c.x
    BY <1>1, Positions DEF Below
<1>3. CASE s.c.y # NUM_ROWS
  <2>1. c = s.c
    BY <1>3 DEF Scroll
  <2>2. s.c.y <= NUM_ROWS - 1
    BY <1>2, <1>3, Grid
  <2> HIDE DEF c
  <2> QED BY <1>1, <1>2, <2>1, <2>2 DEF Good, Below, c
<1>4. CASE s.c.y = NUM_ROWS
  <2>1. c = [s.c EXCEPT !.y = s.c.y - 1, !.start = s.c.start - NUM_COLS]
    BY <1>4 DEF Scroll
  <2>2. c.x = s.c.x /\ c.y = NUM_ROWS - 1 /\ c.start = s.c.start - NUM_COLS
    BY <1>1, <1>4, <2>1 DEF Curs
  <2> HIDE DEF c
  <2>3. Pos(c) = Limit + s.c.x /\ Pos(s.c) = Limit + NUM_COLS + s.c.x
    <3>1. c.y * NUM_COLS = Limit
      BY <2>2 DEF Limit
    <3>2. s.c.y * NUM_COLS = Limit + NUM_COLS
      BY <1>4, Grid
    <3> QED BY <1>2, <2>2, <3>1, <3>2 DEF Pos
  <2>4. c.start <= Pos(c) /\ Pos(c) >= m
    <3>1. /\ s.c.start <= Limit + NUM_COLS + s.c.x
          /\ s.c.start \in Int /\ s.c.x \in Int /\ s.c.x >= 0
      BY <1>2, <2>3
    <3>2. s.c.start - NUM_COLS <= Limit + s.c.x /\ Limit + s.c.x >= m
      BY <3>1, Grid
    <3> QED BY <2>2, <2>3, <3>2
  <2>5. c.y >= 0 /\ c.y <= NUM_ROWS - 1
    BY <2>2, Grid
  <2> QED BY <1>1, <2>4, <2>5 DEF Good, Below, c
<1> QED BY <1>3, <1>4

\* A character that is no backspace: one more character can be erased, as long
\* as the last row has not been reached by scrolling.
LEMMA PutGood ==
    ASSUME NEW s \in Drawings, NEW m \in Nat, Good(s.c, m), NEW ch \in {"a", Blank, "nl"}
    PROVE  /\ m <= Limit => Good(Put(s, ch).c, m)
           /\ m + 1 <= Limit => Good(Put(s, ch).c, m + 1)
<1>0. Blank # "bs"
    BY DEF Blank
<1> DEFINE a == Advance(s, ch)
<1>1. a \in Drawings /\ Below(a.c, m + 1, NUM_ROWS)
    BY Advances, AdvanceTyped
<1>2. Put(s, ch) = Scroll(a)
    BY <1>0 DEF Put
<1> HIDE DEF a
<1>3. Below(a.c, m, NUM_ROWS)
  <2>1. Pos(a.c) \in Int
    BY <1>1, Positions DEF Below
  <2> QED BY <1>1, <2>1 DEF Below
<1>4. m + 1 \in Nat
    OBVIOUS
<1> QED BY <1>1, <1>2, <1>3, <1>4, Scrolls

\* A backspace takes back one character, and never leaves the screen while there
\* is a character to take back.
LEMMA BackGood ==
    ASSUME NEW s \in Drawings, NEW m \in Nat, m > 0, Good(s.c, m)
    PROVE  Good(Put(s, "bs").c, m - 1)
<1>1. s.c \in Curs
    BY DEF Drawings
<1>2. /\ s.c.x \in Int /\ s.c.x >= 0 /\ s.c.x <= NUM_COLS - 1
      /\ s.c.y \in Int /\ s.c.start \in Int /\ Pos(s.c) \in Int
      /\ s.c.y >= 0 /\ s.c.y <= NUM_ROWS - 1 /\ s.c.start <= Pos(s.c)
      /\ s.c.start < 0 => Pos(s.c) >= m
    BY <1>1, Positions DEF Good, Below
<1>3. CASE Pos(s.c) = s.c.start
  <2>1. Put(s, "bs") = s
    BY <1>3 DEF Put
  <2> QED BY <1>1, <1>2, <2>1 DEF Good, Below
<1>4. CASE Pos(s.c) # s.c.start
  <2> DEFINE c == [s.c EXCEPT !.x = IF s.c.x = 0 THEN NUM_COLS - 1 ELSE s.c.x - 1,
                              !.y = IF s.c.x = 0 THEN s.c.y - 1 ELSE s.c.y]
             a == Advance(s, "bs")
  <2>1. a = [mem |-> Stored(s.mem, Pos(c), Blank), c |-> c]
    BY DEF Advance, Back
  <2>2. a.c = c /\ a \in Drawings
    BY <2>1, AdvanceTyped
  <2>3. /\ c.x = IF s.c.x = 0 THEN NUM_COLS - 1 ELSE s.c.x - 1
        /\ c.y = IF s.c.x = 0 THEN s.c.y - 1 ELSE s.c.y
        /\ c.start = s.c.start
    BY <1>1 DEF Curs
  <2> HIDE DEF c, a
  <2>4. c \in Curs
    BY <2>2 DEF Drawings
  <2>5. Pos(s.c) > 0
    BY <1>2, <1>4
  <2>6. s.c.x = 0 => s.c.y >= 1
    <3>1. s.c.x = 0 /\ s.c.y = 0 => Pos(s.c) = 0
      BY Grid DEF Pos
    <3> QED BY <1>2, <2>5, <3>1
  <2>7. Pos(c) = Pos(s.c) - 1
    <3>1. CASE s.c.x = 0
      <4>1. c.y * NUM_COLS = s.c.y * NUM_COLS - NUM_COLS /\ s.c.y * NUM_COLS \in Int
        BY <1>2, <2>3, <3>1, Rows
      <4> QED BY <2>3, <3>1, <4>1, Grid DEF Pos
    <3>2. CASE s.c.x # 0
      <4>1. s.c.y * NUM_COLS \in Int
        BY <1>2, Rows
      <4> QED BY <1>2, <2>3, <3>2, <4>1 DEF Pos
    <3> QED BY <3>1, <3>2
  <2>8. c.y >= 0 /\ c.y <= NUM_ROWS - 1 /\ c.y # NUM_ROWS
    BY <1>2, <2>3, <2>6, Grid
  <2>9. c.start <= Pos(c) /\ (c.start < 0 => Pos(c) >= m - 1)
    BY <1>2, <1>4, <2>3, <2>7
  <2>10. Put(s, "bs") = a
    BY <1>4, <2>2, <2>8 DEF Put, Scroll, a
  <2> QED BY <2>2, <2>4, <2>8, <2>9, <2>10 DEF Good, Below
<1> QED BY <1>3, <1>4

-----------------------------------------------------------------------------
(* Strings of characters *)

\* A set of natural numbers that is not empty has a least element.
LEMMA LeastNat ==
    ASSUME NEW S, S \subseteq Nat, S # {}
    PROVE  \E i \in S : \A j \in S : i <= j
<1>1. PICK i \in S : \A j \in S : ~ (<<j, i>> \in OpToRel(<, Nat))
    BY NatLessThanWellFounded, WFMin
<1>2. \A j \in S : ~(j < i)
    BY <1>1 DEF OpToRel
<1> QED BY <1>2

\* The first k of a string of characters, put one after the other.
Body(f, s, chars, n) == [k \in 0..n |-> IF k = 0 THEN s ELSE Put(f[k - 1], chars[k])]
Run(f, s, chars, n) == f = Body(f, s, chars, n)

\* The recursive function of Puts exists.
LEMMA RunExists ==
    ASSUME NEW s, NEW chars, NEW n \in Nat
    PROVE  \E f : Run(f, s, chars, n)
<1> DEFINE Bad == {k \in Nat : ~ \E f : Run(f, s, chars, k)}
<1> SUFFICES ASSUME Bad # {} PROVE FALSE
    OBVIOUS
<1>1. PICK k \in Bad : \A j \in Bad : k <= j
    BY LeastNat
<1>2. CASE k = 0
  <2> DEFINE f == [j \in 0..0 |-> s]
  <2>1. Body(f, s, chars, 0) = f
    BY DEF Body
  <2>2. Run(f, s, chars, 0)
    BY <2>1 DEF Run
  <2> QED BY <1>1, <1>2, <2>2
<1>3. CASE k # 0
  <2>1. k - 1 \in Nat /\ k - 1 \notin Bad
    BY <1>1, <1>3
  <2>2. PICK g : Run(g, s, chars, k - 1)
    BY <2>1
  <2> DEFINE h == [j \in 0..k |-> IF j < k THEN g[j] ELSE Put(g[j - 1], chars[j])]
  <2>3. \A j \in 0..k : h[j] = IF j = 0 THEN s ELSE Put(h[j - 1], chars[j])
    <3> SUFFICES ASSUME NEW j \in 0..k PROVE h[j] = IF j = 0 THEN s ELSE Put(h[j - 1], chars[j])
      OBVIOUS
    <3>1. j # 0 => j - 1 \in 0..k /\ j - 1 < k /\ h[j - 1] = g[j - 1]
      OBVIOUS
    <3>2. CASE j = k
      BY <1>3, <3>1, <3>2
    <3>3. CASE j < k
      <4>1. j \in 0..(k - 1)
        BY <3>3
      <4>2. g[j] = IF j = 0 THEN s ELSE Put(g[j - 1], chars[j])
        BY <2>2, <4>1 DEF Run, Body
      <4> QED BY <3>1, <3>3, <4>2
    <3> QED BY <3>2, <3>3
  <2>4. h = [j \in 0..k |-> h[j]]
    OBVIOUS
  <2> HIDE DEF h
  <2>5. Run(h, s, chars, k)
    BY <2>3, <2>4 DEF Run, Body
  <2> QED BY <1>1, <2>5
<1> QED BY <1>2, <1>3

\* What Puts computes.
LEMMA PutsRuns ==
    ASSUME NEW s, NEW chars, Len(chars) \in Nat
    PROVE  \E f : /\ Puts(s, chars) = f[Len(chars)]
                  /\ f[0] = s
                  /\ \A k \in 1..Len(chars) : f[k] = Put(f[k - 1], chars[k])
<1> DEFINE n == Len(chars)
           f == CHOOSE f : Run(f, s, chars, n)
<1>1. Run(f, s, chars, n)
    BY RunExists
<1>2. Puts(s, chars) = f[n]
    BY Zenon DEF Puts, Run, Body
<1> HIDE DEF f
<1>3. \A k \in 0..n : f[k] = IF k = 0 THEN s ELSE Put(f[k - 1], chars[k])
    BY <1>1 DEF Run, Body
<1> QED BY <1>2, <1>3

\* Drawings stay drawings.
LEMMA PutsTyped ==
    ASSUME NEW s \in Drawings, NEW chars, Len(chars) \in Nat,
           \A k \in 1..Len(chars) : chars[k] \in {"a", Blank, "nl", "bs"}
    PROVE  Puts(s, chars) \in Drawings
<1> DEFINE n == Len(chars)
<1>1. PICK f : /\ Puts(s, chars) = f[n]
               /\ f[0] = s
               /\ \A k \in 1..n : f[k] = Put(f[k - 1], chars[k])
    BY PutsRuns
<1> DEFINE Bad == {k \in 0..n : f[k] \notin Drawings}
<1>0. Bad \subseteq Nat /\ n \in 0..n
    OBVIOUS
<1>2. CASE Bad = {}
  <2>1. n \notin Bad
    BY <1>2
  <2> QED BY <1>0, <1>1, <2>1
<1>3. CASE Bad # {}
  <2>1. PICK k \in Bad : \A j \in Bad : k <= j
    <3> HIDE DEF Bad
    <3> QED BY <1>0, <1>3, LeastNat
  <2>2. k # 0
    BY <1>1, <2>1
  <2>3. k \in 1..n /\ k - 1 \in 0..n /\ k - 1 \notin Bad
    BY <2>1, <2>2
  <2>4. Put(f[k - 1], chars[k]) \in Drawings
    BY <2>3, PutTyped
  <2> QED BY <1>1, <2>1, <2>3, <2>4
<1> QED BY <1>2, <1>3

\* A string without backspace: the cursor stays on the screen, and of the w[k]
\* characters that could be erased after k of them each put may add one.
LEMMA PutsGood ==
    ASSUME NEW s \in Drawings, NEW chars, Len(chars) \in Nat,
           \A k \in 1..Len(chars) : chars[k] \in {"a", Blank, "nl"},
           NEW w \in [0..Len(chars) -> Nat], Good(s.c, w[0]),
           \A k \in 0..Len(chars) : w[k] <= Limit,
           \A k \in 1..Len(chars) : w[k] = w[k - 1] \/ w[k] = w[k - 1] + 1
    PROVE  Good(Puts(s, chars).c, w[Len(chars)])
<1> DEFINE n == Len(chars)
<1>1. PICK f : /\ Puts(s, chars) = f[n]
               /\ f[0] = s
               /\ \A k \in 1..n : f[k] = Put(f[k - 1], chars[k])
    BY PutsRuns
<1> DEFINE Fine(k) == f[k] \in Drawings /\ Good(f[k].c, w[k])
           Bad == {k \in 0..n : ~Fine(k)}
<1>0. Bad \subseteq Nat /\ n \in 0..n
    OBVIOUS
<1>2. CASE Bad = {}
  <2>1. n \notin Bad
    BY <1>2
  <2> QED BY <1>0, <1>1, <2>1
<1>3. CASE Bad # {}
  <2>1. PICK k \in Bad : \A j \in Bad : k <= j
    <3> HIDE DEF Bad
    <3> QED BY <1>0, <1>3, LeastNat
  <2>2. k # 0
    BY <1>1, <2>1
  <2>3. k \in 1..n /\ k - 1 \in 0..n /\ k - 1 \notin Bad
    BY <2>1, <2>2
  <2>4. Fine(k - 1)
    BY <2>3
  <2> DEFINE g == f[k - 1]
             ch == chars[k]
             m == w[k - 1]
  <2>5. g \in Drawings /\ Good(g.c, m) /\ m \in Nat /\ ch \in {"a", Blank, "nl"} /\ m <= Limit
    BY <2>3, <2>4
  <2>6. (w[k] = m \/ w[k] = m + 1) /\ w[k] <= Limit /\ w[k] \in Nat
    BY <2>3
  <2>7. f[k] = Put(g, ch)
    BY <1>1, <2>3
  <2> HIDE DEF g, ch, m
  <2>8. Put(g, ch) \in Drawings
    BY <2>5, PutTyped
  <2>9. Good(Put(g, ch).c, w[k])
    BY <2>5, <2>6, PutGood
  <2>10. Fine(k)
    BY <2>7, <2>8, <2>9
  <2> QED BY <2>1, <2>10
<1> QED BY <1>2, <1>3

-----------------------------------------------------------------------------
(* The invariants *)

ExcRecords == [pc : {"idle", "clear", "test", "store", "scroll", "pos", "low", "high"},
               on : {"screen", "memory"}, i : Nat, msg : Seq({"a", "nl"}), pos : Int]

DTypes ==
    /\ video_mem \in Pages /\ video_memory \in [Terminals -> Pages]
    /\ cur \in [Terminals -> Curs]
    /\ num_buf \in [Terminals -> Nat]
    /\ ~lost => \A t \in Terminals : num_buf[t] <= BUF_SIZE
    /\ cursor = [low |-> cursor.low, high |-> cursor.high]
    /\ flag \subseteq Terminals /\ terminal_num \in flag
    /\ actor \in Terminals \cup {None} /\ terminal_displayed \in Terminals
    /\ page \in Terminals \cup {None, Screen}
    /\ exc \in [Terminals -> ExcRecords]
    /\ lost \in BOOLEAN

\* A kernel message that has begun has something left to print, or to draw the
\* cursor; one that has not is NoExc, and only a terminal with a shell prints one.
Drawers == {"pos", "low", "high"}
Waiting ==
    \A t \in Terminals :
        /\ exc[t].pc \notin Drawers \cup {"idle"} => exc[t].msg # <<>>
        /\ exc[t].pc # "idle" => t \in flag
        /\ exc[t].pc = "idle" => exc[t] = NoExc

\* The second part of CursorShownUnlessLost, and the byte already drawn when the
\* displayed terminal's own message is about to write the other one.
Shown ==
    ~lost =>
        /\ exc[terminal_displayed] = NoExc => cursor = CursorAt(cur[terminal_displayed])
        /\ exc[terminal_displayed].pc = "high" =>
               cursor.low = CursorAt(cur[terminal_displayed]).low

DInv == DTypes /\ Waiting /\ Shown

\* Every cursor is on its screen, or on the row below while a kernel message is
\* about to scroll, and the keys of the buffer can be erased without leaving it.
Bottom(t) == IF exc[t].pc = "scroll" THEN NUM_ROWS ELSE NUM_ROWS - 1
OnScreen == ~lost => \A t \in Terminals : Below(cur[t], num_buf[t], Bottom(t))

\* No program prints a backspace.
NoErase == \A out \in Outputs : \A k \in 1..Len(out) : out[k] # "bs"

\* What a step keeps: the invariant, the screens of the other terminals, and the
\* cursors on their screens.
Home == ~lost' => \A t \in Terminals : t # actor' => State(t)' = State(t)
Kept == DInv' /\ Home /\ (NoErase /\ OnScreen => OnScreen')

\* The values that stand for no terminal and no message are of their own, and
\* those the machine starts with have their types.
LEMMA Consts ==
    /\ None \notin Terminals /\ Screen \notin Terminals /\ None # Screen
    /\ Terminals \subseteq Nat /\ 0 \in Terminals
    /\ NoExc \in ExcRecords /\ NoExc.pc = "idle" /\ Origin \in Curs /\ BlankPage \in Pages
    /\ Origin.x = 0 /\ Origin.y = 0 /\ Origin.start = 0 /\ Pos(Origin) = 0
<1>1. /\ None \notin Terminals /\ Screen \notin Terminals /\ None # Screen
      /\ Terminals \subseteq Nat /\ 0 \in Terminals
    BY Grid DEF None, Screen, Terminals
<1>2. NoExc \in ExcRecords /\ NoExc.pc = "idle"
    BY DEF NoExc, ExcRecords
<1>3. Origin \in Curs /\ Origin.x = 0 /\ Origin.y = 0 /\ Origin.start = 0
    BY Grid DEF Origin, Curs
<1>4. BlankPage \in Pages
    BY DEF BlankPage, Pages
<1>5. Pos(Origin) = 0
    BY <1>3, Grid DEF Pos
<1> QED BY <1>1, <1>2, <1>3, <1>4, <1>5

\* The cursor of a cleared screen is on it.
LEMMA OriginGood ==
    ASSUME NEW m
    PROVE  Good(Origin, m)
BY Consts, Grid DEF Good, Below

\* The invariant holds when the machine starts.
LEMMA DisplayInit == Init => DInv /\ OnScreen
<1> SUFFICES ASSUME Init PROVE DInv /\ OnScreen
    OBVIOUS
<1> USE DEF Init
<1>1. DTypes
  <2>1. video_mem \in Pages /\ video_memory \in [Terminals -> Pages]
    BY Consts
  <2>2. cur \in [Terminals -> Curs] /\ exc \in [Terminals -> ExcRecords]
    BY Consts
  <2>3. /\ num_buf \in [Terminals -> Nat] /\ \A t \in Terminals : num_buf[t] <= BUF_SIZE
        /\ cursor = [low |-> cursor.low, high |-> cursor.high]
    BY Grid DEF CursorAt
  <2>4. /\ flag \subseteq Terminals /\ terminal_num \in flag
        /\ actor \in Terminals \cup {None} /\ terminal_displayed \in Terminals
        /\ page \in Terminals \cup {None, Screen} /\ lost \in BOOLEAN
    BY Consts
  <2> QED BY <2>1, <2>2, <2>3, <2>4 DEF DTypes
<1>2. Waiting
    BY Consts DEF Waiting
<1>3. Shown
    BY Consts DEF Shown
<1>4. OnScreen
  <2>1. \A t \in Terminals : exc[t] = NoExc /\ cur[t] = Origin /\ Bottom(t) = NUM_ROWS - 1
    BY Consts DEF Bottom
  <2> QED BY <2>1, OriginGood DEF OnScreen, Good
<1> QED BY <1>1, <1>2, <1>3, <1>4 DEF DInv

\* Terminal t is drawn.
LEMMA Drawing ==
    ASSUME DTypes, NEW t \in Terminals, NEW s \in Drawings, Draw(t, s),
           terminal_displayed' = terminal_displayed
    PROVE  /\ video_mem' \in Pages /\ video_memory' \in [Terminals -> Pages]
           /\ cur' \in [Terminals -> Curs]
           /\ cur'[t] = s.c /\ \A u \in Terminals \ {t} : cur'[u] = cur[u]
           /\ \A u \in Terminals \ {t} : State(u)' = State(u)
           /\ t = terminal_displayed => cursor' = CursorAt(s.c)
           /\ t # terminal_displayed => cursor' = cursor
<1>1. s.mem \in Pages /\ s.c \in Curs
    BY DEF Drawings
<1>2. cur' \in [Terminals -> Curs] /\ cur'[t] = s.c /\ \A u \in Terminals \ {t} : cur'[u] = cur[u]
    BY <1>1 DEF Draw, DTypes
<1>3. CASE t = terminal_displayed
  <2>1. video_mem' = s.mem /\ cursor' = CursorAt(s.c) /\ video_memory' = video_memory
    BY <1>3 DEF Draw
  <2>2. \A u \in Terminals \ {t} : View(u)' = View(u)
    BY <1>3, <2>1 DEF View
  <2> QED BY <1>1, <1>2, <1>3, <2>1, <2>2 DEF State, DTypes
<1>4. CASE t # terminal_displayed
  <2>1. /\ video_memory' = [video_memory EXCEPT ![t] = s.mem]
        /\ video_mem' = video_mem /\ cursor' = cursor
    BY <1>4 DEF Draw
  <2>2. /\ video_memory' \in [Terminals -> Pages]
        /\ \A u \in Terminals \ {t} : video_memory'[u] = video_memory[u]
    BY <1>1, <2>1 DEF DTypes
  <2>3. \A u \in Terminals \ {t} : View(u)' = View(u)
    BY <2>1, <2>2 DEF View
  <2> QED BY <1>2, <1>4, <2>1, <2>2, <2>3 DEF State, DTypes
<1> QED BY <1>3, <1>4

\* A terminal prints, echoes or clears with interrupts off.
LEMMA Printed ==
    ASSUME DInv, NEW t \in Terminals, NEW s \in Drawings, Draw(t, s),
           num_buf' \in [Terminals -> Nat], ~lost' => num_buf'[t] <= BUF_SIZE,
           \A u \in Terminals \ {t} : num_buf'[u] = num_buf[u],
           UNCHANGED <<flag, terminal_num, terminal_displayed, page, exc>>,
           actor' = t, lost' \in BOOLEAN, lost => lost',
           NoErase /\ OnScreen /\ ~lost' => Good(s.c, num_buf'[t])
    PROVE  Kept
<1>0. DTypes
    BY DEF DInv
<1>1. /\ video_mem' \in Pages /\ video_memory' \in [Terminals -> Pages]
      /\ cur' \in [Terminals -> Curs]
      /\ cur'[t] = s.c /\ \A u \in Terminals \ {t} : cur'[u] = cur[u]
      /\ \A u \in Terminals \ {t} : State(u)' = State(u)
      /\ t = terminal_displayed => cursor' = CursorAt(s.c)
      /\ t # terminal_displayed => cursor' = cursor
    BY <1>0, Drawing
<1>2. DTypes'
  <2>1. cursor' = [low |-> cursor'.low, high |-> cursor'.high]
    BY <1>0, <1>1 DEF CursorAt, DTypes
  <2>2. ~lost' => \A u \in Terminals : num_buf'[u] <= BUF_SIZE
    BY <1>0 DEF DTypes
  <2> QED BY <1>0, <1>1, <2>1, <2>2 DEF DTypes
<1>3. Waiting'
    BY DEF DInv, Waiting
<1>4. Shown'
    BY <1>0, <1>1 DEF DInv, Shown, DTypes
<1>5. Home
    BY <1>1 DEF Home
<1>6. ASSUME NoErase, OnScreen, ~lost'
      PROVE  \A u \in Terminals : Below(cur'[u], num_buf'[u], Bottom(u)')
  <2>1. \A u \in Terminals : Bottom(u)' = Bottom(u)
    BY DEF Bottom
  <2>2. Below(cur'[t], num_buf'[t], Bottom(t)')
    <3>1. Good(s.c, num_buf'[t])
      BY <1>6
    <3>2. s.c \in Curs /\ s.c.y \in Int
      BY Positions DEF Drawings
    <3> QED BY <1>1, <3>1, <3>2, Grid DEF Good, Below, Bottom
  <2>3. ASSUME NEW u \in Terminals \ {t} PROVE Below(cur'[u], num_buf'[u], Bottom(u)')
    BY <1>1, <1>6, <2>1 DEF OnScreen
  <2> QED BY <2>2, <2>3
<1> QED BY <1>2, <1>3, <1>4, <1>5, <1>6 DEF Kept, DInv, OnScreen

\* What a terminal has now is a drawing.
LEMMA StateTyped ==
    ASSUME DTypes, NEW t \in Terminals
    PROVE  State(t) \in Drawings /\ State(t).c = cur[t]
BY DEF DTypes, State, View, Drawings

\* terminal_write keeps it (terminal.c 66-80).
LEMMA Writing ==
    ASSUME DInv, NEW out \in Outputs, terminal_write(out)
    PROVE  Kept
<1> DEFINE t == terminal_num
           s == Puts(State(t), out)
<1>0. DTypes /\ t \in Terminals
    BY DEF DInv, DTypes
<1>1. Len(out) \in Nat /\ \A k \in 1..Len(out) : out[k] \in {"a", "nl", "bs"}
  <2>1. out \in Seq({"a", "nl", "bs"})
    BY DisplayAssumption
  <2> QED BY <2>1
<1>2. State(t) \in Drawings /\ State(t).c = cur[t]
    BY <1>0, StateTyped
<1>3. s \in Drawings
    BY <1>1, <1>2, PutsTyped
<1>4. ASSUME NoErase, OnScreen, ~lost PROVE Good(s.c, num_buf[t])
  <2> DEFINE m == num_buf[t]
             w == [k \in 0..Len(out) |-> m]
  <2>1. m \in Nat /\ m <= Limit
    BY <1>0, <1>4, Grid DEF DTypes
  <2>2. Good(cur[t], m)
    BY <1>0, <1>4 DEF OnScreen, Good, Bottom, terminal_write
  <2> HIDE DEF m
  <2>3. /\ w \in [0..Len(out) -> Nat] /\ w[0] = m /\ w[Len(out)] = m
        /\ \A k \in 0..Len(out) : w[k] <= Limit
        /\ \A k \in 1..Len(out) : w[k] = w[k - 1] \/ w[k] = w[k - 1] + 1
    BY <1>1, <2>1
  <2>4. \A k \in 1..Len(out) : out[k] \in {"a", Blank, "nl"}
    BY <1>1, <1>4 DEF NoErase
  <2> HIDE DEF w
  <2>5. Good(State(t).c, w[0])
    BY <1>2, <2>2, <2>3
  <2>6. Good(Puts(State(t), out).c, w[Len(out)])
    BY <1>1, <1>2, <2>3, <2>4, <2>5, PutsGood
  <2> QED BY <2>3, <2>6 DEF m
<1>5. /\ Draw(t, s) /\ num_buf' = num_buf /\ lost' = lost /\ actor' = t
      /\ UNCHANGED <<flag, terminal_num, terminal_displayed, page, exc>>
    BY DEF terminal_write
<1>6. /\ num_buf' \in [Terminals -> Nat] /\ lost' \in BOOLEAN /\ (lost => lost')
      /\ ~lost' => num_buf'[t] <= BUF_SIZE
    BY <1>0, <1>5 DEF DTypes
<1> HIDE DEF s, t
<1> QED BY <1>0, <1>3, <1>4, <1>5, <1>6, Printed

\* A step that shows nothing.
LEMMA Reading ==
    ASSUME DInv, NEW k \in 1..BUF_SIZE, terminal_read(k)
    PROVE  Kept
<1> DEFINE t == terminal_num
<1>0. DTypes /\ t \in Terminals
    BY DEF DInv, DTypes
<1>1. /\ num_buf' \in [Terminals -> Nat]
      /\ \A u \in Terminals : num_buf'[u] <= num_buf[u] /\ num_buf[u] \in Nat /\ num_buf'[u] \in Nat
  <2>1. /\ num_buf \in [Terminals -> Nat] /\ k \in Int /\ k >= 1 /\ k <= num_buf[t]
        /\ num_buf' = [num_buf EXCEPT ![t] = num_buf[t] - k]
    BY <1>0 DEF terminal_read, DTypes
  <2> HIDE DEF t
  <2> QED BY <1>0, <2>1
<1>2. /\ UNCHANGED <<video_mem, video_memory, cur, cursor, flag, terminal_num, terminal_displayed,
                     page, exc, lost>>
      /\ actor' = t
    BY DEF terminal_read, shown
<1>3. DTypes'
  <2>1. ~lost' => \A u \in Terminals : num_buf'[u] <= BUF_SIZE
    BY <1>0, <1>1, <1>2, Grid DEF DTypes
  <2> QED BY <1>0, <1>1, <1>2, <2>1 DEF DTypes
<1>4. Waiting'
    BY <1>2 DEF DInv, Waiting
<1>5. Shown'
    BY <1>2 DEF DInv, Shown
<1>6. Home
    BY <1>2 DEF Home, State, View
<1>7. OnScreen => OnScreen'
  <2> SUFFICES ASSUME ~lost, NEW u \in Terminals, Below(cur[u], num_buf[u], Bottom(u))
               PROVE  Below(cur[u], num_buf'[u], Bottom(u))
    BY <1>2 DEF OnScreen, Bottom
  <2>1. Pos(cur[u]) \in Int
    BY <1>0, Positions DEF DTypes
  <2> QED BY <1>1, <2>1 DEF Below
<1> QED BY <1>3, <1>4, <1>5, <1>6, <1>7 DEF Kept, DInv

\* One character.
LEMMA PutsOne ==
    ASSUME NEW s, NEW ch
    PROVE  Puts(s, <<ch>>) = Put(s, ch)
<1> DEFINE chars == <<ch>>
<1>1. Len(chars) = 1 /\ chars[1] = ch
    OBVIOUS
<1> HIDE DEF chars
<1>2. PICK f : /\ Puts(s, chars) = f[1] /\ f[0] = s
               /\ \A k \in 1..1 : f[k] = Put(f[k - 1], chars[k])
    BY <1>1, PutsRuns
<1> QED BY <1>1, <1>2 DEF chars

\* The echo of characters that are written and of n more or less in the buffer.
LEMMA Echoing ==
    ASSUME DInv, NEW chars, Len(chars) \in Nat,
           \A k \in 1..Len(chars) : chars[k] \in {"a", Blank, "nl", "bs"}, NEW n \in Int,
           num_buf[terminal_displayed] + n \in Nat,
           ~lost => num_buf[terminal_displayed] + n <= BUF_SIZE,
           Echo(chars, n),
           ~lost /\ Good(cur[terminal_displayed], num_buf[terminal_displayed]) =>
               Good(Puts(State(terminal_displayed), chars).c, num_buf[terminal_displayed] + n)
    PROVE  Kept
<1> DEFINE t == terminal_displayed
           s == Puts(State(t), chars)
<1>0. DTypes /\ t \in Terminals
    BY DEF DInv, DTypes
<1>2. State(t) \in Drawings /\ State(t).c = cur[t]
    BY <1>0, StateTyped
<1>3. s \in Drawings
    BY <1>2, PutsTyped
<1>4. ASSUME OnScreen, ~lost, ~Torn(t) PROVE Good(cur[t], num_buf[t])
  <2>1. Bottom(t) = NUM_ROWS - 1
    BY <1>4 DEF Torn, Bottom
  <2> QED BY <1>0, <1>4, <2>1 DEF OnScreen, Good
<1>5. /\ Draw(t, s) /\ num_buf' = [num_buf EXCEPT ![t] = @ + n] /\ actor' = t
      /\ lost' = (lost \/ Torn(t))
      /\ UNCHANGED <<flag, terminal_num, terminal_displayed, page, exc>>
    BY DEF Echo
<1>6. /\ num_buf' \in [Terminals -> Nat] /\ num_buf'[t] = num_buf[t] + n
      /\ \A u \in Terminals \ {t} : num_buf'[u] = num_buf[u]
    BY <1>0, <1>5 DEF DTypes
<1>7. lost' \in BOOLEAN /\ (lost => lost') /\ (~lost' => ~lost /\ ~Torn(t))
    BY <1>5
<1>8. OnScreen /\ ~lost' => Good(s.c, num_buf'[t])
    BY <1>4, <1>6, <1>7
<1> HIDE DEF s
<1> QED BY <1>0, <1>3, <1>5, <1>6, <1>7, <1>8, Printed

\* TAB past the end of the buffer is marked, whatever it leaves behind key_buf
\* (keyboard.c 281-286).
LEMMA Overrunning ==
    ASSUME DInv, KeyTabOverrun
    PROVE  Kept
<1> DEFINE t == terminal_displayed
           s == Puts(State(t), Spaces)
<1>0. DTypes /\ t \in Terminals
    BY DEF DInv, DTypes
<1>1. TabSize \in Nat /\ num_buf[t] \in Nat
    BY <1>0, Grid DEF DTypes
<1>2. s \in Drawings
  <2>1. State(t) \in Drawings
    BY <1>0, StateTyped
  <2>2. Len(Spaces) = TabSize /\ \A k \in 1..TabSize : Spaces[k] \in {"a", Blank, "nl", "bs"}
    BY <1>1 DEF Spaces
  <2> QED BY <1>1, <2>1, <2>2, PutsTyped
<1>3. /\ lost' = TRUE /\ actor' = t
      /\ UNCHANGED <<flag, terminal_num, terminal_displayed, page, exc>>
    BY DEF KeyTabOverrun
<1>4. /\ num_buf' \in [Terminals -> Nat]
      /\ \A u \in Terminals \ {t} : num_buf'[u] = num_buf[u]
  <2>1. PICK n \in 0..(num_buf[t] + TabSize) : num_buf' = [num_buf EXCEPT ![t] = n]
    BY DEF KeyTabOverrun
  <2>2. n \in Nat
    BY <1>1
  <2> QED BY <1>0, <2>1, <2>2 DEF DTypes
<1>5. PICK x \in 0..(NUM_COLS - 1), y \in 0..NUM_ROWS :
          Draw(t, [s EXCEPT !.c = [s.c EXCEPT !.x = x, !.y = y]])
    BY DEF KeyTabOverrun
<1> HIDE DEF s
<1> DEFINE c == [s.c EXCEPT !.x = x, !.y = y]
           z == [s EXCEPT !.c = c]
<1>6. s.c \in Curs /\ s.c.start \in Int /\ y \in Int
    BY <1>2, Grid DEF Drawings, Curs
<1>7. c \in Curs
    BY <1>6, NewCur
<1>8. Draw(t, z)
    BY <1>5
<1> HIDE DEF c
<1>9. z \in Drawings
    BY <1>2, <1>7 DEF Drawings
<1> HIDE DEF z, t
<1> QED BY <1>0, <1>3, <1>4, <1>8, <1>9, Printed

\* So does every key (keyboard.c 280-391).
LEMMA Keying ==
    ASSUME DInv, Key
    PROVE  Kept
<1> DEFINE t == terminal_displayed
           s == State(t)
           m == num_buf[t]
<1>0. DTypes /\ t \in Terminals
    BY DEF DInv, DTypes
<1>1. s \in Drawings /\ s.c = cur[t]
    BY <1>0, StateTyped
<1>2. m \in Nat /\ (~lost => m <= BUF_SIZE) /\ m \in Int
    BY <1>0, Grid DEF DTypes
<1>3. ASSUME NEW ch \in {"a", "nl"}, ~lost => m + 1 <= BUF_SIZE, Echo(<<ch>>, 1) PROVE Kept
  <2>1. Len(<<ch>>) \in Nat /\ \A k \in 1..Len(<<ch>>) : <<ch>>[k] \in {"a", Blank, "nl", "bs"}
    BY <1>3
  <2>2. ~lost /\ Good(cur[t], m) => Good(Puts(s, <<ch>>).c, m + 1)
    <3>1. Puts(s, <<ch>>) = Put(s, ch)
      BY PutsOne
    <3>2. ~lost => m + 1 <= Limit
      BY <1>2, <1>3, Grid
    <3> HIDE DEF s, m, t
    <3> QED BY <1>1, <1>2, <1>3, <3>1, <3>2, PutGood
  <2>3. m + 1 \in Nat /\ (~lost => m + 1 <= BUF_SIZE) /\ 1 \in Int
    BY <1>2, <1>3
  <2> DEFINE chars == <<ch>>
  <2> HIDE DEF chars
  <2>4. /\ Len(chars) \in Nat /\ \A k \in 1..Len(chars) : chars[k] \in {"a", Blank, "nl", "bs"}
        /\ Echo(chars, 1) /\ (~lost /\ Good(cur[t], m) => Good(Puts(s, chars).c, m + 1))
    BY <1>3, <2>1, <2>2 DEF chars
  <2> QED BY <2>3, <2>4, Echoing
<1>4. CASE KeyChar
  <2>1. (~lost => m + 1 <= BUF_SIZE) /\ Echo(<<"a">>, 1)
    BY <1>2, <1>4, Grid DEF KeyChar
  <2> QED BY <1>3, <2>1
<1>5. CASE KeyEnter
  <2>1. (~lost => m + 1 <= BUF_SIZE) /\ Echo(<<"nl">>, 1)
    BY <1>2, <1>5, Grid DEF KeyEnter
  <2> QED BY <1>3, <2>1
<1>6. CASE KeyBackspace
  <2>1. m > 0 /\ Echo(<<"bs">>, -1)
    BY <1>6 DEF KeyBackspace
  <2> DEFINE chars == <<"bs">>
  <2>2. Len(chars) \in Nat /\ \A k \in 1..Len(chars) : chars[k] \in {"a", Blank, "nl", "bs"}
    OBVIOUS
  <2>3. m + -1 \in Nat /\ (~lost => m + -1 <= BUF_SIZE) /\ -1 \in Int /\ m + -1 = m - 1
    BY <1>2, <2>1, Grid
  <2>4. Good(cur[t], m) => Good(Puts(s, chars).c, m + -1)
    <3>1. Puts(s, chars) = Put(s, "bs")
      BY PutsOne
    <3> HIDE DEF s, m, t, chars
    <3>2. Good(s.c, m) => Good(Put(s, "bs").c, m - 1)
      BY <1>1, <1>2, <2>1, BackGood
    <3> QED BY <1>1, <2>3, <3>1, <3>2
  <2>5. Echo(chars, -1)
    BY <2>1
  <2> HIDE DEF chars
  <2> QED BY <2>2, <2>3, <2>4, <2>5, Echoing
<1>9. CASE "tab" \in Keys /\ KeyTabOverrun
    BY <1>9, Overrunning
<1>7. CASE "tab" \in Keys /\ m + TabSize <= BUF_SIZE /\ Echo(Spaces, TabSize)
  <2> DEFINE chars == [k \in 1..TabSize |-> Blank]
  <2>0. TabSize \in Nat /\ TabSize \in Int
    BY Grid
  <2>1. m + TabSize <= BUF_SIZE /\ Echo(chars, TabSize)
    BY <1>7 DEF Spaces
  <2>2. Len(chars) = TabSize /\ \A k \in 1..TabSize : chars[k] = Blank
    BY <2>0
  <2>3. m + TabSize \in Nat /\ m + TabSize <= BUF_SIZE
    BY <1>2, <2>0, <2>1
  <2> HIDE DEF chars
  <2>4. Good(cur[t], m) => Good(Puts(s, chars).c, m + TabSize)
    <3> DEFINE w == [k \in 0..TabSize |-> m + k]
    <3>0. m \in Nat /\ m + TabSize <= Limit
      BY <1>2, <2>0, <2>1, Grid
    <3> HIDE DEF m
    <3>1. /\ w \in [0..TabSize -> Nat] /\ w[0] = m /\ w[TabSize] = m + TabSize
          /\ \A k \in 0..TabSize : w[k] <= Limit
          /\ \A k \in 1..TabSize : w[k] = w[k - 1] \/ w[k] = w[k - 1] + 1
      BY <2>0, <3>0, Grid
    <3> HIDE DEF w, s, t
    <3>2. \A k \in 1..TabSize : chars[k] \in {"a", Blank, "nl"}
      BY <2>2
    <3>3. Good(s.c, w[0]) => Good(Puts(s, chars).c, w[TabSize])
      BY <1>1, <2>0, <2>2, <3>1, <3>2, PutsGood
    <3> QED BY <1>1, <3>1, <3>3
  <2>5. Len(chars) \in Nat /\ \A k \in 1..Len(chars) : chars[k] \in {"a", Blank, "nl", "bs"}
    BY <2>0, <2>2
  <2> QED BY <2>0, <2>1, <2>3, <2>4, <2>5, Echoing
<1>8. CASE KeyClear
  <2> DEFINE o == [mem |-> BlankPage, c |-> Origin]
  <2>1. /\ Draw(t, o) /\ num_buf' = [num_buf EXCEPT ![t] = 0] /\ actor' = t
        /\ lost' = (lost \/ Torn(t))
        /\ UNCHANGED <<flag, terminal_num, terminal_displayed, page, exc>>
    BY <1>8 DEF KeyClear
  <2>2. o \in Drawings /\ o.c = Origin
    BY Consts DEF Drawings
  <2> HIDE DEF o
  <2>3. /\ num_buf' \in [Terminals -> Nat] /\ num_buf'[t] <= BUF_SIZE
        /\ \A u \in Terminals \ {t} : num_buf'[u] = num_buf[u]
    BY <1>0, <2>1, Grid DEF DTypes
  <2>4. Good(o.c, num_buf'[t])
    BY <2>2, OriginGood
  <2>5. lost' \in BOOLEAN /\ (lost => lost')
    BY <1>0, <2>1 DEF DTypes
  <2> QED BY <1>0, <2>1, <2>2, <2>3, <2>4, <2>5, Printed
<1> QED BY <1>4, <1>5, <1>6, <1>7, <1>8, <1>9 DEF Key, KeyTab

\* The displayed terminal changes: what it showed is kept in its page.
LEMMA Switching ==
    ASSUME DInv, NEW new \in Terminals, switch_terminal(new)
    PROVE  Kept
<1> DEFINE d == terminal_displayed
<1>0. DTypes /\ d \in Terminals
    BY DEF DInv, DTypes
<1>1. /\ new # d
      /\ video_memory' = [video_memory EXCEPT ![d] = video_mem]
      /\ video_mem' = video_memory[new]
      /\ terminal_displayed' = new /\ cursor' = CursorAt(cur[new]) /\ actor' = None
      /\ UNCHANGED <<cur, num_buf, flag, terminal_num, page, exc, lost>>
    BY DEF switch_terminal, Copies
<1>2. DTypes'
  <2>1. video_memory' \in [Terminals -> Pages] /\ video_mem' \in Pages
    BY <1>0, <1>1 DEF DTypes
  <2>2. cursor' = [low |-> cursor'.low, high |-> cursor'.high]
    BY <1>1 DEF CursorAt
  <2> QED BY <1>0, <1>1, <2>1, <2>2 DEF DTypes
<1>3. Waiting'
    BY <1>1 DEF DInv, Waiting
<1>4. Shown'
  <2>1. cursor' = CursorAt(cur'[new])
    BY <1>1
  <2> QED BY <1>1, <2>1 DEF Shown
<1>5. Home
  <2>1. ASSUME NEW u \in Terminals PROVE View(u)' = View(u)
    <3>1. CASE u = d
      BY <1>0, <1>1, <3>1 DEF View, DTypes
    <3>2. CASE u = new
      BY <1>0, <1>1, <3>2 DEF View, DTypes
    <3>3. CASE u # d /\ u # new
      BY <1>0, <1>1, <3>3 DEF View, DTypes
    <3> QED BY <3>1, <3>2, <3>3
  <2> QED BY <1>1, <2>1 DEF Home, State
<1>6. OnScreen => OnScreen'
    BY <1>1 DEF OnScreen, Bottom
<1> QED BY <1>2, <1>3, <1>4, <1>5, <1>6 DEF Kept, DInv

\* A terminal is opened with what execute printed there, if anything.
LEMMA Opened ==
    ASSUME DInv, NEW new \in Terminals, new # terminal_displayed, new \notin flag,
           NEW s \in Drawings, Good(s.c, 0), s.c.start >= 0,
           video_memory' = [video_memory EXCEPT ![terminal_displayed] = video_mem],
           video_mem' = s.mem, terminal_displayed' = new,
           cur' = [cur EXCEPT ![new] = s.c], cursor' = CursorAt(s.c), actor' = new,
           flag \subseteq flag', flag' \subseteq Terminals, terminal_num' \in flag',
           UNCHANGED <<num_buf, page, exc, lost>>
    PROVE  Kept
<1> DEFINE d == terminal_displayed
<1>0. DTypes /\ d \in Terminals
    BY DEF DInv, DTypes
<1>1. s.mem \in Pages /\ s.c \in Curs
    BY DEF Drawings
<1>2. /\ cur' \in [Terminals -> Curs] /\ cur'[new] = s.c
      /\ \A u \in Terminals \ {new} : cur'[u] = cur[u]
    BY <1>0, <1>1 DEF DTypes
<1>3. DTypes'
  <2>1. video_memory' \in [Terminals -> Pages]
    BY <1>0 DEF DTypes
  <2>2. cursor' = [low |-> cursor'.low, high |-> cursor'.high]
    BY DEF CursorAt
  <2> QED BY <1>0, <1>1, <1>2, <2>1, <2>2 DEF DTypes
<1>4. Waiting'
    BY DEF DInv, Waiting
<1>5. Shown'
  <2>1. cursor' = CursorAt(cur'[new])
    BY <1>2
  <2> QED BY <2>1 DEF Shown
<1>6. Home
  <2>1. ASSUME NEW u \in Terminals, u # new PROVE View(u)' = View(u)
    <3>1. CASE u = d
      BY <1>0, <2>1, <3>1 DEF View, DTypes
    <3>2. CASE u # d
      BY <1>0, <2>1, <3>2 DEF View, DTypes
    <3> QED BY <3>1, <3>2
  <2> QED BY <1>2, <2>1 DEF Home, State
<1>7. OnScreen => OnScreen'
  <2> SUFFICES ASSUME ~lost, NEW u \in Terminals,
                      \A v \in Terminals : Below(cur[v], num_buf[v], Bottom(v))
               PROVE  Below(cur'[u], num_buf[u], Bottom(u))
    BY DEF OnScreen, Bottom
  <2>1. CASE u # new
    BY <1>2, <2>1
  <2>2. CASE u = new
    <3>1. exc[u].pc = "idle"
      BY <2>2 DEF DInv, Waiting
    <3>2. s.c.start \in Int
      BY <1>1, Positions
    <3> QED BY <1>2, <2>2, <3>1, <3>2 DEF Bottom, Good, Below
  <2> QED BY <2>1, <2>2
<1> QED BY <1>3, <1>4, <1>5, <1>6, <1>7 DEF Kept, DInv

\* So does Alt+Fn to a terminal not yet open (lib.c 54-68).
LEMMA OpeningTerminal ==
    ASSUME DInv, NEW new \in Terminals, OpenTerminal(new) \/ OpenTerminalFull(new)
    PROVE  Kept
<1> DEFINE o == [mem |-> BlankPage, c |-> Origin]
<1>0. DTypes
    BY DEF DInv
<1>1. o \in Drawings /\ o.mem = BlankPage /\ o.c = Origin
    BY Consts DEF Drawings
<1> HIDE DEF o
<1>2. Good(o.c, 0) /\ o.c.start >= 0
    BY <1>1, OriginGood, Consts
<1>3. CASE OpenTerminal(new)
  <2>1. /\ new # terminal_displayed /\ new \notin flag
        /\ video_memory' = [video_memory EXCEPT ![terminal_displayed] = video_mem]
        /\ video_mem' = o.mem /\ terminal_displayed' = new
        /\ cur' = [cur EXCEPT ![new] = o.c] /\ cursor' = CursorAt(o.c) /\ actor' = new
        /\ UNCHANGED <<num_buf, page, exc, lost>>
    BY <1>1, <1>3, Consts DEF OpenTerminal
  <2>2. flag \subseteq flag' /\ flag' \subseteq Terminals /\ terminal_num' \in flag'
    BY <1>0, <1>3 DEF OpenTerminal, DTypes
  <2> QED BY <1>1, <1>2, <2>1, <2>2, Opened
<1>4. CASE OpenTerminalFull(new)
  <2> DEFINE a == Put(o, "a")
             s == Put(a, "nl")
             chars == <<"a", "nl">>
  <2>1. Puts(o, chars) = s
    <3>1. Len(chars) = 2 /\ chars[1] = "a" /\ chars[2] = "nl"
      OBVIOUS
    <3> HIDE DEF chars
    <3>2. PICK f : /\ Puts(o, chars) = f[Len(chars)] /\ f[0] = o
                   /\ \A k \in 1..Len(chars) : f[k] = Put(f[k - 1], chars[k])
      <4>1. Len(chars) \in Nat
        BY <3>1
      <4> QED BY <4>1, PutsRuns
    <3>3. f[1] = Put(f[0], chars[1]) /\ f[2] = Put(f[1], chars[2])
      BY <3>1, <3>2
    <3> QED BY <3>1, <3>2, <3>3
  <2>2. a \in Drawings /\ Good(a.c, 0)
    BY <1>1, <1>2, Grid, PutTyped, PutGood
  <2> HIDE DEF a
  <2>3. s \in Drawings /\ Good(s.c, 0)
    BY <2>2, Grid, PutTyped, PutGood
  <2>4. s.c.start >= 0
    <3> DEFINE b == NewLine(a)
    <3>1. s = Scroll(b) /\ b = [a EXCEPT !.c = [x |-> 0, y |-> a.c.y + 1, start |-> (a.c.y + 1) * NUM_COLS]]
      BY DEF Put, Advance, NewLine
    <3>2. b.c.y = a.c.y + 1 /\ b.c.start = (a.c.y + 1) * NUM_COLS
      BY <2>2, <3>1 DEF Drawings
    <3>3. a.c.y \in Int /\ a.c.y >= 0
      BY <2>2, Positions DEF Good, Below
    <3>4. a.c.y + 1 \in Int /\ a.c.y + 1 >= 1
      BY <3>3
    <3>5. (a.c.y + 1) * NUM_COLS >= NUM_COLS /\ (a.c.y + 1) * NUM_COLS \in Int
      BY <3>4, Rows
    <3>6. b \in Drawings
      <4>1. b = Advance(a, "nl")
        BY DEF Advance
      <4> QED BY <2>2, <4>1, AdvanceTyped
    <3> HIDE DEF b, s
    <3>7. s.c.start = b.c.start \/ s.c.start = b.c.start - NUM_COLS
      <4>1. b.c \in Curs
        BY <3>6 DEF Drawings
      <4>2. CASE b.c.y # NUM_ROWS
        BY <3>1, <4>2 DEF Scroll
      <4>3. CASE b.c.y = NUM_ROWS
        <5>1. s.c = [b.c EXCEPT !.y = b.c.y - 1, !.start = b.c.start - NUM_COLS]
          BY <3>1, <4>3 DEF Scroll
        <5> QED BY <4>1, <5>1 DEF Curs
      <4> QED BY <4>2, <4>3
    <3> QED BY <3>2, <3>5, <3>7, Grid
  <2> HIDE DEF s
  <2>5. Puts([mem |-> BlankPage, c |-> Origin], <<"a", "nl">>) = s
    BY <2>1 DEF o
  <2>6. /\ new # terminal_displayed /\ new \notin flag
        /\ video_memory' = [video_memory EXCEPT ![terminal_displayed] = video_mem]
        /\ video_mem' = s.mem /\ terminal_displayed' = new
        /\ cur' = [cur EXCEPT ![new] = s.c] /\ cursor' = CursorAt(s.c) /\ actor' = new
        /\ UNCHANGED <<num_buf, page, exc, lost, flag, terminal_num>>
    BY <1>4, <2>5 DEF OpenTerminalFull
  <2>7. flag \subseteq flag' /\ flag' \subseteq Terminals /\ terminal_num' \in flag'
    BY <1>0, <2>6 DEF DTypes
  <2> QED BY <2>3, <2>4, <2>6, <2>7, Opened
<1> QED BY <1>3, <1>4

\* Steps that only choose who runs and what is mapped.
LEMMA Mapping ==
    ASSUME DInv, (\E t \in Terminals : Tick(t)) \/ vidmap
    PROVE  Kept
<1>0. DTypes
    BY DEF DInv
<1>1. UNCHANGED <<video_mem, video_memory, cur, cursor, num_buf, flag, terminal_displayed, exc, lost>>
    BY DEF Tick, vidmap, shown
<1>2. /\ terminal_num' \in flag /\ page' \in Terminals \cup {None, Screen}
      /\ actor' \in Terminals \cup {None}
    BY <1>0 DEF Tick, vidmap, DTypes
<1>3. DTypes'
    BY <1>0, <1>1, <1>2 DEF DTypes
<1>4. Waiting'
    BY <1>1 DEF DInv, Waiting
<1>5. Shown'
    BY <1>1 DEF DInv, Shown
<1>6. Home
    BY <1>1 DEF Home, State, View
<1>7. OnScreen => OnScreen'
    BY <1>1 DEF OnScreen, Bottom
<1> QED BY <1>3, <1>4, <1>5, <1>6, <1>7 DEF Kept, DInv

\* A program stores through the page at 132 MB.
LEMMA UserStoring ==
    ASSUME DInv, NEW p \in Cells, UserStore(p)
    PROVE  Kept
<1> DEFINE t == terminal_num
           q == p - Shift(page)
           own == page = IF t = terminal_displayed THEN Screen ELSE t
<1>0. DTypes /\ t \in Terminals /\ p \in Int /\ p >= 0
  <2>1. p \in Int /\ p >= 0
    BY Grid
  <2> QED BY <2>1 DEF DInv, DTypes
<1>1. /\ page # None /\ lost' = (lost \/ Shift(page) # 0 \/ ~own) /\ actor' = t
      /\ UNCHANGED <<cursor, num_buf, flag, terminal_num, terminal_displayed, page, exc>>
    BY DEF UserStore
<1>2. lost' \in BOOLEAN /\ (~lost' => ~lost /\ Shift(page) = 0 /\ own)
    BY <1>1
<1>3. Waiting'
    BY <1>1 DEF DInv, Waiting
<1>4. CASE page = Screen /\ video_mem' = [video_mem EXCEPT ![q] = "a"] /\ UNCHANGED <<video_memory, cur>>
  <2>1. video_mem' \in Pages
    BY <1>0, <1>4 DEF Pages, DTypes
  <2>2. DTypes'
    BY <1>0, <1>1, <1>2, <1>4, <2>1 DEF DTypes
  <2>3. Shown'
    BY <1>1, <1>2, <1>4 DEF DInv, Shown
  <2>4. Home
    <3>1. ~lost' => t = terminal_displayed
      BY <1>0, <1>2, <1>4, Consts
    <3> QED BY <1>1, <1>4, <3>1 DEF Home, State, View
  <2>5. OnScreen => OnScreen'
    BY <1>1, <1>2, <1>4 DEF OnScreen, Bottom
  <2> QED BY <1>3, <2>2, <2>3, <2>4, <2>5 DEF Kept, DInv
<1>5. CASE /\ page # Screen
           /\ video_memory' = [video_memory EXCEPT ![page] = [@ EXCEPT ![q] = "a"]]
           /\ UNCHANGED <<video_mem, cur>>
  <2>0. page \in Terminals
    BY <1>0, <1>1, <1>5 DEF DTypes
  <2>1. /\ video_memory' \in [Terminals -> Pages]
        /\ \A u \in Terminals \ {page} : video_memory'[u] = video_memory[u]
    <3>1. [video_memory[page] EXCEPT ![q] = "a"] \in Pages
      BY <1>0, <2>0 DEF Pages, DTypes
    <3> HIDE DEF q
    <3> QED BY <1>0, <1>5, <2>0, <3>1 DEF DTypes
  <2>2. DTypes'
    BY <1>0, <1>1, <1>2, <1>5, <2>1 DEF DTypes
  <2>3. Shown'
    BY <1>1, <1>2, <1>5 DEF DInv, Shown
  <2>4. Home
    <3>1. ~lost' => page = t
      BY <1>2, <1>5
    <3> QED BY <1>1, <1>5, <2>1, <3>1 DEF Home, State, View
  <2>5. OnScreen => OnScreen'
    BY <1>1, <1>2, <1>5 DEF OnScreen, Bottom
  <2> QED BY <1>3, <2>2, <2>3, <2>4, <2>5 DEF Kept, DInv
<1>6. CASE /\ page # Screen /\ q < 0
           /\ \E y \in 0..NUM_ROWS : cur' = [cur EXCEPT ![page - 1].y = y]
           /\ UNCHANGED <<video_mem, video_memory>>
  <2>0. page \in Terminals /\ page \in Nat
    BY <1>0, <1>1, <1>6, Consts DEF DTypes
  <2>1. Shift(page) = page * Skew /\ Skew \in Nat
    BY <1>6, DisplayAssumption DEF Shift
  <2>2. Shift(page) \in Int
    BY <2>0, <2>1
  <2>3. Shift(page) # 0
    BY <1>0, <1>6, <2>2
  <2>4. lost'
    BY <1>1, <2>3
  <2>5. cur' \in [Terminals -> Curs]
    <3>1. PICK y \in 0..NUM_ROWS : cur' = [cur EXCEPT ![page - 1].y = y]
      BY <1>6
    <3>a. y \in Int
      BY Grid
    <3>2. \A c \in Curs : [c EXCEPT !.y = y] \in Curs
      BY <3>a DEF Curs
    <3>3. page - 1 \in Terminals => cur[page - 1] \in Curs
      BY <1>0 DEF DTypes
    <3> QED BY <1>0, <3>1, <3>2, <3>3 DEF DTypes
  <2>6. DTypes'
    BY <1>0, <1>1, <1>2, <1>6, <2>5 DEF DTypes
  <2> QED BY <1>3, <2>4, <2>6 DEF Kept, DInv, Shown, Home, OnScreen
<1> QED BY <1>4, <1>5, <1>6 DEF UserStore

-----------------------------------------------------------------------------
(* Kernel messages *)

\* What every step of a message has in common: r is where the message goes on.
LEMMA Telling ==
    ASSUME DInv, NEW t \in Terminals, t = terminal_num,
           NEW r \in ExcRecords, exc' = [exc EXCEPT ![t] = r],
           r.pc \notin Drawers \cup {"idle"} => r.msg # <<>>, r.pc = "idle" => r = NoExc,
           UNCHANGED <<num_buf, flag, terminal_num, terminal_displayed, page>>, actor' = t,
           video_mem' \in Pages, video_memory' \in [Terminals -> Pages],
           cur' \in [Terminals -> Curs], lost' \in BOOLEAN, lost => lost',
           ~lost' => \A u \in Terminals \ {t} : View(u)' = View(u) /\ cur'[u] = cur[u],
           cursor' = [low |-> cursor'.low, high |-> cursor'.high],
           ~lost' /\ t # terminal_displayed =>
               /\ cursor'.low \in {cursor.low, CursorAt(cur[terminal_displayed]).low}
               /\ cursor'.high \in {cursor.high, CursorAt(cur[terminal_displayed]).high},
           ~lost' /\ t = terminal_displayed /\ r = NoExc => cursor' = CursorAt(cur'[t]),
           ~lost' /\ t = terminal_displayed /\ r.pc = "high" =>
               cursor'.low = CursorAt(cur'[t]).low,
           ~lost' /\ OnScreen =>
               Below(cur'[t], num_buf[t], IF r.pc = "scroll" THEN NUM_ROWS ELSE NUM_ROWS - 1)
    PROVE  Kept
<1>0. DTypes /\ t \in flag
    BY DEF DInv, DTypes
<1>1. exc' \in [Terminals -> ExcRecords] /\ exc'[t] = r /\ \A u \in Terminals \ {t} : exc'[u] = exc[u]
    BY <1>0 DEF DTypes
<1>2. DTypes'
    BY <1>0, <1>1 DEF DTypes
<1>3. Waiting'
    BY <1>0, <1>1 DEF DInv, Waiting
<1>4. Shown'
  <2> DEFINE d == terminal_displayed
  <2> SUFFICES ASSUME ~lost'
               PROVE  /\ exc'[d] = NoExc => cursor' = CursorAt(cur'[d])
                      /\ exc'[d].pc = "high" => cursor'.low = CursorAt(cur'[d]).low
    BY DEF Shown
  <2>1. CASE t = d
    BY <1>1, <2>1
  <2>2. CASE t # d
    <3>1. d \in Terminals \ {t} /\ ~lost /\ exc'[d] = exc[d] /\ cur'[d] = cur[d]
      BY <1>0, <1>1, <2>2 DEF DTypes
    <3>2. /\ exc[d] = NoExc => cursor = CursorAt(cur[d])
          /\ exc[d].pc = "high" => cursor.low = CursorAt(cur[d]).low
      BY <3>1 DEF DInv, Shown
    <3>3. CursorAt(cur[d]) = [low |-> CursorAt(cur[d]).low, high |-> CursorAt(cur[d]).high]
      BY DEF CursorAt
    <3> QED BY <2>2, <3>1, <3>2, <3>3
  <2> QED BY <2>1, <2>2
<1>5. Home
    BY DEF Home, State
<1>6. OnScreen => OnScreen'
    BY <1>1 DEF OnScreen, Bottom
<1> QED BY <1>2, <1>3, <1>4, <1>5, <1>6 DEF Kept, DInv

\* A step that draws where the message's test said.
LEMMA DrawnWhere ==
    ASSUME DTypes, NEW t \in Terminals, NEW mem \in Pages, Drawn(t, mem),
           terminal_displayed' = terminal_displayed
    PROVE  /\ video_mem' \in Pages /\ video_memory' \in [Terminals -> Pages]
           /\ exc[t].on = Where(t) => \A u \in Terminals \ {t} : View(u)' = View(u)
<1>1. CASE exc[t].on = "screen"
  <2>1. video_mem' = mem /\ video_memory' = video_memory
    BY <1>1 DEF Drawn
  <2>2. exc[t].on = Where(t) => t = terminal_displayed
    BY <1>1 DEF Where
  <2> QED BY <2>1, <2>2 DEF DTypes, View
<1>2. CASE exc[t].on # "screen"
  <2>1. video_memory' = [video_memory EXCEPT ![t] = mem] /\ video_mem' = video_mem
    BY <1>2 DEF Drawn
  <2>2. /\ video_memory' \in [Terminals -> Pages]
        /\ \A u \in Terminals \ {t} : video_memory'[u] = video_memory[u]
    BY <2>1 DEF DTypes
  <2> QED BY <2>1, <2>2 DEF DTypes, View
<1> QED BY <1>1, <1>2

\* Where a kernel message draws, and whose cursor it moves.
LEMMA Targets ==
    ASSUME DTypes, NEW t \in Terminals
    PROVE  /\ Target(t) \in Terminals /\ On(t) \in Pages
           /\ exc[t].on = Where(t) => Target(t) = t
           /\ exc[t].on = Where(t) => (exc[t].on = "screen" <=> t = terminal_displayed)
           /\ [mem |-> On(t), c |-> cur[Target(t)]] \in Drawings
<1>1. Target(t) \in Terminals /\ On(t) \in Pages
    BY DEF Target, On, DTypes
<1>2. exc[t].on = Where(t) => Target(t) = t /\ (exc[t].on = "screen" <=> t = terminal_displayed)
    BY DEF Target, Where
<1>3. [mem |-> On(t), c |-> cur[Target(t)]] \in Drawings
    BY <1>1 DEF Drawings, DTypes
<1> QED BY <1>1, <1>2, <1>3

\* The steps that draw nothing: the message begins, putc tests, and draw_cursor
\* reads the position.
LEMMA TellingQuietly ==
    ASSUME DInv, NEW t \in Terminals, t = terminal_num, actor' = t,
           ExcClearTest(t) \/ FullMessage(t) \/ ExcPutTest(t) \/ ExcReadPos(t)
    PROVE  Kept
<1>0. DTypes /\ exc[t] \in ExcRecords
    BY DEF DInv, DTypes
<1> DEFINE e == exc[t]
<1>1. e.on \in {"screen", "memory"} /\ e.i \in Nat /\ e.msg \in Seq({"a", "nl"}) /\ e.pos \in Int
    BY <1>0 DEF ExcRecords
<1>2. UNCHANGED <<video_mem, video_memory, cur, cursor, num_buf, flag, terminal_num,
                  terminal_displayed, page, lost>>
    BY DEF ExcClearTest, FullMessage, ExcPutTest, ExcReadPos, shown, others
<1>3. \A u \in Terminals : View(u)' = View(u) /\ cur'[u] = cur[u]
    BY <1>2 DEF View
<1>4. e.pc \in {"idle", "test", "pos"}
    BY DEF ExcClearTest, FullMessage, ExcPutTest, ExcReadPos
<1>5. OnScreen /\ ~lost' => Below(cur'[t], num_buf[t], NUM_ROWS - 1)
    BY <1>2, <1>4 DEF OnScreen, Bottom
<1>6. ASSUME NEW r \in ExcRecords, exc' = [exc EXCEPT ![t] = r],
             r.pc \notin {"idle", "scroll", "high"}, r.pc \notin Drawers => r.msg # <<>>
      PROVE  Kept
  <2>1. r # NoExc
    BY <1>6, Consts
  <2>2. /\ cursor' = [low |-> cursor'.low, high |-> cursor'.high]
        /\ cursor'.low = cursor.low /\ cursor'.high = cursor.high
        /\ video_mem' \in Pages /\ video_memory' \in [Terminals -> Pages]
        /\ cur' \in [Terminals -> Curs] /\ lost' \in BOOLEAN
    BY <1>0, <1>2 DEF DTypes
  <2> QED BY <1>2, <1>3, <1>5, <1>6, <2>1, <2>2, Telling
<1>7. Where(t) \in {"screen", "memory"} /\ <<"a">> \in Seq({"a", "nl"}) /\ <<"a", "nl">> \in Seq({"a", "nl"})
      /\ <<"a">> # <<>> /\ <<"a", "nl">> # <<>>
    BY DEF Where
<1>8. CASE ExcClearTest(t)
  <2> DEFINE w == Where(t)
             m == <<"a">>
             r == [NoExc EXCEPT !.pc = "clear", !.on = w, !.msg = m]
  <2>0. w \in {"screen", "memory"} /\ m \in Seq({"a", "nl"}) /\ m # <<>>
    BY <1>7
  <2> HIDE DEF w, m
  <2>1. r \in ExcRecords /\ r.pc = "clear" /\ r.msg # <<>>
    BY <2>0, Consts DEF ExcRecords
  <2>2. exc' = [exc EXCEPT ![t] = r]
    BY <1>8 DEF ExcClearTest, w, m
  <2> HIDE DEF r
  <2> QED BY <1>6, <2>1, <2>2
<1>9. CASE FullMessage(t)
  <2> DEFINE r == [e EXCEPT !.pc = "test", !.msg = <<"a", "nl">>]
  <2>1. exc' = [exc EXCEPT ![t] = r]
    BY <1>9 DEF FullMessage
  <2> HIDE DEF e
  <2>2. r \in ExcRecords /\ r.pc = "test" /\ r.msg # <<>>
    BY <1>0, <1>7 DEF ExcRecords, e
  <2> HIDE DEF r
  <2> QED BY <1>6, <2>1, <2>2
<1>10. CASE ExcPutTest(t)
  <2> DEFINE r == [e EXCEPT !.pc = "store", !.on = Where(t)]
  <2>1. exc' = [exc EXCEPT ![t] = r]
    BY <1>10 DEF ExcPutTest
  <2>2. e.pc # "idle" /\ e.msg # <<>>
    BY <1>10 DEF ExcPutTest, DInv, Waiting, Drawers
  <2> HIDE DEF e
  <2>3. r \in ExcRecords /\ r.pc = "store" /\ r.msg # <<>>
    BY <1>0, <1>7, <2>2 DEF ExcRecords, e
  <2> HIDE DEF r
  <2> QED BY <1>6, <2>1, <2>3
<1>11. CASE ExcReadPos(t)
  <2> DEFINE z == Pos(cur[terminal_displayed])
             r == [e EXCEPT !.pc = "low", !.pos = z]
  <2>1. exc' = [exc EXCEPT ![t] = r]
    BY <1>11 DEF ExcReadPos
  <2>2. z \in Int
    BY <1>0, Positions DEF DTypes
  <2> HIDE DEF e, z
  <2>3. r \in ExcRecords /\ r.pc = "low"
    BY <1>0, <2>2 DEF ExcRecords, e
  <2> HIDE DEF r
  <2> QED BY <1>6, <2>1, <2>3 DEF Drawers
<1> QED BY <1>8, <1>9, <1>10, <1>11

\* A cell cleared for a kernel message keeps the invariant (lib.c 24-33).
LEMMA Clearing ==
    ASSUME DInv, NEW t \in Terminals, t = terminal_num, actor' = t, ExcClearCell(t)
    PROVE  Kept
<1> DEFINE e == exc[t]
           r == [e EXCEPT !.i = e.i + 1]
           mem == [On(t) EXCEPT ![e.i] = Blank]
<1>0. DTypes /\ e \in ExcRecords /\ e.pc = "clear" /\ e.msg # <<>>
    BY DEF DInv, DTypes, Waiting, Drawers, ExcClearCell
<1>1. /\ exc' = [exc EXCEPT ![t] = r] /\ lost' = (lost \/ e.on # Where(t))
      /\ Drawn(t, mem)
      /\ UNCHANGED <<cur, cursor, num_buf, flag, terminal_num, terminal_displayed, page>>
    BY DEF ExcClearCell, Missed, others
<1>2. mem \in Pages
    BY <1>0, Targets DEF Pages
<1>3. /\ video_mem' \in Pages /\ video_memory' \in [Terminals -> Pages]
      /\ e.on = Where(t) => \A u \in Terminals \ {t} : View(u)' = View(u)
    BY <1>0, <1>1, <1>2, DrawnWhere
<1>4. lost' \in BOOLEAN /\ (lost => lost') /\ (~lost' => ~lost /\ e.on = Where(t))
    BY <1>1
<1>5. OnScreen /\ ~lost' => Below(cur'[t], num_buf[t], NUM_ROWS - 1)
    BY <1>0, <1>1, <1>4 DEF OnScreen, Bottom
<1>6. cur' \in [Terminals -> Curs]
    BY <1>0, <1>1 DEF DTypes
<1> HIDE DEF e, mem
<1>7. r \in ExcRecords /\ r.pc = "clear" /\ r.msg # <<>>
    BY <1>0 DEF ExcRecords
<1> HIDE DEF r
<1>8. r # NoExc
    BY <1>7, Consts
<1>9. /\ cursor' = [low |-> cursor'.low, high |-> cursor'.high]
      /\ cursor'.low = cursor.low /\ cursor'.high = cursor.high
    BY <1>0, <1>1 DEF DTypes
<1> QED BY <1>1, <1>3, <1>4, <1>5, <1>6, <1>7, <1>8, <1>9, Telling

\* So does the end of the clearing (lib.c 34-36).
LEMMA Cleared ==
    ASSUME DInv, NEW t \in Terminals, t = terminal_num, actor' = t, ExcClearEnd(t)
    PROVE  Kept
<1> DEFINE e == exc[t]
           r == [e EXCEPT !.pc = "pos", !.i = 0]
<1>0. DTypes /\ e \in ExcRecords
    BY DEF DInv, DTypes
<1>1. /\ exc' = [exc EXCEPT ![t] = r] /\ cur' = [cur EXCEPT ![t] = Origin]
      /\ UNCHANGED <<video_mem, video_memory, cursor, num_buf, flag, terminal_num,
                     terminal_displayed, page, lost>>
    BY DEF ExcClearEnd, others
<1>2. /\ cur' \in [Terminals -> Curs] /\ cur'[t] = Origin
      /\ \A u \in Terminals \ {t} : cur'[u] = cur[u]
    BY <1>0, <1>1, Consts DEF DTypes
<1>3. /\ video_mem' \in Pages /\ video_memory' \in [Terminals -> Pages] /\ lost' \in BOOLEAN
      /\ lost' = lost
      /\ cursor' = [low |-> cursor'.low, high |-> cursor'.high]
      /\ cursor'.low = cursor.low /\ cursor'.high = cursor.high
    BY <1>0, <1>1 DEF DTypes
<1>4. \A u \in Terminals \ {t} : View(u)' = View(u)
    BY <1>1 DEF View
<1>5. Below(cur'[t], num_buf[t], NUM_ROWS - 1)
    BY <1>2, OriginGood DEF Good
<1> HIDE DEF e
<1>7. r \in ExcRecords /\ r.pc = "pos"
    BY <1>0 DEF ExcRecords
<1> HIDE DEF r
<1>8. r # NoExc /\ r.pc \in Drawers
    BY <1>7, Consts DEF Drawers
<1>10. UNCHANGED <<num_buf, flag, terminal_num, terminal_displayed, page>>
    BY <1>1
<1>11. exc' = [exc EXCEPT ![t] = r]
    BY <1>1
<1> QED BY <1>2, <1>3, <1>4, <1>5, <1>7, <1>8, <1>10, <1>11, Telling

\* What a message goes on with.
LEMMA Continuing ==
    ASSUME NEW e \in ExcRecords, NEW r, r = Continued(e)
    PROVE  /\ r \in ExcRecords /\ r.pc \in {"idle", "test"} /\ (r.pc = "idle" => r = NoExc)
           /\ r.pc # "idle" => r.msg # <<>>
<1>1. CASE e.msg = <<>>
  <2>1. r = NoExc
    BY <1>1 DEF Continued
  <2> QED BY <2>1, Consts
<1>2. CASE e.msg # <<>>
  <2> DEFINE z == 0
  <2>1. r = [e EXCEPT !.pc = "test", !.pos = z] /\ z \in Int
    BY <1>2 DEF Continued
  <2> HIDE DEF z
  <2>2. r \in ExcRecords
    BY <2>1 DEF ExcRecords
  <2>3. r.pc = "test" /\ r.msg = e.msg
    BY <2>1 DEF ExcRecords
  <2> QED BY <1>2, <2>2, <2>3
<1> QED BY <1>1, <1>2

\* A byte of the cursor drawn for a kernel message keeps the invariant, stale or
\* not (lib.c 13-14).
LEMMA DrawingCursor ==
    ASSUME DInv, NEW t \in Terminals, t = terminal_num, actor' = t,
           ExcDrawLow(t) \/ ExcDrawHigh(t)
    PROVE  Kept
<1> DEFINE e == exc[t]
           at == CursorAt(cur[terminal_displayed])
<1>0. DTypes /\ e \in ExcRecords
    BY DEF DInv, DTypes
<1>1. UNCHANGED <<video_mem, video_memory, cur, num_buf, flag, terminal_num,
                  terminal_displayed, page>>
    BY DEF ExcDrawLow, ExcDrawHigh, others
<1>2. /\ video_mem' \in Pages /\ video_memory' \in [Terminals -> Pages]
      /\ cur' \in [Terminals -> Curs] /\ \A u \in Terminals : cur'[u] = cur[u]
    BY <1>0, <1>1 DEF DTypes
<1>3. \A u \in Terminals \ {t} : View(u)' = View(u)
    BY <1>1 DEF View
<1>4. e.pc \in {"low", "high"}
    BY DEF ExcDrawLow, ExcDrawHigh
<1>5. OnScreen /\ ~lost => Below(cur'[t], num_buf[t], NUM_ROWS - 1)
    BY <1>1, <1>4 DEF OnScreen, Bottom
<1>6. at = [low |-> at.low, high |-> at.high]
    BY DEF CursorAt
<1>7. CASE ExcDrawLow(t)
  <2> DEFINE r == [e EXCEPT !.pc = "high"]
             b == Low(e.pos)
  <2>1. /\ exc' = [exc EXCEPT ![t] = r] /\ cursor' = [cursor EXCEPT !.low = b]
        /\ lost' = (lost \/ b # at.low)
    BY <1>7 DEF ExcDrawLow, Goto
  <2> HIDE DEF e
  <2>2. r \in ExcRecords /\ r.pc = "high"
    BY <1>0 DEF ExcRecords
  <2> HIDE DEF r, b, at
  <2>3. /\ cursor' = [low |-> b, high |-> cursor.high]
        /\ lost' \in BOOLEAN /\ (lost => lost') /\ (~lost' => ~lost /\ b = at.low)
    BY <1>0, <2>1 DEF DTypes
  <2>4. /\ cursor'.low = b /\ cursor'.high = cursor.high
        /\ cursor' = [low |-> cursor'.low, high |-> cursor'.high]
    BY <2>3
  <2>5. r # NoExc /\ r.pc \in Drawers
    BY <2>2, Consts DEF Drawers
  <2>6. ~lost' => cursor'.low = CursorAt(cur[terminal_displayed]).low
    BY <2>3, <2>4 DEF at
  <2>7. ~lost' /\ t = terminal_displayed => cursor'.low = CursorAt(cur'[t]).low
    BY <1>2, <2>6
  <2> QED BY <1>1, <1>2, <1>3, <1>5, <2>1, <2>2, <2>3, <2>4, <2>5, <2>6, <2>7, Telling
<1>8. CASE ExcDrawHigh(t)
  <2> DEFINE r == Continued(e)
             b == High(e.pos)
  <2>1. /\ exc' = [exc EXCEPT ![t] = r] /\ cursor' = [cursor EXCEPT !.high = b]
        /\ lost' = (lost \/ b # at.high) /\ e.pc = "high"
    BY <1>8 DEF ExcDrawHigh
  <2> HIDE DEF e
  <2>2. /\ r \in ExcRecords /\ r.pc \in {"idle", "test"} /\ (r.pc = "idle" => r = NoExc)
        /\ r.pc # "idle" => r.msg # <<>>
    BY <1>0, Continuing
  <2> HIDE DEF r, b, at
  <2>3. /\ cursor' = [low |-> cursor.low, high |-> b]
        /\ lost' \in BOOLEAN /\ (lost => lost') /\ (~lost' => ~lost /\ b = at.high)
    BY <1>0, <2>1 DEF DTypes
  <2>4. /\ cursor'.low = cursor.low /\ cursor'.high = b
        /\ cursor' = [low |-> cursor'.low, high |-> cursor'.high]
    BY <2>3
  <2>5. ~lost' => cursor'.high = CursorAt(cur[terminal_displayed]).high
    BY <2>3, <2>4 DEF at
  <2>6. ~lost' /\ t = terminal_displayed => cursor' = CursorAt(cur'[t])
    <3> SUFFICES ASSUME ~lost', t = terminal_displayed PROVE cursor' = at
      BY <1>2 DEF at
    <3>1. cursor.low = at.low
      BY <2>1, <2>3 DEF DInv, Shown, at, e
    <3> QED BY <1>6, <2>3, <3>1
  <2> QED BY <1>1, <1>2, <1>3, <1>5, <2>1, <2>2, <2>3, <2>4, <2>5, <2>6, Telling
<1> QED BY <1>7, <1>8

\* So does a character of the message, before its scroll (lib.c 220-251).
LEMMA Storing ==
    ASSUME DInv, NEW t \in Terminals, t = terminal_num, actor' = t, ExcPutStore(t)
    PROVE  Kept
<1> DEFINE e == exc[t]
           r == [e EXCEPT !.pc = "scroll"]
           g == [mem |-> On(t), c |-> cur[Target(t)]]
           ch == Head(e.msg)
           s == Advance(g, ch)
           m == num_buf[t]
<1>0. DTypes /\ e \in ExcRecords /\ e.pc = "store" /\ e.msg # <<>>
    BY DEF DInv, DTypes, Waiting, Drawers, ExcPutStore
<1>1. /\ exc' = [exc EXCEPT ![t] = r] /\ lost' = (lost \/ e.on # Where(t))
      /\ Drawn(t, s.mem) /\ cur' = [cur EXCEPT ![Target(t)] = s.c]
      /\ UNCHANGED <<cursor, num_buf, flag, terminal_num, terminal_displayed, page>>
    BY DEF ExcPutStore, Missed, others, Goto
<1>2. ch \in {"a", "nl"}
  <2> DEFINE q == e.msg
  <2>1. q \in Seq({"a", "nl"}) /\ q # <<>>
    BY <1>0 DEF ExcRecords
  <2> HIDE DEF q
  <2>2. Head(q) \in {"a", "nl"}
    BY <2>1
  <2> QED BY <2>2 DEF q
<1>3. /\ g \in Drawings /\ Target(t) \in Terminals /\ g.c = cur[Target(t)]
      /\ e.on = Where(t) => Target(t) = t
    BY <1>0, Targets
<1> HIDE DEF g, ch
<1>4. s \in Drawings /\ s.mem \in Pages /\ s.c \in Curs
  <2>1. s \in Drawings
    BY <1>2, <1>3, AdvanceTyped
  <2> HIDE DEF s
  <2> QED BY <2>1 DEF Drawings
<1>5. /\ video_mem' \in Pages /\ video_memory' \in [Terminals -> Pages]
      /\ e.on = Where(t) => \A u \in Terminals \ {t} : View(u)' = View(u)
    BY <1>0, <1>1, <1>4, DrawnWhere
<1>6. lost' \in BOOLEAN /\ (lost => lost') /\ (~lost' => ~lost /\ e.on = Where(t))
    BY <1>1
<1>7. /\ cur' \in [Terminals -> Curs]
      /\ e.on = Where(t) => cur'[t] = s.c /\ \A u \in Terminals \ {t} : cur'[u] = cur[u]
  <2> HIDE DEF s, e
  <2> QED BY <1>0, <1>1, <1>3, <1>4 DEF DTypes
<1>8. ASSUME OnScreen, ~lost' PROVE Below(cur'[t], num_buf[t], NUM_ROWS)
  <2>1. Good(g.c, m) /\ m \in Nat
    BY <1>0, <1>3, <1>6, <1>8, Grid DEF OnScreen, Bottom, Good, DTypes
  <2> HIDE DEF m
  <2>2. Below(s.c, m + 1, NUM_ROWS)
    BY <1>2, <1>3, <2>1, Advances
  <2>3. Pos(s.c) \in Int
    BY <1>4, Positions
  <2>4. Below(s.c, m, NUM_ROWS)
    BY <2>1, <2>2, <2>3 DEF Below
  <2> QED BY <1>6, <1>7, <1>8, <2>4 DEF m
<1> HIDE DEF e, s
<1>9. r \in ExcRecords /\ r.pc = "scroll" /\ r.msg # <<>>
    BY <1>0 DEF ExcRecords
<1> HIDE DEF r
<1>10. r # NoExc
    BY <1>9, Consts
<1>11. UNCHANGED <<num_buf, flag, terminal_num, terminal_displayed, page>>
       /\ exc' = [exc EXCEPT ![t] = r]
    BY <1>1
<1>12. /\ cursor' = [low |-> cursor'.low, high |-> cursor'.high]
       /\ cursor'.low = cursor.low /\ cursor'.high = cursor.high
    BY <1>0, <1>1 DEF DTypes
<1> QED BY <1>5, <1>6, <1>7, <1>8, <1>9, <1>10, <1>11, <1>12, Telling

\* What is left of a message after a character.
LEMMA Tails ==
    ASSUME NEW S, NEW q \in Seq(S), q # <<>>
    PROVE  Tail(q) \in Seq(S)
OBVIOUS

\* The scroll after a character of the message keeps the invariant (lib.c 252-272).
LEMMA Scrolling ==
    ASSUME DInv, NEW t \in Terminals, t = terminal_num, actor' = t, ExcPutScroll(t)
    PROVE  Kept
<1> DEFINE e == exc[t]
           l == [e EXCEPT !.msg = Tail(e.msg)]
           r == IF e.on = "screen" THEN [l EXCEPT !.pc = "pos"] ELSE Continued(l)
           g == [mem |-> On(t), c |-> cur[Target(t)]]
           s == Scroll(g)
           m == num_buf[t]
<1>0. DTypes /\ e \in ExcRecords /\ e.pc = "scroll" /\ e.msg # <<>>
    BY DEF DInv, DTypes, Waiting, Drawers, ExcPutScroll
<1>1. /\ exc' = [exc EXCEPT ![t] = r] /\ lost' = (lost \/ e.on # Where(t))
      /\ Drawn(t, s.mem) /\ cur' = [cur EXCEPT ![Target(t)] = s.c]
      /\ UNCHANGED <<cursor, num_buf, flag, terminal_num, terminal_displayed, page>>
    BY DEF ExcPutScroll, Missed, others
<1>3. /\ g \in Drawings /\ Target(t) \in Terminals /\ g.c = cur[Target(t)]
      /\ e.on = Where(t) => Target(t) = t /\ (e.on = "screen" <=> t = terminal_displayed)
    BY <1>0, Targets
<1> HIDE DEF g
<1>4. s \in Drawings /\ s.mem \in Pages /\ s.c \in Curs
  <2>1. s \in Drawings
    BY <1>3, ScrollTyped
  <2> HIDE DEF s
  <2> QED BY <2>1 DEF Drawings
<1>5. /\ video_mem' \in Pages /\ video_memory' \in [Terminals -> Pages]
      /\ e.on = Where(t) => \A u \in Terminals \ {t} : View(u)' = View(u)
    BY <1>0, <1>1, <1>4, DrawnWhere
<1>6. lost' \in BOOLEAN /\ (lost => lost') /\ (~lost' => ~lost /\ e.on = Where(t))
    BY <1>1
<1>7. /\ cur' \in [Terminals -> Curs]
      /\ e.on = Where(t) => cur'[t] = s.c /\ \A u \in Terminals \ {t} : cur'[u] = cur[u]
  <2> HIDE DEF s, e
  <2> QED BY <1>0, <1>1, <1>3, <1>4 DEF DTypes
<1>8. ASSUME OnScreen, ~lost' PROVE Below(cur'[t], num_buf[t], NUM_ROWS - 1)
  <2>1. Below(g.c, m, NUM_ROWS) /\ m \in Nat /\ m <= Limit
    BY <1>0, <1>3, <1>6, <1>8, Grid DEF OnScreen, Bottom, DTypes
  <2> HIDE DEF m
  <2>2. Good(s.c, m)
    BY <1>3, <2>1, Scrolls
  <2> QED BY <1>6, <1>7, <1>8, <2>2 DEF m, Good
<1> HIDE DEF s
<1>9. /\ r \in ExcRecords /\ r.pc \in {"idle", "test", "pos"} /\ (r.pc = "idle" => r = NoExc)
      /\ r.pc \notin {"idle", "pos"} => r.msg # <<>>
      /\ e.on = "screen" => r.pc = "pos"
  <2> DEFINE q == e.msg
             z == Tail(q)
  <2>1. q \in Seq({"a", "nl"}) /\ q # <<>>
    BY <1>0 DEF ExcRecords
  <2> HIDE DEF q
  <2>2. z \in Seq({"a", "nl"})
    BY <2>1, Tails
  <2>3. l = [e EXCEPT !.msg = z]
    BY DEF q
  <2> HIDE DEF z, e, l
  <2>4. l \in ExcRecords
    BY <1>0, <2>2, <2>3 DEF ExcRecords
  <2>5. CASE e.on = "screen"
    <3>1. r = [l EXCEPT !.pc = "pos"]
      BY <2>5
    <3> HIDE DEF r
    <3> QED BY <2>4, <3>1 DEF ExcRecords
  <2>6. CASE e.on # "screen"
    <3>1. r = Continued(l)
      BY <2>6
    <3> HIDE DEF r
    <3> QED BY <2>4, <2>6, <3>1, Continuing
  <2> QED BY <2>5, <2>6
<1> HIDE DEF e
<1>10. /\ cursor' = [low |-> cursor'.low, high |-> cursor'.high]
       /\ cursor'.low = cursor.low /\ cursor'.high = cursor.high
    BY <1>0, <1>1 DEF DTypes
<1>11. UNCHANGED <<num_buf, flag, terminal_num, terminal_displayed, page>>
       /\ exc' = [exc EXCEPT ![t] = r]
    BY <1>1
<1> HIDE DEF r
<1>12. ~lost' /\ t = terminal_displayed => r # NoExc
    BY <1>3, <1>6, <1>9, Consts
<1>13. r.pc \notin Drawers \cup {"idle"} => r.msg # <<>>
    BY <1>9 DEF Drawers
<1> QED BY <1>5, <1>6, <1>7, <1>8, <1>9, <1>10, <1>11, <1>12, <1>13, Telling

-----------------------------------------------------------------------------
(* The theorems *)

\* Every step keeps the invariant.
LEMMA DisplayNext ==
    ASSUME DInv, Next
    PROVE  Kept
<1>1. ASSUME NEW t \in Terminals, KernelMessage(t) PROVE Kept
    BY <1>1, TellingQuietly, Clearing, Cleared, DrawingCursor, Storing, Scrolling DEF KernelMessage
<1>2. ASSUME NEW t \in Terminals,
             switch_terminal(t) \/ OpenTerminal(t) \/ OpenTerminalFull(t)
      PROVE  Kept
    BY <1>2, Switching, OpeningTerminal
<1>3. ASSUME NEW t \in Terminals, Tick(t) PROVE Kept
    BY <1>3, Mapping
<1> QED BY <1>1, <1>2, <1>3, Writing, Reading, Keying, Mapping, UserStoring DEF Next

\* So does a step that changes nothing.
LEMMA DisplayStep ==
    ASSUME DInv, [Next]_vars
    PROVE  DInv' /\ (NoErase /\ OnScreen => OnScreen')
<1>1. CASE Next
    BY <1>1, DisplayNext DEF Kept
<1>2. CASE UNCHANGED vars
  <2> USE <1>2 DEF vars
  <2>1. DTypes'
    BY DEF DInv, DTypes
  <2>2. Waiting'
    BY DEF DInv, Waiting
  <2>3. Shown'
    BY DEF DInv, Shown
  <2>4. OnScreen => OnScreen'
    BY DEF OnScreen, Bottom
  <2> QED BY <2>1, <2>2, <2>3, <2>4 DEF DInv
<1> QED BY <1>1, <1>2

\* The invariant holds in every behaviour of the display.
THEOREM DisplayInvariance == Spec => []DInv
<1>1. Init => DInv
    BY DisplayInit
<1>2. DInv /\ [Next]_vars => DInv'
    BY DisplayStep
<1> QED BY <1>1, <1>2, PTL DEF Spec

\* Every variable keeps its type, and the hardware cursor is where the displayed
\* terminal continues, wherever switches, openings, echoes and ticks fall between
\* the read and the writes of a kernel message's draw_cursor, until a step marked
\* by `lost' writes a stale byte or draws where it should not.
THEOREM CursorFollows == Spec => []CursorShownUnlessLost
<1>1. DInv => CursorShownUnlessLost
  <2> SUFFICES ASSUME DInv PROVE CursorShownUnlessLost
    OBVIOUS
  <2>1. TypeOK
    <3>1. \A t \in Terminals : cur[t].x \in 0..(NUM_COLS - 1) /\ cur[t].y \in Int
      BY DEF DInv, DTypes, Curs
    <3> QED BY <3>1 DEF TypeOK, DInv, DTypes, Pages
  <2> QED BY <2>1 DEF CursorShownUnlessLost, CursorShown, DInv, Shown
<1> QED BY <1>1, DisplayInvariance, PTL

\* Every cursor stays on its screen, for every size of the screen, whatever is
\* typed, erased, printed and scrolled, until a race hits: when no program prints
\* a backspace and the buffer is no longer than the screen less a row.
THEOREM CursorsOnScreen ==
    ASSUME NoErase
    PROVE  Spec => []CursorOnScreenUnlessLost
<1>1. Init => DInv /\ OnScreen
    BY DisplayInit
<1>2. DInv /\ OnScreen /\ [Next]_vars => DInv' /\ OnScreen'
    BY DisplayStep
<1>3. DInv /\ OnScreen => CursorOnScreenUnlessLost
  <2> SUFFICES ASSUME DInv, OnScreen, ~lost, NEW t \in Terminals, exc[t] = NoExc
               PROVE  Pos(cur[t]) \in Cells
    BY DEF CursorOnScreenUnlessLost, CursorOnScreen
  <2> DEFINE c == cur[t]
  <2>1. c \in Curs /\ c.y >= 0 /\ c.y <= NUM_ROWS - 1
    BY Consts DEF OnScreen, Bottom, Below
  <2> HIDE DEF c
  <2>2. /\ c.x \in Int /\ c.x >= 0 /\ c.x <= NUM_COLS - 1 /\ c.y \in Int
        /\ Pos(c) = c.y * NUM_COLS + c.x
    BY <2>1, Positions
  <2> DEFINE z == c.y * NUM_COLS
  <2>3. z \in Int /\ z >= 0 /\ z <= Limit
    BY <2>1, <2>2, Rows
  <2>4. Pos(c) = z + c.x
    BY <2>2
  <2> HIDE DEF z
  <2>5. Pos(c) \in Cells
    BY <2>2, <2>3, <2>4, Grid
  <2> QED BY <2>5 DEF c
<1> QED BY <1>1, <1>2, <1>3, PTL DEF Spec

\* What a terminal shows changes only by steps of its own, for any number of
\* terminals, until a race hits (putc, switch_terminal, pit_handler, vidmap).
THEOREM ScreensStayApart == Spec => OutputStaysHomeUnlessLost
<1>1. DInv /\ [Next]_vars => [~lost' => \A t \in Terminals : t # actor' => State(t)' = State(t)]_vars
  <2> SUFFICES ASSUME DInv, Next
               PROVE  ~lost' => \A t \in Terminals : t # actor' => State(t)' = State(t)
    OBVIOUS
  <2> QED BY DisplayNext DEF Kept, Home
<1> QED BY <1>1, DisplayInvariance, PTL DEF Spec, OutputStaysHomeUnlessLost

=============================================================================
