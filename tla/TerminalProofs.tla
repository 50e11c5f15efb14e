---------------------------- MODULE TerminalProofs ----------------------------
(* The emulated terminal keeps its shape: what a grid, a row and a cell are,   *)
(* that every operation of the grid gives such a grid again, and what follows  *)
(* for the screen: ScreenSound, OnlyRestoreLosesCursor, OnlyResizeTears and    *)
(* ViewStays; that the screen of a task serves its viewers: ViewersServed; and *)
(* that a run of text is written at once as one by one: BlitMatchesPerChar.    *)
(* The loops of the code are folds; each is an instance of Folding.            *)
EXTENDS TaskScreen, FiniteSetTheorems, SequenceTheorems, TLAPS

Chars == Narrow \cup Wide \cup Marks
Cells == [text : Seq(Chars), attrs : Colours]
AnyRows(w) == [cells : [0..w-1 -> Cells], size : Nat, wrapped : BOOLEAN]
FitRows(w) == {row \in AnyRows(w) : \A j \in 0..w-1 : IsWide(row.cells[j]) => j + 1 < w}
WholeRows(w) ==
  {row \in FitRows(w) : \A j \in 0..w-2 : IsWide(row.cells[j]) => row.cells[j+1].text = <<>>}
Shapes(w) == {FitRows(w), WholeRows(w)}

-----------------------------------------------------------------------------
LEMMA Kinds ==
  /\ Wide \cap Marks = {} /\ Narrow \cap (Wide \cup Marks) = {} /\ Space \in Narrow /\ Space \in Chars
  /\ Plain \in Colours
BY ScreenAssumption DEF Chars

LEMMA Blanks ==
  ASSUME NEW a \in Colours
  PROVE  Blank(a) \in Cells /\ ~IsWide(Blank(a)) /\ Blank(a).text = <<>>
BY DEF Blank, Cells, IsWide, CellWidth

LEMMA Glyphs ==
  ASSUME NEW a \in Colours, NEW c \in Chars
  PROVE  Glyph(c, a) \in Cells /\ (IsWide(Glyph(c, a)) <=> c \in Wide) /\ Glyph(c, a).text # <<>>
<1>1. <<c>> \in Seq(Chars) /\ <<c>> # <<>> /\ Head(<<c>>) = c
  OBVIOUS
<1>2. Glyph(c, a) \in Cells /\ Glyph(c, a).text = <<c>>
  BY <1>1 DEF Glyph, Cells
<1> QED  BY <1>1, <1>2 DEF IsWide, CellWidth, CharWidth

LEMMA Empties ==
  ASSUME NEW cell \in Cells
  PROVE  /\ Emptied(cell) \in Cells /\ ~IsWide(Emptied(cell)) /\ Emptied(cell).text = <<>>
         /\ cell.text = <<>> => ~IsWide(cell)
BY Blanks DEF Emptied, Cells, IsWide, CellWidth

LEMMA Marked ==
  ASSUME NEW cell \in Cells, NEW c \in Chars
  PROVE  /\ Append1(cell, c) \in Cells
         /\ IsWide(Append1(cell, c)) <=> IsWide(cell)
<1>1. CASE cell.text = <<>>
  <2>1. Append1(cell, c).text = <<Space>> \o <<c>> /\ Append1(cell, c).attrs = cell.attrs
    BY <1>1 DEF Append1, Cells
  <2>2. <<Space>> \o <<c>> \in Seq(Chars) /\ <<Space>> \o <<c>> # <<>> /\ Head(<<Space>> \o <<c>>) = Space
    BY Kinds
  <2>3. Append1(cell, c) \in Cells
    BY <1>1, <2>2, Kinds DEF Append1, Cells
  <2> QED  BY <1>1, <2>1, <2>2, <2>3, Kinds DEF IsWide, CellWidth, CharWidth
<1>2. CASE cell.text # <<>>
  <2>1. cell.text \in Seq(Chars) /\ cell.attrs \in Colours
    BY DEF Cells
  <2>2. cell.text \o <<c>> \in Seq(Chars) /\ cell.text \o <<c>> # <<>> /\ Head(cell.text \o <<c>>) = Head(cell.text)
    BY <1>2, <2>1
  <2>3. Append1(cell, c).text = cell.text \o <<c>> /\ Append1(cell, c) \in Cells
    BY <1>2, <2>2 DEF Append1, Cells
  <2> QED  BY <1>2, <2>2, <2>3 DEF IsWide, CellWidth
<1> QED  BY <1>1, <1>2

-----------------------------------------------------------------------------
LEMMA Columns ==
  ASSUME NEW w \in Nat \ {0}, NEW row \in AnyRows(w)
  PROVE  /\ DOMAIN row.cells = 0..w-1 /\ Cardinality(DOMAIN row.cells) = w
         /\ row.size \in Nat /\ row.wrapped \in BOOLEAN
         /\ \A j \in 0..w-1 : row.cells[j] \in Cells
<1>1. DOMAIN row.cells = 0..w-1 /\ row.size \in Nat /\ row.wrapped \in BOOLEAN
  BY DEF AnyRows
<1>2. Cardinality(0..w-1) = w
  BY FS_Interval
<1> QED  BY <1>1, <1>2 DEF AnyRows

LEMMA ShapesAre ==
  ASSUME NEW w \in Nat \ {0}, NEW R \in Shapes(w)
  PROVE  /\ R \subseteq AnyRows(w) /\ WholeRows(w) \subseteq R /\ R \subseteq FitRows(w)
         /\ WholeRows(w) \subseteq AnyRows(w)
BY DEF Shapes, FitRows, WholeRows

(* A row whose cells are those of another one or blank is of its shape.      *)
LEMMA Blanking ==
  ASSUME NEW w \in Nat \ {0}, NEW R \in Shapes(w), NEW row \in R, NEW new \in AnyRows(w),
         \A j \in 0..w-1 : new.cells[j] = row.cells[j] \/ new.cells[j].text = <<>>
  PROVE  new \in R
<1>1. \A j \in 0..w-1 : new.cells[j] \in Cells
  BY DEF AnyRows
<1>2. \A j \in 0..w-1 : IsWide(new.cells[j]) => new.cells[j] = row.cells[j]
  BY <1>1, Empties
<1>3. row \in FitRows(w) => new \in FitRows(w)
  BY <1>2 DEF FitRows
<1>4. row \in WholeRows(w) => new \in WholeRows(w)
  <2> SUFFICES ASSUME row \in WholeRows(w), NEW j \in 0..w-2, IsWide(new.cells[j])
               PROVE  new.cells[j+1].text = <<>>
    BY <1>3 DEF WholeRows
  <2>1. j \in 0..w-1 /\ j + 1 \in 0..w-1
    OBVIOUS
  <2>2. row.cells[j+1].text = <<>>
    BY <1>2, <2>1 DEF WholeRows
  <2> QED  BY <2>1, <2>2
<1> QED  BY <1>3, <1>4, ShapesAre DEF Shapes

-----------------------------------------------------------------------------
LEMMA NewRows ==
  ASSUME NEW w \in Nat \ {0}, NEW R \in Shapes(w), NEW a \in Colours
  PROVE  NewRow(w, a) \in R
<1>1. NewRow(w, a) \in AnyRows(w) /\ \A j \in 0..w-1 : NewRow(w, a).cells[j] = Blank(a)
  BY Blanks DEF NewRow, AnyRows
<1>2. NewRow(w, a) \in FitRows(w)
  BY <1>1, Blanks DEF FitRows
<1>3. NewRow(w, a) \in WholeRows(w)
  <2>1. \A j \in 0..w-2 : j \in 0..w-1
    OBVIOUS
  <2> QED  BY <1>1, <1>2, <2>1, Blanks DEF WholeRows
<1> QED  BY <1>3, ShapesAre

LEMMA ClearedRows ==
  ASSUME NEW w \in Nat \ {0}, NEW R \in Shapes(w), NEW row \in R, NEW a \in Colours
  PROVE  ClearRow(row, a) \in R
<1>1. row \in AnyRows(w)
  BY ShapesAre
<1>2. ClearRow(row, a) = NewRow(w, a)
  BY <1>1, Columns DEF ClearRow, NewRow
<1> QED  BY <1>2, NewRows

LEMMA Erasing ==
  ASSUME NEW w \in Nat \ {0}, NEW R \in Shapes(w), NEW row \in R, NEW a \in Colours,
         NEW lo \in Nat, NEW hi \in Int, hi <= w - 1
  PROVE  EraseCols(row, lo, hi, a) \in R
<1>1. row \in AnyRows(w)
  BY ShapesAre
<1>2. CASE lo > hi
  BY <1>2 DEF EraseCols
<1>3. CASE ~(lo > hi)
  <2> DEFINE cells == [j \in 0..w-1 |->
            CASE j \in lo..hi -> Blank(a)
              [] j = lo - 1 /\ IsWide(row.cells[j]) -> Emptied(row.cells[j])
              [] j = hi + 1 /\ IsWide(row.cells[hi]) -> Emptied(row.cells[j])
              [] OTHER -> row.cells[j]]
             wrapped == row.wrapped /\ hi # w - 1 /\ ~(IsWide(row.cells[hi]) /\ hi = w - 2)
  <2>1. EraseCols(row, lo, hi, a) = [row EXCEPT !.cells = cells, !.wrapped = wrapped]
    BY <1>1, <1>3, Columns DEF EraseCols
  <2>2. \A j \in 0..w-1 : cells[j] \in Cells /\ (cells[j] = row.cells[j] \/ cells[j].text = <<>>)
    <3> TAKE j \in 0..w-1
    <3>1. row.cells[j] \in Cells
      BY <1>1, Columns
    <3>2. CASE j \in lo..hi
      BY <3>2, Blanks
    <3>3. CASE j \notin lo..hi
      <4>1. cells[j] = row.cells[j] \/ cells[j] = Emptied(row.cells[j])
        BY <3>3
      <4> QED  BY <4>1, <3>1, Empties
    <3> QED  BY <3>2, <3>3
  <2>3. cells \in [0..w-1 -> Cells] /\ wrapped \in BOOLEAN
    BY <2>2
  <2> HIDE DEF cells, wrapped
  <2> DEFINE new == [row EXCEPT !.cells = cells, !.wrapped = wrapped]
  <2>4. new \in AnyRows(w) /\ new.cells = cells
    BY <1>1, <2>3 DEF AnyRows
  <2> HIDE DEF new
  <2>5. new \in R
    BY <2>2, <2>4, Blanking
  <2> QED  BY <2>1, <2>5 DEF new
<1> QED  BY <1>2, <1>3

LEMMA Inserting ==
  ASSUME NEW w \in Nat \ {0}, NEW R \in Shapes(w), NEW row \in R, NEW col \in Nat, NEW n \in Nat
  PROVE  InsertCols(row, col, n) \in R
<1>1. row \in AnyRows(w)
  BY ShapesAre
<1> DEFINE moved == [j \in 0..w-1 |-> IF j < col THEN row.cells[j]
                                 ELSE IF j < col + n THEN Blank(Plain)
                                 ELSE row.cells[j-n]]
           cells == [moved EXCEPT ![w-1] = IF IsWide(@) THEN Emptied(@) ELSE @]
           new == InsertCols(row, col, n)
<1>2. \A j \in 0..w-1 : moved[j] \in Cells
  <2> TAKE j \in 0..w-1
  <2>1. j < col \/ (~(j < col) /\ j < col + n) \/ (~(j < col) /\ ~(j < col + n) /\ j - n \in 0..w-1)
    OBVIOUS
  <2> QED  BY <2>1, <1>1, Columns, Blanks, Kinds
<1>3. new = [row EXCEPT !.wrapped = FALSE, !.cells = cells]
  <2> DEFINE at(v, j) == IF j < col THEN row.cells[j] ELSE IF j < col + n THEN Blank(Plain) ELSE row.cells[j-n]
             of(v) == [row EXCEPT !.wrapped = FALSE,
                         !.cells = [[j \in 0..v-1 |-> at(v, j)] EXCEPT ![v-1] = IF IsWide(@) THEN Emptied(@) ELSE @]]
  <2>1. new = of(Cardinality(DOMAIN row.cells))
    BY DEF InsertCols
  <2>2. of(w) = [row EXCEPT !.wrapped = FALSE, !.cells = cells]
    OBVIOUS
  <2> HIDE DEF of, new, cells
  <2> QED  BY <1>1, <2>1, <2>2, Columns
<1>4. /\ \A j \in 0..w-1 : cells[j] \in Cells /\ (cells[j] = moved[j] \/ (j = w - 1 /\ cells[j] = Emptied(moved[j])))
      /\ cells = [j \in 0..w-1 |-> cells[j]] /\ ~IsWide(cells[w-1])
  <2> DEFINE last == moved[w-1]
  <2>1. last \in Cells /\ w - 1 \in 0..w-1 /\ DOMAIN moved = 0..w-1
    BY <1>2
  <2> HIDE DEF moved
  <2>2. cells = [j \in 0..w-1 |-> IF j = w - 1 THEN (IF IsWide(last) THEN Emptied(last) ELSE last) ELSE moved[j]]
    BY <2>1
  <2> HIDE DEF cells
  <2> QED  BY <2>1, <2>2, <1>2, Empties
<1> HIDE DEF cells
<1>6. new \in AnyRows(w) /\ new.cells = cells
  <2>1. cells \in [0..w-1 -> Cells]
    <3> QED  BY <1>4
  <2> QED  BY <1>1, <1>3, <2>1 DEF AnyRows
<1>7. new \in FitRows(w)
  BY <1>4, <1>6 DEF FitRows
<1>8. ASSUME row \in WholeRows(w) PROVE new \in WholeRows(w)
  <2> SUFFICES ASSUME NEW j \in 0..w-2, IsWide(cells[j]) PROVE cells[j+1].text = <<>>
    BY <1>6, <1>7 DEF WholeRows
  <2>1. j \in 0..w-1 /\ j + 1 \in 0..w-1 /\ j # w - 1
    OBVIOUS
  <2>2. cells[j] = moved[j]
    BY <1>4, <2>1
  <2>3. \A k \in 0..w-2 : IsWide(row.cells[k]) => row.cells[k+1].text = <<>>
    BY <1>8 DEF WholeRows
  <2>4. moved[j+1].text = <<>>
    <3>1. CASE j < col
      <4>1. moved[j] = row.cells[j]
        BY <2>1, <3>1
      <4>2. row.cells[j+1].text = <<>>
        BY <2>2, <2>3, <4>1
      <4>3. CASE j + 1 < col
        BY <2>1, <4>2, <4>3
      <4>4. CASE ~(j + 1 < col) /\ j + 1 < col + n
        BY <2>1, <4>4, Blanks, Kinds
      <4>5. CASE ~(j + 1 < col) /\ ~(j + 1 < col + n)
        <5>1. n = 0
          BY <3>1, <4>5
        <5> QED  BY <2>1, <4>2, <4>5, <5>1
      <4> QED  BY <4>3, <4>4, <4>5
    <3>2. CASE ~(j < col) /\ j < col + n
      <4>1. moved[j] = Blank(Plain)
        BY <2>1, <3>2
      <4> QED  BY <4>1, <2>2, Blanks, Kinds
    <3>3. CASE ~(j < col) /\ ~(j < col + n)
      <4>1. moved[j] = row.cells[j-n] /\ moved[j+1] = row.cells[j+1-n]
        BY <2>1, <3>3
      <4>2. j - n \in 0..w-2 /\ (j - n) + 1 = j + 1 - n
        BY <3>3
      <4>3. row.cells[(j - n) + 1].text = <<>>
        BY <2>2, <2>3, <4>1, <4>2
      <4> QED  BY <4>1, <4>2, <4>3
    <3> QED  BY <3>1, <3>2, <3>3
  <2>5. moved[j+1] \in Cells
    BY <1>2, <2>1
  <2> HIDE DEF moved
  <2>6. cells[j+1] = moved[j+1] \/ cells[j+1] = Emptied(moved[j+1])
    BY <1>4, <2>1
  <2> QED  BY <2>4, <2>5, <2>6, Empties
<1> QED  BY <1>7, <1>8 DEF Shapes

-----------------------------------------------------------------------------
LEMMA Deleting ==
  ASSUME NEW w \in Nat \ {0}, NEW R \in Shapes(w), NEW row \in R, NEW col \in Nat, NEW n \in Nat
  PROVE  DeleteCols(row, col, n) \in R
<1>1. row \in AnyRows(w)
  BY ShapesAre
<1> DEFINE old == row.cells
           cell(j) == IF n > 0 /\ j = col + n /\ IsWide(old[j-1]) THEN Emptied(old[j]) ELSE old[j]
           at(v, j) == IF j < col THEN IF n > 0 /\ j = col - 1 /\ IsWide(old[j])
                              THEN Emptied(old[j]) ELSE old[j]
                       ELSE IF j + n < v THEN cell(j + n) ELSE Blank(Plain)
           cells == [j \in 0..w-1 |-> at(w, j)]
           new == DeleteCols(row, col, n)
<1>2. \A j \in 0..w-1 : old[j] \in Cells
  BY <1>1, Columns
<1>3. ASSUME NEW j \in 0..w-1 PROVE cell(j) \in Cells /\ (cell(j) = old[j] \/ ~IsWide(cell(j)))
  BY <1>2, Empties
<1>4. ASSUME NEW j \in 0..w-1
      PROVE  /\ cells[j] \in Cells
             /\ j < col => cells[j] = old[j] \/ (~IsWide(cells[j]) /\ cells[j].text = <<>>)
             /\ j = col - 1 /\ n > 0 => ~IsWide(cells[j])
             /\ ~(j < col) /\ j + n < w => cells[j] = cell(j + n) /\ j + n \in 0..w-1
             /\ ~(j < col) /\ ~(j + n < w) => ~IsWide(cells[j]) /\ cells[j].text = <<>>
  <2>1. cells[j] = at(w, j)
    OBVIOUS
  <2>2. CASE j < col
    BY <2>1, <2>2, <1>2, Empties
  <2>3. CASE ~(j < col) /\ j + n < w
    <3>1. j + n \in 0..w-1 /\ cells[j] = cell(j + n)
      BY <2>1, <2>3
    <3>2. cell(j + n) \in Cells
      BY <3>1, <1>3
    <3> HIDE DEF cell, cells
    <3> QED  BY <2>3, <3>1, <3>2
  <2>4. CASE ~(j < col) /\ ~(j + n < w)
    BY <2>1, <2>4, Blanks, Kinds
  <2> QED  BY <2>2, <2>3, <2>4
<1>5. new = [row EXCEPT !.wrapped = FALSE, !.cells = cells]
  <2> DEFINE of(v) == [row EXCEPT !.wrapped = FALSE, !.cells = [j \in 0..v-1 |-> at(v, j)]]
  <2>1. new = of(Cardinality(DOMAIN row.cells))
    BY DEF DeleteCols
  <2>2. of(w) = [row EXCEPT !.wrapped = FALSE, !.cells = cells]
    OBVIOUS
  <2> HIDE DEF of, new, cells, at
  <2> QED  BY <1>1, <2>1, <2>2, Columns
<1>6. cells \in [0..w-1 -> Cells]
  <2>1. cells = [j \in 0..w-1 |-> cells[j]]
    OBVIOUS
  <2> HIDE DEF cells, cell
  <2> QED  BY <2>1, <1>4
<1> HIDE DEF cells, new
<1>7. new \in AnyRows(w) /\ new.cells = cells
  BY <1>1, <1>5, <1>6 DEF AnyRows
<1>8. \A j \in 0..w-1 : IsWide(old[j]) => j + 1 < w
  BY ShapesAre DEF FitRows
<1>9. new \in FitRows(w)
  <2> SUFFICES ASSUME NEW j \in 0..w-1, IsWide(cells[j]) PROVE j + 1 < w
    BY <1>7 DEF FitRows
  <2>1. CASE j < col
    BY <2>1, <1>4, <1>8
  <2>2. CASE ~(j < col)
    <3>1. cells[j] = cell(j + n) /\ j + n \in 0..w-1
      BY <2>2, <1>4
    <3>2. IsWide(old[j + n])
      BY <3>1, <1>3
    <3> QED  BY <3>1, <3>2, <1>8
  <2> QED  BY <2>1, <2>2
<1>10. ASSUME row \in WholeRows(w) PROVE new \in WholeRows(w)
  <2> SUFFICES ASSUME NEW j \in 0..w-2, IsWide(cells[j]) PROVE cells[j+1].text = <<>>
    BY <1>7, <1>9 DEF WholeRows
  <2>1. j \in 0..w-1 /\ j + 1 \in 0..w-1
    OBVIOUS
  <2>2. \A k \in 0..w-2 : IsWide(old[k]) => old[k+1].text = <<>>
    BY <1>10 DEF WholeRows
  <2>3. CASE j < col
    <3>1. old[j+1].text = <<>> /\ old[j+1] \in Cells
      BY <2>1, <2>2, <2>3, <1>4, <1>2
    <3>2. CASE j + 1 < col
      BY <3>1, <3>2, <2>1, <1>4
    <3>3. CASE ~(j + 1 < col)
      <4>1. n = 0
        BY <2>1, <2>3, <3>3, <1>4
      <4>2. cells[j+1] = cell(j + 1) /\ cell(j + 1) = old[j + 1]
        BY <4>1, <3>3, <2>1, <1>4
      <4> QED  BY <4>2, <3>1
    <3> QED  BY <3>2, <3>3
  <2>4. CASE ~(j < col)
    <3>1. cells[j] = cell(j + n) /\ j + n \in 0..w-1
      BY <2>1, <2>4, <1>4
    <3>2. IsWide(old[j + n])
      BY <3>1, <1>3
    <3>3. CASE j + 1 + n < w
      <4>1. cells[j+1] = cell(j + 1 + n)
        BY <2>1, <2>4, <3>3, <1>4
      <4>2. cell(j + 1 + n) = old[(j + n) + 1]
        BY <2>4
      <4>3. j + n \in 0..w-2
        BY <3>1, <3>3
      <4> QED  BY <3>2, <4>1, <4>2, <4>3, <2>2
    <3>4. CASE ~(j + 1 + n < w)
      BY <2>1, <2>4, <3>4, <1>4
    <3> QED  BY <3>3, <3>4
  <2> QED  BY <2>3, <2>4
<1> QED  BY <1>9, <1>10 DEF Shapes, new

LEMMA Wrapping ==
  ASSUME NEW w \in Nat \ {0}, NEW R \in Shapes(w), NEW row \in R, NEW b \in BOOLEAN
  PROVE  [row EXCEPT !.wrapped = b] \in R
<1> DEFINE new == [row EXCEPT !.wrapped = b]
<1>1. row \in AnyRows(w)
  BY ShapesAre
<1>2. new \in AnyRows(w) /\ new.cells = row.cells
  BY <1>1 DEF AnyRows
<1> HIDE DEF new
<1>3. new \in R
  BY <1>2, Blanking
<1> QED  BY <1>3 DEF new

(* One cell of a row is written.                                             *)
PutIn(row, c, cell) ==
  [(IF c \in DOMAIN row.cells THEN [row EXCEPT !.cells[c] = cell] ELSE row) EXCEPT !.size = GreaterOf(@, c + 1)]

LEMMA Putting ==
  ASSUME NEW w \in Nat \ {0}, NEW row \in AnyRows(w), NEW c \in Nat, NEW cell \in Cells
  PROVE  /\ PutIn(row, c, cell) \in AnyRows(w)
         /\ \A j \in 0..w-1 : PutIn(row, c, cell).cells[j] = IF j = c THEN cell ELSE row.cells[j]
         /\ PutIn(row, c, cell).wrapped = row.wrapped
<1> DEFINE cells == IF c \in 0..w-1 THEN [row.cells EXCEPT ![c] = cell] ELSE row.cells
           size == GreaterOf(row.size, c + 1)
<1>1. cells \in [0..w-1 -> Cells] /\ size \in Nat
  BY DEF AnyRows, GreaterOf
<1>2. \A j \in 0..w-1 : cells[j] = IF j = c THEN cell ELSE row.cells[j]
  BY DEF AnyRows
<1>a. DOMAIN row.cells = 0..w-1
  BY Columns
<1>b. (IF c \in DOMAIN row.cells THEN [row EXCEPT !.cells[c] = cell] ELSE row) = [row EXCEPT !.cells = cells]
  BY <1>a DEF AnyRows
<1> HIDE DEF cells
<1>c. [row EXCEPT !.cells = cells].size = row.size
  BY DEF AnyRows
<1>3. PutIn(row, c, cell) = [[row EXCEPT !.cells = cells] EXCEPT !.size = size]
  BY <1>b, <1>c DEF PutIn
<1> HIDE DEF size
<1> QED  BY <1>1, <1>2, <1>3 DEF AnyRows

LEMMA PuttingFits ==
  ASSUME NEW w \in Nat \ {0}, NEW row \in FitRows(w), NEW c \in Nat, NEW cell \in Cells,
         IsWide(cell) => c + 1 < w
  PROVE  PutIn(row, c, cell) \in FitRows(w)
<1>1. row \in AnyRows(w)
  BY DEF FitRows
<1> QED  BY <1>1, Putting DEF FitRows

LEMMA PuttingBlank ==
  ASSUME NEW w \in Nat \ {0}, NEW R \in Shapes(w), NEW row \in R, NEW c \in Nat, NEW cell \in Cells,
         cell.text = <<>>
  PROVE  PutIn(row, c, cell) \in R
<1>1. row \in AnyRows(w)
  BY ShapesAre
<1> QED  BY <1>1, Putting, Blanking

-----------------------------------------------------------------------------
Fields(R, w, h, b) ==
  [w : {w}, h : {h}, row : Nat, col : Nat, srow : Nat, scol : Nat, top : Nat, bot : Nat,
   rows : Seq(R), used : Nat, origin : BOOLEAN, sorigin : BOOLEAN, back : {b}, off : Nat]
GridsOf(R, w, h, b) ==
  {g \in Fields(R, w, h, b) : /\ g.top <= g.bot /\ g.bot < h
                              /\ Len(g.rows) \in h..(h + b) /\ g.off <= Len(g.rows) - h}
StaysValid(g, next) == CursorValid(g) => CursorValid(next)

LEMMA GridIs ==
  ASSUME NEW R, NEW w \in Nat \ {0}, NEW h \in Nat \ {0}, NEW b \in Nat, NEW g \in GridsOf(R, w, h, b)
  PROVE  /\ g.w = w /\ g.h = h /\ g.back = b
         /\ g.row \in Nat /\ g.col \in Nat /\ g.srow \in Nat /\ g.scol \in Nat
         /\ g.top \in Nat /\ g.bot \in Nat /\ g.top <= g.bot /\ g.bot < h
         /\ g.used \in Nat /\ g.off \in Nat
         /\ g.origin \in BOOLEAN /\ g.sorigin \in BOOLEAN
BY DEF GridsOf, Fields

LEMMA RowsAre ==
  ASSUME NEW R, NEW w \in Nat \ {0}, NEW h \in Nat \ {0}, NEW b \in Nat, NEW g \in GridsOf(R, w, h, b)
  PROVE  g.rows \in Seq(R) /\ DOMAIN g.rows = 1..Len(g.rows)
BY DEF GridsOf, Fields

LEMMA HeightIs ==
  ASSUME NEW R, NEW w \in Nat \ {0}, NEW h \in Nat \ {0}, NEW b \in Nat, NEW g \in GridsOf(R, w, h, b)
  PROVE  /\ Len(g.rows) \in Nat /\ h <= Len(g.rows) /\ Len(g.rows) <= h + b
         /\ g.off <= Len(g.rows) - h
         /\ Row0(g) = Len(g.rows) - h /\ Row0(g) \in Nat
<1>1. /\ g \in Fields(R, w, h, b) /\ g.top <= g.bot /\ g.bot < h
      /\ Len(g.rows) \in h..(h + b) /\ g.off <= Len(g.rows) - h
  BY DEF GridsOf
<1>2. g.rows \in Seq(R)
  BY <1>1 DEF Fields
<1>3. DOMAIN g.rows = 1..Len(g.rows)
  BY <1>2
<1> QED  BY <1>1, <1>2, <1>3 DEF Fields, Row0

(* All but the place of the cursor is as it was.                             *)
Still(g, x) ==
  /\ x.w = g.w /\ x.h = g.h /\ x.srow = g.srow /\ x.scol = g.scol /\ x.top = g.top /\ x.bot = g.bot
  /\ x.rows = g.rows /\ x.used = g.used /\ x.origin = g.origin /\ x.sorigin = g.sorigin
  /\ x.back = g.back /\ x.off = g.off

Rowed(g, r) == [g EXCEPT !.row = r]
Coled(g, c) == [g EXCEPT !.col = c]

LEMMA Placing ==
  ASSUME NEW R, NEW w \in Nat \ {0}, NEW h \in Nat \ {0}, NEW b \in Nat, NEW g \in GridsOf(R, w, h, b),
         NEW n \in Nat
  PROVE  /\ Rowed(g, n) \in GridsOf(R, w, h, b) /\ Still(g, Rowed(g, n))
         /\ Rowed(g, n).row = n /\ Rowed(g, n).col = g.col
         /\ Coled(g, n) \in GridsOf(R, w, h, b) /\ Still(g, Coled(g, n))
         /\ Coled(g, n).row = g.row /\ Coled(g, n).col = n
<1>1. Rowed(g, n) \in GridsOf(R, w, h, b) /\ Coled(g, n) \in GridsOf(R, w, h, b)
  BY DEF GridsOf, Fields, Rowed, Coled
<1>2. /\ Still(g, Rowed(g, n)) /\ Rowed(g, n).row = n /\ Rowed(g, n).col = g.col
      /\ Still(g, Coled(g, n)) /\ Coled(g, n).row = g.row /\ Coled(g, n).col = n
  BY DEF GridsOf, Fields, Still, Rowed, Coled
<1> QED  BY <1>1, <1>2

LEMMA Clamping ==
  ASSUME NEW R, NEW w \in Nat \ {0}, NEW h \in Nat \ {0}, NEW b \in Nat, NEW g \in GridsOf(R, w, h, b),
         NEW limit
  PROVE  /\ ClampTop(g, limit) \in GridsOf(R, w, h, b) /\ Still(g, ClampTop(g, limit))
         /\ ClampTop(g, limit).col = g.col
         /\ ClampTop(g, limit).row = IF limit THEN GreaterOf(g.row, g.top) ELSE g.row
         /\ ClampBottom(g, limit) \in GridsOf(R, w, h, b) /\ Still(g, ClampBottom(g, limit))
         /\ ClampBottom(g, limit).col = g.col
         /\ ClampBottom(g, limit).row = LesserOf(g.row, Bottom(g, limit))
         /\ Bottom(g, limit) \in 0..h-1 /\ Bottom(g, limit) \in {g.bot, h - 1}
<1>0. g.w = w /\ g.h = h /\ g.row \in Nat /\ g.col \in Nat /\ g.top \in Nat /\ g.bot \in Nat /\ g.bot < h
  BY GridIs
<1>1. Bottom(g, limit) \in 0..h-1 /\ Bottom(g, limit) \in {g.bot, h - 1}
  BY <1>0 DEF Bottom
<1>2. /\ LesserOf(g.row, Bottom(g, limit)) \in Nat /\ GreaterOf(g.row, g.top) \in Nat
  BY <1>0, <1>1 DEF LesserOf, GreaterOf
<1>3. ClampBottom(g, limit) = Rowed(g, LesserOf(g.row, Bottom(g, limit)))
  BY <1>0 DEF ClampBottom, Rowed
<1>4. ClampTop(g, limit) = IF limit THEN Rowed(g, GreaterOf(g.row, g.top)) ELSE g
  BY DEF ClampTop, Rowed
<1>5. Still(g, g)
  BY DEF Still
<1> QED  BY <1>1, <1>2, <1>3, <1>4, <1>5, Placing

LEMMA ClampingCol ==
  ASSUME NEW R, NEW w \in Nat \ {0}, NEW h \in Nat \ {0}, NEW b \in Nat, NEW g \in GridsOf(R, w, h, b)
  PROVE  /\ ClampCol(g) \in GridsOf(R, w, h, b) /\ Still(g, ClampCol(g))
         /\ ClampCol(g).row = g.row /\ ClampCol(g).col = LesserOf(g.col, w - 1)
<1>1. g.w = w /\ g.col \in Nat
  BY GridIs
<1>2. LesserOf(g.col, w - 1) \in Nat
  BY <1>1 DEF LesserOf
<1>3. ClampCol(g) = Coled(g, LesserOf(g.col, w - 1))
  BY <1>1 DEF ClampCol, Coled
<1> QED  BY <1>2, <1>3, Placing

LEMMA StillStill == ASSUME NEW g, NEW x, NEW y, Still(g, x), Still(x, y) PROVE Still(g, y)
BY DEF Still

LEMMA Stepping ==
  ASSUME NEW R, NEW w \in Nat \ {0}, NEW h \in Nat \ {0}, NEW b \in Nat, NEW g \in GridsOf(R, w, h, b),
         NEW n \in Nat
  PROVE  /\ Up(g, n) \in GridsOf(R, w, h, b) /\ StaysValid(g, Up(g, n)) /\ Still(g, Up(g, n))
         /\ Left(g, n) \in GridsOf(R, w, h, b) /\ StaysValid(g, Left(g, n))
         /\ Right(g, n) \in GridsOf(R, w, h, b) /\ StaysValid(g, Right(g, n))
         /\ Down(g, n) \in GridsOf(R, w, h, b) /\ StaysValid(g, Down(g, n)) /\ Still(g, Down(g, n))
         /\ Down(g, n).row < h /\ Down(g, n).col = g.col
         /\ Down(g, n).row = LesserOf(g.row + n, Bottom(g, InRegion(g)))
<1>0. /\ g.w = w /\ g.h = h /\ g.row \in Nat /\ g.col \in Nat /\ g.top \in Nat /\ g.bot \in Nat
      /\ g.top <= g.bot /\ g.bot < h
  BY GridIs
<1>1. Up(g, n) \in GridsOf(R, w, h, b) /\ StaysValid(g, Up(g, n)) /\ Still(g, Up(g, n))
  <2> DEFINE r == Minus(g.row, n)  x == Rowed(g, r)  y == ClampTop(x, InRegion(g))
  <2>1. r \in Nat /\ r <= g.row
    BY <1>0 DEF Minus
  <2>2. Up(g, n) = y
    BY DEF Up, Rowed
  <2> HIDE DEF r
  <2>3. x \in GridsOf(R, w, h, b) /\ Still(g, x) /\ x.row = r /\ x.col = g.col
    BY <2>1, Placing
  <2> HIDE DEF x
  <2>4. /\ y \in GridsOf(R, w, h, b) /\ Still(x, y) /\ y.col = x.col
        /\ y.row = IF InRegion(g) THEN GreaterOf(x.row, x.top) ELSE x.row
    BY <2>3, Clamping
  <2> HIDE DEF y
  <2>5. y.row = r \/ y.row = g.top
    BY <2>3, <2>4 DEF GreaterOf, Still
  <2>6. Still(g, y)
    BY <2>3, <2>4, StillStill
  <2>7. StaysValid(g, y)
    BY <1>0, <2>1, <2>3, <2>4, <2>5, <2>6 DEF StaysValid, CursorValid, Still
  <2> QED  BY <2>2, <2>4, <2>6, <2>7
<1>2. Left(g, n) \in GridsOf(R, w, h, b) /\ StaysValid(g, Left(g, n))
  <2> DEFINE c == Minus(g.col, n)  x == Coled(g, c)
  <2>1. c \in Nat /\ c <= g.col
    BY <1>0 DEF Minus
  <2>2. Left(g, n) = x
    BY DEF Left, Coled
  <2> HIDE DEF c
  <2>3. x \in GridsOf(R, w, h, b) /\ Still(g, x) /\ x.row = g.row /\ x.col = c
    BY <2>1, Placing
  <2> HIDE DEF x
  <2> QED  BY <1>0, <2>1, <2>2, <2>3 DEF StaysValid, CursorValid, Still
<1>3. Right(g, n) \in GridsOf(R, w, h, b) /\ StaysValid(g, Right(g, n))
  <2> DEFINE x == Coled(g, g.col + n)  y == ClampCol(x)
  <2>1. g.col + n \in Nat
    BY <1>0
  <2>2. Right(g, n) = y
    BY DEF Right, Coled
  <2>3. x \in GridsOf(R, w, h, b) /\ Still(g, x) /\ x.row = g.row /\ x.col = g.col + n
    BY <2>1, Placing
  <2> HIDE DEF x
  <2>4. y \in GridsOf(R, w, h, b) /\ Still(x, y) /\ y.row = x.row /\ y.col = LesserOf(x.col, w - 1)
    BY <2>3, ClampingCol
  <2> HIDE DEF y
  <2> QED  BY <1>0, <2>1, <2>2, <2>3, <2>4 DEF StaysValid, CursorValid, LesserOf, Still
<1>4. /\ Down(g, n) \in GridsOf(R, w, h, b) /\ StaysValid(g, Down(g, n)) /\ Still(g, Down(g, n))
      /\ Down(g, n).row < h /\ Down(g, n).col = g.col
      /\ Down(g, n).row = LesserOf(g.row + n, Bottom(g, InRegion(g)))
  <2> DEFINE x == Rowed(g, g.row + n)  y == ClampBottom(x, InRegion(g))
  <2>1. g.row + n \in Nat
    BY <1>0
  <2>2. Down(g, n) = y
    BY DEF Down, Rowed
  <2>3. x \in GridsOf(R, w, h, b) /\ Still(g, x) /\ x.row = g.row + n /\ x.col = g.col
    BY <2>1, Placing
  <2> HIDE DEF x
  <2>4. /\ y \in GridsOf(R, w, h, b) /\ Still(x, y) /\ y.col = x.col
        /\ y.row = LesserOf(x.row, Bottom(x, InRegion(g))) /\ Bottom(x, InRegion(g)) \in 0..h-1
    BY <2>3, Clamping
  <2> HIDE DEF y
  <2>5. Bottom(x, InRegion(g)) = Bottom(g, InRegion(g))
    BY <2>3 DEF Bottom, Still
  <2>6. y.row < h
    BY <2>1, <2>3, <2>4 DEF LesserOf
  <2>7. Still(g, y)
    BY <2>3, <2>4, StillStill
  <2>8. StaysValid(g, y)
    BY <1>0, <2>3, <2>4, <2>6, <2>7 DEF StaysValid, CursorValid, Still
  <2> QED  BY <2>2, <2>3, <2>4, <2>5, <2>6, <2>7, <2>8
<1> QED  BY <1>1, <1>2, <1>3, <1>4

-----------------------------------------------------------------------------
LEMMA Positions ==
  ASSUME NEW R, NEW w \in Nat \ {0}, NEW h \in Nat \ {0}, NEW b \in Nat, NEW g \in GridsOf(R, w, h, b),
         NEW r \in Nat, NEW c \in Nat
  PROVE  SetPos(g, r, c) \in GridsOf(R, w, h, b) /\ CursorValid(SetPos(g, r, c))
<1> DEFINE to == IF g.origin THEN r + g.top ELSE r
           x == Coled(Rowed(g, to), c)
           y == ClampTop(x, g.origin)
           z == ClampBottom(y, g.origin)
<1>1. to \in Nat
  BY GridIs
<1>2. SetPos(g, r, c) = ClampCol(z)
  BY DEF SetPos, Coled, Rowed
<1> HIDE DEF to
<1>3. x \in GridsOf(R, w, h, b)
  BY <1>1, Placing
<1> HIDE DEF x
<1>4. y \in GridsOf(R, w, h, b)
  BY <1>3, Clamping
<1> HIDE DEF y
<1>5. /\ z \in GridsOf(R, w, h, b) /\ z.row = LesserOf(y.row, Bottom(y, g.origin))
      /\ Bottom(y, g.origin) \in 0..h-1
  BY <1>4, Clamping
<1>6. y.row \in Nat
  BY <1>4, GridIs
<1> HIDE DEF z
<1>7. z.row < h
  BY <1>5, <1>6 DEF LesserOf
<1>8. /\ ClampCol(z) \in GridsOf(R, w, h, b) /\ ClampCol(z).row = z.row
      /\ ClampCol(z).col = LesserOf(z.col, w - 1)
  BY <1>5, ClampingCol
<1>9. z.col \in Nat
  BY <1>5, GridIs
<1>10. ClampCol(z).w = w /\ ClampCol(z).h = h
  BY <1>8, GridIs
<1> QED  BY <1>2, <1>7, <1>8, <1>9, <1>10 DEF CursorValid, LesserOf

LEMMA Origins ==
  ASSUME NEW R, NEW w \in Nat \ {0}, NEW h \in Nat \ {0}, NEW b \in Nat, NEW g \in GridsOf(R, w, h, b),
         NEW on \in BOOLEAN
  PROVE  SetOrigin(g, on) \in GridsOf(R, w, h, b) /\ CursorValid(SetOrigin(g, on))
<1> DEFINE x == [g EXCEPT !.origin = on]
<1>1. x \in GridsOf(R, w, h, b)
  BY DEF GridsOf, Fields
<1>2. SetOrigin(g, on) = SetPos(x, 0, 0)
  BY DEF SetOrigin
<1> HIDE DEF x
<1>3. PICK n \in Nat : n = 0
  OBVIOUS
<1>4. SetPos(x, n, n) \in GridsOf(R, w, h, b) /\ CursorValid(SetPos(x, n, n))
  BY <1>1, Positions
<1> QED  BY <1>2, <1>3, <1>4

LEMMA Cursors ==
  ASSUME NEW R, NEW w \in Nat \ {0}, NEW h \in Nat \ {0}, NEW b \in Nat, NEW g \in GridsOf(R, w, h, b)
  PROVE  /\ SaveCursor(g) \in GridsOf(R, w, h, b) /\ StaysValid(g, SaveCursor(g))
         /\ RestoreCursor(g) \in GridsOf(R, w, h, b)
         /\ RestoreCursor(g).row = g.srow /\ RestoreCursor(g).col = g.scol
<1>1. SaveCursor(g) \in GridsOf(R, w, h, b) /\ RestoreCursor(g) \in GridsOf(R, w, h, b)
  BY DEF GridsOf, Fields, SaveCursor, RestoreCursor
<1>2. RestoreCursor(g).row = g.srow /\ RestoreCursor(g).col = g.scol
  BY DEF GridsOf, Fields, RestoreCursor
<1>3. /\ SaveCursor(g).row = g.row /\ SaveCursor(g).col = g.col
      /\ SaveCursor(g).w = g.w /\ SaveCursor(g).h = g.h
  BY DEF GridsOf, Fields, SaveCursor
<1> QED  BY <1>1, <1>2, <1>3 DEF StaysValid, CursorValid

LEMMA Setting ==
  ASSUME NEW R, NEW w \in Nat \ {0}, NEW h \in Nat \ {0}, NEW b \in Nat, NEW g \in GridsOf(R, w, h, b),
         NEW n \in Nat
  PROVE  /\ SetRow(g, n) \in GridsOf(R, w, h, b) /\ StaysValid(g, SetRow(g, n))
         /\ SetCol(g, n) \in GridsOf(R, w, h, b) /\ StaysValid(g, SetCol(g, n))
<1>0. g.w = w /\ g.h = h
  BY GridIs
<1>1. SetRow(g, n) \in GridsOf(R, w, h, b) /\ StaysValid(g, SetRow(g, n))
  <2> DEFINE r == LesserOf(n, h - 1)  x == Rowed(g, r)
  <2>1. r \in Nat /\ r < h
    BY DEF LesserOf
  <2>2. SetRow(g, n) = x
    BY <1>0 DEF SetRow, Rowed
  <2> HIDE DEF r
  <2>3. x \in GridsOf(R, w, h, b) /\ Still(g, x) /\ x.row = r /\ x.col = g.col
    BY <2>1, Placing
  <2> HIDE DEF x
  <2> QED  BY <1>0, <2>1, <2>2, <2>3 DEF StaysValid, CursorValid, Still
<1>2. SetCol(g, n) \in GridsOf(R, w, h, b) /\ StaysValid(g, SetCol(g, n))
  <2> DEFINE x == Coled(g, n)  y == ClampCol(x)
  <2>1. SetCol(g, n) = y
    BY DEF SetCol, Coled
  <2>2. x \in GridsOf(R, w, h, b) /\ Still(g, x) /\ x.row = g.row /\ x.col = n
    BY Placing
  <2> HIDE DEF x
  <2>3. y \in GridsOf(R, w, h, b) /\ Still(x, y) /\ y.row = x.row /\ y.col = LesserOf(x.col, w - 1)
    BY <2>2, ClampingCol
  <2> HIDE DEF y
  <2> QED  BY <1>0, <2>1, <2>2, <2>3 DEF StaysValid, CursorValid, Still, LesserOf
<1> QED  BY <1>1, <1>2

LEMMA Tabs ==
  ASSUME NEW R, NEW w \in Nat \ {0}, NEW h \in Nat \ {0}, NEW b \in Nat, NEW g \in GridsOf(R, w, h, b)
  PROVE  Tab(g) \in GridsOf(R, w, h, b) /\ StaysValid(g, Tab(g))
<1>0. g.col \in Nat
  BY GridIs
<1>1. Tab(g) = SetCol(g, (g.col - (g.col % 8)) + 8)
  BY DEF Tab, SetCol
<1>2. g.col % 8 \in 0..7
  BY <1>0
<1>3. PICK n \in Nat : n = (g.col - (g.col % 8)) + 8
  BY <1>0, <1>2
<1> QED  BY <1>1, <1>3, Setting

LEMMA Regions ==
  ASSUME NEW R, NEW w \in Nat \ {0}, NEW h \in Nat \ {0}, NEW b \in Nat, NEW g \in GridsOf(R, w, h, b),
         NEW t \in Nat, NEW m \in Nat
  PROVE  SetRegion(g, t, m) \in GridsOf(R, w, h, b) /\ CursorValid(SetRegion(g, t, m))
<1> DEFINE bot == LesserOf(m, h - 1)
           top == IF t < bot THEN t ELSE 0
           low == IF t < bot THEN bot ELSE h - 1
           new == [g EXCEPT !.top = top, !.bot = low, !.row = top, !.col = 0]
<1>1. top \in Nat /\ low \in Nat /\ top <= low /\ low < h
  BY DEF LesserOf
<1>a. g.h = h
  BY GridIs
<1>2. SetRegion(g, t, m) = new
  BY <1>a DEF SetRegion
<1> HIDE DEF bot, top, low
<1>3. new \in GridsOf(R, w, h, b)
  BY <1>1 DEF GridsOf, Fields
<1>4. new.row = top /\ new.col = 0 /\ new.h = h /\ new.w = w
  BY DEF GridsOf, Fields
<1> HIDE DEF new
<1> QED  BY <1>1, <1>2, <1>3, <1>4 DEF CursorValid

LEMMA Views ==
  ASSUME NEW R, NEW w \in Nat \ {0}, NEW h \in Nat \ {0}, NEW b \in Nat, NEW g \in GridsOf(R, w, h, b),
         NEW n \in Nat
  PROVE  ScrollView(g, n) \in GridsOf(R, w, h, b) /\ StaysValid(g, ScrollView(g, n))
<1> DEFINE off == LesserOf(n, Row0(g))  new == [g EXCEPT !.off = off]
<1>a. Row0(g) \in Nat /\ Row0(g) = Len(g.rows) - h
  BY HeightIs
<1>1. off \in Nat /\ off <= Len(g.rows) - h
  BY <1>a DEF LesserOf
<1>2. ScrollView(g, n) = new
  BY DEF ScrollView
<1> HIDE DEF off
<1>3. new \in GridsOf(R, w, h, b)
  BY <1>1 DEF GridsOf, Fields
<1>4. new.row = g.row /\ new.col = g.col /\ new.h = g.h /\ new.w = g.w
  BY DEF GridsOf, Fields
<1> HIDE DEF new
<1> QED  BY <1>2, <1>3, <1>4 DEF StaysValid, CursorValid

LEMMA NewGrids ==
  ASSUME NEW w \in Nat \ {0}, NEW R \in Shapes(w), NEW h \in Nat \ {0}, NEW b \in Nat
  PROVE  NewGrid(w, h, b) \in GridsOf(R, w, h, b) /\ CursorValid(NewGrid(w, h, b))
<1> DEFINE rows == [i \in 1..h |-> NewRow(w, Plain)]
<1>1. NewRow(w, Plain) \in R
  BY NewRows, Kinds
<1>2. rows \in Seq(R) /\ Len(rows) = h
  BY <1>1
<1>3. NewGrid(w, h, b) = [w |-> w, h |-> h, row |-> 0, col |-> 0, srow |-> 0, scol |-> 0, top |-> 0,
        bot |-> h - 1, rows |-> rows, used |-> 0, origin |-> FALSE, sorigin |-> FALSE, back |-> b, off |-> 0]
  BY DEF NewGrid
<1> HIDE DEF rows
<1>4. NewGrid(w, h, b) \in GridsOf(R, w, h, b)
  BY <1>2, <1>3 DEF GridsOf, Fields
<1>5. CursorValid(NewGrid(w, h, b))
  BY <1>3 DEF CursorValid
<1> QED  BY <1>4, <1>5

-----------------------------------------------------------------------------
LEMMA Listing ==
  ASSUME NEW R, NEW n \in Nat, NEW f \in [1..n -> R]
  PROVE  f \in Seq(R) /\ Len(f) = n
OBVIOUS

LEMMA Replaced ==
  ASSUME NEW R, NEW s \in Seq(R), NEW i \in Int, NEW v \in R
  PROVE  /\ [s EXCEPT ![i] = v] \in Seq(R) /\ Len([s EXCEPT ![i] = v]) = Len(s)
         /\ \A k \in 1..Len(s) : [s EXCEPT ![i] = v][k] = IF k = i THEN v ELSE s[k]
<1> DEFINE n == Len(s)  f == [s EXCEPT ![i] = v]
<1>1. n \in Nat /\ DOMAIN s = 1..n /\ s \in [1..n -> R]
  OBVIOUS
<1> HIDE DEF n
<1>2. f \in [1..n -> R] /\ \A k \in 1..n : f[k] = IF k = i THEN v ELSE s[k]
  BY <1>1
<1> HIDE DEF f
<1>3. f \in Seq(R) /\ Len(f) = n
  BY <1>1, <1>2, Listing
<1> QED  BY <1>2, <1>3 DEF f, n

(* All but the rows, their number apart, and how many are used is as it was. *)
Kin(g, x) ==
  /\ x.w = g.w /\ x.h = g.h /\ x.row = g.row /\ x.col = g.col /\ x.srow = g.srow /\ x.scol = g.scol
  /\ x.top = g.top /\ x.bot = g.bot /\ x.origin = g.origin /\ x.sorigin = g.sorigin
  /\ x.back = g.back /\ x.off = g.off /\ Len(x.rows) = Len(g.rows)

LEMMA KinKin == ASSUME NEW g, NEW x, NEW y, Kin(g, x), Kin(x, y) PROVE Kin(g, y)
BY DEF Kin
LEMMA KinValid == ASSUME NEW g, NEW x, Kin(g, x) PROVE StaysValid(g, x) /\ Row0(x) = Row0(g)
BY DEF Kin, StaysValid, CursorValid, Row0

Relaid(g, rows) == [g EXCEPT !.rows = rows]
Using(g, n) == [g EXCEPT !.used = n]

LEMMA Relaying ==
  ASSUME NEW R, NEW w \in Nat \ {0}, NEW h \in Nat \ {0}, NEW b \in Nat, NEW g \in GridsOf(R, w, h, b),
         NEW Q, NEW rows \in Seq(Q), Len(rows) = Len(g.rows)
  PROVE  /\ Relaid(g, rows) \in GridsOf(Q, w, h, b) /\ Kin(g, Relaid(g, rows))
         /\ Relaid(g, rows).rows = rows
<1>1. Relaid(g, rows) \in Fields(Q, w, h, b)
  BY DEF GridsOf, Fields, Relaid
<1>2. Kin(g, Relaid(g, rows)) /\ Relaid(g, rows).rows = rows
  BY DEF GridsOf, Fields, Kin, Relaid
<1>3. /\ g.top <= g.bot /\ g.bot < h
      /\ Len(g.rows) \in h..(h + b) /\ g.off <= Len(g.rows) - h
  BY DEF GridsOf
<1> QED  BY <1>1, <1>2, <1>3 DEF GridsOf, Kin

LEMMA Usings ==
  ASSUME NEW R, NEW w \in Nat \ {0}, NEW h \in Nat \ {0}, NEW b \in Nat, NEW g \in GridsOf(R, w, h, b),
         NEW n \in Nat
  PROVE  /\ Using(g, n) \in GridsOf(R, w, h, b) /\ Kin(g, Using(g, n)) /\ Using(g, n).rows = g.rows
BY DEF GridsOf, Fields, Kin, Using

LEMMA AtRow ==
  ASSUME NEW R, NEW w \in Nat \ {0}, NEW h \in Nat \ {0}, NEW b \in Nat, NEW g \in GridsOf(R, w, h, b),
         NEW r \in Nat, r < h
  PROVE  Row0(g) + r + 1 \in DOMAIN g.rows /\ At(g, r) \in R
<1>1. Row0(g) + r + 1 \in 1..Len(g.rows)
  BY HeightIs
<1>2. g.rows \in Seq(R)
  BY RowsAre
<1>3. g.rows[Row0(g) + r + 1] \in R
  BY <1>1, <1>2
<1> QED  BY <1>1, <1>2, <1>3 DEF At

(* One row is another.                                                       *)
WithRow(g, r, new) == [g EXCEPT !.rows[Row0(g) + r + 1] = new]
OnlyRow(g, r, new, x) ==
  \A k \in 1..Len(g.rows) : x.rows[k] = IF k = Row0(g) + r + 1 THEN new ELSE g.rows[k]

LEMMA Changing ==
  ASSUME NEW R, NEW w \in Nat \ {0}, NEW h \in Nat \ {0}, NEW b \in Nat, NEW g \in GridsOf(R, w, h, b),
         NEW r \in Nat, NEW new \in R
  PROVE  /\ WithRow(g, r, new) \in GridsOf(R, w, h, b) /\ Kin(g, WithRow(g, r, new))
         /\ OnlyRow(g, r, new, WithRow(g, r, new))
<1> DEFINE i == Row0(g) + r + 1  rows == [g.rows EXCEPT ![i] = new]  x == WithRow(g, r, new)
<1>a. Row0(g) \in Nat /\ Len(g.rows) \in Nat
  BY HeightIs
<1>b. g.rows \in Seq(R)
  BY RowsAre
<1>c. i \in Int
  BY <1>a
<1>2. x = Relaid(g, rows)
  BY DEF WithRow, Relaid
<1> HIDE DEF i
<1>1. /\ rows \in Seq(R) /\ Len(rows) = Len(g.rows)
      /\ \A k \in 1..Len(g.rows) : rows[k] = IF k = i THEN new ELSE g.rows[k]
  BY <1>b, <1>c, Replaced
<1> HIDE DEF rows, x
<1>d. rows \in Seq(R) /\ Len(rows) = Len(g.rows)
  BY <1>1
<1>3. x \in GridsOf(R, w, h, b) /\ Kin(g, x) /\ x.rows = rows
  BY ONLY w \in Nat \ {0}, h \in Nat \ {0}, b \in Nat, g \in GridsOf(R, w, h, b), <1>d, <1>2, Relaying
<1>4. OnlyRow(g, r, new, x)
  BY <1>1, <1>3 DEF OnlyRow, i
<1> QED  BY <1>3, <1>4 DEF x

LEMMA OnlyRowAt ==
  ASSUME NEW R, NEW w \in Nat \ {0}, NEW h \in Nat \ {0}, NEW b \in Nat, NEW g \in GridsOf(R, w, h, b),
         NEW r \in Nat, r < h, NEW new, NEW x, Kin(g, x), OnlyRow(g, r, new, x)
  PROVE  At(x, r) = new
<1>1. Row0(g) + r + 1 \in 1..Len(g.rows)
  BY HeightIs
<1>2. Row0(x) = Row0(g)
  BY KinValid
<1> QED  BY <1>1, <1>2 DEF OnlyRow, At

-----------------------------------------------------------------------------
LEMMA Rewriting ==
  ASSUME NEW R, NEW w \in Nat \ {0}, NEW h \in Nat \ {0}, NEW b \in Nat, NEW g \in GridsOf(R, w, h, b),
         NEW r \in Nat, NEW new \in R
  PROVE  WithRow(g, r, new) \in GridsOf(R, w, h, b) /\ Kin(g, WithRow(g, r, new))
BY Changing

LEMMA ErasedForward ==
  ASSUME NEW w \in Nat \ {0}, NEW R \in Shapes(w), NEW h \in Nat \ {0}, NEW b \in Nat,
         NEW g \in GridsOf(R, w, h, b), NEW a \in Colours, g.row < h
  PROVE  EraseForward(g, a) \in GridsOf(R, w, h, b) /\ Kin(g, EraseForward(g, a))
<1> DEFINE new == EraseCols(At(g, g.row), g.col, g.w - 1, a)
<1>1. g.w = w /\ g.h = h /\ g.row \in Nat /\ g.col \in Nat
  BY GridIs
<1>2. At(g, g.row) \in R
  BY <1>1, AtRow
<1>3. new \in R
  BY <1>1, <1>2, Erasing
<1>4. EraseForward(g, a) = WithRow(g, g.row, new)
  BY DEF EraseForward, MapRow, WithRow, At
<1> HIDE DEF new
<1> QED  BY <1>1, <1>3, <1>4, Rewriting

LEMMA ErasedBackward ==
  ASSUME NEW w \in Nat \ {0}, NEW R \in Shapes(w), NEW h \in Nat \ {0}, NEW b \in Nat,
         NEW g \in GridsOf(R, w, h, b), NEW a \in Colours, g.row < h
  PROVE  EraseBackward(g, a) \in GridsOf(R, w, h, b) /\ Kin(g, EraseBackward(g, a))
<1> DEFINE new == EraseCols(At(g, g.row), 0, LesserOf(g.col, g.w - 1), a)
<1>1. g.w = w /\ g.h = h /\ g.row \in Nat /\ g.col \in Nat
  BY GridIs
<1>a. LesserOf(g.col, g.w - 1) \in Int /\ LesserOf(g.col, g.w - 1) <= w - 1
  BY <1>1 DEF LesserOf
<1>2. At(g, g.row) \in R
  BY <1>1, <1>a, AtRow
<1>3. new \in R
  BY <1>1, <1>2, <1>a, Erasing
<1>4. EraseBackward(g, a) = WithRow(g, g.row, new)
  BY DEF EraseBackward, MapRow, WithRow, At
<1> HIDE DEF new
<1> QED  BY <1>1, <1>3, <1>4, Rewriting

LEMMA ErasedRow ==
  ASSUME NEW w \in Nat \ {0}, NEW R \in Shapes(w), NEW h \in Nat \ {0}, NEW b \in Nat,
         NEW g \in GridsOf(R, w, h, b), NEW a \in Colours, g.row < h
  PROVE  EraseRow(g, a) \in GridsOf(R, w, h, b) /\ Kin(g, EraseRow(g, a))
<1> DEFINE new == ClearRow(At(g, g.row), a)
<1>1. g.w = w /\ g.h = h /\ g.row \in Nat /\ g.col \in Nat
  BY GridIs
<1>2. At(g, g.row) \in R
  BY <1>1, AtRow
<1>3. new \in R
  BY <1>1, <1>2, ClearedRows
<1>4. EraseRow(g, a) = WithRow(g, g.row, new)
  BY DEF EraseRow, MapRow, WithRow, At
<1> HIDE DEF new
<1> QED  BY <1>1, <1>3, <1>4, Rewriting

LEMMA ErasedCells ==
  ASSUME NEW w \in Nat \ {0}, NEW R \in Shapes(w), NEW h \in Nat \ {0}, NEW b \in Nat,
         NEW g \in GridsOf(R, w, h, b), NEW n \in Nat, NEW a \in Colours, g.row < h
  PROVE  EraseCells(g, n, a) \in GridsOf(R, w, h, b) /\ Kin(g, EraseCells(g, n, a))
<1> DEFINE new == EraseCols(At(g, g.row), g.col, LesserOf(g.col + n, g.w) - 1, a)
<1>1. g.w = w /\ g.h = h /\ g.row \in Nat /\ g.col \in Nat
  BY GridIs
<1>a. LesserOf(g.col + n, g.w) - 1 \in Int /\ LesserOf(g.col + n, g.w) - 1 <= w - 1
  BY <1>1 DEF LesserOf
<1>2. At(g, g.row) \in R
  BY <1>1, <1>a, AtRow
<1>3. new \in R
  BY <1>1, <1>2, <1>a, Erasing
<1>4. EraseCells(g, n, a) = WithRow(g, g.row, new)
  BY DEF EraseCells, MapRow, WithRow, At
<1> HIDE DEF new
<1> QED  BY <1>1, <1>3, <1>4, Rewriting

LEMMA InsertedCells ==
  ASSUME NEW w \in Nat \ {0}, NEW R \in Shapes(w), NEW h \in Nat \ {0}, NEW b \in Nat,
         NEW g \in GridsOf(R, w, h, b), NEW n \in Nat, g.row < h
  PROVE  InsertCells(g, n) \in GridsOf(R, w, h, b) /\ Kin(g, InsertCells(g, n))
<1> DEFINE new == InsertCols(At(g, g.row), g.col, n)
<1>1. g.w = w /\ g.h = h /\ g.row \in Nat /\ g.col \in Nat
  BY GridIs
<1>2. At(g, g.row) \in R
  BY <1>1, AtRow
<1>3. new \in R
  BY <1>1, <1>2, Inserting
<1>4. InsertCells(g, n) = WithRow(g, g.row, new)
  BY DEF InsertCells, MapRow, WithRow, At
<1> HIDE DEF new
<1> QED  BY <1>1, <1>3, <1>4, Rewriting

LEMMA DeletedCells ==
  ASSUME NEW w \in Nat \ {0}, NEW R \in Shapes(w), NEW h \in Nat \ {0}, NEW b \in Nat,
         NEW g \in GridsOf(R, w, h, b), NEW n \in Nat, CursorValid(g)
  PROVE  DeleteCells(g, n) \in GridsOf(R, w, h, b) /\ Kin(g, DeleteCells(g, n))
<1> DEFINE new == DeleteCols(At(g, g.row), g.col, LesserOf(n, g.w - g.col))
<1>1. g.w = w /\ g.h = h /\ g.row \in Nat /\ g.col \in Nat
  BY GridIs
<1>a. g.row < h /\ LesserOf(n, g.w - g.col) \in Nat
  BY <1>1 DEF CursorValid, LesserOf
<1>2. At(g, g.row) \in R
  BY <1>1, <1>a, AtRow
<1>3. new \in R
  BY <1>1, <1>2, <1>a, Deleting
<1>4. DeleteCells(g, n) = WithRow(g, g.row, new)
  BY DEF DeleteCells, MapRow, WithRow, At
<1> HIDE DEF new
<1> QED  BY <1>1, <1>3, <1>4, Rewriting

LEMMA Ending ==
  ASSUME NEW w \in Nat \ {0}, NEW R \in Shapes(w), NEW h \in Nat \ {0}, NEW b \in Nat,
         NEW g \in GridsOf(R, w, h, b),
         NEW r \in Nat, r < h, NEW on \in BOOLEAN
  PROVE  /\ MapRow(g, r, LAMBDA row : [row EXCEPT !.wrapped = on]) \in GridsOf(R, w, h, b)
         /\ Kin(g, MapRow(g, r, LAMBDA row : [row EXCEPT !.wrapped = on]))
<1> DEFINE new == [At(g, r) EXCEPT !.wrapped = on]
<1>1. At(g, r) \in R
  BY AtRow
<1>2. new \in R
  BY <1>1, Wrapping
<1>3. MapRow(g, r, LAMBDA row : [row EXCEPT !.wrapped = on]) = WithRow(g, r, new)
  BY DEF MapRow, WithRow, At
<1> HIDE DEF new
<1> QED  BY <1>2, <1>3, Rewriting

(* The rows of the screen are each another.                                  *)
RowsDrawn(g, new) == [i \in DOMAIN g.rows |-> IF i <= Row0(g) THEN g.rows[i] ELSE new[i - 1 - Row0(g)]]

LEMMA Drawing ==
  ASSUME NEW w \in Nat \ {0}, NEW R \in Shapes(w), NEW h \in Nat \ {0}, NEW b \in Nat,
         NEW g \in GridsOf(R, w, h, b),
         NEW new, \A r \in 0..h-1 : new[r] \in R
  PROVE  /\ Relaid(g, RowsDrawn(g, new)) \in GridsOf(R, w, h, b) /\ Kin(g, Relaid(g, RowsDrawn(g, new)))
<1> DEFINE rows == RowsDrawn(g, new)
<1>1. Row0(g) \in Nat /\ Len(g.rows) \in Nat /\ Row0(g) = Len(g.rows) - h
  BY HeightIs
<1>2. g.rows \in Seq(R) /\ DOMAIN g.rows = 1..Len(g.rows)
  BY RowsAre
<1>3. ASSUME NEW i \in 1..Len(g.rows) PROVE (IF i <= Row0(g) THEN g.rows[i] ELSE new[i - 1 - Row0(g)]) \in R
  <2>1. g.rows[i] \in R
    BY <1>2
  <2>2. ~(i <= Row0(g)) => i - 1 - Row0(g) \in 0..h-1
    BY <1>1
  <2>3. CASE i <= Row0(g)
    BY <2>1, <2>3
  <2>4. CASE ~(i <= Row0(g))
    <3>1. PICK r \in 0..h-1 : r = i - 1 - Row0(g)
      BY <2>2, <2>4, Zenon
    <3> QED  BY <2>4, <3>1
  <2> QED  BY <2>3, <2>4
<1>4. rows \in [1..Len(g.rows) -> R]
  BY <1>2, <1>3 DEF RowsDrawn
<1>5. rows \in Seq(R) /\ Len(rows) = Len(g.rows)
  BY <1>1, <1>4, Listing
<1> HIDE DEF rows
<1> QED  BY <1>5, Relaying DEF rows

Cleared(g, a) == Drawn(g, LAMBDA r, row : ClearRow(row, a))
ClearedDown(g, a) == Drawn(g, LAMBDA r, row : IF r > g.row THEN ClearRow(row, a) ELSE row)
ClearedUp(g, a) == Drawn(g, LAMBDA r, row : IF r < g.row THEN ClearRow(row, a) ELSE row)

LEMMA ClearedAll ==
  ASSUME NEW w \in Nat \ {0}, NEW R \in Shapes(w), NEW h \in Nat \ {0}, NEW b \in Nat,
         NEW g \in GridsOf(R, w, h, b),
         NEW a \in Colours
  PROVE  Cleared(g, a) \in GridsOf(R, w, h, b) /\ Kin(g, Cleared(g, a))
<1> DEFINE new == [r \in 0..h-1 |-> LET row == At(g, r) IN ClearRow(row, a)]
<1>1. Row0(g) \in Nat /\ Len(g.rows) \in Nat /\ Row0(g) = Len(g.rows) - h
  BY HeightIs
<1>2. DOMAIN g.rows = 1..Len(g.rows)
  BY RowsAre
<1>3. ASSUME NEW r \in 0..h-1 PROVE new[r] \in R
  <2>1. At(g, r) \in R
    BY AtRow
  <2> QED  BY <2>1, ClearedRows
<1>4. ASSUME NEW i \in DOMAIN g.rows, ~(i <= Row0(g))
      PROVE  new[i - 1 - Row0(g)] = LET r == i - 1 - Row0(g)  row == g.rows[i] IN ClearRow(row, a)
  <2>1. i - 1 - Row0(g) \in 0..h-1 /\ Row0(g) + (i - 1 - Row0(g)) + 1 = i
    BY <1>1, <1>2, <1>4
  <2> QED  BY <2>1 DEF At
<1> HIDE DEF new
<1>5. Cleared(g, a) = Relaid(g, RowsDrawn(g, new))
  BY <1>4 DEF Cleared, Drawn, Relaid, RowsDrawn
<1> QED  BY <1>3, <1>5, Drawing

LEMMA ClearedBelow ==
  ASSUME NEW w \in Nat \ {0}, NEW R \in Shapes(w), NEW h \in Nat \ {0}, NEW b \in Nat,
         NEW g \in GridsOf(R, w, h, b),
         NEW a \in Colours
  PROVE  ClearedDown(g, a) \in GridsOf(R, w, h, b) /\ Kin(g, ClearedDown(g, a))
<1> DEFINE new == [r \in 0..h-1 |-> LET row == At(g, r) IN IF r > g.row THEN ClearRow(row, a) ELSE row]
<1>1. Row0(g) \in Nat /\ Len(g.rows) \in Nat /\ Row0(g) = Len(g.rows) - h
  BY HeightIs
<1>2. DOMAIN g.rows = 1..Len(g.rows)
  BY RowsAre
<1>3. ASSUME NEW r \in 0..h-1 PROVE new[r] \in R
  <2>1. At(g, r) \in R
    BY AtRow
  <2> QED  BY <2>1, ClearedRows
<1>4. ASSUME NEW i \in DOMAIN g.rows, ~(i <= Row0(g))
      PROVE  new[i - 1 - Row0(g)] = LET r == i - 1 - Row0(g)  row == g.rows[i] IN IF r > g.row THEN ClearRow(row, a) ELSE row
  <2>1. i - 1 - Row0(g) \in 0..h-1 /\ Row0(g) + (i - 1 - Row0(g)) + 1 = i
    BY <1>1, <1>2, <1>4
  <2> QED  BY <2>1 DEF At
<1> HIDE DEF new
<1>5. ClearedDown(g, a) = Relaid(g, RowsDrawn(g, new))
  BY <1>4 DEF ClearedDown, Drawn, Relaid, RowsDrawn
<1> QED  BY <1>3, <1>5, Drawing

LEMMA ClearedAbove ==
  ASSUME NEW w \in Nat \ {0}, NEW R \in Shapes(w), NEW h \in Nat \ {0}, NEW b \in Nat,
         NEW g \in GridsOf(R, w, h, b),
         NEW a \in Colours
  PROVE  ClearedUp(g, a) \in GridsOf(R, w, h, b) /\ Kin(g, ClearedUp(g, a))
<1> DEFINE new == [r \in 0..h-1 |-> LET row == At(g, r) IN IF r < g.row THEN ClearRow(row, a) ELSE row]
<1>1. Row0(g) \in Nat /\ Len(g.rows) \in Nat /\ Row0(g) = Len(g.rows) - h
  BY HeightIs
<1>2. DOMAIN g.rows = 1..Len(g.rows)
  BY RowsAre
<1>3. ASSUME NEW r \in 0..h-1 PROVE new[r] \in R
  <2>1. At(g, r) \in R
    BY AtRow
  <2> QED  BY <2>1, ClearedRows
<1>4. ASSUME NEW i \in DOMAIN g.rows, ~(i <= Row0(g))
      PROVE  new[i - 1 - Row0(g)] = LET r == i - 1 - Row0(g)  row == g.rows[i] IN IF r < g.row THEN ClearRow(row, a) ELSE row
  <2>1. i - 1 - Row0(g) \in 0..h-1 /\ Row0(g) + (i - 1 - Row0(g)) + 1 = i
    BY <1>1, <1>2, <1>4
  <2> QED  BY <2>1 DEF At
<1> HIDE DEF new
<1>5. ClearedUp(g, a) = Relaid(g, RowsDrawn(g, new))
  BY <1>4 DEF ClearedUp, Drawn, Relaid, RowsDrawn
<1> QED  BY <1>3, <1>5, Drawing

-----------------------------------------------------------------------------
(* All but the rows, how many are used, and the view is as it was.           *)
Near(g, x) ==
  /\ x.w = g.w /\ x.h = g.h /\ x.row = g.row /\ x.col = g.col /\ x.srow = g.srow /\ x.scol = g.scol
  /\ x.top = g.top /\ x.bot = g.bot /\ x.origin = g.origin /\ x.sorigin = g.sorigin
  /\ x.back = g.back

LEMMA KinNear == ASSUME NEW g, NEW x, Kin(g, x) PROVE Near(g, x)
BY DEF Kin, Near
LEMMA NearNear == ASSUME NEW g, NEW x, NEW y, Near(g, x), Near(x, y) PROVE Near(g, y)
BY DEF Near
LEMMA NearValid == ASSUME NEW g, NEW x, Near(g, x) PROVE StaysValid(g, x)
BY DEF Near, StaysValid, CursorValid
LEMMA NearSelf == ASSUME NEW g PROVE Near(g, g)
BY DEF Near

LEMMA ErasedAll ==
  ASSUME NEW w \in Nat \ {0}, NEW R \in Shapes(w), NEW h \in Nat \ {0}, NEW b \in Nat,
         NEW g \in GridsOf(R, w, h, b),
         NEW a \in Colours
  PROVE  EraseAll(g, a) \in GridsOf(R, w, h, b) /\ Near(g, EraseAll(g, a))
<1> DEFINE x == Cleared(g, a)
<1>1. x \in GridsOf(R, w, h, b) /\ Kin(g, x)
  BY ClearedAll
<1>2. PICK n \in Nat : n = 0
  OBVIOUS
<1>a. EraseAll(g, a) = [x EXCEPT !.used = 0]
  BY DEF EraseAll, Cleared
<1> HIDE DEF x
<1>3. EraseAll(g, a) = Using(x, n)
  BY <1>2, <1>a DEF Using
<1>4. Using(x, n) \in GridsOf(R, w, h, b) /\ Kin(x, Using(x, n))
  BY <1>1, Usings
<1> QED  BY <1>1, <1>3, <1>4, KinKin, KinNear

LEMMA ErasedBelow ==
  ASSUME NEW w \in Nat \ {0}, NEW R \in Shapes(w), NEW h \in Nat \ {0}, NEW b \in Nat,
         NEW g \in GridsOf(R, w, h, b),
         NEW a \in Colours, g.row < h
  PROVE  EraseBelow(g, a) \in GridsOf(R, w, h, b) /\ Near(g, EraseBelow(g, a))
<1> DEFINE x == ClearedDown(g, a)
           y == EraseForward(x, a)
           n == LesserOf(y.used, g.row + 1)
<1>1. x \in GridsOf(R, w, h, b) /\ Kin(g, x)
  BY ClearedBelow
<1>2. EraseBelow(g, a) = Using(y, n)
  BY DEF EraseBelow, ClearedDown, Using
<1> HIDE DEF x
<1>3. x.row < h
  BY <1>1 DEF Kin
<1>4. y \in GridsOf(R, w, h, b) /\ Kin(x, y)
  BY <1>1, <1>3, ErasedForward
<1> HIDE DEF y
<1>5. y.used \in Nat /\ g.row \in Nat
  BY <1>4, GridIs
<1>6. n \in Nat
  BY <1>5 DEF LesserOf
<1> HIDE DEF n
<1>7. Using(y, n) \in GridsOf(R, w, h, b) /\ Kin(y, Using(y, n))
  BY <1>4, <1>6, Usings
<1> QED  BY <1>1, <1>2, <1>4, <1>7, KinKin, KinNear

LEMMA ErasedAbove ==
  ASSUME NEW w \in Nat \ {0}, NEW R \in Shapes(w), NEW h \in Nat \ {0}, NEW b \in Nat,
         NEW g \in GridsOf(R, w, h, b),
         NEW a \in Colours, g.row < h
  PROVE  EraseAbove(g, a) \in GridsOf(R, w, h, b) /\ Near(g, EraseAbove(g, a))
<1> DEFINE x == ClearedUp(g, a)
<1>1. x \in GridsOf(R, w, h, b) /\ Kin(g, x)
  BY ClearedAbove
<1>2. EraseAbove(g, a) = EraseBackward(x, a)
  BY DEF EraseAbove, ClearedUp
<1> HIDE DEF x
<1>3. x.row < h
  BY <1>1 DEF Kin
<1>4. EraseBackward(x, a) \in GridsOf(R, w, h, b) /\ Kin(x, EraseBackward(x, a))
  BY <1>1, <1>3, ErasedBackward
<1> QED  BY <1>1, <1>2, <1>4, KinKin, KinNear

LEMMA ClearedGrids ==
  ASSUME NEW w \in Nat \ {0}, NEW R \in Shapes(w), NEW h \in Nat \ {0}, NEW b \in Nat,
         NEW g \in GridsOf(R, w, h, b)
  PROVE  ClearGrid(g) \in GridsOf(R, w, h, b) /\ CursorValid(ClearGrid(g))
<1> DEFINE x == Cleared(g, Plain)
           y == [x EXCEPT !.row = 0, !.col = 0, !.srow = 0, !.scol = 0, !.top = 0, !.bot = h - 1,
                          !.used = 0, !.origin = FALSE, !.sorigin = FALSE]
<1>1. x \in GridsOf(R, w, h, b)
  BY ClearedAll, Kinds
<1>a. ClearGrid(g) = [x EXCEPT !.row = 0, !.col = 0, !.srow = 0, !.scol = 0, !.top = 0, !.bot = g.h - 1,
                               !.used = 0, !.origin = FALSE, !.sorigin = FALSE]
  BY DEF ClearGrid, Cleared
<1>b. g.h = h
  BY GridIs
<1> HIDE DEF x
<1>2. ClearGrid(g) = y
  BY <1>a, <1>b
<1>c. h - 1 \in Nat
  OBVIOUS
<1>3. y \in Fields(R, w, h, b)
  BY <1>1, <1>c DEF GridsOf, Fields
<1>4. /\ y.row = 0 /\ y.col = 0 /\ y.h = h /\ y.w = w /\ y.rows = x.rows /\ y.off = x.off
      /\ y.top = 0 /\ y.bot = h - 1
  BY <1>1 DEF GridsOf, Fields
<1> HIDE DEF y
<1>5. Len(x.rows) \in h..(h + b) /\ x.off <= Len(x.rows) - h
  BY <1>1 DEF GridsOf
<1>6. y \in GridsOf(R, w, h, b)
  BY <1>3, <1>4, <1>5 DEF GridsOf
<1> QED  BY <1>2, <1>4, <1>6 DEF CursorValid

LEMMA Entering ==
  ASSUME NEW R, NEW s \in Seq(R), NEW i \in 1..Len(s) + 1, NEW e \in R
  PROVE  /\ InsertAt(s, i, e) \in Seq(R) /\ Len(InsertAt(s, i, e)) = Len(s) + 1
         /\ \A k \in 1..Len(s) + 1 :
              InsertAt(s, i, e)[k] = IF k < i THEN s[k] ELSE IF k = i THEN e ELSE s[k-1]
<1> DEFINE x == SubSeq(s, 1, i - 1)  y == SubSeq(s, i, Len(s))  z == x \o <<e>>
<1>1. /\ x \in Seq(R) /\ Len(x) = i - 1
      /\ \A k \in 1..i-1 : x[k] = s[k]
  OBVIOUS
<1>2. /\ y \in Seq(R) /\ Len(y) = Len(s) - i + 1
      /\ \A k \in 1..Len(s)-i+1 : y[k] = s[k + i - 1]
  OBVIOUS
<1>3. InsertAt(s, i, e) = z \o y
  BY DEF InsertAt
<1> HIDE DEF x, y
<1>4. /\ z \in Seq(R) /\ Len(z) = i
      /\ \A k \in 1..i : z[k] = IF k < i THEN s[k] ELSE e
  BY <1>1
<1> HIDE DEF z
<1>5. z \o y \in Seq(R) /\ Len(z \o y) = Len(s) + 1
  BY <1>2, <1>4
<1>6. ASSUME NEW k \in 1..Len(s)+1
      PROVE  (z \o y)[k] = IF k < i THEN s[k] ELSE IF k = i THEN e ELSE s[k-1]
  <2>1. CASE k <= i
    BY <1>2, <1>4, <2>1
  <2>2. CASE ~(k <= i)
    <3>1. (z \o y)[k] = y[k - i] /\ k - i \in 1..Len(s)-i+1
      BY <1>2, <1>4, <2>2
    <3> QED  BY <1>2, <2>2, <3>1
  <2> QED  BY <2>1, <2>2
<1> QED  BY <1>3, <1>5, <1>6

LEMMA Leaving ==
  ASSUME NEW R, NEW s \in Seq(R), NEW i \in 1..Len(s)
  PROVE  /\ RemoveAt(s, i) \in Seq(R) /\ Len(RemoveAt(s, i)) = Len(s) - 1
         /\ \A k \in 1..Len(s) - 1 : RemoveAt(s, i)[k] = IF k < i THEN s[k] ELSE s[k+1]
<1> DEFINE x == SubSeq(s, 1, i - 1)  y == SubSeq(s, i + 1, Len(s))
<1>1. /\ x \in Seq(R) /\ Len(x) = i - 1
      /\ \A k \in 1..i-1 : x[k] = s[k]
  OBVIOUS
<1>2. /\ y \in Seq(R) /\ Len(y) = Len(s) - i
      /\ \A k \in 1..Len(s)-i : y[k] = s[k + i]
  OBVIOUS
<1>3. RemoveAt(s, i) = x \o y
  BY DEF RemoveAt
<1> HIDE DEF x, y
<1>5. x \o y \in Seq(R) /\ Len(x \o y) = Len(s) - 1
  BY <1>1, <1>2
<1>6. ASSUME NEW k \in 1..Len(s)-1
      PROVE  (x \o y)[k] = IF k < i THEN s[k] ELSE s[k+1]
  <2>1. CASE k < i
    BY <1>1, <1>2, <2>1
  <2>2. CASE ~(k < i)
    <3>1. (x \o y)[k] = y[k - (i - 1)] /\ k - (i - 1) \in 1..Len(s)-i
      BY <1>1, <1>2, <2>2
    <3> QED  BY <1>2, <2>2, <3>1
  <2> QED  BY <2>1, <2>2
<1> QED  BY <1>3, <1>5, <1>6

LEMMA Trimming ==
  ASSUME NEW R, NEW s \in Seq(R), NEW n \in Nat
  PROVE  /\ Trim(s, n) \in Seq(R) /\ Len(Trim(s, n)) = LesserOf(Len(s), n)
         /\ \A k \in 1..LesserOf(Len(s), n) : Trim(s, n)[k] = s[k + Minus(Len(s), n)]
<1> DEFINE d == Minus(Len(s), n)
<1>1. d \in Nat /\ d <= Len(s) /\ Len(s) - d = LesserOf(Len(s), n)
  BY DEF Minus, LesserOf
<1>2. Trim(s, n) = SubSeq(s, d + 1, Len(s))
  BY DEF Trim
<1> HIDE DEF d
<1>3. SubSeq(s, d + 1, Len(s)) \in Seq(R) /\ Len(SubSeq(s, d + 1, Len(s))) = Len(s) - d
  BY <1>1
<1>4. \A k \in 1..(Len(s) - d) : SubSeq(s, d + 1, Len(s))[k] = s[k + d]
  BY <1>1
<1> QED  BY <1>1, <1>2, <1>3, <1>4 DEF d

\* The parts of the three lemmas, one by one.
LEMMA EnteringIn ==
  ASSUME NEW R, NEW s \in Seq(R), NEW i \in 1..Len(s) + 1, NEW e \in R
  PROVE  InsertAt(s, i, e) \in Seq(R) /\ Len(InsertAt(s, i, e)) = Len(s) + 1
BY Entering

LEMMA LeavingIn ==
  ASSUME NEW R, NEW s \in Seq(R), NEW i \in 1..Len(s)
  PROVE  RemoveAt(s, i) \in Seq(R) /\ Len(RemoveAt(s, i)) = Len(s) - 1
BY Leaving

LEMMA TrimmedIn ==
  ASSUME NEW R, NEW s \in Seq(R), NEW n \in Nat
  PROVE  Trim(s, n) \in Seq(R) /\ Len(Trim(s, n)) = LesserOf(Len(s), n)
BY Trimming

LEMMA EnteringAfter ==
  ASSUME NEW R, NEW s \in Seq(R), NEW i \in 1..Len(s) + 1, NEW e \in R, NEW k \in 1..Len(s), k < i
  PROVE  InsertAt(s, i, e)[k] = s[k]
<1>1. \A j \in 1..Len(s) + 1 :
        InsertAt(s, i, e)[j] = IF j < i THEN s[j] ELSE IF j = i THEN e ELSE s[j-1]
  BY Entering
<1>2. k \in 1..Len(s) + 1
  OBVIOUS
<1> QED  BY <1>1, <1>2

LEMMA LeavingAfter ==
  ASSUME NEW R, NEW s \in Seq(R), NEW i \in 1..Len(s), NEW k \in 1..Len(s) - 1, k < i
  PROVE  RemoveAt(s, i)[k] = s[k]
<1>1. \A j \in 1..Len(s) - 1 : RemoveAt(s, i)[j] = IF j < i THEN s[j] ELSE s[j+1]
  BY Leaving
<1> QED  BY <1>1

LEMMA TrimmedAt ==
  ASSUME NEW R, NEW s \in Seq(R), NEW n \in Nat, NEW k \in 1..LesserOf(Len(s), n)
  PROVE  Trim(s, n)[k] = s[k + Minus(Len(s), n)]
<1>1. \A j \in 1..LesserOf(Len(s), n) : Trim(s, n)[j] = s[j + Minus(Len(s), n)]
  BY Trimming
<1> QED  BY <1>1

-----------------------------------------------------------------------------
LEMMA Shifting ==
  ASSUME NEW w \in Nat \ {0}, NEW R \in Shapes(w), NEW h \in Nat \ {0}, NEW b \in Nat,
         NEW g \in GridsOf(R, w, h, b),
         NEW out \in 0..h-1, NEW in \in 0..h-1, NEW new \in R
  PROVE  Shift(g, out, in, new) \in GridsOf(R, w, h, b) /\ Kin(g, Shift(g, out, in, new))
<1> DEFINE o == Row0(g) + out + 1  i == Row0(g) + in + 1
           x == RemoveAt(g.rows, o)  rows == InsertAt(x, i, new)
<1>1. Row0(g) \in Nat /\ Len(g.rows) \in Nat /\ Row0(g) = Len(g.rows) - h
  BY HeightIs
<1>2. g.rows \in Seq(R)
  BY RowsAre
<1>3. o \in 1..Len(g.rows) /\ i \in 1..Len(g.rows)
  BY <1>1
<1>4. Shift(g, out, in, new) = Relaid(g, rows)
  BY DEF Shift, Relaid
<1> HIDE DEF o, i
<1>5. x \in Seq(R) /\ Len(x) = Len(g.rows) - 1
  BY <1>2, <1>3, LeavingIn
<1> HIDE DEF x
<1>6. i \in 1..Len(x) + 1
  BY <1>1, <1>3, <1>5
<1>7. rows \in Seq(R) /\ Len(rows) = Len(x) + 1
  BY <1>5, <1>6, EnteringIn
<1>8. Len(rows) = Len(g.rows)
  BY <1>1, <1>5, <1>7
<1> HIDE DEF rows
<1> QED  BY <1>4, <1>7, <1>8, Relaying

LEMMA Unwrapping ==
  ASSUME NEW w \in Nat \ {0}, NEW R \in Shapes(w), NEW h \in Nat \ {0}, NEW b \in Nat,
         NEW g \in GridsOf(R, w, h, b),
         NEW r \in 0..h-1
  PROVE  EndsLine(g, r) \in GridsOf(R, w, h, b) /\ Kin(g, EndsLine(g, r))
<1> DEFINE new == [At(g, r) EXCEPT !.wrapped = FALSE]
<1>1. At(g, r) \in R
  BY AtRow
<1>2. new \in R
  BY <1>1, Wrapping
<1>3. EndsLine(g, r) = WithRow(g, r, new)
  BY DEF EndsLine, MapRow, WithRow, At
<1> HIDE DEF new
<1> QED  BY <1>2, <1>3, Rewriting

LEMMA ShiftedLine ==
  ASSUME NEW w \in Nat \ {0}, NEW R \in Shapes(w), NEW h \in Nat \ {0}, NEW b \in Nat,
         NEW g \in GridsOf(R, w, h, b),
         NEW in \in 0..h-1
  PROVE  /\ EndsLine(Shift(g, g.bot, in, NewRow(g.w, Plain)), g.bot) \in GridsOf(R, w, h, b)
         /\ Kin(g, EndsLine(Shift(g, g.bot, in, NewRow(g.w, Plain)), g.bot))
<1> DEFINE new == NewRow(g.w, Plain)  x == Shift(g, g.bot, in, new)
<1>1. g.w = w /\ g.bot \in 0..h-1
  BY GridIs
<1>2. new \in R
  BY <1>1, NewRows, Kinds
<1> HIDE DEF new
<1>3. x \in GridsOf(R, w, h, b) /\ Kin(g, x)
  BY <1>1, <1>2, Shifting
<1> HIDE DEF x
<1>4. EndsLine(x, g.bot) \in GridsOf(R, w, h, b) /\ Kin(x, EndsLine(x, g.bot))
  BY <1>1, <1>3, Unwrapping
<1> QED  BY <1>3, <1>4, KinKin DEF x, new

LEMMA InsertedLine ==
  ASSUME NEW w \in Nat \ {0}, NEW R \in Shapes(w), NEW h \in Nat \ {0}, NEW b \in Nat,
         NEW g \in GridsOf(R, w, h, b),
         g.row < h
  PROVE  InsertLine(g) \in GridsOf(R, w, h, b) /\ Kin(g, InsertLine(g))
<1>1. g.row \in 0..h-1
  BY GridIs
<1> QED  BY <1>1, ShiftedLine DEF InsertLine

LEMMA ScrolledLineDown ==
  ASSUME NEW w \in Nat \ {0}, NEW R \in Shapes(w), NEW h \in Nat \ {0}, NEW b \in Nat,
         NEW g \in GridsOf(R, w, h, b)
  PROVE  ScrollLineDown(g) \in GridsOf(R, w, h, b) /\ Kin(g, ScrollLineDown(g))
<1>1. g.top \in 0..h-1
  BY GridIs
<1> QED  BY <1>1, ShiftedLine DEF ScrollLineDown

LEMMA Replacing ==
  ASSUME NEW w \in Nat \ {0}, NEW R \in Shapes(w), NEW h \in Nat \ {0}, NEW b \in Nat,
         NEW g \in GridsOf(R, w, h, b),
         NEW in \in 1..h, NEW out \in 0..h, NEW new \in R
  PROVE  /\ RemoveAt(InsertAt(g.rows, Row0(g) + in + 1, new), Row0(g) + out + 1) \in Seq(R)
         /\ Len(RemoveAt(InsertAt(g.rows, Row0(g) + in + 1, new), Row0(g) + out + 1)) = Len(g.rows)
<1> DEFINE o == Row0(g) + out + 1  i == Row0(g) + in + 1
           x == InsertAt(g.rows, i, new)  rows == RemoveAt(x, o)
<1>1. Row0(g) \in Nat /\ Len(g.rows) \in Nat /\ Row0(g) = Len(g.rows) - h
  BY HeightIs
<1>2. g.rows \in Seq(R)
  BY RowsAre
<1>3. o \in 1..Len(g.rows) + 1 /\ i \in 1..Len(g.rows) + 1
  BY <1>1
<1> HIDE DEF o, i
<1>5. x \in Seq(R) /\ Len(x) = Len(g.rows) + 1
  BY <1>2, <1>3, EnteringIn
<1> HIDE DEF x
<1>6. o \in 1..Len(x)
  BY <1>3, <1>5
<1>7. rows \in Seq(R) /\ Len(rows) = Len(x) - 1
  BY <1>5, <1>6, LeavingIn
<1>8. Len(rows) = Len(g.rows)
  BY <1>1, <1>5, <1>7
<1> QED  BY <1>7, <1>8 DEF rows, x, o, i

LEMMA DeletedLine ==
  ASSUME NEW w \in Nat \ {0}, NEW R \in Shapes(w), NEW h \in Nat \ {0}, NEW b \in Nat,
         NEW g \in GridsOf(R, w, h, b),
         NEW a \in Colours, g.row <= h
  PROVE  DeleteLine(g, a) \in GridsOf(R, w, h, b) /\ Kin(g, DeleteLine(g, a))
<1> DEFINE new == NewRow(g.w, a)
           rows == RemoveAt(InsertAt(g.rows, Row0(g) + (g.bot + 1) + 1, new), Row0(g) + g.row + 1)
<1>1. g.w = w /\ g.bot + 1 \in 1..h /\ g.row \in 0..h /\ g.bot \in Nat
  BY GridIs
<1>2. new \in R
  BY <1>1, NewRows
<1>3. Row0(g) \in Nat
  BY HeightIs
<1>4. Row0(g) + g.bot + 2 = Row0(g) + (g.bot + 1) + 1
  BY <1>1, <1>3
<1>5. DeleteLine(g, a) = Relaid(g, rows)
  BY <1>4 DEF DeleteLine, Relaid
<1> HIDE DEF new
<1>6. rows \in Seq(R) /\ Len(rows) = Len(g.rows)
  BY <1>1, <1>2, Replacing
<1> HIDE DEF rows
<1> QED  BY <1>5, <1>6, Relaying

LEMMA MovingUp ==
  ASSUME NEW w \in Nat \ {0}, NEW R \in Shapes(w), NEW h \in Nat \ {0}, NEW b \in Nat,
         NEW g \in GridsOf(R, w, h, b)
  PROVE  MovedUp(g) \in Seq(R) /\ Len(MovedUp(g)) = Len(g.rows)
<1> DEFINE new == NewRow(g.w, Plain)
           rows == RemoveAt(InsertAt(g.rows, Row0(g) + (g.bot + 1) + 1, new), Row0(g) + g.top + 1)
<1>1. g.w = w /\ g.bot + 1 \in 1..h /\ g.top \in 0..h /\ g.bot \in Nat
  BY GridIs
<1>2. new \in R
  BY <1>1, NewRows, Kinds
<1>3. Row0(g) \in Nat
  BY HeightIs
<1>4. Row0(g) + g.bot + 2 = Row0(g) + (g.bot + 1) + 1
  BY <1>1, <1>3
<1>5. MovedUp(g) = rows
  BY <1>4 DEF MovedUp
<1> HIDE DEF new
<1>6. rows \in Seq(R) /\ Len(rows) = Len(g.rows)
  BY <1>1, <1>2, Replacing
<1> QED  BY <1>5, <1>6

(* What the scrollback is once the top line has gone there.                  *)
Fuller(g) == Trim(InsertAt(MovedUp(g), Row0(g) + 1, g.rows[Row0(g) + g.top + 1]), g.back + g.h)

LEMMA Filling ==
  ASSUME NEW w \in Nat \ {0}, NEW R \in Shapes(w), NEW h \in Nat \ {0}, NEW b \in Nat,
         NEW g \in GridsOf(R, w, h, b)
  PROVE  /\ Fuller(g) \in Seq(R) /\ Len(Fuller(g)) \in h..(h + b)
         /\ Len(Fuller(g)) = LesserOf(Len(g.rows) + 1, b + h)
<1> DEFINE old == g.rows[Row0(g) + g.top + 1]  x == InsertAt(MovedUp(g), Row0(g) + 1, old)
<1>1. /\ Row0(g) \in Nat /\ Len(g.rows) \in Nat /\ Row0(g) = Len(g.rows) - h
      /\ h <= Len(g.rows) /\ Len(g.rows) <= h + b
  BY HeightIs
<1>2. MovedUp(g) \in Seq(R) /\ Len(MovedUp(g)) = Len(g.rows)
  BY MovingUp
<1>3. g.top \in Nat /\ g.top < h /\ g.back = b /\ g.h = h
  BY GridIs
<1>4. old \in R
  BY <1>3, AtRow DEF At
<1> HIDE DEF old
<1>5. Row0(g) + 1 \in 1..Len(MovedUp(g)) + 1
  BY <1>1, <1>2
<1>6. x \in Seq(R) /\ Len(x) = Len(MovedUp(g)) + 1
  <2> DEFINE moved == MovedUp(g)  m == Row0(g) + 1
  <2>1. moved \in Seq(R) /\ m \in 1..Len(moved) + 1 /\ old \in R /\ x = InsertAt(moved, m, old)
    BY <1>2, <1>4, <1>5
  <2> HIDE DEF moved, m, x
  <2>2. InsertAt(moved, m, old) \in Seq(R) /\ Len(InsertAt(moved, m, old)) = Len(moved) + 1
    BY <2>1, EnteringIn
  <2> QED  BY <2>1, <2>2 DEF moved
<1>7. Fuller(g) = Trim(x, g.back + g.h)
  BY DEF Fuller, old
<1> HIDE DEF x
<1>8. g.back + g.h \in Nat /\ g.back + g.h = b + h
  BY <1>3
<1>9. Trim(x, g.back + g.h) \in Seq(R) /\ Len(Trim(x, g.back + g.h)) = LesserOf(Len(x), g.back + g.h)
  BY <1>6, <1>8, TrimmedIn
<1>10. Len(Fuller(g)) = LesserOf(Len(g.rows) + 1, b + h)
  BY <1>2, <1>6, <1>7, <1>8, <1>9
<1> QED  BY <1>1, <1>7, <1>9, <1>10 DEF LesserOf

LEMMA Feeding ==
  ASSUME NEW w \in Nat \ {0}, NEW R \in Shapes(w), NEW h \in Nat \ {0}, NEW b \in Nat,
         NEW g \in GridsOf(R, w, h, b),
         NEW kept \in Seq(R), Len(kept) \in h..(h + b)
  PROVE  /\ Fed(g, kept) \in GridsOf(R, w, h, b) /\ Near(g, Fed(g, kept))
         /\ Fed(g, kept).rows = kept /\ Fed(g, kept).off = ViewAfter(g, kept)
<1> DEFINE off == ViewAfter(g, kept)  x == Fed(g, kept)
<1>1. g.off \in Nat /\ g.h = h
  BY GridIs
<1>2. g.off <= Len(g.rows) - h /\ Len(g.rows) \in Nat
  BY HeightIs
<1>3. off \in Nat /\ off <= Len(kept) - h
  BY <1>1 DEF ViewAfter, LesserOf
<1>4. x = [g EXCEPT !.rows = kept, !.off = off]
  BY DEF Fed
<1> HIDE DEF off
<1>5. x \in Fields(R, w, h, b)
  BY <1>3, <1>4 DEF GridsOf, Fields
<1>6. Near(g, x) /\ x.rows = kept /\ x.off = off
  BY <1>4 DEF GridsOf, Fields, Near
<1> HIDE DEF x
<1>7. g.top <= g.bot /\ g.bot < h
  BY GridIs
<1>8. x \in GridsOf(R, w, h, b)
  BY <1>3, <1>5, <1>6, <1>7 DEF GridsOf, Near
<1> QED  BY <1>6, <1>8 DEF x, off

LEMMA ScrolledLineUp ==
  ASSUME NEW w \in Nat \ {0}, NEW R \in Shapes(w), NEW h \in Nat \ {0}, NEW b \in Nat,
         NEW g \in GridsOf(R, w, h, b)
  PROVE  ScrollLineUp(g) \in GridsOf(R, w, h, b) /\ Near(g, ScrollLineUp(g))
<1>1. CASE g.back = 0 \/ RegionActive(g)
  <2>1. ScrollLineUp(g) = Relaid(g, MovedUp(g))
    BY <1>1 DEF ScrollLineUp, Relaid
  <2>2. MovedUp(g) \in Seq(R) /\ Len(MovedUp(g)) = Len(g.rows)
    BY MovingUp
  <2>3. Relaid(g, MovedUp(g)) \in GridsOf(R, w, h, b) /\ Kin(g, Relaid(g, MovedUp(g)))
    BY <2>2, Relaying
  <2> QED  BY <2>1, <2>3, KinNear
<1>2. CASE ~(g.back = 0 \/ RegionActive(g))
  <2>1. ScrollLineUp(g) = Fed(g, Fuller(g))
    BY <1>2 DEF ScrollLineUp, Fuller
  <2>2. Fuller(g) \in Seq(R) /\ Len(Fuller(g)) \in h..(h + b)
    BY Filling
  <2> QED  BY <2>1, <2>2, Feeding
<1> QED  BY <1>1, <1>2

-----------------------------------------------------------------------------
(* Lines are inserted, deleted and scrolled one by one: the folds keep what one *)
(* line keeps.  The parameters are a record.                                  *)
LinesKept(p, k, x) == x \in GridsOf(p.R, p.w, p.h, p.b) /\ Near(p.g, x)
InsertStep(p, x, k) == InsertLine(x)
DeleteStep(p, x, k) == DeleteLine(x, p.a)
UpStep(p, x, k) == ScrollLineUp(x)
DownStep(p, x, k) == ScrollLineDown(x)

Inserts == INSTANCE Folding WITH Step <- InsertStep, Keeps <- LinesKept
Deletes == INSTANCE Folding WITH Step <- DeleteStep, Keeps <- LinesKept
Rises == INSTANCE Folding WITH Step <- UpStep, Keeps <- LinesKept
Sinks == INSTANCE Folding WITH Step <- DownStep, Keeps <- LinesKept

Count(n) == [k \in 1..n |-> k]

LEMMA InsertedLinesFolded ==
  ASSUME NEW g, NEW n, NEW p
  PROVE  InsertLines(g, n) = Inserts!Folded(p, g, Count(n))
BY DEF InsertLines, Times, Count, InsertStep, Inserts!Folded, FoldLeft, MapThenFoldSet, Inserts!FoldLeft,
       Inserts!MapThenFoldSet, Max, Inserts!Max

LEMMA InsertedLines ==
  ASSUME NEW w \in Nat \ {0}, NEW R \in Shapes(w), NEW h \in Nat \ {0}, NEW b \in Nat,
         NEW g \in GridsOf(R, w, h, b),
         NEW n \in Nat, g.row < h
  PROVE  InsertLines(g, n) \in GridsOf(R, w, h, b) /\ Near(g, InsertLines(g, n))
<1> DEFINE p == [R |-> R, w |-> w, h |-> h, b |-> b, g |-> g, a |-> Plain]
<1>1. p.R = R /\ p.w = w /\ p.h = h /\ p.b = b /\ p.g = g /\ p.a = Plain
  OBVIOUS
<1> HIDE DEF p
<1>2. LinesKept(p, 0, g)
  BY <1>1, NearSelf DEF LinesKept
<1>3. ASSUME NEW k \in 1..n, NEW x, LinesKept(p, k - 1, x)
      PROVE  LinesKept(p, k, InsertStep(p, x, Count(n)[k]))
  <2>1. x \in GridsOf(R, w, h, b) /\ Near(g, x)
    BY <1>1, <1>3 DEF LinesKept
  <2>2. x.row < h
    BY <2>1 DEF Near
  <2>3. InsertLine(x) \in GridsOf(R, w, h, b) /\ Kin(x, InsertLine(x))
    BY <2>1, <2>2, InsertedLine
  <2> QED  BY <1>1, <2>1, <2>3, KinNear, NearNear DEF LinesKept, InsertStep
<1>4. n \in Nat /\ DOMAIN Count(n) = 1..n
  BY DEF Count
<1>5. LinesKept(p, n, Inserts!Folded(p, g, Count(n)))
  BY ONLY <1>2, <1>3, <1>4, Inserts!FoldKeeps
<1>6. InsertLines(g, n) = Inserts!Folded(p, g, Count(n))
  BY InsertedLinesFolded
<1> QED  BY <1>1, <1>5, <1>6 DEF LinesKept

LEMMA DeletedLinesFolded ==
  ASSUME NEW g, NEW n, NEW p, NEW a, p.a = a
  PROVE  DeleteLines(g, n, a) = Deletes!Folded(p, g, Count(LesserOf(n, g.h - g.row)))
BY DEF DeleteLines, Times, Count, DeleteStep, Deletes!Folded, FoldLeft, MapThenFoldSet, Deletes!FoldLeft,
       Deletes!MapThenFoldSet, Max, Deletes!Max

LEMMA DeletedLines ==
  ASSUME NEW w \in Nat \ {0}, NEW R \in Shapes(w), NEW h \in Nat \ {0}, NEW b \in Nat,
         NEW g \in GridsOf(R, w, h, b),
         NEW n \in Nat, NEW a \in Colours, g.row <= h
  PROVE  DeleteLines(g, n, a) \in GridsOf(R, w, h, b) /\ Near(g, DeleteLines(g, n, a))
<1> DEFINE p == [R |-> R, w |-> w, h |-> h, b |-> b, g |-> g, a |-> a]
<1>1. p.R = R /\ p.w = w /\ p.h = h /\ p.b = b /\ p.g = g /\ p.a = a
  OBVIOUS
<1> HIDE DEF p
<1>a. LesserOf(n, g.h - g.row) \in Nat
  BY GridIs DEF LesserOf
<1>2. LinesKept(p, 0, g)
  BY <1>1, NearSelf DEF LinesKept
<1>3. ASSUME NEW k \in 1..LesserOf(n, g.h - g.row), NEW x, LinesKept(p, k - 1, x)
      PROVE  LinesKept(p, k, DeleteStep(p, x, Count(LesserOf(n, g.h - g.row))[k]))
  <2>1. x \in GridsOf(R, w, h, b) /\ Near(g, x)
    BY <1>1, <1>3 DEF LinesKept
  <2>2. x.row <= h
    BY <2>1 DEF Near
  <2>3. DeleteLine(x, a) \in GridsOf(R, w, h, b) /\ Kin(x, DeleteLine(x, a))
    BY <2>1, <2>2, DeletedLine
  <2> QED  BY <1>1, <2>1, <2>3, KinNear, NearNear DEF LinesKept, DeleteStep
<1>4. LesserOf(n, g.h - g.row) \in Nat /\ DOMAIN Count(LesserOf(n, g.h - g.row)) = 1..LesserOf(n, g.h - g.row)
  BY <1>a DEF Count
<1>5. LinesKept(p, LesserOf(n, g.h - g.row), Deletes!Folded(p, g, Count(LesserOf(n, g.h - g.row))))
  BY ONLY <1>2, <1>3, <1>4, Deletes!FoldKeeps
<1>6. DeleteLines(g, n, a) = Deletes!Folded(p, g, Count(LesserOf(n, g.h - g.row)))
  BY <1>1, DeletedLinesFolded
<1> QED  BY <1>1, <1>5, <1>6 DEF LinesKept

LEMMA ScrolledUpFolded ==
  ASSUME NEW g, NEW n, NEW p
  PROVE  ScrollUp(g, n) = Rises!Folded(p, g, Count(LesserOf(n, g.h - g.top)))
BY DEF ScrollUp, Times, Count, UpStep, Rises!Folded, FoldLeft, MapThenFoldSet, Rises!FoldLeft,
       Rises!MapThenFoldSet, Max, Rises!Max

LEMMA ScrolledUp ==
  ASSUME NEW w \in Nat \ {0}, NEW R \in Shapes(w), NEW h \in Nat \ {0}, NEW b \in Nat,
         NEW g \in GridsOf(R, w, h, b),
         NEW n \in Nat
  PROVE  ScrollUp(g, n) \in GridsOf(R, w, h, b) /\ Near(g, ScrollUp(g, n))
<1> DEFINE p == [R |-> R, w |-> w, h |-> h, b |-> b, g |-> g, a |-> Plain]
<1>1. p.R = R /\ p.w = w /\ p.h = h /\ p.b = b /\ p.g = g /\ p.a = Plain
  OBVIOUS
<1> HIDE DEF p
<1>a. LesserOf(n, g.h - g.top) \in Nat
  BY GridIs DEF LesserOf
<1>2. LinesKept(p, 0, g)
  BY <1>1, NearSelf DEF LinesKept
<1>3. ASSUME NEW k \in 1..LesserOf(n, g.h - g.top), NEW x, LinesKept(p, k - 1, x)
      PROVE  LinesKept(p, k, UpStep(p, x, Count(LesserOf(n, g.h - g.top))[k]))
  <2>1. x \in GridsOf(R, w, h, b) /\ Near(g, x)
    BY <1>1, <1>3 DEF LinesKept
  <2>3. ScrollLineUp(x) \in GridsOf(R, w, h, b) /\ Near(x, ScrollLineUp(x))
    BY <2>1, ScrolledLineUp
  <2> QED  BY <1>1, <2>1, <2>3, KinNear, NearNear DEF LinesKept, UpStep
<1>4. LesserOf(n, g.h - g.top) \in Nat /\ DOMAIN Count(LesserOf(n, g.h - g.top)) = 1..LesserOf(n, g.h - g.top)
  BY <1>a DEF Count
<1>5. LinesKept(p, LesserOf(n, g.h - g.top), Rises!Folded(p, g, Count(LesserOf(n, g.h - g.top))))
  BY ONLY <1>2, <1>3, <1>4, Rises!FoldKeeps
<1>6. ScrollUp(g, n) = Rises!Folded(p, g, Count(LesserOf(n, g.h - g.top)))
  BY ScrolledUpFolded
<1> QED  BY <1>1, <1>5, <1>6 DEF LinesKept

LEMMA ScrolledDownFolded ==
  ASSUME NEW g, NEW n, NEW p
  PROVE  ScrollDown(g, n) = Sinks!Folded(p, g, Count(n))
BY DEF ScrollDown, Times, Count, DownStep, Sinks!Folded, FoldLeft, MapThenFoldSet, Sinks!FoldLeft,
       Sinks!MapThenFoldSet, Max, Sinks!Max

LEMMA ScrolledDown ==
  ASSUME NEW w \in Nat \ {0}, NEW R \in Shapes(w), NEW h \in Nat \ {0}, NEW b \in Nat,
         NEW g \in GridsOf(R, w, h, b),
         NEW n \in Nat
  PROVE  ScrollDown(g, n) \in GridsOf(R, w, h, b) /\ Near(g, ScrollDown(g, n))
<1> DEFINE p == [R |-> R, w |-> w, h |-> h, b |-> b, g |-> g, a |-> Plain]
<1>1. p.R = R /\ p.w = w /\ p.h = h /\ p.b = b /\ p.g = g /\ p.a = Plain
  OBVIOUS
<1> HIDE DEF p
<1>2. LinesKept(p, 0, g)
  BY <1>1, NearSelf DEF LinesKept
<1>3. ASSUME NEW k \in 1..n, NEW x, LinesKept(p, k - 1, x)
      PROVE  LinesKept(p, k, DownStep(p, x, Count(n)[k]))
  <2>1. x \in GridsOf(R, w, h, b) /\ Near(g, x)
    BY <1>1, <1>3 DEF LinesKept
  <2>3. ScrollLineDown(x) \in GridsOf(R, w, h, b) /\ Kin(x, ScrollLineDown(x))
    BY <2>1, ScrolledLineDown
  <2> QED  BY <1>1, <2>1, <2>3, KinNear, NearNear DEF LinesKept, DownStep
<1>4. n \in Nat /\ DOMAIN Count(n) = 1..n
  BY DEF Count
<1>5. LinesKept(p, n, Sinks!Folded(p, g, Count(n)))
  BY ONLY <1>2, <1>3, <1>4, Sinks!FoldKeeps
<1>6. ScrollDown(g, n) = Sinks!Folded(p, g, Count(n))
  BY ScrolledDownFolded
<1> QED  BY <1>1, <1>5, <1>6 DEF LinesKept

-----------------------------------------------------------------------------
LEMMA Overruns ==
  ASSUME NEW w \in Nat \ {0}, NEW R \in Shapes(w), NEW h \in Nat \ {0}, NEW b \in Nat,
         NEW g \in GridsOf(R, w, h, b),
         NEW n \in Nat
  PROVE  LinesUp(g, n) \in Nat
<1>1. g.row \in Nat /\ Bottom(g, InRegion(g)) \in 0..h-1
  BY GridIs, Clamping
<1> QED  BY <1>1 DEF LinesUp, Overrun, Minus

LEMMA ScrollingDown ==
  ASSUME NEW w \in Nat \ {0}, NEW R \in Shapes(w), NEW h \in Nat \ {0}, NEW b \in Nat,
         NEW g \in GridsOf(R, w, h, b),
         NEW n \in Nat
  PROVE  /\ DownScroll(g, n) \in GridsOf(R, w, h, b) /\ StaysValid(g, DownScroll(g, n))
         /\ DownScroll(g, n).row < h /\ DownScroll(g, n).col = g.col
<1> DEFINE x == Down(g, n)  y == ScrollUp(x, LinesUp(g, n))
<1>1. x \in GridsOf(R, w, h, b) /\ StaysValid(g, x) /\ x.row < h /\ x.col = g.col
  BY Stepping
<1>2. LinesUp(g, n) \in Nat
  BY Overruns
<1>3. DownScroll(g, n) = y
  BY DEF DownScroll
<1> HIDE DEF x
<1>4. y \in GridsOf(R, w, h, b) /\ Near(x, y)
  BY <1>1, <1>2, ScrolledUp
<1> HIDE DEF y
<1>5. StaysValid(x, y) /\ y.row = x.row /\ y.col = x.col
  BY <1>4, NearValid DEF Near
<1> QED  BY <1>1, <1>3, <1>4, <1>5 DEF StaysValid

LEMMA ScrollingUp ==
  ASSUME NEW w \in Nat \ {0}, NEW R \in Shapes(w), NEW h \in Nat \ {0}, NEW b \in Nat,
         NEW g \in GridsOf(R, w, h, b),
         NEW n \in Nat
  PROVE  UpScroll(g, n) \in GridsOf(R, w, h, b) /\ StaysValid(g, UpScroll(g, n))
<1> DEFINE past == IF InRegion(g) THEN Minus(g.top, Minus(g.row, n)) ELSE 0
           x == Up(g, n)  m == past + Minus(n, g.row)  y == ScrollDown(x, m)
<1>1. x \in GridsOf(R, w, h, b) /\ StaysValid(g, x)
  BY Stepping
<1>2. m \in Nat
  BY GridIs DEF Minus
<1>3. UpScroll(g, n) = y
  BY DEF UpScroll
<1> HIDE DEF x, m
<1>4. y \in GridsOf(R, w, h, b) /\ Near(x, y)
  BY <1>1, <1>2, ScrolledDown
<1> HIDE DEF y
<1>5. StaysValid(x, y)
  BY <1>4, NearValid
<1> QED  BY <1>1, <1>3, <1>4, <1>5 DEF StaysValid

LEMMA Continuing ==
  ASSUME NEW w \in Nat \ {0}, NEW R \in Shapes(w), NEW h \in Nat \ {0}, NEW b \in Nat,
         NEW g \in GridsOf(R, w, h, b),
         NEW r \in Nat, r < h, NEW on \in BOOLEAN
  PROVE  GoesOn(g, r, on) \in GridsOf(R, w, h, b) /\ Kin(g, GoesOn(g, r, on))
<1> DEFINE onto == on /\ r + 1 = g.row
           new == [At(g, r) EXCEPT !.wrapped = onto]
<1>1. At(g, r) \in R
  BY AtRow
<1>2. onto \in BOOLEAN
  OBVIOUS
<1>3. GoesOn(g, r, on) = WithRow(g, r, new)
  BY DEF GoesOn, MapRow, WithRow, At
<1> HIDE DEF onto
<1>4. new \in R
  BY <1>1, <1>2, Wrapping
<1> HIDE DEF new
<1> QED  BY <1>3, <1>4, Rewriting

LEMMA WrappingOn ==
  ASSUME NEW w \in Nat \ {0}, NEW R \in Shapes(w), NEW h \in Nat \ {0}, NEW b \in Nat,
         NEW g \in GridsOf(R, w, h, b),
         NEW width \in Nat, NEW on \in BOOLEAN,
         PastEnd(g, width) => g.row < h /\ LinesUp(g, 1) <= g.row
  PROVE  /\ WrapCursor(g, width, on) \in GridsOf(R, w, h, b)
         /\ ~PastEnd(g, width) => WrapCursor(g, width, on) = g
         /\ PastEnd(g, width) => WrapCursor(g, width, on).row < h /\ WrapCursor(g, width, on).col = 0
<1>1. CASE ~PastEnd(g, width)
  BY <1>1 DEF WrapCursor
<1>2. CASE PastEnd(g, width)
  <2> DEFINE x == Coled(g, 0)  y == DownScroll(x, 1)  r == g.row - LinesUp(g, 1)
  <2>1. WrapCursor(g, width, on) = GoesOn(y, r, on)
    BY <1>2 DEF WrapCursor, Coled
  <2>2. PICK n \in Nat : n = 0
    OBVIOUS
  <2>3. Coled(g, n) \in GridsOf(R, w, h, b) /\ Coled(g, n).col = n
    BY Placing
  <2>4. x \in GridsOf(R, w, h, b) /\ x.col = 0
    BY <2>2, <2>3
  <2> HIDE DEF x
  <2>5. PICK m \in Nat : m = 1
    OBVIOUS
  <2>6. DownScroll(x, m) \in GridsOf(R, w, h, b) /\ DownScroll(x, m).row < h /\ DownScroll(x, m).col = x.col
    BY <2>4, ScrollingDown
  <2>7. y \in GridsOf(R, w, h, b) /\ y.row < h /\ y.col = 0
    BY <2>4, <2>5, <2>6
  <2> HIDE DEF y
  <2>8. LinesUp(g, m) \in Nat
    BY Overruns
  <2>9. g.row \in Nat
    BY GridIs
  <2>10. r \in Nat /\ r < h
    BY <1>2, <2>5, <2>8, <2>9
  <2> HIDE DEF r
  <2>11. GoesOn(y, r, on) \in GridsOf(R, w, h, b) /\ Kin(y, GoesOn(y, r, on))
    BY <2>7, <2>10, Continuing
  <2> QED  BY <1>2, <2>1, <2>7, <2>11 DEF Kin
<1> QED  BY <1>1, <1>2

-----------------------------------------------------------------------------
(* x is g but for one row, and for how many are used.                        *)
Edited(w, h, b, g, r, x, new) ==
  /\ x \in GridsOf(AnyRows(w), w, h, b) /\ Kin(g, x) /\ At(x, r) = new
  /\ \A k \in 1..Len(g.rows) : k # Row0(g) + r + 1 => x.rows[k] = g.rows[k]

LEMMA Widening ==
  ASSUME NEW w \in Nat \ {0}, NEW R \in Shapes(w), NEW h \in Nat \ {0}, NEW b \in Nat,
         NEW g \in GridsOf(R, w, h, b)
  PROVE  g \in GridsOf(AnyRows(w), w, h, b)
<1>1. R \subseteq AnyRows(w)
  BY ShapesAre
<1>2. g.rows \in Seq(AnyRows(w))
  <2>1. g.rows \in Seq(R)
    BY RowsAre
  <2> QED  BY <1>1, <2>1
<1> QED  BY <1>2 DEF GridsOf, Fields

LEMMA EditedSelf ==
  ASSUME NEW w \in Nat \ {0}, NEW h \in Nat \ {0}, NEW b \in Nat,
         NEW g \in GridsOf(AnyRows(w), w, h, b),
         NEW r
  PROVE  Edited(w, h, b, g, r, g, At(g, r))
BY DEF Edited, Kin

LEMMA EditedThen ==
  ASSUME NEW w, NEW h, NEW b, NEW g, NEW r, NEW x, NEW y, NEW m, NEW n,
         Edited(w, h, b, g, r, x, m), Edited(w, h, b, x, r, y, n)
  PROVE  Edited(w, h, b, g, r, y, n)
<1>1. Kin(g, x) /\ Kin(x, y) /\ Row0(x) = Row0(g)
  BY KinValid DEF Edited
<1>2. Kin(g, y) /\ Len(x.rows) = Len(g.rows)
  BY <1>1, KinKin DEF Kin
<1> QED  BY <1>1, <1>2 DEF Edited

LEMMA EditedIn ==
  ASSUME NEW w \in Nat \ {0}, NEW R \in Shapes(w), NEW h \in Nat \ {0}, NEW b \in Nat,
         NEW g \in GridsOf(R, w, h, b),
         NEW r \in Nat, r < h, NEW new \in R, NEW x, Edited(w, h, b, g, r, x, new)
  PROVE  x \in GridsOf(R, w, h, b) /\ Kin(g, x)
<1>1. x \in GridsOf(AnyRows(w), w, h, b) /\ Kin(g, x) /\ Row0(x) = Row0(g) /\ Len(x.rows) = Len(g.rows)
  BY KinValid DEF Edited, Kin
<1>2. g.rows \in Seq(R) /\ DOMAIN g.rows = 1..Len(g.rows)
  BY RowsAre
<1>3. x.rows \in Seq(AnyRows(w)) /\ DOMAIN x.rows = 1..Len(x.rows)
  BY <1>1, RowsAre
<1>4. Len(g.rows) \in Nat
  BY HeightIs
<1>5. ASSUME NEW k \in 1..Len(g.rows) PROVE x.rows[k] \in R
  <2>1. CASE k = Row0(g) + r + 1
    BY <1>1, <2>1 DEF Edited, At
  <2>2. CASE k # Row0(g) + r + 1
    BY <1>2, <2>2 DEF Edited
  <2> QED  BY <2>1, <2>2
<1>6. x.rows \in [1..Len(g.rows) -> R]
  BY <1>1, <1>3, <1>5
<1>7. x.rows \in Seq(R)
  BY <1>4, <1>6, Listing
<1>8. x \in Fields(R, w, h, b)
  BY <1>1, <1>7 DEF GridsOf, Fields
<1> QED  BY <1>1, <1>8 DEF GridsOf

(* A cell of the row is written.                                             *)
Painted(g, r, c, cell) ==
  [WithRow(g, r, PutIn(At(g, r), c, cell)) EXCEPT !.used = GreaterOf(@, r + 1)]

LEMMA Painting ==
  ASSUME NEW w \in Nat \ {0}, NEW h \in Nat \ {0}, NEW b \in Nat,
         NEW g \in GridsOf(AnyRows(w), w, h, b),
         NEW r \in Nat, r < h, NEW c \in Nat, NEW cell \in Cells
  PROVE  Edited(w, h, b, g, r, Painted(g, r, c, cell), PutIn(At(g, r), c, cell))
<1> DEFINE new == PutIn(At(g, r), c, cell)  x == WithRow(g, r, new)  n == GreaterOf(x.used, r + 1)
<1>1. At(g, r) \in AnyRows(w)
  BY AtRow
<1>2. new \in AnyRows(w)
  BY <1>1, Putting
<1>3. Painted(g, r, c, cell) = Using(x, n)
  BY DEF Painted, Using
<1> HIDE DEF new
<1>4. x \in GridsOf(AnyRows(w), w, h, b) /\ Kin(g, x) /\ OnlyRow(g, r, new, x)
  BY <1>2, Changing
<1> HIDE DEF x
<1>5. At(x, r) = new
  BY <1>4, OnlyRowAt
<1>6. \A k \in 1..Len(g.rows) : k # Row0(g) + r + 1 => x.rows[k] = g.rows[k]
  BY <1>4 DEF OnlyRow
<1>7. n \in Nat
  BY <1>4, GridIs DEF GreaterOf
<1> HIDE DEF n
<1>8. Using(x, n) \in GridsOf(AnyRows(w), w, h, b) /\ Kin(x, Using(x, n)) /\ Using(x, n).rows = x.rows
  BY <1>4, <1>7, Usings
<1>9. Kin(g, Using(x, n)) /\ At(Using(x, n), r) = At(x, r)
  BY <1>4, <1>8, KinKin, KinValid DEF At
<1> QED  BY <1>3, <1>5, <1>6, <1>8, <1>9 DEF Edited, new

LEMMA PutBlank == ASSUME NEW g, NEW r, NEW c, NEW a
  PROVE PutCell(g, r, c, LAMBDA x : Blank(a)) = Painted(g, r, c, Blank(a))
BY DEF PutCell, MapRow, Painted, WithRow, PutIn, At
LEMMA PutGlyph == ASSUME NEW g, NEW r, NEW c, NEW a, NEW char
  PROVE PutCell(g, r, c, LAMBDA x : Glyph(char, a)) = Painted(g, r, c, Glyph(char, a))
BY DEF PutCell, MapRow, Painted, WithRow, PutIn, At
LEMMA PutMark == ASSUME NEW g, NEW r, NEW c, NEW char
  PROVE PutCell(g, r, c, LAMBDA x : Append1(x, char)) = Painted(g, r, c, Append1(CellAt(g, r, c), char))
BY DEF PutCell, MapRow, Painted, WithRow, PutIn, At, CellAt

-----------------------------------------------------------------------------
(* The columns lo..hi are written anew, the wide ones they cut are blanked.   *)
Patched(w, old, new, lo, hi) ==
  /\ \A j \in lo..hi : IsWide(new.cells[j]) => j < hi /\ new.cells[j+1].text = <<>>
  /\ \A j \in 0..w-1 : j \notin lo..hi =>
       \/ new.cells[j] = old.cells[j] \/ new.cells[j].text = <<>>
       \/ j = hi + 1 /\ ~IsWide(new.cells[j])
  /\ lo > 0 => ~IsWide(new.cells[lo-1])

LEMMA Overwriting ==
  ASSUME NEW w \in Nat \ {0}, NEW R \in Shapes(w), NEW old \in R, NEW new \in AnyRows(w),
         NEW lo \in Nat, NEW hi \in Nat, lo <= hi, hi < w,
         Patched(w, old, new, lo, hi)
  PROVE  new \in R
<1>0. /\ \A j \in lo..hi : IsWide(new.cells[j]) => j < hi /\ new.cells[j+1].text = <<>>
      /\ \A j \in 0..w-1 : j \notin lo..hi =>
           \/ new.cells[j] = old.cells[j] \/ new.cells[j].text = <<>>
           \/ j = hi + 1 /\ ~IsWide(new.cells[j])
      /\ lo > 0 => ~IsWide(new.cells[lo-1])
  BY DEF Patched
<1>1. \A j \in 0..w-1 : new.cells[j] \in Cells
  BY Columns
<1>2. \A j \in 0..w-1 : new.cells[j].text = <<>> => ~IsWide(new.cells[j])
  BY <1>1, Empties
<1>3. R \subseteq FitRows(w)
  BY ShapesAre
<1>4. \A j \in 0..w-1 : IsWide(old.cells[j]) => j + 1 < w
  BY <1>3 DEF FitRows
<1>5. ASSUME NEW j \in 0..w-1, IsWide(new.cells[j]) PROVE j + 1 < w
  <2>1. CASE j \in lo..hi
    BY <1>0, <1>5, <2>1
  <2>2. CASE j \notin lo..hi
    BY <1>0, <1>2, <1>4, <1>5, <2>2
  <2> QED  BY <2>1, <2>2
<1>6. new \in FitRows(w)
  BY <1>5 DEF FitRows
<1>7. ASSUME R = WholeRows(w) PROVE new \in WholeRows(w)
  <2>1. \A j \in 0..w-2 : IsWide(old.cells[j]) => old.cells[j+1].text = <<>>
    BY <1>7 DEF WholeRows
  <2>2. ASSUME NEW j \in 0..w-2, IsWide(new.cells[j]) PROVE new.cells[j+1].text = <<>>
    <3>1. CASE j \in lo..hi
      BY <1>0, <2>2, <3>1
    <3>2. CASE j \notin lo..hi
      <4>1. new.cells[j] = old.cells[j] /\ j \in 0..w-1 /\ j + 1 \in 0..w-1
        BY <1>0, <1>2, <2>2, <3>2
      <4>2. old.cells[j+1].text = <<>>
        BY <2>1, <2>2, <4>1
      <4>3. j + 1 \notin lo..hi /\ j + 1 # hi + 1
        BY <1>0, <2>2, <3>2
      <4> QED  BY <1>0, <4>1, <4>2, <4>3
    <3> QED  BY <3>1, <3>2
  <2> QED  BY <1>6, <2>2 DEF WholeRows
<1> QED  BY <1>6, <1>7 DEF Shapes

RowCutBefore(row, col, a) == IF Continues(row, col) THEN PutIn(row, col - 1, Blank(a)) ELSE row
RowCutAfter(row, col, a) == IF IsWide(row.cells[col]) THEN PutIn(row, col + 1, Glyph(Space, a)) ELSE row
RowCutSecond(row, c, a, w) ==
  IF IsWide(row.cells[c])
    THEN [PutIn(row, c + 1, Blank(a)) EXCEPT !.wrapped = PutIn(row, c + 1, Blank(a)).wrapped /\ c + 1 # w - 1]
    ELSE row

LEMMA Spaces ==
  ASSUME NEW a \in Colours
  PROVE  Glyph(Space, a) \in Cells /\ ~IsWide(Glyph(Space, a))
<1>1. Space \in Chars /\ Space \notin Wide
  BY Kinds
<1> QED  BY <1>1, Glyphs

LEMMA RowBefore ==
  ASSUME NEW w \in Nat \ {0}, NEW row \in AnyRows(w), NEW col \in Nat, NEW a \in Colours
  PROVE  /\ RowCutBefore(row, col, a) \in AnyRows(w)
         /\ \A j \in 0..w-1 : RowCutBefore(row, col, a).cells[j] =
              IF j = col - 1 /\ IsWide(row.cells[j]) THEN Blank(a) ELSE row.cells[j]
<1>1. DOMAIN row.cells = 0..w-1
  BY Columns
<1>2. CASE Continues(row, col)
  <2>1. col - 1 \in Nat /\ IsWide(row.cells[col-1])
    BY <1>2 DEF Continues
  <2>2. Blank(a) \in Cells
    BY Blanks
  <2>3. /\ PutIn(row, col - 1, Blank(a)) \in AnyRows(w)
        /\ \A j \in 0..w-1 : PutIn(row, col - 1, Blank(a)).cells[j] = IF j = col - 1 THEN Blank(a) ELSE row.cells[j]
    BY <2>1, <2>2, Putting
  <2> QED  BY <1>2, <2>1, <2>3 DEF RowCutBefore
<1>3. CASE ~Continues(row, col)
  <2>1. \A j \in 0..w-1 : j = col - 1 => ~IsWide(row.cells[j])
    BY <1>1, <1>3 DEF Continues
  <2> QED  BY <1>3, <2>1 DEF RowCutBefore
<1> QED  BY <1>2, <1>3

LEMMA RowAfter ==
  ASSUME NEW w \in Nat \ {0}, NEW row \in AnyRows(w), NEW col \in 0..w-1, NEW a \in Colours
  PROVE  /\ RowCutAfter(row, col, a) \in AnyRows(w)
         /\ \A j \in 0..w-1 : RowCutAfter(row, col, a).cells[j] =
              IF j = col + 1 /\ IsWide(row.cells[col]) THEN Glyph(Space, a) ELSE row.cells[j]
<1>1. Glyph(Space, a) \in Cells /\ col + 1 \in Nat
  BY Spaces
<1>2. /\ PutIn(row, col + 1, Glyph(Space, a)) \in AnyRows(w)
      /\ \A j \in 0..w-1 : PutIn(row, col + 1, Glyph(Space, a)).cells[j] =
           IF j = col + 1 THEN Glyph(Space, a) ELSE row.cells[j]
  BY <1>1, Putting
<1> QED  BY <1>2 DEF RowCutAfter

LEMMA RowSecond ==
  ASSUME NEW w \in Nat \ {0}, NEW row \in AnyRows(w), NEW c \in 0..w-1, NEW a \in Colours
  PROVE  /\ RowCutSecond(row, c, a, w) \in AnyRows(w)
         /\ \A j \in 0..w-1 : RowCutSecond(row, c, a, w).cells[j] =
              IF j = c + 1 /\ IsWide(row.cells[c]) THEN Blank(a) ELSE row.cells[j]
<1> DEFINE x == PutIn(row, c + 1, Blank(a))  on == x.wrapped /\ c + 1 # w - 1  y == [x EXCEPT !.wrapped = on]
<1>1. Blank(a) \in Cells /\ c + 1 \in Nat
  BY Blanks
<1>2. /\ x \in AnyRows(w)
      /\ \A j \in 0..w-1 : x.cells[j] = IF j = c + 1 THEN Blank(a) ELSE row.cells[j]
  BY <1>1, Putting
<1>3. on \in BOOLEAN
  OBVIOUS
<1>4. RowCutSecond(row, c, a, w) = IF IsWide(row.cells[c]) THEN y ELSE row
  BY DEF RowCutSecond
<1> HIDE DEF x, on
<1>5. y \in AnyRows(w) /\ y.cells = x.cells
  BY <1>2, <1>3 DEF AnyRows
<1> HIDE DEF y
<1> QED  BY <1>2, <1>4, <1>5

LEMMA CuttingBefore ==
  ASSUME NEW w \in Nat \ {0}, NEW h \in Nat \ {0}, NEW b \in Nat,
         NEW g \in GridsOf(AnyRows(w), w, h, b),
         NEW a \in Colours, NEW col \in Nat, g.row < h
  PROVE  Edited(w, h, b, g, g.row, CutBefore(g, col, a), RowCutBefore(At(g, g.row), col, a))
<1>1. g.row \in Nat
  BY GridIs
<1>2. CASE Continues(At(g, g.row), col)
  <2>1. col - 1 \in Nat
    BY <1>2 DEF Continues
  <2>2. CutBefore(g, col, a) = Painted(g, g.row, col - 1, Blank(a))
    BY <1>2, PutBlank DEF CutBefore, ContinuesAt
  <2>3. RowCutBefore(At(g, g.row), col, a) = PutIn(At(g, g.row), col - 1, Blank(a))
    BY <1>2 DEF RowCutBefore
  <2>4. Blank(a) \in Cells
    BY Blanks
  <2> QED  BY <1>1, <2>1, <2>2, <2>3, <2>4, Painting
<1>3. CASE ~Continues(At(g, g.row), col)
  BY <1>3, EditedSelf DEF CutBefore, ContinuesAt, RowCutBefore
<1> QED  BY <1>2, <1>3

LEMMA CuttingAfter ==
  ASSUME NEW w \in Nat \ {0}, NEW h \in Nat \ {0}, NEW b \in Nat,
         NEW g \in GridsOf(AnyRows(w), w, h, b),
         NEW a \in Colours, NEW col \in Nat, g.row < h
  PROVE  Edited(w, h, b, g, g.row, CutAfter(g, col, a), RowCutAfter(At(g, g.row), col, a))
<1>1. g.row \in Nat /\ g.h = h /\ col + 1 \in Nat
  BY GridIs
<1>2. CASE IsWide(At(g, g.row).cells[col])
  <2>2. CutAfter(g, col, a) = Painted(g, g.row, col + 1, Glyph(Space, a))
    BY <1>1, <1>2, PutGlyph DEF CutAfter, CellAt
  <2>3. RowCutAfter(At(g, g.row), col, a) = PutIn(At(g, g.row), col + 1, Glyph(Space, a))
    BY <1>2 DEF RowCutAfter
  <2>4. Glyph(Space, a) \in Cells
    BY Spaces
  <2> QED  BY <1>1, <2>2, <2>3, <2>4, Painting
<1>3. CASE ~IsWide(At(g, g.row).cells[col])
  BY <1>3, EditedSelf DEF CutAfter, CellAt, RowCutAfter
<1> QED  BY <1>2, <1>3

Parted(g, r, on) == MapRow(g, r, LAMBDA z : [z EXCEPT !.wrapped = @ /\ on])
LEMMA PartedIs == ASSUME NEW g, NEW r, NEW on
  PROVE Parted(g, r, on) = WithRow(g, r, [At(g, r) EXCEPT !.wrapped = @ /\ on])
BY DEF Parted, MapRow, WithRow, At

LEMMA CuttingSecond ==
  ASSUME NEW w \in Nat \ {0}, NEW h \in Nat \ {0}, NEW b \in Nat,
         NEW g \in GridsOf(AnyRows(w), w, h, b),
         NEW a \in Colours, NEW r \in Nat, r < h, NEW c \in Nat
  PROVE  Edited(w, h, b, g, r, CutSecond(g, r, c, a), RowCutSecond(At(g, r), c, a, w))
<1>1. g.w = w
  BY GridIs
<1>2. CASE IsWide(At(g, r).cells[c])
  <2> DEFINE row == PutIn(At(g, r), c + 1, Blank(a))  on == row.wrapped /\ c + 1 # w - 1
             x == Painted(g, r, c + 1, Blank(a))  new == [row EXCEPT !.wrapped = on]  y == WithRow(x, r, new)
  <2>1. Blank(a) \in Cells /\ c + 1 \in Nat
    BY Blanks
  <2>2. Edited(w, h, b, g, r, x, row)
    BY <2>1, Painting
  <2>3. At(g, r) \in AnyRows(w)
    BY AtRow
  <2>4. row \in AnyRows(w)
    BY <2>1, <2>3, Putting
  <2>a. CutSecond(g, r, c, a) = Parted(PutCell(g, r, c + 1, LAMBDA z : Blank(a)), r, c + 1 # g.w - 1)
    BY <1>2 DEF CutSecond, CellAt, Parted
  <2>5. CutSecond(g, r, c, a) = WithRow(x, r, [At(x, r) EXCEPT !.wrapped = @ /\ c + 1 # g.w - 1])
    BY <2>a, PutBlank, PartedIs
  <2>6. RowCutSecond(At(g, r), c, a, w) = new
    BY <1>2 DEF RowCutSecond
  <2>7. on \in BOOLEAN
    OBVIOUS
  <2> HIDE DEF x, row
  <2>8. x \in GridsOf(AnyRows(w), w, h, b) /\ At(x, r) = row
    BY <2>2 DEF Edited
  <2>9. CutSecond(g, r, c, a) = y
    BY <1>1, <2>5, <2>8
  <2> HIDE DEF on
  <2>10. new \in AnyRows(w)
    BY <2>4, <2>7 DEF AnyRows
  <2> HIDE DEF new
  <2>11. y \in GridsOf(AnyRows(w), w, h, b) /\ Kin(x, y) /\ OnlyRow(x, r, new, y)
    BY <2>8, <2>10, Changing
  <2> HIDE DEF y
  <2>12. At(y, r) = new
    BY <2>8, <2>11, OnlyRowAt
  <2>13. Edited(w, h, b, x, r, y, new)
    BY <2>11, <2>12 DEF Edited, OnlyRow
  <2> QED  BY <2>2, <2>6, <2>9, <2>13, EditedThen
<1>3. CASE ~IsWide(At(g, r).cells[c])
  BY <1>3, EditedSelf DEF CutSecond, CellAt, RowCutSecond
<1> QED  BY <1>2, <1>3

-----------------------------------------------------------------------------
(* What a character of one column, and one of two, makes of a row.           *)
RowNarrow(row, col, c, a) ==
  PutIn(RowCutAfter(RowCutBefore(row, col, a), col, a), col, Glyph(c, a))
RowWide(row, col, c, a, w) ==
  PutIn(RowCutSecond(RowNarrow(row, col, c, a), col + 1, a, w), col + 1, Blank(Plain))

LEMMA NarrowCells ==
  ASSUME NEW w \in Nat \ {0}, NEW row \in AnyRows(w), NEW col \in 0..w-1, NEW c \in Chars, NEW a \in Colours
  PROVE  /\ RowNarrow(row, col, c, a) \in AnyRows(w)
         /\ RowNarrow(row, col, c, a).cells[col] = Glyph(c, a)
         /\ \A j \in 0..w-1 : j # col =>
              \/ RowNarrow(row, col, c, a).cells[j] = row.cells[j] /\ ~(j = col - 1 /\ IsWide(row.cells[j]))
              \/ RowNarrow(row, col, c, a).cells[j].text = <<>>
              \/ j = col + 1 /\ ~IsWide(RowNarrow(row, col, c, a).cells[j])
<1> DEFINE r1 == RowCutBefore(row, col, a)  r2 == RowCutAfter(r1, col, a)  new == PutIn(r2, col, Glyph(c, a))
<1>1. /\ r1 \in AnyRows(w)
      /\ \A j \in 0..w-1 : r1.cells[j] = IF j = col - 1 /\ IsWide(row.cells[j]) THEN Blank(a) ELSE row.cells[j]
  <2>1. col \in Nat
    OBVIOUS
  <2> QED  BY <2>1, RowBefore
<1> HIDE DEF r1
<1>2. /\ r2 \in AnyRows(w)
      /\ \A j \in 0..w-1 : r2.cells[j] = IF j = col + 1 /\ IsWide(r1.cells[col]) THEN Glyph(Space, a) ELSE r1.cells[j]
  BY <1>1, RowAfter
<1> HIDE DEF r2
<1>3. Glyph(c, a) \in Cells
  BY Glyphs
<1>4. /\ new \in AnyRows(w)
      /\ \A j \in 0..w-1 : new.cells[j] = IF j = col THEN Glyph(c, a) ELSE r2.cells[j]
  BY <1>2, <1>3, Putting
<1>5. RowNarrow(row, col, c, a) = new
  BY DEF RowNarrow, r1, r2
<1> HIDE DEF new
<1>6. Blank(a).text = <<>> /\ ~IsWide(Glyph(Space, a))
  BY Blanks, Spaces
<1> QED  BY <1>1, <1>2, <1>4, <1>5, <1>6

LEMMA WritesNarrow ==
  ASSUME NEW w \in Nat \ {0}, NEW R \in Shapes(w), NEW row \in R, NEW col \in 0..w-1, NEW c \in Chars \ Wide,
         NEW a \in Colours
  PROVE  RowNarrow(row, col, c, a) \in R
<1> DEFINE new == RowNarrow(row, col, c, a)
<1>1. row \in AnyRows(w)
  BY ShapesAre
<1>2. /\ new \in AnyRows(w) /\ new.cells[col] = Glyph(c, a)
      /\ \A j \in 0..w-1 : j # col =>
              \/ new.cells[j] = row.cells[j] /\ ~(j = col - 1 /\ IsWide(row.cells[j]))
              \/ new.cells[j].text = <<>>
              \/ j = col + 1 /\ ~IsWide(new.cells[j])
  BY <1>1, NarrowCells
<1> HIDE DEF new
<1>3. ~IsWide(Glyph(c, a))
  BY Glyphs
<1>4. \A j \in 0..w-1 : new.cells[j].text = <<>> => ~IsWide(new.cells[j])
  BY <1>2, Columns, Empties
<1>5. col > 0 => ~IsWide(new.cells[col-1])
  BY <1>2, <1>4
<1>6. \A j \in 0..w-1 : j \notin col..col =>
           \/ new.cells[j] = row.cells[j] \/ new.cells[j].text = <<>>
           \/ j = col + 1 /\ ~IsWide(new.cells[j])
  BY <1>2
<1>7. \A j \in col..col : IsWide(new.cells[j]) => j < col /\ new.cells[j+1].text = <<>>
  BY <1>2, <1>3
<1>8. col \in Nat /\ col <= col /\ col < w
  OBVIOUS
<1>p. Patched(w, row, new, col, col)
  BY <1>5, <1>6, <1>7 DEF Patched
<1>9. new \in R
  BY <1>2, <1>8, <1>p, Overwriting
<1> QED  BY <1>9 DEF new

LEMMA WritesWide ==
  ASSUME NEW w \in Nat \ {0}, NEW R \in Shapes(w), NEW row \in R, NEW col \in Nat, col + 1 < w, NEW c \in Wide,
         NEW a \in Colours
  PROVE  RowWide(row, col, c, a, w) \in R
<1> DEFINE r3 == RowNarrow(row, col, c, a)  r4 == RowCutSecond(r3, col + 1, a, w)  new == PutIn(r4, col + 1, Blank(Plain))
<1>1. row \in AnyRows(w) /\ col \in 0..w-1 /\ col + 1 \in 0..w-1 /\ c \in Chars /\ col + 1 \in Nat
  BY ShapesAre DEF Chars
<1>2. /\ r3 \in AnyRows(w) /\ r3.cells[col] = Glyph(c, a)
      /\ \A j \in 0..w-1 : j # col =>
              \/ r3.cells[j] = row.cells[j] /\ ~(j = col - 1 /\ IsWide(row.cells[j]))
              \/ r3.cells[j].text = <<>>
              \/ j = col + 1 /\ ~IsWide(r3.cells[j])
  BY <1>1, NarrowCells
<1> HIDE DEF r3
<1>3. /\ r4 \in AnyRows(w)
      /\ \A j \in 0..w-1 : r4.cells[j] = IF j = col + 1 + 1 /\ IsWide(r3.cells[col+1]) THEN Blank(a) ELSE r3.cells[j]
  BY <1>1, <1>2, RowSecond
<1> HIDE DEF r4
<1>4. Blank(Plain) \in Cells /\ Blank(Plain).text = <<>> /\ Blank(a).text = <<>>
  BY Blanks, Kinds
<1>5. /\ new \in AnyRows(w)
      /\ \A j \in 0..w-1 : new.cells[j] = IF j = col + 1 THEN Blank(Plain) ELSE r4.cells[j]
  BY <1>1, <1>3, <1>4, Putting
<1>6. RowWide(row, col, c, a, w) = new
  BY DEF RowWide, r3, r4
<1> HIDE DEF new
<1>7. new.cells[col+1].text = <<>> /\ new.cells[col] = Glyph(c, a)
  BY <1>1, <1>2, <1>3, <1>4, <1>5
<1>8. ASSUME NEW j \in 0..w-1, j \notin col..col+1
      PROVE  \/ new.cells[j] = row.cells[j] /\ ~(j = col - 1 /\ IsWide(row.cells[j]))
             \/ new.cells[j].text = <<>>
  <2>1. j # col /\ j # col + 1
    BY <1>1, <1>8
  <2>2. new.cells[j] = r4.cells[j]
    BY <1>5, <2>1
  <2>3. \/ r3.cells[j] = row.cells[j] /\ ~(j = col - 1 /\ IsWide(row.cells[j]))
        \/ r3.cells[j].text = <<>>
    BY <1>2, <2>1
  <2> QED  BY <1>3, <1>4, <2>2, <2>3
<1>9. \A j \in 0..w-1 : new.cells[j].text = <<>> => ~IsWide(new.cells[j])
  BY <1>5, Columns, Empties
<1>10. col > 0 => ~IsWide(new.cells[col-1])
  <2> SUFFICES ASSUME col > 0 PROVE ~IsWide(new.cells[col-1])
    OBVIOUS
  <2>1. col - 1 \in 0..w-1 /\ col - 1 \notin col..col+1
    BY <1>1
  <2> QED  BY <1>8, <1>9, <2>1
<1>11. \A j \in 0..w-1 : j \notin col..col+1 =>
           \/ new.cells[j] = row.cells[j] \/ new.cells[j].text = <<>>
           \/ j = col + 1 + 1 /\ ~IsWide(new.cells[j])
  BY <1>8
<1>12. \A j \in col..col+1 : IsWide(new.cells[j]) => j < col + 1 /\ new.cells[j+1].text = <<>>
  <2> TAKE j \in col..col+1
  <2>1. CASE j = col
    BY <1>1, <1>7, <2>1
  <2>2. CASE j = col + 1
    BY <1>1, <1>7, <1>9, <2>2
  <2> QED  BY <1>1, <2>1, <2>2
<1>13. col \in Nat /\ col <= col + 1 /\ col + 1 < w
  BY <1>1
<1>p. Patched(w, row, new, col, col + 1)
  BY <1>10, <1>11, <1>12 DEF Patched
<1>14. new \in R
  BY <1>1, <1>5, <1>13, <1>p, Overwriting
<1> QED  BY <1>6, <1>14

-----------------------------------------------------------------------------
(* The same on the grid, in the row of the cursor.                           *)
WroteNarrow(g, c, a) == PutCell(CutAfter(CutBefore(g, g.col, a), g.col, a), g.row, g.col, LAMBDA x : Glyph(c, a))

LEMMA WrittenNarrow ==
  ASSUME NEW w \in Nat \ {0}, NEW h \in Nat \ {0}, NEW b \in Nat,
         NEW g \in GridsOf(AnyRows(w), w, h, b),
         NEW c \in Chars, NEW a \in Colours, g.row < h, g.col < w
  PROVE  Edited(w, h, b, g, g.row, WroteNarrow(g, c, a), RowNarrow(At(g, g.row), g.col, c, a))
<1> DEFINE x1 == CutBefore(g, g.col, a)  r1 == RowCutBefore(At(g, g.row), g.col, a)
           x2 == CutAfter(x1, g.col, a)  r2 == RowCutAfter(r1, g.col, a)
           x3 == Painted(x2, g.row, g.col, Glyph(c, a))  r3 == PutIn(r2, g.col, Glyph(c, a))
<1>1. g.row \in Nat /\ g.col \in Nat
  BY GridIs
<1>2. Edited(w, h, b, g, g.row, x1, r1)
  BY <1>1, CuttingBefore
<1> HIDE DEF x1, r1
<1>3. x1 \in GridsOf(AnyRows(w), w, h, b) /\ x1.row = g.row /\ At(x1, g.row) = r1
  BY <1>2 DEF Edited, Kin
<1>4. Edited(w, h, b, x1, g.row, x2, r2)
  BY <1>1, <1>3, CuttingAfter
<1> HIDE DEF x2, r2
<1>5. x2 \in GridsOf(AnyRows(w), w, h, b) /\ At(x2, g.row) = r2
  BY <1>4 DEF Edited
<1>6. Glyph(c, a) \in Cells
  BY Glyphs
<1>7. Edited(w, h, b, x2, g.row, x3, r3)
  BY <1>1, <1>5, <1>6, Painting
<1>8. WroteNarrow(g, c, a) = x3
  BY PutGlyph DEF WroteNarrow, x2, x1
<1>9. RowNarrow(At(g, g.row), g.col, c, a) = r3
  BY DEF RowNarrow, r2, r1
<1> HIDE DEF x3, r3
<1>10. Edited(w, h, b, g, g.row, x2, r2)
  BY <1>2, <1>4, EditedThen
<1> QED  BY <1>7, <1>8, <1>9, <1>10, EditedThen

LEMMA WrittenSecond ==
  ASSUME NEW w \in Nat \ {0}, NEW h \in Nat \ {0}, NEW b \in Nat,
         NEW g \in GridsOf(AnyRows(w), w, h, b),
         NEW r \in Nat, r < h, NEW c \in Nat, NEW a \in Colours
  PROVE  Edited(w, h, b, g, r, SecondHalf(g, r, c, a), PutIn(RowCutSecond(At(g, r), c, a, w), c, Blank(Plain)))
<1> DEFINE x1 == CutSecond(g, r, c, a)  r1 == RowCutSecond(At(g, r), c, a, w)
           x2 == Painted(x1, r, c, Blank(Plain))  r2 == PutIn(r1, c, Blank(Plain))
<1>1. Edited(w, h, b, g, r, x1, r1)
  BY CuttingSecond
<1>2. SecondHalf(g, r, c, a) = x2
  BY PutBlank DEF SecondHalf
<1> HIDE DEF x1, r1
<1>3. x1 \in GridsOf(AnyRows(w), w, h, b) /\ At(x1, r) = r1
  BY <1>1 DEF Edited
<1>4. Blank(Plain) \in Cells
  BY Blanks, Kinds
<1>5. Edited(w, h, b, x1, r, x2, r2)
  BY <1>3, <1>4, Painting
<1> HIDE DEF x2
<1>6. Edited(w, h, b, g, r, x2, r2)
  BY <1>1, <1>5, EditedThen
<1> QED  BY <1>2, <1>6 DEF r1

LEMMA Widths ==
  ASSUME NEW c \in Chars
  PROVE  /\ CharWidth(c) \in 0..2
         /\ CharWidth(c) = 2 <=> c \in Wide
         /\ CharWidth(c) = 0 <=> c \in Marks
BY Kinds DEF CharWidth

LEMMA Writing ==
  ASSUME NEW w \in Nat \ {0}, NEW R \in Shapes(w), NEW h \in Nat \ {0}, NEW b \in Nat,
         NEW g \in GridsOf(R, w, h, b),
         NEW c \in Chars \ Marks, NEW a \in Colours, g.row < h, g.col + CharWidth(c) <= w
  PROVE  /\ Write(g, c, a) \in GridsOf(R, w, h, b)
         /\ Write(g, c, a).row = g.row /\ Write(g, c, a).col = g.col + CharWidth(c)
<1> DEFINE x == WroteNarrow(g, c, a)  y == WithSecond(x, CharWidth(c), a)  n == y.col + CharWidth(c)
           old == At(g, g.row)
<1>1. g.row \in Nat /\ g.col \in Nat /\ CharWidth(c) \in {1, 2} /\ (CharWidth(c) = 2 <=> c \in Wide) /\ c \in Chars
  BY GridIs, Widths
<1>2. g \in GridsOf(AnyRows(w), w, h, b) /\ g.col < w /\ g.col \in 0..w-1
  BY <1>1, Widening
<1>3. old \in R
  BY <1>1, AtRow
<1>4. Edited(w, h, b, g, g.row, x, RowNarrow(old, g.col, c, a))
  BY <1>1, <1>2, WrittenNarrow
<1>5. Write(g, c, a) = Coled(y, n)
  BY DEF Write, Coled, WroteNarrow
<1> HIDE DEF x, old
<1>6. y \in GridsOf(R, w, h, b) /\ Kin(g, y)
  <2>1. CASE c \in Wide
    <3> DEFINE z == SecondHalf(x, g.row, g.col + 1, a)
    <3>1. x \in GridsOf(AnyRows(w), w, h, b) /\ x.row = g.row /\ x.col = g.col /\ At(x, g.row) = RowNarrow(old, g.col, c, a)
      BY <1>4 DEF Edited, Kin
    <3>2. CharWidth(c) > 1
      BY <1>1, <2>1
    <3>3. y = z
      BY <3>1, <3>2 DEF WithSecond
    <3>4. g.col + 1 \in Nat /\ g.col + 1 < w
      BY <1>1, <2>1
    <3>5. Edited(w, h, b, x, g.row, z, RowWide(old, g.col, c, a, w))
      BY <1>1, <3>1, <3>4, WrittenSecond DEF RowWide
    <3> HIDE DEF z
    <3>6. Edited(w, h, b, g, g.row, z, RowWide(old, g.col, c, a, w))
      BY <1>4, <3>5, EditedThen
    <3>7. RowWide(old, g.col, c, a, w) \in R
      BY <1>1, <1>3, <2>1, <3>4, WritesWide
    <3>8. z \in GridsOf(R, w, h, b) /\ Kin(g, z)
      BY <1>1, <3>6, <3>7, EditedIn
    <3> QED  BY <3>3, <3>8
  <2>2. CASE c \notin Wide
    <3>1. y = x
      BY <1>1, <2>2 DEF WithSecond
    <3>2. RowNarrow(old, g.col, c, a) \in R
      BY <1>1, <1>2, <1>3, <2>2, WritesNarrow
    <3> QED  BY <1>1, <1>4, <3>1, <3>2, EditedIn
  <2> QED  BY <2>1, <2>2
<1> HIDE DEF y
<1>7. y.row = g.row /\ y.col = g.col /\ n \in Nat
  BY <1>1, <1>6 DEF Kin
<1> HIDE DEF n
<1>8. Coled(y, n) \in GridsOf(R, w, h, b) /\ Coled(y, n).row = y.row /\ Coled(y, n).col = n
  BY <1>6, <1>7, Placing
<1> QED  BY <1>5, <1>7, <1>8 DEF n

-----------------------------------------------------------------------------
(* A mark joins a cell that is not the second half of another.               *)
LEMMA MarksRow ==
  ASSUME NEW w \in Nat \ {0}, NEW R \in Shapes(w), NEW row \in R, NEW k \in 0..w-1, NEW c \in Chars,
         R = WholeRows(w) /\ k > 0 => ~IsWide(row.cells[k-1])
  PROVE  PutIn(row, k, Append1(row.cells[k], c)) \in R
<1> DEFINE cell == Append1(row.cells[k], c)  new == PutIn(row, k, cell)
<1>1. row \in AnyRows(w) /\ k \in Nat
  BY ShapesAre
<1>2. row.cells[k] \in Cells
  BY <1>1, Columns
<1>3. cell \in Cells /\ (IsWide(cell) <=> IsWide(row.cells[k]))
  BY <1>2, Marked
<1> HIDE DEF cell
<1>4. /\ new \in AnyRows(w)
      /\ \A j \in 0..w-1 : new.cells[j] = IF j = k THEN cell ELSE row.cells[j]
  BY <1>1, <1>3, Putting
<1> HIDE DEF new
<1>5. \A j \in 0..w-1 : IsWide(new.cells[j]) <=> IsWide(row.cells[j])
  BY <1>3, <1>4
<1>6. row \in FitRows(w) => new \in FitRows(w)
  BY <1>4, <1>5 DEF FitRows
<1>7. R = WholeRows(w) => new \in WholeRows(w)
  <2> SUFFICES ASSUME R = WholeRows(w), NEW j \in 0..w-2, IsWide(new.cells[j])
               PROVE  new.cells[j+1].text = <<>>
    BY <1>6 DEF WholeRows
  <2>1. j \in 0..w-1 /\ j + 1 \in 0..w-1 /\ j = (j + 1) - 1 /\ j + 1 > 0
    OBVIOUS
  <2>2. IsWide(row.cells[j])
    BY <1>5, <2>1
  <2>3. row.cells[j+1].text = <<>>
    BY <2>2 DEF WholeRows
  <2>4. j + 1 # k
    BY <2>1, <2>2
  <2> QED  BY <1>4, <2>1, <2>3, <2>4
<1>8. new \in R
  BY <1>6, <1>7 DEF Shapes
<1> QED  BY <1>8 DEF new, cell

LEMMA PutsPast ==
  ASSUME NEW w \in Nat \ {0}, NEW row \in AnyRows(w), NEW k \in Nat, k \notin 0..w-1, NEW cell
  PROVE  PutIn(row, k, cell) = PutIn(row, k, Blank(Plain))
<1>1. DOMAIN row.cells = 0..w-1
  BY Columns
<1> QED  BY <1>1 DEF PutIn

MarkedAt(row, col) == IF Continues(row, col) THEN col - 1 ELSE col
RowMarked(row, col, c) == PutIn(row, MarkedAt(row, col), Append1(row.cells[MarkedAt(row, col)], c))
MarkBefore(g, r, col, c) ==
  PutCell(g, r, IF ContinuesAt(g, r, col) THEN col - 1 ELSE col, LAMBDA x : Append1(x, c))

LEMMA MarkedPlace ==
  ASSUME NEW w \in Nat \ {0}, NEW R \in Shapes(w), NEW row \in R, NEW col \in Nat
  PROVE  /\ MarkedAt(row, col) \in Nat
         /\ R = WholeRows(w) /\ MarkedAt(row, col) > 0 /\ MarkedAt(row, col) \in 0..w-1 =>
              ~IsWide(row.cells[MarkedAt(row, col)-1])
<1>1. row \in AnyRows(w)
  BY ShapesAre
<1>2. DOMAIN row.cells = 0..w-1 /\ \A j \in 0..w-1 : row.cells[j] \in Cells
  BY <1>1, Columns
<1>3. CASE ~Continues(row, col)
  <2>1. MarkedAt(row, col) = col
    BY <1>3 DEF MarkedAt
  <2>2. col \in 0..w-1 /\ col > 0 => ~IsWide(row.cells[col-1])
    BY <1>2, <1>3 DEF Continues
  <2> QED  BY <2>1, <2>2
<1>4. CASE Continues(row, col)
  <2>1. MarkedAt(row, col) = col - 1 /\ col - 1 \in 0..w-1 /\ IsWide(row.cells[col-1])
    BY <1>2, <1>4 DEF MarkedAt, Continues
  <2>2. ASSUME R = WholeRows(w), col - 1 > 0 PROVE ~IsWide(row.cells[col-2])
    <3>1. \A j \in 0..w-2 : IsWide(row.cells[j]) => row.cells[j+1].text = <<>>
      BY <2>2 DEF WholeRows
    <3>2. col - 2 \in 0..w-2 /\ (col - 2) + 1 = col - 1
      BY <2>1, <2>2
    <3>3. row.cells[col-1].text # <<>>
      BY <1>2, <2>1, Empties
    <3> QED  BY <3>1, <3>2, <3>3
  <2> QED  BY <2>1, <2>2
<1> QED  BY <1>3, <1>4

LEMMA RowsMarked ==
  ASSUME NEW w \in Nat \ {0}, NEW R \in Shapes(w), NEW row \in R, NEW col \in Nat, NEW c \in Chars
  PROVE  /\ RowMarked(row, col, c) \in R
         /\ MarkedAt(row, col) \in 0..w-1 => Append1(row.cells[MarkedAt(row, col)], c) \in Cells
<1> DEFINE k == MarkedAt(row, col)  cell == Append1(row.cells[k], c)
<1>1. k \in Nat /\ (R = WholeRows(w) /\ k > 0 /\ k \in 0..w-1 => ~IsWide(row.cells[k-1]))
  BY MarkedPlace
<1>2. row \in AnyRows(w)
  BY ShapesAre
<1>3. RowMarked(row, col, c) = PutIn(row, k, cell)
  BY DEF RowMarked
<1> HIDE DEF k
<1>4. CASE k \in 0..w-1
  <2>1. PutIn(row, k, cell) \in R
    BY <1>1, <1>4, MarksRow
  <2>2. row.cells[k] \in Cells
    BY <1>2, <1>4, Columns
  <2>3. cell \in Cells
    BY <2>2, Marked
  <2> QED  BY <1>3, <2>1, <2>3 DEF k
<1>5. CASE k \notin 0..w-1
  <2>1. PutIn(row, k, cell) = PutIn(row, k, Blank(Plain))
    BY <1>1, <1>2, <1>5, PutsPast
  <2>2. Blank(Plain) \in Cells /\ Blank(Plain).text = <<>>
    BY Blanks, Kinds
  <2>3. PutIn(row, k, Blank(Plain)) \in R
    BY <1>1, <2>2, PuttingBlank
  <2> QED  BY <1>3, <1>5, <2>1, <2>3 DEF k
<1> QED  BY <1>4, <1>5

LEMMA MarkingAt ==
  ASSUME NEW w \in Nat \ {0}, NEW R \in Shapes(w), NEW h \in Nat \ {0}, NEW b \in Nat,
         NEW g \in GridsOf(R, w, h, b),
         NEW r \in Nat, r < h, NEW col \in Nat, NEW c \in Chars
  PROVE  MarkBefore(g, r, col, c) \in GridsOf(R, w, h, b) /\ Kin(g, MarkBefore(g, r, col, c))
<1> DEFINE row == At(g, r)  k == MarkedAt(row, col)  cell == Append1(row.cells[k], c)
           x == Painted(g, r, k, cell)
<1>1. row \in R
  BY AtRow
<1>2. k \in Nat
  BY <1>1, MarkedPlace
<1>3. /\ RowMarked(row, col, c) \in R /\ (k \in 0..w-1 => cell \in Cells)
      /\ RowMarked(row, col, c) = PutIn(row, k, cell)
  BY <1>1, RowsMarked DEF RowMarked
<1>4. MarkBefore(g, r, col, c) = PutCell(g, r, k, LAMBDA y : Append1(y, c))
  BY DEF MarkBefore, ContinuesAt, MarkedAt
<1>5. MarkBefore(g, r, col, c) = x
  BY <1>4, PutMark DEF CellAt
<1> HIDE DEF k, row
<1>6. row \in AnyRows(w) /\ g \in GridsOf(AnyRows(w), w, h, b)
  BY <1>1, ShapesAre, Widening
<1>7. Edited(w, h, b, g, r, x, RowMarked(row, col, c))
  <2>1. CASE k \in 0..w-1
    <3>1. cell \in Cells
      BY <1>3, <2>1
    <3> HIDE DEF cell
    <3> QED  BY <1>2, <1>3, <1>6, <3>1, Painting DEF row
  <2>2. CASE k \notin 0..w-1
    <3>1. PutIn(row, k, cell) = PutIn(row, k, Blank(Plain))
      BY <1>2, <1>6, <2>2, PutsPast
    <3>2. Blank(Plain) \in Cells
      BY Blanks, Kinds
    <3>3. x = Painted(g, r, k, Blank(Plain))
      BY <3>1 DEF Painted, row
    <3> HIDE DEF x, cell
    <3> QED  BY <1>2, <1>3, <1>6, <3>1, <3>2, <3>3, Painting DEF row
  <2> QED  BY <2>1, <2>2
<1> HIDE DEF x
<1> QED  BY <1>3, <1>5, <1>7, EditedIn

LEMMA Marking ==
  ASSUME NEW w \in Nat \ {0}, NEW R \in Shapes(w), NEW h \in Nat \ {0}, NEW b \in Nat,
         NEW g \in GridsOf(R, w, h, b),
         NEW c \in Chars, g.row < h \/ (g.row = h /\ g.col = 0)
  PROVE  Mark(g, c) \in GridsOf(R, w, h, b) /\ Kin(g, Mark(g, c))
<1>1. g.row \in Nat /\ g.col \in Nat /\ g.w = w
  BY GridIs
<1>2. CASE g.col > 0
  <2>1. Mark(g, c) = MarkBefore(g, g.row, g.col - 1, c)
    BY <1>2 DEF Mark, MarkBefore
  <2>2. g.col - 1 \in Nat /\ g.row < h
    BY <1>1, <1>2
  <2> QED  BY <1>1, <2>1, <2>2, MarkingAt
<1>3. CASE ~(g.col > 0) /\ g.row > 0 /\ At(g, g.row - 1).wrapped
  <2>1. Mark(g, c) = MarkBefore(g, g.row - 1, g.w - 1, c)
    BY <1>3 DEF Mark, MarkBefore
  <2>2. g.w - 1 \in Nat /\ g.row - 1 \in Nat /\ g.row - 1 < h
    BY <1>1, <1>3
  <2> QED  BY <2>1, <2>2, MarkingAt
<1>4. CASE ~(g.col > 0) /\ ~(g.row > 0 /\ At(g, g.row - 1).wrapped)
  <2>1. Mark(g, c) = g
    BY <1>4 DEF Mark
  <2> QED  BY <2>1 DEF Kin
<1> QED  BY <1>2, <1>3, <1>4

-----------------------------------------------------------------------------
Settled(x, h) == x.row < h \/ (x.row = h /\ x.col = 0)

LEMMA StayingValid == ASSUME NEW g, NEW x, NEW y, StaysValid(g, x), StaysValid(x, y) PROVE StaysValid(g, y)
BY DEF StaysValid

(* The cursor a character finds once the text has wrapped.                   *)
LEMMA WrappedFor ==
  ASSUME NEW w \in Nat \ {0}, NEW R \in Shapes(w), NEW h \in Nat \ {0}, NEW b \in Nat,
         NEW g \in GridsOf(R, w, h, b),
         NEW c \in Chars, ~TextBreaks(g, c)
  PROVE  /\ Wrapped(g, CharWidth(c)) \in GridsOf(R, w, h, b)
         /\ StaysValid(g, Wrapped(g, CharWidth(c)))
         /\ c \in Marks => Settled(Wrapped(g, CharWidth(c)), h)
         /\ c \notin Marks => /\ Wrapped(g, CharWidth(c)).row < h
                             /\ Wrapped(g, CharWidth(c)).col + CharWidth(c) <= w
<1> DEFINE width == CharWidth(c)  on == PastEnd(g, width) /\ Full(g)  x == Wrapped(g, width)
<1>1. g.w = w /\ g.h = h /\ g.row \in Nat /\ g.col \in Nat
  BY GridIs
<1>2. width \in 0..2 /\ (width = 0 <=> c \in Marks)
  BY Widths
<1>3. LinesUp(g, 1) \in Nat
  BY Overruns
<1>4. /\ ~(width > g.w)
      /\ ~(g.row >= g.h /\ ~(width = 0 /\ g.col = 0 /\ g.row = g.h))
      /\ ~(PastEnd(g, width) /\ g.row < LinesUp(g, 1))
  BY DEF TextBreaks
<1> HIDE DEF width
<1>5. width <= w /\ (g.row < h \/ (width = 0 /\ g.col = 0 /\ g.row = h))
  BY <1>1, <1>2, <1>4
<1>6. PastEnd(g, width) <=> g.col > w - width
  BY <1>1 DEF PastEnd
<1>7. PastEnd(g, width) => g.row < h /\ LinesUp(g, 1) <= g.row
  BY <1>1, <1>2, <1>3, <1>4, <1>5, <1>6
<1>8. on \in BOOLEAN /\ x = WrapCursor(g, width, on) /\ width \in Nat
  BY <1>2 DEF Wrapped, Full, ContinuesAt, Continues, PastEnd
<1> HIDE DEF x, on
<1>9. /\ x \in GridsOf(R, w, h, b)
      /\ ~PastEnd(g, width) => x = g
      /\ PastEnd(g, width) => x.row < h /\ x.col = 0
  BY <1>7, <1>8, WrappingOn
<1>10. x.w = w /\ x.h = h /\ x.col \in Nat
  BY <1>9, GridIs
<1>11. StaysValid(g, x)
  <2>1. CASE PastEnd(g, width)
    BY <1>9, <1>10, <2>1 DEF StaysValid, CursorValid
  <2>2. CASE ~PastEnd(g, width)
    BY <1>9, <2>2 DEF StaysValid
  <2> QED  BY <2>1, <2>2
<1>12. width = 0 => Settled(x, h)
  BY <1>5, <1>9 DEF Settled
<1>13. width # 0 => x.row < h /\ x.col + width <= w
  BY <1>1, <1>2, <1>5, <1>6, <1>9
<1> QED  BY <1>2, <1>9, <1>11, <1>12, <1>13 DEF x, width

LEMMA Typing ==
  ASSUME NEW w \in Nat \ {0}, NEW R \in Shapes(w), NEW h \in Nat \ {0}, NEW b \in Nat,
         NEW g \in GridsOf(R, w, h, b),
         NEW c \in Chars, NEW on \in BOOLEAN, NEW a \in Colours, ~TextBreaks(g, c)
  PROVE  /\ Typed(Wrapped(g, CharWidth(c)), c, on, a) \in GridsOf(R, w, h, b)
         /\ StaysValid(g, Typed(Wrapped(g, CharWidth(c)), c, on, a))
         /\ Settled(Typed(Wrapped(g, CharWidth(c)), c, on, a), h)
<1> DEFINE x == Wrapped(g, CharWidth(c))  y == IF on THEN InsertCells(x, CharWidth(c)) ELSE x
           z == Typed(x, c, on, a)
<1>1. /\ x \in GridsOf(R, w, h, b) /\ StaysValid(g, x)
      /\ c \in Marks => Settled(x, h)
      /\ c \notin Marks => x.row < h /\ x.col + CharWidth(c) <= w
  BY WrappedFor
<1> HIDE DEF x
<1>2. CharWidth(c) \in Nat /\ (CharWidth(c) = 0 <=> c \in Marks)
  BY Widths
<1>3. CASE c \in Marks
  <2>1. z = Mark(x, c)
    BY <1>2, <1>3 DEF Typed
  <2>2. z \in GridsOf(R, w, h, b) /\ Kin(x, z)
    BY <1>1, <1>3, <2>1, Marking DEF Settled
  <2>3. Settled(z, h) /\ StaysValid(x, z)
    BY <1>1, <1>3, <2>2, KinValid DEF Kin, Settled
  <2> QED  BY <1>1, <2>2, <2>3, StayingValid DEF x
<1>4. CASE c \notin Marks
  <2>1. z = Write(y, c, a)
    BY <1>2, <1>4 DEF Typed
  <2>2. y \in GridsOf(R, w, h, b) /\ y.row < h /\ y.col + CharWidth(c) <= w
    <3>1. CASE on
      <4>1. InsertCells(x, CharWidth(c)) \in GridsOf(R, w, h, b) /\ Kin(x, InsertCells(x, CharWidth(c)))
        BY <1>1, <1>2, <1>4, InsertedCells
      <4> QED  BY <1>1, <1>4, <3>1, <4>1 DEF Kin
    <3>2. CASE ~on
      BY <1>1, <1>4, <3>2
    <3> QED  BY <3>1, <3>2
  <2> HIDE DEF y, z
  <2>3. c \in Chars \ Marks
    BY <1>4
  <2>4. z \in GridsOf(R, w, h, b) /\ z.row = y.row /\ z.col = y.col + CharWidth(c)
    BY <2>1, <2>2, <2>3, Writing
  <2>5. z.w = w /\ z.h = h
    BY <2>4, GridIs
  <2>6. StaysValid(x, z) /\ Settled(z, h)
    BY <2>2, <2>4, <2>5 DEF StaysValid, CursorValid, Settled
  <2> QED  BY <1>1, <2>4, <2>6, StayingValid DEF x, z
<1> QED  BY <1>3, <1>4

-----------------------------------------------------------------------------
(* A run of characters of one column, at once.                               *)
BlitStep(p, x, k) == PutCell(x, p.row, p.col + k - 1, LAMBDA y : Glyph(p.chars[k], p.a))
Blitted(w, cut, col, n, chars, a, new) ==
  \A j \in 0..w-1 : new.cells[j] =
       IF j \in col..col + n - 1 THEN Glyph(chars[j - col + 1], a) ELSE cut.cells[j]
BlitKept(p, k, x) ==
  /\ Edited(p.w, p.h, p.b, p.g, p.row, x, At(x, p.row))
  /\ Blitted(p.w, p.base, p.col, k, p.chars, p.a, At(x, p.row))
MissKept(p, k, x) == x \in GridsOf(p.R, p.w, p.h, p.b) /\ Kin(p.g, x)
Blits == INSTANCE Folding WITH Step <- BlitStep, Keeps <- BlitKept
Misses == INSTANCE Folding WITH Step <- BlitStep, Keeps <- MissKept

LEMMA RunBlits ==
  ASSUME NEW g, NEW chars, NEW a, NEW p, p.row = g.row, p.col = g.col, p.chars = chars, p.a = a, chars # <<>>
  PROVE  WriteRun(g, chars, a) =
           Blits!Folded(p, CutAfter(CutBefore(g, g.col, a), g.col + Len(chars) - 1, a), Count(Len(chars)))
BY DEF WriteRun, Count, BlitStep, Blits!Folded, FoldLeft, MapThenFoldSet, Blits!FoldLeft,
       Blits!MapThenFoldSet, Max, Blits!Max
LEMMA RunMisses ==
  ASSUME NEW g, NEW chars, NEW a, NEW p, p.row = g.row, p.col = g.col, p.chars = chars, p.a = a, chars # <<>>
  PROVE  WriteRun(g, chars, a) =
           Misses!Folded(p, CutAfter(CutBefore(g, g.col, a), g.col + Len(chars) - 1, a), Count(Len(chars)))
BY DEF WriteRun, Count, BlitStep, Misses!Folded, FoldLeft, MapThenFoldSet, Misses!FoldLeft,
       Misses!MapThenFoldSet, Max, Misses!Max

(* What the row of the run is before its characters.                         *)
RowCut(row, col, hi, a) == RowCutAfter(RowCutBefore(row, col, a), hi, a)

LEMMA CutsRow ==
  ASSUME NEW w \in Nat \ {0}, NEW row \in AnyRows(w), NEW col \in Nat, NEW hi \in 0..w-1, col <= hi, NEW a \in Colours
  PROVE  /\ RowCut(row, col, hi, a) \in AnyRows(w)
         /\ \A j \in 0..w-1 :
              \/ RowCut(row, col, hi, a).cells[j] = row.cells[j] /\ ~(j = col - 1 /\ IsWide(row.cells[j]))
              \/ RowCut(row, col, hi, a).cells[j].text = <<>>
              \/ j = hi + 1 /\ ~IsWide(RowCut(row, col, hi, a).cells[j])
<1> DEFINE r1 == RowCutBefore(row, col, a)  r2 == RowCutAfter(r1, hi, a)
<1>1. /\ r1 \in AnyRows(w)
      /\ \A j \in 0..w-1 : r1.cells[j] = IF j = col - 1 /\ IsWide(row.cells[j]) THEN Blank(a) ELSE row.cells[j]
  BY RowBefore
<1> HIDE DEF r1
<1>2. /\ r2 \in AnyRows(w)
      /\ \A j \in 0..w-1 : r2.cells[j] = IF j = hi + 1 /\ IsWide(r1.cells[hi]) THEN Glyph(Space, a) ELSE r1.cells[j]
  BY <1>1, RowAfter
<1>3. RowCut(row, col, hi, a) = r2
  BY DEF RowCut, r1
<1> HIDE DEF r2
<1>4. Blank(a).text = <<>> /\ ~IsWide(Glyph(Space, a))
  BY Blanks, Spaces
<1> QED  BY <1>1, <1>2, <1>3, <1>4

LEMMA CutsGrid ==
  ASSUME NEW w \in Nat \ {0}, NEW h \in Nat \ {0}, NEW b \in Nat,
         NEW g \in GridsOf(AnyRows(w), w, h, b),
         NEW a \in Colours, NEW hi \in Nat, g.row < h
  PROVE  Edited(w, h, b, g, g.row, CutAfter(CutBefore(g, g.col, a), hi, a), RowCut(At(g, g.row), g.col, hi, a))
<1> DEFINE x1 == CutBefore(g, g.col, a)  r1 == RowCutBefore(At(g, g.row), g.col, a)
           x2 == CutAfter(x1, hi, a)  r2 == RowCutAfter(r1, hi, a)
<1>1. g.row \in Nat /\ g.col \in Nat
  BY GridIs
<1>2. Edited(w, h, b, g, g.row, x1, r1)
  BY <1>1, CuttingBefore
<1> HIDE DEF x1, r1
<1>3. x1 \in GridsOf(AnyRows(w), w, h, b) /\ x1.row = g.row /\ At(x1, g.row) = r1
  BY <1>2 DEF Edited, Kin
<1>4. Edited(w, h, b, x1, g.row, x2, r2)
  BY <1>1, <1>3, CuttingAfter
<1>5. Edited(w, h, b, g, g.row, x2, r2)
  BY <1>2, <1>4, EditedThen
<1> QED  BY <1>5 DEF x1, r1, RowCut

LEMMA RunsRow ==
  ASSUME NEW w \in Nat \ {0}, NEW R \in Shapes(w), NEW row \in R, NEW col \in Nat, NEW n \in Nat \ {0}, col + n <= w,
         NEW chars \in [1..n -> Narrow], NEW a \in Colours, NEW new \in AnyRows(w),
         Blitted(w, RowCut(row, col, col + n - 1, a), col, n, chars, a, new)
  PROVE  new \in R
<1> DEFINE hi == col + n - 1  cut == RowCut(row, col, hi, a)
<1>1. hi \in 0..w-1 /\ hi \in Nat /\ col <= hi /\ hi < w /\ row \in AnyRows(w)
  BY ShapesAre
<1>2. \A j \in 0..w-1 : new.cells[j] = IF j \in col..hi THEN Glyph(chars[j - col + 1], a) ELSE cut.cells[j]
  BY DEF Blitted
<1> HIDE DEF hi
<1>3. /\ cut \in AnyRows(w)
      /\ \A j \in 0..w-1 :
              \/ cut.cells[j] = row.cells[j] /\ ~(j = col - 1 /\ IsWide(row.cells[j]))
              \/ cut.cells[j].text = <<>>
              \/ j = hi + 1 /\ ~IsWide(cut.cells[j])
  BY <1>1, CutsRow
<1> HIDE DEF cut
<1>4. \A j \in col..hi : ~IsWide(new.cells[j])
  <2> TAKE j \in col..hi
  <2>1. j - col + 1 \in 1..n /\ j \in 0..w-1
    BY <1>1 DEF hi
  <2>2. chars[j - col + 1] \in Chars /\ chars[j - col + 1] \notin Wide
    BY <2>1, Kinds DEF Chars
  <2>3. ~IsWide(Glyph(chars[j - col + 1], a))
    BY <2>2, Glyphs
  <2> QED  BY <1>2, <2>1, <2>3
<1>5. \A j \in 0..w-1 : new.cells[j].text = <<>> => ~IsWide(new.cells[j])
  BY Columns, Empties
<1>6. \A j \in 0..w-1 : j \notin col..hi =>
           \/ new.cells[j] = row.cells[j] \/ new.cells[j].text = <<>>
           \/ j = hi + 1 /\ ~IsWide(new.cells[j])
  BY <1>2, <1>3
<1>7. col > 0 => ~IsWide(new.cells[col-1])
  <2> SUFFICES ASSUME col > 0 PROVE ~IsWide(new.cells[col-1])
    OBVIOUS
  <2>1. col - 1 \in 0..w-1 /\ col - 1 \notin col..hi /\ col - 1 # hi + 1
    BY <1>1
  <2> QED  BY <1>2, <1>3, <1>5, <2>1
<1>8. \A j \in col..hi : IsWide(new.cells[j]) => j < hi /\ new.cells[j+1].text = <<>>
  BY <1>4
<1>9. hi \in Nat /\ col <= hi /\ hi < w
  BY <1>1
<1>10. Patched(w, row, new, col, hi)
  BY <1>6, <1>7, <1>8 DEF Patched
<1> QED  BY <1>9, <1>10, Overwriting

(* The run stays in the row, or there is no row and it only counts.          *)
OneCell(w, row, c, cell, new) == \A j \in 0..w-1 : new.cells[j] = IF j = c THEN cell ELSE row.cells[j]

LEMMA BlitStepping ==
  ASSUME NEW w \in Nat \ {0}, NEW h \in Nat \ {0}, NEW b \in Nat,
         NEW g \in GridsOf(AnyRows(w), w, h, b),
         NEW r \in Nat, r < h, NEW c \in Nat, NEW x, NEW char \in Chars, NEW a \in Colours,
         Edited(w, h, b, g, r, x, At(x, r))
  PROVE  /\ Edited(w, h, b, g, r, Painted(x, r, c, Glyph(char, a)), At(Painted(x, r, c, Glyph(char, a)), r))
         /\ OneCell(w, At(x, r), c, Glyph(char, a), At(Painted(x, r, c, Glyph(char, a)), r))
<1> DEFINE cell == Glyph(char, a)  y == Painted(x, r, c, cell)  new == PutIn(At(x, r), c, cell)
<1>1. cell \in Cells
  BY Glyphs
<1> HIDE DEF cell
<1>2. x \in GridsOf(AnyRows(w), w, h, b)
  BY DEF Edited
<1>3. Edited(w, h, b, x, r, y, new)
  BY <1>1, <1>2, Painting
<1>4. At(x, r) \in AnyRows(w)
  BY <1>2, AtRow
<1>5. \A j \in 0..w-1 : new.cells[j] = IF j = c THEN cell ELSE At(x, r).cells[j]
  BY <1>1, <1>4, Putting
<1> HIDE DEF y, new
<1>6. Edited(w, h, b, g, r, y, new) /\ At(y, r) = new
  BY <1>3, EditedThen DEF Edited
<1> QED  BY <1>5, <1>6 DEF y, cell, OneCell

LEMMA BlitIs == ASSUME NEW p, NEW x, NEW k
  PROVE BlitStep(p, x, k) = Painted(x, p.row, p.col + k - 1, Glyph(p.chars[k], p.a))
BY PutGlyph DEF BlitStep

LEMMA BlitKeeps ==
  ASSUME NEW w \in Nat \ {0}, NEW h \in Nat \ {0}, NEW b \in Nat, NEW g \in GridsOf(AnyRows(w), w, h, b), g.row < h,
         NEW n \in Nat \ {0}, NEW chars \in [1..n -> Narrow], NEW a \in Colours, NEW p, NEW cut,
         /\ p.w = w /\ p.h = h /\ p.b = b /\ p.g = g /\ p.row = g.row /\ p.col = g.col /\ p.chars = chars
         /\ p.a = a /\ p.base = cut,
         NEW k \in 1..n, NEW x, BlitKept(p, k - 1, x)
  PROVE  BlitKept(p, k, Painted(x, g.row, g.col + k - 1, Glyph(chars[k], a)))
<1> DEFINE c == g.col + k - 1  char == chars[k]  y == Painted(x, g.row, c, Glyph(char, a))
<1>1. g.row \in Nat /\ g.col \in Nat
  BY GridIs
<1>2. Edited(w, h, b, g, g.row, x, At(x, g.row)) /\ Blitted(w, cut, g.col, k - 1, chars, a, At(x, g.row))
  BY DEF BlitKept
<1>3. c \in Nat /\ char \in Chars
  BY <1>1, Kinds DEF Chars
<1> HIDE DEF c, char
<1>4. Edited(w, h, b, g, g.row, y, At(y, g.row)) /\ OneCell(w, At(x, g.row), c, Glyph(char, a), At(y, g.row))
  BY ONLY w \in Nat \ {0}, h \in Nat \ {0}, b \in Nat, a \in Colours, g.row < h, g \in GridsOf(AnyRows(w), w, h, b),
          <1>1, <1>2, <1>3, BlitStepping
<1> HIDE DEF y
<1>5. ASSUME NEW j \in 0..w-1
      PROVE  At(y, g.row).cells[j] = IF j \in g.col..g.col + k - 1 THEN Glyph(chars[j - g.col + 1], a) ELSE cut.cells[j]
  <2>0. /\ At(y, g.row).cells[j] = IF j = c THEN Glyph(char, a) ELSE At(x, g.row).cells[j]
        /\ At(x, g.row).cells[j] =
             IF j \in g.col..g.col + (k - 1) - 1 THEN Glyph(chars[j - g.col + 1], a) ELSE cut.cells[j]
    BY <1>2, <1>4 DEF Blitted, OneCell
  <2>1. CASE j = c
    <3>1. j - g.col + 1 = k /\ j \in g.col..g.col + k - 1
      BY <1>1, <2>1 DEF c
    <3> QED  BY <2>0, <2>1, <3>1 DEF char
  <2>2. CASE j # c
    <3>1. j \in g.col..g.col + k - 1 <=> j \in g.col..g.col + (k - 1) - 1
      BY <1>1, <2>2 DEF c
    <3> QED  BY <2>0, <2>2, <3>1
  <2> QED  BY <2>1, <2>2
<1>6. Blitted(w, cut, g.col, k, chars, a, At(y, g.row))
  BY <1>5 DEF Blitted
<1> QED  BY <1>4, <1>6 DEF BlitKept, y, c, char

LEMMA Blitting ==
  ASSUME NEW w \in Nat \ {0}, NEW R \in Shapes(w), NEW h \in Nat \ {0}, NEW b \in Nat,
         NEW g \in GridsOf(R, w, h, b),
         NEW n \in Nat \ {0}, NEW chars \in [1..n -> Narrow], Len(chars) = n, chars # <<>>, NEW a \in Colours,
         g.row < h, g.col + n <= w
  PROVE  WriteRun(g, chars, a) \in GridsOf(R, w, h, b) /\ Kin(g, WriteRun(g, chars, a))
<1> DEFINE hi == g.col + n - 1  old == At(g, g.row)  cut == RowCut(old, g.col, hi, a)
           start == CutAfter(CutBefore(g, g.col, a), hi, a)
           p == [w |-> w, h |-> h, b |-> b, g |-> g, row |-> g.row, col |-> g.col, chars |-> chars, a |-> a, base |-> cut]
           end == WriteRun(g, chars, a)
<1>1. g.row \in Nat /\ g.col \in Nat /\ hi \in Nat
  BY GridIs
<1>2. g \in GridsOf(AnyRows(w), w, h, b) /\ old \in R
  BY <1>1, AtRow, Widening
<1>3. Edited(w, h, b, g, g.row, start, cut)
  BY <1>1, <1>2, CutsGrid
<1>4. /\ p.w = w /\ p.h = h /\ p.b = b /\ p.g = g /\ p.row = g.row /\ p.col = g.col /\ p.chars = chars
      /\ p.a = a /\ p.base = cut
  OBVIOUS
<1>5. end = Blits!Folded(p, start, Count(n))
  BY <1>4, RunBlits
<1> HIDE DEF p, start, cut, old, hi
<1>6. BlitKept(p, 0, start)
  <2>1. Blitted(w, cut, g.col, 0, chars, a, cut)
    BY <1>1 DEF Blitted
  <2> QED  BY <1>3, <1>4, <2>1 DEF BlitKept, Edited
<1>7. ASSUME NEW k \in 1..n, NEW x, BlitKept(p, k - 1, x)
      PROVE  BlitKept(p, k, BlitStep(p, x, Count(n)[k]))
  <2>1. Count(n)[k] = k
    BY DEF Count
  <2>2. BlitKept(p, k, Painted(x, g.row, g.col + k - 1, Glyph(chars[k], a)))
    BY <1>2, <1>4, <1>7, BlitKeeps
  <2>3. BlitStep(p, x, k) = Painted(x, g.row, g.col + k - 1, Glyph(chars[k], a))
    BY <1>4, BlitIs
  <2> QED  BY <2>1, <2>2, <2>3
<1>8. n \in Nat /\ DOMAIN Count(n) = 1..n
  BY DEF Count
<1>9. BlitKept(p, n, Blits!Folded(p, start, Count(n)))
  BY ONLY <1>6, <1>7, <1>8, Blits!FoldKeeps
<1> HIDE DEF end
<1>10. Edited(w, h, b, g, g.row, end, At(end, g.row)) /\ Blitted(w, cut, g.col, n, chars, a, At(end, g.row))
  BY <1>4, <1>5, <1>9 DEF BlitKept
<1>11. At(end, g.row) \in AnyRows(w)
  BY <1>1, <1>10, AtRow DEF Edited
<1>12. At(end, g.row) \in R
  <2>1. Blitted(w, RowCut(old, g.col, g.col + n - 1, a), g.col, n, chars, a, At(end, g.row))
    BY <1>10 DEF cut, hi
  <2> QED  BY <1>1, <1>2, <1>11, <2>1, RunsRow
<1> QED  BY <1>1, <1>10, <1>12, EditedIn DEF end

-----------------------------------------------------------------------------
(* Where there is no row, a cell that is written only counts as used.        *)
LEMMA PaintedBelow ==
  ASSUME NEW R, NEW w \in Nat \ {0}, NEW h \in Nat \ {0}, NEW b \in Nat, NEW g \in GridsOf(R, w, h, b),
         NEW r \in Nat, r >= h, NEW c, NEW cell
  PROVE  Painted(g, r, c, cell) \in GridsOf(R, w, h, b) /\ Kin(g, Painted(g, r, c, cell))
<1> DEFINE i == Row0(g) + r + 1  new == PutIn(At(g, r), c, cell)  n == GreaterOf(g.used, r + 1)
           rows == [g.rows EXCEPT ![i] = new]
<1>1. i \notin 1..Len(g.rows)
  BY HeightIs
<1>2. g.rows \in Seq(R) /\ DOMAIN g.rows = 1..Len(g.rows)
  BY RowsAre
<1>3. WithRow(g, r, new) = Relaid(g, rows)
  BY DEF WithRow, Relaid
<1>4. n \in Nat
  BY GridIs DEF GreaterOf
<1> HIDE DEF i, new
<1>5. rows = g.rows
  BY <1>1, <1>2
<1> HIDE DEF rows
<1>6. Relaid(g, rows) = g
  BY <1>5 DEF Relaid, GridsOf, Fields
<1>7. Painted(g, r, c, cell) = Using(g, n)
  BY <1>3, <1>6 DEF Painted, Using, new
<1> HIDE DEF n
<1> QED  BY <1>4, <1>7, Usings

LEMMA Missing ==
  ASSUME NEW w \in Nat \ {0}, NEW R \in Shapes(w), NEW h \in Nat \ {0}, NEW b \in Nat,
         NEW g \in GridsOf(R, w, h, b),
         NEW n \in Nat \ {0}, NEW chars, Len(chars) = n, chars # <<>>, NEW a,
         g.row = h, g.col = 0
  PROVE  WriteRun(g, chars, a) \in GridsOf(R, w, h, b) /\ Kin(g, WriteRun(g, chars, a))
<1> DEFINE start == CutAfter(CutBefore(g, g.col, a), g.col + n - 1, a)
           p == [R |-> R, w |-> w, h |-> h, b |-> b, g |-> g, row |-> g.row, col |-> g.col, chars |-> chars, a |-> a]
           end == WriteRun(g, chars, a)
<1>1. g.row \in Nat /\ g.h = h
  BY GridIs
<1>2. start = g
  <2>1. CutBefore(g, g.col, a) = g
    BY DEF CutBefore, ContinuesAt, Continues
  <2> QED  BY <1>1, <2>1 DEF CutAfter
<1>3. /\ p.R = R /\ p.w = w /\ p.h = h /\ p.b = b /\ p.g = g /\ p.row = g.row /\ p.col = g.col
      /\ p.chars = chars /\ p.a = a
  OBVIOUS
<1>4. end = Misses!Folded(p, start, Count(n))
  BY <1>3, RunMisses
<1> HIDE DEF p, start
<1>5. MissKept(p, 0, start)
  BY <1>2, <1>3 DEF MissKept, Kin
<1>6. ASSUME NEW k \in 1..n, NEW x, MissKept(p, k - 1, x)
      PROVE  MissKept(p, k, BlitStep(p, x, Count(n)[k]))
  <2> DEFINE e == Count(n)[k]  y == Painted(x, p.row, p.col + e - 1, Glyph(p.chars[e], p.a))
  <2>1. x \in GridsOf(R, w, h, b) /\ Kin(g, x) /\ p.row \in Nat /\ p.row >= h
    BY <1>1, <1>3, <1>6 DEF MissKept
  <2>2. y \in GridsOf(R, w, h, b) /\ Kin(x, y)
    BY <2>1, PaintedBelow
  <2>3. BlitStep(p, x, e) = y
    BY BlitIs
  <2> HIDE DEF y, e
  <2> QED  BY <1>3, <2>1, <2>2, <2>3, KinKin DEF MissKept, e
<1>7. n \in Nat /\ DOMAIN Count(n) = 1..n
  BY DEF Count
<1>8. MissKept(p, n, Misses!Folded(p, start, Count(n)))
  BY ONLY <1>5, <1>6, <1>7, Misses!FoldKeeps
<1> QED  BY <1>3, <1>4, <1>8 DEF MissKept

(* The plain characters ahead fit in the row, and are plain.                 *)
LEMMA Ahead ==
  ASSUME NEW g, g.w \in Nat, g.col \in Nat, NEW chars \in Seq(Chars)
  PROVE  /\ PlainAhead(g, chars) \in 0..Len(chars)
         /\ PlainAhead(g, chars) # 0 => g.col + PlainAhead(g, chars) <= g.w
         /\ \A k \in 1..PlainAhead(g, chars) : chars[k] \in Narrow
<1> DEFINE I == {i \in 1..Len(chars) : chars[i] \notin Narrow}  stop == IF I # {} THEN Min(I) ELSE 0
           m == IF stop = 0 THEN Len(chars) ELSE stop - 1  n == PlainAhead(g, chars)
<1>1. n = LesserOf(m, Minus(g.w, g.col))
  BY DEF PlainAhead, SelectInSeq
<1>2. Len(chars) \in Nat
  OBVIOUS
<1>3. m \in 0..Len(chars) /\ \A k \in 1..m : chars[k] \in Narrow
  <2>1. CASE I = {}
    BY <1>2, <2>1
  <2>2. CASE I # {}
    <3>1. I \in SUBSET Nat
      BY <1>2
    <3>2. PICK i \in I : \A j \in I : i <= j
      BY <2>2, <3>1, Blits!Least
    <3>3. Min(I) \in I /\ \A j \in I : Min(I) <= j
      BY <3>2 DEF Min
    <3>4. m = Min(I) - 1
      BY <1>2, <2>2, <3>3
    <3>5. Min(I) \in 1..Len(chars)
      BY <3>3
    <3> DEFINE l == Min(I)
    <3>6. l \in 1..Len(chars) /\ m = l - 1 /\ \A j \in I : l <= j
      BY <3>3, <3>4, <3>5
    <3> HIDE DEF l, m
    <3>7. \A k \in 1..m : k \in 1..Len(chars) /\ k \notin I
      BY <1>2, <3>6
    <3> QED  BY <1>2, <3>6, <3>7
  <2> QED  BY <2>1, <2>2
<1> HIDE DEF m, n
<1>4. n \in Nat /\ n <= m /\ (n # 0 => g.col + n <= g.w)
  BY <1>1, <1>3 DEF LesserOf, Minus
<1>5. n \in 0..Len(chars) /\ (\A k \in 1..n : chars[k] \in Narrow)
  BY <1>2, <1>3, <1>4
<1> QED  BY <1>4, <1>5 DEF n

(* They are written after a character.                                       *)
RunAt(g, run, i, n, a) == [WriteRun(g, SubSeq(run, i + 1, i + n), a) EXCEPT !.col = @ + n]

SliceOf(s, m, n, t) == \A k \in 1..n : t[k] = s[m + k]
LEMMA Slices ==
  ASSUME NEW S, NEW s \in Seq(S), NEW m \in Nat, NEW n \in Nat, m + n <= Len(s)
  PROVE  /\ SubSeq(s, m + 1, m + n) \in Seq(S) /\ Len(SubSeq(s, m + 1, m + n)) = n
         /\ SliceOf(s, m, n, SubSeq(s, m + 1, m + n))
<1>1. SubSeq(s, m + 1, m + n) = [k \in 1..n |-> s[m + k]]
  <2>1. (m + n) - (m + 1) + 1 = n
    OBVIOUS
  <2> QED  BY <2>1
<1>2. [k \in 1..n |-> s[m + k]] \in [1..n -> S]
  <2>1. \A k \in 1..n : m + k \in 1..Len(s)
    OBVIOUS
  <2> QED  BY <2>1
<1> QED  BY <1>1, <1>2, Listing DEF SliceOf

PlainFor(run, i, n) == i + n <= Len(run) /\ \A k \in 1..n : run[i + k] \in Narrow
LEMMA AheadPlain ==
  ASSUME NEW g, g.w \in Nat, g.col \in Nat, NEW run \in Seq(Chars), NEW i \in 1..Len(run),
         NEW n, n = PlainAhead(g, SubSeq(run, i + 1, Len(run))), n # 0
  PROVE  n \in Nat \ {0} /\ g.col + n <= g.w /\ PlainFor(run, i, n)
<1> DEFINE rest == SubSeq(run, i + 1, Len(run))
<1>1. Len(run) \in Nat /\ i \in Nat /\ i <= Len(run)
  OBVIOUS
<1>2. /\ rest \in Seq(Chars) /\ Len(rest) = Len(run) - i
      /\ \A k \in 1..Len(run) - i : rest[k] = run[i + k]
  <2>1. PICK m \in Nat : m = Len(run) - i
    BY <1>1
  <2>2. rest = SubSeq(run, i + 1, i + m) /\ i + m <= Len(run)
    BY <1>1, <2>1
  <2> HIDE DEF rest
  <2>3. rest \in Seq(Chars) /\ Len(rest) = m /\ SliceOf(run, i, m, rest)
    BY <1>1, <2>2, Slices
  <2> QED  BY <2>1, <2>3 DEF SliceOf
<1> HIDE DEF rest
<1>3. n \in 0..Len(rest) /\ g.col + n <= g.w /\ \A k \in 1..n : rest[k] \in Narrow
  BY <1>2, Ahead DEF rest
<1>4. n \in Nat \ {0} /\ i + n <= Len(run) /\ n <= Len(run) - i
  BY <1>1, <1>2, <1>3
<1>5. \A k \in 1..n : k \in 1..Len(run) - i
  BY <1>1, <1>4
<1> QED  BY <1>2, <1>3, <1>4, <1>5 DEF PlainFor

LEMMA Running ==
  ASSUME NEW w \in Nat \ {0}, NEW R \in Shapes(w), NEW h \in Nat \ {0}, NEW b \in Nat,
         NEW g \in GridsOf(R, w, h, b),
         NEW run \in Seq(Chars), NEW i \in 1..Len(run), NEW n, n = PlainAhead(g, SubSeq(run, i + 1, Len(run))), n # 0,
         NEW a \in Colours, Settled(g, h)
  PROVE  /\ RunAt(g, run, i, n, a) \in GridsOf(R, w, h, b)
         /\ StaysValid(g, RunAt(g, run, i, n, a))
<1> DEFINE chars == SubSeq(run, i + 1, i + n)  x == WriteRun(g, chars, a)  c == x.col + n
<1>1. g.w = w /\ g.h = h /\ g.row \in Nat /\ g.col \in Nat
  BY GridIs
<1>2. Len(run) \in Nat /\ i \in Nat /\ i <= Len(run)
  OBVIOUS
<1>3. n \in Nat \ {0} /\ g.col + n <= w /\ PlainFor(run, i, n)
  BY <1>1, AheadPlain
<1>4. g.col + n <= w
  BY <1>3
<1>5. n \in Nat \ {0} /\ i + n <= Len(run) /\ \A k \in 1..n : run[i + k] \in Narrow
  BY <1>3 DEF PlainFor
<1>6. chars \in Seq(Chars) /\ Len(chars) = n /\ SliceOf(run, i, n, chars)
  BY <1>2, <1>5, Slices
<1> HIDE DEF chars
<1>7. \A k \in 1..n : chars[k] \in Narrow
  BY <1>5, <1>6 DEF SliceOf
<1>8. chars \in [1..n -> Narrow] /\ chars # <<>>
  BY <1>5, <1>6, <1>7
<1>9. x \in GridsOf(R, w, h, b) /\ Kin(g, x)
  <2>1. CASE g.row < h
    BY <1>4, <1>5, <1>6, <1>8, <2>1, Blitting
  <2>2. CASE ~(g.row < h)
    <3>1. g.row = h /\ g.col = 0
      BY <2>2 DEF Settled
    <3> QED  BY <1>5, <1>6, <1>8, <3>1, Missing
  <2> QED  BY <2>1, <2>2
<1>10. RunAt(g, run, i, n, a) = Coled(x, c)
  BY DEF RunAt, Coled, chars
<1> HIDE DEF x
<1>11. x.row = g.row /\ x.col = g.col /\ x.w = w /\ x.h = h /\ c \in Nat /\ c <= w
  BY <1>1, <1>4, <1>5, <1>9 DEF Kin
<1> HIDE DEF c
<1>12. Coled(x, c) \in GridsOf(R, w, h, b) /\ Coled(x, c).row = x.row /\ Coled(x, c).col = c /\ Still(x, Coled(x, c))
  BY <1>9, <1>11, Placing
<1>13. StaysValid(g, Coled(x, c))
  BY <1>1, <1>11, <1>12 DEF StaysValid, CursorValid, Still
<1> QED  BY <1>10, <1>12, <1>13

-----------------------------------------------------------------------------
Stacks == {k \in Seq(Nat) : Len(k) <= KittyDepth}
Flags == {"alternate", "keypad", "keys", "hide", "paste"}
Tracked == {"none", "press", "motion", "button", "any"}
Encodings == {"default", "utf8", "sgr"}
ScreensOf(R, w, h) ==
  [main : GridsOf(R, w, h, Back), alt : GridsOf(R, w, h, 0), attrs : Colours, sattrs : Colours,
   modes : SUBSET Flags, mouse : Tracked, enc : Encodings, insert : BOOLEAN,
   kitty : Stacks, altKitty : Stacks, broken : BOOLEAN]
\* The scrollback of the grid that is on.
BackOn(s) == IF InAlt(s) THEN 0 ELSE Back
Steady(s, t) == StaysValid(s.main, t.main) /\ StaysValid(s.alt, t.alt)

LEMMA SteadySelf == ASSUME NEW s PROVE Steady(s, s)
BY DEF Steady, StaysValid
LEMMA SteadySteady == ASSUME NEW s, NEW t, NEW u, Steady(s, t), Steady(t, u) PROVE Steady(s, u)
BY DEF Steady, StaysValid

LEMMA ScreenIs ==
  ASSUME NEW w \in Nat \ {0}, NEW R \in Shapes(w), NEW h \in Nat \ {0}, NEW s \in ScreensOf(R, w, h)
  PROVE  /\ s.main \in GridsOf(R, w, h, Back) /\ s.alt \in GridsOf(R, w, h, 0)
         /\ s.attrs \in Colours /\ s.sattrs \in Colours /\ s.insert \in BOOLEAN /\ s.broken \in BOOLEAN
         /\ s.kitty \in Stacks /\ s.altKitty \in Stacks
         /\ BackOn(s) \in Nat /\ On(s) \in GridsOf(R, w, h, BackOn(s))
<1>1. Back \in Nat
  BY ScreenAssumption
<1> QED  BY <1>1 DEF ScreensOf, BackOn, On

LEMMA Settling ==
  ASSUME NEW w \in Nat \ {0}, NEW R \in Shapes(w), NEW h \in Nat \ {0}, NEW s \in ScreensOf(R, w, h),
         NEW g \in GridsOf(R, w, h, BackOn(s))
  PROVE  /\ Upon(s, g) \in ScreensOf(R, w, h) /\ On(Upon(s, g)) = g
         /\ Upon(s, g).attrs = s.attrs /\ Upon(s, g).modes = s.modes /\ Upon(s, g).broken = s.broken
         /\ Upon(s, g).insert = s.insert
         /\ IF InAlt(s) THEN Upon(s, g).alt = g /\ Upon(s, g).main = s.main
                        ELSE Upon(s, g).main = g /\ Upon(s, g).alt = s.alt
<1>1. CASE InAlt(s)
  <2>1. Upon(s, g) = [s EXCEPT !.alt = g] /\ BackOn(s) = 0
    BY <1>1 DEF Upon, BackOn
  <2>2. [s EXCEPT !.alt = g].modes = s.modes
    BY DEF ScreensOf
  <2> QED  BY <1>1, <2>1, <2>2 DEF ScreensOf, On, InAlt
<1>2. CASE ~InAlt(s)
  <2>1. Upon(s, g) = [s EXCEPT !.main = g] /\ BackOn(s) = Back
    BY <1>2 DEF Upon, BackOn
  <2>2. [s EXCEPT !.main = g].modes = s.modes
    BY DEF ScreensOf
  <2> QED  BY <1>2, <2>1, <2>2 DEF ScreensOf, On, InAlt
<1> QED  BY <1>1, <1>2

LEMMA Drawn0 ==
  ASSUME NEW w \in Nat \ {0}, NEW R \in Shapes(w), NEW h \in Nat \ {0}, NEW s \in ScreensOf(R, w, h),
         NEW g \in GridsOf(R, w, h, BackOn(s)), StaysValid(On(s), g)
  PROVE  Upon(s, g) \in ScreensOf(R, w, h) /\ Steady(s, Upon(s, g))
<1>1. StaysValid(s.main, s.main) /\ StaysValid(s.alt, s.alt)
  BY DEF StaysValid
<1> QED  BY <1>1, Settling DEF Steady, On

BrokenOff(s) == [s EXCEPT !.broken = TRUE]
LEMMA BreakingOff ==
  ASSUME NEW w \in Nat \ {0}, NEW R \in Shapes(w), NEW h \in Nat \ {0}, NEW s \in ScreensOf(R, w, h)
  PROVE  BrokenOff(s) \in ScreensOf(R, w, h) /\ Steady(s, BrokenOff(s)) /\ BrokenOff(s).broken
BY DEF BrokenOff, ScreensOf, Steady, StaysValid

(* One character.                                                            *)
LEMMA Texting ==
  ASSUME NEW w \in Nat \ {0}, NEW R \in Shapes(w), NEW h \in Nat \ {0}, NEW s \in ScreensOf(R, w, h), NEW c \in Chars
  PROVE  /\ Text(s, c) \in ScreensOf(R, w, h) /\ Steady(s, Text(s, c))
         /\ Text(s, c).broken \/ Settled(On(Text(s, c)), h)
<1> DEFINE g == On(s)  x == Typed(Wrapped(g, CharWidth(c)), c, s.insert, s.attrs)
<1>1. g \in GridsOf(R, w, h, BackOn(s)) /\ BackOn(s) \in Nat /\ s.insert \in BOOLEAN /\ s.attrs \in Colours
  BY ScreenIs
<1>2. CASE s.broken \/ TextBreaks(g, c)
  <2>1. Text(s, c) = BrokenOff(s)
    BY <1>2 DEF Text, BrokenOff
  <2> QED  BY <2>1, BreakingOff
<1>3. CASE ~(s.broken \/ TextBreaks(g, c))
  <2>1. Text(s, c) = Upon(s, x)
    BY <1>3 DEF Text
  <2> HIDE DEF g
  <2>2. x \in GridsOf(R, w, h, BackOn(s)) /\ StaysValid(g, x) /\ Settled(x, h)
    BY <1>1, <1>3, Typing
  <2> HIDE DEF x
  <2> QED  BY <2>1, <2>2, Drawn0, Settling DEF g
<1> QED  BY <1>2, <1>3

CharStep(p, x, c) == Text(x, c)
CharKept(p, k, x) == x \in ScreensOf(p.R, p.w, p.h) /\ Steady(p.s, x)
CharByChar == INSTANCE Folding WITH Step <- CharStep, Keeps <- CharKept
LEMMA PerCharFolds == ASSUME NEW s, NEW run, NEW p
  PROVE PerChar(s, run) = CharByChar!Folded(p, s, run)
BY DEF PerChar, CharStep, CharByChar!Folded, FoldLeft, MapThenFoldSet, CharByChar!FoldLeft,
       CharByChar!MapThenFoldSet, Max, CharByChar!Max

LEMMA PerCharing ==
  ASSUME NEW w \in Nat \ {0}, NEW R \in Shapes(w), NEW h \in Nat \ {0}, NEW s \in ScreensOf(R, w, h), NEW run \in Seq(Chars)
  PROVE  PerChar(s, run) \in ScreensOf(R, w, h) /\ Steady(s, PerChar(s, run))
<1> DEFINE p == [R |-> R, w |-> w, h |-> h, s |-> s]  n == Len(run)
<1>1. p.R = R /\ p.w = w /\ p.h = h /\ p.s = s
  OBVIOUS
<1>2. n \in Nat /\ DOMAIN run = 1..n /\ \A k \in 1..n : run[k] \in Chars
  OBVIOUS
<1> HIDE DEF p, n
<1>3. CharKept(p, 0, s)
  BY <1>1, SteadySelf DEF CharKept
<1>4. ASSUME NEW k \in 1..n, NEW x, CharKept(p, k - 1, x)
      PROVE  CharKept(p, k, CharStep(p, x, run[k]))
  <2>1. x \in ScreensOf(R, w, h) /\ Steady(s, x) /\ run[k] \in Chars
    BY <1>1, <1>2, <1>4 DEF CharKept
  <2>2. Text(x, run[k]) \in ScreensOf(R, w, h) /\ Steady(x, Text(x, run[k]))
    BY <2>1, Texting
  <2> QED  BY <1>1, <2>1, <2>2, SteadySteady DEF CharKept, CharStep
<1>5. CharKept(p, n, CharByChar!Folded(p, s, run))
  BY ONLY <1>2, <1>3, <1>4, CharByChar!FoldKeeps
<1>6. PerChar(s, run) = CharByChar!Folded(p, s, run)
  BY PerCharFolds
<1> QED  BY <1>1, <1>5, <1>6 DEF CharKept

-----------------------------------------------------------------------------
Blit(t, run, i, n) ==
  IF n = 0 THEN [s |-> t, next |-> i + 1]
  ELSE [s |-> Upon(t, RunAt(On(t), run, i, n, t.attrs)), next |-> i + 1 + n]
AheadOf(t, run, i) == IF t.broken \/ t.insert THEN 0 ELSE PlainAhead(On(t), SubSeq(run, i + 1, Len(run)))
RunStep(p, x, i) ==
  IF i < x.next \/ x.s.broken THEN x
  ELSE Blit(Text(x.s, p.run[i]), p.run, i, AheadOf(Text(x.s, p.run[i]), p.run, i))
RunKept(p, k, x) == x.s \in ScreensOf(p.R, p.w, p.h) /\ Steady(p.s, x.s)
RunsFolded == INSTANCE Folding WITH Step <- RunStep, Keeps <- RunKept

LEMMA TextRunFolds == ASSUME NEW s, NEW run, NEW p, p.run = run
  PROVE TextRun(s, run) = RunsFolded!Folded(p, [s |-> s, next |-> 1], Count(Len(run))).s
BY DEF TextRun, Count, RunStep, Blit, AheadOf, RunAt, RunsFolded!Folded, FoldLeft, MapThenFoldSet,
       RunsFolded!FoldLeft, RunsFolded!MapThenFoldSet, Max, RunsFolded!Max

LEMMA Blitted1 ==
  ASSUME NEW w \in Nat \ {0}, NEW R \in Shapes(w), NEW h \in Nat \ {0}, NEW s \in ScreensOf(R, w, h), NEW run \in Seq(Chars), NEW i \in 1..Len(run), s.broken \/ Settled(On(s), h)
  PROVE  /\ Blit(s, run, i, AheadOf(s, run, i)).s \in ScreensOf(R, w, h)
         /\ Steady(s, Blit(s, run, i, AheadOf(s, run, i)).s)
<1> DEFINE g == On(s)  n == AheadOf(s, run, i)  x == RunAt(g, run, i, n, s.attrs)
<1>1. g \in GridsOf(R, w, h, BackOn(s)) /\ BackOn(s) \in Nat /\ s.insert \in BOOLEAN /\ s.attrs \in Colours
  BY ScreenIs
<1>2. CASE n = 0
  <2>1. Blit(s, run, i, n).s = s
    BY <1>2 DEF Blit
  <2> QED  BY <2>1, SteadySelf
<1>3. CASE n # 0
  <2>1. Blit(s, run, i, n).s = Upon(s, x)
    BY <1>3 DEF Blit
  <2>2. n = PlainAhead(g, SubSeq(run, i + 1, Len(run))) /\ Settled(g, h)
    BY <1>3 DEF AheadOf
  <2> HIDE DEF g, n
  <2>3. x \in GridsOf(R, w, h, BackOn(s)) /\ StaysValid(g, x)
    BY <1>1, <1>3, <2>2, Running
  <2> HIDE DEF x
  <2>4. Upon(s, x) \in ScreensOf(R, w, h) /\ Steady(s, Upon(s, x))
    BY <2>3, Drawn0 DEF g
  <2> QED  BY <2>1, <2>4 DEF n
<1> QED  BY <1>2, <1>3

LEMMA TextRuns ==
  ASSUME NEW w \in Nat \ {0}, NEW R \in Shapes(w), NEW h \in Nat \ {0}, NEW s \in ScreensOf(R, w, h), NEW run \in Seq(Chars)
  PROVE  TextRun(s, run) \in ScreensOf(R, w, h) /\ Steady(s, TextRun(s, run))
<1> DEFINE p == [R |-> R, w |-> w, h |-> h, s |-> s, run |-> run]  n == Len(run)
           base == [s |-> s, next |-> 1]
<1>1. p.R = R /\ p.w = w /\ p.h = h /\ p.s = s /\ p.run = run /\ base.s = s
  OBVIOUS
<1>2. n \in Nat /\ DOMAIN Count(n) = 1..n /\ \A k \in 1..n : run[k] \in Chars
  BY DEF Count
<1>3. TextRun(s, run) = RunsFolded!Folded(p, base, Count(n)).s
  BY <1>1, TextRunFolds
<1> HIDE DEF p, base
<1>4. RunKept(p, 0, base)
  BY <1>1, SteadySelf DEF RunKept
<1>5. ASSUME NEW k \in 1..n, NEW x, RunKept(p, k - 1, x)
      PROVE  RunKept(p, k, RunStep(p, x, Count(n)[k]))
  <2> DEFINE t == Text(x.s, run[k])  y == Blit(t, run, k, AheadOf(t, run, k))
  <2>1. x.s \in ScreensOf(R, w, h) /\ Steady(s, x.s) /\ run[k] \in Chars /\ k \in 1..Len(run)
    BY <1>1, <1>2, <1>5 DEF RunKept
  <2>2. Count(n)[k] = k
    BY DEF Count
  <2>3. RunStep(p, x, k) = x \/ RunStep(p, x, k) = y
    BY <1>1 DEF RunStep
  <2>4. t \in ScreensOf(R, w, h) /\ Steady(x.s, t) /\ (t.broken \/ Settled(On(t), h))
    BY <2>1, Texting
  <2> HIDE DEF t, n
  <2>5. y.s \in ScreensOf(R, w, h) /\ Steady(t, y.s)
    BY <2>1, <2>4, Blitted1
  <2> HIDE DEF y
  <2>6. Steady(s, y.s)
    BY <2>1, <2>4, <2>5, SteadySteady
  <2> QED  BY <1>1, <1>5, <2>2, <2>3, <2>5, <2>6 DEF RunKept
<1> HIDE DEF n
<1>6. RunKept(p, n, RunsFolded!Folded(p, base, Count(n)))
  BY ONLY <1>2, <1>4, <1>5, RunsFolded!FoldKeeps
<1> QED  BY <1>1, <1>3, <1>6 DEF RunKept

-----------------------------------------------------------------------------
RowsOf(whole, w) == IF whole THEN WholeRows(w) ELSE FitRows(w)
LEMMA RowsAreShaped ==
  ASSUME NEW w \in Nat \ {0}, NEW whole \in BOOLEAN
  PROVE  /\ RowsOf(whole, w) \in Shapes(w) /\ RowsOf(whole, w) \subseteq AnyRows(w)
         /\ RowsOf(whole, w) \subseteq FitRows(w) /\ NewRow(w, Plain) \in RowsOf(whole, w)
<1>1. RowsOf(whole, w) \in Shapes(w)
  BY DEF RowsOf, Shapes
<1> QED  BY <1>1, ShapesAre, NewRows, Kinds

(* The rows of a line as they are laid out, cell by cell.                    *)
Laid(row, j, cell, w) ==
  [row EXCEPT !.size = j + 1, !.cells = IF j < w THEN [row.cells EXCEPT ![j] = cell] ELSE row.cells]
Begun(cell, w) == [NewRow(w, Plain) EXCEPT !.size = 1, !.cells[0] = cell]
Passed(row) == [row EXCEPT !.wrapped = TRUE]
LayStep(p, x, cell) ==
  IF x.j + CellWidth(cell) <= p.w
          THEN [rows |-> x.rows, j |-> x.j + 1, row |-> Laid(x.row, x.j, cell, p.w)]
          ELSE [rows |-> Append(x.rows, Passed(x.row)), j |-> 1,
                row |-> Begun(cell, p.w)]
LayStates(w, whole) == [rows : Seq(RowsOf(whole, w)), row : RowsOf(whole, w), j : Nat]
LayBase(w) == [rows |-> <<>>, row |-> NewRow(w, Plain), j |-> 0]
\* What comes after the last cell is blank.
BlankFrom(w, row, j) == \A i \in 0..w-1 : i >= j => row.cells[i].text = <<>>
LastIs(w, row, j, cell) == \A i \in 0..w-1 : i = j - 1 => row.cells[i] = cell
LayKept(p, k, x) ==
  /\ x \in LayStates(p.w, p.whole)
  /\ BlankFrom(p.w, x.row, x.j)
  /\ x.j > 0 => k > 0 /\ LastIs(p.w, x.row, x.j, p.line[k])
Lays == INSTANCE Folding WITH Step <- LayStep, Keeps <- LayKept

LEMMA LayoutFolds == ASSUME NEW line, NEW w, NEW p, p.w = w
  PROVE Layout(line, w) = LET end == Lays!Folded(p, LayBase(w), line) IN Append(end.rows, end.row)
BY DEF Layout, LayBase, LayStep, Laid, Begun, Passed, Lays!Folded, FoldLeft, MapThenFoldSet, Lays!FoldLeft,
       Lays!MapThenFoldSet, Max, Lays!Max

LEMMA LaidIs ==
  ASSUME NEW w \in Nat \ {0}, NEW row \in AnyRows(w), NEW j \in Nat, NEW cell \in Cells
  PROVE  /\ Laid(row, j, cell, w) \in AnyRows(w)
         /\ \A i \in 0..w-1 : Laid(row, j, cell, w).cells[i] = IF i = j THEN cell ELSE row.cells[i]
<1> DEFINE new == IF j < w THEN [row.cells EXCEPT ![j] = cell] ELSE row.cells
<1>1. Laid(row, j, cell, w) = [row EXCEPT !.size = j + 1, !.cells = new]
  BY DEF Laid
<1>2. new \in [0..w-1 -> Cells] /\ \A i \in 0..w-1 : new[i] = IF i = j THEN cell ELSE row.cells[i]
  BY DEF AnyRows
<1> HIDE DEF new
<1> DEFINE m == j + 1  y == [row EXCEPT !.size = m, !.cells = new]
<1>3. m \in Nat
  OBVIOUS
<1> HIDE DEF m
<1>4. y \in AnyRows(w) /\ y.cells = new
  BY <1>2, <1>3 DEF AnyRows
<1> HIDE DEF y
<1> QED  BY <1>1, <1>2, <1>4 DEF y, m
LEMMA BegunIs ==
  ASSUME NEW w \in Nat \ {0}, NEW cell \in Cells
  PROVE  /\ Begun(cell, w) \in AnyRows(w)
         /\ \A i \in 0..w-1 : Begun(cell, w).cells[i] = IF i = 0 THEN cell ELSE Blank(Plain)
<1> DEFINE row == NewRow(w, Plain)  new == [row.cells EXCEPT ![0] = cell]
<1>1. Begun(cell, w) = [row EXCEPT !.size = 1, !.cells = new]
  BY DEF Begun
<1>2. row \in AnyRows(w) /\ \A i \in 0..w-1 : row.cells[i] = Blank(Plain)
  BY NewRows, ShapesAre, RowsAreShaped DEF NewRow
<1> HIDE DEF row
<1>3. new \in [0..w-1 -> Cells] /\ \A i \in 0..w-1 : new[i] = IF i = 0 THEN cell ELSE Blank(Plain)
  BY <1>2 DEF AnyRows
<1> HIDE DEF new
<1> DEFINE y == [row EXCEPT !.size = 1, !.cells = new]
<1>4. y \in AnyRows(w) /\ y.cells = new
  BY <1>2, <1>3 DEF AnyRows
<1> HIDE DEF y
<1> QED  BY <1>1, <1>3, <1>4 DEF y

-----------------------------------------------------------------------------
WholeLine(line) == \A k \in 1..Len(line)-1 : IsWide(line[k]) => line[k+1].text = <<>>
LaysOut(line, w) == w > 1 \/ \A k \in 1..Len(line) : ~IsWide(line[k])

LEMMA Widest == ASSUME NEW cell PROVE CellWidth(cell) \in 0..2 /\ (IsWide(cell) <=> CellWidth(cell) = 2)
BY DEF CellWidth, CharWidth, IsWide

\* A wide cell just before the column is followed by one that shows nothing.
Follows(w, row, j, cell) == \A i \in 0..w-1 : i = j - 1 /\ IsWide(row.cells[i]) => cell.text = <<>>

LEMMA LaidRow ==
  ASSUME NEW w \in Nat \ {0}, NEW whole \in BOOLEAN, NEW row \in RowsOf(whole, w), NEW j \in Nat, NEW cell \in Cells,
         j + CellWidth(cell) <= w,
         BlankFrom(w, row, j), whole => Follows(w, row, j, cell)
  PROVE  /\ Laid(row, j, cell, w) \in RowsOf(whole, w)
         /\ BlankFrom(w, Laid(row, j, cell, w), j + 1) /\ LastIs(w, Laid(row, j, cell, w), j + 1, cell)
<1> DEFINE new == Laid(row, j, cell, w)
<1>1. row \in AnyRows(w) /\ row \in FitRows(w)
  BY RowsAreShaped
<1>2. /\ new \in AnyRows(w)
      /\ \A i \in 0..w-1 : new.cells[i] = IF i = j THEN cell ELSE row.cells[i]
  BY <1>1, LaidIs
<1> HIDE DEF new
<1>3. CellWidth(cell) \in 0..2 /\ (IsWide(cell) <=> CellWidth(cell) = 2)
  BY Widest
<1>4. new \in FitRows(w)
  <2> SUFFICES ASSUME NEW i \in 0..w-1, IsWide(new.cells[i]) PROVE i + 1 < w
    BY <1>2 DEF FitRows
  <2>1. CASE i = j
    BY <1>2, <1>3, <2>1
  <2>2. CASE i # j
    BY <1>1, <1>2, <2>2 DEF FitRows
  <2> QED  BY <2>1, <2>2
<1>5. ASSUME whole PROVE new \in WholeRows(w)
  <2> SUFFICES ASSUME NEW i \in 0..w-2, IsWide(new.cells[i]) PROVE new.cells[i+1].text = <<>>
    BY <1>4 DEF WholeRows
  <2>0. i \in 0..w-1 /\ i + 1 \in 0..w-1
    OBVIOUS
  <2>1. CASE i = j
    BY <1>2, <2>0, <2>1 DEF BlankFrom
  <2>2. CASE i = j - 1
    BY <1>2, <1>5, <2>0, <2>2 DEF Follows
  <2>3. CASE i # j /\ i # j - 1
    <3>1. row \in WholeRows(w)
      BY <1>5 DEF RowsOf
    <3>2. IsWide(row.cells[i])
      BY <1>2, <2>0, <2>3
    <3>3. row.cells[i+1].text = <<>>
      BY <3>1, <3>2 DEF WholeRows
    <3> QED  BY <1>2, <2>0, <2>3, <3>3
  <2> QED  BY <2>1, <2>2, <2>3
<1>6. new \in RowsOf(whole, w)
  BY <1>4, <1>5 DEF RowsOf
<1>7. BlankFrom(w, new, j + 1)
  BY <1>2 DEF BlankFrom
<1>8. LastIs(w, new, j + 1, cell)
  BY <1>2 DEF LastIs
<1> QED  BY <1>6, <1>7, <1>8 DEF new

LEMMA BegunRow ==
  ASSUME NEW w \in Nat \ {0}, NEW whole \in BOOLEAN, NEW cell \in Cells, w > 1 \/ ~IsWide(cell)
  PROVE  /\ Begun(cell, w) \in RowsOf(whole, w)
         /\ BlankFrom(w, Begun(cell, w), 1) /\ LastIs(w, Begun(cell, w), 1, cell)
<1> DEFINE new == Begun(cell, w)
<1>1. /\ new \in AnyRows(w)
      /\ \A i \in 0..w-1 : new.cells[i] = IF i = 0 THEN cell ELSE Blank(Plain)
  BY BegunIs
<1> HIDE DEF new
<1>2. Blank(Plain).text = <<>> /\ ~IsWide(Blank(Plain))
  BY Blanks, Kinds
<1>3. new \in FitRows(w)
  BY <1>1, <1>2 DEF FitRows
<1>4. new \in WholeRows(w)
  <2> SUFFICES ASSUME NEW i \in 0..w-2, IsWide(new.cells[i]) PROVE new.cells[i+1].text = <<>>
    BY <1>3 DEF WholeRows
  <2>1. i \in 0..w-1 /\ i + 1 \in 0..w-1 /\ i + 1 # 0
    OBVIOUS
  <2> QED  BY <1>1, <1>2, <2>1
<1>5. new \in RowsOf(whole, w)
  BY <1>3, <1>4 DEF RowsOf
<1>6. BlankFrom(w, new, 1) /\ LastIs(w, new, 1, cell)
  BY <1>1, <1>2 DEF BlankFrom, LastIs
<1> QED  BY <1>5, <1>6 DEF new

LEMMA PassedRow ==
  ASSUME NEW w \in Nat \ {0}, NEW whole \in BOOLEAN, NEW row \in RowsOf(whole, w)
  PROVE  Passed(row) \in RowsOf(whole, w)
<1>1. row \in AnyRows(w) /\ row \in FitRows(w) /\ (whole => row \in WholeRows(w))
  BY RowsAreShaped DEF RowsOf
<1>2. Passed(row) \in AnyRows(w) /\ Passed(row).cells = row.cells
  BY <1>1 DEF AnyRows, Passed
<1>3. Passed(row) \in FitRows(w)
  BY <1>1, <1>2 DEF FitRows
<1>4. whole => Passed(row) \in WholeRows(w)
  BY <1>1, <1>2, <1>3 DEF WholeRows
<1> QED  BY <1>3, <1>4 DEF RowsOf

LEMMA Appended == ASSUME NEW R, NEW s \in Seq(R), NEW e \in R PROVE Append(s, e) \in Seq(R)
OBVIOUS

LEMMA Laying ==
  ASSUME NEW p, NEW w \in Nat \ {0}, NEW whole \in BOOLEAN, p.w = w, p.whole = whole, NEW n \in Nat,
         NEW k \in 1..n, p.line[k] \in Cells, NEW x, LayKept(p, k - 1, x),
         whole /\ k > 1 /\ IsWide(p.line[k - 1]) => p.line[k].text = <<>>,
         w > 1 \/ ~IsWide(p.line[k])
  PROVE  LayKept(p, k, LayStep(p, x, p.line[k]))
<1> DEFINE cell == p.line[k]  y == LayStep(p, x, cell)  Q == RowsOf(whole, w)
<1>1. /\ x.rows \in Seq(Q) /\ x.row \in Q /\ x.j \in Nat /\ BlankFrom(w, x.row, x.j)
      /\ x.j > 0 => k - 1 > 0 /\ LastIs(w, x.row, x.j, p.line[k - 1])
  BY DEF LayKept, LayStates
<1>2. whole => Follows(w, x.row, x.j, cell)
  <2> SUFFICES ASSUME NEW i \in 0..w-1, i = x.j - 1, whole, IsWide(x.row.cells[i]) PROVE cell.text = <<>>
    BY DEF Follows
  <2>1. x.j > 0
    BY <1>1
  <2>2. x.row.cells[i] = p.line[k - 1] /\ k > 1
    BY <1>1, <2>1 DEF LastIs
  <2> QED  BY <2>2
<1>3. cell \in Cells /\ (w > 1 \/ ~IsWide(cell)) /\ k > 0
  OBVIOUS
<1> HIDE DEF cell
<1>4. CASE x.j + CellWidth(cell) <= w
  <2> DEFINE row == Laid(x.row, x.j, cell, w)
  <2>1. y = [rows |-> x.rows, j |-> x.j + 1, row |-> row]
    BY <1>4 DEF LayStep
  <2>2. row \in Q /\ BlankFrom(w, row, x.j + 1) /\ LastIs(w, row, x.j + 1, cell)
    BY <1>1, <1>2, <1>3, <1>4, LaidRow
  <2> HIDE DEF row, Q
  <2>3. y.rows = x.rows /\ y.j = x.j + 1 /\ y.row = row
    BY <2>1
  <2>4. y \in [rows : Seq(Q), row : Q, j : Nat]
    BY <1>1, <2>1, <2>2
  <2> HIDE DEF y
  <2> QED  BY <1>3, <2>2, <2>3, <2>4 DEF LayKept, LayStates, y, Q, cell
<1>5. CASE ~(x.j + CellWidth(cell) <= w)
  <2> DEFINE row == Begun(cell, w)  rows == Append(x.rows, Passed(x.row))
  <2>1. y = [rows |-> rows, j |-> 1, row |-> row]
    BY <1>5 DEF LayStep
  <2>2. row \in Q /\ BlankFrom(w, row, 1) /\ LastIs(w, row, 1, cell)
    BY <1>3, BegunRow
  <2>3. Passed(x.row) \in Q
    BY <1>1, PassedRow
  <2> HIDE DEF Q
  <2>4. rows \in Seq(Q)
    BY <1>1, <2>3, Appended
  <2> HIDE DEF row, rows
  <2>5. y.rows = rows /\ y.j = 1 /\ y.row = row
    BY <2>1
  <2>6. y \in [rows : Seq(Q), row : Q, j : Nat]
    BY <2>1, <2>2, <2>4
  <2> HIDE DEF y
  <2> QED  BY <1>3, <2>2, <2>5, <2>6 DEF LayKept, LayStates, y, Q, cell
<1> QED  BY <1>4, <1>5 DEF cell

LEMMA Layouts ==
  ASSUME NEW w \in Nat \ {0}, NEW whole \in BOOLEAN, NEW line \in Seq(Cells),
         whole => WholeLine(line), LaysOut(line, w)
  PROVE  Layout(line, w) \in Seq(RowsOf(whole, w))
<1> DEFINE p == [w |-> w, whole |-> whole, line |-> line]  n == Len(line)  base == LayBase(w)
           Q == RowsOf(whole, w)  end == Lays!Folded(p, base, line)
<1>1. p.w = w /\ p.whole = whole /\ p.line = line
  OBVIOUS
<1>2. n \in Nat /\ DOMAIN line = 1..n /\ \A k \in 1..n : line[k] \in Cells
  OBVIOUS
<1>3. Layout(line, w) = Append(end.rows, end.row)
  BY <1>1, LayoutFolds
<1>4. NewRow(w, Plain) \in Q
  BY RowsAreShaped
<1>5. BlankFrom(w, NewRow(w, Plain), 0)
  BY Blanks, Kinds DEF NewRow, BlankFrom
<1> HIDE DEF p
<1>6. LayKept(p, 0, base)
  <2>1. base.rows = <<>> /\ base.row = NewRow(w, Plain) /\ base.j = 0 /\ <<>> \in Seq(Q)
    BY DEF LayBase
  <2> HIDE DEF Q
  <2>2. base \in [rows : Seq(Q), row : Q, j : Nat]
    BY <1>4, <2>1 DEF LayBase
  <2> HIDE DEF base
  <2> QED  BY <1>1, <1>5, <2>1, <2>2 DEF LayKept, LayStates, Q
<1> HIDE DEF base
<1>7. ASSUME NEW k \in 1..n, NEW x, LayKept(p, k - 1, x)
      PROVE  LayKept(p, k, LayStep(p, x, line[k]))
  <2>1. line[k] \in Cells /\ (w > 1 \/ ~IsWide(line[k]))
    BY <1>2 DEF LaysOut
  <2>2. whole /\ k > 1 /\ IsWide(line[k - 1]) => line[k].text = <<>>
    <3> SUFFICES ASSUME whole, k > 1, IsWide(line[k - 1]) PROVE line[k].text = <<>>
      OBVIOUS
    <3>1. k - 1 \in 1..Len(line)-1 /\ (k - 1) + 1 = k
      BY <1>2
    <3> QED  BY <3>1 DEF WholeLine
  <2> HIDE DEF n
  <2> QED  BY <1>1, <1>2, <1>7, <2>1, <2>2, Laying
<1> HIDE DEF end, n
<1>8. LayKept(p, n, end)
  BY ONLY <1>2, <1>6, <1>7, Lays!FoldKeeps DEF end
<1>9. end.rows \in Seq(Q) /\ end.row \in Q
  BY <1>1, <1>8 DEF LayKept, LayStates
<1> HIDE DEF Q
<1> QED  BY <1>3, <1>9, Appended DEF Q

-----------------------------------------------------------------------------
(* What rows contain, and the lines they are joined to.                      *)
Closed(line) == WholeLine(line) /\ (Len(line) > 0 => ~IsWide(line[Len(line)]))

LEMMA ContentsAre ==
  ASSUME NEW w \in Nat \ {0}, NEW row \in AnyRows(w)
  PROVE  /\ Contents(row) \in Seq(Cells) /\ Len(Contents(row)) = LesserOf(row.size, w)
         /\ \A k \in 1..Len(Contents(row)) : Contents(row)[k] = row.cells[k-1]
<1> DEFINE n == LesserOf(row.size, w)  f == [k \in 1..n |-> row.cells[k-1]]
<1>1. Contents(row) = f
  BY Columns DEF Contents
<1>2. n \in Nat /\ n <= w
  BY Columns DEF LesserOf
<1>3. \A k \in 1..n : row.cells[k-1] \in Cells
  <2> SUFFICES ASSUME NEW k \in 1..n PROVE row.cells[k-1] \in Cells
    OBVIOUS
  <2>1. k - 1 \in 0..w-1
    BY <1>2
  <2> QED  BY <2>1, Columns
<1> HIDE DEF n
<1>4. f \in [1..n -> Cells]
  BY <1>3
<1>5. f \in Seq(Cells) /\ Len(f) = n
  BY <1>2, <1>4, Listing
<1>6. \A k \in 1..Len(f) : f[k] = row.cells[k-1]
  BY <1>5
<1> QED  BY <1>1, <1>5, <1>6 DEF n

LEMMA WholeContents ==
  ASSUME NEW w \in Nat \ {0}, NEW row \in WholeRows(w)
  PROVE  WholeLine(Contents(row)) /\ (row.wrapped /\ ~EndsWithin(row) => Closed(Contents(row)))
<1> DEFINE line == Contents(row)  n == Len(line)
<1>1. row \in FitRows(w) /\ row \in AnyRows(w)
  BY DEF WholeRows, FitRows
<1>2. /\ line \in Seq(Cells) /\ n = LesserOf(row.size, w)
      /\ \A k \in 1..n : line[k] = row.cells[k-1]
  BY <1>1, ContentsAre
<1>3. n \in Nat /\ n <= w /\ n <= row.size /\ (n = w \/ n = row.size) /\ row.size \in Nat
  BY <1>1, <1>2, Columns DEF LesserOf
<1> HIDE DEF line, n
<1>4. WholeLine(line)
  <2> SUFFICES ASSUME NEW k \in 1..n-1, IsWide(line[k]) PROVE line[k+1].text = <<>>
    BY DEF WholeLine, n
  <2>1. k \in 1..n /\ k + 1 \in 1..n /\ (k + 1) - 1 = (k - 1) + 1 /\ k - 1 \in 0..w-2
    BY <1>3
  <2>2. IsWide(row.cells[k-1])
    BY <1>2, <2>1
  <2>3. row.cells[(k-1)+1].text = <<>>
    BY <2>1, <2>2 DEF WholeRows
  <2> QED  BY <1>2, <2>1, <2>3
<1>5. ASSUME row.wrapped, ~EndsWithin(row), n > 0 PROVE ~IsWide(line[n])
  <2>1. n \in 1..n /\ n - 1 \in 0..w-1
    BY <1>3, <1>5
  <2>2. line[n] = row.cells[n-1]
    BY <1>2, <2>1
  <2>3. CASE n = row.size
    <3>1. row.size - 1 \in DOMAIN row.cells
      BY <1>1, <2>1, <2>3, Columns
    <3> QED  BY <1>5, <2>2, <2>3, <3>1 DEF EndsWithin
  <2>4. CASE n = w
    <3>1. ~((n - 1) + 1 < w)
      BY <2>4
    <3> QED  BY <1>1, <2>1, <2>2, <3>1 DEF FitRows
  <2> QED  BY <1>3, <2>3, <2>4
<1> QED  BY <1>4, <1>5 DEF Closed, line, n

LEMMA Joined2 ==
  ASSUME NEW line \in Seq(Cells), NEW more \in Seq(Cells)
  PROVE  /\ line \o more \in Seq(Cells) /\ Len(line \o more) = Len(line) + Len(more)
         /\ \A k \in 1..Len(line) : (line \o more)[k] = line[k]
         /\ \A k \in 1..Len(more) : (line \o more)[Len(line) + k] = more[k]
OBVIOUS

LEMMA Joins ==
  ASSUME NEW line \in Seq(Cells), NEW more \in Seq(Cells), Closed(line), WholeLine(more)
  PROVE  WholeLine(line \o more) /\ (Closed(more) => Closed(line \o more))
<1> DEFINE all == line \o more  m == Len(line)  n == Len(more)
<1>1. /\ m \in Nat /\ n \in Nat /\ Len(all) = m + n
      /\ \A k \in 1..m : all[k] = line[k]
      /\ \A k \in 1..n : all[m + k] = more[k]
  BY Joined2
<1> HIDE DEF all, m, n
<1>2. WholeLine(all)
  <2> SUFFICES ASSUME NEW k \in 1..Len(all)-1, IsWide(all[k]) PROVE all[k+1].text = <<>>
    BY DEF WholeLine
  <2>1. CASE k < m
    <3>1. k \in 1..m /\ k + 1 \in 1..m /\ k \in 1..m-1
      BY <1>1, <2>1
    <3>2. all[k] = line[k] /\ all[k+1] = line[k+1]
      BY <1>1, <3>1
    <3> QED  BY <3>1, <3>2 DEF Closed, WholeLine, m
  <2>2. CASE k = m
    <3>1. k \in 1..m /\ m > 0
      BY <1>1, <2>2
    <3>2. all[k] = line[m]
      BY <1>1, <2>2, <3>1
    <3> QED  BY <2>2, <3>1, <3>2 DEF Closed, m
  <2>3. CASE k > m
    <3> DEFINE j == k - m
    <3>1. j \in 1..n /\ j + 1 \in 1..n /\ j \in 1..n-1 /\ k = m + j /\ k + 1 = m + (j + 1)
      BY <1>1, <2>3
    <3> HIDE DEF j
    <3>2. all[k] = more[j] /\ all[k+1] = more[j+1]
      BY <1>1, <3>1
    <3> QED  BY <3>1, <3>2 DEF WholeLine, n
  <2> QED  BY <1>1, <2>1, <2>2, <2>3
<1>3. ASSUME Closed(more), Len(all) > 0 PROVE ~IsWide(all[Len(all)])
  <2>1. CASE n > 0
    <3>1. n \in 1..n
      BY <1>1, <2>1
    <3>2. all[Len(all)] = more[n]
      BY <1>1, <3>1
    <3> QED  BY <1>3, <2>1, <3>2 DEF Closed, n
  <2>2. CASE n = 0
    <3>1. m \in 1..m /\ m > 0 /\ Len(all) = m
      BY <1>1, <1>3, <2>2
    <3>2. all[Len(all)] = line[m]
      BY <1>1, <3>1
    <3> QED  BY <3>1, <3>2 DEF Closed, m
  <2> QED  BY <1>1, <2>1, <2>2
<1> QED  BY <1>2, <1>3 DEF Closed, all

LEMMA LaysOutJoined ==
  ASSUME NEW line \in Seq(Cells), NEW more \in Seq(Cells), NEW w, LaysOut(line, w), LaysOut(more, w)
  PROVE  LaysOut(line \o more, w)
<1> DEFINE all == line \o more  m == Len(line)  n == Len(more)
<1>1. /\ m \in Nat /\ n \in Nat /\ Len(all) = m + n
      /\ \A k \in 1..m : all[k] = line[k]
      /\ \A k \in 1..n : all[m + k] = more[k]
  BY Joined2
<1> HIDE DEF all, m, n
<1>2. SUFFICES ASSUME ~(w > 1), NEW k \in 1..Len(all) PROVE ~IsWide(all[k])
  BY DEF LaysOut, all
<1>3. CASE k <= m
  <2>1. k \in 1..m
    BY <1>1, <1>3
  <2> QED  BY <1>1, <1>2, <2>1 DEF LaysOut, m
<1>4. CASE k > m
  <2> DEFINE j == k - m
  <2>1. j \in 1..n /\ k = m + j
    BY <1>1, <1>4
  <2> HIDE DEF j
  <2>2. all[k] = more[j]
    BY <1>1, <2>1
  <2> QED  BY <1>2, <2>1, <2>2 DEF LaysOut, n
<1> QED  BY <1>1, <1>3, <1>4

-----------------------------------------------------------------------------
(* The rows of a grid joined and laid out again.                             *)
FlowStep(p, x, i) ==
  LET line == x.line \o Contents(p.g.rows[i])
      at == IF i - 1 = Row0(p.g) + p.g.row THEN Len(x.rows) ELSE x.at
  IN  IF p.g.rows[i].wrapped /\ i < Len(p.g.rows)
        THEN [x EXCEPT !.line = line, !.at = at]
        ELSE [rows |-> x.rows \o Layout(line, p.w), line |-> <<>>, at |-> at]
FlowBase == [rows |-> <<>>, line |-> <<>>, at |-> 0]
FlowStates(w, whole) == [rows : Seq(RowsOf(whole, w)), line : Seq(Cells), at : Nat]
FlowKept(p, k, x) ==
  x \in FlowStates(p.w, p.whole) /\ (p.whole => Closed(x.line)) /\ LaysOut(x.line, p.w)
Flows == INSTANCE Folding WITH Step <- FlowStep, Keeps <- FlowKept

LEMMA ReflowFolds == ASSUME NEW g, NEW w, NEW p, p.w = w, p.g = g
  PROVE Reflow(g, w) = Flows!Folded(p, FlowBase, Count(Kept(g)))
BY DEF Reflow, FlowBase, FlowStep, Count, Flows!Folded, FoldLeft, MapThenFoldSet, Flows!FoldLeft,
       Flows!MapThenFoldSet, Max, Flows!Max

\* A row that goes on below ends with a whole character.
Untorn(row) == row.wrapped => ~EndsWithin(row)
LEMMA Catenated == ASSUME NEW R, NEW s \in Seq(R), NEW t \in Seq(R) PROVE s \o t \in Seq(R) /\ Len(s) \in Nat
OBVIOUS
LEMMA NoLine == ASSUME NEW w PROVE <<>> \in Seq(Cells) /\ Closed(<<>>) /\ LaysOut(<<>>, w)
BY DEF Closed, WholeLine, LaysOut

LEMMA Flowing ==
  ASSUME NEW p, NEW w \in Nat \ {0}, NEW whole \in BOOLEAN, p.w = w, p.whole = whole,
         NEW v \in Nat \ {0}, NEW i, NEW x, FlowKept(p, i - 1, x),
         p.g.rows[i] \in RowsOf(whole, v), whole => Untorn(p.g.rows[i]), LaysOut(Contents(p.g.rows[i]), w)
  PROVE  FlowKept(p, i, FlowStep(p, x, i))
<1> DEFINE row == p.g.rows[i]  more == Contents(row)  line == x.line \o more
           at == IF i - 1 = Row0(p.g) + p.g.row THEN Len(x.rows) ELSE x.at
           y == FlowStep(p, x, i)  Q == RowsOf(whole, w)
<1>1. /\ x \in [rows : Seq(Q), line : Seq(Cells), at : Nat]
      /\ whole => Closed(x.line)
      /\ LaysOut(x.line, w)
  BY DEF FlowKept, FlowStates
<1>2. row \in AnyRows(v) /\ (whole => row \in WholeRows(v))
  BY RowsAreShaped DEF RowsOf
<1> HIDE DEF row
<1>3. more \in Seq(Cells) /\ (whole => WholeLine(more)) /\ (whole /\ row.wrapped => Closed(more))
  BY <1>2, ContentsAre, WholeContents DEF Untorn, row
<1>4. LaysOut(more, w)
  BY DEF row
<1> HIDE DEF more
<1>5. x.rows \in Seq(Q) /\ x.line \in Seq(Cells) /\ x.at \in Nat
  BY <1>1
<1>6. line \in Seq(Cells) /\ LaysOut(line, w)
  BY <1>1, <1>3, <1>4, <1>5, Joined2, LaysOutJoined
<1>7. (whole => WholeLine(line)) /\ (whole /\ row.wrapped => Closed(line))
  BY <1>1, <1>3, <1>5, Joins
<1> HIDE DEF line, Q
<1>8. at \in Nat
  BY <1>5, Catenated
<1> HIDE DEF at
<1>9. CASE row.wrapped /\ i < Len(p.g.rows)
  <2>1. y = [x EXCEPT !.line = line, !.at = at]
    BY <1>9 DEF FlowStep, row, more, line, at
  <2>2. y \in [rows : Seq(Q), line : Seq(Cells), at : Nat] /\ y.line = line
    BY <1>1, <1>6, <1>8, <2>1
  <2> HIDE DEF y
  <2> QED  BY <1>6, <1>7, <1>9, <2>2 DEF FlowKept, FlowStates, y, Q
<1>10. CASE ~(row.wrapped /\ i < Len(p.g.rows))
  <2> DEFINE rows == x.rows \o Layout(line, w)
  <2>1. y = [rows |-> rows, line |-> <<>>, at |-> at]
    BY <1>10 DEF FlowStep, row, more, line, at
  <2>2. Layout(line, w) \in Seq(Q)
    BY <1>6, <1>7, Layouts DEF Q
  <2>3. rows \in Seq(Q)
    BY <1>5, <2>2, Catenated
  <2> HIDE DEF rows
  <2>4. <<>> \in Seq(Cells) /\ Closed(<<>>) /\ LaysOut(<<>>, w)
    BY NoLine
  <2>5. y \in [rows : Seq(Q), line : Seq(Cells), at : Nat] /\ y.line = <<>>
    BY <1>8, <2>1, <2>3, <2>4
  <2> HIDE DEF y
  <2> QED  BY <2>4, <2>5 DEF FlowKept, FlowStates, y, Q
<1> QED  BY <1>9, <1>10

LEMMA Reflowed ==
  ASSUME NEW v \in Nat \ {0}, NEW h \in Nat \ {0}, NEW b \in Nat, NEW whole \in BOOLEAN,
         NEW g \in GridsOf(RowsOf(whole, v), v, h, b), NEW w \in Nat \ {0}, ReflowEnds(g, w),
         whole => \A i \in DOMAIN g.rows : Untorn(g.rows[i])
  PROVE  Reflow(g, w).rows \in Seq(RowsOf(whole, w)) /\ Reflow(g, w).at \in Nat
<1> DEFINE p == [g |-> g, w |-> w, whole |-> whole]  n == Kept(g)  base == FlowBase  seq == Count(n)
           end == Flows!Folded(p, base, seq)
<1>1. p.g = g /\ p.w = w /\ p.whole = whole
  OBVIOUS
<1> HIDE DEF p
<1>2. Reflow(g, w) = end
  BY <1>1, ReflowFolds
<1>3. g.rows \in Seq(RowsOf(whole, v)) /\ DOMAIN g.rows = 1..Len(g.rows)
  BY RowsAre
<1>4. Len(g.rows) \in Nat /\ Row0(g) \in Nat /\ g.used \in Nat
  BY HeightIs, GridIs
<1>5. n \in Nat /\ n <= Len(g.rows)
  BY <1>4 DEF Kept, LesserOf
<1>6. DOMAIN seq = 1..n /\ \A k \in 1..n : seq[k] = k
  BY DEF Count
<1>7. FlowKept(p, 0, base)
  <2>1. base \in FlowStates(w, whole) /\ base.line = <<>>
    BY DEF FlowBase, FlowStates
  <2> HIDE DEF base
  <2> QED  BY <1>1, <2>1, NoLine DEF FlowKept
<1> HIDE DEF base, seq
<1>8. ASSUME NEW k \in 1..n, NEW x, FlowKept(p, k - 1, x)
      PROVE  FlowKept(p, k, FlowStep(p, x, seq[k]))
  <2>1. k \in DOMAIN g.rows /\ g.rows[k] \in RowsOf(whole, v)
    BY <1>3, <1>5
  <2>2. g.rows[k] \in AnyRows(v)
    BY <2>1, RowsAreShaped
  <2>3. Contents(g.rows[k]) \in Seq(Cells)
    BY <2>2, ContentsAre
  <2>4. DOMAIN Contents(g.rows[k]) = 1..Len(Contents(g.rows[k]))
    BY <2>3
  <2>5. LaysOut(Contents(g.rows[k]), w)
    BY <2>4 DEF LaysOut, ReflowEnds
  <2>6. whole => Untorn(g.rows[k])
    BY <2>1
  <2>7. FlowKept(p, k, FlowStep(p, x, k))
    BY <1>1, <1>8, <2>1, <2>5, <2>6, Flowing
  <2> QED  BY <1>6, <2>7
<1> HIDE DEF end, n
<1>9. FlowKept(p, n, end)
  BY ONLY <1>5, <1>6, <1>7, <1>8, Flows!FoldKeeps DEF end
<1> QED  BY <1>1, <1>2, <1>9 DEF FlowKept, FlowStates

-----------------------------------------------------------------------------
(* A new size.                                                               *)
LEMMA Padding ==
  ASSUME NEW Q, NEW kept \in Seq(Q), NEW m \in Nat, NEW row \in Q
  PROVE  /\ kept \o [k \in 1..m |-> row] \in Seq(Q)
         /\ Len(kept \o [k \in 1..m |-> row]) = Len(kept) + m
<1> DEFINE f == [k \in 1..m |-> row]
<1>1. f \in [1..m -> Q]
  OBVIOUS
<1> HIDE DEF f
<1>2. f \in Seq(Q) /\ Len(f) = m
  BY <1>1, Listing
<1> QED  BY <1>2 DEF f

LEMMA Replacement ==
  ASSUME NEW R, NEW v \in Nat \ {0}, NEW u \in Nat \ {0}, NEW b \in Nat, NEW g \in GridsOf(R, v, u, b),
         NEW w \in Nat \ {0}, NEW Q \in Shapes(w), NEW h \in Nat \ {0},
         NEW kept \in Seq(Q), Len(kept) <= b + h, NEW at \in Nat
  PROVE  Placed(g, w, h, kept, at) \in GridsOf(Q, w, h, b) /\ CursorValid(Placed(g, w, h, kept, at))
<1> DEFINE bot == IF g.bot = g.h - 1 THEN h - 1 ELSE LesserOf(g.bot, h - 1)
           rows == kept \o [k \in 1..Minus(h, Len(kept)) |-> NewRow(w, Plain)]
           off == LesserOf(Minus(Len(kept), h), g.off)
           top == IF bot < g.top THEN 0 ELSE g.top
           used == LesserOf(Len(kept), h)
           row == LesserOf(Minus(at, Minus(Len(kept), h)), h - 1)
           col == LesserOf(g.col, w - 1)
           x == [g EXCEPT !.w = w, !.h = h, !.bot = bot, !.rows = rows, !.off = off, !.top = top,
                          !.used = used, !.row = row, !.col = col]
<1>1. Placed(g, w, h, kept, at) = x
  BY DEF Placed
<1>2. /\ g.h = u /\ g.col \in Nat /\ g.top \in Nat /\ g.bot \in Nat /\ g.off \in Nat
      /\ g \in Fields(R, v, u, b)
  BY GridIs DEF GridsOf
<1>3. PICK n \in Nat : n = Len(kept)
  OBVIOUS
<1>4. bot \in Nat /\ bot < h /\ top \in Nat /\ top <= bot
  BY <1>2 DEF LesserOf
<1>5. row \in Nat /\ row < h
  BY <1>3 DEF LesserOf, Minus
<1>6. col \in Nat /\ col <= w
  BY <1>2 DEF LesserOf
<1>7. used \in Nat
  BY <1>3 DEF LesserOf
<1>8. NewRow(w, Plain) \in Q
  BY NewRows, Kinds
<1>9. Minus(h, n) \in Nat
  BY DEF Minus
<1>10. rows \in Seq(Q) /\ Len(rows) = n + Minus(h, n)
  <2> DEFINE m == Minus(h, n)  blank == NewRow(w, Plain)
  <2>1. rows = kept \o [k \in 1..m |-> blank] /\ m \in Nat /\ blank \in Q
    BY <1>3, <1>8, <1>9
  <2> HIDE DEF m, blank, rows
  <2>2. rows \in Seq(Q) /\ Len(rows) = Len(kept) + m
    BY <2>1, Padding
  <2> QED  BY <1>3, <2>2 DEF m
<1>11. off \in Nat /\ off <= Len(rows) - h /\ Len(rows) \in h..(h + b)
  BY <1>2, <1>3, <1>10 DEF LesserOf, Minus
<1> HIDE DEF bot, rows, off, top, used, row, col
<1>12. /\ x \in Fields(Q, w, h, b)
       /\ x.top = top /\ x.bot = bot /\ x.rows = rows /\ x.off = off /\ x.row = row /\ x.col = col
       /\ x.h = h /\ x.w = w
  BY <1>2, <1>4, <1>5, <1>6, <1>7, <1>10, <1>11 DEF Fields
<1> HIDE DEF x
<1>13. x \in GridsOf(Q, w, h, b)
  BY <1>4, <1>11, <1>12 DEF GridsOf
<1>14. CursorValid(x)
  BY <1>5, <1>6, <1>12 DEF CursorValid
<1> QED  BY <1>1, <1>13, <1>14

Untorns(g) == \A i \in DOMAIN g.rows : Untorn(g.rows[i])
LEMMA Resizing ==
  ASSUME NEW v \in Nat \ {0}, NEW u \in Nat \ {0}, NEW b \in Nat, NEW whole \in BOOLEAN,
         NEW g \in GridsOf(RowsOf(whole, v), v, u, b), NEW w \in Nat \ {0}, NEW h \in Nat \ {0},
         ReflowEnds(g, w), whole /\ <<w, h>> # <<v, u>> => Untorns(g)
  PROVE  Resize(g, w, h) \in GridsOf(RowsOf(whole, w), w, h, b) /\ StaysValid(g, Resize(g, w, h))
<1>1. g.w = v /\ g.h = u /\ g.back = b
  BY GridIs
<1>2. CASE <<w, h>> = <<v, u>>
  <2>1. Resize(g, w, h) = g /\ v = w /\ u = h
    BY <1>1, <1>2 DEF Resize
  <2> QED  BY <2>1 DEF StaysValid
<1>3. CASE <<w, h>> # <<v, u>>
  <2> DEFINE flow == Reflow(g, w)  kept == Trim(flow.rows, b + h)  Q == RowsOf(whole, w)
  <2>1. Resize(g, w, h) = Placed(g, w, h, kept, flow.at)
    BY <1>1, <1>3 DEF Resize, Fitted
  <2>2. whole => \A i \in DOMAIN g.rows : Untorn(g.rows[i])
    BY <1>3 DEF Untorns
  <2>3. flow.rows \in Seq(Q) /\ flow.at \in Nat
    BY <2>2, Reflowed
  <2>4. Q \in Shapes(w)
    BY RowsAreShaped
  <2> HIDE DEF flow, Q
  <2>5. PICK m \in Nat : m = b + h
    OBVIOUS
  <2>6. Trim(flow.rows, m) \in Seq(Q) /\ Len(Trim(flow.rows, m)) <= m
    <3>1. /\ Trim(flow.rows, m) \in Seq(Q)
          /\ Len(Trim(flow.rows, m)) = LesserOf(Len(flow.rows), m)
      BY <2>3, Trimming
    <3>2. Len(flow.rows) \in Nat
      BY <2>3
    <3>3. LesserOf(Len(flow.rows), m) <= m
      BY <3>2 DEF LesserOf
    <3> QED  BY <3>1, <3>3
  <2>7. kept \in Seq(Q) /\ Len(kept) <= b + h
    BY <2>5, <2>6
  <2> HIDE DEF kept
  <2>8. Placed(g, w, h, kept, flow.at) \in GridsOf(Q, w, h, b) /\ CursorValid(Placed(g, w, h, kept, flow.at))
    BY <2>3, <2>4, <2>7, Replacement
  <2> QED  BY <2>1, <2>8 DEF StaysValid, Q
<1> QED  BY <1>2, <1>3

-----------------------------------------------------------------------------
(* The steps of a screen whose size stays.                                   *)
\* A cursor that is lost is where it was saved.
Returns(g, x) == CursorValid(g) /\ ~CursorValid(x) => <<x.row, x.col>> = <<g.srow, g.scol>>
Returning(s, t) == Returns(s.main, t.main) /\ Returns(s.alt, t.alt)
Goes(R, w, h, s, t) == t \in ScreensOf(R, w, h) /\ Returning(s, t)

LEMMA SteadyReturns == ASSUME NEW s, NEW t, Steady(s, t) PROVE Returning(s, t)
BY DEF Steady, StaysValid, Returning, Returns
LEMMA GoingOn ==
  ASSUME NEW w \in Nat \ {0}, NEW R \in Shapes(w), NEW h \in Nat \ {0}, NEW s \in ScreensOf(R, w, h),
         NEW g \in GridsOf(R, w, h, BackOn(s)), StaysValid(On(s), g)
  PROVE  Goes(R, w, h, s, Upon(s, g))
BY Drawn0, SteadyReturns DEF Goes
LEMMA GoingOff ==
  ASSUME NEW w \in Nat \ {0}, NEW R \in Shapes(w), NEW h \in Nat \ {0}, NEW s \in ScreensOf(R, w, h)
  PROVE  Goes(R, w, h, s, s) /\ Goes(R, w, h, s, BrokenOff(s))
BY BreakingOff, SteadySelf, SteadyReturns DEF Goes
LEMMA Argument == ASSUME NEW n \in Counts PROVE n \in Nat /\ n - 1 \in Nat
BY ScreenAssumption
LEMMA ValidStays == ASSUME NEW g, NEW x, CursorValid(x) PROVE StaysValid(g, x)
BY DEF StaysValid

LEMMA Moving ==
  ASSUME NEW w \in Nat \ {0}, NEW R \in Shapes(w), NEW h \in Nat \ {0}, scr \in ScreensOf(R, w, h), Moves
  PROVE  Goes(R, w, h, scr, scr')
<1> DEFINE g == On(scr)  b == BackOn(scr)
<1>1. b \in Nat /\ g \in GridsOf(R, w, h, b) /\ scr.attrs \in Colours
  BY ScreenIs
<1>2. ASSUME NEW x \in GridsOf(R, w, h, b), StaysValid(g, x), scr' = Upon(scr, x)
      PROVE  Goes(R, w, h, scr, scr')
  BY <1>2, GoingOn
<1>3. Goes(R, w, h, scr, scr) /\ Goes(R, w, h, scr, BrokenOff(scr))
  BY GoingOff
<1>4. PICK zero \in Nat, one \in Nat : zero = 0 /\ one = 1
  OBVIOUS
<1>5. g.w = w /\ g.h = h
  BY <1>1, GridIs
<1>6. CASE Backspace
  <2> DEFINE x == Left(g, one)
  <2>1. scr' = Upon(scr, x)
    BY <1>6, <1>4 DEF Backspace, Cursor, Does, g
  <2>2. x \in GridsOf(R, w, h, b) /\ StaysValid(g, x)
    BY <1>1, <1>4, <1>6, Stepping
  <2> HIDE DEF x, g, b
  <2> QED  BY <1>2, <2>1, <2>2
<1>7. CASE TabStop
  <2> DEFINE x == Tab(g)
  <2>1. scr' = Upon(scr, x)
    BY <1>7, <1>4 DEF TabStop, Cursor, Does, g
  <2>2. x \in GridsOf(R, w, h, b) /\ StaysValid(g, x)
    BY <1>1, <1>4, <1>7, Tabs
  <2> HIDE DEF x, g, b
  <2> QED  BY <1>2, <2>1, <2>2
<1>8. CASE LineFeed
  <2> DEFINE x == DownScroll(g, one)
  <2>1. scr' = Upon(scr, x)
    BY <1>8, <1>4 DEF LineFeed, Cursor, Does, g
  <2>2. x \in GridsOf(R, w, h, b) /\ StaysValid(g, x)
    BY <1>1, <1>4, <1>8, ScrollingDown
  <2> HIDE DEF x, g, b
  <2> QED  BY <1>2, <2>1, <2>2
<1>9. CASE Return
  <2> DEFINE x == SetCol(g, zero)
  <2>1. scr' = Upon(scr, x)
    BY <1>9, <1>4 DEF Return, Cursor, Does, g
  <2>2. x \in GridsOf(R, w, h, b) /\ StaysValid(g, x)
    BY <1>1, <1>4, <1>9, Setting
  <2> HIDE DEF x, g, b
  <2> QED  BY <1>2, <2>1, <2>2
<1>10. CASE ReverseIndex
  <2> DEFINE x == UpScroll(g, one)
  <2>1. scr' = Upon(scr, x)
    BY <1>10, <1>4 DEF ReverseIndex, Cursor, Does, g
  <2>2. x \in GridsOf(R, w, h, b) /\ StaysValid(g, x)
    BY <1>1, <1>4, <1>10, ScrollingUp
  <2> HIDE DEF x, g, b
  <2> QED  BY <1>2, <2>1, <2>2
<1>11. ASSUME NEW n \in Counts, CursorUp(n) PROVE Goes(R, w, h, scr, scr')
  <2> DEFINE x == Up(g, n)
  <2>1. scr' = Upon(scr, x)
    BY <1>11, <1>4 DEF CursorUp, Cursor, Does, g
  <2>2. x \in GridsOf(R, w, h, b) /\ StaysValid(g, x)
    BY <1>1, <1>4, <1>11, Argument, Stepping
  <2> HIDE DEF x, g, b
  <2> QED  BY <1>2, <2>1, <2>2
<1>12. ASSUME NEW n \in Counts, CursorDown(n) PROVE Goes(R, w, h, scr, scr')
  <2> DEFINE x == Down(g, n)
  <2>1. scr' = Upon(scr, x)
    BY <1>12, <1>4 DEF CursorDown, Cursor, Does, g
  <2>2. x \in GridsOf(R, w, h, b) /\ StaysValid(g, x)
    BY <1>1, <1>4, <1>12, Argument, Stepping
  <2> HIDE DEF x, g, b
  <2> QED  BY <1>2, <2>1, <2>2
<1>13. ASSUME NEW n \in Counts, CursorRight(n) PROVE Goes(R, w, h, scr, scr')
  <2> DEFINE x == Right(g, n)
  <2>1. scr' = Upon(scr, x)
    BY <1>13, <1>4 DEF CursorRight, Cursor, Does, g
  <2>2. x \in GridsOf(R, w, h, b) /\ StaysValid(g, x)
    BY <1>1, <1>4, <1>13, Argument, Stepping
  <2> HIDE DEF x, g, b
  <2> QED  BY <1>2, <2>1, <2>2
<1>14. ASSUME NEW n \in Counts, CursorLeft(n) PROVE Goes(R, w, h, scr, scr')
  <2> DEFINE x == Left(g, n)
  <2>1. scr' = Upon(scr, x)
    BY <1>14, <1>4 DEF CursorLeft, Cursor, Does, g
  <2>2. x \in GridsOf(R, w, h, b) /\ StaysValid(g, x)
    BY <1>1, <1>4, <1>14, Argument, Stepping
  <2> HIDE DEF x, g, b
  <2> QED  BY <1>2, <2>1, <2>2
<1>15. ASSUME NEW n \in Counts, NextLine(n) PROVE Goes(R, w, h, scr, scr')
  <2> DEFINE y == Down(g, n)  x == SetCol(y, zero)
  <2>1. scr' = Upon(scr, x)
    BY <1>15, <1>4 DEF NextLine, Cursor, Does, g
  <2>2. y \in GridsOf(R, w, h, b) /\ StaysValid(g, y)
    BY <1>1, <1>4, <1>15, Argument, Stepping
  <2> HIDE DEF y
  <2>3. x \in GridsOf(R, w, h, b) /\ StaysValid(y, x)
    BY <1>1, <1>4, <2>2, Setting
  <2> HIDE DEF x, g, b
  <2> QED  BY <1>2, <2>1, <2>2, <2>3, StayingValid
<1>16. ASSUME NEW n \in Counts, PreviousLine(n) PROVE Goes(R, w, h, scr, scr')
  <2> DEFINE y == Up(g, n)  x == SetCol(y, zero)
  <2>1. scr' = Upon(scr, x)
    BY <1>16, <1>4 DEF PreviousLine, Cursor, Does, g
  <2>2. y \in GridsOf(R, w, h, b) /\ StaysValid(g, y)
    BY <1>1, <1>4, <1>16, Argument, Stepping
  <2> HIDE DEF y
  <2>3. x \in GridsOf(R, w, h, b) /\ StaysValid(y, x)
    BY <1>1, <1>4, <2>2, Setting
  <2> HIDE DEF x, g, b
  <2> QED  BY <1>2, <2>1, <2>2, <2>3, StayingValid
<1>17. ASSUME NEW n \in Counts, ToColumn(n) PROVE Goes(R, w, h, scr, scr')
  <2> DEFINE x == SetCol(g, n)
  <2>1. scr' = Upon(scr, x)
    BY <1>17, <1>4 DEF ToColumn, Cursor, Does, g
  <2>2. x \in GridsOf(R, w, h, b) /\ StaysValid(g, x)
    BY <1>1, <1>4, <1>17, Argument, Setting
  <2> HIDE DEF x, g, b
  <2> QED  BY <1>2, <2>1, <2>2
<1>18. ASSUME NEW n \in Counts, ToRow(n) PROVE Goes(R, w, h, scr, scr')
  <2> DEFINE x == SetRow(g, n)
  <2>1. scr' = Upon(scr, x)
    BY <1>18, <1>4 DEF ToRow, Cursor, Does, g
  <2>2. x \in GridsOf(R, w, h, b) /\ StaysValid(g, x)
    BY <1>1, <1>4, <1>18, Argument, Setting
  <2> HIDE DEF x, g, b
  <2> QED  BY <1>2, <2>1, <2>2
<1>19. ASSUME NEW m \in Counts, NEW n \in Counts, Position(m - 1, n - 1) PROVE Goes(R, w, h, scr, scr')
  <2>1. PICK r \in Nat, c \in Nat : r = m - 1 /\ c = n - 1
    BY Argument
  <2> DEFINE x == SetPos(g, r, c)
  <2>2. scr' = Upon(scr, x)
    BY <1>19, <2>1 DEF Position, Cursor, Does, g
  <2>3. x \in GridsOf(R, w, h, b) /\ CursorValid(x)
    BY <1>1, Positions
  <2> HIDE DEF x, g, b
  <2> QED  BY <1>2, <2>2, <2>3, ValidStays
<1>20. ASSUME NEW m \in Counts, NEW n \in Counts, Margins(m - 1, n) PROVE Goes(R, w, h, scr, scr')
  <2>1. PICK r \in Nat, c \in Nat : r = m - 1 /\ c = n
    BY Argument
  <2> DEFINE x == SetRegion(g, r, c)
  <2>2. scr' = Upon(scr, x)
    BY <1>20, <2>1 DEF Margins, Cursor, Does, g
  <2>3. x \in GridsOf(R, w, h, b) /\ CursorValid(x)
    BY <1>1, Regions
  <2> HIDE DEF x, g, b
  <2> QED  BY <1>2, <2>2, <2>3, ValidStays
<1> QED  BY <1>6, <1>7, <1>8, <1>9, <1>10, <1>11, <1>12, <1>13, <1>14, <1>15, <1>16, <1>17, <1>18, <1>19, <1>20 DEF Moves

LEMMA Altering ==
  ASSUME NEW w \in Nat \ {0}, NEW R \in Shapes(w), NEW h \in Nat \ {0}, scr \in ScreensOf(R, w, h), Changes
  PROVE  Goes(R, w, h, scr, scr')
<1> DEFINE g == On(scr)  b == BackOn(scr)
<1>1. b \in Nat /\ g \in GridsOf(R, w, h, b) /\ scr.attrs \in Colours
  BY ScreenIs
<1>2. ASSUME NEW x \in GridsOf(R, w, h, b), StaysValid(g, x), scr' = Upon(scr, x)
      PROVE  Goes(R, w, h, scr, scr')
  BY <1>2, GoingOn
<1>3. Goes(R, w, h, scr, scr) /\ Goes(R, w, h, scr, BrokenOff(scr))
  BY GoingOff
<1>4. PICK zero \in Nat, one \in Nat : zero = 0 /\ one = 1
  OBVIOUS
<1>5. g.w = w /\ g.h = h
  BY <1>1, GridIs
<1>6. ASSUME NEW mode \in 0..2, EraseDisplay(mode) PROVE Goes(R, w, h, scr, scr')
  <2>1. CASE mode = 0 /\ HasRow
    <3> DEFINE x == EraseBelow(g, scr.attrs)
    <3>1. scr' = Upon(scr, x)
      BY <1>6, <2>1 DEF EraseDisplay, Edits, Cursor, Does, HasRow, g
    <3>2. x \in GridsOf(R, w, h, b) /\ Near(g, x)
      BY <1>1, <1>5, <1>6, <2>1, KinNear, ErasedBelow DEF HasRow
    <3> HIDE DEF x, g, b
    <3> QED  BY <1>2, <3>1, <3>2, NearValid
  <2>2. CASE mode = 1 /\ HasRow
    <3> DEFINE x == EraseAbove(g, scr.attrs)
    <3>1. scr' = Upon(scr, x)
      BY <1>6, <2>2 DEF EraseDisplay, Edits, Cursor, Does, HasRow, g
    <3>2. x \in GridsOf(R, w, h, b) /\ Near(g, x)
      BY <1>1, <1>5, <1>6, <2>2, KinNear, ErasedAbove DEF HasRow
    <3> HIDE DEF x, g, b
    <3> QED  BY <1>2, <3>1, <3>2, NearValid
  <2>3. CASE mode = 2
    <3> DEFINE x == EraseAll(g, scr.attrs)
    <3>1. scr' = Upon(scr, x)
      BY <1>6, <2>3 DEF EraseDisplay, Edits, Cursor, Does, HasRow, g
    <3>2. x \in GridsOf(R, w, h, b) /\ Near(g, x)
      BY <1>1, <1>5, <1>6, <2>3, KinNear, ErasedAll DEF HasRow
    <3> HIDE DEF x, g, b
    <3> QED  BY <1>2, <3>1, <3>2, NearValid
  <2>4. CASE ~(mode = 2 \/ HasRow)
    <3>1. scr' = BrokenOff(scr)
      BY <1>6, <2>4 DEF EraseDisplay, Edits, Cursor, Does, BrokenOff
    <3> QED  BY <1>3, <3>1
  <2> QED  BY <1>6, <2>1, <2>2, <2>3, <2>4
<1>7. ASSUME NEW mode \in 0..2, EraseLine(mode) PROVE Goes(R, w, h, scr, scr')
  <2>1. CASE HasRow /\ mode = 0
    <3> DEFINE x == EraseForward(g, scr.attrs)
    <3>1. scr' = Upon(scr, x)
      BY <1>7, <2>1 DEF EraseLine, Edits, Cursor, Does, HasRow, g
    <3>2. x \in GridsOf(R, w, h, b) /\ Near(g, x)
      BY <1>1, <1>5, <1>7, <2>1, KinNear, ErasedForward DEF HasRow
    <3> HIDE DEF x, g, b
    <3> QED  BY <1>2, <3>1, <3>2, NearValid
  <2>2. CASE HasRow /\ mode = 1
    <3> DEFINE x == EraseBackward(g, scr.attrs)
    <3>1. scr' = Upon(scr, x)
      BY <1>7, <2>2 DEF EraseLine, Edits, Cursor, Does, HasRow, g
    <3>2. x \in GridsOf(R, w, h, b) /\ Near(g, x)
      BY <1>1, <1>5, <1>7, <2>2, KinNear, ErasedBackward DEF HasRow
    <3> HIDE DEF x, g, b
    <3> QED  BY <1>2, <3>1, <3>2, NearValid
  <2>3. CASE HasRow /\ mode = 2
    <3> DEFINE x == EraseRow(g, scr.attrs)
    <3>1. scr' = Upon(scr, x)
      BY <1>7, <2>3 DEF EraseLine, Edits, Cursor, Does, HasRow, g
    <3>2. x \in GridsOf(R, w, h, b) /\ Near(g, x)
      BY <1>1, <1>5, <1>7, <2>3, KinNear, ErasedRow DEF HasRow
    <3> HIDE DEF x, g, b
    <3> QED  BY <1>2, <3>1, <3>2, NearValid
  <2>4. CASE ~HasRow
    <3>1. scr' = BrokenOff(scr)
      BY <1>7, <2>4 DEF EraseLine, Edits, Cursor, Does, BrokenOff
    <3> QED  BY <1>3, <3>1
  <2> QED  BY <1>7, <2>1, <2>2, <2>3, <2>4
<1>8. ASSUME NEW n \in Counts, EraseChars(n) PROVE Goes(R, w, h, scr, scr')
  <2>1. CASE HasRow
    <3> DEFINE x == EraseCells(g, n, scr.attrs)
    <3>1. scr' = Upon(scr, x)
      BY <1>8, <2>1 DEF EraseChars, Edits, Cursor, Does, HasRow, g
    <3>2. x \in GridsOf(R, w, h, b) /\ Near(g, x)
      BY <1>1, <1>5, <1>8, <2>1, KinNear, Argument, ErasedCells DEF HasRow
    <3> HIDE DEF x, g, b
    <3> QED  BY <1>2, <3>1, <3>2, NearValid
  <2>2. CASE ~HasRow
    <3>1. scr' = BrokenOff(scr)
      BY <1>8, <2>2 DEF EraseChars, Edits, Cursor, Does, BrokenOff
    <3> QED  BY <1>3, <3>1
  <2> QED  BY <1>8, <2>1, <2>2
<1>9. ASSUME NEW n \in Counts, InsertChars(n) PROVE Goes(R, w, h, scr, scr')
  <2>1. CASE CursorValid(On(scr))
    <3> DEFINE x == InsertCells(g, n)
    <3>1. scr' = Upon(scr, x)
      BY <1>9, <2>1 DEF InsertChars, Edits, Cursor, Does, HasRow, g
    <3>2. x \in GridsOf(R, w, h, b) /\ Near(g, x)
      BY <1>1, <1>5, <1>9, <2>1, KinNear, Argument, InsertedCells DEF CursorValid
    <3> HIDE DEF x, g, b
    <3> QED  BY <1>2, <3>1, <3>2, NearValid
  <2>2. CASE ~CursorValid(On(scr))
    <3>1. scr' = BrokenOff(scr)
      BY <1>9, <2>2 DEF InsertChars, Edits, Cursor, Does, BrokenOff
    <3> QED  BY <1>3, <3>1
  <2> QED  BY <1>9, <2>1, <2>2
<1>10. ASSUME NEW n \in Counts, DeleteChars(n) PROVE Goes(R, w, h, scr, scr')
  <2>1. CASE CursorValid(On(scr))
    <3> DEFINE x == DeleteCells(g, n)
    <3>1. scr' = Upon(scr, x)
      BY <1>10, <2>1 DEF DeleteChars, Edits, Cursor, Does, HasRow, g
    <3>2. x \in GridsOf(R, w, h, b) /\ Near(g, x)
      BY <1>1, <1>5, <1>10, <2>1, KinNear, Argument, DeletedCells DEF HasRow
    <3> HIDE DEF x, g, b
    <3> QED  BY <1>2, <3>1, <3>2, NearValid
  <2>2. CASE ~CursorValid(On(scr))
    <3>1. scr' = BrokenOff(scr)
      BY <1>10, <2>2 DEF DeleteChars, Edits, Cursor, Does, BrokenOff
    <3> QED  BY <1>3, <3>1
  <2> QED  BY <1>10, <2>1, <2>2
<1>11. ASSUME NEW n \in Counts, InsertRows(n) PROVE Goes(R, w, h, scr, scr')
  <2>1. CASE HasRow
    <3> DEFINE x == InsertLines(g, n)
    <3>1. scr' = Upon(scr, x)
      BY <1>11, <2>1 DEF InsertRows, Edits, Cursor, Does, HasRow, g
    <3>2. x \in GridsOf(R, w, h, b) /\ Near(g, x)
      BY <1>1, <1>5, <1>11, <2>1, KinNear, Argument, InsertedLines DEF HasRow
    <3> HIDE DEF x, g, b
    <3> QED  BY <1>2, <3>1, <3>2, NearValid
  <2>2. CASE ~HasRow
    <3>1. scr' = BrokenOff(scr)
      BY <1>11, <2>2 DEF InsertRows, Edits, Cursor, Does, BrokenOff
    <3> QED  BY <1>3, <3>1
  <2> QED  BY <1>11, <2>1, <2>2
<1>12. ASSUME NEW n \in Counts, DeleteRows(n) PROVE Goes(R, w, h, scr, scr')
  <2>1. CASE On(scr).row <= On(scr).h
    <3> DEFINE x == DeleteLines(g, n, scr.attrs)
    <3>1. scr' = Upon(scr, x)
      BY <1>12, <2>1 DEF DeleteRows, Edits, Cursor, Does, HasRow, g
    <3>2. x \in GridsOf(R, w, h, b) /\ Near(g, x)
      BY <1>1, <1>5, <1>12, <2>1, KinNear, Argument, DeletedLines DEF HasRow
    <3> HIDE DEF x, g, b
    <3> QED  BY <1>2, <3>1, <3>2, NearValid
  <2>2. CASE ~(On(scr).row <= On(scr).h)
    <3>1. scr' = BrokenOff(scr)
      BY <1>12, <2>2 DEF DeleteRows, Edits, Cursor, Does, BrokenOff
    <3> QED  BY <1>3, <3>1
  <2> QED  BY <1>12, <2>1, <2>2
<1>13. ASSUME NEW n \in Counts, PanUp(n) PROVE Goes(R, w, h, scr, scr')
  <2> DEFINE x == ScrollUp(g, n)
  <2>1. scr' = Upon(scr, x)
    BY <1>13 DEF PanUp, Cursor, Does, g
  <2>2. x \in GridsOf(R, w, h, b) /\ Near(g, x)
    BY <1>1, <1>13, Argument, ScrolledUp
  <2> HIDE DEF x, g, b
  <2> QED  BY <1>2, <2>1, <2>2, NearValid
<1>14. ASSUME NEW n \in Counts, PanDown(n) PROVE Goes(R, w, h, scr, scr')
  <2> DEFINE x == ScrollDown(g, n)
  <2>1. scr' = Upon(scr, x)
    BY <1>14 DEF PanDown, Cursor, Does, g
  <2>2. x \in GridsOf(R, w, h, b) /\ Near(g, x)
    BY <1>1, <1>14, Argument, ScrolledDown
  <2> HIDE DEF x, g, b
  <2> QED  BY <1>2, <2>1, <2>2, NearValid
<1> QED  BY <1>6, <1>7, <1>8, <1>9, <1>10, <1>11, <1>12, <1>13, <1>14 DEF Changes

-----------------------------------------------------------------------------
(* What leaves the grids as they are.                                        *)
Dressed(s, t) == t.main = s.main /\ t.alt = s.alt
LEMMA Dressing ==
  ASSUME NEW w \in Nat \ {0}, NEW R \in Shapes(w), NEW h \in Nat \ {0}, NEW s \in ScreensOf(R, w, h), NEW t \in ScreensOf(R, w, h), Dressed(s, t)
  PROVE  Goes(R, w, h, s, t) /\ Steady(s, t)
<1>1. Steady(s, t)
  BY SteadySelf DEF Steady, StaysValid, Dressed
<1> QED  BY <1>1, SteadyReturns DEF Goes
Pushed(k, f) == Append(IF Len(k) >= KittyDepth THEN Tail(k) ELSE k, f)
Popped(k, n) == SubSeq(k, 1, Minus(Len(k), n))
LEMMA StacksGrow ==
  ASSUME NEW k \in Stacks, NEW f \in Nat
  PROVE  /\ Pushed(k, f) \in Stacks
         /\ (IF k = <<>> THEN <<f>> ELSE [k EXCEPT ![Len(k)] = f]) \in Stacks
<1>0. k \in Seq(Nat) /\ Len(k) <= KittyDepth /\ KittyDepth \in Nat \ {0}
  BY ScreenAssumption DEF Stacks
<1>1. Append(IF Len(k) >= KittyDepth THEN Tail(k) ELSE k, f) \in Stacks
  <2>1. CASE Len(k) >= KittyDepth
    <3>1. k # <<>>
      BY <1>0, <2>1
    <3> DEFINE q == Tail(k)
    <3>2. q \in Seq(Nat) /\ Len(q) = Len(k) - 1
      BY <1>0, <3>1
    <3> HIDE DEF q
    <3>3. Append(q, f) \in Seq(Nat) /\ Len(Append(q, f)) = Len(q) + 1
      BY <3>2
    <3> QED  BY <1>0, <2>1, <3>2, <3>3 DEF Stacks, q
  <2>2. CASE ~(Len(k) >= KittyDepth)
    <3>1. Append(k, f) \in Seq(Nat) /\ Len(Append(k, f)) = Len(k) + 1 /\ Len(k) \in Nat
      BY <1>0
    <3> QED  BY <1>0, <2>2, <3>1 DEF Stacks
  <2> QED  BY <2>1, <2>2
<1>3. (IF k = <<>> THEN <<f>> ELSE [k EXCEPT ![Len(k)] = f]) \in Stacks
  <2>1. CASE k = <<>>
    <3>1. <<f>> \in Seq(Nat) /\ Len(<<f>>) = 1
      OBVIOUS
    <3> QED  BY <1>0, <2>1, <3>1 DEF Stacks
  <2>2. CASE k # <<>>
    <3>1. PICK i \in Int : i = Len(k)
      BY <1>0
    <3>2. [k EXCEPT ![i] = f] \in Seq(Nat) /\ Len([k EXCEPT ![i] = f]) = Len(k)
      BY <1>0, Replaced
    <3> QED  BY <1>0, <2>2, <3>1, <3>2 DEF Stacks
  <2> QED  BY <2>1, <2>2
<1> QED  BY <1>1, <1>3 DEF Pushed

LEMMA StacksShrink ==
  ASSUME NEW k \in Stacks, NEW n \in Nat
  PROVE  Popped(k, n) \in Stacks
<1>0. k \in Seq(Nat) /\ Len(k) <= KittyDepth /\ KittyDepth \in Nat
  BY ScreenAssumption DEF Stacks
<1>1. PICK l \in Nat : l = Len(k)
  BY <1>0
<1>3. PICK m \in Nat : m = Minus(l, n) /\ m <= l
  BY DEF Minus
<1>2. SubSeq(k, 1, m) \in Seq(Nat) /\ Len(SubSeq(k, 1, m)) = m
  BY <1>0, <1>1, <1>3
<1> QED  BY <1>0, <1>1, <1>2, <1>3 DEF Stacks, Popped

LEMMA Zeros == ASSUME NEW f \in 0..1 PROVE f \in Nat
OBVIOUS
LEMMA StackTop == ASSUME NEW k \in Stacks, k # <<>> PROVE Last(k) \in Nat
BY DEF Stacks, Last

LEMMA Reporting ==
  ASSUME NEW w \in Nat \ {0}, NEW R \in Shapes(w), NEW h \in Nat \ {0}, scr \in ScreensOf(R, w, h), Reports
  PROVE  Goes(R, w, h, scr, scr')
<1>1. ASSUME NEW t \in ScreensOf(R, w, h), Dressed(scr, t), scr' = t PROVE Goes(R, w, h, scr, scr')
  BY <1>1, Dressing
<1>2. scr.kitty \in Stacks
  BY ScreenIs
<1>3. CASE Bell
  <2> DEFINE t == scr
  <2>1. scr' = t
    BY <1>3 DEF Bell, Does
  <2>2. t \in ScreensOf(R, w, h) /\ Dressed(scr, t)
    BY <1>3 DEF ScreensOf, Dressed, Flags, Tracked, Encodings
  <2> HIDE DEF t
  <2> QED  BY <1>1, <2>1, <2>2
<1>4. CASE Attributes
  <2> DEFINE t == scr
  <2>1. scr' = t
    BY <1>4 DEF Attributes, Does
  <2>2. t \in ScreensOf(R, w, h) /\ Dressed(scr, t)
    BY <1>4 DEF ScreensOf, Dressed, Flags, Tracked, Encodings
  <2> HIDE DEF t
  <2> QED  BY <1>1, <2>1, <2>2
<1>5. CASE KittyQuery
  <2> DEFINE t == scr
  <2>1. scr' = t
    BY <1>5 DEF KittyQuery, Does
  <2>2. t \in ScreensOf(R, w, h) /\ Dressed(scr, t)
    BY <1>5 DEF ScreensOf, Dressed, Flags, Tracked, Encodings
  <2> HIDE DEF t
  <2> QED  BY <1>1, <2>1, <2>2
<1>6. CASE WhereIs
  <2> DEFINE t == scr
  <2>1. scr' = t
    BY <1>6 DEF WhereIs, Does
  <2>2. t \in ScreensOf(R, w, h) /\ Dressed(scr, t)
    BY <1>6 DEF ScreensOf, Dressed, Flags, Tracked, Encodings
  <2> HIDE DEF t
  <2> QED  BY <1>1, <2>1, <2>2
<1>7. ASSUME NEW on \in BOOLEAN, NEW m \in {"keypad", "keys", "hide", "paste"}, Flag(m, on) PROVE Goes(R, w, h, scr, scr')
  <2> DEFINE t == [scr EXCEPT !.modes = IF on THEN @ \cup {m} ELSE @ \ {m}]
  <2>1. scr' = t
    BY <1>7 DEF Flag, Does
  <2>2. t \in ScreensOf(R, w, h) /\ Dressed(scr, t)
    BY <1>7 DEF ScreensOf, Dressed, Flags, Tracked, Encodings
  <2> HIDE DEF t
  <2> QED  BY <1>1, <2>1, <2>2
<1>8. ASSUME NEW on \in BOOLEAN, NEW m \in {"press", "motion"}, Mouse(m, on) PROVE Goes(R, w, h, scr, scr')
  <2> DEFINE t == [scr EXCEPT !.mouse = IF on THEN m ELSE IF @ = m THEN "none" ELSE @]
  <2>1. scr' = t
    BY <1>8 DEF Mouse, Does
  <2>2. t \in ScreensOf(R, w, h) /\ Dressed(scr, t)
    BY <1>8 DEF ScreensOf, Dressed, Flags, Tracked, Encodings
  <2> HIDE DEF t
  <2> QED  BY <1>1, <2>1, <2>2
<1>9. ASSUME NEW on \in BOOLEAN, NEW e \in {"utf8", "sgr"}, MouseEncoding(e, on) PROVE Goes(R, w, h, scr, scr')
  <2> DEFINE t == [scr EXCEPT !.enc = IF on THEN e ELSE IF @ = e THEN "default" ELSE @]
  <2>1. scr' = t
    BY <1>9 DEF MouseEncoding, Does
  <2>2. t \in ScreensOf(R, w, h) /\ Dressed(scr, t)
    BY <1>9 DEF ScreensOf, Dressed, Flags, Tracked, Encodings
  <2> HIDE DEF t
  <2> QED  BY <1>1, <2>1, <2>2
<1>10. ASSUME NEW f \in 0..1, KittyPush(f) PROVE Goes(R, w, h, scr, scr')
  <2> DEFINE k == Pushed(scr.kitty, f)
  <2>0. k \in Stacks
    BY <1>10, <1>2, Zeros, StacksGrow
  <2> DEFINE t == [scr EXCEPT !.kitty = k]
  <2>1. scr' = t
    BY <1>10 DEF KittyPush, Does, Pushed, Popped
  <2> HIDE DEF k
  <2>2. t \in ScreensOf(R, w, h) /\ Dressed(scr, t)
    BY <1>10, <2>0 DEF ScreensOf, Dressed, Flags, Tracked, Encodings
  <2> HIDE DEF t
  <2> QED  BY <1>1, <2>1, <2>2
<1>11. ASSUME NEW f \in 0..1, NEW how \in 1..3, KittySet(f, how) PROVE Goes(R, w, h, scr, scr')
  <2> DEFINE stack == scr.kitty
             new(top) == CASE how = 2 -> GreaterOf(top, f) [] how = 3 -> Minus(top, f) [] OTHER -> f
             top == IF stack = <<>> THEN new(0) ELSE new(Last(stack))
             set == IF stack = <<>> THEN <<top>> ELSE [stack EXCEPT ![Len(stack)] = top]
             t == [scr EXCEPT !.kitty = set]
  <2>1. scr' = t
    BY <1>11 DEF KittySet, Does
  <2>2. \A n \in Nat : new(n) \in Nat
    BY <1>11 DEF GreaterOf, Minus
  <2>3. stack # <<>> => Last(stack) \in Nat
    BY <1>2, StackTop
  <2> HIDE DEF new
  <2>4. top \in Nat
    BY <2>2, <2>3
  <2> HIDE DEF top, stack
  <2>5. set \in Stacks
    BY <1>2, <2>4, StacksGrow DEF stack
  <2> HIDE DEF set
  <2>6. t \in ScreensOf(R, w, h) /\ Dressed(scr, t)
    BY <2>5 DEF ScreensOf, Dressed
  <2> HIDE DEF t
  <2> QED  BY <1>1, <2>1, <2>6
<1>12. ASSUME NEW n \in Counts, KittyPop(n) PROVE Goes(R, w, h, scr, scr')
  <2> DEFINE k == Popped(scr.kitty, n)
  <2>0. k \in Stacks
    BY <1>12, <1>2, Zeros, Argument, StacksShrink
  <2> DEFINE t == [scr EXCEPT !.kitty = k]
  <2>1. scr' = t
    BY <1>12 DEF KittyPop, Does, Pushed, Popped
  <2> HIDE DEF k
  <2>2. t \in ScreensOf(R, w, h) /\ Dressed(scr, t)
    BY <1>12, <2>0 DEF ScreensOf, Dressed, Flags, Tracked, Encodings
  <2> HIDE DEF t
  <2> QED  BY <1>1, <2>1, <2>2
<1> QED  BY <1>3, <1>4, <1>5, <1>6, <1>7, <1>8, <1>9, <1>10, <1>11, <1>12 DEF Reports

(* Cursors saved and restored, and the other screen.                          *)
LEMMA Saving ==
  ASSUME NEW w \in Nat \ {0}, NEW R \in Shapes(w), NEW h \in Nat \ {0}, NEW s \in ScreensOf(R, w, h)
  PROVE  Saved(s) \in ScreensOf(R, w, h) /\ Steady(s, Saved(s))
<1> DEFINE x == SaveCursor(On(s))  u == Upon(s, x)  t == [u EXCEPT !.sattrs = s.attrs]
<1>1. x \in GridsOf(R, w, h, BackOn(s)) /\ StaysValid(On(s), x) /\ s.attrs \in Colours
  BY ScreenIs, Cursors
<1> HIDE DEF x
<1>2. u \in ScreensOf(R, w, h) /\ Steady(s, u)
  BY <1>1, Drawn0
<1>3. Saved(s) = t
  BY DEF Saved, x
<1> HIDE DEF u
<1>4. t \in ScreensOf(R, w, h) /\ Dressed(u, t)
  BY <1>1, <1>2 DEF ScreensOf, Dressed
<1> HIDE DEF t
<1>5. Steady(u, t)
  BY <1>2, <1>4, Dressing
<1> QED  BY <1>2, <1>3, <1>4, <1>5, SteadySteady

LEMMA Restoring ==
  ASSUME NEW w \in Nat \ {0}, NEW R \in Shapes(w), NEW h \in Nat \ {0}, NEW s \in ScreensOf(R, w, h)
  PROVE  Goes(R, w, h, s, Restored(s))
<1> DEFINE g == On(s)  x == RestoreCursor(g)  u == Upon(s, x)  t == [u EXCEPT !.attrs = s.sattrs]
<1>0. g \in GridsOf(R, w, h, BackOn(s)) /\ BackOn(s) \in Nat /\ s.sattrs \in Colours
  BY ScreenIs
<1>1. g = On(s)
  OBVIOUS
<1> HIDE DEF g
<1>2. /\ x \in GridsOf(R, w, h, BackOn(s)) /\ x.row = g.srow /\ x.col = g.scol
  BY <1>0, Cursors
<1>3. Restored(s) = t
  BY <1>1 DEF Restored
<1> HIDE DEF x
<1>4. u \in ScreensOf(R, w, h) /\ IF InAlt(s) THEN u.alt = x /\ u.main = s.main ELSE u.main = x /\ u.alt = s.alt
  BY <1>2, Settling
<1> HIDE DEF u
<1>5. t \in ScreensOf(R, w, h) /\ Dressed(u, t)
  BY <1>0, <1>4 DEF ScreensOf, Dressed
<1> HIDE DEF t
<1>6. Returns(g, x) /\ Returns(s.main, s.main) /\ Returns(s.alt, s.alt)
  BY <1>2 DEF Returns
<1>7. Returning(s, t)
  BY <1>1, <1>4, <1>5, <1>6 DEF Returning, Dressed, On
<1> QED  BY <1>3, <1>5, <1>7 DEF Goes

LEMMA Swapping ==
  ASSUME NEW w \in Nat \ {0}, NEW R \in Shapes(w), NEW h \in Nat \ {0}, NEW s \in ScreensOf(R, w, h), NEW modes \in SUBSET Flags
  PROVE  Swapped(s, modes) \in ScreensOf(R, w, h) /\ Dressed(s, Swapped(s, modes))
BY DEF Swapped, ScreensOf, Dressed

LEMMA EnteringAlt ==
  ASSUME NEW w \in Nat \ {0}, NEW R \in Shapes(w), NEW h \in Nat \ {0}, NEW s \in ScreensOf(R, w, h)
  PROVE  EnterAlt(s) \in ScreensOf(R, w, h) /\ Steady(s, EnterAlt(s))
<1> DEFINE x == ScrollView(On(s), 0)  u == Upon(s, x)  modes == s.modes \cup {"alternate"}
<1>1. PICK zero \in Nat : zero = 0
  OBVIOUS
<1>2. ScrollView(On(s), zero) \in GridsOf(R, w, h, BackOn(s)) /\ StaysValid(On(s), ScrollView(On(s), zero))
  BY ScreenIs, Views
<1>3. x \in GridsOf(R, w, h, BackOn(s)) /\ StaysValid(On(s), x)
  BY <1>1, <1>2
<1> HIDE DEF x
<1>4. u \in ScreensOf(R, w, h) /\ Steady(s, u)
  BY <1>3, Drawn0
<1>5. EnterAlt(s) = IF InAlt(s) THEN u ELSE Swapped(u, modes)
  BY DEF EnterAlt, x
<1>6. modes \in SUBSET Flags
  BY DEF ScreensOf, Flags
<1> HIDE DEF u, modes
<1>7. Swapped(u, modes) \in ScreensOf(R, w, h) /\ Dressed(u, Swapped(u, modes))
  BY <1>4, <1>6, Swapping
<1>8. Steady(u, Swapped(u, modes))
  BY <1>4, <1>7, Dressing
<1> QED  BY <1>4, <1>5, <1>7, <1>8, SteadySteady

LEMMA LeavingAlt ==
  ASSUME NEW w \in Nat \ {0}, NEW R \in Shapes(w), NEW h \in Nat \ {0}, NEW s \in ScreensOf(R, w, h)
  PROVE  ExitAlt(s) \in ScreensOf(R, w, h) /\ Dressed(s, ExitAlt(s))
<1> DEFINE modes == s.modes \ {"alternate"}
<1>1. ExitAlt(s) = IF InAlt(s) THEN Swapped(s, modes) ELSE s
  BY DEF ExitAlt
<1>2. modes \in SUBSET Flags
  BY DEF ScreensOf
<1> HIDE DEF modes
<1>3. Swapped(s, modes) \in ScreensOf(R, w, h) /\ Dressed(s, Swapped(s, modes))
  BY <1>2, Swapping
<1> QED  BY <1>1, <1>3 DEF Dressed

LEMMA Clearing ==
  ASSUME NEW w \in Nat \ {0}, NEW R \in Shapes(w), NEW h \in Nat \ {0}, NEW s \in ScreensOf(R, w, h)
  PROVE  [s EXCEPT !.alt = ClearGrid(@)] \in ScreensOf(R, w, h) /\ Steady(s, [s EXCEPT !.alt = ClearGrid(@)])
<1> DEFINE x == ClearGrid(s.alt)  t == [s EXCEPT !.alt = x]
<1>1. PICK zero \in Nat : zero = 0
  OBVIOUS
<1>2. s.alt \in GridsOf(R, w, h, zero)
  BY <1>1, ScreenIs
<1>3. x \in GridsOf(R, w, h, zero) /\ CursorValid(x)
  BY <1>2, ClearedGrids
<1>4. [s EXCEPT !.alt = ClearGrid(@)] = t
  OBVIOUS
<1> HIDE DEF x
<1>5. t \in ScreensOf(R, w, h) /\ t.main = s.main /\ t.alt = x
  BY <1>1, <1>3 DEF ScreensOf
<1>6. Steady(s, t)
  BY <1>3, <1>5 DEF Steady, StaysValid
<1> HIDE DEF t
<1> QED  BY <1>4, <1>5, <1>6

LEMMA NewScreens ==
  ASSUME NEW w \in Nat \ {0}, NEW R \in Shapes(w), NEW h \in Nat \ {0}
  PROVE  /\ NewScreen(w, h) \in ScreensOf(R, w, h)
         /\ CursorValid(NewScreen(w, h).main) /\ CursorValid(NewScreen(w, h).alt)
<1>1. PICK zero \in Nat : zero = 0
  OBVIOUS
<1> DEFINE m == NewGrid(w, h, Back)  a == NewGrid(w, h, 0)
<1>2. m \in GridsOf(R, w, h, Back) /\ CursorValid(m)
  BY NewGrids, ScreenAssumption
<1>3. NewGrid(w, h, zero) \in GridsOf(R, w, h, zero) /\ CursorValid(NewGrid(w, h, zero))
  BY NewGrids
<1>4. a \in GridsOf(R, w, h, 0) /\ CursorValid(a)
  BY <1>1, <1>3 DEF Pushed
<1>5. <<>> \in Stacks /\ Plain \in Colours
  BY ScreenAssumption DEF Stacks
<1>6. NewScreen(w, h) = [main |-> m, alt |-> a, attrs |-> Plain, sattrs |-> Plain,
   modes |-> {}, mouse |-> "none", enc |-> "default", insert |-> FALSE,
   kitty |-> <<>>, altKitty |-> <<>>, broken |-> FALSE]
  BY DEF NewScreen
<1> HIDE DEF m, a
<1> QED  BY <1>2, <1>4, <1>5, <1>6 DEF ScreensOf, Tracked, Encodings

-----------------------------------------------------------------------------
LEMMA Switching ==
  ASSUME NEW w \in Nat \ {0}, NEW R \in Shapes(w), NEW h \in Nat \ {0}, scr \in ScreensOf(R, w, h), Switches
  PROVE  Goes(R, w, h, scr, scr')
<1> DEFINE g == On(scr)  b == BackOn(scr)
<1>1. b \in Nat /\ g \in GridsOf(R, w, h, b) /\ scr.main.w = w /\ scr.main.h = h
  BY ScreenIs, GridIs, ScreenAssumption
<1>2. ASSUME NEW t \in ScreensOf(R, w, h), Steady(scr, t), scr' = t PROVE Goes(R, w, h, scr, scr')
  BY <1>2, SteadyReturns DEF Goes
<1>3. ASSUME NEW t \in ScreensOf(R, w, h), Dressed(scr, t), scr' = t PROVE Goes(R, w, h, scr, scr')
  BY <1>3, Dressing
<1>4. ASSUME NEW on \in BOOLEAN, Alternate(on) PROVE Goes(R, w, h, scr, scr')
  <2>1. CASE on
    <3>1. scr' = EnterAlt(scr)
      BY <1>4, <2>1 DEF Alternate, Does
    <3> QED  BY <1>2, <3>1, EnteringAlt
  <2>2. CASE ~on
    <3>1. scr' = ExitAlt(scr)
      BY <1>4, <2>2 DEF Alternate, Does
    <3> QED  BY <1>3, <3>1, LeavingAlt
  <2> QED  BY <2>1, <2>2
<1>5. ASSUME NEW on \in BOOLEAN, AlternateSaved(on) PROVE Goes(R, w, h, scr, scr')
  <2>1. CASE on
    <3> DEFINE x == Saved(scr)  y == [x EXCEPT !.alt = ClearGrid(@)]  t == EnterAlt(y)
    <3>1. scr' = t
      BY <1>5, <2>1 DEF AlternateSaved, Does
    <3>2. x \in ScreensOf(R, w, h) /\ Steady(scr, x)
      BY Saving
    <3> HIDE DEF x
    <3>3. y \in ScreensOf(R, w, h) /\ Steady(x, y)
      BY <3>2, Clearing
    <3> HIDE DEF y
    <3>4. t \in ScreensOf(R, w, h) /\ Steady(y, t)
      BY <3>3, EnteringAlt
    <3> HIDE DEF t
    <3>5. Steady(scr, y)
      BY <3>2, <3>3, SteadySteady
    <3>6. Steady(scr, t)
      BY <3>4, <3>5, SteadySteady
    <3> QED  BY <1>2, <3>1, <3>4, <3>6
  <2>2. CASE ~on
    <3> DEFINE x == ExitAlt(scr)
    <3>1. scr' = Restored(x)
      BY <1>5, <2>2 DEF AlternateSaved, Does
    <3>2. x \in ScreensOf(R, w, h) /\ Dressed(scr, x)
      BY LeavingAlt
    <3> HIDE DEF x
    <3>3. Goes(R, w, h, x, Restored(x))
      BY <3>2, Restoring
    <3> QED  BY <3>1, <3>2, <3>3 DEF Goes, Returning, Dressed
  <2> QED  BY <2>1, <2>2
<1>6. ASSUME NEW on \in BOOLEAN, Origin(on) PROVE Goes(R, w, h, scr, scr')
  <2> DEFINE x == SetOrigin(g, on)
  <2>1. scr' = Upon(scr, x)
    BY <1>6 DEF Origin, Cursor, Does, g
  <2>2. x \in GridsOf(R, w, h, b) /\ CursorValid(x)
    BY <1>1, Origins
  <2> HIDE DEF x
  <2>3. StaysValid(On(scr), x)
    BY <2>2, ValidStays
  <2> QED  BY <2>1, <2>2, <2>3, GoingOn
<1>7. ASSUME NEW on \in BOOLEAN, InsertMode(on) PROVE Goes(R, w, h, scr, scr')
  <2> DEFINE t == [scr EXCEPT !.insert = on]
  <2>1. scr' = t
    BY <1>7 DEF InsertMode, Does
  <2>2. t \in ScreensOf(R, w, h) /\ Dressed(scr, t)
    BY DEF ScreensOf, Dressed
  <2> HIDE DEF t
  <2> QED  BY <1>3, <2>1, <2>2
<1>8. CASE Save
  <2>1. scr' = Saved(scr)
    BY <1>8 DEF Save, Does
  <2> QED  BY <1>2, <2>1, Saving
<1>9. CASE Restore
  <2>1. scr' = Restored(scr)
    BY <1>9 DEF Restore, Does
  <2> QED  BY <2>1, Restoring
<1>10. CASE Reset
  <2> DEFINE t == NewScreen(w, h)
  <2>1. scr' = t
    BY <1>1, <1>10 DEF Reset, Does
  <2>2. t \in ScreensOf(R, w, h) /\ CursorValid(t.main) /\ CursorValid(t.alt)
    BY NewScreens
  <2> HIDE DEF t
  <2>3. Steady(scr, t)
    BY <2>2, ValidStays DEF Steady
  <2> QED  BY <1>2, <2>1, <2>2, <2>3
<1>11. ASSUME NEW a \in Colours, Colour(a) PROVE Goes(R, w, h, scr, scr')
  <2> DEFINE t == [scr EXCEPT !.attrs = a]
  <2>1. scr' = t
    BY <1>11 DEF Colour, Does
  <2>2. t \in ScreensOf(R, w, h) /\ Dressed(scr, t)
    BY DEF ScreensOf, Dressed
  <2> HIDE DEF t
  <2> QED  BY <1>3, <2>1, <2>2
<1> QED  BY <1>4, <1>5, <1>6, <1>7, <1>8, <1>9, <1>10, <1>11 DEF Switches

Looks == \E n \in Counts : View(n) \/ ViewDown(n)
LEMMA Looking ==
  ASSUME NEW w \in Nat \ {0}, NEW R \in Shapes(w), NEW h \in Nat \ {0}, scr \in ScreensOf(R, w, h), Looks
  PROVE  Goes(R, w, h, scr, scr')
<1> DEFINE g == On(scr)  b == BackOn(scr)
<1>1. b \in Nat /\ g \in GridsOf(R, w, h, b) /\ g.off \in Nat
  BY ScreenIs, GridIs
<1>2. PICK n \in Counts : View(n) \/ ViewDown(n)
  BY DEF Looks
<1>3. PICK m \in Nat : scr' = Upon(scr, ScrollView(g, m))
  <2>1. n \in Nat
    BY Argument
  <2>2. CASE View(n)
    <3>1. scr' = Upon(scr, ScrollView(g, g.off + n)) /\ g.off + n \in Nat
      BY <1>1, <2>1, <2>2 DEF View, Does
    <3> QED  BY <3>1
  <2>3. CASE ViewDown(n)
    <3>1. scr' = Upon(scr, ScrollView(g, Minus(g.off, n)))
      BY <2>3 DEF ViewDown, Does
    <3>2. Minus(g.off, n) \in Nat
      BY <1>1, <2>1 DEF Minus
    <3> QED  BY <3>1, <3>2
  <2> QED  BY <1>2, <2>2, <2>3
<1> DEFINE x == ScrollView(g, m)
<1>4. x \in GridsOf(R, w, h, b) /\ StaysValid(g, x)
  BY <1>1, Views
<1> HIDE DEF x
<1> QED  BY <1>3, <1>4, GoingOn DEF x

LEMMA Outputs ==
  ASSUME NEW w \in Nat \ {0}, NEW R \in Shapes(w), NEW h \in Nat \ {0}, scr \in ScreensOf(R, w, h), Writes
  PROVE  Goes(R, w, h, scr, scr')
<1>1. PICK run \in Runs : scr' = TextRun(scr, run)
  BY DEF Writes, Output, Does
<1>2. run \in Seq(Chars)
  BY ScreenAssumption DEF Chars
<1>3. TextRun(scr, run) \in ScreensOf(R, w, h) /\ Steady(scr, TextRun(scr, run))
  BY <1>2, TextRuns
<1> QED  BY <1>1, <1>3, SteadyReturns DEF Goes

\* A step that changes no size keeps the shape of the screen.
LEMMA Staying ==
  ASSUME NEW w \in Nat \ {0}, NEW R \in Shapes(w), NEW h \in Nat \ {0}, scr \in ScreensOf(R, w, h),
         [ScreenNext]_screenVars, ~\E size \in Sizes : SetSize(size)
  PROVE  Goes(R, w, h, scr, scr')
<1>1. CASE UNCHANGED screenVars
  <2>1. scr' = scr
    BY <1>1 DEF screenVars
  <2> QED  BY <2>1, GoingOff
<1>2. CASE ScreenNext
  <2>1. Writes \/ Moves \/ Changes \/ Switches \/ Reports \/ Looks
    BY <1>2 DEF ScreenNext, User, Looks
  <2> QED  BY <2>1, Outputs, Moving, Altering, Switching, Reporting, Looking
<1> QED  BY <1>1, <1>2

LEMMA Sizing ==
  ASSUME NEW w \in Nat \ {0}, NEW h \in Nat \ {0}, NEW whole \in BOOLEAN, NEW s \in ScreensOf(RowsOf(whole, w), w, h),
         NEW size \in (Nat \ {0}) \X (Nat \ {0}),
         whole /\ size # <<w, h>> => Untorns(s.main) /\ Untorns(s.alt)
  PROVE  \/ Sized(s, size) = BrokenOff(s)
         \/ Goes(RowsOf(whole, size[1]), size[1], size[2], s, Sized(s, size))
<1> DEFINE v == size[1]  u == size[2]
<1>1. v \in Nat \ {0} /\ u \in Nat \ {0} /\ size = <<v, u>>
  OBVIOUS
<1>2. CASE \A side \in {"main", "alt"} : ReflowEnds(s[side], v)
  <2> DEFINE Q == RowsOf(whole, v)  m == Resize(s.main, v, u)  a == Resize(s.alt, v, u)
             t == [s EXCEPT !.main = m, !.alt = a]
  <2>1. Sized(s, size) = t
    BY <1>2 DEF Sized
  <2>2. ReflowEnds(s.main, v) /\ ReflowEnds(s.alt, v)
    BY <1>2
  <2>3. PICK zero \in Nat : zero = 0
    OBVIOUS
  <2>4. RowsOf(whole, w) \in Shapes(w)
    BY RowsAreShaped
  <2>5. /\ s.main \in GridsOf(RowsOf(whole, w), w, h, Back) /\ s.alt \in GridsOf(RowsOf(whole, w), w, h, zero)
        /\ Back \in Nat
    BY <2>3, <2>4, ScreenIs, ScreenAssumption
  <2>6. whole /\ <<v, u>> # <<w, h>> => Untorns(s.main) /\ Untorns(s.alt)
    BY <1>1
  <2> HIDE DEF v, u
  <2>7. m \in GridsOf(Q, v, u, Back) /\ StaysValid(s.main, m)
    BY <1>1, <2>2, <2>5, <2>6, Resizing
  <2>8. a \in GridsOf(Q, v, u, zero) /\ StaysValid(s.alt, a)
    BY <1>1, <2>2, <2>5, <2>6, Resizing
  <2> HIDE DEF m, a, Q
  <2>9. t \in ScreensOf(Q, v, u) /\ t.main = m /\ t.alt = a
    BY <2>3, <2>7, <2>8 DEF ScreensOf
  <2>10. Steady(s, t)
    BY <2>7, <2>8, <2>9 DEF Steady
  <2> HIDE DEF t
  <2> QED  BY <2>1, <2>9, <2>10, SteadyReturns DEF Goes, Q, v, u
<1>3. CASE ~\A side \in {"main", "alt"} : ReflowEnds(s[side], v)
  BY <1>3 DEF Sized, BrokenOff
<1> QED  BY <1>2, <1>3

-----------------------------------------------------------------------------
(* The invariant of the emulator: both grids have one size, and their rows are  *)
(* rows in which a wide character has a second column.                         *)
Shaped == \E w \in Nat \ {0}, h \in Nat \ {0} : scr \in ScreensOf(FitRows(w), w, h)

LEMMA FitRowsAre == ASSUME NEW w \in Nat \ {0}
  PROVE FitRows(w) = RowsOf(FALSE, w) /\ WholeRows(w) = RowsOf(TRUE, w) /\ FitRows(w) \in Shapes(w) /\ WholeRows(w) \in Shapes(w)
BY DEF RowsOf, Shapes

LEMMA ShapedAtFirst == ASSUME ScreenInit PROVE Shaped
<1>1. PICK size \in Sizes, run \in Written : scr = PerChar(NewScreen(size[1], size[2]), run)
  BY DEF ScreenInit
<1>2. PICK w \in Nat \ {0}, h \in Nat \ {0} : w = size[1] /\ h = size[2]
  BY ScreenAssumption
<1>3. run \in Seq(Chars)
  BY ScreenAssumption DEF Chars
<1> DEFINE R == FitRows(w)  s == NewScreen(w, h)
<1>4. R \in Shapes(w)
  BY FitRowsAre
<1> HIDE DEF R
<1>5. s \in ScreensOf(R, w, h)
  BY <1>4, NewScreens
<1> HIDE DEF s
<1>6. PerChar(s, run) \in ScreensOf(R, w, h)
  BY <1>3, <1>4, <1>5, PerCharing
<1>7. scr \in ScreensOf(FitRows(w), w, h)
  BY <1>1, <1>2, <1>6 DEF s, R
<1> QED  BY <1>7 DEF Shaped

LEMMA ShapedNext ==
  ASSUME Shaped, [ScreenNext]_screenVars
  PROVE  Shaped' /\ Returning(scr, scr')
<1>1. PICK w \in Nat \ {0}, h \in Nat \ {0} : scr \in ScreensOf(FitRows(w), w, h)
  BY DEF Shaped
<1> DEFINE R == FitRows(w)
<1>2. R \in Shapes(w) /\ R = RowsOf(FALSE, w) /\ scr \in ScreensOf(R, w, h)
  BY <1>1, FitRowsAre
<1>3. CASE \E size \in Sizes : SetSize(size)
  <2>1. PICK size \in Sizes : scr' = Sized(scr, size)
    BY <1>3 DEF SetSize, Does
  <2>2. size \in (Nat \ {0}) \X (Nat \ {0})
    BY ScreenAssumption
  <2>3. PICK v \in Nat \ {0}, u \in Nat \ {0} : v = size[1] /\ u = size[2]
    BY <2>2
  <2>4. PICK whole \in BOOLEAN : whole = FALSE
    OBVIOUS
  <2>5. scr \in ScreensOf(RowsOf(whole, w), w, h)
    BY <1>2, <2>4
  <2> HIDE DEF R
  <2>6. \/ Sized(scr, size) = BrokenOff(scr)
        \/ Goes(RowsOf(whole, size[1]), size[1], size[2], scr, Sized(scr, size))
    BY <2>2, <2>4, <2>5, Sizing
  <2>7. CASE Sized(scr, size) = BrokenOff(scr)
    <3>1. Goes(R, w, h, scr, BrokenOff(scr))
      BY <1>2, GoingOff
    <3> QED  BY <2>1, <2>7, <3>1 DEF Goes, Shaped, R
  <2>8. CASE Goes(RowsOf(whole, size[1]), size[1], size[2], scr, Sized(scr, size))
    <3>1. Goes(FitRows(v), v, u, scr, scr')
      BY <2>1, <2>3, <2>4, <2>8, FitRowsAre
    <3> QED  BY <3>1 DEF Goes, Shaped
  <2> QED  BY <2>6, <2>7, <2>8
<1>4. CASE ~\E size \in Sizes : SetSize(size)
  <2> HIDE DEF R
  <2>1. Goes(R, w, h, scr, scr')
    BY <1>2, <1>4, Staying
  <2> QED  BY <2>1 DEF Goes, Shaped, R
<1> QED  BY <1>3, <1>4

LEMMA ShapedAlways == ScreenSpec => []Shaped
<1>1. ScreenInit => Shaped
  BY ShapedAtFirst
<1>2. Shaped /\ [ScreenNext]_screenVars => Shaped'
  BY ShapedNext
<1> QED  BY <1>1, <1>2, PTL DEF ScreenSpec

LEMMA GridRows ==
  ASSUME NEW R, NEW w \in Nat \ {0}, NEW h \in Nat \ {0}, NEW b \in Nat, NEW g \in GridsOf(R, w, h, b)
  PROVE  \A i \in DOMAIN g.rows : g.rows[i] \in R
<1>1. g.rows \in Seq(R)
  BY RowsAre
<1> QED  BY <1>1

LEMMA GridSound ==
  ASSUME NEW w \in Nat \ {0}, NEW h \in Nat \ {0}, NEW b \in Nat, NEW g \in GridsOf(FitRows(w), w, h, b)
  PROVE  /\ Len(g.rows) \in g.h..(g.h + g.back)
         /\ \A i \in DOMAIN g.rows : DOMAIN g.rows[i].cells = 0..g.w-1
         /\ g.top <= g.bot /\ g.bot < g.h /\ g.off <= Row0(g)
         /\ <<g.w, g.h>> = <<w, h>>
         /\ \A i \in DOMAIN g.rows : \A j \in 0..g.w-1 : IsWide(g.rows[i].cells[j]) => j + 1 < g.w
<1>1. /\ g.w = w /\ g.h = h /\ g.back = b /\ g.top <= g.bot /\ g.bot < h /\ g.off <= Row0(g)
      /\ Len(g.rows) \in Nat /\ h <= Len(g.rows) /\ Len(g.rows) <= h + b
  BY GridIs, HeightIs
<1>2. \A i \in DOMAIN g.rows : g.rows[i] \in FitRows(w)
  BY GridRows
<1>3. \A i \in DOMAIN g.rows : DOMAIN g.rows[i].cells = 0..w-1
  BY <1>2 DEF FitRows, AnyRows
<1>4. \A i \in DOMAIN g.rows : \A j \in 0..w-1 : IsWide(g.rows[i].cells[j]) => j + 1 < w
  BY <1>2 DEF FitRows
<1> QED  BY <1>1, <1>3, <1>4

LEMMA ShapedSound == ASSUME Shaped PROVE ScreenSound
<1>1. PICK w \in Nat \ {0}, h \in Nat \ {0} : scr \in ScreensOf(FitRows(w), w, h)
  BY DEF Shaped
<1>2. PICK zero \in Nat : zero = 0
  OBVIOUS
<1>3. /\ scr.main \in GridsOf(FitRows(w), w, h, Back) /\ scr.alt \in GridsOf(FitRows(w), w, h, zero)
      /\ Back \in Nat /\ scr.kitty \in Stacks /\ scr.altKitty \in Stacks
  BY <1>1, <1>2, FitRowsAre, ScreenIs, ScreenAssumption
<1>4. ASSUME NEW g \in Grids
      PROVE  /\ Len(g.rows) \in g.h..(g.h + g.back)
             /\ \A i \in DOMAIN g.rows : DOMAIN g.rows[i].cells = 0..g.w-1
             /\ g.top <= g.bot /\ g.bot < g.h /\ g.off <= Row0(g)
             /\ <<g.w, g.h>> = <<w, h>>
             /\ \A i \in DOMAIN g.rows : \A j \in 0..g.w-1 : IsWide(g.rows[i].cells[j]) => j + 1 < g.w
  <2>1. PICK b \in Nat : g \in GridsOf(FitRows(w), w, h, b)
    BY <1>3 DEF Grids
  <2> QED  BY <2>1, GridSound
<1>5. <<scr.main.w, scr.main.h>> = <<w, h>>
  BY <1>4 DEF Grids
<1>6. Len(scr.kitty) <= KittyDepth /\ Len(scr.altKitty) <= KittyDepth
  BY <1>3 DEF Stacks
<1>7. ScreenTypeOK
  BY <1>4, <1>5, <1>6 DEF ScreenTypeOK
<1>8. WideFits
  BY <1>4 DEF WideFits
<1> QED  BY <1>7, <1>8 DEF ScreenSound

\* After any sequence of operations and sizes the grids have the shape that the
\* code takes for granted, and no wide character is cut at the edge (term/grid.rs).
THEOREM ScreensStaySound == ScreenSpec => []ScreenSound
<1>1. Shaped => ScreenSound
  BY ShapedSound
<1> QED  BY <1>1, ShapedAlways, PTL

\* Only a cursor that is restored is lost (the save and restore of term/grid.rs).
THEOREM CursorsAreKept == ScreenSpec => OnlyRestoreLosesCursor
<1> DEFINE Kept1 == \A side \in {"main", "alt"} :
                     LET g == scr[side]  next == scr'[side]
                     IN  CursorValid(g) /\ ~CursorValid(next) => <<next.row, next.col>> = <<g.srow, g.scol>>
<1>1. Shaped /\ [ScreenNext]_screenVars => [Kept1]_screenVars
  <2>1. SUFFICES ASSUME Shaped, [ScreenNext]_screenVars PROVE Kept1
    OBVIOUS
  <2>2. Returns(scr.main, scr'.main) /\ Returns(scr.alt, scr'.alt)
    BY <2>1, ShapedNext DEF Returning
  <2> QED  BY <2>2 DEF Returns
<1>2. ScreenSpec => [][Kept1]_screenVars
  BY <1>1, ShapedAlways, PTL DEF ScreenSpec
<1> QED  BY <1>2 DEF OnlyRestoreLosesCursor

-----------------------------------------------------------------------------
(* Whole characters.                                                         *)
WholeGrid(g) ==
  \A i \in DOMAIN g.rows : \A j \in 0..g.w-2 : IsWide(g.rows[i].cells[j]) => g.rows[i].cells[j+1].text = <<>>

LEMMA Relisted ==
  ASSUME NEW R, NEW Q, NEW s \in Seq(R), \A i \in DOMAIN s : s[i] \in Q
  PROVE  s \in Seq(Q)
<1>1. PICK n \in Nat : s \in [1..n -> R]
  BY DEF Seq
<1>2. s \in [1..n -> Q]
  BY <1>1
<1> QED  BY <1>2 DEF Seq

LEMMA WholeGrids ==
  ASSUME NEW w \in Nat \ {0}, NEW h \in Nat \ {0}, NEW b \in Nat, NEW g \in GridsOf(FitRows(w), w, h, b)
  PROVE  WholeGrid(g) <=> g \in GridsOf(WholeRows(w), w, h, b)
<1>0. g.w = w
  BY GridIs
<1>1. \A i \in DOMAIN g.rows : g.rows[i] \in FitRows(w)
  BY GridRows
<1>2. ASSUME WholeGrid(g) PROVE g \in GridsOf(WholeRows(w), w, h, b)
  <2>1. \A i \in DOMAIN g.rows : g.rows[i] \in WholeRows(w)
    BY <1>0, <1>1, <1>2 DEF WholeGrid, WholeRows
  <2>2. g.rows \in Seq(FitRows(w))
    BY RowsAre
  <2>3. g.rows \in Seq(WholeRows(w))
    BY <2>1, <2>2, Relisted
  <2> QED  BY <2>3 DEF GridsOf, Fields
<1>3. ASSUME g \in GridsOf(WholeRows(w), w, h, b) PROVE WholeGrid(g)
  <2>1. \A i \in DOMAIN g.rows : g.rows[i] \in WholeRows(w)
    BY <1>3, GridRows
  <2> QED  BY <1>0, <1>1, <2>1 DEF WholeGrid, WholeRows
<1> QED  BY <1>2, <1>3

LEMMA WholeScreens ==
  ASSUME NEW w \in Nat \ {0}, NEW h \in Nat \ {0}, NEW s \in ScreensOf(FitRows(w), w, h)
  PROVE  WholeGrid(s.main) /\ WholeGrid(s.alt) <=> s \in ScreensOf(WholeRows(w), w, h)
<1>1. PICK zero \in Nat : zero = 0
  OBVIOUS
<1>2. s.main \in GridsOf(FitRows(w), w, h, Back) /\ s.alt \in GridsOf(FitRows(w), w, h, zero) /\ Back \in Nat
  BY <1>1, FitRowsAre, ScreenIs, ScreenAssumption
<1>3. WholeGrid(s.main) <=> s.main \in GridsOf(WholeRows(w), w, h, Back)
  BY <1>2, WholeGrids
<1>4. WholeGrid(s.alt) <=> s.alt \in GridsOf(WholeRows(w), w, h, zero)
  BY <1>2, WholeGrids
<1> QED  BY <1>1, <1>3, <1>4 DEF ScreensOf

LEMMA WholeFits ==
  ASSUME NEW w \in Nat \ {0}, NEW h \in Nat \ {0}, NEW s \in ScreensOf(WholeRows(w), w, h)
  PROVE  s \in ScreensOf(FitRows(w), w, h)
<1>1. PICK zero \in Nat : zero = 0
  OBVIOUS
<1>2. s.main \in GridsOf(WholeRows(w), w, h, Back) /\ s.alt \in GridsOf(WholeRows(w), w, h, zero) /\ Back \in Nat
  BY <1>1, FitRowsAre, ScreenIs, ScreenAssumption
<1>3. ASSUME NEW b \in Nat, NEW g \in GridsOf(WholeRows(w), w, h, b) PROVE g \in GridsOf(FitRows(w), w, h, b)
  <2>1. \A i \in DOMAIN g.rows : g.rows[i] \in FitRows(w)
    BY GridRows, FitRowsAre, ShapesAre
  <2>2. g.rows \in Seq(WholeRows(w))
    BY RowsAre
  <2>3. g.rows \in Seq(FitRows(w))
    BY <2>1, <2>2, Relisted
  <2> QED  BY <2>3 DEF GridsOf, Fields
<1>4. s.main \in GridsOf(FitRows(w), w, h, Back) /\ s.alt \in GridsOf(FitRows(w), w, h, zero)
  BY <1>2, <1>3
<1> QED  BY <1>1, <1>4 DEF ScreensOf

\* A step that tears a character is a new size, and of a row that it was cut in.
LEMMA Tearing ==
  ASSUME Shaped, [ScreenNext]_screenVars, WideWhole, ~WideWhole'
  PROVE  /\ <<scr'.main.w, scr'.main.h>> # <<scr.main.w, scr.main.h>>
         /\ \E g \in Grids : \E i \in DOMAIN g.rows : EndsWithin(g.rows[i])
<1>1. PICK w \in Nat \ {0}, h \in Nat \ {0} : scr \in ScreensOf(FitRows(w), w, h)
  BY DEF Shaped
<1> DEFINE R == WholeRows(w)
<1>2. WholeGrid(scr.main) /\ WholeGrid(scr.alt)
  BY DEF WideWhole, Grids, WholeGrid
<1>3. R \in Shapes(w) /\ R = RowsOf(TRUE, w) /\ scr \in ScreensOf(R, w, h)
  BY <1>1, <1>2, WholeScreens, FitRowsAre
<1>4. ASSUME NEW v \in Nat \ {0}, NEW u \in Nat \ {0}, scr' \in ScreensOf(WholeRows(v), v, u) PROVE FALSE
  <2>1. WholeGrid(scr'.main) /\ WholeGrid(scr'.alt)
    BY <1>4, WholeFits, WholeScreens
  <2> QED  BY <2>1 DEF WideWhole, Grids, WholeGrid
<1>5. \E size \in Sizes : SetSize(size)
  <2>1. SUFFICES ASSUME ~\E size \in Sizes : SetSize(size) PROVE FALSE
    OBVIOUS
  <2> HIDE DEF R
  <2>2. Goes(R, w, h, scr, scr')
    BY <1>3, <2>1, Staying
  <2> QED  BY <1>4, <2>2 DEF Goes, R
<1>6. PICK size \in Sizes : scr' = Sized(scr, size)
  BY <1>5 DEF SetSize, Does
<1>7. size \in (Nat \ {0}) \X (Nat \ {0})
  BY ScreenAssumption
<1>8. PICK v \in Nat \ {0}, u \in Nat \ {0} : v = size[1] /\ u = size[2]
  BY <1>7
<1>9. PICK whole \in BOOLEAN, part \in BOOLEAN : whole = TRUE /\ part = FALSE
  OBVIOUS
<1>10. Sized(scr, size) # BrokenOff(scr)
  <2> HIDE DEF R
  <2>1. Goes(R, w, h, scr, BrokenOff(scr))
    BY <1>3, GoingOff
  <2> QED  BY <1>4, <1>6, <2>1 DEF Goes, R
<1>11. ~Goes(RowsOf(whole, size[1]), size[1], size[2], scr, Sized(scr, size))
  BY <1>4, <1>6, <1>8, <1>9, FitRowsAre DEF Goes
<1>12. scr \in ScreensOf(RowsOf(whole, w), w, h) /\ scr \in ScreensOf(RowsOf(part, w), w, h)
  BY <1>1, <1>3, <1>9, FitRowsAre
<1>13. size # <<w, h>> /\ ~(Untorns(scr.main) /\ Untorns(scr.alt))
  <2> HIDE DEF R
  <2> QED  BY <1>7, <1>10, <1>11, <1>12, Sizing
<1>14. Goes(RowsOf(part, size[1]), size[1], size[2], scr, Sized(scr, size))
  <2> HIDE DEF R
  <2> QED  BY <1>7, <1>9, <1>10, <1>12, Sizing
<1>15. scr' \in ScreensOf(FitRows(v), v, u)
  BY <1>6, <1>8, <1>9, <1>14, FitRowsAre DEF Goes
<1>16. scr.main.w = w /\ scr.main.h = h /\ scr'.main.w = v /\ scr'.main.h = u
  BY <1>1, <1>15 DEF ScreensOf, GridsOf, Fields
<1>17. size = <<v, u>>
  BY <1>7, <1>8
<1>18. <<scr'.main.w, scr'.main.h>> # <<scr.main.w, scr.main.h>>
  BY <1>13, <1>16, <1>17
<1>19. \E g \in Grids : \E i \in DOMAIN g.rows : EndsWithin(g.rows[i])
  BY <1>13 DEF Untorns, Untorn, Grids
<1> QED  BY <1>18, <1>19

\* Only a new size, of a row that goes on below and whose columns ever written end
\* within a wide character, tears one (the comments of text() in term/screen.rs).
THEOREM CharactersStayWhole == ScreenSpec => OnlyResizeTears
<1> DEFINE Tears == WideWhole /\ ~WideWhole' =>
                      /\ <<scr'.main.w, scr'.main.h>> # <<scr.main.w, scr.main.h>>
                      /\ \E g \in Grids : \E i \in DOMAIN g.rows : EndsWithin(g.rows[i])
<1>1. Shaped /\ [ScreenNext]_screenVars => [Tears]_screenVars
  BY Tearing
<1>2. ScreenSpec => [][Tears]_screenVars
  BY <1>1, ShapedAlways, PTL DEF ScreenSpec
<1> QED  BY <1>2 DEF OnlyResizeTears

-----------------------------------------------------------------------------
(* A view that is scrolled back: what it shows lies above the rows that move. *)
ShowsSame(g, x) == \A r \in 0..LesserOf(g.off, g.h) - 1 : VisibleRow(x, r) = VisibleRow(g, r)

LEMMA AboveStays ==
  ASSUME NEW w \in Nat \ {0}, NEW R \in Shapes(w), NEW h \in Nat \ {0}, NEW b \in Nat,
         NEW g \in GridsOf(R, w, h, b),
         NEW i \in 1..Row0(g)
  PROVE  MovedUp(g)[i] = g.rows[i]
<1> DEFINE new == NewRow(g.w, Plain)  m == Row0(g) + g.bot + 2  x == InsertAt(g.rows, m, new)
           o == Row0(g) + g.top + 1
<1>1. /\ Row0(g) \in Nat /\ Len(g.rows) \in Nat /\ Row0(g) = Len(g.rows) - h
  BY HeightIs
<1>2. g.w = w /\ g.top \in Nat /\ g.bot \in Nat /\ g.top <= g.bot /\ g.bot < h
  BY GridIs
<1>3. g.rows \in Seq(R)
  BY RowsAre
<1>4. new \in R
  BY <1>2, NewRows, Kinds
<1>5. m \in 1..Len(g.rows) + 1 /\ i < m /\ i \in 1..Len(g.rows)
  BY <1>1, <1>2
<1>6. MovedUp(g) = RemoveAt(x, o)
  BY DEF MovedUp
<1> HIDE DEF m, new
<1>7. x \in Seq(R) /\ Len(x) = Len(g.rows) + 1
  BY <1>3, <1>4, <1>5, EnteringIn
<1>x. x[i] = g.rows[i]
  BY <1>3, <1>4, <1>5, EnteringAfter
<1> HIDE DEF x
<1>8. o \in 1..Len(x) /\ i < o /\ i \in 1..Len(x) - 1
  BY <1>1, <1>2, <1>7
<1> HIDE DEF o
<1>9. RemoveAt(x, o)[i] = x[i]
  BY <1>7, <1>8, LeavingAfter
<1> QED  BY <1>6, <1>x, <1>9

\* The oldest row goes when there is no room for one more.
Gone(g) == Minus(Len(g.rows) + 1, g.back + g.h)

LEMMA FullerStays ==
  ASSUME NEW w \in Nat \ {0}, NEW R \in Shapes(w), NEW h \in Nat \ {0}, NEW b \in Nat,
         NEW g \in GridsOf(R, w, h, b),
         NEW i \in 1..Row0(g), i > Gone(g)
  PROVE  Fuller(g)[i - Gone(g)] = g.rows[i]
<1>0. PICK d \in Nat : d = Minus(Len(g.rows) + 1, b + h) /\ d = Gone(g)
  BY GridIs, HeightIs DEF Minus, Gone
<1> DEFINE old == g.rows[Row0(g) + g.top + 1]  x == InsertAt(MovedUp(g), Row0(g) + 1, old)
           m == Row0(g) + 1
<1>1. /\ Row0(g) \in Nat /\ Len(g.rows) \in Nat /\ Row0(g) = Len(g.rows) - h
      /\ h <= Len(g.rows) /\ Len(g.rows) <= h + b
  BY HeightIs
<1>2. MovedUp(g) \in Seq(R) /\ Len(MovedUp(g)) = Len(g.rows)
  BY MovingUp
<1>3. g.top \in Nat /\ g.top < h /\ g.back = b /\ g.h = h
  BY GridIs
<1>4. old \in R
  BY <1>3, AtRow DEF At
<1> HIDE DEF old
<1>5. m \in 1..Len(MovedUp(g)) + 1 /\ i < m /\ i \in 1..Len(MovedUp(g))
  BY <1>1, <1>2
<1>6. x = InsertAt(MovedUp(g), m, old)
  OBVIOUS
<1>x. InsertAt(MovedUp(g), m, old)[i] = MovedUp(g)[i]
  BY <1>2, <1>4, <1>5, EnteringAfter
<1>7. Fuller(g) = Trim(x, g.back + g.h)
  BY DEF Fuller, old
<1> HIDE DEF x, m
<1>8. x \in Seq(R) /\ Len(x) = Len(g.rows) + 1
  <2> DEFINE moved == MovedUp(g)
  <2>0. moved \in Seq(R) /\ m \in 1..Len(moved) + 1 /\ old \in R
    BY <1>2, <1>4, <1>5
  <2> HIDE DEF moved
  <2>1. InsertAt(moved, m, old) \in Seq(R) /\ Len(InsertAt(moved, m, old)) = Len(moved) + 1
    BY <2>0, EnteringIn
  <2> USE DEF moved
  <2> QED  BY <1>2, <1>6, <2>1
<1>9. MovedUp(g)[i] = g.rows[i]
  BY AboveStays
<1>10. b + h \in Nat /\ g.back + g.h = b + h
  BY <1>3
<1>11. i - d \in 1..LesserOf(Len(x), b + h)
  BY <1>0, <1>1, <1>8 DEF LesserOf, Minus
<1>12. Trim(x, b + h)[i - d] = x[(i - d) + Minus(Len(x), b + h)]
  BY <1>8, <1>10, <1>11, TrimmedAt
<1>13. Minus(Len(x), b + h) = d /\ (i - d) + d = i
  BY <1>0, <1>8
<1> QED  BY <1>0, <1>6, <1>x, <1>7, <1>9, <1>10, <1>12, <1>13

\* One row more, and the oldest one gone when there is no room.
LEMMA OneMore ==
  ASSUME NEW l \in Nat, NEW h \in Nat, NEW b \in Nat, NEW o \in Nat, NEW r \in Nat, NEW d,
         d = Minus(l + 1, b + h), h <= l, l <= h + b, r < o, o <= l - h, o < b
  PROVE  /\ d \in Nat /\ (l - h) - o + r + 1 > d /\ LesserOf(l + 1, b + h) = l + 1 - d
         /\ LesserOf((l + 1 - d) - h, o + 1) = o + 1
         /\ ((l + 1 - d) - h) - (o + 1) + r + 1 = ((l - h) - o + r + 1) - d
<1>1. d \in Nat /\ ((d = 0 /\ l + 1 <= b + h) \/ (d = 1 /\ l = b + h))
  BY DEF Minus
<1>2. CASE d = 0 /\ l + 1 <= b + h
  BY <1>2 DEF LesserOf
<1>3. CASE d = 1 /\ l = b + h
  BY <1>3 DEF LesserOf
<1> QED  BY <1>1, <1>2, <1>3

(* The row of a view, by its place in the deque.                             *)
LEMMA Viewing ==
  ASSUME NEW R, NEW w \in Nat \ {0}, NEW h \in Nat \ {0}, NEW b \in Nat, NEW g \in GridsOf(R, w, h, b),
         NEW r \in Nat, r < g.off
  PROVE  VisibleRow(g, r) = g.rows[Row0(g) - g.off + r + 1] /\ Row0(g) - g.off + r + 1 \in 1..Row0(g)
<1>1. Row0(g) \in Nat /\ g.off \in Nat /\ g.off <= Row0(g)
  BY GridIs, HeightIs
<1>2. PICK m \in Nat, o \in Nat : m = Row0(g) /\ o = g.off
  BY <1>1
<1>3. Minus(m, o) = m - o /\ m - o + r + 1 \in 1..m
  BY <1>1, <1>2 DEF Minus
<1> QED  BY <1>2, <1>3 DEF VisibleRow

LEMMA ViewOfRegion ==
  ASSUME NEW w \in Nat \ {0}, NEW R \in Shapes(w), NEW h \in Nat \ {0}, NEW b \in Nat,
         NEW g \in GridsOf(R, w, h, b),
         NEW r \in Nat, r < g.off
  PROVE  VisibleRow(Relaid(g, MovedUp(g)), r) = VisibleRow(g, r)
<1> DEFINE rows == MovedUp(g)  x == Relaid(g, rows)
<1>1. rows \in Seq(R) /\ Len(rows) = Len(g.rows)
  BY MovingUp
<1> HIDE DEF rows
<1>2. x \in GridsOf(R, w, h, b) /\ Kin(g, x) /\ x.rows = rows
  BY <1>1, Relaying
<1>3. Row0(x) = Row0(g) /\ x.off = g.off
  BY <1>2, KinValid DEF Kin
<1> HIDE DEF x
<1>4. VisibleRow(x, r) = x.rows[Row0(x) - x.off + r + 1]
  BY <1>2, <1>3, Viewing
<1>5. VisibleRow(g, r) = g.rows[Row0(g) - g.off + r + 1] /\ Row0(g) - g.off + r + 1 \in 1..Row0(g)
  BY Viewing
<1>6. rows[Row0(g) - g.off + r + 1] = g.rows[Row0(g) - g.off + r + 1]
  BY <1>5, AboveStays DEF rows
<1> QED  BY <1>2, <1>3, <1>4, <1>5, <1>6 DEF x, rows

LEMMA ViewOfFed ==
  ASSUME NEW w \in Nat \ {0}, NEW R \in Shapes(w), NEW h \in Nat \ {0}, NEW b \in Nat,
         NEW g \in GridsOf(R, w, h, b),
         NEW r \in Nat, r < g.off, g.off < b
  PROVE  VisibleRow(Fed(g, Fuller(g)), r) = VisibleRow(g, r)
<1> DEFINE rows == Fuller(g)  x == Fed(g, rows)
<1>1. PICK l \in Nat, o \in Nat : l = Len(g.rows) /\ o = g.off
  BY GridIs, HeightIs
<1>2. PICK d : d = Minus(l + 1, b + h)
  OBVIOUS
<1>3. h <= l /\ l <= h + b /\ o <= l - h /\ r < o /\ o < b /\ Row0(g) = l - h
  BY <1>1, HeightIs
<1>4. /\ d \in Nat /\ (l - h) - o + r + 1 > d /\ LesserOf(l + 1, b + h) = l + 1 - d
      /\ LesserOf((l + 1 - d) - h, o + 1) = o + 1
      /\ ((l + 1 - d) - h) - (o + 1) + r + 1 = ((l - h) - o + r + 1) - d
  BY <1>2, <1>3, OneMore
<1>5. rows \in Seq(R) /\ Len(rows) \in h..(h + b) /\ Len(rows) = l + 1 - d
  <2>1. rows \in Seq(R) /\ Len(rows) \in h..(h + b) /\ Len(rows) = LesserOf(Len(g.rows) + 1, b + h)
    BY Filling
  <2> QED  BY <1>1, <1>4, <2>1
<1>6. PICK i : i = (l - h) - o + r + 1
  OBVIOUS
<1>7. VisibleRow(g, r) = g.rows[i] /\ i \in 1..Row0(g)
  <2>1. VisibleRow(g, r) = g.rows[Row0(g) - g.off + r + 1] /\ Row0(g) - g.off + r + 1 \in 1..Row0(g)
    BY Viewing
  <2>2. Row0(g) - g.off + r + 1 = i
    BY <1>1, <1>3, <1>6
  <2> QED  BY <2>1, <2>2
<1>8. ViewAfter(g, rows) = o + 1
  <2>1. g.h = h /\ g.off = o /\ o > 0
    BY <1>1, <1>3, GridIs
  <2> HIDE DEF rows
  <2> QED  BY <1>4, <1>5, <2>1 DEF ViewAfter
<1>9. Fuller(g)[i - d] = g.rows[i]
  <2>1. d = Gone(g)
    BY <1>1, <1>2, GridIs DEF Gone
  <2>2. i \in 1..Row0(g) /\ i > Gone(g)
    BY <1>4, <1>6, <1>7, <2>1
  <2>3. Fuller(g)[i - Gone(g)] = g.rows[i]
    BY <2>2, FullerStays
  <2> QED  BY <2>1, <2>3
<1> HIDE DEF rows
<1>10. x \in GridsOf(R, w, h, b) /\ x.rows = rows /\ x.off = o + 1
  BY <1>5, <1>8, Feeding
<1> HIDE DEF x
<1>11. Row0(x) = (l + 1 - d) - h /\ r < x.off
  BY <1>3, <1>5, <1>10, HeightIs
<1>12. VisibleRow(x, r) = x.rows[Row0(x) - x.off + r + 1]
  BY <1>10, <1>11, Viewing
<1>13. Row0(x) - x.off + r + 1 = i - d
  BY <1>4, <1>6, <1>10, <1>11
<1>14. VisibleRow(x, r) = g.rows[i]
  BY <1>9, <1>10, <1>12, <1>13 DEF rows
<1> QED  BY <1>7, <1>14 DEF x, rows

LEMMA ViewOfLine ==
  ASSUME NEW w \in Nat \ {0}, NEW R \in Shapes(w), NEW h \in Nat \ {0}, NEW b \in Nat,
         NEW g \in GridsOf(R, w, h, b),
         NEW r \in Nat, r < g.off, g.off < b
  PROVE  VisibleRow(ScrollLineUp(g), r) = VisibleRow(g, r)
<1>1. CASE g.back = 0 \/ RegionActive(g)
  <2>1. ScrollLineUp(g) = Relaid(g, MovedUp(g))
    BY <1>1 DEF ScrollLineUp, Relaid
  <2> QED  BY <2>1, ViewOfRegion
<1>2. CASE ~(g.back = 0 \/ RegionActive(g))
  <2>1. ScrollLineUp(g) = Fed(g, Fuller(g))
    BY <1>2 DEF ScrollLineUp, Fuller
  <2> QED  BY <2>1, ViewOfFed
<1> QED  BY <1>1, <1>2

LEMMA ScrollsOnce ==
  ASSUME NEW w \in Nat \ {0}, NEW R \in Shapes(w), NEW h \in Nat \ {0}, NEW b \in Nat,
         NEW g \in GridsOf(R, w, h, b),
         NEW n \in Nat, n <= 1
  PROVE  ScrollUp(g, n) = g \/ ScrollUp(g, n) = ScrollLineUp(g)
<1> DEFINE m == LesserOf(n, g.h - g.top)  p == g
<1>1. m \in Nat /\ m <= 1
  BY GridIs DEF LesserOf
<1>2. ScrollUp(g, n) = Rises!Folded(p, g, Count(m))
  BY ScrolledUpFolded
<1> HIDE DEF p, m
<1>3. CASE m = 0
  <2>1. DOMAIN Count(m) = {}
    BY <1>3 DEF Count
  <2>2. Rises!Folded(p, g, Count(m)) = g
    BY <2>1, Rises!FoldOfNone
  <2> QED  BY <1>2, <2>2
<1>4. CASE m = 1
  <2>1. DOMAIN Count(m) = {1}
    BY <1>4 DEF Count
  <2>2. Rises!Folded(p, g, Count(m)) = UpStep(p, g, Count(m)[1])
    BY <2>1, Rises!FoldOfOne
  <2> QED  BY <1>2, <2>2 DEF UpStep
<1> QED  BY <1>1, <1>3, <1>4

LEMMA ScrollShows ==
  ASSUME NEW w \in Nat \ {0}, NEW R \in Shapes(w), NEW h \in Nat \ {0}, NEW b \in Nat,
         NEW g \in GridsOf(R, w, h, b), g.off < b,
         NEW n \in Nat, n <= 1
  PROVE  ShowsSame(g, ScrollUp(g, n))
<1>1. g.off \in Nat /\ g.h \in Nat
  BY GridIs
<1>2. ASSUME NEW r \in 0..LesserOf(g.off, g.h) - 1
      PROVE  VisibleRow(ScrollUp(g, n), r) = VisibleRow(g, r)
  <2>1. r \in Nat /\ r < g.off
    BY <1>1 DEF LesserOf
  <2>2. VisibleRow(ScrollLineUp(g), r) = VisibleRow(g, r)
    BY <2>1, ViewOfLine
  <2>3. ScrollUp(g, n) = g \/ ScrollUp(g, n) = ScrollLineUp(g)
    BY ScrollsOnce
  <2> QED  BY <2>2, <2>3
<1> QED  BY <1>2 DEF ShowsSame

LEMMA StillShows == ASSUME NEW g, NEW y, NEW x, Still(g, y), ShowsSame(y, x) PROVE ShowsSame(g, x)
<1>1. y.off = g.off /\ y.h = g.h /\ y.rows = g.rows
  BY DEF Still
<1>2. \A r : VisibleRow(y, r) = VisibleRow(g, r)
  BY <1>1 DEF VisibleRow, Row0
<1> QED  BY <1>1, <1>2 DEF ShowsSame

LEMMA FeedShows ==
  ASSUME NEW w \in Nat \ {0}, NEW R \in Shapes(w), NEW h \in Nat \ {0}, NEW b \in Nat,
         NEW g \in GridsOf(R, w, h, b), g.off < b,
         NEW one \in Nat, one = 1
  PROVE  ShowsSame(g, DownScroll(g, one))
<1> DEFINE x == Down(g, one)  n == LinesUp(g, one)
<1>1. x \in GridsOf(R, w, h, b) /\ Still(g, x)
  BY Stepping
<1>2. n \in Nat
  BY Overruns
<1>3. n <= 1
  <2>1. g.row \in Nat /\ g.bot \in Nat /\ g.h = h
    BY GridIs
  <2>2. CASE InRegion(g)
    <3>1. g.row <= g.bot /\ Bottom(g, InRegion(g)) = g.bot
      BY <2>1, <2>2, GridIs DEF InRegion, Bottom
    <3>2. n = Minus(g.row + one, g.bot)
      BY <2>2, <3>1 DEF LinesUp, Overrun
    <3> HIDE DEF n
    <3> QED  BY <2>1, <3>1, <3>2 DEF Minus
  <2>3. CASE ~InRegion(g)
    BY <2>3 DEF LinesUp
  <2> QED  BY <2>2, <2>3
<1>4. DownScroll(g, one) = ScrollUp(x, n)
  BY DEF DownScroll
<1>5. x.off < b
  BY <1>1 DEF Still
<1> HIDE DEF x, n
<1>6. ShowsSame(x, ScrollUp(x, n))
  BY <1>1, <1>2, <1>3, <1>5, ScrollShows
<1> QED  BY <1>1, <1>4, <1>6, StillShows

\* A view that is scrolled back goes on showing the same lines while the screen
\* scrolls, whatever the size of the screen and of the scrollback (term/grid.rs).
THEOREM ViewsStay == ScreenSpec => ViewStays
<1> DEFINE Stays == (LineFeed \/ PanUp(1)) /\ ~InAlt(scr) /\ scr.main.off \in 1..scr.main.back - 1
                      => ShowsSame(scr.main, scr'.main)
<1>1. Shaped => Stays
  <2> SUFFICES ASSUME Shaped, LineFeed \/ PanUp(1), ~InAlt(scr), scr.main.off \in 1..scr.main.back - 1
               PROVE  ShowsSame(scr.main, scr'.main)
    OBVIOUS
  <2>1. PICK w \in Nat \ {0}, h \in Nat \ {0} : scr \in ScreensOf(FitRows(w), w, h)
    BY DEF Shaped
  <2> DEFINE R == FitRows(w)  g == scr.main  b == BackOn(scr)
  <2>2. R \in Shapes(w) /\ scr \in ScreensOf(R, w, h)
    BY <2>1, FitRowsAre
  <2> HIDE DEF R
  <2>3. On(scr) = g /\ On(scr) \in GridsOf(R, w, h, b) /\ b \in Nat
    BY <2>2, ScreenIs DEF On
  <2> HIDE DEF b
  <2>4. g \in GridsOf(R, w, h, b) /\ g.back = b /\ g.off < b
    BY <2>3, GridIs
  <2>5. PICK one \in Nat : one = 1
    OBVIOUS
  <2>6. ASSUME NEW x \in GridsOf(R, w, h, b), scr' = Upon(scr, x) PROVE scr'.main = x
    BY <2>2, <2>6, Settling DEF b
  <2>7. CASE LineFeed
    <3> DEFINE x == DownScroll(g, one)
    <3>1. scr' = Upon(scr, x)
      BY <2>3, <2>5, <2>7 DEF LineFeed, Cursor, Does
    <3>2. ShowsSame(g, x)
      BY <2>2, <2>3, <2>4, <2>5, FeedShows
    <3>3. x \in GridsOf(R, w, h, b)
      BY <2>2, <2>3, <2>4, ScrollingDown
    <3> HIDE DEF x
    <3> QED  BY <2>6, <3>1, <3>2, <3>3
  <2>8. CASE PanUp(1)
    <3> DEFINE x == ScrollUp(g, one)
    <3>1. scr' = Upon(scr, x)
      BY <2>3, <2>5, <2>8 DEF PanUp, Cursor, Does
    <3>2. ShowsSame(g, x)
      BY <2>2, <2>3, <2>4, <2>5, ScrollShows
    <3>3. x \in GridsOf(R, w, h, b)
      BY <2>2, <2>3, <2>4, ScrolledUp
    <3> HIDE DEF x
    <3> QED  BY <2>6, <3>1, <3>2, <3>3
  <2> QED  BY <2>7, <2>8
<1>2. ScreenSpec => [][Stays]_screenVars
  BY <1>1, ShapedAlways, PTL DEF ScreenSpec
<1> QED  BY <1>2 DEF ViewStays, ShowsSame

-----------------------------------------------------------------------------
(* A task's screen and its viewers.                                          *)
TaskFields == {"size", "vt", "observers", "lost", "copy", "down", "pty", "sessions", "told"}
Watchers == UNION {[d -> Nat \X Nat] : d \in SUBSET Viewers}
AnyScreen(s) == \E w \in Nat \ {0}, h \in Nat \ {0} : s \in ScreensOf(FitRows(w), w, h)
\* A screen that broke has the size it had.
Fitting(s, size) ==
  s \in ScreensOf(FitRows(size[1]), size[1], size[2]) \/ (s.broken /\ AnyScreen(s))
TaskShape(t) ==
  /\ DOMAIN t = TaskFields /\ t.size \in (Nat \ {0}) \X (Nat \ {0}) /\ t.pty = t.size
  /\ Fitting(t.vt, t.size) /\ t.observers \in Watchers /\ DOMAIN t.told = Viewers
AllTold(t) == \A v \in DOMAIN t.observers \ gone : t.told[v] = Seen(t)
SizeRight(t) == ~t.lost => Smallest(t) = t.size
Serves(t) == TaskShape(t) /\ AllTold(t) /\ SizeRight(t)

(* All but copy mode and the mouse is as it was.                             *)
Alike(t, u) ==
  /\ DOMAIN u = TaskFields /\ u.size = t.size /\ u.vt = t.vt /\ u.observers = t.observers
  /\ u.lost = t.lost /\ u.pty = t.pty /\ u.told = t.told

LEMMA SameSmallest == ASSUME NEW t, NEW u, u.observers = t.observers, u.size = t.size PROVE Smallest(u) = Smallest(t)
BY DEF Smallest
LEMMA SameSeen == ASSUME NEW t, NEW u, u.copy = t.copy, u.vt = t.vt PROVE Seen(u) = Seen(t)
BY DEF Seen, Surface
LEMMA AlikeShape == ASSUME NEW t, NEW u, TaskShape(t), Alike(t, u) PROVE TaskShape(u) /\ (SizeRight(t) => SizeRight(u))
BY SameSmallest DEF TaskShape, Alike, SizeRight
LEMMA AlikeTold == ASSUME NEW t, NEW u, AllTold(t), Alike(t, u), u.copy = t.copy PROVE AllTold(u)
BY SameSeen DEF AllTold, Alike

\* One field is set.
WithCopy(t, c) == [t EXCEPT !.copy = c]
WithDown(t, p) == [t EXCEPT !.down = p]
WithVt(t, s) == [t EXCEPT !.vt = s]
WithObservers(t, o) == [t EXCEPT !.observers = o]
WithLost(t, l) == [t EXCEPT !.lost = l]
WithTold(t, f) == [t EXCEPT !.told = f]

LEMMA CopySet == ASSUME NEW t, NEW c, DOMAIN t = TaskFields PROVE Alike(t, WithCopy(t, c)) /\ WithCopy(t, c).copy = c
BY DEF Alike, WithCopy, TaskFields
LEMMA DownSet == ASSUME NEW t, NEW p, DOMAIN t = TaskFields PROVE Alike(t, WithDown(t, p)) /\ WithDown(t, p).copy = t.copy
BY DEF Alike, WithDown, TaskFields
LEMMA VtSet ==
  ASSUME NEW t, NEW s, DOMAIN t = TaskFields
  PROVE  /\ DOMAIN WithVt(t, s) = TaskFields /\ WithVt(t, s).size = t.size /\ WithVt(t, s).vt = s
         /\ WithVt(t, s).observers = t.observers /\ WithVt(t, s).lost = t.lost /\ WithVt(t, s).pty = t.pty
         /\ WithVt(t, s).told = t.told
BY DEF WithVt, TaskFields
LEMMA ObserversSet ==
  ASSUME NEW t, NEW o, DOMAIN t = TaskFields
  PROVE  /\ DOMAIN WithObservers(t, o) = TaskFields /\ WithObservers(t, o).size = t.size
         /\ WithObservers(t, o).vt = t.vt /\ WithObservers(t, o).observers = o
         /\ WithObservers(t, o).lost = t.lost /\ WithObservers(t, o).pty = t.pty
         /\ WithObservers(t, o).told = t.told /\ WithObservers(t, o).copy = t.copy
BY DEF WithObservers, TaskFields
LEMMA LostSet ==
  ASSUME NEW t, NEW l, DOMAIN t = TaskFields
  PROVE  /\ DOMAIN WithLost(t, l) = TaskFields /\ WithLost(t, l).size = t.size
         /\ WithLost(t, l).vt = t.vt /\ WithLost(t, l).observers = t.observers
         /\ WithLost(t, l).lost = l /\ WithLost(t, l).pty = t.pty
         /\ WithLost(t, l).told = t.told /\ WithLost(t, l).copy = t.copy
BY DEF WithLost, TaskFields
LEMMA ToldSet ==
  ASSUME NEW t, NEW f, DOMAIN t = TaskFields
  PROVE  /\ DOMAIN WithTold(t, f) = TaskFields /\ WithTold(t, f).size = t.size
         /\ WithTold(t, f).vt = t.vt /\ WithTold(t, f).observers = t.observers
         /\ WithTold(t, f).lost = t.lost /\ WithTold(t, f).pty = t.pty
         /\ WithTold(t, f).told = f /\ WithTold(t, f).copy = t.copy
BY DEF WithTold, TaskFields

-----------------------------------------------------------------------------
LEMMA WatchersAre ==
  ASSUME NEW o \in Watchers
  PROVE  /\ DOMAIN o \subseteq Viewers /\ \A v \in DOMAIN o : o[v] \in Nat \X Nat
         /\ o = [v \in DOMAIN o |-> o[v]]
<1>1. PICK d \in SUBSET Viewers : o \in [d -> Nat \X Nat]
  BY DEF Watchers
<1> QED  BY <1>1

LEMMA Restricting ==
  ASSUME NEW o \in Watchers, NEW d \in SUBSET DOMAIN o
  PROVE  /\ Restrict(o, d) \in Watchers /\ DOMAIN Restrict(o, d) = d
         /\ d = DOMAIN o => Restrict(o, d) = o
<1>1. /\ DOMAIN o \subseteq Viewers /\ \A v \in DOMAIN o : o[v] \in Nat \X Nat
      /\ o = [v \in DOMAIN o |-> o[v]]
  BY WatchersAre
<1>2. Restrict(o, d) = [v \in d |-> o[v]]
  BY DEF Restrict
<1>3. [v \in d |-> o[v]] \in [d -> Nat \X Nat] /\ d \in SUBSET Viewers
  BY <1>1
<1>4. [v \in d |-> o[v]] \in Watchers
  BY <1>3 DEF Watchers
<1>5. d = DOMAIN o => [v \in d |-> o[v]] = o
  BY <1>1
<1> QED  BY <1>2, <1>4, <1>5

LEMMA Joining ==
  ASSUME NEW o \in Watchers, NEW id \in Viewers, NEW size \in Nat \X Nat
  PROVE  With(o, id, size) \in Watchers /\ DOMAIN With(o, id, size) = DOMAIN o \cup {id}
<1> DEFINE d == DOMAIN o \cup {id}  f == [v \in d |-> IF v = id THEN size ELSE o[v]]
<1>1. /\ DOMAIN o \subseteq Viewers /\ \A v \in DOMAIN o : o[v] \in Nat \X Nat
  BY WatchersAre
<1>2. f \in [d -> Nat \X Nat] /\ d \in SUBSET Viewers
  BY <1>1
<1>3. With(o, id, size) = f
  BY DEF With
<1> QED  BY <1>2, <1>3 DEF Watchers

\* The least width, or height, of the viewers.
Extents(o, k) == {o[v][k] : v \in DOMAIN o}
LEMMA LeastExtent ==
  ASSUME NEW o \in Watchers, NEW k \in 1..2, DOMAIN o # {}
  PROVE  /\ Min(Extents(o, k)) \in Nat /\ \A v \in DOMAIN o : Min(Extents(o, k)) <= o[v][k]
         /\ \E v \in DOMAIN o : o[v][k] = Min(Extents(o, k))
<1> DEFINE s == Extents(o, k)
<1>1. \A v \in DOMAIN o : o[v] \in Nat \X Nat
  BY WatchersAre
<1>2. \A v \in DOMAIN o : o[v][k] \in Nat
  BY <1>1
<1>3. s \in SUBSET Nat /\ s # {}
  BY <1>2 DEF Extents
<1>4. \E n \in s : \A m \in s : n <= m
  BY <1>3, Rises!Least
<1>5. Min(s) \in s /\ \A m \in s : Min(s) <= m
  BY <1>4 DEF Min
<1>6. \A v \in DOMAIN o : o[v][k] \in s
  BY DEF Extents
<1>7. \E v \in DOMAIN o : o[v][k] = Min(s)
  BY <1>5 DEF Extents
<1> QED  BY <1>3, <1>5, <1>6, <1>7

LEMMA EmptyWatchers == ASSUME NEW o \in Watchers PROVE o = <<>> <=> DOMAIN o = {}
<1>1. o = [v \in DOMAIN o |-> o[v]]
  BY WatchersAre
<1> QED  BY <1>1

LEMMA SmallestIs ==
  ASSUME NEW t, t.observers \in Watchers, t.size \in (Nat \ {0}) \X (Nat \ {0})
  PROVE  /\ Smallest(t) \in (Nat \ {0}) \X (Nat \ {0})
         /\ t.observers = <<>> => Smallest(t) = t.size
         /\ t.observers # <<>> => Smallest(t) = <<GreaterOf(Min(Extents(t.observers, 1)), 1),
                                                  GreaterOf(Min(Extents(t.observers, 2)), 1)>>
<1>1. t.observers = <<>> => Smallest(t) = t.size
  BY DEF Smallest
<1>2. t.observers # <<>> => Smallest(t) = <<GreaterOf(Min(Extents(t.observers, 1)), 1),
                                            GreaterOf(Min(Extents(t.observers, 2)), 1)>>
  BY DEF Smallest, Extents
<1>3. t.observers # <<>> => DOMAIN t.observers # {}
  BY EmptyWatchers
<1>4. t.observers # <<>> => Min(Extents(t.observers, 1)) \in Nat /\ Min(Extents(t.observers, 2)) \in Nat
  BY <1>3, LeastExtent
<1>5. t.observers # <<>> => Smallest(t) \in (Nat \ {0}) \X (Nat \ {0})
  <2>1. SUFFICES ASSUME t.observers # <<>> PROVE Smallest(t) \in (Nat \ {0}) \X (Nat \ {0})
    OBVIOUS
  <2>2. PICK m \in Nat, n \in Nat : m = Min(Extents(t.observers, 1)) /\ n = Min(Extents(t.observers, 2))
    BY <1>4, <2>1
  <2>3. GreaterOf(m, 1) \in Nat \ {0} /\ GreaterOf(n, 1) \in Nat \ {0}
    BY DEF GreaterOf
  <2>4. Smallest(t) = <<GreaterOf(m, 1), GreaterOf(n, 1)>>
    BY <1>2, <2>1, <2>2
  <2> QED  BY <2>3, <2>4
<1>6. Smallest(t) \in (Nat \ {0}) \X (Nat \ {0})
  BY <1>1, <1>5
<1> QED  BY <1>1, <1>2, <1>6

-----------------------------------------------------------------------------
LEMMA BroadcastIs ==
  ASSUME NEW t, DOMAIN t = TaskFields
  PROVE  LET open == DOMAIN t.observers \ gone  u == Broadcast(t)
         IN  /\ DOMAIN u = TaskFields /\ u.size = t.size /\ u.vt = t.vt /\ u.pty = t.pty /\ u.copy = t.copy
             /\ u.observers = Restrict(t.observers, open)
             /\ u.lost = IF open # DOMAIN t.observers THEN TRUE ELSE t.lost
             /\ u.told = [v \in Viewers |-> IF v \in open THEN Seen(t) ELSE t.told[v]]
BY DEF Broadcast, TaskFields

LEMMA BroadcastServes ==
  ASSUME NEW t, TaskShape(t)
  PROVE  /\ TaskShape(Broadcast(t)) /\ AllTold(Broadcast(t)) /\ Broadcast(t).size = t.size
         /\ SizeRight(t) => SizeRight(Broadcast(t))
<1> DEFINE open == DOMAIN t.observers \ gone  u == Broadcast(t)
<1>1. DOMAIN t = TaskFields /\ t.observers \in Watchers
  BY DEF TaskShape
<1>2. /\ DOMAIN u = TaskFields /\ u.size = t.size /\ u.vt = t.vt /\ u.pty = t.pty /\ u.copy = t.copy
      /\ u.observers = Restrict(t.observers, open)
      /\ u.lost = IF open # DOMAIN t.observers THEN TRUE ELSE t.lost
      /\ u.told = [v \in Viewers |-> IF v \in open THEN Seen(t) ELSE t.told[v]]
  BY <1>1, BroadcastIs
<1>3. /\ Restrict(t.observers, open) \in Watchers /\ DOMAIN Restrict(t.observers, open) = open
      /\ open = DOMAIN t.observers => Restrict(t.observers, open) = t.observers
      /\ open \subseteq Viewers
  BY <1>1, Restricting, WatchersAre
<1> HIDE DEF u, open
<1>4. DOMAIN u.told = Viewers
  BY <1>2
<1>5. TaskShape(u)
  BY <1>2, <1>3, <1>4 DEF TaskShape
<1>6. Seen(u) = Seen(t)
  BY <1>2, SameSeen
<1>7. AllTold(u)
  <2>1. \A v \in open : u.told[v] = Seen(t)
    BY <1>2, <1>3
  <2>2. DOMAIN u.observers = open
    BY <1>2, <1>3
  <2> QED  BY <1>6, <2>1, <2>2 DEF AllTold
<1>8. SizeRight(t) => SizeRight(u)
  <2>1. CASE open = DOMAIN t.observers
    <3>1. u.observers = t.observers /\ u.lost = t.lost /\ u.size = t.size
      BY <1>2, <1>3, <2>1
    <3> QED  BY <3>1, SameSmallest DEF SizeRight
  <2>2. CASE open # DOMAIN t.observers
    BY <1>2, <2>2 DEF SizeRight
  <2> QED  BY <2>1, <2>2
<1> QED  BY <1>2, <1>5, <1>7, <1>8 DEF u

LEMMA RenderAlike ==
  ASSUME NEW t, DOMAIN t = TaskFields
  PROVE  Alike(t, RenderPresent(t))
<1>1. CASE ~t.copy.on
  BY <1>1 DEF RenderPresent, Alike
<1>2. CASE t.copy.on
  <2>1. PICK c : RenderPresent(t) = WithCopy(t, c)
    BY <1>2 DEF RenderPresent, WithCopy
  <2> QED  BY <2>1, CopySet
<1> QED  BY <1>1, <1>2

LEMMA ShowsServes ==
  ASSUME NEW t, TaskShape(t)
  PROVE  /\ TaskShape(Shows(t)) /\ AllTold(Shows(t)) /\ Shows(t).size = t.size
         /\ SizeRight(t) => SizeRight(Shows(t))
<1> DEFINE u == RenderPresent(t)
<1>1. Alike(t, u) /\ Shows(t) = Broadcast(u)
  BY RenderAlike DEF Shows, TaskShape
<1> HIDE DEF u
<1>2. TaskShape(u) /\ (SizeRight(t) => SizeRight(u)) /\ u.size = t.size
  BY <1>1, AlikeShape DEF Alike
<1> QED  BY <1>1, <1>2, BroadcastServes

LEMMA Fits0 ==
  ASSUME NEW t, TaskShape(t)
  PROVE  AnyScreen(t.vt)
<1>1. PICK w \in Nat \ {0}, h \in Nat \ {0} : w = t.size[1] /\ h = t.size[2]
  BY DEF TaskShape
<1>2. t.vt \in ScreensOf(FitRows(w), w, h) => AnyScreen(t.vt)
  BY DEF AnyScreen
<1> QED  BY <1>1, <1>2 DEF TaskShape, Fitting

LEMMA SizedFits ==
  ASSUME NEW s, AnyScreen(s), NEW size \in (Nat \ {0}) \X (Nat \ {0})
  PROVE  Fitting(Sized(s, size), size)
<1>1. PICK w \in Nat \ {0}, h \in Nat \ {0} : s \in ScreensOf(FitRows(w), w, h)
  BY DEF AnyScreen
<1>2. PICK v \in Nat \ {0}, u \in Nat \ {0} : v = size[1] /\ u = size[2]
  OBVIOUS
<1>3. PICK whole \in BOOLEAN : whole = FALSE
  OBVIOUS
<1>4. s \in ScreensOf(RowsOf(whole, w), w, h)
  BY <1>1, <1>3, FitRowsAre
<1>5. \/ Sized(s, size) = BrokenOff(s)
      \/ Goes(RowsOf(whole, size[1]), size[1], size[2], s, Sized(s, size))
  BY <1>3, <1>4, Sizing
<1>6. CASE Sized(s, size) = BrokenOff(s)
  <2> DEFINE R == FitRows(w)
  <2>1. R \in Shapes(w) /\ s \in ScreensOf(R, w, h)
    BY <1>1, FitRowsAre
  <2> HIDE DEF R
  <2>2. BrokenOff(s) \in ScreensOf(R, w, h) /\ BrokenOff(s).broken
    BY <2>1, BreakingOff
  <2> QED  BY <1>6, <2>2 DEF Fitting, AnyScreen, R
<1>7. CASE Goes(RowsOf(whole, size[1]), size[1], size[2], s, Sized(s, size))
  <2>1. RowsOf(whole, v) = FitRows(v)
    BY <1>3, FitRowsAre
  <2> QED  BY <1>2, <1>7, <2>1 DEF Goes, Fitting
<1> QED  BY <1>5, <1>6, <1>7

LEMMA ToSizeIs ==
  ASSUME NEW t, DOMAIN t = TaskFields, NEW s
  PROVE  LET u == ToSize(t, s)
         IN  /\ DOMAIN u = TaskFields /\ u.size = s /\ u.vt = Sized(t.vt, s) /\ u.pty = s
             /\ u.observers = t.observers /\ u.lost = t.lost /\ u.told = t.told /\ u.copy = t.copy
BY DEF ToSize, TaskFields

\* The size follows the viewers there are.
LEMMA SyncServes ==
  ASSUME NEW t, TaskShape(t)
  PROVE  /\ TaskShape(SyncSize(t)) /\ SizeRight(SyncSize(t))
         /\ SyncSize(t).observers = t.observers /\ SyncSize(t).told = t.told
<1>1. /\ DOMAIN t = TaskFields /\ t.observers \in Watchers /\ t.size \in (Nat \ {0}) \X (Nat \ {0})
      /\ DOMAIN t.told = Viewers
  BY DEF TaskShape
<1>2. CASE ~Resized(t)
  BY <1>2 DEF SyncSize, Resized, SizeRight
<1>3. CASE Resized(t)
  <2> DEFINE s == Smallest(t)  u == ToSize(t, s)
  <2>1. s \in (Nat \ {0}) \X (Nat \ {0}) /\ t.observers # <<>>
    BY <1>1, <1>3, SmallestIs DEF Resized
  <2>2. /\ DOMAIN u = TaskFields /\ u.size = s /\ u.vt = Sized(t.vt, s) /\ u.pty = s
        /\ u.observers = t.observers /\ u.lost = t.lost /\ u.told = t.told /\ u.copy = t.copy
    BY <1>1, ToSizeIs
  <2>3. Fitting(Sized(t.vt, s), s)
    BY <2>1, Fits0, SizedFits
  <2>4. SyncSize(t) = u
    BY <1>3 DEF SyncSize
  <2>5. Smallest(u) = s
    <3> HIDE DEF u
    <3>1. u.observers \in Watchers /\ u.size \in (Nat \ {0}) \X (Nat \ {0}) /\ u.observers = t.observers
      BY <1>1, <2>1, <2>2
    <3> QED  BY <1>1, <2>1, <3>1, SmallestIs
  <2> HIDE DEF u, s
  <2>6. TaskShape(u)
    BY <1>1, <2>1, <2>2, <2>3 DEF TaskShape
  <2> QED  BY <2>2, <2>4, <2>5, <2>6 DEF SizeRight
<1> QED  BY <1>2, <1>3

LEMMA ApplyServes ==
  ASSUME NEW t, TaskShape(t), AllTold(t)
  PROVE  Serves(ApplySize(t))
<1>1. CASE ~Resized(t)
  BY <1>1 DEF ApplySize, Resized, SizeRight, Serves
<1>2. CASE Resized(t)
  <2>1. ApplySize(t) = Shows(SyncSize(t))
    BY <1>2 DEF ApplySize
  <2>2. TaskShape(SyncSize(t)) /\ SizeRight(SyncSize(t))
    BY SyncServes
  <2> QED  BY <2>1, <2>2, ShowsServes DEF Serves
<1> QED  BY <1>1, <1>2

LEMMA SettleServes ==
  ASSUME NEW t, Serves(t)
  PROVE  Serves(Settle(t))
<1>1. CASE ~t.lost
  BY <1>1 DEF Settle
<1>2. CASE t.lost
  <2> DEFINE u == WithLost(t, FALSE)
  <2>1. Settle(t) = ApplySize(u)
    BY <1>2 DEF Settle, WithLost
  <2>2. /\ DOMAIN u = TaskFields /\ u.size = t.size /\ u.vt = t.vt /\ u.observers = t.observers
        /\ u.pty = t.pty /\ u.told = t.told /\ u.copy = t.copy
    BY LostSet DEF Serves, TaskShape
  <2> HIDE DEF u
  <2>3. TaskShape(u)
    BY <2>2 DEF Serves, TaskShape
  <2>4. AllTold(u)
    BY <2>2, SameSeen DEF Serves, AllTold
  <2> QED  BY <2>1, <2>3, <2>4, ApplyServes
<1> QED  BY <1>1, <1>2

-----------------------------------------------------------------------------
(* What a command makes of the screen serves its viewers.                    *)
LEMMA BecomesServes ==
  ASSUME NEW t, NEW input, Serves(t), Becomes(t, input)
  PROVE  Serves(task)'
<1>1. task' = Settle(t) /\ gone' = gone
  BY DEF Becomes
<1>2. Serves(Settle(t))
  BY SettleServes
<1> QED  BY <1>1, <1>2 DEF Serves, AllTold

LEMMA BroadcastOf ==
  ASSUME NEW t, TaskShape(t), SizeRight(t)
  PROVE  Serves(Broadcast(t)) /\ Serves(Shows(t))
BY BroadcastServes, ShowsServes DEF Serves

LEMMA CopyServes ==
  ASSUME NEW t, TaskShape(t), SizeRight(t), NEW c
  PROVE  Serves(Broadcast(WithCopy(t, c))) /\ Serves(Shows(WithCopy(t, c)))
<1> DEFINE u == WithCopy(t, c)
<1>1. Alike(t, u)
  BY CopySet DEF TaskShape
<1> HIDE DEF u
<1>2. TaskShape(u) /\ SizeRight(u)
  BY <1>1, AlikeShape
<1>3. Serves(Broadcast(u)) /\ Serves(Shows(u))
  BY <1>2, BroadcastOf
<1> QED  BY <1>3 DEF u

LEMMA DownServes ==
  ASSUME NEW t, Serves(t), NEW p
  PROVE  Serves(WithDown(t, p))
<1> DEFINE u == WithDown(t, p)
<1>1. Alike(t, u) /\ u.copy = t.copy
  BY DownSet DEF Serves, TaskShape
<1> HIDE DEF u
<1>2. TaskShape(u) /\ SizeRight(u) /\ AllTold(u)
  BY <1>1, AlikeShape, AlikeTold DEF Serves
<1> QED  BY <1>2 DEF u, Serves

LEMMA VtServes ==
  ASSUME NEW t, TaskShape(t), SizeRight(t), NEW s, Fitting(s, t.size)
  PROVE  Serves(Broadcast(WithVt(t, s)))
<1> DEFINE u == WithVt(t, s)
<1>1. DOMAIN t = TaskFields
  BY DEF TaskShape
<1>2. /\ DOMAIN u = TaskFields /\ u.size = t.size /\ u.vt = s
      /\ u.observers = t.observers /\ u.lost = t.lost /\ u.pty = t.pty /\ u.told = t.told
  BY <1>1, VtSet
<1> HIDE DEF u
<1>3. TaskShape(u)
  BY <1>2 DEF TaskShape
<1>4. SizeRight(u)
  BY <1>2, SameSmallest DEF SizeRight
<1>5. Serves(Broadcast(u))
  BY <1>3, <1>4, BroadcastOf
<1> QED  BY <1>5 DEF u

LEMMA EnterAlike ==
  ASSUME NEW t, DOMAIN t = TaskFields
  PROVE  Alike(t, EnterCopy(t))
<1>1. CASE t.copy.on
  BY <1>1 DEF EnterCopy, Alike
<1>2. CASE ~t.copy.on
  BY <1>2 DEF EnterCopy, Alike, TaskFields
<1> QED  BY <1>1, <1>2

LEMMA LeaveServes ==
  ASSUME NEW t, Serves(t)
  PROVE  Serves(LeaveCopy(t))
<1>1. CASE ~t.copy.on
  BY <1>1 DEF LeaveCopy
<1>2. CASE t.copy.on
  <2>1. LeaveCopy(t) = Broadcast(WithCopy(t, NoCopy))
    BY <1>2 DEF LeaveCopy, WithCopy
  <2> QED  BY <2>1, CopyServes DEF Serves
<1> QED  BY <1>1, <1>2

LEMMA InCopyServes ==
  ASSUME NEW t, Serves(t), NEW how
  PROVE  Serves(InCopy(t, how))
<1>1. TaskShape(t) /\ SizeRight(t) /\ DOMAIN t = TaskFields
  BY DEF Serves, TaskShape
<1>2. CASE how = "enter"
  <2>1. CASE t.copy.on
    BY <1>2, <2>1 DEF InCopy
  <2>2. CASE ~t.copy.on
    <3>1. InCopy(t, how) = Shows(EnterCopy(t))
      BY <1>2, <2>2 DEF InCopy
    <3>2. TaskShape(EnterCopy(t)) /\ SizeRight(EnterCopy(t))
      BY <1>1, EnterAlike, AlikeShape
    <3> QED  BY <3>1, <3>2, BroadcastOf
  <2> QED  BY <2>1, <2>2
<1>3. CASE how = "leave"
  <2>1. InCopy(t, how) = LeaveCopy(t)
    BY <1>3 DEF InCopy
  <2> QED  BY <2>1, LeaveServes
<1>4. CASE how = "yank"
  <2>1. InCopy(t, how) = LeaveCopy(Broadcast(t)) \/ InCopy(t, how) = LeaveCopy(t)
    BY <1>4 DEF InCopy
  <2>2. Serves(Broadcast(t))
    BY <1>1, BroadcastOf
  <2> QED  BY <2>1, <2>2, LeaveServes
<1>5. CASE how \notin {"enter", "leave", "yank"}
  <2>1. InCopy(t, how) = t \/ InCopy(t, how) = Shows(WithCopy(t, Changed(t.copy, how)))
    BY <1>5 DEF InCopy, OnCopy, WithCopy
  <2> QED  BY <1>1, <2>1, CopyServes
<1> QED  BY <1>2, <1>3, <1>4, <1>5

-----------------------------------------------------------------------------
(* Viewers come, go and change size.                                         *)
LEMMA ChangedWatchers ==
  ASSUME NEW t, TaskShape(t), NEW o \in Watchers
  PROVE  /\ TaskShape(WithObservers(t, o)) /\ WithObservers(t, o).observers = o
         /\ AllTold(t) /\ DOMAIN o \subseteq DOMAIN t.observers => AllTold(WithObservers(t, o))
<1> DEFINE u == WithObservers(t, o)
<1>1. DOMAIN t = TaskFields
  BY DEF TaskShape
<1>2. /\ DOMAIN u = TaskFields /\ u.size = t.size /\ u.vt = t.vt /\ u.observers = o
      /\ u.lost = t.lost /\ u.pty = t.pty /\ u.told = t.told /\ u.copy = t.copy
  BY <1>1, ObserversSet
<1> HIDE DEF u
<1>3. TaskShape(u)
  BY <1>2 DEF TaskShape
<1>4. Seen(u) = Seen(t)
  BY <1>2, SameSeen
<1>5. AllTold(t) /\ DOMAIN o \subseteq DOMAIN t.observers => AllTold(u)
  BY <1>2, <1>4 DEF AllTold
<1> QED  BY <1>2, <1>3, <1>5 DEF u

LEMMA GreetedIs ==
  ASSUME NEW t, TaskShape(t), NEW id \in Viewers
  PROVE  /\ TaskShape(Greeted(t, id)) /\ Smallest(Greeted(t, id)) = Smallest(t)
         /\ Greeted(t, id).size = t.size /\ Greeted(t, id).observers = t.observers
         /\ Seen(Greeted(t, id)) = Seen(t) /\ Greeted(t, id).lost = t.lost
         /\ \A v \in Viewers : Greeted(t, id).told[v] = IF v = id THEN Seen(t) ELSE t.told[v]
<1> DEFINE f == [t.told EXCEPT ![id] = Seen(t)]  u == WithTold(t, f)
<1>1. DOMAIN t = TaskFields /\ DOMAIN t.told = Viewers
  BY DEF TaskShape
<1>2. Greeted(t, id) = u
  BY DEF Greeted, WithTold
<1>3. DOMAIN f = Viewers /\ \A v \in Viewers : f[v] = IF v = id THEN Seen(t) ELSE t.told[v]
  BY <1>1
<1> HIDE DEF f
<1>4. /\ DOMAIN u = TaskFields /\ u.size = t.size /\ u.vt = t.vt /\ u.observers = t.observers
      /\ u.lost = t.lost /\ u.pty = t.pty /\ u.told = f /\ u.copy = t.copy
  BY <1>1, ToldSet
<1> HIDE DEF u
<1>5. TaskShape(u)
  BY <1>3, <1>4 DEF TaskShape
<1>6. Smallest(u) = Smallest(t) /\ Seen(u) = Seen(t)
  BY <1>4, SameSmallest, SameSeen
<1> QED  BY <1>2, <1>3, <1>4, <1>5, <1>6

LEMMA AttachServes ==
  ASSUME Serves(task), NEW id \in Viewers, NEW size \in ViewSizes, Attach(id, size)
  PROVE  Serves(task)'
<1> DEFINE o == With(task.observers, id, size)  t == WithObservers(task, o)
<1>1. task.observers \in Watchers /\ TaskShape(task) /\ AllTold(task)
  BY DEF Serves, TaskShape
<1>2. o \in Watchers /\ DOMAIN o = DOMAIN task.observers \cup {id}
  BY <1>1, Joining, TaskAssumption
<1>3. Becomes(Joined(t, id), <<>>)
  BY DEF Attach, Command, WithObservers
<1> HIDE DEF o
<1>4. /\ t.observers = o /\ TaskShape(t) /\ t.told = task.told /\ Seen(t) = Seen(task)
  BY <1>1, <1>2, ChangedWatchers, ObserversSet, SameSeen DEF TaskShape
<1> HIDE DEF t
<1>5. CASE Resized(t)
  <2> DEFINE x == SyncSize(t)  y == RenderPresent(x)  z == Greeted(y, id)
  <2>1. Joined(t, id) = Broadcast(z)
    BY <1>5 DEF Joined
  <2>2. TaskShape(x) /\ SizeRight(x)
    BY <1>4, SyncServes
  <2> HIDE DEF x
  <2>3. Alike(x, y)
    BY <2>2, RenderAlike DEF TaskShape
  <2> HIDE DEF y
  <2>4. TaskShape(y) /\ SizeRight(y)
    BY <2>2, <2>3, AlikeShape
  <2>5. TaskShape(z) /\ SizeRight(z)
    BY <2>4, GreetedIs DEF SizeRight
  <2> HIDE DEF z
  <2>6. Serves(Broadcast(z))
    BY <2>5, BroadcastOf
  <2> QED  BY <1>3, <2>1, <2>6, BecomesServes
<1>6. CASE ~Resized(t)
  <2> DEFINE z == Greeted(t, id)
  <2>1. Joined(t, id) = z
    BY <1>6 DEF Joined
  <2>2. /\ TaskShape(z) /\ Smallest(z) = Smallest(t)
        /\ z.size = t.size /\ z.observers = t.observers /\ Seen(z) = Seen(t)
        /\ \A v \in Viewers : z.told[v] = IF v = id THEN Seen(t) ELSE t.told[v]
    BY <1>4, GreetedIs
  <2> HIDE DEF z
  <2>3. SizeRight(z)
    BY <1>6, <2>2 DEF SizeRight, Resized
  <2>4. DOMAIN z.observers = DOMAIN task.observers \cup {id} /\ DOMAIN task.observers \subseteq Viewers
    BY <1>1, <1>2, <1>4, <2>2, WatchersAre
  <2>5. AllTold(z)
    BY <1>1, <1>4, <2>2, <2>4 DEF AllTold
  <2>6. Serves(z)
    BY <2>2, <2>3, <2>5 DEF Serves
  <2> QED  BY <1>3, <2>1, <2>6, BecomesServes
<1> QED  BY <1>5, <1>6

LEMMA DetachServes ==
  ASSUME Serves(task), NEW id \in Viewers, Detach(id)
  PROVE  Serves(task)'
<1> DEFINE d == DOMAIN task.observers \ {id}  o == Restrict(task.observers, d)  t == WithObservers(task, o)
<1>1. task.observers \in Watchers /\ TaskShape(task) /\ AllTold(task)
  BY DEF Serves, TaskShape
<1>2. o \in Watchers /\ DOMAIN o = d
  BY <1>1, Restricting
<1>3. Becomes(ApplySize(t), <<>>)
  BY DEF Detach, Command, WithObservers
<1>4. DOMAIN o \subseteq DOMAIN task.observers
  BY <1>2
<1> HIDE DEF o, d
<1>5. TaskShape(t) /\ AllTold(t)
  BY <1>1, <1>2, <1>4, ChangedWatchers
<1> HIDE DEF t
<1>6. Serves(ApplySize(t))
  BY <1>5, ApplyServes
<1> QED  BY <1>3, <1>6, BecomesServes

LEMMA ResizesServe ==
  ASSUME Serves(task), NEW id \in Viewers, NEW size \in ViewSizes, ViewerResizes(id, size)
  PROVE  Serves(task)'
<1> DEFINE o == IF id \in DOMAIN task.observers THEN With(task.observers, id, size) ELSE task.observers
           t == WithObservers(task, o)  u == ApplySize(t)
<1>1. task.observers \in Watchers /\ TaskShape(task) /\ AllTold(task)
  BY DEF Serves, TaskShape
<1>2. o \in Watchers /\ DOMAIN o \subseteq DOMAIN task.observers
  <2>1. size \in Nat \X Nat
    BY TaskAssumption
  <2>2. CASE id \in DOMAIN task.observers
    <3>1. /\ With(task.observers, id, size) \in Watchers
          /\ DOMAIN With(task.observers, id, size) = DOMAIN task.observers \cup {id}
      BY <1>1, <2>1, Joining
    <3> QED  BY <2>2, <3>1
  <2>3. CASE id \notin DOMAIN task.observers
    BY <1>1, <2>3
  <2> QED  BY <2>2, <2>3
<1>3. Becomes(IF u.copy.on THEN Shows(u) ELSE u, <<>>)
  BY DEF ViewerResizes, Command, WithObservers
<1> HIDE DEF o
<1>4. TaskShape(t) /\ AllTold(t)
  BY <1>1, <1>2, ChangedWatchers
<1> HIDE DEF t
<1>5. Serves(u)
  BY <1>4, ApplyServes
<1> HIDE DEF u
<1>6. Serves(Shows(u))
  BY <1>5, BroadcastOf DEF Serves
<1>7. Serves(IF u.copy.on THEN Shows(u) ELSE u)
  BY <1>5, <1>6
<1> QED  BY <1>3, <1>7, BecomesServes

LEMMA VanishServes ==
  ASSUME Serves(task), NEW id \in Viewers, Vanish(id)
  PROVE  Serves(task)'
<1>1. task' = task /\ gone' = gone \cup {id}
  BY DEF Vanish
<1>2. AllTold(task)'
  BY <1>1 DEF Serves, AllTold
<1> QED  BY <1>1, <1>2 DEF Serves

-----------------------------------------------------------------------------
InSize(t, s) == s \in ScreensOf(FitRows(t.size[1]), t.size[1], t.size[2])

LEMMA InSizeFits == ASSUME NEW t, NEW s, InSize(t, s) PROVE Fitting(s, t.size)
BY DEF InSize, Fitting

LEMMA ReadyFits ==
  ASSUME Serves(task), Ready
  PROVE  InSize(task, task.vt) /\ TaskShape(task) /\ SizeRight(task) /\ ~task.vt.broken
BY DEF Serves, Ready, TaskShape, Fitting, InSize

LEMMA InSizeIs ==
  ASSUME NEW t, TaskShape(t), NEW s, InSize(t, s)
  PROVE  \E w \in Nat \ {0}, h \in Nat \ {0} : \E R \in Shapes(w) :
            /\ s \in ScreensOf(R, w, h)
            /\ \A x : x \in ScreensOf(R, w, h) => InSize(t, x)
<1>1. PICK w \in Nat \ {0}, h \in Nat \ {0} : w = t.size[1] /\ h = t.size[2]
  BY DEF TaskShape
<1>2. FitRows(w) \in Shapes(w)
  BY FitRowsAre
<1>3. s \in ScreensOf(FitRows(w), w, h) /\ \A x : x \in ScreensOf(FitRows(w), w, h) => InSize(t, x)
  BY <1>1 DEF InSize
<1> QED  BY <1>2, <1>3

\* A view of the screen that a number of lines goes up or down.
Back0(g, n) == IF n >= 0 THEN g.off + n ELSE Minus(g.off, -n)
Viewed(s, n) == Upon(s, ScrollView(On(s), Back0(On(s), n)))

LEMMA BackNat == ASSUME NEW off \in Nat, NEW n \in Int PROVE (IF n >= 0 THEN off + n ELSE Minus(off, -n)) \in Nat
BY DEF Minus

LEMMA ViewedFits ==
  ASSUME NEW t, TaskShape(t), InSize(t, t.vt), NEW n \in Int
  PROVE  InSize(t, Viewed(t.vt, n))
<1> DEFINE s == t.vt
<1>1. PICK w \in Nat \ {0}, h \in Nat \ {0} : \E R \in Shapes(w) :
         s \in ScreensOf(R, w, h) /\ \A x : x \in ScreensOf(R, w, h) => InSize(t, x)
  BY InSizeIs
<1>2. PICK R \in Shapes(w) : s \in ScreensOf(R, w, h) /\ \A x : x \in ScreensOf(R, w, h) => InSize(t, x)
  BY <1>1
<1> HIDE DEF s
<1>3. BackOn(s) \in Nat /\ On(s) \in GridsOf(R, w, h, BackOn(s))
  BY <1>2, ScreenIs
<1>4. On(s).off \in Nat
  BY <1>3, GridIs
<1>5. Back0(On(s), n) \in Nat
  BY <1>4, BackNat DEF Back0
<1> DEFINE g == ScrollView(On(s), Back0(On(s), n))
<1>6. g \in GridsOf(R, w, h, BackOn(s))
  BY <1>3, <1>5, Views
<1> HIDE DEF g
<1>7. Upon(s, g) \in ScreensOf(R, w, h)
  BY <1>2, <1>6, Settling
<1>8. InSize(t, Upon(s, g))
  BY <1>2, <1>7
<1> QED  BY <1>8 DEF Viewed, g, s

LEMMA ScrollsServe ==
  ASSUME NEW t, TaskShape(t), SizeRight(t), InSize(t, t.vt), NEW n \in Int
  PROVE  Serves(ScrollBy(t, n))
<1>1. CASE t.copy.on
  <2>1. PICK c : [t EXCEPT !.copy.snap = Viewed(@, n)] = WithCopy(t, c)
    BY DEF WithCopy
  <2>2. ScrollBy(t, n) = Shows(WithCopy(t, c))
    BY <1>1, <2>1 DEF ScrollBy, Viewed, Back0
  <2> QED  BY <2>2, CopyServes
<1>2. CASE ~t.copy.on
  <2>1. [t EXCEPT !.vt = Viewed(@, n)] = WithVt(t, Viewed(t.vt, n))
    BY DEF WithVt
  <2>2. ScrollBy(t, n) = Broadcast(WithVt(t, Viewed(t.vt, n)))
    BY <1>2, <2>1 DEF ScrollBy, Viewed, Back0
  <2>3. Fitting(Viewed(t.vt, n), t.size)
    BY ViewedFits, InSizeFits
  <2> QED  BY <2>2, <2>3, VtServes
<1> QED  BY <1>1, <1>2

LEMMA ScrollServes ==
  ASSUME Serves(task), NEW delta \in {-1, 1}, NEW unit, Scroll(delta, unit), unit \in {"line", "half", "screen"}
  PROVE  Serves(task)'
<1>1. Becomes(ScrollBy(task, delta * Unit(task, unit)), <<>>) /\ Ready
  BY DEF Scroll, Command, Becomes
<1>2. TaskShape(task) /\ SizeRight(task) /\ InSize(task, task.vt)
  BY <1>1, ReadyFits
<1>3. PICK h \in Nat \ {0} : h = task.size[2]
  BY <1>2 DEF TaskShape
<1>4. Unit(task, unit) \in Nat
  <2>1. GreaterOf(h \div 2, 1) \in Nat /\ GreaterOf(h - 1, 1) \in Nat
    BY DEF GreaterOf
  <2> QED  BY <1>3, <2>1 DEF Unit
<1>5. PICK n \in Int : n = delta * Unit(task, unit)
  BY <1>4
<1>6. Serves(ScrollBy(task, n))
  BY <1>2, ScrollsServe
<1> QED  BY <1>1, <1>5, <1>6, BecomesServes

LEMMA KeysServe ==
  ASSUME Serves(task), NEW key, Key(key)
  PROVE  Serves(task)'
<1>1. CASE Becomes(task, <<key>>)
  BY <1>1, BecomesServes
<1>2. CASE Command(task)
  BY <1>2, BecomesServes DEF Command
<1>3. ASSUME NEW how, Copy(how) PROVE Serves(task)'
  BY <1>3, InCopyServes, BecomesServes DEF Copy, Command
<1> QED  BY <1>1, <1>2, <1>3 DEF Key

LEMMA DownsServe ==
  ASSUME Serves(task), NEW r, NEW c
  PROVE  Serves(MouseDown(task, r, c))
<1> DEFINE t == WithDown(task, <<r, c>>)
<1>1. Serves(t)
  BY DownServes
<1>2. MouseDown(task, r, c) = t \/ \E x : MouseDown(task, r, c) = Shows(WithCopy(t, x))
  BY DEF MouseDown, OnCopy, WithDown, WithCopy
<1> HIDE DEF t
<1>3. ASSUME NEW x PROVE Serves(Shows(WithCopy(t, x)))
  BY <1>1, CopyServes DEF Serves
<1> QED  BY <1>1, <1>2, <1>3

LEMMA DragsServe ==
  ASSUME Serves(task), NEW r, NEW c
  PROVE  Serves(MouseDrag(task, r, c))
<1> DEFINE t == EnterCopy(task)
<1>1. PICK x : MouseDrag(task, r, c) = Shows(WithCopy(t, x))
  BY DEF MouseDrag, WithCopy
<1>2. TaskShape(t) /\ SizeRight(t)
  BY EnterAlike, AlikeShape DEF Serves, TaskShape
<1> HIDE DEF t
<1> QED  BY <1>1, <1>2, CopyServes

LEMMA PointersServe ==
  ASSUME Serves(task), NEW kind, NEW r, NEW c, Mouse1(kind, r, c)
  PROVE  Serves(task)'
<1>1. TaskShape(task) /\ SizeRight(task) /\ InSize(task, task.vt)
  <2>1. Ready
    BY DEF Mouse1, Becomes, Command
  <2> QED  BY <2>1, ReadyFits
<1> DEFINE up == [task EXCEPT !.down = NoPos]
<1>2. PICK n \in Int, m \in Int : n = WheelLines /\ m = -WheelLines
  BY TaskAssumption
<1>3. Serves(ScrollBy(task, n)) /\ Serves(ScrollBy(task, m))
  BY <1>1, ScrollsServe
<1>4. Serves(up)
  <2>1. up = WithDown(task, NoPos)
    BY DEF WithDown
  <2> QED  BY <2>1, DownServes
<1> HIDE DEF up
<1>5. CASE task.vt.mouse # "none"
  <2>1. PICK input : Becomes(task, input)
    BY <1>5 DEF Mouse1
  <2> QED  BY <2>1, BecomesServes
<1>6. CASE task.vt.mouse = "none"
  <2>1. PICK t : /\ Becomes(t, <<>>)
                 /\ t \in {MouseDown(task, r, c), MouseDrag(task, r, c), up, ScrollBy(task, n), ScrollBy(task, m), task}
    BY <1>2, <1>6 DEF Mouse1, Command, up
  <2>2. Serves(t)
    BY <1>3, <1>4, <2>1, DownsServe, DragsServe
  <2> QED  BY <2>1, <2>2, BecomesServes
<1> QED  BY <1>5, <1>6

-----------------------------------------------------------------------------
LEMMA ProcessServes ==
  ASSUME Serves(task), NEW s, InSize(task, s), NEW answer, Process(s, answer)
  PROVE  Serves(task)'
<1>1. Becomes(Broadcast(WithVt(task, s)), answer)
  BY DEF Process, WithVt
<1>2. Serves(Broadcast(WithVt(task, s)))
  BY InSizeFits, VtServes DEF Serves
<1> QED  BY <1>1, <1>2, BecomesServes

LEMMA PrintsServe ==
  ASSUME Serves(task), NEW run \in Runs, Prints(run)
  PROVE  Serves(task)'
<1> DEFINE s == task.vt
<1>1. Ready /\ Process(TextRun(s, run), <<>>)
  BY DEF Prints, Process, Becomes
<1>2. TaskShape(task) /\ InSize(task, s)
  BY <1>1, ReadyFits
<1>3. PICK w \in Nat \ {0}, h \in Nat \ {0} : \E R \in Shapes(w) :
         s \in ScreensOf(R, w, h) /\ \A x : x \in ScreensOf(R, w, h) => InSize(task, x)
  BY <1>2, InSizeIs
<1>4. PICK R \in Shapes(w) : s \in ScreensOf(R, w, h) /\ \A x : x \in ScreensOf(R, w, h) => InSize(task, x)
  BY <1>3
<1>5. run \in Seq(Chars)
  BY ScreenAssumption DEF Chars
<1> HIDE DEF s
<1>6. TextRun(s, run) \in ScreensOf(R, w, h)
  BY <1>4, <1>5, TextRuns
<1>7. InSize(task, TextRun(s, run))
  BY <1>4, <1>6
<1> QED  BY <1>1, <1>7, ProcessServes

LEMMA BreaksServe ==
  ASSUME Serves(task), Breaks
  PROVE  Serves(task)'
<1> DEFINE s == task.vt
<1>0. PICK zero \in Nat, one \in Nat : zero = 0 /\ one = 1
  OBVIOUS
<1>1. Ready /\ Process(Upon(s, SetCol(DownScroll(On(s), one), zero)), <<>>)
  BY <1>0 DEF Breaks, Process, Becomes
<1>2. TaskShape(task) /\ InSize(task, s)
  BY <1>1, ReadyFits
<1>3. PICK w \in Nat \ {0}, h \in Nat \ {0} : \E R \in Shapes(w) :
         s \in ScreensOf(R, w, h) /\ \A x : x \in ScreensOf(R, w, h) => InSize(task, x)
  BY <1>2, InSizeIs
<1>4. PICK R \in Shapes(w) : s \in ScreensOf(R, w, h) /\ \A x : x \in ScreensOf(R, w, h) => InSize(task, x)
  BY <1>3
<1> HIDE DEF s
<1>5. BackOn(s) \in Nat /\ On(s) \in GridsOf(R, w, h, BackOn(s))
  BY <1>4, ScreenIs
<1> DEFINE g == DownScroll(On(s), one)  x == SetCol(g, zero)
<1>6. g \in GridsOf(R, w, h, BackOn(s))
  BY <1>5, ScrollingDown
<1> HIDE DEF g
<1>7. x \in GridsOf(R, w, h, BackOn(s))
  BY <1>5, <1>6, Setting
<1> HIDE DEF x
<1>8. Upon(s, x) \in ScreensOf(R, w, h)
  BY <1>4, <1>7, Settling
<1>9. InSize(task, Upon(s, x))
  BY <1>4, <1>8
<1>10. Process(Upon(s, x), <<>>)
  BY <1>1 DEF x, g
<1> QED  BY <1>9, <1>10, ProcessServes

LEMMA TracksServe ==
  ASSUME Serves(task), NEW mode \in {"none", "press", "any"}, Tracks(mode)
  PROVE  Serves(task)'
<1> DEFINE s == [task.vt EXCEPT !.mouse = mode]
<1>1. Ready /\ Process(s, <<>>)
  BY DEF Tracks, Process, Becomes
<1>2. TaskShape(task) /\ InSize(task, task.vt)
  BY <1>1, ReadyFits
<1>3. mode \in Tracked
  BY DEF Tracked
<1>4. InSize(task, s)
  BY <1>2, <1>3 DEF InSize, ScreensOf
<1> HIDE DEF s
<1> QED  BY <1>1, <1>4, ProcessServes

-----------------------------------------------------------------------------
LEMMA ServesAtFirst == ASSUME TaskInit PROVE Serves(task)
<1>1. PICK run \in Written : task = [NewTask(3, 2) EXCEPT !.vt = PerChar(@, run)]
  BY DEF TaskInit
<1>2. PICK w \in Nat \ {0}, h \in Nat \ {0} : w = 3 /\ h = 2
  OBVIOUS
<1> DEFINE R == FitRows(w)  s == PerChar(NewScreen(w, h), run)
<1>3. R \in Shapes(w) /\ run \in Seq(Chars)
  BY FitRowsAre, ScreenAssumption DEF Chars
<1> HIDE DEF R
<1>4. NewScreen(w, h) \in ScreensOf(R, w, h)
  BY <1>3, NewScreens
<1>5. s \in ScreensOf(R, w, h)
  <2> DEFINE x == NewScreen(w, h)
  <2>1. x \in ScreensOf(R, w, h)
    BY <1>4
  <2> HIDE DEF x
  <2>2. PerChar(x, run) \in ScreensOf(R, w, h)
    BY <1>3, <2>1, PerCharing
  <2> QED  BY <2>2 DEF x
<1>6. /\ DOMAIN task = TaskFields /\ task.size = <<w, h>> /\ task.pty = <<w, h>> /\ task.observers = <<>>
      /\ task.vt = s /\ DOMAIN task.told = Viewers /\ task.lost = FALSE
  BY <1>1, <1>2 DEF NewTask, TaskFields
<1> HIDE DEF s
<1>7. <<>> \in Watchers /\ DOMAIN <<>> = {}
  <2>1. <<>> \in [{} -> Nat \X Nat]
    OBVIOUS
  <2> QED  BY <2>1 DEF Watchers
<1>8. TaskShape(task)
  BY <1>5, <1>6, <1>7 DEF TaskShape, Fitting, R
<1>9. AllTold(task)
  BY <1>6, <1>7 DEF AllTold
<1>10. SizeRight(task)
  BY <1>6 DEF SizeRight, Smallest
<1> QED  BY <1>8, <1>9, <1>10 DEF Serves

LEMMA ServesNext == ASSUME Serves(task), [TaskNext]_taskVars PROVE Serves(task)'
<1>1. CASE UNCHANGED taskVars
  BY <1>1 DEF taskVars, Serves, AllTold
<1>2. CASE Watching
  BY <1>2, AttachServes, ResizesServe, DetachServes, VanishServes DEF Watching
<1>3. CASE Copying
  <2>1. ASSUME NEW how, Copy(how) PROVE Serves(task)'
    BY <2>1, InCopyServes, BecomesServes DEF Copy, Command
  <2>2. ASSUME Paste PROVE Serves(task)'
    BY <2>2, BecomesServes DEF Paste
  <2> QED  BY <1>3, <2>1, <2>2, KeysServe, ScrollServes DEF Copying
<1>4. CASE Pointing
  BY <1>4, PointersServe DEF Pointing
<1>5. CASE Printing
  BY <1>5, PrintsServe, BreaksServe, TracksServe DEF Printing
<1> QED  BY <1>1, <1>2, <1>3, <1>4, <1>5 DEF TaskNext

-----------------------------------------------------------------------------
LEMMA SizesMeet ==
  ASSUME NEW o \in Watchers, NEW k \in 1..2, o # <<>>
  PROVE  LET n == GreaterOf(Min(Extents(o, k)), 1)
         IN  n \in Nat /\ (\A v \in DOMAIN o : n <= GreaterOf(o[v][k], 1))
             /\ ~(\A v \in DOMAIN o : n + 1 <= GreaterOf(o[v][k], 1))
<1>1. DOMAIN o # {}
  BY EmptyWatchers
<1>2. PICK m \in Nat : m = Min(Extents(o, k))
  BY <1>1, LeastExtent
<1>3. (\A v \in DOMAIN o : m <= o[v][k]) /\ \E v \in DOMAIN o : o[v][k] = m
  BY <1>1, <1>2, LeastExtent
<1>4. \A v \in DOMAIN o : o[v][k] \in Nat
  BY WatchersAre
<1>5. \A n \in Nat : m <= n => GreaterOf(m, 1) <= GreaterOf(n, 1)
  BY DEF GreaterOf
<1>6. GreaterOf(m, 1) \in Nat /\ ~(GreaterOf(m, 1) + 1 <= GreaterOf(m, 1))
  BY DEF GreaterOf
<1>7. \A v \in DOMAIN o : GreaterOf(m, 1) <= GreaterOf(o[v][k], 1)
  BY <1>3, <1>4, <1>5
<1> QED  BY <1>2, <1>3, <1>6, <1>7

LEMMA SmallestWins ==
  ASSUME Serves(task)
  PROVE  SmallestViewerWins
<1> DEFINE t == task  fits(s) == \A v \in DOMAIN t.observers : \A k \in 1..2 : s[k] <= GreaterOf(t.observers[v][k], 1)
<1>1. SUFFICES ASSUME ~t.vt.broken, ~t.lost
               PROVE  /\ t.pty = t.size /\ <<t.vt.main.w, t.vt.main.h>> = t.size /\ fits(t.size)
                      /\ (t.observers # <<>> => \A k \in 1..2 : ~fits([t.size EXCEPT ![k] = @ + 1]))
  BY DEF SmallestViewerWins
<1>2. /\ t.size \in (Nat \ {0}) \X (Nat \ {0}) /\ t.pty = t.size /\ Fitting(t.vt, t.size)
      /\ t.observers \in Watchers /\ Smallest(t) = t.size
  BY <1>1 DEF Serves, TaskShape, SizeRight
<1>3. PICK w \in Nat \ {0}, h \in Nat \ {0} : w = t.size[1] /\ h = t.size[2] /\ t.size = <<w, h>>
  BY <1>2
<1>4. t.vt \in ScreensOf(FitRows(w), w, h)
  BY <1>1, <1>2, <1>3 DEF Fitting
<1>5. t.vt.main.w = w /\ t.vt.main.h = h
  <2>1. t.vt.main \in GridsOf(FitRows(w), w, h, Back) /\ Back \in Nat
    BY <1>4, ScreenAssumption DEF ScreensOf
  <2> QED  BY <2>1, GridIs
<1>6. CASE t.observers = <<>>
  <2>1. DOMAIN t.observers = {}
    BY <1>6
  <2> QED  BY <1>2, <1>3, <1>5, <1>6, <2>1
<1>7. CASE t.observers # <<>>
  <2> DEFINE o == t.observers
  <2>0. Smallest(t) = <<GreaterOf(Min(Extents(o, 1)), 1), GreaterOf(Min(Extents(o, 2)), 1)>>
    <3> HIDE DEF t
    <3>1. t.observers \in Watchers /\ t.size \in (Nat \ {0}) \X (Nat \ {0}) /\ t.observers # <<>>
      BY <1>2, <1>7
    <3> QED  BY <3>1, SmallestIs
  <2>1. w = GreaterOf(Min(Extents(o, 1)), 1) /\ h = GreaterOf(Min(Extents(o, 2)), 1)
    <3> DEFINE a == GreaterOf(Min(Extents(o, 1)), 1)  b == GreaterOf(Min(Extents(o, 2)), 1)
    <3>1. <<w, h>> = <<a, b>>
      BY <1>2, <1>3, <2>0
    <3> HIDE DEF a, b
    <3>2. w = a /\ h = b
      BY <3>1
    <3> QED  BY <3>2 DEF a, b
  <2> HIDE DEF o
  <2>2. o \in Watchers /\ o # <<>>
    BY <1>2, <1>7 DEF o
  <2>3. (\A v \in DOMAIN o : w <= GreaterOf(o[v][1], 1)) /\ ~(\A v \in DOMAIN o : w + 1 <= GreaterOf(o[v][1], 1))
    BY <2>1, <2>2, SizesMeet
  <2>4. (\A v \in DOMAIN o : h <= GreaterOf(o[v][2], 1)) /\ ~(\A v \in DOMAIN o : h + 1 <= GreaterOf(o[v][2], 1))
    BY <2>1, <2>2, SizesMeet
  <2>5. fits(<<w, h>>)
    BY <2>3, <2>4 DEF o
  <2>6. ~fits(<<w + 1, h>>) /\ ~fits(<<w, h + 1>>)
    BY <2>3, <2>4 DEF o
  <2>7. [t.size EXCEPT ![1] = @ + 1] = <<w + 1, h>> /\ [t.size EXCEPT ![2] = @ + 1] = <<w, h + 1>>
    BY <1>3
  <2> QED  BY <1>2, <1>3, <1>5, <2>5, <2>6, <2>7
<1> QED  BY <1>6, <1>7

\* Whatever viewers come, go, vanish and change size, and whatever the program and
\* copy mode do in between: the smallest viewer sets the one size of screen, grid
\* and terminal, and each that is attached was told of what is shown (the messages
\* and renders of task_screen.rs).
THEOREM AllAreServed == TaskSpec => []ViewersServed
<1>1. TaskInit => Serves(task)
  BY ServesAtFirst
<1>2. Serves(task) /\ [TaskNext]_taskVars => Serves(task)'
  BY ServesNext
<1>3. Serves(task) => ViewersServed
  <2>1. Serves(task) => ViewersUpToDate
    BY DEF Serves, AllTold, ViewersUpToDate, Open
  <2> QED  BY <2>1, SmallestWins DEF ViewersServed
<1> QED  BY <1>1, <1>2, <1>3, PTL DEF TaskSpec

-----------------------------------------------------------------------------
(* What a run of plain characters makes of its row, and of the grid.         *)
RunRow(w, row, col, n, chars, a, new) ==
  /\ \A j \in 0..w-1 : new.cells[j] =
       IF j \in col..col + n - 1 THEN Glyph(chars[j - col + 1], a)
       ELSE IF j = col - 1 /\ IsWide(row.cells[j]) THEN Blank(a)
       ELSE IF j = col + n /\ IsWide(row.cells[col + n - 1]) THEN Glyph(Space, a)
       ELSE row.cells[j]
  /\ new.size = GreaterOf(row.size, IF IsWide(row.cells[col + n - 1]) THEN col + n + 1 ELSE col + n)
  /\ new.wrapped = row.wrapped
RunGrid(w, h, b, g, n, chars, a, x) ==
  /\ Edited(w, h, b, g, g.row, x, At(x, g.row))
  /\ RunRow(w, At(g, g.row), g.col, n, chars, a, At(x, g.row))
  /\ x.used = GreaterOf(g.used, g.row + 1)

LEMMA PutSize ==
  ASSUME NEW w \in Nat \ {0}, NEW row \in AnyRows(w), NEW c \in Nat, NEW cell \in Cells
  PROVE  PutIn(row, c, cell).size = GreaterOf(row.size, c + 1) /\ PutIn(row, c, cell).wrapped = row.wrapped
BY DEF PutIn, AnyRows

\* The cuts before the run.
CutRow(w, row, col, hi, a, cut) ==
  /\ cut \in AnyRows(w) /\ cut.wrapped = row.wrapped
  /\ \A j \in 0..w-1 : cut.cells[j] =
        IF j = hi + 1 /\ IsWide(row.cells[hi]) THEN Glyph(Space, a)
        ELSE IF j = col - 1 /\ IsWide(row.cells[j]) THEN Blank(a) ELSE row.cells[j]
  /\ GreaterOf(cut.size, hi + 1) = GreaterOf(row.size, IF IsWide(row.cells[hi]) THEN hi + 2 ELSE hi + 1)
LEMMA CutIs ==
  ASSUME NEW w \in Nat \ {0}, NEW row \in AnyRows(w), NEW col \in Nat, NEW hi \in 0..w-1, col <= hi, NEW a \in Colours
  PROVE  CutRow(w, row, col, hi, a, RowCut(row, col, hi, a))
<1> DEFINE r1 == RowCutBefore(row, col, a)  r2 == RowCutAfter(r1, hi, a)
<1>0. Blank(a) \in Cells /\ Glyph(Space, a) \in Cells /\ row.size \in Nat /\ hi \in Nat
  BY Blanks, Spaces DEF AnyRows
<1>1. /\ r1 \in AnyRows(w)
      /\ \A j \in 0..w-1 : r1.cells[j] = IF j = col - 1 /\ IsWide(row.cells[j]) THEN Blank(a) ELSE row.cells[j]
  BY RowBefore
<1>2. r1.wrapped = row.wrapped /\ (r1.size = row.size \/ (r1.size = GreaterOf(row.size, col)))
  <2>1. CASE Continues(row, col)
    <3>1. PICK c \in Nat : c = col - 1 /\ c + 1 = col
      BY <2>1 DEF Continues
    <3>2. PICK cell \in Cells : cell = Blank(a)
      BY <1>0
    <3>3. r1 = PutIn(row, c, cell)
      BY <2>1, <3>1, <3>2 DEF RowCutBefore
    <3>4. PutIn(row, c, cell).wrapped = row.wrapped
      BY PutSize
    <3>5. PutIn(row, c, cell).size = GreaterOf(row.size, c + 1)
      BY PutSize
    <3> HIDE DEF r1
    <3> QED  BY <3>1, <3>3, <3>4, <3>5
  <2>2. CASE ~Continues(row, col)
    BY <2>2 DEF RowCutBefore
  <2> QED  BY <2>1, <2>2
<1> HIDE DEF r1
<1>3. /\ r2 \in AnyRows(w)
      /\ \A j \in 0..w-1 : r2.cells[j] = IF j = hi + 1 /\ IsWide(r1.cells[hi]) THEN Glyph(Space, a) ELSE r1.cells[j]
  BY <1>1, RowAfter
<1>4. r1.cells[hi] = row.cells[hi]
  BY <1>1
<1>5. r2.wrapped = r1.wrapped /\ r2.size = IF IsWide(r1.cells[hi]) THEN GreaterOf(r1.size, hi + 2) ELSE r1.size
  <2>1. CASE IsWide(r1.cells[hi])
    <3>1. PICK c \in Nat : c = hi + 1 /\ c + 1 = hi + 2
      BY <1>0
    <3>2. PICK cell \in Cells : cell = Glyph(Space, a)
      BY <1>0
    <3>3. r2 = PutIn(r1, c, cell)
      BY <2>1, <3>1, <3>2 DEF RowCutAfter
    <3>4. PutIn(r1, c, cell).wrapped = r1.wrapped
      BY <1>1, PutSize
    <3>5. PutIn(r1, c, cell).size = GreaterOf(r1.size, c + 1)
      BY <1>1, PutSize
    <3> HIDE DEF r2
    <3> QED  BY <2>1, <3>1, <3>3, <3>4, <3>5
  <2>2. CASE ~IsWide(r1.cells[hi])
    BY <2>2 DEF RowCutAfter
  <2> QED  BY <2>1, <2>2
<1>6. RowCut(row, col, hi, a) = r2
  BY DEF RowCut, r1
<1>7. r1.size \in Nat /\ r2.size \in Nat
  BY <1>1, <1>3 DEF AnyRows
<1> HIDE DEF r2
<1>8. GreaterOf(r2.size, hi + 1) = GreaterOf(row.size, IF IsWide(row.cells[hi]) THEN hi + 2 ELSE hi + 1)
  BY <1>0, <1>2, <1>4, <1>5, <1>7 DEF GreaterOf
<1>9. \A j \in 0..w-1 : r2.cells[j] =
                  IF j = hi + 1 /\ IsWide(row.cells[hi]) THEN Glyph(Space, a)
                  ELSE IF j = col - 1 /\ IsWide(row.cells[j]) THEN Blank(a) ELSE row.cells[j]
  BY <1>1, <1>3, <1>4
<1> QED  BY <1>2, <1>3, <1>5, <1>6, <1>8, <1>9 DEF CutRow

-----------------------------------------------------------------------------
PaintCounts(p, k, x) ==
  /\ At(x, p.row).wrapped = p.base.wrapped
  /\ At(x, p.row).size = (IF k = 0 THEN p.base.size ELSE GreaterOf(p.base.size, p.col + k))
  /\ x.used = (IF k = 0 THEN p.used ELSE GreaterOf(p.used, p.row + 1))
PaintExact(p, k, x) == BlitKept(p, k, x) /\ PaintCounts(p, k, x)
Exactly == INSTANCE Folding WITH Step <- BlitStep, Keeps <- PaintExact

LEMMA RunExactly ==
  ASSUME NEW g, NEW chars, NEW a, NEW p, p.row = g.row, p.col = g.col, p.chars = chars, p.a = a, chars # <<>>
  PROVE  WriteRun(g, chars, a) =
           Exactly!Folded(p, CutAfter(CutBefore(g, g.col, a), g.col + Len(chars) - 1, a), Count(Len(chars)))
BY DEF WriteRun, Count, BlitStep, Exactly!Folded, FoldLeft, MapThenFoldSet, Exactly!FoldLeft,
       Exactly!MapThenFoldSet, Max, Exactly!Max

\* How many rows are used after the cuts.
LEMMA CutUses ==
  ASSUME NEW w \in Nat \ {0}, NEW h \in Nat \ {0}, NEW b \in Nat,
         NEW g \in GridsOf(AnyRows(w), w, h, b), NEW a \in Colours, NEW hi \in Nat, g.row < h
  PROVE  GreaterOf(CutAfter(CutBefore(g, g.col, a), hi, a).used, g.row + 1) = GreaterOf(g.used, g.row + 1)
<1> DEFINE x == CutBefore(g, g.col, a)  y == CutAfter(x, hi, a)
<1>1. g.row \in Nat /\ g.used \in Nat /\ g.col \in Nat
  BY GridIs
<1>2. Edited(w, h, b, g, g.row, x, RowCutBefore(At(g, g.row), g.col, a))
  BY <1>1, CuttingBefore
<1>3. x \in GridsOf(AnyRows(w), w, h, b) /\ x.row = g.row
  BY <1>2 DEF Edited, Kin
<1>4. x.used \in Nat
  BY <1>3, GridIs
<1>5. x.used = g.used \/ x.used = GreaterOf(g.used, g.row + 1)
  <2>1. x = g \/ x = Painted(g, g.row, g.col - 1, Blank(a))
    BY PutBlank DEF CutBefore
  <2>2. Painted(g, g.row, g.col - 1, Blank(a)).used = GreaterOf(g.used, g.row + 1)
    BY DEF Painted, WithRow, GridsOf, Fields
  <2> QED  BY <2>1, <2>2
<1> HIDE DEF x
<1>6. y.used = x.used \/ y.used = GreaterOf(x.used, g.row + 1)
  <2>1. y = x \/ y = Painted(x, x.row, hi + 1, Glyph(Space, a))
    BY PutGlyph DEF CutAfter
  <2>2. Painted(x, x.row, hi + 1, Glyph(Space, a)).used = GreaterOf(x.used, x.row + 1)
    BY <1>3 DEF Painted, WithRow, GridsOf, Fields
  <2> QED  BY <1>3, <2>1, <2>2
<1> HIDE DEF y
<1>7. GreaterOf(y.used, g.row + 1) = GreaterOf(g.used, g.row + 1)
  BY <1>1, <1>4, <1>5, <1>6 DEF GreaterOf
<1> QED  BY <1>7 DEF x, y

-----------------------------------------------------------------------------
LEMMA PaintSays ==
  ASSUME NEW w \in Nat \ {0}, NEW h \in Nat \ {0}, NEW b \in Nat, NEW g \in GridsOf(AnyRows(w), w, h, b),
         NEW r \in Nat, r < h, NEW c \in Nat, NEW cell \in Cells
  PROVE  /\ At(Painted(g, r, c, cell), r).wrapped = At(g, r).wrapped
         /\ At(Painted(g, r, c, cell), r).size = GreaterOf(At(g, r).size, c + 1)
         /\ Painted(g, r, c, cell).used = GreaterOf(g.used, r + 1)
<1>1. At(g, r) \in AnyRows(w)
  BY AtRow
<1>2. Edited(w, h, b, g, r, Painted(g, r, c, cell), PutIn(At(g, r), c, cell))
  BY Painting
<1>3. At(Painted(g, r, c, cell), r) = PutIn(At(g, r), c, cell)
  BY <1>2 DEF Edited
<1>4. PutIn(At(g, r), c, cell).size = GreaterOf(At(g, r).size, c + 1)
  BY <1>1, PutSize
<1>5. PutIn(At(g, r), c, cell).wrapped = At(g, r).wrapped
  BY <1>1, PutSize
<1>6. Painted(g, r, c, cell).used = GreaterOf(g.used, r + 1)
  BY DEF Painted, WithRow, GridsOf, Fields
<1> QED  BY <1>3, <1>4, <1>5, <1>6

LEMMA Growing ==
  ASSUME NEW a \in Nat, NEW b \in Nat, NEW k \in Nat \ {0}, NEW x, x = (IF k - 1 = 0 THEN a ELSE GreaterOf(a, b + (k - 1)))
  PROVE  GreaterOf(x, b + k - 1 + 1) = GreaterOf(a, b + k)
BY DEF GreaterOf

LEMMA Counting ==
  ASSUME NEW a \in Nat, NEW r \in Nat, NEW x, x = a \/ x = GreaterOf(a, r)
  PROVE  GreaterOf(x, r) = GreaterOf(a, r)
BY DEF GreaterOf

LEMMA PaintKeepsCount ==
  ASSUME NEW w \in Nat \ {0}, NEW h \in Nat \ {0}, NEW b \in Nat, NEW p, NEW x \in GridsOf(AnyRows(w), w, h, b),
         p.row \in Nat, p.row < h, p.col \in Nat, p.used \in Nat, p.base.size \in Nat,
         NEW k \in Nat \ {0}, NEW cell \in Cells, PaintCounts(p, k - 1, x)
  PROVE  PaintCounts(p, k, Painted(x, p.row, p.col + k - 1, cell))
<1> DEFINE y == Painted(x, p.row, p.col + k - 1, cell)  c == p.col + k - 1
<1>1. c \in Nat
  OBVIOUS
<1>2. /\ At(y, p.row).wrapped = At(x, p.row).wrapped
      /\ At(y, p.row).size = GreaterOf(At(x, p.row).size, c + 1)
      /\ y.used = GreaterOf(x.used, p.row + 1)
  <2> HIDE DEF c
  <2>1. y = Painted(x, p.row, c, cell)
    BY DEF c
  <2> HIDE DEF y
  <2> QED  BY <1>1, <2>1, PaintSays
<1> HIDE DEF y
<1>3. /\ At(x, p.row).wrapped = p.base.wrapped
      /\ At(x, p.row).size = (IF k - 1 = 0 THEN p.base.size ELSE GreaterOf(p.base.size, p.col + (k - 1)))
      /\ x.used = (IF k - 1 = 0 THEN p.used ELSE GreaterOf(p.used, p.row + 1))
  BY DEF PaintCounts
<1>4. At(y, p.row).size = GreaterOf(p.base.size, p.col + k)
  <2>1. PICK size \in Nat : size = p.base.size
    OBVIOUS
  <2>2. PICK col \in Nat : col = p.col
    OBVIOUS
  <2>3. GreaterOf(At(x, p.row).size, col + k - 1 + 1) = GreaterOf(size, col + k)
    BY <1>3, <2>1, <2>2, Growing
  <2> QED  BY <1>2, <2>1, <2>2, <2>3
<1>5. y.used = GreaterOf(p.used, p.row + 1)
  <2>1. PICK r \in Nat : r = p.row + 1
    OBVIOUS
  <2>2. x.used = p.used \/ x.used = GreaterOf(p.used, r)
    BY <1>3, <2>1
  <2> QED  BY <1>2, <2>1, <2>2, Counting
<1>6. k # 0
  OBVIOUS
<1> QED  BY <1>2, <1>3, <1>4, <1>5, <1>6 DEF PaintCounts, y

\* What a run of plain characters makes of the grid.
LEMMA Exact ==
  ASSUME NEW w \in Nat \ {0}, NEW h \in Nat \ {0}, NEW b \in Nat, NEW g \in GridsOf(AnyRows(w), w, h, b), g.row < h,
         NEW n \in Nat \ {0}, NEW chars \in [1..n -> Narrow], Len(chars) = n, chars # <<>>, NEW a \in Colours,
         g.col + n <= w
  PROVE  RunGrid(w, h, b, g, n, chars, a, WriteRun(g, chars, a))
<1> DEFINE hi == g.col + n - 1  old == At(g, g.row)  cut == RowCut(old, g.col, hi, a)
           start == CutAfter(CutBefore(g, g.col, a), hi, a)
           p == [w |-> w, h |-> h, b |-> b, g |-> g, row |-> g.row, col |-> g.col, chars |-> chars, a |-> a,
                 base |-> cut, used |-> start.used]
           end == WriteRun(g, chars, a)
<1>1. g.row \in Nat /\ g.col \in Nat /\ hi \in Nat /\ hi \in 0..w-1 /\ g.col <= hi /\ g.used \in Nat /\ hi + 1 = g.col + n
  BY GridIs
<1>2. old \in AnyRows(w)
  BY <1>1, AtRow
<1>3. Edited(w, h, b, g, g.row, start, cut)
  BY <1>1, CutsGrid
<1>4. /\ p.w = w /\ p.h = h /\ p.b = b /\ p.g = g /\ p.row = g.row /\ p.col = g.col /\ p.chars = chars
      /\ p.a = a /\ p.base = cut /\ p.used = start.used
  OBVIOUS
<1>5. end = Exactly!Folded(p, start, Count(n))
  BY <1>4, RunExactly
<1>6. GreaterOf(start.used, g.row + 1) = GreaterOf(g.used, g.row + 1)
  BY <1>1, CutUses
<1>7. /\ cut \in AnyRows(w) /\ cut.wrapped = old.wrapped
      /\ \A j \in 0..w-1 : cut.cells[j] =
            IF j = hi + 1 /\ IsWide(old.cells[hi]) THEN Glyph(Space, a)
            ELSE IF j = g.col - 1 /\ IsWide(old.cells[j]) THEN Blank(a) ELSE old.cells[j]
      /\ GreaterOf(cut.size, hi + 1) = GreaterOf(old.size, IF IsWide(old.cells[hi]) THEN hi + 2 ELSE hi + 1)
  <2>1. CutRow(w, old, g.col, hi, a, cut)
    <3> HIDE DEF old, hi
    <3> QED  BY <1>1, <1>2, CutIs
  <2> HIDE DEF cut, old, hi
  <2> QED  BY <2>1 DEF CutRow
<1>8. start.used \in Nat /\ cut.size \in Nat
  <2>1. start \in GridsOf(AnyRows(w), w, h, b)
    BY <1>3 DEF Edited
  <2> HIDE DEF start, cut
  <2> QED  BY <1>7, <2>1, GridIs DEF AnyRows
<1> HIDE DEF p, start, cut, old, hi
<1>9. PaintExact(p, 0, start)
  <2>1. Blitted(w, cut, g.col, 0, chars, a, cut)
    BY <1>1 DEF Blitted
  <2>2. BlitKept(p, 0, start)
    BY <1>3, <1>4, <2>1 DEF BlitKept, Edited
  <2>3. PaintCounts(p, 0, start)
    BY <1>3, <1>4 DEF PaintCounts, Edited
  <2> QED  BY <2>2, <2>3 DEF PaintExact
<1>10. ASSUME NEW k \in 1..n, NEW x, PaintExact(p, k - 1, x)
      PROVE  PaintExact(p, k, BlitStep(p, x, Count(n)[k]))
  <2> DEFINE y == Painted(x, g.row, g.col + k - 1, Glyph(chars[k], a))
  <2>1. Count(n)[k] = k
    BY DEF Count
  <2>2. BlitKept(p, k - 1, x) /\ PaintCounts(p, k - 1, x)
    BY <1>10 DEF PaintExact
  <2>3. BlitKept(p, k, y)
    BY <1>4, <2>2, BlitKeeps
  <2>4. BlitStep(p, x, k) = y
    BY <1>4, BlitIs
  <2>5. x \in GridsOf(AnyRows(w), w, h, b)
    BY <1>4, <2>2 DEF BlitKept, Edited
  <2>6. Glyph(chars[k], a) \in Cells
    <3>1. chars[k] \in Chars
      BY DEF Chars
    <3> QED  BY <3>1, Glyphs
  <2>7. PaintCounts(p, k, y)
    <3>1. PICK cell \in Cells : cell = Glyph(chars[k], a)
      BY <2>6
    <3>2. y = Painted(x, p.row, p.col + k - 1, cell)
      BY <1>4, <3>1
    <3> HIDE DEF y
    <3>3. k \in Nat \ {0}
      OBVIOUS
    <3> QED  BY <1>1, <1>4, <1>8, <2>2, <2>5, <3>2, <3>3, PaintKeepsCount
  <2> HIDE DEF y
  <2> QED  BY <2>1, <2>3, <2>4, <2>7 DEF PaintExact
<1>11. n \in Nat /\ DOMAIN Count(n) = 1..n
  BY DEF Count
<1>12. PaintExact(p, n, Exactly!Folded(p, start, Count(n)))
  BY ONLY <1>9, <1>10, <1>11, Exactly!FoldKeeps
<1> HIDE DEF end
<1>13. /\ Edited(w, h, b, g, g.row, end, At(end, g.row)) /\ Blitted(w, cut, g.col, n, chars, a, At(end, g.row))
       /\ At(end, g.row).wrapped = cut.wrapped /\ At(end, g.row).size = GreaterOf(cut.size, g.col + n)
       /\ end.used = GreaterOf(start.used, g.row + 1)
  BY <1>4, <1>5, <1>12 DEF PaintExact, BlitKept, PaintCounts
<1>14. RunRow(w, old, g.col, n, chars, a, At(end, g.row))
  <2>1. At(end, g.row).size = GreaterOf(old.size, IF IsWide(old.cells[g.col + n - 1]) THEN g.col + n + 1 ELSE g.col + n)
    BY <1>1, <1>7, <1>13 DEF hi
  <2>2. \A j \in 0..w-1 : At(end, g.row).cells[j] =
       IF j \in g.col..g.col + n - 1 THEN Glyph(chars[j - g.col + 1], a)
       ELSE IF j = g.col - 1 /\ IsWide(old.cells[j]) THEN Blank(a)
       ELSE IF j = g.col + n /\ IsWide(old.cells[g.col + n - 1]) THEN Glyph(Space, a)
       ELSE old.cells[j]
    <3> TAKE j \in 0..w-1
    <3>1. At(end, g.row).cells[j] = IF j \in g.col..g.col + n - 1 THEN Glyph(chars[j - g.col + 1], a) ELSE cut.cells[j]
      BY <1>13 DEF Blitted
    <3>2. cut.cells[j] =
            IF j = g.col + n /\ IsWide(old.cells[g.col + n - 1]) THEN Glyph(Space, a)
            ELSE IF j = g.col - 1 /\ IsWide(old.cells[j]) THEN Blank(a) ELSE old.cells[j]
      BY <1>1, <1>7 DEF hi
    <3>3. ~(j = g.col + n /\ j = g.col - 1)
      BY <1>1
    <3> QED  BY <3>1, <3>2, <3>3
  <2> QED  BY <1>7, <1>13, <2>1, <2>2 DEF RunRow
<1> QED  BY <1>6, <1>13, <1>14 DEF RunGrid, end, old

-----------------------------------------------------------------------------
LEMMA RowsEqual ==
  ASSUME NEW w \in Nat \ {0}, NEW x \in AnyRows(w), NEW y \in AnyRows(w),
         \A j \in 0..w-1 : x.cells[j] = y.cells[j], x.size = y.size, x.wrapped = y.wrapped
  PROVE  x = y
<1>1. x.cells = y.cells
  BY DEF AnyRows
<1> QED  BY <1>1 DEF AnyRows

LEMMA GridsEqual ==
  ASSUME NEW w \in Nat \ {0}, NEW h \in Nat \ {0}, NEW b \in Nat,
         NEW x \in GridsOf(AnyRows(w), w, h, b), NEW y \in GridsOf(AnyRows(w), w, h, b),
         Kin(x, y), x.used = y.used, \A k \in 1..Len(x.rows) : x.rows[k] = y.rows[k]
  PROVE  x = y
<1>1. x.rows = y.rows
  <2>1. x.rows \in Seq(AnyRows(w)) /\ y.rows \in Seq(AnyRows(w)) /\ Len(x.rows) = Len(y.rows)
    BY RowsAre DEF Kin
  <2> QED  BY <2>1
<1> QED  BY <1>1 DEF Kin, GridsOf, Fields

LEMMA RunRowOne ==
  ASSUME NEW w \in Nat \ {0}, NEW row, NEW col, NEW n, NEW chars, NEW a,
         NEW x \in AnyRows(w), NEW y \in AnyRows(w), RunRow(w, row, col, n, chars, a, x), RunRow(w, row, col, n, chars, a, y)
  PROVE  x = y
<1>1. (\A j \in 0..w-1 : x.cells[j] = y.cells[j]) /\ x.size = y.size /\ x.wrapped = y.wrapped
  BY DEF RunRow
<1> QED  BY <1>1, RowsEqual

LEMMA RunGridOne ==
  ASSUME NEW w \in Nat \ {0}, NEW h \in Nat \ {0}, NEW b \in Nat, NEW g \in GridsOf(AnyRows(w), w, h, b), g.row < h,
         NEW n, NEW chars, NEW a, NEW x, NEW y,
         RunGrid(w, h, b, g, n, chars, a, x), RunGrid(w, h, b, g, n, chars, a, y)
  PROVE  x = y
<1>1. g.row \in Nat
  BY GridIs
<1>2. /\ Edited(w, h, b, g, g.row, x, At(x, g.row)) /\ Edited(w, h, b, g, g.row, y, At(y, g.row))
      /\ RunRow(w, At(g, g.row), g.col, n, chars, a, At(x, g.row))
      /\ RunRow(w, At(g, g.row), g.col, n, chars, a, At(y, g.row))
      /\ x.used = y.used
  BY DEF RunGrid
<1>3. x \in GridsOf(AnyRows(w), w, h, b) /\ y \in GridsOf(AnyRows(w), w, h, b) /\ Kin(g, x) /\ Kin(g, y)
  BY <1>2 DEF Edited
<1>4. At(x, g.row) \in AnyRows(w) /\ At(y, g.row) \in AnyRows(w)
  BY <1>1, <1>3, AtRow
<1>5. At(x, g.row) = At(y, g.row)
  BY <1>2, <1>4, RunRowOne
<1>6. Row0(x) = Row0(g) /\ Row0(y) = Row0(g) /\ Len(x.rows) = Len(g.rows) /\ Kin(x, y)
  BY <1>3, KinValid DEF Kin
<1>7. ASSUME NEW k \in 1..Len(x.rows) PROVE x.rows[k] = y.rows[k]
  <2>1. CASE k = Row0(g) + g.row + 1
    BY <1>5, <1>6, <2>1 DEF At
  <2>2. CASE k # Row0(g) + g.row + 1
    BY <1>2, <1>6, <2>2 DEF Edited
  <2> QED  BY <2>1, <2>2
<1> QED  BY <1>2, <1>3, <1>6, <1>7, GridsEqual

-----------------------------------------------------------------------------
(* A run, and one more character, is a longer run: where no character was torn. *)
WithOneMore(n, chars, c, more) == more[n + 1] = c /\ \A k \in 1..n : more[k] = chars[k]

LEMMA RowExtends ==
  ASSUME NEW w \in Nat \ {0}, NEW row \in WholeRows(w), NEW col \in Nat, NEW n \in Nat \ {0}, col + n + 1 <= w,
         NEW chars \in [1..n -> Narrow], NEW c \in Narrow, NEW more, WithOneMore(n, chars, c, more), NEW a \in Colours,
         NEW x \in AnyRows(w), RunRow(w, row, col, n, chars, a, x),
         NEW y \in AnyRows(w), RunRow(w, x, col + n, 1, <<c>>, a, y)
  PROVE  RunRow(w, row, col, n + 1, more, a, y)
<1>0. row \in AnyRows(w) /\ row.size \in Nat
  BY ShapesAre DEF AnyRows, WholeRows, FitRows
<1>1. \A j \in 0..w-1 : x.cells[j] =
        IF j \in col..col + n - 1 THEN Glyph(chars[j - col + 1], a)
        ELSE IF j = col - 1 /\ IsWide(row.cells[j]) THEN Blank(a)
        ELSE IF j = col + n /\ IsWide(row.cells[col + n - 1]) THEN Glyph(Space, a)
        ELSE row.cells[j]
  BY DEF RunRow
<1>2. \A j \in 0..w-1 : y.cells[j] =
        IF j \in (col + n)..(col + n + 1 - 1) THEN Glyph(<<c>>[j - (col + n) + 1], a)
        ELSE IF j = col + n - 1 /\ IsWide(x.cells[j]) THEN Blank(a)
        ELSE IF j = col + n + 1 /\ IsWide(x.cells[col + n + 1 - 1]) THEN Glyph(Space, a)
        ELSE x.cells[j]
  BY DEF RunRow
<1>3. ~IsWide(x.cells[col + n - 1])
  <2>1. col + n - 1 \in 0..w-1 /\ col + n - 1 \in col..col + n - 1 /\ col + n - 1 - col + 1 = n /\ n \in 1..n
    OBVIOUS
  <2>2. x.cells[col + n - 1] = Glyph(chars[n], a)
    BY <1>1, <2>1
  <2>3. chars[n] \in Chars /\ chars[n] \notin Wide
    BY <2>1, Kinds DEF Chars
  <2> QED  BY <2>2, <2>3, Glyphs
<1>4. IsWide(x.cells[col + n]) <=> IsWide(row.cells[col + n])
  <2>1. col + n \in 0..w-1 /\ col + n \notin col..col + n - 1 /\ col + n # col - 1 /\ col + n - 1 \in 0..w-2
    OBVIOUS
  <2>2. CASE IsWide(row.cells[col + n - 1])
    <3>1. x.cells[col + n] = Glyph(Space, a)
      BY <1>1, <2>1, <2>2
    <3>2. row.cells[col + n - 1 + 1].text = <<>>
      BY <2>1, <2>2 DEF WholeRows
    <3>3. col + n - 1 + 1 = col + n
      OBVIOUS
    <3>4. row.cells[col + n] \in Cells
      BY <1>0, <2>1, Columns
    <3>5. ~IsWide(row.cells[col + n])
      BY <3>2, <3>3, <3>4, Empties
    <3> QED  BY <3>1, <3>5, Spaces
  <2>3. CASE ~IsWide(row.cells[col + n - 1])
    <3>1. x.cells[col + n] = row.cells[col + n]
      BY <1>1, <2>1, <2>3
    <3> QED  BY <3>1
  <2> QED  BY <2>2, <2>3
<1>5. ASSUME NEW j \in 0..w-1
      PROVE  y.cells[j] =
        IF j \in col..col + (n + 1) - 1 THEN Glyph(more[j - col + 1], a)
        ELSE IF j = col - 1 /\ IsWide(row.cells[j]) THEN Blank(a)
        ELSE IF j = col + (n + 1) /\ IsWide(row.cells[col + (n + 1) - 1]) THEN Glyph(Space, a)
        ELSE row.cells[j]
  <2>0. col + (n + 1) - 1 = col + n /\ col + n + 1 - 1 = col + n
    OBVIOUS
  <2>1. CASE j = col + n
    <3>1. j \in (col + n)..(col + n + 1 - 1) /\ j - (col + n) + 1 = 1 /\ j - col + 1 = n + 1 /\ j \in col..col + (n + 1) - 1
      BY <2>1
    <3>2. y.cells[j] = Glyph(c, a)
      BY <1>2, <3>1
    <3> QED  BY <3>1, <3>2 DEF WithOneMore
  <2>2. CASE j = col + n + 1
    <3>1. j \notin (col + n)..(col + n + 1 - 1) /\ j # col + n - 1 /\ j \notin col..col + (n + 1) - 1 /\ j # col - 1
          /\ j \notin col..col + n - 1 /\ j # col + n /\ j = col + (n + 1)
      BY <2>2
    <3>2. x.cells[j] = row.cells[j]
      BY <1>1, <3>1
    <3>3. y.cells[j] = IF IsWide(x.cells[col + n]) THEN Glyph(Space, a) ELSE x.cells[j]
      BY <1>2, <2>0, <2>2, <3>1
    <3> QED  BY <1>4, <2>0, <3>1, <3>2, <3>3
  <2>3. CASE j # col + n /\ j # col + n + 1
    <3>1. /\ j \notin (col + n)..(col + n + 1 - 1) /\ j # col + (n + 1)
          /\ j \in col..col + (n + 1) - 1 <=> j \in col..col + n - 1
      BY <2>3
    <3>2. y.cells[j] = x.cells[j]
      BY <1>2, <1>3, <2>3, <3>1
    <3>3. j \in col..col + n - 1 => more[j - col + 1] = chars[j - col + 1]
      <4>1. j \in col..col + n - 1 => j - col + 1 \in 1..n
        OBVIOUS
      <4> QED  BY <4>1 DEF WithOneMore
    <3> QED  BY <1>1, <2>3, <3>1, <3>2, <3>3
  <2> QED  BY <2>1, <2>2, <2>3
<1>6. y.size = GreaterOf(row.size, IF IsWide(row.cells[col + (n + 1) - 1]) THEN col + (n + 1) + 1 ELSE col + (n + 1))
  <2>1. x.size = GreaterOf(row.size, IF IsWide(row.cells[col + n - 1]) THEN col + n + 1 ELSE col + n)
    BY DEF RunRow
  <2>2. y.size = GreaterOf(x.size, IF IsWide(x.cells[col + n + 1 - 1]) THEN col + n + 1 + 1 ELSE col + n + 1)
    BY DEF RunRow
  <2>3. col + n + 1 - 1 = col + n /\ col + (n + 1) - 1 = col + n
    OBVIOUS
  <2>4. y.size = GreaterOf(x.size, IF IsWide(row.cells[col + n]) THEN col + n + 1 + 1 ELSE col + n + 1)
    BY <1>4, <2>2, <2>3
  <2> QED  BY <1>0, <2>1, <2>3, <2>4 DEF GreaterOf
<1>7. y.wrapped = row.wrapped
  BY DEF RunRow
<1> QED  BY <1>5, <1>6, <1>7 DEF RunRow

-----------------------------------------------------------------------------
LEMMA Recoled ==
  ASSUME NEW R, NEW w \in Nat \ {0}, NEW h \in Nat \ {0}, NEW b \in Nat, NEW g \in GridsOf(R, w, h, b), NEW i, NEW k
  PROVE  Coled(Coled(g, i), k) = Coled(g, k)
BY DEF GridsOf, Fields, Coled

LEMMA GridExtends ==
  ASSUME NEW w \in Nat \ {0}, NEW h \in Nat \ {0}, NEW b \in Nat, NEW g \in GridsOf(WholeRows(w), w, h, b), g.row < h,
         NEW n \in Nat \ {0}, g.col + n + 1 <= w, NEW chars \in [1..n -> Narrow], NEW c \in Narrow,
         NEW more, WithOneMore(n, chars, c, more), NEW a \in Colours,
         NEW x, RunGrid(w, h, b, g, n, chars, a, x),
         NEW z, RunGrid(w, h, b, Coled(x, g.col + n), 1, <<c>>, a, z)
  PROVE  RunGrid(w, h, b, g, n + 1, more, a, Coled(z, g.col)) /\ z \in GridsOf(AnyRows(w), w, h, b)
<1> DEFINE r == g.row  k == g.col + n  y == Coled(x, k)  u == Coled(z, g.col)  hole == Row0(g) + r + 1
<1>1. /\ g \in GridsOf(AnyRows(w), w, h, b) /\ r \in Nat /\ g.col \in Nat /\ k \in Nat /\ g.used \in Nat
      /\ At(g, r) \in WholeRows(w)
  <2>1. WholeRows(w) \in Shapes(w)
    BY DEF Shapes
  <2>2. r \in Nat /\ g.col \in Nat /\ k \in Nat /\ g.used \in Nat
    BY GridIs
  <2>3. At(g, r) \in WholeRows(w)
    BY <2>2, AtRow
  <2> QED  BY <2>1, <2>2, <2>3, Widening
<1>2. /\ Edited(w, h, b, g, r, x, At(x, r)) /\ RunRow(w, At(g, r), g.col, n, chars, a, At(x, r))
      /\ x.used = GreaterOf(g.used, r + 1)
  BY DEF RunGrid
<1>3. x \in GridsOf(AnyRows(w), w, h, b) /\ Kin(g, x) /\ x.row = r /\ Row0(x) = Row0(g)
  BY <1>2, KinValid DEF Edited, Kin
<1> HIDE DEF k
<1>4. y \in GridsOf(AnyRows(w), w, h, b) /\ Still(x, y) /\ y.row = r /\ y.col = k
  BY <1>1, <1>3, Placing
<1>5. RunGrid(w, h, b, y, 1, <<c>>, a, z)
  BY DEF k
<1> HIDE DEF y
<1>6. /\ Edited(w, h, b, y, r, z, At(z, r)) /\ RunRow(w, At(y, r), k, 1, <<c>>, a, At(z, r))
      /\ z.used = GreaterOf(y.used, r + 1)
  BY <1>4, <1>5 DEF RunGrid
<1>7. z \in GridsOf(AnyRows(w), w, h, b) /\ Kin(y, z) /\ Row0(z) = Row0(y)
  BY <1>6, KinValid DEF Edited
<1>8. u \in GridsOf(AnyRows(w), w, h, b) /\ Still(z, u) /\ u.row = z.row /\ u.col = g.col
  BY <1>1, <1>7, Placing
<1> HIDE DEF u
<1>9. Kin(g, u)
  BY <1>3, <1>4, <1>7, <1>8 DEF Kin, Still
<1>10. Row0(y) = Row0(g) /\ Row0(u) = Row0(g) /\ At(y, r) = At(x, r) /\ At(u, r) = At(z, r)
  BY <1>3, <1>4, <1>7, <1>8 DEF Still, Row0, At
<1>11. ASSUME NEW m \in 1..Len(g.rows), m # hole PROVE u.rows[m] = g.rows[m]
  <2>1. x.rows[m] = g.rows[m]
    BY <1>2, <1>11 DEF Edited
  <2>2. y.rows = x.rows /\ u.rows = z.rows /\ Len(x.rows) = Len(g.rows)
    BY <1>3, <1>4, <1>8 DEF Still, Kin
  <2>3. z.rows[m] = y.rows[m]
    BY <1>6, <1>10, <1>11, <2>2 DEF Edited
  <2> QED  BY <2>1, <2>2, <2>3
<1>12. Edited(w, h, b, g, r, u, At(u, r))
  BY <1>8, <1>9, <1>11 DEF Edited
<1>13. u.used = GreaterOf(g.used, r + 1)
  <2>1. u.used = z.used /\ y.used = x.used
    BY <1>4, <1>8 DEF Still
  <2>2. PICK q \in Nat : q = r + 1
    BY <1>1
  <2>3. GreaterOf(x.used, q) = GreaterOf(g.used, q)
    BY <1>1, <1>2, <2>2, Counting
  <2> QED  BY <1>6, <2>1, <2>2, <2>3
<1>14. RunRow(w, At(g, r), g.col, n + 1, more, a, At(u, r))
  <2>1. At(x, r) \in AnyRows(w) /\ At(z, r) \in AnyRows(w)
    BY <1>1, <1>3, <1>7, AtRow
  <2>2. RunRow(w, At(x, r), g.col + n, 1, <<c>>, a, At(z, r))
    BY <1>6, <1>10 DEF k
  <2>3. RunRow(w, At(g, r), g.col, n + 1, more, a, At(z, r))
    <3> HIDE DEF r
    <3> QED  BY <1>1, <1>2, <2>1, <2>2, RowExtends
  <2> QED  BY <1>10, <2>3
<1> QED  BY <1>7, <1>12, <1>13, <1>14 DEF RunGrid, u

(* One character where the cursor is, in a row that has room for it.         *)
LEMMA OneWide ==
  ASSUME NEW w \in Nat \ {0}, NEW R \in Shapes(w), NEW h \in Nat \ {0}, NEW s \in ScreensOf(R, w, h), ~s.broken, ~s.insert,
         On(s).row < h, On(s).col + 1 <= w, NEW c \in Narrow
  PROVE  Text(s, c) = Upon(s, Write(On(s), c, s.attrs)) /\ CharWidth(c) = 1
<1> DEFINE g == On(s)
<1>1. CharWidth(c) = 1
  BY Kinds DEF CharWidth
<1>2. g.w = w /\ g.h = h /\ g.row \in Nat /\ g.col \in Nat
  BY ScreenIs, GridIs
<1>3. ~PastEnd(g, 1)
  BY <1>2 DEF PastEnd
<1>4. ~TextBreaks(g, c)
  BY <1>1, <1>2, <1>3 DEF TextBreaks
<1>5. Wrapped(g, 1) = g
  BY <1>3 DEF Wrapped, WrapCursor
<1>6. Typed(g, c, s.insert, s.attrs) = Write(g, c, s.attrs)
  BY <1>1 DEF Typed
<1> QED  BY <1>1, <1>4, <1>5, <1>6 DEF Text

LEMMA WriteOne ==
  ASSUME NEW R, NEW w \in Nat \ {0}, NEW h \in Nat \ {0}, NEW b \in Nat, NEW g \in GridsOf(R, w, h, b),
         NEW c, CharWidth(c) = 1, NEW a, NEW one, Len(one) = 1, one # <<>>, one[1] = c
  PROVE  Write(g, c, a) = Coled(WriteRun(g, one, a), WriteRun(g, one, a).col + 1)
<1> DEFINE start == CutAfter(CutBefore(g, g.col, a), g.col, a)
           p == [row |-> g.row, col |-> g.col, chars |-> one, a |-> a]  put == Painted(start, g.row, g.col, Glyph(c, a))
<1>1. g.col \in Nat
  BY GridIs
<1>2. p.row = g.row /\ p.col = g.col /\ p.chars = one /\ p.a = a
  OBVIOUS
<1>3. PICK l \in Nat : l = 1
  OBVIOUS
<1>4. one # <<>> /\ Len(one) = l /\ g.col + l - 1 = g.col
  BY <1>1, <1>3
<1>5. DOMAIN Count(l) = {1} /\ Count(l)[1] = 1
  BY <1>3 DEF Count
<1> HIDE DEF p
<1>6. WriteRun(g, one, a) = Exactly!Folded(p, CutAfter(CutBefore(g, g.col, a), g.col + Len(one) - 1, a), Count(Len(one)))
  BY <1>2, <1>4, RunExactly
<1>7. WriteRun(g, one, a) = Exactly!Folded(p, start, Count(l))
  BY <1>4, <1>6
<1> HIDE DEF start
<1>8. Exactly!Folded(p, start, Count(l)) = BlitStep(p, start, 1)
  BY <1>5, Exactly!FoldOfOne
<1>9. BlitStep(p, start, 1) = Painted(start, g.row, g.col + 1 - 1, Glyph(one[1], a))
  BY <1>2, BlitIs
<1>10. WriteRun(g, one, a) = put
  BY <1>1, <1>7, <1>8, <1>9
<1>11. put = WroteNarrow(g, c, a)
  <2>1. PutCell(start, g.row, g.col, LAMBDA x : Glyph(c, a)) = Painted(start, g.row, g.col, Glyph(c, a))
    BY DEF PutCell, MapRow, Painted, WithRow, PutIn, At
  <2>2. WroteNarrow(g, c, a) = PutCell(start, g.row, g.col, LAMBDA x : Glyph(c, a))
    BY DEF WroteNarrow, start
  <2> QED  BY <2>1, <2>2
<1> HIDE DEF put
<1>12. Write(g, c, a) = Coled(WithSecond(WroteNarrow(g, c, a), CharWidth(c), a),
                             WithSecond(WroteNarrow(g, c, a), CharWidth(c), a).col + CharWidth(c))
  BY DEF Write, Coled, WroteNarrow
<1>13. WithSecond(WroteNarrow(g, c, a), CharWidth(c), a) = WroteNarrow(g, c, a)
  BY DEF WithSecond
<1> QED  BY <1>10, <1>11, <1>12, <1>13

LEMMA UponUpon ==
  ASSUME NEW w \in Nat \ {0}, NEW R \in Shapes(w), NEW h \in Nat \ {0}, NEW s \in ScreensOf(R, w, h), NEW x, NEW y
  PROVE  Upon(Upon(s, x), y) = Upon(s, y)
<1>1. CASE InAlt(s)
  <2>1. Upon(s, x) = [s EXCEPT !.alt = x] /\ InAlt([s EXCEPT !.alt = x])
    BY <1>1 DEF Upon, InAlt, ScreensOf
  <2> QED  BY <1>1, <2>1 DEF Upon, ScreensOf
<1>2. CASE ~InAlt(s)
  <2>1. Upon(s, x) = [s EXCEPT !.main = x] /\ ~InAlt([s EXCEPT !.main = x])
    BY <1>2 DEF Upon, InAlt, ScreensOf
  <2> QED  BY <1>2, <2>1 DEF Upon, ScreensOf
<1> QED  BY <1>1, <1>2

-----------------------------------------------------------------------------
(* The plain characters after the i-th, m of them.                           *)
Piece(run, i, m) == SubSeq(run, i + 1, i + m)
RunTo(s, run, i, m) == Upon(s, RunAt(On(s), run, i, m, s.attrs))

LEMMA Pieces ==
  ASSUME NEW run \in Seq(Chars), NEW i \in Nat, NEW n \in Nat, PlainFor(run, i, n), NEW m \in 1..n
  PROVE  /\ Piece(run, i, m) \in [1..m -> Narrow] /\ Len(Piece(run, i, m)) = m /\ Piece(run, i, m) # <<>>
         /\ SliceOf(run, i, m, Piece(run, i, m)) /\ run[i + m] \in Narrow
<1>1. Len(run) \in Nat /\ i + m <= Len(run) /\ m \in Nat /\ \A k \in 1..m : run[i + k] \in Narrow
  <2>1. Len(run) \in Nat /\ m \in Nat /\ m <= n
    OBVIOUS
  <2>2. i + n <= Len(run) /\ \A k \in 1..n : run[i + k] \in Narrow
    BY DEF PlainFor
  <2>3. \A k \in 1..m : k \in 1..n
    BY <2>1
  <2> QED  BY <2>1, <2>2, <2>3
<1>2. Piece(run, i, m) \in Seq(Chars) /\ Len(Piece(run, i, m)) = m /\ SliceOf(run, i, m, Piece(run, i, m))
  BY <1>1, Slices DEF Piece
<1> DEFINE t == Piece(run, i, m)
<1>3. t \in Seq(Chars) /\ Len(t) = m /\ \A k \in 1..m : t[k] \in Narrow
  BY <1>1, <1>2 DEF SliceOf
<1> HIDE DEF t
<1>4. t \in [1..m -> Narrow] /\ t # <<>>
  BY <1>3
<1> QED  BY <1>1, <1>2, <1>4 DEF t

LEMMA PieceMore ==
  ASSUME NEW run \in Seq(Chars), NEW i \in Nat, NEW n \in Nat, PlainFor(run, i, n), NEW m \in Nat \ {0}, m + 1 \in 1..n
  PROVE  WithOneMore(m, Piece(run, i, m), run[i + (m + 1)], Piece(run, i, m + 1))
<1>1. m \in 1..n
  OBVIOUS
<1>2. SliceOf(run, i, m, Piece(run, i, m))
  BY <1>1, Pieces
<1>3. SliceOf(run, i, m + 1, Piece(run, i, m + 1))
  BY Pieces
<1> QED  BY <1>2, <1>3 DEF SliceOf, WithOneMore

LEMMA RunIs ==
  ASSUME NEW w \in Nat \ {0}, NEW R \in Shapes(w), NEW h \in Nat \ {0}, NEW b \in Nat, NEW g \in GridsOf(R, w, h, b),
         g.row < h, NEW a \in Colours,
         NEW run \in Seq(Chars), NEW i \in Nat, NEW n \in Nat, PlainFor(run, i, n), g.col + n <= w, NEW m \in 1..n
  PROVE  /\ WriteRun(g, Piece(run, i, m), a) \in GridsOf(R, w, h, b)
         /\ RunGrid(w, h, b, g, m, Piece(run, i, m), a, WriteRun(g, Piece(run, i, m), a))
         /\ RunAt(g, run, i, m, a) = Coled(WriteRun(g, Piece(run, i, m), a), g.col + m)
         /\ RunAt(g, run, i, m, a) \in GridsOf(R, w, h, b)
         /\ RunAt(g, run, i, m, a).row = g.row /\ RunAt(g, run, i, m, a).col = g.col + m
<1> DEFINE chars == Piece(run, i, m)  x == WriteRun(g, chars, a)  c == g.col + m
<1>1. chars \in [1..m -> Narrow] /\ Len(chars) = m /\ chars # <<>>
  BY Pieces
<1>2. g.col \in Nat /\ m \in Nat \ {0} /\ g.col + m <= w /\ c \in Nat
  BY GridIs
<1>3. g \in GridsOf(AnyRows(w), w, h, b)
  BY Widening
<1> HIDE DEF chars
<1>4. x \in GridsOf(R, w, h, b) /\ Kin(g, x)
  BY <1>1, <1>2, Blitting
<1>5. RunGrid(w, h, b, g, m, chars, a, x)
  BY <1>1, <1>2, <1>3, Exact
<1> HIDE DEF x
<1>6. x.col = g.col /\ x.row = g.row
  BY <1>4 DEF Kin
<1>7. RunAt(g, run, i, m, a) = Coled(x, c)
  BY <1>6 DEF RunAt, Coled, x, chars, Piece
<1> HIDE DEF c
<1>8. Coled(x, c) \in GridsOf(R, w, h, b) /\ Coled(x, c).row = x.row /\ Coled(x, c).col = c
  BY <1>2, <1>4, Placing
<1> QED  BY <1>4, <1>5, <1>6, <1>7, <1>8 DEF x, chars, c

(* The characters of a run one by one.                                       *)
LEMMA TextOne ==
  ASSUME NEW w \in Nat \ {0}, NEW R \in Shapes(w), NEW h \in Nat \ {0}, NEW s \in ScreensOf(R, w, h), ~s.broken, ~s.insert,
         On(s).row < h, On(s).col + 1 <= w, NEW c \in Narrow,
         NEW one, Len(one) = 1, one # <<>>, one \in [1..1 -> Narrow], one[1] = c
  PROVE  /\ Text(s, c) = Upon(s, Coled(WriteRun(On(s), one, s.attrs), On(s).col + 1))
         /\ RunGrid(w, h, BackOn(s), On(s), 1, one, s.attrs, WriteRun(On(s), one, s.attrs))
<1> DEFINE g == On(s)  x == WriteRun(g, one, s.attrs)  b == BackOn(s)
<1>1. g \in GridsOf(R, w, h, b) /\ b \in Nat /\ s.attrs \in Colours
  BY ScreenIs
<1>2. Text(s, c) = Upon(s, Write(g, c, s.attrs)) /\ CharWidth(c) = 1
  BY OneWide
<1> HIDE DEF g, b
<1>3. Write(g, c, s.attrs) = Coled(x, x.col + 1)
  BY <1>1, <1>2, WriteOne
<1>4. g \in GridsOf(AnyRows(w), w, h, b)
  BY <1>1, Widening
<1>5. g.row < h /\ g.col + 1 <= w
  BY DEF g
<1>6. RunGrid(w, h, b, g, 1, one, s.attrs, x)
  <2>1. PICK l \in Nat \ {0} : l = 1
    OBVIOUS
  <2>2. RunGrid(w, h, b, g, l, one, s.attrs, x)
    BY <1>1, <1>4, <1>5, <2>1, Exact
  <2> QED  BY <2>1, <2>2
<1> HIDE DEF x
<1>7. x.col = g.col
  BY <1>6 DEF RunGrid, Edited, Kin
<1> QED  BY <1>2, <1>3, <1>6, <1>7 DEF x, g, b

LEMMA RunFirst ==
  ASSUME NEW w \in Nat \ {0}, NEW R \in Shapes(w), NEW h \in Nat \ {0}, NEW s \in ScreensOf(R, w, h), ~s.broken, ~s.insert,
         On(s).row < h, NEW run \in Seq(Chars), NEW i \in Nat, NEW n \in Nat \ {0}, PlainFor(run, i, n), On(s).col + n <= w
  PROVE  Text(s, run[i + 1]) = RunTo(s, run, i, 1)
<1> DEFINE g == On(s)  one == Piece(run, i, 1)
<1>1. g \in GridsOf(R, w, h, BackOn(s)) /\ BackOn(s) \in Nat /\ s.attrs \in Colours /\ g.col \in Nat
  BY ScreenIs, GridIs
<1>2. PICK l \in 1..n : l = 1
  OBVIOUS
<1>3. /\ Piece(run, i, l) \in [1..l -> Narrow] /\ Len(Piece(run, i, l)) = l /\ Piece(run, i, l) # <<>>
      /\ SliceOf(run, i, l, Piece(run, i, l)) /\ run[i + l] \in Narrow
  BY Pieces
<1>4. RunAt(g, run, i, l, s.attrs) = Coled(WriteRun(g, Piece(run, i, l), s.attrs), g.col + l)
  BY <1>1, RunIs
<1>5. one \in [1..1 -> Narrow] /\ Len(one) = 1 /\ one # <<>> /\ one[1] = run[i + 1] /\ run[i + 1] \in Narrow
  BY <1>2, <1>3 DEF SliceOf
<1>6. RunAt(g, run, i, 1, s.attrs) = Coled(WriteRun(g, one, s.attrs), g.col + 1)
  BY <1>2, <1>4
<1> HIDE DEF one
<1>7. On(s).col + 1 <= w
  BY <1>1
<1>8. Text(s, run[i + 1]) = Upon(s, Coled(WriteRun(On(s), one, s.attrs), On(s).col + 1))
  BY <1>5, <1>7, TextOne
<1> QED  BY <1>6, <1>8 DEF RunTo

-----------------------------------------------------------------------------
LEMMA RunToIs ==
  ASSUME NEW w \in Nat \ {0}, NEW R \in Shapes(w), NEW h \in Nat \ {0}, NEW s \in ScreensOf(R, w, h), On(s).row < h,
         NEW run \in Seq(Chars), NEW i \in Nat, NEW n \in Nat, PlainFor(run, i, n), On(s).col + n <= w, NEW m \in 1..n
  PROVE  /\ RunTo(s, run, i, m) \in ScreensOf(R, w, h)
         /\ On(RunTo(s, run, i, m)) = RunAt(On(s), run, i, m, s.attrs)
         /\ RunTo(s, run, i, m).attrs = s.attrs /\ RunTo(s, run, i, m).broken = s.broken
         /\ RunTo(s, run, i, m).insert = s.insert /\ BackOn(RunTo(s, run, i, m)) = BackOn(s)
<1> DEFINE g == On(s)  x == RunAt(g, run, i, m, s.attrs)
<1>1. g \in GridsOf(R, w, h, BackOn(s)) /\ BackOn(s) \in Nat /\ s.attrs \in Colours
  BY ScreenIs
<1>2. x \in GridsOf(R, w, h, BackOn(s))
  <2> HIDE DEF g
  <2>1. g.row < h /\ g.col + n <= w
    BY DEF g
  <2> QED  BY <1>1, <2>1, RunIs
<1> HIDE DEF x
<1>3. /\ Upon(s, x) \in ScreensOf(R, w, h) /\ On(Upon(s, x)) = x
      /\ Upon(s, x).attrs = s.attrs /\ Upon(s, x).broken = s.broken /\ Upon(s, x).insert = s.insert
      /\ Upon(s, x).modes = s.modes
  BY <1>2, Settling
<1>4. BackOn(Upon(s, x)) = BackOn(s)
  BY <1>3 DEF BackOn, InAlt
<1>5. RunTo(s, run, i, m) = Upon(s, x)
  BY DEF RunTo, x
<1> QED  BY <1>3, <1>4, <1>5 DEF x

LEMMA Single ==
  ASSUME NEW c \in Narrow
  PROVE  Len(<<c>>) = 1 /\ <<c>> # <<>> /\ <<c>> \in [1..1 -> Narrow] /\ <<c>>[1] = c
OBVIOUS

LEMMA RunNext ==
  ASSUME NEW w \in Nat \ {0}, NEW h \in Nat \ {0}, NEW s \in ScreensOf(WholeRows(w), w, h), ~s.broken, ~s.insert,
         On(s).row < h, NEW run \in Seq(Chars), NEW i \in Nat, NEW n \in Nat, PlainFor(run, i, n), On(s).col + n <= w,
         NEW m \in Nat \ {0}, m + 1 \in 1..n
  PROVE  Text(RunTo(s, run, i, m), run[i + (m + 1)]) = RunTo(s, run, i, m + 1)
<1> DEFINE R == WholeRows(w)  g == On(s)  b == BackOn(s)  a == s.attrs  t == RunTo(s, run, i, m)
           c == run[i + (m + 1)]  chars == Piece(run, i, m)  more == Piece(run, i, m + 1)
           x == WriteRun(g, chars, a)  y == RunAt(g, run, i, m, a)  z == WriteRun(y, <<c>>, a)  v == WriteRun(g, more, a)
<1>0. R \in Shapes(w) /\ m \in 1..n
  BY DEF Shapes
<1>1. g \in GridsOf(R, w, h, b) /\ b \in Nat /\ a \in Colours /\ g.col \in Nat /\ g.row < h /\ g.col + n <= w
  <2>1. g \in GridsOf(R, w, h, b) /\ b \in Nat /\ a \in Colours
    BY <1>0, ScreenIs
  <2> QED  BY <2>1, GridIs
<1>2. c \in Narrow /\ chars \in [1..m -> Narrow]
  BY <1>0, Pieces
<1>3. WithOneMore(m, chars, c, more)
  BY PieceMore
<1>4. /\ t \in ScreensOf(R, w, h) /\ On(t) = y /\ t.attrs = a /\ ~t.broken /\ ~t.insert /\ BackOn(t) = b
  BY <1>0, RunToIs
<1> HIDE DEF t, g, b, a, R, c
<1>5. /\ RunGrid(w, h, b, g, m, chars, a, x)
      /\ y = Coled(x, g.col + m) /\ y \in GridsOf(R, w, h, b) /\ y.row = g.row /\ y.col = g.col + m
  BY <1>0, <1>1, RunIs
<1>6. RunGrid(w, h, b, g, m + 1, more, a, v) /\ RunAt(g, run, i, m + 1, a) = Coled(v, g.col + (m + 1))
      /\ v \in GridsOf(R, w, h, b)
  BY <1>0, <1>1, RunIs
<1> HIDE DEF chars, more, x, v
<1>7. /\ Text(t, c) = Upon(t, Coled(z, y.col + 1))
      /\ RunGrid(w, h, b, y, 1, <<c>>, a, z)
  <2> HIDE DEF y
  <2>1. On(t).row < h /\ On(t).col + 1 <= w
    BY <1>1, <1>4, <1>5
  <2>2. Len(<<c>>) = 1 /\ <<c>> # <<>> /\ <<c>> \in [1..1 -> Narrow] /\ <<c>>[1] = c
    BY <1>2, Single
  <2> DEFINE one == <<c>>
  <2> HIDE DEF one
  <2>3. Len(one) = 1 /\ one # <<>> /\ one \in [1..1 -> Narrow] /\ one[1] = c
    BY <2>2 DEF one
  <2>4. Text(t, c) = Upon(t, Coled(WriteRun(On(t), one, t.attrs), On(t).col + 1))
    BY <1>0, <1>2, <1>4, <2>1, <2>3, TextOne
  <2>5. RunGrid(w, h, BackOn(t), On(t), 1, one, t.attrs, WriteRun(On(t), one, t.attrs))
    BY <1>0, <1>2, <1>4, <2>1, <2>3, TextOne
  <2> QED  BY <1>4, <2>4, <2>5 DEF one
<1> HIDE DEF z, y
<1>8. RunGrid(w, h, b, g, m + 1, more, a, Coled(z, g.col)) /\ z \in GridsOf(AnyRows(w), w, h, b)
  <2>1. g.col + m + 1 <= w
    BY <1>1
  <2>2. RunGrid(w, h, b, Coled(x, g.col + m), 1, <<c>>, a, z)
    BY <1>5, <1>7
  <2>3. g \in GridsOf(WholeRows(w), w, h, b)
    BY <1>1 DEF R
  <2> QED  BY <1>1, <1>2, <1>3, <1>5, <2>1, <2>2, <2>3, GridExtends
<1>9. Coled(z, g.col) = v
  <2>1. g \in GridsOf(AnyRows(w), w, h, b)
    BY <1>0, <1>1, Widening
  <2> QED  BY <1>1, <1>6, <1>8, <2>1, RunGridOne
<1>10. Coled(z, y.col + 1) = Coled(v, g.col + (m + 1))
  <2>1. Coled(Coled(z, g.col), g.col + (m + 1)) = Coled(z, g.col + (m + 1))
    BY <1>1, <1>8, Recoled
  <2>2. y.col + 1 = g.col + (m + 1)
    BY <1>1, <1>5
  <2> QED  BY <1>9, <2>1, <2>2
<1>11. Text(t, c) = Upon(t, RunAt(g, run, i, m + 1, a))
  BY <1>6, <1>7, <1>10
<1>12. t = Upon(s, y)
  BY DEF t, RunTo, y, g, a
<1>13. Upon(Upon(s, y), RunAt(g, run, i, m + 1, a)) = Upon(s, RunAt(g, run, i, m + 1, a))
  <2>1. s \in ScreensOf(R, w, h)
    BY DEF R
  <2> QED  BY <1>0, <2>1, UponUpon
<1>14. Text(t, c) = Upon(s, RunAt(g, run, i, m + 1, a))
  BY <1>11, <1>12, <1>13
<1> QED  BY <1>14 DEF t, c, RunTo, g, a

-----------------------------------------------------------------------------
\* A character that is written leaves the cursor in a row of the screen.
LEMMA TextRow ==
  ASSUME NEW w \in Nat \ {0}, NEW R \in Shapes(w), NEW h \in Nat \ {0}, NEW s \in ScreensOf(R, w, h),
         NEW c \in Chars \ Marks, ~Text(s, c).broken
  PROVE  On(Text(s, c)).row < h
<1> DEFINE g == On(s)  x == Wrapped(g, CharWidth(c))  y == IF s.insert THEN InsertCells(x, CharWidth(c)) ELSE x
           z == Typed(x, c, s.insert, s.attrs)
<1>1. g \in GridsOf(R, w, h, BackOn(s)) /\ BackOn(s) \in Nat /\ s.insert \in BOOLEAN /\ s.attrs \in Colours
  BY ScreenIs
<1>2. ~(s.broken \/ TextBreaks(g, c))
  <2>1. ASSUME s.broken \/ TextBreaks(g, c) PROVE FALSE
    <3>1. Text(s, c) = BrokenOff(s)
      BY <2>1 DEF Text, BrokenOff
    <3> QED  BY <3>1, BreakingOff
  <2> QED  BY <2>1
<1>3. Text(s, c) = Upon(s, z)
  BY <1>2 DEF Text
<1>4. z \in GridsOf(R, w, h, BackOn(s))
  BY <1>1, <1>2, Typing
<1>5. On(Text(s, c)) = z
  <2> HIDE DEF z
  <2> QED  BY <1>3, <1>4, Settling
<1> HIDE DEF g
<1>6. x \in GridsOf(R, w, h, BackOn(s)) /\ x.row < h /\ x.col + CharWidth(c) <= w
  BY <1>1, <1>2, WrappedFor
<1> HIDE DEF x
<1>7. CharWidth(c) \in Nat /\ CharWidth(c) # 0
  BY Widths
<1>8. y \in GridsOf(R, w, h, BackOn(s)) /\ y.row < h /\ y.col + CharWidth(c) <= w
  <2>1. CASE s.insert
    <3>1. InsertCells(x, CharWidth(c)) \in GridsOf(R, w, h, BackOn(s)) /\ Kin(x, InsertCells(x, CharWidth(c)))
      BY <1>1, <1>6, <1>7, InsertedCells
    <3> QED  BY <1>6, <2>1, <3>1 DEF Kin
  <2>2. CASE ~s.insert
    BY <1>6, <2>2
  <2> QED  BY <2>1, <2>2
<1>9. z = Write(y, c, s.attrs)
  BY <1>7 DEF Typed
<1> HIDE DEF y, z
<1>10. z.row = y.row
  BY <1>1, <1>8, <1>9, Writing
<1> QED  BY <1>5, <1>8, <1>10

-----------------------------------------------------------------------------
(* What was written after each character.                                    *)
Along(f, run) == \A k \in 1..Len(run) : f[1..k] = Text(f[1..(k - 1)], run[k])

LEMMA RunFollows ==
  ASSUME NEW w \in Nat \ {0}, NEW h \in Nat \ {0}, NEW s \in ScreensOf(WholeRows(w), w, h), ~s.broken, ~s.insert,
         On(s).row < h, NEW run \in Seq(Chars), NEW i \in Nat, NEW n \in Nat \ {0}, PlainFor(run, i, n), On(s).col + n <= w,
         NEW f, Along(f, run), f[1..i] = s
  PROVE  f[1..(i + n)] = RunTo(s, run, i, n)
<1> DEFINE S == {m \in 1..n : f[1..(i + m)] # RunTo(s, run, i, m)}
<1>1. SUFFICES ASSUME S # {} PROVE FALSE
  <2>1. n \in 1..n
    OBVIOUS
  <2> QED  BY <2>1
<1>2. PICK m \in S : \A k \in S : m <= k
  <2>1. S \in SUBSET Nat
    OBVIOUS
  <2> HIDE DEF S
  <2> QED  BY <1>1, <2>1, Blits!Least
<1>3. m \in 1..n /\ f[1..(i + m)] # RunTo(s, run, i, m)
  BY <1>2
<1>4. i + m \in 1..Len(run)
  <2>1. i + n <= Len(run) /\ Len(run) \in Nat
    BY DEF PlainFor
  <2> QED  BY <1>3, <2>1
<1>5. f[1..(i + m)] = Text(f[1..(i + m - 1)], run[i + m])
  BY <1>4 DEF Along
<1>6. CASE m = 1
  <2>1. Text(s, run[i + 1]) = RunTo(s, run, i, 1)
    <3>1. WholeRows(w) \in Shapes(w)
      BY DEF Shapes
    <3> QED  BY <3>1, RunFirst
  <2>2. i + m - 1 = i
    BY <1>6
  <2> QED  BY <1>3, <1>5, <1>6, <2>1, <2>2
<1>7. CASE m # 1
  <2>1. PICK k \in Nat \ {0} : m = k + 1 /\ k \in 1..n /\ k + 1 \in 1..n /\ i + m - 1 = i + k
    <3>1. m - 1 \in Nat \ {0} /\ m = (m - 1) + 1 /\ m - 1 \in 1..n /\ (m - 1) + 1 \in 1..n /\ i + m - 1 = i + (m - 1)
      BY <1>3, <1>7
    <3> QED  BY <3>1
  <2>2. ~(m <= k)
    BY <1>3, <2>1
  <2>3. f[1..(i + k)] = RunTo(s, run, i, k)
    BY <1>2, <2>1, <2>2
  <2>4. Text(RunTo(s, run, i, k), run[i + (k + 1)]) = RunTo(s, run, i, k + 1)
    BY <2>1, RunNext
  <2> QED  BY <1>3, <1>5, <2>1, <2>3, <2>4
<1> QED  BY <1>6, <1>7

(* Written at once, a run leaves what its characters leave one by one.       *)
RunSame(p, k, x) ==
  /\ x.s \in ScreensOf(WholeRows(p.w), p.w, p.h)
  /\ IF x.s.broken THEN x.s = p.f[1..k]
     ELSE x.next \in (k + 1)..(p.n + 1) /\ x.s = p.f[1..(x.next - 1)]
SamePath == INSTANCE Folding WITH Step <- RunStep, Keeps <- RunSame

LEMMA TextRunSame == ASSUME NEW s, NEW run, NEW p, p.run = run
  PROVE TextRun(s, run) = SamePath!Folded(p, [s |-> s, next |-> 1], Count(Len(run))).s
BY DEF TextRun, Count, RunStep, Blit, AheadOf, RunAt, SamePath!Folded, FoldLeft, MapThenFoldSet,
       SamePath!FoldLeft, SamePath!MapThenFoldSet, Max, SamePath!Max

LEMMA StaysBroken ==
  ASSUME NEW w \in Nat \ {0}, NEW R \in Shapes(w), NEW h \in Nat \ {0}, NEW s \in ScreensOf(R, w, h), s.broken, NEW c
  PROVE  Text(s, c) = s
<1>1. Text(s, c) = [s EXCEPT !.broken = TRUE]
  BY DEF Text
<1> QED  BY <1>1 DEF ScreensOf

\* The character of a step, and the plain ones after it.
LEMMA Ahead1 ==
  ASSUME NEW w \in Nat \ {0}, NEW h \in Nat \ {0}, NEW run \in Seq(Narrow \cup Wide), NEW k \in 1..Len(run),
         NEW f, Along(f, run), NEW t \in ScreensOf(WholeRows(w), w, h), t = f[1..k], t.broken \/ On(t).row < h,
         NEW x, x = Blit(t, run, k, AheadOf(t, run, k))
  PROVE  /\ x.s \in ScreensOf(WholeRows(w), w, h)
         /\ IF x.s.broken THEN x.s = f[1..k]
            ELSE x.next \in (k + 1)..(Len(run) + 1) /\ x.s = f[1..(x.next - 1)]
<1> DEFINE n == AheadOf(t, run, k)
<1>1. run \in Seq(Chars) /\ Len(run) \in Nat /\ k \in Nat /\ k <= Len(run)
  <2>1. Narrow \cup Wide \subseteq Chars
    BY DEF Chars
  <2> QED  BY <2>1
<1>2. WholeRows(w) \in Shapes(w)
  BY DEF Shapes
<1>3. CASE n = 0
  <2>1. x.s = t /\ x.next = k + 1
    BY <1>3 DEF Blit
  <2>2. k + 1 - 1 = k /\ k + 1 \in (k + 1)..(Len(run) + 1)
    BY <1>1
  <2> QED  BY <2>1, <2>2
<1>4. CASE n # 0
  <2>1. ~t.broken /\ ~t.insert /\ n = PlainAhead(On(t), SubSeq(run, k + 1, Len(run)))
    BY <1>4 DEF AheadOf
  <2>2. x.s = RunTo(t, run, k, n) /\ x.next = k + 1 + n
    BY <1>4 DEF Blit, RunTo
  <2> HIDE DEF n
  <2>3. On(t).w = w /\ On(t).col \in Nat /\ On(t).row < h
    BY <1>2, <2>1, ScreenIs, GridIs
  <2>4. n \in Nat \ {0} /\ On(t).col + n <= w /\ PlainFor(run, k, n)
    BY <1>1, <1>4, <2>1, <2>3, AheadPlain
  <2>5. f[1..(k + n)] = RunTo(t, run, k, n)
    BY <1>1, <2>1, <2>3, <2>4, RunFollows
  <2>6. RunTo(t, run, k, n) \in ScreensOf(WholeRows(w), w, h) /\ RunTo(t, run, k, n).broken = t.broken
    <3>1. n \in 1..n /\ n \in Nat
      BY <2>4
    <3> QED  BY <1>1, <1>2, <2>3, <2>4, <3>1, RunToIs
  <2>7. k + n <= Len(run)
    BY <2>4 DEF PlainFor
  <2>8. k + 1 + n - 1 = k + n /\ k + 1 + n \in (k + 1)..(Len(run) + 1)
    BY <1>1, <2>4, <2>7
  <2>9. x.next - 1 = k + n /\ x.next \in (k + 1)..(Len(run) + 1)
    BY <1>1, <2>2, <2>4, <2>8
  <2>10. x.s = f[1..(x.next - 1)] /\ x.s.broken = FALSE
    BY <2>1, <2>2, <2>5, <2>6, <2>9
  <2> QED  BY <2>2, <2>6, <2>9, <2>10
<1> QED  BY <1>3, <1>4

LEMMA Same1 ==
  ASSUME NEW w \in Nat \ {0}, NEW h \in Nat \ {0}, NEW run \in Seq(Narrow \cup Wide), NEW k \in 1..Len(run),
         NEW f, Along(f, run), NEW p, p.w = w, p.h = h, p.n = Len(run), p.f = f, p.run = run,
         NEW x, RunSame(p, k - 1, x)
  PROVE  RunSame(p, k, RunStep(p, x, k))
<1> DEFINE R == WholeRows(w)  t == Text(x.s, run[k])  y == Blit(t, run, k, AheadOf(t, run, k))
<1>0. R \in Shapes(w) /\ Len(run) \in Nat /\ run[k] \in Chars \ Marks
  <2>1. run[k] \in Narrow \cup Wide
    OBVIOUS
  <2> QED  BY <2>1, Kinds DEF Shapes, Chars
<1>1. /\ x.s \in ScreensOf(R, w, h)
      /\ IF x.s.broken THEN x.s = f[1..(k - 1)]
         ELSE x.next \in (k - 1 + 1)..(Len(run) + 1) /\ x.s = f[1..(x.next - 1)]
  BY DEF RunSame
<1>2. f[1..k] = Text(f[1..(k - 1)], run[k])
  BY DEF Along
<1>3. CASE x.s.broken
  <2>1. RunStep(p, x, k) = x
    BY <1>3 DEF RunStep
  <2>2. f[1..k] = x.s
    <3>1. Text(x.s, run[k]) = x.s
      BY <1>0, <1>1, <1>3, StaysBroken
    <3> QED  BY <1>1, <1>2, <1>3, <3>1
  <2> QED  BY <1>1, <1>3, <2>1, <2>2 DEF RunSame
<1>4. CASE ~x.s.broken /\ k < x.next
  <2>1. RunStep(p, x, k) = x
    BY <1>4 DEF RunStep
  <2>2. x.next \in (k + 1)..(Len(run) + 1)
    BY <1>0, <1>1, <1>4
  <2> QED  BY <1>1, <1>4, <2>1, <2>2 DEF RunSame
<1>5. CASE ~x.s.broken /\ ~(k < x.next)
  <2>1. RunStep(p, x, k) = y
    BY <1>5 DEF RunStep
  <2>2. x.next = k
    BY <1>0, <1>1, <1>5
  <2>3. t = f[1..k]
    BY <1>1, <1>2, <1>5, <2>2
  <2>4. t \in ScreensOf(R, w, h)
    BY <1>0, <1>1, Texting
  <2>5. t.broken \/ On(t).row < h
    BY <1>0, <1>1, TextRow
  <2> HIDE DEF t
  <2> DEFINE u == y
  <2>6. u = Blit(t, run, k, AheadOf(t, run, k))
    OBVIOUS
  <2> HIDE DEF u, R
  <2>7. t \in ScreensOf(WholeRows(w), w, h)
    BY <2>4 DEF R
  <2>8. /\ u.s \in ScreensOf(WholeRows(w), w, h)
        /\ IF u.s.broken THEN u.s = f[1..k]
           ELSE u.next \in (k + 1)..(Len(run) + 1) /\ u.s = f[1..(u.next - 1)]
    BY <2>3, <2>5, <2>6, <2>7, Ahead1
  <2>9. RunStep(p, x, k) = u
    BY <2>1 DEF u
  <2> QED  BY <2>8, <2>9 DEF RunSame
<1> QED  BY <1>3, <1>4, <1>5

LEMMA SameText ==
  ASSUME NEW w \in Nat \ {0}, NEW h \in Nat \ {0}, NEW s \in ScreensOf(WholeRows(w), w, h), NEW run \in Seq(Narrow \cup Wide)
  PROVE  TextRun(s, run) = PerChar(s, run)
<1> DEFINE n == Len(run)  base == [s |-> s, next |-> 1]
<1>1. n \in Nat /\ DOMAIN run = 1..n
  OBVIOUS
<1> HIDE DEF n
<1>z. PICK z \in Nat : z = 0
  OBVIOUS
<1>f. PICK f : CharByChar!Folded(z, s, run) = f[1..n] /\ CharByChar!Traced(z, s, run, n, f)
  BY ONLY <1>1, CharByChar!FoldTraced
<1>2. f[1..0] = s /\ \A k \in 1..n : f[1..k] = CharStep(z, f[1..(k - 1)], run[k])
  BY <1>f DEF CharByChar!Traced
<1>3. PerChar(s, run) = f[1..n]
  BY <1>f, PerCharFolds
<1>4. Along(f, run)
  BY <1>2 DEF Along, CharStep, n
<1> DEFINE p == [w |-> w, h |-> h, n |-> n, f |-> f, run |-> run]
<1>5. p.w = w /\ p.h = h /\ p.n = n /\ p.f = f /\ p.run = run /\ base.s = s /\ base.next = 1
  OBVIOUS
<1>6. TextRun(s, run) = SamePath!Folded(p, base, Count(n)).s
  BY <1>5, TextRunSame DEF n
<1> HIDE DEF p, base
<1>7. RunSame(p, 0, base)
  <2>1. 1 - 1 = 0 /\ 1 \in (0 + 1)..(n + 1)
    BY <1>1
  <2> QED  BY <1>2, <1>5, <2>1 DEF RunSame
<1>8. ASSUME NEW k \in 1..n, NEW x, RunSame(p, k - 1, x)
      PROVE  RunSame(p, k, RunStep(p, x, Count(n)[k]))
  <2>1. Count(n)[k] = k
    BY DEF Count
  <2>2. RunSame(p, k, RunStep(p, x, k))
    BY <1>4, <1>5, <1>8, Same1 DEF n
  <2> QED  BY <2>1, <2>2
<1>9. DOMAIN Count(n) = 1..n
  BY DEF Count
<1>10. RunSame(p, n, SamePath!Folded(p, base, Count(n)))
  BY ONLY <1>1, <1>7, <1>8, <1>9, SamePath!FoldKeeps
<1> DEFINE x == SamePath!Folded(p, base, Count(n))
<1> HIDE DEF x
<1>11. IF x.s.broken THEN x.s = f[1..n] ELSE x.next \in (n + 1)..(n + 1) /\ x.s = f[1..(x.next - 1)]
  BY <1>5, <1>10 DEF RunSame, x
<1>12. x.s = f[1..n]
  <2>1. CASE x.s.broken
    BY <1>11, <2>1
  <2>2. CASE ~x.s.broken
    <3>1. x.next - 1 = n
      BY <1>1, <1>11, <2>2
    <3> QED  BY <1>11, <2>2, <3>1
  <2> QED  BY <2>1, <2>2
<1> QED  BY <1>3, <1>6, <1>12 DEF x

-----------------------------------------------------------------------------
LEMMA ThreeChars ==
  ASSUME NEW run \in [1..3 -> {Space} \cup Wide]
  PROVE  run \o <<Space, run[3]>> \in Seq(Narrow \cup Wide)
<1>1. {Space} \cup Wide \subseteq Narrow \cup Wide
  BY Kinds
<1>2. run \in Seq({Space} \cup Wide)
  <2>1. PICK n \in Nat : n = 3
    OBVIOUS
  <2>2. run \in [1..n -> {Space} \cup Wide]
    BY <2>1
  <2> QED  BY <2>1, <2>2, Listing
<1>3. run \in Seq(Narrow \cup Wide) /\ run[3] \in Narrow \cup Wide /\ Space \in Narrow \cup Wide
  BY <1>1, <1>2
<1>4. <<Space, run[3]>> \in Seq(Narrow \cup Wide)
  BY <1>3
<1> QED  BY <1>3, <1>4

\* A run of text written at once leaves what its characters leave one by one, on
\* every screen whose wide characters are whole, whatever its size.
THEOREM BlitsAreFaithful == ScreenSpec => []BlitMatchesPerChar
<1>1. Shaped => BlitMatchesPerChar
  <2> SUFFICES ASSUME Shaped, WideWhole, NEW run \in [1..3 -> {Space} \cup Wide]
               PROVE  TextRun(scr, run \o <<Space, run[3]>>) = PerChar(scr, run \o <<Space, run[3]>>)
    BY DEF BlitMatchesPerChar
  <2>1. PICK w \in Nat \ {0}, h \in Nat \ {0} : scr \in ScreensOf(FitRows(w), w, h)
    BY DEF Shaped
  <2>2. WholeGrid(scr.main) /\ WholeGrid(scr.alt)
    BY DEF WideWhole, Grids, WholeGrid
  <2>3. scr \in ScreensOf(WholeRows(w), w, h)
    BY <2>1, <2>2, WholeScreens
  <2> DEFINE text == run \o <<Space, run[3]>>
  <2>4. text \in Seq(Narrow \cup Wide)
    BY ThreeChars
  <2> HIDE DEF text
  <2>5. TextRun(scr, text) = PerChar(scr, text)
    BY <2>3, <2>4, SameText
  <2> QED  BY <2>5 DEF text
<1> QED  BY <1>1, ShapedAlways, PTL
=============================================================================
