-------------------------------- MODULE Grid --------------------------------
(* The grid of a terminal: a deque of rows of which the last h are drawn on *)
(* and the others are scrollback (src/src/term/grid.rs, row.rs, cell.rs).   *)
(* Rows and columns count from 0.  A cell holds a sequence of characters,   *)
(* at most the first of which has a width; attributes are opaque here.      *)
EXTENDS Integers, Sequences, FiniteSets, SequencesExt

CONSTANTS Narrow, Wide, Marks,   \* characters of width 1, 2 and 0
          Plain,                 \* the default attributes
          Space                  \* the character ' ', one of Narrow

LesserOf(a, b) == IF a < b THEN a ELSE b
GreaterOf(a, b) == IF a > b THEN a ELSE b
Minus(a, b) == IF a < b THEN 0 ELSE a - b      \* saturating_sub

-----------------------------------------------------------------------------
(* Cells and rows.                                                          *)

CharWidth(c) == IF c \in Wide THEN 2 ELSE IF c \in Marks THEN 0 ELSE 1
Glyph(c, a) == [text |-> <<c>>, attrs |-> a]
Blank(a) == [text |-> <<>>, attrs |-> a]
CellWidth(cell) == IF cell.text = <<>> THEN 0 ELSE CharWidth(Head(cell.text))
IsWide(cell) == CellWidth(cell) >= 2
Append1(cell, c) == [cell EXCEPT !.text = (IF @ = <<>> THEN <<Space>> ELSE @) \o <<c>>]

\* "size" is one more than the last column ever written.
NewRow(w, a) == [cells |-> [j \in 0..w-1 |-> Blank(a)], size |-> 0, wrapped |-> FALSE]
ClearRow(row, a) == [cells |-> [j \in DOMAIN row.cells |-> Blank(a)], size |-> 0, wrapped |-> FALSE]
Continues(row, col) == col > 0 /\ col - 1 \in DOMAIN row.cells /\ IsWide(row.cells[col-1])
Emptied(cell) == Blank(cell.attrs)

\* erase of the columns lo..hi in order; a wide character loses both halves.
EraseCols(row, lo, hi, a) ==
  LET w == Cardinality(DOMAIN row.cells)
      cuts == IsWide(row.cells[hi])
  IN  IF lo > hi THEN row
      ELSE [row EXCEPT
        !.cells = [j \in DOMAIN @ |->
            CASE j \in lo..hi -> Blank(a)
              [] j = lo - 1 /\ IsWide(@[j]) -> Emptied(@[j])
              [] j = hi + 1 /\ cuts -> Emptied(@[j])
              [] OTHER -> @[j]],
        !.wrapped = @ /\ hi # w - 1 /\ ~(cuts /\ hi = w - 2)]

\* Mutant: a wide character may end up with one half in the last column.
Mutant_Split(row, col, n) ==
  [row EXCEPT !.cells = [j \in DOMAIN @ |-> IF j < col THEN @[j] ELSE IF j < col + n THEN Blank(Plain) ELSE @[j-n]]]
InsertCols(row, col, n) ==
  LET w == Cardinality(DOMAIN row.cells)
      moved == [j \in 0..w-1 |-> IF j < col THEN row.cells[j]
                                 ELSE IF j < col + n THEN Blank(Plain)
                                 ELSE row.cells[j-n]]
  IN  [row EXCEPT !.wrapped = FALSE,
        !.cells = [moved EXCEPT ![w-1] = IF IsWide(@) THEN Emptied(@) ELSE @]]

DeleteCols(row, col, n) ==
  LET w == Cardinality(DOMAIN row.cells)
      cell(j) == IF n > 0 /\ j = col + n /\ IsWide(row.cells[j-1]) THEN Emptied(row.cells[j])
                 ELSE row.cells[j]
  IN  [row EXCEPT !.wrapped = FALSE,
        !.cells = [j \in 0..w-1 |->
            IF j < col THEN IF n > 0 /\ j = col - 1 /\ IsWide(row.cells[j])
                              THEN Emptied(row.cells[j]) ELSE row.cells[j]
            ELSE IF j + n < w THEN cell(j + n) ELSE Blank(Plain)]]

-----------------------------------------------------------------------------
(* The grid.                                                                *)

NewGrid(w, h, back) ==
  [w |-> w, h |-> h, row |-> 0, col |-> 0, srow |-> 0, scol |-> 0, top |-> 0, bot |-> h - 1,
   rows |-> [i \in 1..h |-> NewRow(w, Plain)], used |-> 0, origin |-> FALSE,
   sorigin |-> FALSE, back |-> back, off |-> 0]

Row0(g) == Len(g.rows) - g.h
At(g, r) == g.rows[Row0(g) + r + 1]
MapRow(g, r, F(_)) == [g EXCEPT !.rows[Row0(g) + r + 1] = F(@)]
Drawn(g, F(_, _)) == [g EXCEPT !.rows = [i \in DOMAIN @ |-> IF i <= Row0(g) THEN @[i]
                                                            ELSE F(i - 1 - Row0(g), @[i])]]
VisibleRow(g, r) == g.rows[Minus(Row0(g), g.off) + r + 1]
CellAt(g, r, c) == At(g, r).cells[c]
ContinuesAt(g, r, c) == Continues(At(g, r), c)

\* drawing_cell_mut: asking for a cell counts it as written, on the grid or not.
PutCell(g, r, c, F(_)) ==
  LET put(row) == IF c \in DOMAIN row.cells THEN [row EXCEPT !.cells[c] = F(@)] ELSE row
  IN  [MapRow(g, r, LAMBDA row : [put(row) EXCEPT !.size = GreaterOf(@, c + 1)])
       EXCEPT !.used = GreaterOf(@, r + 1)]

ClearGrid(g) ==
  [Drawn(g, LAMBDA r, row : ClearRow(row, Plain)) EXCEPT
     !.row = 0, !.col = 0, !.srow = 0, !.scol = 0, !.top = 0, !.bot = g.h - 1,
     !.used = 0, !.origin = FALSE, !.sorigin = FALSE]

ScrollView(g, n) == [g EXCEPT !.off = LesserOf(n, Row0(g))]

-----------------------------------------------------------------------------
(* The cursor.                                                              *)

InRegion(g) == g.row \in g.top..g.bot
Bottom(g, limit) == IF limit THEN g.bot ELSE g.h - 1
ClampTop(g, limit) == IF limit THEN [g EXCEPT !.row = GreaterOf(@, g.top)] ELSE g
ClampBottom(g, limit) == [g EXCEPT !.row = LesserOf(@, Bottom(g, limit))]
ClampCol(g) == [g EXCEPT !.col = LesserOf(@, g.w - 1)]

SetPos(g, r, c) ==
  ClampCol(ClampBottom(ClampTop(
    [g EXCEPT !.row = IF g.origin THEN r + g.top ELSE r, !.col = c], g.origin), g.origin))
SetOrigin(g, on) == SetPos([g EXCEPT !.origin = on], 0, 0)
SaveCursor(g) == [g EXCEPT !.srow = g.row, !.scol = g.col, !.sorigin = g.origin]
RestoreCursor(g) == [g EXCEPT !.row = g.srow, !.col = g.scol, !.origin = g.sorigin]
Down(g, n) == ClampBottom([g EXCEPT !.row = @ + n], InRegion(g))
Up(g, n) == ClampTop([g EXCEPT !.row = Minus(@, n)], InRegion(g))
Right(g, n) == ClampCol([g EXCEPT !.col = @ + n])
Left(g, n) == [g EXCEPT !.col = Minus(@, n)]
\* Mutant: one row too far.
Mutant_RowPast(g, r) == [g EXCEPT !.row = LesserOf(r, g.h)]
SetRow(g, r) == [g EXCEPT !.row = LesserOf(r, g.h - 1)]
SetCol(g, c) == ClampCol([g EXCEPT !.col = c])
Tab(g) == ClampCol([g EXCEPT !.col = (@ - (@ % 8)) + 8])

-----------------------------------------------------------------------------
(* Erasing, inserting and deleting.                                         *)

EraseForward(g, a) == MapRow(g, g.row, LAMBDA row : EraseCols(row, g.col, g.w - 1, a))
EraseBackward(g, a) == MapRow(g, g.row, LAMBDA row : EraseCols(row, 0, LesserOf(g.col, g.w - 1), a))
EraseRow(g, a) == MapRow(g, g.row, LAMBDA row : ClearRow(row, a))
EraseCells(g, n, a) ==
  MapRow(g, g.row, LAMBDA row : EraseCols(row, g.col, LesserOf(g.col + n, g.w) - 1, a))
EraseAll(g, a) == [Drawn(g, LAMBDA r, row : ClearRow(row, a)) EXCEPT !.used = 0]
EraseBelow(g, a) ==
  [EraseForward(Drawn(g, LAMBDA r, row : IF r > g.row THEN ClearRow(row, a) ELSE row), a)
   EXCEPT !.used = LesserOf(@, g.row + 1)]
EraseAbove(g, a) ==
  EraseBackward(Drawn(g, LAMBDA r, row : IF r < g.row THEN ClearRow(row, a) ELSE row), a)
InsertCells(g, n) == MapRow(g, g.row, LAMBDA row : InsertCols(row, g.col, n))
DeleteCells(g, n) ==
  MapRow(g, g.row, LAMBDA row : DeleteCols(row, g.col, LesserOf(n, g.w - g.col)))

Times(n, F(_), g) == FoldLeft(LAMBDA acc, k : F(acc), g, [k \in 1..n |-> k])
\* A row leaves one place of the deque and a new one enters at another.
Shift(g, out, in, new) == [g EXCEPT !.rows = InsertAt(RemoveAt(@, Row0(g) + out + 1), Row0(g) + in + 1, new)]
EndsLine(g, r) == MapRow(g, r, LAMBDA row : [row EXCEPT !.wrapped = FALSE])

InsertLine(g) == EndsLine(Shift(g, g.bot, g.row, NewRow(g.w, Plain)), g.bot)
InsertLines(g, n) == Times(n, InsertLine, g)
DeleteLine(g, a) ==
  [g EXCEPT !.rows = RemoveAt(InsertAt(@, Row0(g) + g.bot + 2, NewRow(g.w, a)), Row0(g) + g.row + 1)]
DeleteLines(g, n, a) == Times(LesserOf(n, g.h - g.row), LAMBDA x : DeleteLine(x, a), g)

\* Only a scroll of the whole screen feeds the scrollback, whose oldest rows
\* then go; a view that is scrolled back stays on what it shows.
RegionActive(g) == g.top # 0 \/ g.bot # g.h - 1
Trim(rows, keep) == SubSeq(rows, Minus(Len(rows), keep) + 1, Len(rows))
\* Mutant: the view stays where it is.
Mutant_ViewDrifts(g, kept) == g.off
ViewAfter(g, kept) == IF g.off > 0 THEN LesserOf(Len(kept) - g.h, g.off + 1) ELSE g.off
Fed(g, kept) == [g EXCEPT !.rows = kept, !.off = ViewAfter(g, kept)]
MovedUp(g) == RemoveAt(InsertAt(g.rows, Row0(g) + g.bot + 2, NewRow(g.w, Plain)), Row0(g) + g.top + 1)
ScrollLineUp(g) ==
  IF g.back = 0 \/ RegionActive(g) THEN [g EXCEPT !.rows = MovedUp(g)]
  ELSE Fed(g, Trim(InsertAt(MovedUp(g), Row0(g) + 1, g.rows[Row0(g) + g.top + 1]), g.back + g.h))
ScrollUp(g, n) == Times(LesserOf(n, g.h - g.top), ScrollLineUp, g)
ScrollLineDown(g) == EndsLine(Shift(g, g.bot, g.top, NewRow(g.w, Plain)), g.bot)
ScrollDown(g, n) == Times(n, ScrollLineDown, g)

SetRegion(g, top, bottom) ==
  LET b == LesserOf(bottom, g.h - 1)
      ok == top < b
      t == IF ok THEN top ELSE 0
  IN  [g EXCEPT !.top = t, !.bot = IF ok THEN b ELSE g.h - 1, !.row = t, !.col = 0]

\* row_inc_scroll, and the number of lines it scrolled.
Overrun(g, n) == Minus(g.row + n, Bottom(g, InRegion(g)))
LinesUp(g, n) == IF InRegion(g) THEN Overrun(g, n) ELSE 0
DownScroll(g, n) == ScrollUp(Down(g, n), LinesUp(g, n))
UpScroll(g, n) ==
  LET past == IF InRegion(g) THEN Minus(g.top, Minus(g.row, n)) ELSE 0
  IN  ScrollDown(Up(g, n), past + Minus(n, g.row))

\* The cursor leaves a full row; the row is marked when the text goes on below.
PastEnd(g, width) == g.col > g.w - width
GoesOn(next, prev, wrap) == MapRow(next, prev, LAMBDA row : [row EXCEPT !.wrapped = wrap /\ prev + 1 = next.row])
WrapCursor(g, width, wrap) ==
  IF PastEnd(g, width) THEN GoesOn(DownScroll([g EXCEPT !.col = 0], 1), g.row - LinesUp(g, 1), wrap) ELSE g
\* What a character written at a column leaves of the wide ones it cuts.
\* Mutant: the first half of the one before it stays.
Mutant_Uncut(g, col, a) == g
CutBefore(g, col, a) == IF ContinuesAt(g, g.row, col) THEN PutCell(g, g.row, col - 1, LAMBDA x : Blank(a)) ELSE g
CutAfter(g, col, a) ==
  IF g.row < g.h /\ IsWide(CellAt(g, g.row, col)) THEN PutCell(g, g.row, col + 1, LAMBDA x : Glyph(Space, a)) ELSE g

\* A run of single-width characters in one row, at once; a row that does not
\* exist only counts as used.
WriteRun(g, chars, a) ==
  IF chars = <<>> THEN g
  ELSE FoldLeft(LAMBDA x, k : PutCell(x, g.row, g.col + k - 1, LAMBDA y : Glyph(chars[k], a)),
                CutAfter(CutBefore(g, g.col, a), g.col + Len(chars) - 1, a), [k \in 1..Len(chars) |-> k])

-----------------------------------------------------------------------------
(* A new size lays the lines out again: rows that wrap are joined and cut   *)
(* at the new width.  Rows that were never printed to are dropped.          *)

Contents(row) == [k \in 1..LesserOf(row.size, Cardinality(DOMAIN row.cells)) |-> row.cells[k-1]]

\* The rows of one line; a blank cell that falls just past the end is lost.
Layout(line, w) ==
  LET put(row, j, cell) ==
        [row EXCEPT !.size = j + 1, !.cells = IF j < w THEN [@ EXCEPT ![j] = cell] ELSE @]
      cut(x, cell) ==
        IF x.j + CellWidth(cell) <= w
          THEN [rows |-> x.rows, j |-> x.j + 1, row |-> put(x.row, x.j, cell)]
          ELSE [rows |-> Append(x.rows, [x.row EXCEPT !.wrapped = TRUE]), j |-> 1,
                row |-> [NewRow(w, Plain) EXCEPT !.size = 1, !.cells[0] = cell]]
      end == FoldLeft(cut, [rows |-> <<>>, row |-> NewRow(w, Plain), j |-> 0], line)
  IN  Append(end.rows, end.row)

Kept(g) == LesserOf(Row0(g) + g.used, Len(g.rows))
\* A line that goes on in a row which is dropped is dropped as a whole.
Reflow(g, w) ==
  LET step(x, i) ==
        LET line == x.line \o Contents(g.rows[i])
            at == IF i - 1 = Row0(g) + g.row THEN Len(x.rows) ELSE x.at
        IN  IF g.rows[i].wrapped /\ i < Len(g.rows)
              THEN [x EXCEPT !.line = line, !.at = at]
              ELSE [rows |-> x.rows \o Layout(line, w), line |-> <<>>, at |-> at]
  IN  FoldLeft(step, [rows |-> <<>>, line |-> <<>>, at |-> 0], [i \in 1..Kept(g) |-> i])
\* A wide character on a screen one column wide is never laid out.
ReflowEnds(g, w) ==
  w > 1 \/ \A i \in 1..Kept(g) : \A j \in DOMAIN Contents(g.rows[i]) : ~IsWide(Contents(g.rows[i])[j])

\* Where the rows that are kept and the line of the cursor come to lie.
Placed(g, w, h, kept, at) ==
  LET bot == IF g.bot = g.h - 1 THEN h - 1 ELSE LesserOf(g.bot, h - 1)
  IN  [g EXCEPT !.w = w, !.h = h, !.bot = bot,
         !.rows = kept \o [k \in 1..Minus(h, Len(kept)) |-> NewRow(w, Plain)],
         !.off = LesserOf(Minus(Len(kept), h), @),
         !.top = IF bot < @ THEN 0 ELSE @,
         !.used = LesserOf(Len(kept), h),
         !.row = LesserOf(Minus(at, Minus(Len(kept), h)), h - 1),
         !.col = LesserOf(@, w - 1)]
Fitted(g, w, h, flow) == Placed(g, w, h, Trim(flow.rows, g.back + h), flow.at)
Resize(g, w, h) == IF <<w, h>> = <<g.w, g.h>> THEN g ELSE Fitted(g, w, h, Reflow(g, w))

=============================================================================
