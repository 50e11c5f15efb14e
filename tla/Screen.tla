------------------------------- MODULE Screen -------------------------------
(* The emulated terminal of a task: two grids, the modes and what a program *)
(* writes, one action per control sequence (src/src/term/screen.rs).        *)
(* "broken" is a panic or a loop without end: nothing happens after it.     *)
EXTENDS Grid

CONSTANTS Colours,    \* attributes a program sets, Plain among them
          Runs,       \* runs of text a program writes
          Written,    \* text that is there at the beginning
          Sizes,      \* sizes of the terminal, as <<columns, rows>>
          Counts,     \* arguments of control sequences
          Back,       \* rows of scrollback
          KittyDepth, \* longest stack of keyboard flags: 16
          MaxOps      \* bound on the steps of a behaviour

\* A screen has columns and rows.  A missing argument of a sequence is one, and so
\* is a zero, but for ICH, IL, SU and SD, where it does nothing (no step here).
ASSUME ScreenAssumption ==
  /\ Wide \cap Marks = {} /\ Narrow \cap (Wide \cup Marks) = {} /\ Space \in Narrow
  /\ Plain \in Colours
  /\ Runs \cup Written \subseteq Seq(Narrow \cup Wide \cup Marks)
  /\ Sizes \subseteq (Nat \ {0}) \X (Nat \ {0}) /\ Counts \subseteq Nat \ {0}
  /\ Back \in Nat /\ KittyDepth \in Nat \ {0} /\ MaxOps \in Nat

VARIABLES scr,        \* the screen
          said,       \* what it answered to the last sequence
          ops         \* steps taken

screenVars == <<scr, said, ops>>

NewScreen(w, h) ==
  [main |-> NewGrid(w, h, Back), alt |-> NewGrid(w, h, 0), attrs |-> Plain, sattrs |-> Plain,
   modes |-> {}, mouse |-> "none", enc |-> "default", insert |-> FALSE,
   kitty |-> <<>>, altKitty |-> <<>>, broken |-> FALSE]

InAlt(s) == "alternate" \in s.modes
On(s) == IF InAlt(s) THEN s.alt ELSE s.main
Upon(s, g) == IF InAlt(s) THEN [s EXCEPT !.alt = g] ELSE [s EXCEPT !.main = g]
CursorValid(g) == g.row < g.h /\ g.col <= g.w

-----------------------------------------------------------------------------
(* Text.                                                                    *)

\* A character is written where the cursor is; what the code takes from a row
\* or a column that does not exist ends the program.
TextBreaks(g, c) ==
  LET width == CharWidth(c)
  IN  \/ width > g.w
      \/ g.row >= g.h /\ ~(width = 0 /\ g.col = 0 /\ g.row = g.h)
      \/ PastEnd(g, width) /\ g.row < LinesUp(g, 1)

\* A mark joins the character before it, in the row above if the text wrapped.
Mark(g, c) ==
  LET before(r, col) == PutCell(g, r, IF ContinuesAt(g, r, col) THEN col - 1 ELSE col,
                                LAMBDA x : Append1(x, c))
  IN  IF g.col > 0 THEN before(g.row, g.col - 1)
      ELSE IF g.row > 0 /\ At(g, g.row - 1).wrapped THEN before(g.row - 1, g.w - 1)
      ELSE g

CutSecond(g, r, c, a) ==
  IF ~IsWide(CellAt(g, r, c)) THEN g
  ELSE MapRow(PutCell(g, r, c + 1, LAMBDA x : Blank(a)), r,
              LAMBDA row : [row EXCEPT !.wrapped = @ /\ c + 1 # g.w - 1])
SecondHalf(g, r, c, a) == PutCell(CutSecond(g, r, c, a), r, c, LAMBDA x : Blank(Plain))
WithSecond(g, width, a) == IF width > 1 THEN SecondHalf(g, g.row, g.col + 1, a) ELSE g
Write(g, c, a) ==
  [WithSecond(PutCell(CutAfter(CutBefore(g, g.col, a), g.col, a), g.row, g.col, LAMBDA x : Glyph(c, a)),
              CharWidth(c), a) EXCEPT !.col = @ + CharWidth(c)]

Typed(g, c, insert, a) ==
  IF CharWidth(c) = 0 THEN Mark(g, c)
  ELSE Write(IF insert THEN InsertCells(g, CharWidth(c)) ELSE g, c, a)
Full(g) == At(g, g.row).cells[g.w - 1].text # <<>> \/ ContinuesAt(g, g.row, g.w - 1)
Wrapped(g, width) == WrapCursor(g, width, PastEnd(g, width) /\ Full(g))
Text(s, c) ==
  IF s.broken \/ TextBreaks(On(s), c) THEN [s EXCEPT !.broken = TRUE]
  ELSE Upon(s, Typed(Wrapped(On(s), CharWidth(c)), c, s.insert, s.attrs))

PerChar(s, run) == FoldLeft(Text, s, run)

\* text_run: after each character the plain ones that follow it in the row are
\* written at once.
\* Mutant: wide characters are written like the others.
Mutant_WideToo(g, chars) == LesserOf(Len(chars), Minus(g.w, g.col))
PlainAhead(g, chars) ==
  LET stop == SelectInSeq(chars, LAMBDA c : c \notin Narrow)
  IN  LesserOf(IF stop = 0 THEN Len(chars) ELSE stop - 1, Minus(g.w, g.col))
TextRun(s, run) ==
  LET blit(t, i, n) ==
        IF n = 0 THEN [s |-> t, next |-> i + 1]
        ELSE [s |-> Upon(t, [WriteRun(On(t), SubSeq(run, i + 1, i + n), t.attrs) EXCEPT !.col = @ + n]),
              next |-> i + 1 + n]
      ahead(t, i) == IF t.broken \/ t.insert THEN 0 ELSE PlainAhead(On(t), SubSeq(run, i + 1, Len(run)))
      after(t, i) == blit(t, i, ahead(t, i))
      step(x, i) == IF i < x.next \/ x.s.broken THEN x ELSE after(Text(x.s, run[i]), i)
  IN  FoldLeft(step, [s |-> s, next |-> 1], [k \in 1..Len(run) |-> k]).s

-----------------------------------------------------------------------------
(* One action per sequence of the program, and the two the user has: a new  *)
(* size and a look at the scrollback.                                       *)

Live == ~scr.broken /\ ops < MaxOps
Does(s, answer) == Live /\ scr' = s /\ said' = answer /\ ops' = ops + 1
Cursor(F(_)) == Does(Upon(scr, F(On(scr))), <<>>)
\* What needs the cursor's row, or its column, ends the program without it.
Edits(fits, F(_)) ==
  Does(IF fits THEN Upon(scr, F(On(scr))) ELSE [scr EXCEPT !.broken = TRUE], <<>>)
HasRow == On(scr).row < On(scr).h

Output(run) == Does(TextRun(scr, run), <<>>)
Bell == Does(scr, <<"bell">>)
Backspace == Cursor(LAMBDA g : Left(g, 1))
TabStop == Cursor(Tab)
LineFeed == Cursor(LAMBDA g : DownScroll(g, 1))
Return == Cursor(LAMBDA g : SetCol(g, 0))
ReverseIndex == Cursor(LAMBDA g : UpScroll(g, 1))

CursorUp(n) == Cursor(LAMBDA g : Up(g, n))
CursorDown(n) == Cursor(LAMBDA g : Down(g, n))
CursorRight(n) == Cursor(LAMBDA g : Right(g, n))
CursorLeft(n) == Cursor(LAMBDA g : Left(g, n))
NextLine(n) == Cursor(LAMBDA g : SetCol(Down(g, n), 0))
PreviousLine(n) == Cursor(LAMBDA g : SetCol(Up(g, n), 0))
ToColumn(c) == Cursor(LAMBDA g : SetCol(g, c))
ToRow(r) == Cursor(LAMBDA g : SetRow(g, r))
Position(r, c) == Cursor(LAMBDA g : SetPos(g, r, c))
Margins(t, b) == Cursor(LAMBDA g : SetRegion(g, t, b))

EraseDisplay(mode) ==
  Edits(mode = 2 \/ HasRow, LAMBDA g : CASE mode = 0 -> EraseBelow(g, scr.attrs)
                                         [] mode = 1 -> EraseAbove(g, scr.attrs)
                                         [] mode = 2 -> EraseAll(g, scr.attrs))
EraseLine(mode) ==
  Edits(HasRow, LAMBDA g : CASE mode = 0 -> EraseForward(g, scr.attrs)
                             [] mode = 1 -> EraseBackward(g, scr.attrs)
                             [] mode = 2 -> EraseRow(g, scr.attrs))
EraseChars(n) == Edits(HasRow, LAMBDA g : EraseCells(g, n, scr.attrs))
InsertChars(n) == Edits(CursorValid(On(scr)), LAMBDA g : InsertCells(g, n))
DeleteChars(n) == Edits(CursorValid(On(scr)), LAMBDA g : DeleteCells(g, n))
InsertRows(n) == Edits(HasRow, LAMBDA g : InsertLines(g, n))
DeleteRows(n) == Edits(On(scr).row <= On(scr).h, LAMBDA g : DeleteLines(g, n, scr.attrs))
PanUp(n) == Cursor(LAMBDA g : ScrollUp(g, n))
PanDown(n) == Cursor(LAMBDA g : ScrollDown(g, n))

-----------------------------------------------------------------------------
Saved(s) == [Upon(s, SaveCursor(On(s))) EXCEPT !.sattrs = s.attrs]
Restored(s) == [Upon(s, RestoreCursor(On(s))) EXCEPT !.attrs = s.sattrs]
Swapped(s, modes) == [s EXCEPT !.modes = modes, !.kitty = s.altKitty, !.altKitty = s.kitty]
EnterAlt(s) ==
  LET still == Upon(s, ScrollView(On(s), 0))
  IN  IF InAlt(s) THEN still ELSE Swapped(still, s.modes \cup {"alternate"})
ExitAlt(s) == IF InAlt(s) THEN Swapped(s, s.modes \ {"alternate"}) ELSE s

Save == Does(Saved(scr), <<>>)
Restore == Does(Restored(scr), <<>>)
Reset == Does(NewScreen(scr.main.w, scr.main.h), <<>>)
Alternate(on) == Does(IF on THEN EnterAlt(scr) ELSE ExitAlt(scr), <<>>)
\* Mode 1049: the cursor is saved on the screen that is left, and restored on it.
AlternateSaved(on) ==
  Does(IF on THEN EnterAlt([Saved(scr) EXCEPT !.alt = ClearGrid(@)]) ELSE Restored(ExitAlt(scr)), <<>>)
Origin(on) == Cursor(LAMBDA g : SetOrigin(g, on))
InsertMode(on) == Does([scr EXCEPT !.insert = on], <<>>)
Flag(mode, on) == Does([scr EXCEPT !.modes = IF on THEN @ \cup {mode} ELSE @ \ {mode}], <<>>)
\* Only the tracking, or the encoding, that is on is turned off.
Mouse(mode, on) ==
  Does([scr EXCEPT !.mouse = IF on THEN mode ELSE IF @ = mode THEN "none" ELSE @], <<>>)
MouseEncoding(enc, on) ==
  Does([scr EXCEPT !.enc = IF on THEN enc ELSE IF @ = enc THEN "default" ELSE @], <<>>)
Colour(a) == Does([scr EXCEPT !.attrs = a], <<>>)

KittyTop(s) == IF s.kitty = <<>> THEN 0 ELSE Last(s.kitty)
KittyPush(f) ==
  Does([scr EXCEPT !.kitty = Append(IF Len(@) >= KittyDepth THEN Tail(@) ELSE @, f)], <<>>)
KittyPop(n) == Does([scr EXCEPT !.kitty = SubSeq(@, 1, Minus(Len(@), n))], <<>>)
\* One flag is supported: it is set, added or taken away at the top of the stack.
KittySet(f, how) ==
  LET new(top) == CASE how = 2 -> GreaterOf(top, f) [] how = 3 -> Minus(top, f) [] OTHER -> f
      set(stack) == IF stack = <<>> THEN <<new(0)>> ELSE [stack EXCEPT ![Len(stack)] = new(Last(stack))]
  IN  Does([scr EXCEPT !.kitty = set(@)], <<>>)

Attributes == Does(scr, <<"attributes">>)
KittyQuery == Does(scr, <<"kitty", KittyTop(scr)>>)
WhereIs == Does(scr, <<"cursor", On(scr).row, On(scr).col>>)

\* Both screens take the new size.
Sized(s, size) ==
  IF \A side \in {"main", "alt"} : ReflowEnds(s[side], size[1])
    THEN [s EXCEPT !.main = Resize(@, size[1], size[2]), !.alt = Resize(@, size[1], size[2])]
    ELSE [s EXCEPT !.broken = TRUE]
SetSize(size) == Does(Sized(scr, size), <<>>)
View(n) == Does(Upon(scr, ScrollView(On(scr), On(scr).off + n)), <<>>)
ViewDown(n) == Does(Upon(scr, ScrollView(On(scr), Minus(On(scr).off, n))), <<>>)

-----------------------------------------------------------------------------
\* A program has already written something on a screen of one of the sizes.
ScreenInit == /\ \E size \in Sizes, run \in Written : scr = PerChar(NewScreen(size[1], size[2]), run)
              /\ said = <<>> /\ ops = 0

Moves == \/ Backspace \/ TabStop \/ LineFeed \/ Return \/ ReverseIndex
         \/ \E n \in Counts : \/ CursorUp(n) \/ CursorDown(n) \/ CursorRight(n) \/ CursorLeft(n)
                              \/ NextLine(n) \/ PreviousLine(n) \/ ToColumn(n) \/ ToRow(n)
         \/ \E m, n \in Counts : Position(m - 1, n - 1) \/ Margins(m - 1, n)
Changes == \/ \E mode \in 0..2 : EraseDisplay(mode) \/ EraseLine(mode)
           \/ \E n \in Counts : \/ EraseChars(n) \/ InsertChars(n) \/ DeleteChars(n)
                                \/ InsertRows(n) \/ DeleteRows(n) \/ PanUp(n) \/ PanDown(n)
Switches == \/ \E on \in BOOLEAN : \/ Alternate(on) \/ AlternateSaved(on) \/ Origin(on) \/ InsertMode(on)
            \/ Save \/ Restore \/ Reset
            \/ \E a \in Colours : Colour(a)
Reports == \/ Bell \/ Attributes \/ KittyQuery \/ WhereIs
           \/ \E on \in BOOLEAN : \/ \E m \in {"keypad", "keys", "hide", "paste"} : Flag(m, on)
                                \/ \E m \in {"press", "motion"} : Mouse(m, on)
                                \/ \E e \in {"utf8", "sgr"} : MouseEncoding(e, on)
           \/ \E f \in 0..1 : KittyPush(f) \/ \E how \in 1..3 : KittySet(f, how)
           \/ \E n \in Counts : KittyPop(n)
User == \/ \E size \in Sizes : SetSize(size)
        \/ \E n \in Counts : View(n) \/ ViewDown(n)
Writes == \E run \in Runs : Output(run)
ScreenNext == Writes \/ Moves \/ Changes \/ Switches \/ Reports \/ User
ScreenSpec == ScreenInit /\ [][ScreenNext]_screenVars

-----------------------------------------------------------------------------
Grids == {scr.main, scr.alt}

\* The rows of a grid are as many as it shows and at most the scrollback more,
\* each as wide as it is; margins, marks and the view stay in it.
ScreenTypeOK ==
  \A g \in Grids :
    /\ Len(g.rows) \in g.h..(g.h + g.back)
    /\ \A i \in DOMAIN g.rows : DOMAIN g.rows[i].cells = 0..g.w-1
    /\ g.top <= g.bot /\ g.bot < g.h /\ g.off <= Row0(g)
    /\ <<g.w, g.h>> = <<scr.main.w, scr.main.h>>
    /\ Len(scr.kitty) <= KittyDepth /\ Len(scr.altKitty) <= KittyDepth

\* A wide character has a second column, which shows nothing of its own.
WideFits ==
  \A g \in Grids : \A i \in DOMAIN g.rows : \A j \in 0..g.w-1 :
    IsWide(g.rows[i].cells[j]) => j + 1 < g.w
WideWhole ==
  \A g \in Grids : \A i \in DOMAIN g.rows : \A j \in 0..g.w-2 :
    IsWide(g.rows[i].cells[j]) => g.rows[i].cells[j+1].text = <<>>

\* The shape of the grids after any sequence of operations and sizes: the erasing,
\* overwriting and laying out take the second column of a wide one for granted.
ScreenSound == ScreenTypeOK /\ WideFits

\* Erasing, inserting, deleting and overwriting never leave half a wide character
\* (the comments of text() rely on it), nor does a new size, unless a row goes on
\* below whose columns ever written end within a wide one: a character inserted
\* into the row moved it there, and its second half is not laid out again.
EndsWithin(row) == row.wrapped /\ row.size - 1 \in DOMAIN row.cells /\ IsWide(row.cells[row.size-1])
OnlyResizeTears ==
  [][WideWhole /\ ~WideWhole' =>
       /\ <<scr'.main.w, scr'.main.h>> # <<scr.main.w, scr.main.h>>
       /\ \E g \in Grids : \E i \in DOMAIN g.rows : EndsWithin(g.rows[i])]_screenVars

\* A run of text written at once leaves the screen as it is when the characters
\* come one by one, as they do when the output arrives in small pieces; as long as
\* no wide character is torn.  Where a torn one is followed by another, a run that
\* ends on that one also writes the column after it, and single characters do not.
BlitMatchesPerChar ==
  ~scr.broken /\ WideWhole => \A run \in [1..3 -> {Space} \cup Wide] :
    LET tail == <<Space, run[3]>> IN TextRun(scr, run \o tail) = PerChar(scr, run \o tail)

\* The comments of the grid and of text() assume the row of the cursor exists.
CursorRowValid == On(scr).row < On(scr).h

\* Only restoring a cursor that was saved on a larger screen takes it off the screen.
OnlyRestoreLosesCursor ==
  [][\A side \in {"main", "alt"} :
       LET g == scr[side]  next == scr'[side]
       IN  CursorValid(g) /\ ~CursorValid(next) => <<next.row, next.col>> = <<g.srow, g.scol>>]_screenVars

\* A view that is scrolled back goes on showing the same lines of the scrollback
\* while the screen scrolls, as long as the scrollback has room for one more.
ViewStays ==
  [][LET g == scr.main  next == scr'.main
     IN  (LineFeed \/ PanUp(1)) /\ ~InAlt(scr) /\ g.off \in 1..g.back - 1 =>
           \A r \in 0..LesserOf(g.off, g.h) - 1 : VisibleRow(next, r) = VisibleRow(g, r)]_screenVars
=============================================================================
