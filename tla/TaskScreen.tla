----------------------------- MODULE TaskScreen -----------------------------
(* The screen of a task as its viewers share it: geometry, notifications and *)
(* copy mode (src/src/kernel/task_screen.rs, copy_mode.rs).  A viewer is told *)
(* through an unbounded channel and then paints what is there.               *)
EXTENDS Screen

CONSTANTS Viewers,     \* attachments
          ViewSizes,   \* sizes of their terminals, degenerate ones too
          WheelLines,  \* lines scrolled by a notch of the wheel
          MaxCmds      \* bound on the steps of a behaviour

ASSUME TaskAssumption == ViewSizes \subseteq Nat \X Nat /\ WheelLines \in Nat /\ MaxCmds \in Nat

VARIABLES task,        \* the task screen
          gone,        \* viewers whose end of the channel is closed
          fed,         \* input the last step passed to the program
          cmds         \* steps taken

taskVars == <<task, gone, fed, cmds>>

NoPos == <<>>
NoCopy == [on |-> FALSE]
\* The observers are a function from viewers to their sizes: one that attaches
\* again replaces itself.  Surfaces: 0 is the screen itself, the others belong to
\* copy sessions.
NewTask(w, h) ==
  [size |-> <<w, h>>, vt |-> NewScreen(w, h), observers |-> <<>>, lost |-> FALSE, copy |-> NoCopy,
   down |-> NoPos, pty |-> <<w, h>>, sessions |-> 0, told |-> [v \in Viewers |-> <<>>]]

-----------------------------------------------------------------------------
(* What is shown.                                                           *)

Pixels(g) == [p \in (0..g.h-1) \X (0..g.w-1) |-> VisibleRow(g, p[1]).cells[p[2]]]
Picture(g) == [cells |-> Pixels(g), cursor |-> <<g.row, g.col>>]
Surface(t) == IF t.copy.on THEN t.copy.surface ELSE 0
Seen(t) == <<Surface(t), Picture(IF t.copy.on THEN t.copy.present ELSE On(t.vt))>>

\* A viewer whose sink is closed is dropped when it is told something.
Broadcast(t) ==
  LET open == DOMAIN t.observers \ gone
  IN  [t EXCEPT !.observers = Restrict(@, open),
                !.lost = IF open # DOMAIN t.observers THEN TRUE ELSE @,
                !.told = [v \in Viewers |-> IF v \in open THEN Seen(t) ELSE @[v]]]

-----------------------------------------------------------------------------
(* Copy mode: positions are <<row, column>> of the live screen, negative    *)
(* rows being scrollback; the end is missing until a selection begins.      *)

CopyCursor(c) == IF c.end = NoPos THEN c.start ELSE c.end
Before(a, b) == a[1] < b[1] \/ (a[1] = b[1] /\ a[2] < b[2])
Low(a, b) == IF Before(a, b) THEN a ELSE b
High(a, b) == IF Before(a, b) THEN b ELSE a
Within(start, end, p) ==
  LET low == Low(start, end)  high == High(start, end)
  IN  IF p[1] > low[1] THEN p[1] < high[1] \/ (p[1] = high[1] /\ p[2] <= high[2])
      ELSE p[1] = low[1] /\ p[2] >= low[2] /\ (p[1] < high[1] \/ p[2] <= high[2])
PosAt(c, r, col) == <<r - On(c.snap).off, col>>

\* The frozen screen as it is scrolled, the selection, and a badge in the corner.
Badge(n) == IF n > 0 THEN 9 ELSE 6
Shown(snap, c, r, col) ==
  LET cell == VisibleRow(snap, r).cells[col]
  IN  [text |-> IF cell.text = <<>> THEN <<Space>> ELSE cell.text,
       attrs |-> IF Within(c.start, CopyCursor(c), <<r - snap.off, col>>) THEN "highlight" ELSE cell.attrs]
DrawShown(g, snap, c, r, col) ==
  IF r < snap.h /\ col < snap.w THEN PutCell(g, r, col, LAMBDA x : Shown(snap, c, r, col)) ELSE g
DrawBadge(g, n) == FoldLeft(LAMBDA x, k : PutCell(x, 0, g.w - k, LAMBDA y : Glyph(Space, "badge")), g, [k \in 1..n |-> k])
DrawPresent(g, snap, c) ==
  DrawBadge(FoldLeft(LAMBDA x, k : DrawShown(x, snap, c, (k - 1) \div g.w, (k - 1) % g.w), g, [k \in 1..g.w * g.h |-> k]),
            LesserOf(Badge(snap.off), g.w))
CursorAt(g, row, col) == IF row \in 0..g.h-1 /\ col \in 0..g.w-1 THEN SetPos(g, row, col) ELSE g
RenderPresent(t) ==
  IF ~t.copy.on THEN t
  ELSE [t EXCEPT !.copy.present =
          CursorAt(DrawPresent(EraseAll(ScrollView(Resize(@, t.size[1], t.size[2]), 0), Plain),
                               On(t.copy.snap), t.copy),
                   CopyCursor(t.copy)[1] + On(t.copy.snap).off, CopyCursor(t.copy)[2])]

EnterCopy(t) ==
  IF t.copy.on THEN t
  ELSE [t EXCEPT !.sessions = @ + 1,
          !.copy = [on |-> TRUE, snap |-> t.vt, start |-> <<On(t.vt).h - 1, 0>>, end |-> NoPos,
                    surface |-> t.sessions + 1,
                    present |-> NewGrid(t.size[1], t.size[2], 0)]]
LeaveCopy(t) == IF t.copy.on THEN Broadcast([t EXCEPT !.copy = NoCopy]) ELSE t
Shows(t) == Broadcast(RenderPresent(t))
OnCopy(t, F(_)) == IF t.copy.on THEN Shows([t EXCEPT !.copy = F(@)]) ELSE t

\* The cursor goes up as far as the scrollback may grow.
Moved(c, dir) ==
  LET g == On(c.snap)
      y == CopyCursor(c)[1]  x == CopyCursor(c)[2]
      to == CASE dir = "up" -> <<IF y > -g.back THEN y - 1 ELSE y, x>>
              [] dir = "down" -> <<IF y + 1 < g.h THEN y + 1 ELSE y, x>>
              [] dir = "left" -> <<y, IF x > 0 THEN x - 1 ELSE x>>
              [] dir = "right" -> <<y, IF x + 1 < g.w THEN x + 1 ELSE x>>
  IN  IF c.end = NoPos THEN [c EXCEPT !.start = to] ELSE [c EXCEPT !.end = to]
Selecting(c) == IF c.end = NoPos THEN [c EXCEPT !.end = c.start] ELSE c

\* get_selected_text: the contents of a row, gaps as spaces, from column lo on.
RowText(row, lo, hi) ==
  LET step(x, col) ==
        LET cell == row.cells[col]
        IN  IF x.wide THEN [x EXCEPT !.wide = FALSE]
            ELSE IF cell.text = <<>> THEN [x EXCEPT !.wide = IsWide(cell)]
            ELSE [text |-> x.text \o [k \in 1..col - x.at |-> Space] \o cell.text,
                  at |-> col + (IF IsWide(cell) THEN 2 ELSE 1), wide |-> IsWide(cell)]
      cols == SelectSeq([k \in 1..Cardinality(DOMAIN row.cells) |-> k - 1], LAMBDA j : j >= lo /\ j < hi)
  IN  FoldLeft(step, [text |-> <<>>, at |-> lo, wide |-> FALSE], cols).text
NewLine == "newline"
\* Mutant: the last column is left out.
Mutant_Exclusive(g, high, last) == IF last THEN LesserOf(g.w, high[2]) ELSE g.w
RowEnd(g, high, last) == IF last THEN LesserOf(g.w, high[2] + 1) ELSE g.w
\* A row before the first one that exists counts as one after the last.
SelectedText(c) ==
  LET g == On(c.snap)
      low == Low(c.start, c.end)  high == High(c.start, c.end)
      first == Row0(g) + low[1]
      n == high[1] - low[1] + 1
      line(i) == LET row == g.rows[first + i]
                 IN  RowText(row, IF i = 1 THEN low[2] ELSE 0, RowEnd(g, high, i = n))
                     \o (IF i # n /\ ~row.wrapped THEN <<NewLine>> ELSE <<>>)
  IN  IF first < 0 THEN <<>>
      ELSE FoldLeft(LAMBDA acc, i : acc \o line(i), <<>>,
                    [i \in 1..LesserOf(n, Len(g.rows) - first) |-> i])

-----------------------------------------------------------------------------
(* Geometry: the smallest viewer wins.                                      *)

Smallest(t) ==
  LET least(k) == Min({t.observers[v][k] : v \in DOMAIN t.observers})
  IN  IF t.observers = <<>> THEN t.size ELSE <<GreaterOf(least(1), 1), GreaterOf(least(2), 1)>>
Resized(t) == Smallest(t) # t.size
\* A screen that cannot be laid out again never comes back from it.
ToSize(t, s) == [t EXCEPT !.size = s, !.pty = s, !.vt = Sized(@, s)]
SyncSize(t) == IF Resized(t) THEN ToSize(t, Smallest(t)) ELSE t
ApplySize(t) == IF Resized(t) THEN Shows(SyncSize(t)) ELSE t
\* Mutant: a viewer that vanished goes on shaping the size.
Mutant_KeepsSize(t) == [t EXCEPT !.lost = FALSE]
Settle(t) == IF t.lost THEN ApplySize([t EXCEPT !.lost = FALSE]) ELSE t

-----------------------------------------------------------------------------
(* Commands of viewers, and the program's output.                           *)

Ready == ~task.vt.broken /\ cmds < MaxCmds
Becomes(t, input) == Ready /\ task' = Settle(t) /\ fed' = input /\ cmds' = cmds + 1 /\ UNCHANGED gone
Command(t) == Becomes(t, <<>>)

With(observers, id, size) ==
  [v \in DOMAIN observers \cup {id} |-> IF v = id THEN size ELSE observers[v]]
\* A new viewer is told what is shown, and all of them are when the size changes.
Greeted(t, id) == [t EXCEPT !.told[id] = Seen(t)]
Joined(t, id) == IF Resized(t) THEN Broadcast(Greeted(RenderPresent(SyncSize(t)), id)) ELSE Greeted(t, id)
Attach(id, size) ==
  /\ id \notin gone
  /\ Command(Joined([task EXCEPT !.observers = With(@, id, size)], id))
Detach(id) == Command(ApplySize([task EXCEPT !.observers = Restrict(@, DOMAIN @ \ {id})]))
ViewerResizes(id, size) ==
  LET drawn(t) == IF t.copy.on THEN Shows(t) ELSE t
  IN  Command(drawn(ApplySize([task EXCEPT !.observers =
                                 IF id \in DOMAIN @ THEN With(@, id, size) ELSE @])))
\* A viewer that ends without detaching.
Vanish(id) == Ready /\ gone' = gone \cup {id} /\ fed' = <<>> /\ cmds' = cmds + 1 /\ UNCHANGED task

Yanks(t) == t.copy.on /\ t.copy.end # NoPos
Changed(c, how) == CASE how = "begin" -> Selecting(c) [] OTHER -> Moved(c, how)
InCopy(t, how) ==
  CASE how = "enter" -> IF t.copy.on THEN t ELSE Shows(EnterCopy(t))
    [] how = "leave" -> LeaveCopy(t)
    [] how = "yank" -> LeaveCopy(IF Yanks(t) THEN Broadcast(t) ELSE t)
    [] OTHER -> OnCopy(t, LAMBDA c : Changed(c, how))
Copy(how) == Command(InCopy(task, how))
\* Keys and pastes go to the program, in copy mode some keys are commands.
Copies(key) ==
  CASE key = "esc" -> {"leave"} [] key \in {"enter", "y"} -> {"yank"} [] key \in {"v", "space"} -> {"begin"}
    [] key \in {"up", "down", "left", "right"} -> {key} [] OTHER -> {}
Key(key) ==
  \/ ~task.copy.on /\ Becomes(task, <<key>>)
  \/ task.copy.on /\ Copies(key) = {} /\ Command(task)
  \/ task.copy.on /\ \E how \in Copies(key) : Copy(how)
Paste == Becomes(task, IF task.copy.on THEN <<>> ELSE <<"paste">>)

Unit(t, unit) == CASE unit = "line" -> 1
                   [] unit = "half" -> GreaterOf(t.size[2] \div 2, 1)
                   [] unit = "screen" -> GreaterOf(t.size[2] - 1, 1)
ScrollBy(t, n) ==
  LET by(s) == Upon(s, ScrollView(On(s), IF n >= 0 THEN On(s).off + n ELSE Minus(On(s).off, -n)))
  IN  IF t.copy.on THEN Shows([t EXCEPT !.copy.snap = by(@)]) ELSE Broadcast([t EXCEPT !.vt = by(@)])
Scroll(delta, unit) == Command(ScrollBy(task, delta * Unit(task, unit)))

\* Whether the program asked for this kind of report.
Wanted(mode, kind) ==
  \/ kind \in {"down", "scrollup", "scrolldown"}
  \/ kind = "up" /\ mode # "press"
  \/ kind = "drag" /\ mode \in {"button", "any"}
  \/ kind = "moved" /\ mode = "any"
MouseDown(t, r, c) ==
  OnCopy([t EXCEPT !.down = <<r, c>>], LAMBDA s : [s EXCEPT !.start = PosAt(s, r, c), !.end = NoPos])
MouseDrag(t, r, c) ==
  LET from == IF t.down = NoPos THEN <<r, c>> ELSE t.down
      s == EnterCopy(t).copy
      anchored == IF t.copy.on THEN s ELSE [s EXCEPT !.start = PosAt(s, from[1], from[2])]
  IN  Shows([EnterCopy(t) EXCEPT !.copy = [anchored EXCEPT !.end = PosAt(s, r, c)]])
Mouse1(kind, r, c) ==
  IF task.vt.mouse # "none"
    THEN Becomes(task, IF Wanted(task.vt.mouse, kind) THEN <<"mouse", kind, r, c>> ELSE <<>>)
  ELSE Command(CASE kind = "down" -> MouseDown(task, r, c)
                 [] kind = "drag" -> MouseDrag(task, r, c)
                 [] kind = "up" -> [task EXCEPT !.down = NoPos]
                 [] kind = "scrollup" -> ScrollBy(task, WheelLines)
                 [] kind = "scrolldown" -> ScrollBy(task, -WheelLines)
                 [] OTHER -> task)

Process(s, answer) == Becomes(Broadcast([task EXCEPT !.vt = s]), answer)
Prints(run) == Process(TextRun(task.vt, run), <<>>)
Breaks == Process(Upon(task.vt, SetCol(DownScroll(On(task.vt), 1), 0)), <<>>)
Tracks(mode) == Process([task.vt EXCEPT !.mouse = mode], <<>>)

\* The program has already written something, and nobody is attached.
TaskInit == /\ \E run \in Written : LET t == NewTask(3, 2) IN task = [t EXCEPT !.vt = PerChar(@, run)]
            /\ gone = {} /\ fed = <<>> /\ cmds = 0
Watching == \E v \in Viewers : \/ \E s \in ViewSizes : Attach(v, s) \/ ViewerResizes(v, s)
                               \/ Detach(v) \/ Vanish(v)
Copying == \/ \E how \in {"enter", "leave", "begin", "yank", "up", "down", "left", "right"} : Copy(how)
           \/ \E k \in {"esc", "y", "v", "up", "right", "other"} : Key(k)
           \/ Paste
           \/ \E unit \in {"line", "half", "screen"}, d \in {-1, 1} : Scroll(d, unit)
Pointing == \E k \in {"down", "drag", "up", "moved", "scrollup", "scrolldown"} :
              \E r \in 0..1, c \in 0..2 : Mouse1(k, r, c)
Printing == \/ \E run \in Runs : Prints(run)
            \/ Breaks \/ \E m \in {"none", "press", "any"} : Tracks(m)
TaskNext == Watching \/ Copying \/ Pointing \/ Printing
TaskSpec == TaskInit /\ [][TaskNext]_taskVars

-----------------------------------------------------------------------------
Open == DOMAIN task.observers \ gone

\* Whatever order viewers come, change size and vanish in: the screen, the
\* program's terminal and the grid have one size, which every viewer known to the
\* screen can show, and which no larger one would do.
SmallestViewerWins ==
  LET t == task
      fits(s) == \A v \in DOMAIN t.observers : \A k \in 1..2 : s[k] <= GreaterOf(t.observers[v][k], 1)
  IN  ~t.vt.broken /\ ~t.lost =>
        /\ t.pty = t.size /\ <<t.vt.main.w, t.vt.main.h>> = t.size
        /\ fits(t.size)
        /\ t.observers # <<>> => \A k \in 1..2 : ~fits([t.size EXCEPT ![k] = @ + 1])

\* Every attached viewer draws the surface in use, the screen or the one of the
\* present copy session, and was told after its last change.
ViewersUpToDate == ~task.vt.broken => \A v \in Open : task.told[v] = Seen(task)

\* Viewers are served: the smallest of them sets the size, and all are told.
ViewersServed == SmallestViewerWins /\ ViewersUpToDate

\* What is yanked is what is highlighted: the cells of the selection, as spaces
\* where they are empty and something follows in the row.
Highlighted(c, y) ==
  LET g == On(c.snap)
      row == g.rows[Row0(g) + y + 1]
      cols == SelectSeq([k \in 1..g.w |-> k - 1], LAMBDA x : Within(c.start, c.end, <<y, x>>))
      kept == SelectSeq(cols, LAMBDA x : /\ ~(x - 1 \in Range(cols) /\ Continues(row, x))
                                         /\ \E z \in Range(cols) : z >= x /\ row.cells[z].text # <<>>)
  IN  FlattenSeq([k \in DOMAIN kept |-> IF row.cells[kept[k]].text = <<>> THEN <<Space>>
                                        ELSE row.cells[kept[k]].text])
YankIsHighlighted ==
  LET c == task.copy
      g == On(c.snap)
      low == Low(c.start, c.end)[1]  high == High(c.start, c.end)[1]
      rows == [k \in 1..high - low + 1 |-> low + k - 1]
      ends(y) == IF y # high /\ ~g.rows[Row0(g) + y + 1].wrapped THEN <<NewLine>> ELSE <<>>
  IN  Yanks(task) /\ low >= -Row0(g) /\ high < g.h =>
        SelectedText(c) = FlattenSeq([k \in DOMAIN rows |-> Highlighted(c, rows[k]) \o ends(rows[k])])
=============================================================================
