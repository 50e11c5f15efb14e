----------------------------- MODULE MCTerminal -----------------------------
(* The parts of the terminal side by side; a behaviour is about one of them, *)
(* and the others stay as they are.                                          *)
EXTENDS ScreenDiffer, TaskScreen, TermWire

VARIABLES part, scanner

\* The scanner by itself has short parameters, lists and bodies.
Stream == INSTANCE VtStream WITH MaxParams <- 2, MaxValue <- 9, MaxBody <- 2,
  Bytes <- {ESC, 91, 93, 92, 79, 49, 59, 63, 77, 10, 194, 224, 141, 160}
ChunkingInvariant == part = "stream" => Stream!ChunkingInvariant

-----------------------------------------------------------------------------
\* Screens: a small one with some text on it.
MCRuns == {<<"a">>, <<"W">>, <<"z">>}
MCSizes == {<<3, 2>>, <<2, 3>>}
\* A screen that becomes smaller.
MCShrinking == {<<3, 2>>, <<3, 1>>}
MCWritten == {<<"a", "a", "a", "a", "W", "a", "a", "W">>}

\* Pictures: every column narrow, or one wide character and its second half; the
\* cursor is shown, and not in the last column.
Cells == {Blank(Plain), Glyph("a", Plain), Glyph("a", "red")}
PictureRows(w) == [0..w-1 -> Cells] \cup
  {[f EXCEPT ![j] = Glyph("W", Plain), ![j + 1] = Blank(Plain)] : f \in [0..w-1 -> Cells], j \in 0..w-2}
PicturesOf(w, h, rows, cursors) ==
  {[w |-> w, h |-> h, cursor |-> x, cells |-> [p \in (0..h-1) \X (0..w-1) |-> f[p[1]][p[2]]]]
     : f \in [0..h-1 -> rows], x \in cursors}
MCPictures == PicturesOf(3, 1, PictureRows(3), {<<0, 0>>, <<0, 1>>})
  \cup PicturesOf(2, 2, {r \in PictureRows(2) : \A j \in 0..1 : r[j].attrs = Plain}, {<<1, 0>>})

\* Viewers: one of them may have no columns.
MCViewSizes == {<<2, 2>>, <<3, 1>>, <<0, 2>>}

\* Attributes, keys, mouse events; Ctrl+Shift+Tab is read as Shift+Tab.
MCPaints == [fg : {DefaultColour, <<"idx", 1>>, <<"idx", 200>>, <<"rgb", 1, 2, 3>>},
             bg : {DefaultColour, <<"idx", 9>>, <<"rgb", 255, 0, 5>>},
             flags : {{}, {"bold"}, {"bold", "italic"}, {"underline", "inverse"}}]
MCKeyEvents ==
  {KeyOf(code, mods) : code \in {Char(97), Char(65), Char(49), Char(47), Char(64)}
     \cup {Fn(n) : n \in 1..20} \cup CursorKeys
     \cup {Name(n) : n \in {"enter", "esc", "backspace", "tab", "insert", "delete", "pageup", "pagedown"}},
   mods \in SUBSET {"shift", "alt", "ctrl"}} \ {KeyOf(Name("tab"), {"shift", "ctrl"})}
MCMouseEvents ==
  [kind : {<<k, b>> : k \in {"down", "up", "drag"}, b \in {"left", "right"}} \cup {<<"moved">>, <<"scrollup">>},
   mods : {{}, {"shift", "ctrl"}, {"alt"}}, x : {0, 94, 222}, y : {0, 3}]

-----------------------------------------------------------------------------
ScreenIdle == scr = PerChar(NewScreen(2, 2), <<"a">>) /\ said = <<>> /\ ops = 0
DifferIdle == LET v == [w |-> 2, h |-> 1, cursor |-> <<0, 0>>,
                        cells |-> [p \in {0} \X (0..1) |-> Blank(Plain)]]
              IN  /\ picture = v /\ client = Cleared(2, 1)
                  /\ differ = NewDiffer
TaskIdle == task = NewTask(2, 2) /\ gone = {} /\ fed = <<>> /\ cmds = 0
StreamIdle == scanner = Stream!NewScanner("output")

TerminalInit ==
  \/ part = "screen" /\ ScreenInit /\ DifferIdle /\ TaskIdle /\ StreamIdle /\ WireInit
  \/ part = "differ" /\ ScreenIdle /\ DifferInit /\ TaskIdle /\ StreamIdle /\ WireInit
  \/ part = "task" /\ ScreenIdle /\ DifferIdle /\ TaskInit /\ StreamIdle /\ WireInit
  \/ part = "stream" /\ ScreenIdle /\ DifferIdle /\ TaskIdle /\ Stream!ScanInit /\ WireInit
  \/ part = "wire" /\ ScreenIdle /\ DifferIdle /\ TaskIdle /\ StreamIdle /\ WireInit
TerminalNext ==
  /\ \/ part = "screen" /\ ScreenNext /\ UNCHANGED <<differVars, taskVars, scanner, wireVars>>
     \/ part = "differ" /\ DifferNext /\ UNCHANGED <<screenVars, taskVars, scanner, wireVars>>
     \/ part = "task" /\ TaskNext /\ UNCHANGED <<screenVars, differVars, scanner, wireVars>>
     \/ part = "stream" /\ Stream!ScanNext /\ UNCHANGED <<screenVars, differVars, taskVars, wireVars>>
     \/ part = "wire" /\ WireNext /\ UNCHANGED <<screenVars, differVars, taskVars, scanner>>
  /\ UNCHANGED part
=============================================================================
