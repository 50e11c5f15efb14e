---------------------------- MODULE ScreenDiffer ----------------------------
(* What is sent to an attached terminal when the picture changes            *)
(* (src/src/term/screen_differ.rs).  The terminal of the client is not part  *)
(* of the program: it is taken to do what the emulator of Screen does.       *)
EXTENDS Screen

CONSTANTS Pictures    \* pictures drawn: [w, h, cells, cursor], cells by <<row, column>>

VARIABLES picture,    \* what is to be shown
          differ,     \* what the differ believes is shown
          client      \* the client's terminal

differVars == <<picture, differ, client>>

Nowhere == <<-1, -1>>
NewDiffer == [cells |-> <<>>, brush |-> Plain, pos |-> Nowhere, cursor |-> <<0, 0>>]

\* Mutant: every character moves the cursor by one.
Mutant_NarrowStep(r, c, width, w) == <<r, LesserOf(w - 1, c + 1)>>
NextCell(r, c, width, w) == <<r, LesserOf(w - 1, c + width)>>

\* Continuations of wide characters are not drawn, and the others when they
\* differ from what was drawn last; everything is when the area has changed.
DrawCell(d, v, all, k) ==
  LET r == k \div v.w
      c == k % v.w
      cell == v.cells[<<r, c>>]
      second == c > 0 /\ IsWide(v.cells[<<r, c - 1>>])
      width == IF CellWidth(cell) > 0 THEN CellWidth(cell) ELSE 1
  IN  IF second \/ ~(all \/ cell # d.cells[k + 1])
        THEN [d EXCEPT !.cells[k + 1] = cell]
      ELSE [d EXCEPT !.cells[k + 1] = cell, !.brush = cell.attrs,
              !.pos = NextCell(r, c, width, v.w),
              !.out = @ \o (IF d.brush = cell.attrs THEN <<>> ELSE <<<<"sgr", cell.attrs>>>>)
                        \o (IF d.pos = <<r, c>> THEN <<>> ELSE <<<<"cup", r, c>>>>)
                        \o <<<<"put", IF CellWidth(cell) > 0 THEN cell.text ELSE <<Space>>>>>>]
DrawCursor(d, v) ==
  [d EXCEPT !.cursor = v.cursor,
     !.pos = IF v.cursor = Nowhere THEN @ ELSE v.cursor,
     !.out = @ \o (IF (d.cursor = Nowhere) = (v.cursor = Nowhere) THEN <<>>
                   ELSE <<<<"show", v.cursor # Nowhere>>>>)
               \o (IF v.cursor \in {Nowhere, d.pos} THEN <<>> ELSE <<<<"cup", v.cursor[1], v.cursor[2]>>>>)]
Diff(d, v) ==
  LET n == v.w * v.h
      all == n # Len(d.cells)
      old == [k \in 1..n |-> IF k <= Len(d.cells) THEN d.cells[k] ELSE Blank(Plain)]
      start == [cells |-> old, brush |-> d.brush, pos |-> d.pos, cursor |-> d.cursor, out |-> <<>>]
  IN  DrawCursor(FoldLeft(LAMBDA x, k : DrawCell(x, v, all, k), start, [k \in 1..n |-> k - 1]), v)

\* The terminal of the client, without a scrollback, takes what is sent.
Cleared(w, h) == [NewScreen(w, h) EXCEPT !.main.back = 0]
Obey(s, m) ==
  CASE m[1] = "sgr" -> [s EXCEPT !.attrs = m[2]]
    [] m[1] = "cup" -> [s EXCEPT !.main = SetPos(@, m[2], m[3])]
    [] m[1] = "show" -> [s EXCEPT !.modes = IF m[2] THEN @ \ {"hide"} ELSE @ \cup {"hide"}]
    [] m[1] = "put" -> PerChar(s, m[2])

\* The client attaches with the size of the picture, and a size that changes
\* later changes for both: its terminal lays out what it shows, and the whole is
\* drawn again.
Draw(v) ==
  LET d == Diff(differ, v)
      sized == [client EXCEPT !.main = Resize(@, v.w, v.h)]
  IN  /\ picture' = v
      /\ differ' = [cells |-> d.cells, brush |-> d.brush, pos |-> d.pos, cursor |-> d.cursor]
      /\ client' = FoldLeft(Obey, sized, d.out)

DifferInit == \E v \in Pictures :
  /\ picture = v
  /\ LET d == Diff(NewDiffer, v)
     IN  /\ differ = [cells |-> d.cells, brush |-> d.brush, pos |-> d.pos, cursor |-> d.cursor]
         /\ client = FoldLeft(Obey, Cleared(v.w, v.h), d.out)
DifferNext == \E v \in Pictures : Draw(v)

-----------------------------------------------------------------------------
SeenText(cell) == IF CellWidth(cell) = 0 THEN <<Space>> ELSE cell.text
Halved(cells, r, c) == c > 0 /\ IsWide(cells[<<r, c - 1>>])

\* What the client shows is the picture, character by character and with its
\* attributes, and its cursor is where the picture has it: the diff state stays in
\* sync with the terminal (comment and tests of diff).
ClientInSync ==
  /\ ~client.broken
  /\ \A r \in 0..picture.h-1, c \in 0..picture.w-1 :
       LET seen == At(client.main, r).cells[c]
           meant == picture.cells[<<r, c>>]
       IN  \/ Halved(picture.cells, r, c)
           \/ /\ SeenText(seen) = SeenText(meant)
              /\ CellWidth(meant) > 0 => seen.attrs = meant.attrs
  /\ ("hide" \in client.modes) <=> (picture.cursor = Nowhere)
  /\ picture.cursor # Nowhere => <<client.main.row, client.main.col>> = picture.cursor
=============================================================================
