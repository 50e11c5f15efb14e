------------------------------ MODULE TermCodec ------------------------------
(* What is written to a terminal or a program, and how it is read back:      *)
(* attributes, keys and the mouse (src/src/term/vt/emit.rs, keys.rs,         *)
(* src/src/term_driver/input.rs and the SGR part of src/src/term/screen.rs). *)
EXTENDS VtScan

RECURSIVE Num(_)
Num(n) == IF n < 10 THEN <<48 + n>> ELSE Num(n \div 10) \o <<48 + (n % 10)>>
Fields(ns) == FoldLeft(LAMBDA acc, k : acc \o (IF k = 1 THEN <<>> ELSE <<Semicolon>>) \o Num(ns[k]),
                       <<>>, [k \in 1..Len(ns) |-> k])
CsiSeq(lead, ns, final) == <<ESC, 91>> \o lead \o Fields(ns) \o <<final>>
Atmost(n, limit) == IF n > limit THEN limit ELSE n
Less(n, k) == IF n < k THEN 0 ELSE n - k
Bit(n, weight) == (n \div weight) % 2 = 1

-----------------------------------------------------------------------------
(* Attributes: the change from one set to another, and the effect of SGR.   *)

Flags == <<"bold", "italic", "underline", "inverse">>
FlagOn == [bold |-> 1, italic |-> 3, underline |-> 4, inverse |-> 7]
FlagOff == [bold |-> 22, italic |-> 23, underline |-> 24, inverse |-> 27]
DefaultColour == <<"default">>
DefaultAttrs == [fg |-> DefaultColour, bg |-> DefaultColour, flags |-> {}]

ColourFields(c, base) ==
  CASE c[1] = "default" -> <<base + 9>>
    [] c[1] = "idx" -> <<base + 8, 5, c[2]>>
    [] c[1] = "rgb" -> <<base + 8, 2, c[2], c[3], c[4]>>
SgrSeq(from, to) ==
  LET fg == IF from.fg = to.fg THEN <<>> ELSE ColourFields(to.fg, 30)
      bg == IF from.bg = to.bg THEN <<>> ELSE ColourFields(to.bg, 40)
      flag(acc, f) == IF (f \in from.flags) = (f \in to.flags) THEN acc
                      ELSE Append(acc, IF f \in to.flags THEN FlagOn[f] ELSE FlagOff[f])
  IN  IF from = to THEN <<>> ELSE CsiSeq(<<>>, FoldLeft(flag, fg \o bg, Flags), 109)

\* The colour at parameter i, and the index after it.
SgrColour(p, i) ==
  LET kind == Get(p, i + 1, 2)
      j == IF IsSub(p, i + 2) /\ ~Given(p, i + 2) THEN i + 1 ELSE i
      part(k) == Atmost(Get(p, j + k, 0), 255)
  IN  CASE kind = 2 -> <<<<"rgb", part(2), part(3), part(4)>>, j + 5>>
        [] kind = 5 -> <<<<"idx", Atmost(Get(p, i + 2, 0), 255)>>, i + 3>>
        [] OTHER -> <<DefaultColour, i + 2>>

SgrOne(a, n) ==
  CASE n = 0 -> DefaultAttrs
    [] n = 1 -> [a EXCEPT !.flags = @ \cup {"bold"}]
    [] n \in {2, 22} -> [a EXCEPT !.flags = @ \ {"bold"}]
    [] n = 3 -> [a EXCEPT !.flags = @ \cup {"italic"}]
    [] n \in {4, 21} -> [a EXCEPT !.flags = @ \cup {"underline"}]
    [] n = 7 -> [a EXCEPT !.flags = @ \cup {"inverse"}]
    [] n \in {23, 24, 27} ->
         [a EXCEPT !.flags = @ \ {CASE n = 23 -> "italic" [] n = 24 -> "underline" [] n = 27 -> "inverse"}]
    [] n \in 30..37 -> [a EXCEPT !.fg = <<"idx", n - 30>>]
    [] n = 39 -> [a EXCEPT !.fg = DefaultColour]
    [] n \in 40..47 -> [a EXCEPT !.bg = <<"idx", n - 40>>]
    [] n = 49 -> [a EXCEPT !.bg = DefaultColour]
    [] n \in 90..97 -> [a EXCEPT !.fg = <<"idx", n - 82>>]
    [] n \in 100..107 -> [a EXCEPT !.bg = <<"idx", n - 92>>]
    [] OTHER -> a
Sgr(a, p) ==
  LET step(x, i) ==
        LET n == Get(p, i, 0)
            c == SgrColour(p, i)
        IN  CASE i < x.next \/ IsSub(p, i) -> x
              [] n = 38 -> [a |-> [x.a EXCEPT !.fg = c[1]], next |-> c[2]]
              [] n = 48 -> [a |-> [x.a EXCEPT !.bg = c[1]], next |-> c[2]]
              [] OTHER -> [a |-> SgrOne(x.a, n), next |-> i + 1]
  IN  IF p.list = <<>> THEN DefaultAttrs
      ELSE FoldLeft(step, [a |-> a, next |-> 0], [k \in 1..Len(p.list) |-> k - 1]).a

\* The attributes a terminal that scans as this one does ends up with.
Applied(a, bytes) ==
  FoldLeft(LAMBDA x, item : IF item.k = "csi" /\ item.p.final = 109 /\ ~item.p.invalid
                              THEN Sgr(x, item.p) ELSE x,
           a, Scan(NewScanner("output"), bytes).out)

-----------------------------------------------------------------------------
(* Keys.  A code is <<"char", number>>, <<"f", number>> or a name.          *)

Name(n) == <<n>>
Char(n) == <<"char", n>>
Fn(n) == <<"f", n>>
KeyOf(code, mods) == [code |-> code, mods |-> mods, kind |-> "press", state |-> {}]
NoKey == <<"none">>
NoEvent == [none |-> TRUE]

Upper == 65..90   Lower == 97..122   Numeral == 48..57
Punctuation == (33..47) \cup (58..64) \cup (91..96) \cup (123..126)

FinalKey(b) ==
  CASE b = 65 -> Name("up") [] b = 66 -> Name("down") [] b = 67 -> Name("right")
    [] b = 68 -> Name("left") [] b = 70 -> Name("end") [] b = 72 -> Name("home")
    [] b = 80 -> Fn(1) [] b = 81 -> Fn(2) [] b = 83 -> Fn(4) [] OTHER -> NoKey
Ss3Key(b) == IF b = 82 THEN Fn(3) ELSE FinalKey(b)
CursorKeys == {Name(n) : n \in {"up", "down", "right", "left", "end", "home"}}
CursorFinal(code) == CHOOSE b \in 65..72 : FinalKey(b) = code

TildeKey(n) ==
  CASE n \in {1, 7} -> Name("home") [] n = 2 -> Name("insert") [] n = 3 -> Name("delete")
    [] n \in {4, 8} -> Name("end") [] n = 5 -> Name("pageup") [] n = 6 -> Name("pagedown")
    [] n \in 11..15 -> Fn(n - 10) [] n \in 17..21 -> Fn(n - 11) [] n \in 23..26 -> Fn(n - 12)
    [] n \in 28..29 -> Fn(n - 13) [] n \in 31..34 -> Fn(n - 14) [] OTHER -> NoKey
KeyTilde(code) ==
  CASE code = Name("insert") -> 2 [] code = Name("delete") -> 3 [] code = Name("pageup") -> 5
    [] code = Name("pagedown") -> 6
    [] code[1] = "f" -> LET n == code[2]
                        IN  CASE n \in 1..5 -> n + 10 [] n \in 6..10 -> n + 11 [] n \in 11..14 -> n + 12
                              [] n \in 15..16 -> n + 13 [] n \in 17..20 -> n + 14 [] OTHER -> 0
    [] OTHER -> 0

\* The control character of a character, -1 if it has none.
CtrlChar(c) ==
  CASE c \in {64, 96, 32, 50} -> 0
    [] c \in Upper -> c - 64
    [] c \in Lower -> c - 96
    [] c \in {91, 51, 123} -> 27
    [] c \in {92, 52, 124} -> 28
    [] c \in {93, 53, 125} -> 29
    [] c \in {94, 54, 126} -> 30
    [] c \in {95, 55, 47} -> 31
    [] c \in {56, 63} -> 127
    [] OTHER -> -1

\* The key a plain character or a control byte is read as.
CharKey(c) ==
  CASE c \in {10, 13} -> KeyOf(Name("enter"), {})
    [] c = 9 -> KeyOf(Name("tab"), {})
    [] c = DEL -> KeyOf(Name("backspace"), {})
    [] c \in 1..26 \ {9, 10, 13} -> KeyOf(Char(c + 96), {"ctrl"})
    [] c \in 28..31 -> KeyOf(Char(c + 24), {"ctrl"})
    [] c = 0 -> KeyOf(Char(32), {"ctrl"})
    [] c \in {ESC, RI} -> NoEvent
    [] OTHER -> KeyOf(Char(c), {})

ModBits == [shift |-> 1, alt |-> 2, ctrl |-> 4]
Mask(mods) == FoldLeft(LAMBDA n, m : IF m \in mods THEN n + ModBits[m] ELSE n, 0,
                       <<"shift", "alt", "ctrl">>)
\* Mutant: the mask is taken as it is sent, one too large.
Mutant_RawMask(wire) == {x \in {"shift", "alt", "ctrl"} : Bit(wire, ModBits[x])}
MaskMods(wire) ==
  LET m == Less(wire, 1)
      bits == [shift |-> 1, alt |-> 2, ctrl |-> 4, super |-> 8, hyper |-> 16, meta |-> 32]
  IN  {x \in DOMAIN bits : Bit(m, bits[x])}
MaskState(wire) == {x \in {"caps", "num"} : Bit(Less(wire, 1), IF x = "caps" THEN 64 ELSE 128)}
EventKind(n) == CASE n = 2 -> "repeat" [] n = 3 -> "release" [] OTHER -> "press"

Keypad == [k \in 1..10 |-> Char(47 + k)] \o
  <<Char(46), Char(47), Char(42), Char(45), Char(43), Name("enter"), Char(61), Char(44),
    Name("left"), Name("right"), Name("up"), Name("down"), Name("pageup"), Name("pagedown"),
    Name("home"), Name("end"), Name("insert"), Name("delete"), Name("begin")>>
Locks == <<"capslock", "scrolllock", "numlock", "printscreen", "pause", "menu">>
Media == <<"play", "pause", "playpause", "reverse", "stop", "forward", "rewind", "next", "prev",
           "record", "lower", "raise", "mute">>
Sides == <<"shift", "ctrl", "alt", "super", "hyper", "meta">>
FunctionalKey(c) ==
  CASE c \in 57399..57427 -> <<Keypad[c - 57398], {"keypad"}>>
    [] c \in 57358..57363 -> <<Name(Locks[c - 57357]), {}>>
    [] c \in 57376..57398 -> <<Fn(c - 57363), {}>>
    [] c \in 57428..57440 -> <<<<"media", Media[c - 57427]>>, {}>>
    [] c \in 57441..57452 -> <<<<"modifier", Sides[((c - 57441) % 6) + 1]>>, {}>>
    [] OTHER -> NoKey
-----------------------------------------------------------------------------
(* What a key is written as for a program.  Modes: "kitty", the keyboard    *)
(* protocol, "cursor", application cursor keys, and "newline".               *)

CsiU(c, mods) == CsiSeq(<<>>, <<c, Mask(mods) + 1>>, 117)
Alt(mods, bytes) == IF "alt" \in mods THEN <<ESC>> \o bytes ELSE bytes
CtrlOr(c, mods) == IF "ctrl" \in mods /\ CtrlChar(c) >= 0 THEN CtrlChar(c) ELSE c
CsiUKey(c, mods, kitty) ==
  LET plain == CtrlOr(c, mods)
  IN  IF kitty THEN CsiU(c, mods) ELSE IF plain < 128 THEN Alt(mods, <<plain>>) ELSE <<plain>>
Sent(code) == CASE code = Name("enter") -> 13 [] code = Name("esc") -> ESC
                [] code = Name("backspace") -> DEL [] code = Name("tab") -> 9

CharBytes(c, mods, kitty) ==
  CASE mods \cap {"ctrl", "alt"} # {} /\ kitty -> CsiU(c, mods)
    [] ~kitty /\ c \in Upper /\ "ctrl" \in mods -> CsiUKey(c, mods, FALSE)
    [] ~kitty /\ c \notin Upper /\ "ctrl" \in mods /\ CtrlChar(c) >= 0 -> Alt(mods, <<CtrlChar(c)>>)
    [] ~kitty /\ ~("ctrl" \in mods /\ (c \in Upper \/ CtrlChar(c) >= 0)) /\ "alt" \in mods
         /\ c \in Upper \cup Lower \cup Numeral \cup Punctuation -> <<ESC, c>>
    [] OTHER -> IF mods = {} THEN <<c>> ELSE CsiUKey(c, mods, kitty)
TabBytes(mods) ==
  LET m == mods \ {"alt"}
      b == CASE m = {"ctrl"} -> CsiSeq(<<>>, <<9, 5>>, 117)
             [] m = {"ctrl", "shift"} -> CsiSeq(<<>>, <<1, 5>>, 90)
             [] m = {"shift"} -> CsiSeq(<<>>, <<>>, 90)
             [] OTHER -> <<9>>
  IN  Alt(mods, b)
EnterLike(code, mods, modes) ==
  IF mods \cap {"shift", "ctrl"} # {} THEN CsiUKey(Sent(code), mods, "kitty" \in modes)
  ELSE Alt(mods, <<Sent(code)>>)
       \o (IF "newline" \in modes /\ code = Name("enter") THEN <<10>> ELSE <<>>)
CursorBytes(code, mods, modes) ==
  CASE mods \cap {"alt", "shift", "ctrl"} # {} -> CsiSeq(<<>>, <<1, Mask(mods) + 1>>, CursorFinal(code))
    [] "cursor" \in modes /\ mods \cap {"alt", "shift", "ctrl"} = {} -> <<ESC, 79, CursorFinal(code)>>
    [] OTHER -> CsiSeq(<<>>, <<>>, CursorFinal(code))
TildeBytes(code, mods) ==
  IF KeyTilde(code) = 0 THEN <<>>
  ELSE CsiSeq(<<>>, IF Mask(mods) = 0 THEN <<KeyTilde(code)>> ELSE <<KeyTilde(code), Mask(mods) + 1>>, 126)

\* A shifted capital or mark is itself, and the control characters are keys.
Normal(code, mods) ==
  IF code[1] # "char" THEN <<code, mods>>
  ELSE <<CASE code[2] = DEL -> Name("backspace") [] code[2] = 8 -> Name("delete") [] OTHER -> code,
         IF code[2] \in Upper \cup Punctuation THEN mods \ {"shift"} ELSE mods>>
KeyBytes(key, modes) ==
  LET code == Normal(key.code, key.mods)[1]
      mods == Normal(key.code, key.mods)[2]
      kitty == "kitty" \in modes
  IN  CASE code = Name("esc") /\ kitty -> CsiU(ESC, mods)
        [] code[1] = "char" -> CharBytes(code[2], mods, kitty)
        [] code \in {Name("enter"), Name("backspace"), Name("tab")} /\ "alt" \in mods /\ kitty ->
             CsiU(Sent(code), mods)
        [] code = Name("tab") /\ ~("alt" \in mods /\ kitty) -> TabBytes(mods)
        [] \/ code = Name("esc") /\ ~kitty
           \/ code \in {Name("enter"), Name("backspace")} /\ ~("alt" \in mods /\ kitty) ->
             EnterLike(code, mods, modes)
        [] code \in CursorKeys -> CursorBytes(code, mods, modes)
        [] code[1] = "f" /\ mods = {} /\ code[2] \in 1..4 -> <<ESC, 79, 79 + code[2]>>
        [] OTHER -> TildeBytes(code, mods)

-----------------------------------------------------------------------------
(* The mouse: <<kind, button>>, modifiers and a position.                   *)

Buttons == <<"left", "middle", "right">>
Wheel == <<"scrollup", "scrolldown", "scrollleft", "scrollright">>
IndexOf(s, x) == CHOOSE k \in DOMAIN s : s[k] = x
MouseBase(kind, sgr) ==
  CASE kind[1] = "down" -> IndexOf(Buttons, kind[2]) - 1
    [] kind[1] = "up" -> IF sgr THEN IndexOf(Buttons, kind[2]) - 1 ELSE 3
    [] kind[1] = "drag" -> 31 + IndexOf(Buttons, kind[2])
    [] kind[1] = "moved" -> 35
    [] OTHER -> 63 + IndexOf(Wheel, kind[1])
MouseBits(mods) == (IF "shift" \in mods THEN 4 ELSE 0) + (IF "alt" \in mods THEN 8 ELSE 0)
                   + (IF "ctrl" \in mods THEN 16 ELSE 0)
Utf8Coord(v) == IF v < 128 THEN <<v>> ELSE <<192 + (v \div 64), 128 + (v % 64)>>
MouseBytes(ev, enc) ==
  LET b == MouseBase(ev.kind, enc = "sgr") + MouseBits(ev.mods)
  IN  CASE enc = "sgr" -> CsiSeq(<<60>>, <<b, ev.x + 1, ev.y + 1>>, IF ev.kind[1] = "up" THEN 109 ELSE 77)
        [] enc = "default" -> <<ESC, 91, 77, b + 32, Atmost(ev.x + 33, 255), Atmost(ev.y + 33, 255)>>
        [] enc = "utf8" -> <<ESC, 91, 77, b + 32>> \o Utf8Coord(Atmost(ev.x + 33, 2047))
                             \o Utf8Coord(Atmost(ev.y + 33, 2047))
MouseCb(cb) ==
  LET button == (cb % 4) + ((cb \div 64) * 4)
      kind == CASE button \in 0..2 -> <<IF Bit(cb, 32) THEN "drag" ELSE "down", Buttons[button + 1]>>
                [] button = 3 /\ ~Bit(cb, 32) -> <<"up", "left">>
                [] button \in 3..5 /\ Bit(cb, 32) -> <<"moved">>
                [] button \in 4..7 /\ ~Bit(cb, 32) -> <<Wheel[button - 3]>>
                [] OTHER -> NoKey
  IN  [kind |-> kind, mods |-> {m \in {"shift", "alt", "ctrl"} :
                                  Bit(cb, CASE m = "shift" -> 4 [] m = "alt" -> 8 [] m = "ctrl" -> 16)}]
MouseAt(cb, x, y) == MouseCb(cb) @@ [x |-> x, y |-> y]

-----------------------------------------------------------------------------
(* What is read: the events of an item.                                     *)

Event(e) == IF e = NoEvent THEN <<>> ELSE <<e>>
Wire(p, i) == Atmost(Get(p, i, 0), 255)
CursorEvent(p) ==
  LET many == Len(p.list) >= 2
  IN  [KeyOf(FinalKey(p.final), IF many THEN MaskMods(Wire(p, 1)) ELSE {})
       EXCEPT !.kind = IF many /\ IsSub(p, 2) THEN EventKind(Wire(p, 2)) ELSE "press"]

\* modifyOtherKeys carries the code in its third parameter.
OtherKey(c) == CASE c \in {8, DEL} -> Name("backspace") [] c = ESC -> Name("esc") [] c = 9 -> Name("tab")
                 [] c \in {10, 13} -> Name("enter") [] OTHER -> Char(c)
TildeEvent(p) ==
  LET code == IF Get(p, 0, 0) = 27 THEN IF Given(p, 2) THEN OtherKey(Get(p, 2, 0)) ELSE NoKey
              ELSE TildeKey(Get(p, 0, 0))
  IN  IF ~Given(p, 0) \/ code = NoKey THEN NoEvent
      ELSE [KeyOf(code, MaskMods(Wire(p, 1))) EXCEPT !.state = MaskState(Wire(p, 1))]

CsiUCode(c) == CASE c = ESC -> Name("esc") [] c = 13 -> Name("enter") [] c = 9 -> Name("tab")
                 [] c = DEL -> Name("backspace") [] OTHER -> Char(c)
\* A key and the states that come with it; the code of a shifted character.
UKey(c) == LET key(fun) == IF fun = NoKey THEN <<CsiUCode(c), {}>> ELSE fun IN key(FunctionalKey(c))
Shifted(p, ev) ==
  IF "shift" \in ev.mods /\ IsSub(p, 1) /\ Given(p, 1)
    THEN [ev EXCEPT !.code = Char(Get(p, 1, 0)), !.mods = @ \ {"shift"}] ELSE ev
CsiUEvent(p) ==
  LET event(key, at) ==
        [code |-> key[1],
         mods |-> MaskMods(Wire(p, at)) \cup (IF key[1][1] = "modifier" THEN {key[1][2]} ELSE {}),
         kind |-> IF IsSub(p, at + 1) THEN EventKind(Atmost(Get(p, at + 1, 1), 255)) ELSE "press",
         state |-> MaskState(Wire(p, at)) \cup key[2]]
  IN  Shifted(p, event(UKey(Get(p, 0, 0)),
                       CHOOSE k \in 1..Len(p.list) + 1 : ~IsSub(p, k) /\ \A j \in 1..k-1 : IsSub(p, j)))

\* SGR reports count from 32 lower than those of rxvt, and name the button let go.
MouseEvent(p) ==
  LET b == Wire(p, 0)
      sgr(ev) == IF ev.kind = NoKey THEN NoEvent
                 ELSE IF p.prefix = 60 /\ p.final = 109 /\ ev.kind[1] = "down"
                   THEN [ev EXCEPT !.kind = <<"up", ev.kind[2]>>] ELSE ev
  IN  IF Given(p, 0) /\ Given(p, 1) /\ Given(p, 2)
        THEN sgr(MouseAt(IF p.prefix = 60 THEN b ELSE Less(b, 32), Less(Get(p, 1, 0), 1), Less(Get(p, 2, 0), 1)))
        ELSE NoEvent
CsiEvent(p) ==
  CASE p.prefix = 0 /\ FinalKey(p.final) # NoKey -> CursorEvent(p)
    [] p.final = 99 /\ p.prefix = 63 -> [reply |-> "attributes"]
    [] p.final = 90 -> KeyOf(Name("tab"), {"shift"})
    [] p.final \in {73, 79} -> [focus |-> p.final = 73]
    [] p.final = 117 /\ p.prefix = 63 -> [kitty |-> Wire(p, 0)]
    [] p.final = 117 /\ p.prefix = 0 -> CsiUEvent(p)
    [] <<p.final, p.prefix>> \in {<<77, 0>>, <<77, 60>>, <<109, 60>>} -> MouseEvent(p)
    [] p.final = 82 /\ p.prefix = 0 -> [row |-> Less(Get(p, 0, 0), 1), col |-> Less(Get(p, 1, 0), 1)]
    [] p.final = 126 /\ p.prefix = 0 -> TildeEvent(p)
    [] OTHER -> NoEvent
AltKey(key) == IF key = NoEvent THEN NoEvent ELSE [key EXCEPT !.mods = @ \cup {"alt"}]
ItemEvents(item) ==
  CASE item.k = "text" -> FlattenSeq([k \in DOMAIN item.s |-> Event(CharKey(item.s[k]))])
    [] item.k = "ctl" -> IF item.b = ESC THEN <<KeyOf(Name("esc"), {})>> ELSE Event(CharKey(item.b))
    [] item.k = "escchar" -> Event(AltKey(CharKey(item.s[1])))
    [] item.k = "ss3" -> IF Ss3Key(item.b) = NoKey THEN <<>> ELSE <<KeyOf(Ss3Key(item.b), {})>>
    [] item.k = "csi" -> Event(CsiEvent(item.p))
    [] item.k = "x10" -> SelectSeq(<<MouseAt(Less(item.s[1], 32), Less(item.s[2], 33), Less(item.s[3], 33))>>,
                                   LAMBDA e : e.kind # NoKey)
    [] OTHER -> <<>>

\* A paste is collected up to its end; of what is not text in it, only new lines
\* and tabs are kept, and CR LF is one new line.
Pasted(item) == item.k = "csi" /\ item.p.prefix = 0 /\ item.p.final = 126 /\ Get(item.p, 0, 0) = 201
Pastes(item) == item.k = "csi" /\ item.p.prefix = 0 /\ item.p.final = 126 /\ Get(item.p, 0, 0) = 200
NotPasting == [on |-> FALSE, text |-> <<>>, cr |-> FALSE]
Decode(x, item) ==
  LET kept == CASE item.k = "text" -> item.s
                [] item.k = "ctl" /\ item.b = 13 -> <<10>>
                [] item.k = "ctl" /\ item.b = 10 -> IF x.paste.cr THEN <<>> ELSE <<10>>
                [] item.k = "ctl" /\ item.b = 9 -> <<9>>
                [] OTHER -> <<>>
  IN  CASE x.paste.on /\ Pasted(item) ->
             [paste |-> NotPasting, out |-> Append(x.out, [paste |-> x.paste.text])]
        [] x.paste.on /\ ~Pasted(item) ->
             [x EXCEPT !.paste.text = @ \o kept, !.paste.cr = item.k = "ctl" /\ item.b = 13]
        [] ~x.paste.on /\ Pastes(item) -> [x EXCEPT !.paste = [NotPasting EXCEPT !.on = TRUE]]
        [] OTHER -> [x EXCEPT !.out = @ \o ItemEvents(item)]
PasteSeq(text) == CsiSeq(<<>>, <<200>>, 126) \o text \o CsiSeq(<<>>, <<201>>, 126)

\* All the events of some bytes, the last ESC alone being a key of its own.
Decoded(bytes) ==
  LET items(s) == s.out \o Flush(s.sc).out
  IN  FoldLeft(Decode, [paste |-> NotPasting, out |-> <<>>], items(Scan(NewScanner("input"), bytes))).out
=============================================================================
