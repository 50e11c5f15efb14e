------------------------------- MODULE VtScan -------------------------------
(* The incremental scanner of terminal byte streams, in both directions     *)
(* (src/src/term/vt/scan.rs, params.rs).  Bytes are numbers.                 *)
EXTENDS Integers, Sequences, SequencesExt

CONSTANTS MaxParams,   \* parameters of a sequence: 32
          MaxValue,    \* where a parameter saturates: u32::MAX
          MaxBody      \* bytes of an unterminated body: 64 K

ESC == 27   BEL == 7   RI == 141   ST == 156   DEL == 127
Ascii == 32..126
Digit == 48..57   Semicolon == 59   Colon == 58   Marker == 60..63
Trail == 128..191              \* continuation bytes of UTF-8
Control(b) == b < 32 \/ b = DEL

\* The bytes a character takes by its first one, and whether they make one.
Need(b) == CASE b \in 194..223 -> 2 [] b \in 224..239 -> 3 [] b \in 240..244 -> 4 [] OTHER -> 0
ValidChar(s) ==
  /\ Len(s) = Need(s[1]) /\ \A k \in 2..Len(s) : s[k] \in Trail
  /\ s[1] = 224 => s[2] >= 160
  /\ s[1] = 237 => s[2] < 160
  /\ s[1] = 240 => s[2] >= 144
  /\ s[1] = 244 => s[2] < 144

-----------------------------------------------------------------------------
(* Parameters of a control sequence.                                        *)

NoParams == [prefix |-> 0, inter |-> 0, final |-> 0, list |-> <<>>, invalid |-> FALSE]
Param(v, given, sub) == [v |-> v, given |-> given, sub |-> sub]
Opened(p) == IF p.list = <<>> THEN <<Param(0, FALSE, FALSE)>> ELSE p.list
PushDigit(p, d) ==
  LET l == Opened(p)
      v == l[Len(l)].v * 10 + d
  IN  [p EXCEPT !.list = [l EXCEPT ![Len(l)].given = TRUE,
                                   ![Len(l)].v = IF v > MaxValue THEN MaxValue ELSE v]]
NextParam(p, sub) ==
  LET l == Opened(p)
  IN  IF Len(l) < MaxParams THEN [p EXCEPT !.list = Append(l, Param(0, FALSE, sub))]
      ELSE [p EXCEPT !.list = l, !.invalid = TRUE]
SetPrefix(p, b) ==
  IF p.list = <<>> /\ p.prefix = 0 THEN [p EXCEPT !.prefix = b] ELSE [p EXCEPT !.invalid = TRUE]
SetInter(p, b) == [p EXCEPT !.inter = IF @ = 0 THEN b ELSE 255]
Bare(p) == p.list = <<>> /\ p.prefix = 0 /\ p.inter = 0 /\ ~p.invalid

\* Parameters are asked for by their index from 0.
Given(p, i) == i < Len(p.list) /\ p.list[i+1].given
Get(p, i, default) == IF Given(p, i) THEN p.list[i+1].v ELSE default
IsSub(p, i) == i < Len(p.list) /\ p.list[i+1].sub

-----------------------------------------------------------------------------
(* The scanner.  A step takes some bytes and yields some items.             *)

NewScanner(mode) == [mode |-> mode, st |-> "ground", params |-> NoParams, inter |-> 0,
                     body |-> <<>>, stash |-> <<>>, need |-> 0]
Ctl(b) == [k |-> "ctl", b |-> b]
TextItem(s) == [k |-> "text", s |-> s]
Esc(inter, b) == [k |-> "esc", inter |-> inter, b |-> b]

Step(sc, taken, items) == [sc |-> sc, n |-> taken, out |-> items]
To(sc, st) == [sc EXCEPT !.st = st]

\* The longest run of whole characters at the start of the input.
RECURSIVE RunLength(_)
RunLength(in) ==
  IF in = <<>> THEN 0
  ELSE LET n == IF in[1] \in Ascii THEN 1 ELSE Need(in[1])
       IN  IF n = 0 \/ n > Len(in) \/ (n > 1 /\ ~ValidChar(SubSeq(in, 1, n))) THEN 0
           ELSE n + RunLength(SubSeq(in, n + 1, Len(in)))
\* A character cut by the end of the input waits for the rest of it.
\* Mutant: whatever follows a first byte is put aside.
Mutant_AnyTail(in) == Need(in[1]) > Len(in)
Partial(in) == Need(in[1]) > Len(in) /\ \A k \in 2..Len(in) : in[k] \in Trail
Ground(sc, in) ==
  LET b == in[1]
      run == RunLength(in)
  IN  CASE b = ESC -> Step(To(sc, "esc"), 1, <<>>)
        [] run > 0 -> Step(sc, run, <<TextItem(SubSeq(in, 1, run))>>)
        [] run = 0 /\ b >= 194 /\ Partial(in) ->
             Step([To(sc, "utf8") EXCEPT !.stash = in, !.need = Need(b)], Len(in), <<>>)
        [] run = 0 /\ (Control(b) \/ b = RI) /\ b # ESC -> Step(sc, 1, <<Ctl(b)>>)
        [] OTHER -> Step(sc, 1, <<>>)

\* What was put aside was no character: its first byte is dropped and the others
\* are read again, of which only the old RI means anything.
Dropped(s) == [k \in 1..Len(SelectSeq(Tail(s), LAMBDA x : x = RI)) |-> Ctl(RI)]
Utf8(sc, b) ==
  LET s == Append(sc.stash, b)
      done == [To(sc, "ground") EXCEPT !.stash = <<>>]
  IN  IF b \notin Trail THEN Step(done, 0, Dropped(sc.stash))
      ELSE IF Len(s) < sc.need THEN Step([sc EXCEPT !.stash = s], 1, <<>>)
      ELSE Step(done, 1, IF ~ValidChar(s) THEN Dropped(s)
                         ELSE IF sc.st = "escutf8" THEN <<[k |-> "escchar", s |-> s]>>
                         ELSE <<TextItem(s)>>)

Aborts(sc, b) == Step(To(sc, "ground"), 1, IF Control(b) THEN <<Ctl(b)>> ELSE <<>>)
EscOutput(sc, b) ==
  LET begin(st) == Step([To(sc, st) EXCEPT !.body = <<>>], 1, <<>>)
  IN  CASE b = ESC -> Step(sc, 1, <<>>)
        [] b \in 32..47 -> Step([To(sc, "inter") EXCEPT !.inter = b], 1, <<>>)
        [] b = 93 -> begin("osc")
        [] b = 80 -> begin("dcs")
        [] b \in {88, 94, 95} -> begin("skip")
        [] b \in 48..126 \ {80, 88, 93, 94, 95} -> Step(To(sc, "ground"), 1, <<Esc(0, b)>>)
        [] OTHER -> Aborts(sc, b)
EscInput(sc, b) ==
  CASE b = ESC -> Step(To(sc, "ground"), 1, <<Ctl(ESC)>>)
    [] b = 79 -> Step(To(sc, "ss3"), 1, <<>>)
    [] b < 128 /\ b \notin {ESC, 79} -> Step(To(sc, "ground"), 1, <<[k |-> "escchar", s |-> <<b>>]>>)
    [] OTHER -> IF Need(b) = 0 THEN Step(To(sc, "ground"), 1, <<>>)
                ELSE Step([To(sc, "escutf8") EXCEPT !.stash = <<b>>, !.need = Need(b)], 1, <<>>)
EscByte(sc, b) ==
  IF b = 91 THEN Step([To(sc, "csi") EXCEPT !.params = NoParams], 1, <<>>)
  ELSE IF sc.mode = "output" THEN EscOutput(sc, b) ELSE EscInput(sc, b)
EscInter(sc, b) ==
  CASE b \in 32..47 -> Step([sc EXCEPT !.inter = 255], 1, <<>>)
    [] b \in 48..126 -> Step(To(sc, "ground"), 1, <<Esc(sc.inter, b)>>)
    [] OTHER -> Aborts(sc, b)

Csi(sc, b) ==
  LET with(p) == Step([sc EXCEPT !.params = p], 1, <<>>)
      full == [sc.params EXCEPT !.final = b]
  IN  CASE b \in Digit -> with(PushDigit(sc.params, b - 48))
        [] b \in {Semicolon, Colon} -> with(NextParam(sc.params, b = Colon))
        [] b \in Marker -> with(SetPrefix(sc.params, b))
        [] b \in 32..47 -> with(SetInter(sc.params, b))
        [] b = 77 /\ sc.mode = "input" /\ Bare(sc.params) ->
             Step([To(sc, "x10") EXCEPT !.stash = <<>>], 1, <<>>)
        [] b \in 64..126 /\ ~(b = 77 /\ sc.mode = "input" /\ Bare(sc.params)) ->
             Step([To(sc, "ground") EXCEPT !.params = full], 1, <<[k |-> "csi", p |-> full]>>)
        [] b = ESC -> Step(To(sc, "esc"), 1, <<>>)
        [] b < 32 /\ b # ESC -> Step(sc, 1, <<Ctl(b)>>)
        [] b = DEL -> Step(sc, 1, <<>>)
        [] OTHER -> Step(To(sc, "ground"), 1, <<>>)

\* The body of OSC, DCS and of what is skipped.  One too long is given up, and
\* what follows is text again.
Push(sc, b) == IF Len(sc.body) >= MaxBody THEN [To(sc, "ground") EXCEPT !.body = <<>>]
               ELSE [sc EXCEPT !.body = Append(@, b)]
Ended(sc, kind) ==
  IF kind = "skip" THEN Step([To(sc, "ground") EXCEPT !.body = <<>>], 1, <<>>)
  ELSE Step(To(sc, "ground"), 1, <<[k |-> kind, s |-> sc.body]>>)
Body(sc, b) ==
  CASE sc.st = "osc" /\ b \in {BEL, ST} -> Ended(sc, "osc")
    [] b = ESC -> Step(To(sc, sc.st \o "esc"), 1, <<>>)
    [] OTHER -> Step(Push(sc, b), 1, <<>>)
\* An ESC in a body that does not end it is part of it, and the byte is read again.
BodyEsc(sc, kind, b) ==
  IF b = 92 THEN Ended(sc, kind) ELSE Step(Push(To(sc, kind), ESC), 0, <<>>)

X10(sc, b) ==
  IF Len(sc.stash) < 2 THEN Step([sc EXCEPT !.stash = Append(@, b)], 1, <<>>)
  ELSE Step([To(sc, "ground") EXCEPT !.stash = <<>>], 1, <<[k |-> "x10", s |-> Append(sc.stash, b)]>>)

ScanStep(sc, in) ==
  LET b == in[1]
  IN  CASE sc.st = "ground" -> Ground(sc, in)
        [] sc.st \in {"utf8", "escutf8"} -> Utf8(sc, b)
        [] sc.st = "esc" -> EscByte(sc, b)
        [] sc.st = "inter" -> EscInter(sc, b)
        [] sc.st = "csi" -> Csi(sc, b)
        [] sc.st \in {"osc", "dcs", "skip"} -> Body(sc, b)
        [] sc.st = "oscesc" -> BodyEsc(sc, "osc", b)
        [] sc.st = "dcsesc" -> BodyEsc(sc, "dcs", b)
        [] sc.st = "skipesc" -> BodyEsc(sc, "skip", b)
        [] sc.st = "ss3" -> Step(To(sc, "ground"), 1, <<[k |-> "ss3", b |-> b]>>)
        [] sc.st = "x10" -> X10(sc, b)

RECURSIVE Feed(_, _, _)
Feed(sc, in, out) ==
  LET after(s) == Feed(s.sc, SubSeq(in, s.n + 1, Len(in)), out \o s.out)
  IN  IF in = <<>> THEN [sc |-> sc, out |-> out] ELSE after(ScanStep(sc, in))
Scan(sc, in) == Feed(sc, in, <<>>)
Flush(sc) == IF sc.st = "esc" THEN [sc |-> To(sc, "ground"), out |-> <<Ctl(ESC)>>]
             ELSE [sc |-> sc, out |-> <<>>]
=============================================================================
