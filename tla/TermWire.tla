------------------------------ MODULE TermWire ------------------------------
(* Two ends of a terminal connection that both are this program: one writes  *)
(* attributes, keys, the mouse and pastes, the other reads the bytes.         *)
EXTENDS TermCodec

CONSTANTS Paints,    \* attributes written
          KeyEvents, \* keys pressed
          MouseEvents

VARIABLES brush,     \* the attributes the writer has set
          ink,       \* those the reader is left with
          sent,      \* input written last
          heard      \* what it was read as

wireVars == <<brush, ink, sent, heard>>

WireInit == brush = DefaultAttrs /\ ink = DefaultAttrs /\ sent = <<>> /\ heard = <<>>
Paint(to) ==
  brush' = to /\ ink' = Applied(ink, SgrSeq(brush, to)) /\ UNCHANGED <<sent, heard>>
Input(event, bytes) == sent' = <<event>> /\ heard' = Decoded(bytes) /\ UNCHANGED <<brush, ink>>
\* The shift of a capital or a mark is part of it.
Press(key) == LET n == Normal(key.code, key.mods)
              IN  Input(KeyOf(n[1], n[2]), KeyBytes(key, {"kitty"}))
\* The old encoding does not name the button that is let go.
Point(ev, enc) ==
  Input(IF enc = "default" /\ ev.kind[1] = "up" THEN [ev EXCEPT !.kind = <<"up", "left">>] ELSE ev,
        MouseBytes(ev, enc))
\* The lines of a paste are read as ending in LF.
Lines(text) == [k \in DOMAIN text |-> IF text[k] = 13 THEN 10 ELSE text[k]]
PasteText(text) == Input([paste |-> IF text = <<13, 10>> THEN <<10>> ELSE Lines(text)], PasteSeq(text))
WireNext == \/ sent = <<>> /\ \E a \in Paints : Paint(a)
            \/ sent = <<>> /\ brush = DefaultAttrs /\
                                       \/ \E k \in KeyEvents : Press(k)
                                       \/ \E ev \in MouseEvents, enc \in {"sgr", "default"} : Point(ev, enc)
                                       \/ \E a, b \in {9, 10, 13, 97} : PasteText(<<a, b>>)

-----------------------------------------------------------------------------
\* From any attributes to any others, in any order, the two ends stay together.
AttributesFollow == ink = brush

\* What a key, the mouse or a paste is written as is read as the same: "what dekit
\* understands and what it speaks stay symmetric" (comment of keys.rs).
InputSymmetric == heard = sent

\* What one end writes is what the other end reads.
WireFaithful == AttributesFollow /\ InputSymmetric
=============================================================================
