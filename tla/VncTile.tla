------------------------------ MODULE VncTile -------------------------------
(***************************************************************************)
(* What the encoders of the VNC target work on: a tile is a rectangle of   *)
(* colours, row by row, and a message is the sequence of fields that is    *)
(* written for it.  The order of the bytes within a field, and which three *)
(* of a pixel's four bytes are sent, are left out.                         *)
(***************************************************************************)
EXTENDS Integers, Sequences, SequencesExt

Tile(w, h, px) == [w |-> w, h |-> h, px |-> px]

Area(t) == t.w * t.h

\* The colour at column x and row y, from 0.
At(t, x, y) == t.px[y * t.w + x + 1]

Field(bytes, value) == [bytes |-> bytes, pixel |-> FALSE, value |-> value]
Byte(value) == Field(1, value)
Pixel(bytes, colour) == [bytes |-> bytes, pixel |-> TRUE, value |-> colour]
Pixels(bytes, colours) == [i \in DOMAIN colours |-> Pixel(bytes, colours[i])]

\* The length of a message in bytes.
Size(m) ==
  LET upto[i \in 0..Len(m)] == IF i = 0 THEN 0 ELSE upto[i - 1] + m[i].bytes
  IN upto[Len(m)]

ArePixels(m) == \A i \in DOMAIN m : m[i].pixel
AreNumbers(m) == \A i \in DOMAIN m : ~m[i].pixel
Values(m) == [i \in DOMAIN m |-> m[i].value]

\* What a viewer shows that was sent something it cannot read.
Garbled == <<>>
=============================================================================
