------------------------------ MODULE VncTrle -------------------------------
(***************************************************************************)
(* The encodings TRLE and ZRLE of the VNC target (display/vnc/trle.c and   *)
(* zrle.c).  A tile is sent raw, as runs, or as indices into a palette of  *)
(* its colours, packed or as runs.  In TRLE the palette of the tile before *)
(* may be used again, without being sent.                                  *)
(*                                                                         *)
(* The code has one copy of each function per pixel size; cbpp, the bytes  *)
(* a pixel is sent in, is a parameter here.                                *)
(***************************************************************************)
EXTENDS VncTile, FiniteSets

CONSTANTS
  MaxPalette,  \* colours of a palette (127 in the code)
  MaxByte      \* the highest value in a byte of a run's length (255)

Raw == 0
Solid == 1
PackedMem == 127
Rle == 128
PrleBase == 128
PrleMem == 129

Remembering == {PackedMem, PrleMem}

(***************************************************************************)
(* The scan.                                                               *)
(***************************************************************************)

\* The colours of a tile in the order they appear in: one more than a palette
\* may have stands for "too many".
Seen(palette, c) ==
  IF Len(palette) > MaxPalette \/ Contains(palette, c)
  THEN palette ELSE Append(palette, c)

PaletteOf(px) ==
  LET upto[i \in 0..Len(px)] == IF i = 0 THEN <<>> ELSE Seen(upto[i - 1], px[i])
  IN upto[Len(px)]

Grown(runs, c) ==
  IF runs # <<>> /\ Last(runs).colour = c
  THEN [runs EXCEPT ![Len(runs)].length = @ + 1]
  ELSE Append(runs, [colour |-> c, length |-> 1])

Runs(px) ==
  LET upto[i \in 0..Len(px)] == IF i = 0 THEN <<>> ELSE Grown(upto[i - 1], px[i])
  IN upto[Len(px)]

\* Mutant: only the tile's first colour is looked up in the old palette.
KnownFirst(old, palette) == IF Contains(old, palette[1]) THEN old ELSE <<>>

\* The remembered palette, if the tile can do with it.
Known(old, palette) ==
  IF \A i \in DOMAIN palette : Contains(old, palette[i]) THEN old ELSE <<>>

(***************************************************************************)
(* The choice of a subencoding, by an estimate of the bytes.               *)
(***************************************************************************)

PackedBits(colors) == IF colors = 2 THEN 1 ELSE IF colors <= 4 THEN 2 ELSE 4
PerByte(colors) == 8 \div PackedBits(colors)
PackedSize(t, colors) == ((t.w + PerByte(colors) - 1) \div PerByte(colors)) * t.h

Single(runs) == Cardinality({i \in DOMAIN runs : runs[i].length = 1})
Multi(runs) == Len(runs) - Single(runs)

Choice(sub, possible, bytes) == [sub |-> sub, possible |-> possible, bytes |-> bytes]

AsRaw(t, cbpp) == Choice(Raw, TRUE, Area(t) * cbpp)

AsRuns(cbpp, single, multi) ==
  Choice(Rle, TRUE, (1 + cbpp) * single + cbpp * multi + (9 * multi) \div 4)

\* header: the bytes of the palette, if it is sent.
AsPaletteRuns(sub, colors, header, single, multi) ==
  Choice(sub, colors \in 2..MaxPalette, header + single + (9 * multi) \div 4)

AsPacked(t, sub, colors, header) ==
  Choice(sub, colors \in 2..16, header + PackedSize(t, colors))

\* A later choice has to be better than all the earlier ones.
Best(choices) ==
  choices[CHOOSE i \in DOMAIN choices :
            /\ choices[i].possible
            /\ \A j \in DOMAIN choices : choices[j].possible =>
                 \/ choices[i].bytes < choices[j].bytes
                 \/ choices[i].bytes = choices[j].bytes /\ i <= j].sub

\* Of TRLE: old is the number of colours remembered, colors that of the tile's.
SelectSubencoding(t, cbpp, old, colors, single, multi) ==
  IF colors = 1 THEN Solid
  ELSE Best(<<AsRaw(t, cbpp),
              AsPaletteRuns(PrleMem, old, 0, single, multi),
              AsPaletteRuns(PrleBase + colors, colors, cbpp * colors, single, multi),
              AsRuns(cbpp, single, multi),
              AsPacked(t, PackedMem, old, 0),
              AsPacked(t, colors, colors, cbpp * colors)>>)

\* Of ZRLE.
SelectFresh(t, cbpp, colors, single, multi) ==
  IF colors = 1 THEN Solid
  ELSE Best(<<AsRaw(t, cbpp),
              AsPaletteRuns(PrleBase + colors, colors, cbpp * colors, single, multi),
              AsRuns(cbpp, single, multi),
              AsPacked(t, colors, colors, cbpp * colors)>>)

(***************************************************************************)
(* What is written.                                                        *)
(***************************************************************************)

\* One less than n, as bytes to be summed up: only the last is below MaxByte.
RunLength(n) ==
  [i \in 1..(n - 1) \div MaxByte |-> Byte(MaxByte)] \o <<Byte((n - 1) % MaxByte)>>

PlainRuns(runs, cbpp) ==
  FlattenSeq([i \in DOMAIN runs |->
    <<Pixel(cbpp, runs[i].colour)>> \o RunLength(runs[i].length)])

Index(palette, c) == SelectInSeq(palette, LAMBDA v : v = c) - 1

IndexRun(index, n) ==
  IF n = 1 THEN <<Byte(index)>> ELSE <<Byte(128 + index)>> \o RunLength(n)

PaletteRuns(runs, palette) ==
  FlattenSeq([i \in DOMAIN runs |->
    IndexRun(Index(palette, runs[i].colour), runs[i].length)])

\* The indices of the pixels from x on in row y, the first in the high bits.
Packed(t, palette, x, y, bits) ==
  LET index(k) == IF x + k < t.w THEN Index(palette, At(t, x + k, y)) ELSE 0
      upto[k \in 0..8 \div bits] ==
        IF k = 0 THEN 0 ELSE upto[k - 1] * 2^bits + index(k - 1)
  IN Byte(upto[8 \div bits])

\* Every row begins a byte.
PackedPalette(t, palette) ==
  LET per == PerByte(Len(palette))
      row == (t.w + per - 1) \div per
  IN [i \in 1..row * t.h |->
        Packed(t, palette, ((i - 1) % row) * per, (i - 1) \div row,
               PackedBits(Len(palette)))]

\* Of a subencoding with the palette.
Indices(t, runs, sub, palette) ==
  IF sub = Solid THEN <<>>
  ELSE IF sub > Rle THEN PaletteRuns(runs, palette)
  ELSE PackedPalette(t, palette)

\* sent: the palette as it is sent.
Body(t, cbpp, runs, sub, palette, sent) ==
  IF sub = Raw THEN Pixels(cbpp, t.px)
  ELSE IF sub = Rle THEN PlainRuns(runs, cbpp)
  ELSE Pixels(cbpp, sent) \o Indices(t, runs, sub, palette)

\* The palette that is remembered.
Left(sub, palette) == IF sub \in {Raw, Rle, Solid} THEN <<>> ELSE palette

\* A palette that the viewer remembers is not sent: but with pixels of four
\* bytes the code sends it all the same.
Sent(sub, cbpp, palette) ==
  IF sub \in Remembering /\ cbpp # 4 THEN <<>> ELSE palette

Coded(t, cbpp, runs, sub, palette) ==
  [message |-> <<Byte(sub)>> \o Body(t, cbpp, runs, sub, palette,
                                     Sent(sub, cbpp, palette)),
   palette |-> Left(sub, palette)]

Chosen(t, cbpp, runs, sub, known, palette) ==
  Coded(t, cbpp, runs, sub, IF sub \in Remembering THEN known ELSE palette)

Scanned(t, cbpp, runs, known, palette) ==
  Chosen(t, cbpp, runs,
         SelectSubencoding(t, cbpp, Len(known), Len(palette), Single(runs),
                           Multi(runs)),
         known, palette)

Recoded(t, cbpp, old, palette) ==
  Scanned(t, cbpp, Runs(t.px), Known(old, palette), palette)

\* The tile functions of TRLE; old is the palette remembered.
TrleTile(t, cbpp, old) == Recoded(t, cbpp, old, PaletteOf(t.px))

Fresh(t, cbpp, runs, palette) ==
  Coded(t, cbpp, runs,
        SelectFresh(t, cbpp, Len(palette), Single(runs), Multi(runs)), palette)

\* The tile functions of ZRLE.
ZrleTile(t, cbpp) == Fresh(t, cbpp, Runs(t.px), PaletteOf(t.px)).message

(***************************************************************************)
(* The viewer, as the protocol has it (RFC 6143).                          *)
(***************************************************************************)

SubOf(m) == m[1].value

\* How many colours of a palette the message holds.
Colors(sub) ==
  IF sub \in 1..16 THEN sub ELSE IF sub > PrleMem THEN sub - PrleBase ELSE 0

PaletteIn(m) == Values(SubSeq(m, 2, 1 + Colors(SubOf(m))))
Rest(m) == SubSeq(m, 2 + Colors(SubOf(m)), Len(m))

\* The palette the viewer reads the message with, and remembers after it.
Viewed(m, memory) == IF SubOf(m) \in Remembering THEN memory ELSE PaletteIn(m)
Kept(m, memory) == IF SubOf(m) \in {Raw, Solid, Rle} THEN <<>> ELSE Viewed(m, memory)

Repeat(c, n) == [i \in 1..n |-> c]

\* One more field of a sequence of runs: out has been read, and while
\* counting the run of colour goes on.
Read(st, field, palette) ==
  IF st.counting
  THEN IF field.pixel THEN [st EXCEPT !.ok = FALSE]
       ELSE IF field.value = MaxByte
       THEN [st EXCEPT !.out = @ \o Repeat(st.colour, MaxByte)]
       ELSE [st EXCEPT !.out = @ \o Repeat(st.colour, field.value + 1),
                       !.counting = FALSE]
  ELSE IF palette = <<>>
  THEN [st EXCEPT !.ok = @ /\ field.pixel, !.colour = field.value, !.counting = TRUE]
  ELSE IF field.pixel \/ field.value % 128 >= Len(palette)
  THEN [st EXCEPT !.ok = FALSE]
  ELSE IF field.value < 128
  THEN [st EXCEPT !.out = Append(@, palette[field.value + 1])]
  ELSE [st EXCEPT !.colour = palette[field.value - 127], !.counting = TRUE]

ReadRuns(rest, palette) ==
  LET start == [out |-> <<>>, ok |-> TRUE, counting |-> FALSE, colour |-> 0]
      upto[i \in 0..Len(rest)] ==
        IF i = 0 THEN start ELSE Read(upto[i - 1], rest[i], palette)
      end(st) == IF st.ok /\ ~st.counting THEN st.out ELSE Garbled
  IN end(upto[Len(rest)])

ReadPacked(w, h, rest, palette) ==
  LET bits == PackedBits(Len(palette))
      per == 8 \div bits
      row == (w + per - 1) \div per
      index(x, y) ==
        (rest[y * row + x \div per + 1].value \div 2^(8 - bits * ((x % per) + 1))) % 2^bits
      colour(k) == IF k < Len(palette) THEN palette[k + 1] ELSE -1
  IN IF AreNumbers(rest) /\ Len(rest) = row * h
     THEN [i \in 1..w * h |-> colour(index((i - 1) % w, (i - 1) \div w))]
     ELSE Garbled

Shown(w, h, m, memory) ==
  LET sub == SubOf(m)
      palette == Viewed(m, memory)
  IN IF sub = Raw THEN IF ArePixels(Rest(m)) THEN Values(Rest(m)) ELSE Garbled
     ELSE IF sub = Rle THEN ReadRuns(Rest(m), <<>>)
     ELSE IF sub = Solid
     THEN IF Rest(m) = <<>> THEN Repeat(palette[1], w * h) ELSE Garbled
     ELSE IF palette = <<>> THEN Garbled
     ELSE IF sub > Rle THEN ReadRuns(Rest(m), palette)
     ELSE ReadPacked(w, h, Rest(m), palette)
=============================================================================
