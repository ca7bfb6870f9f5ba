----------------------------- MODULE VncHextile -----------------------------
(***************************************************************************)
(* The encodings of the VNC target that cut a tile into boxes of one       *)
(* colour on a background: RRE, CoRRE and Hextile (display/vnc/rre.c,      *)
(* corre.c, hextile.c), and how ZlibHex takes the messages of Hextile      *)
(* apart (zlibhex.c).                                                      *)
(*                                                                         *)
(* The code has one copy of each function per pixel size; bpp, the bytes   *)
(* of a pixel, is a parameter here.                                        *)
(***************************************************************************)
EXTENDS VncTile, FiniteSets

(***************************************************************************)
(* The background: three slots count colours; a fourth colour takes the    *)
(* slot with the lowest count.                                             *)
(***************************************************************************)

Slots == 0..2

\* j comes before k when the slots are looked at from the last one used on.
Before(scan, j, k) == (j - scan.at + 3) % 3 <= (k - scan.at + 3) % 3

Holds(scan, j, c) == scan.count[j] > 0 /\ scan.colour[j] = c

SlotFor(scan, c) ==
  IF \E j \in Slots : Holds(scan, j, c) THEN CHOOSE j \in Slots : Holds(scan, j, c)
  ELSE CHOOSE j \in Slots : \A k \in Slots :
         \/ scan.count[j] < scan.count[k]
         \/ scan.count[j] = scan.count[k] /\ Before(scan, j, k)

Counted(scan, c, j) ==
  [colour |-> [scan.colour EXCEPT ![j] = c],
   count |-> [scan.count EXCEPT ![j] = IF scan.colour[j] = c THEN @ + 1 ELSE 1],
   at |-> j]

Tallied(scan, c) == Counted(scan, c, SlotFor(scan, c))

Scan(px) ==
  LET start == [colour |-> [j \in Slots |-> px[1]], count |-> [j \in Slots |-> 0],
                at |-> 0]
      upto[i \in 0..Len(px)] ==
        IF i = 0 THEN start ELSE Tallied(upto[i - 1], px[i])
  IN upto[Len(px)]

\* The first of the slots with the highest count.
Most(scan) ==
  CHOOSE j \in Slots : \A k \in Slots :
    \/ scan.count[j] > scan.count[k]
    \/ scan.count[j] = scan.count[k] /\ j <= k

Background(scan) == scan.colour[Most(scan)]

\* Only of two colours.
Foreground(scan) == scan.colour[1 - Most(scan)]

\* What the tile of a scan is made of, as the bits of a Hextile message.
Flags(scan) ==
  IF scan.count[1] = 0 THEN {"bg"}
  ELSE IF scan.count[2] = 0 THEN {"bg", "fg", "subrects"}
  ELSE {"bg", "subrects", "coloured"}

(***************************************************************************)
(* The boxes.                                                              *)
(***************************************************************************)

Box(x, y, w, h) == [x |-> x, y |-> y, w |-> w, h |-> h]

\* The pixel x, y is in the box.
InBox(x, y, b) == b.x <= x /\ x < b.x + b.w /\ b.y <= y /\ y < b.y + b.h

\* How far, up to n, P holds from 0 on.
Reach(n, P(_)) ==
  CHOOSE k \in 0..n : (\A j \in 0..k - 1 : P(j)) /\ (k < n => ~P(k))

\* A box from x, y on.  Its first row and its first column reach as far as
\* Edge holds; then the shorter side is cut down to the rows or columns that
\* have the colour of x, y all along.
BoxAt(t, x, y, Edge(_, _)) ==
  LET w == Reach(t.w - x, LAMBDA j : Edge(x + j, y))
      h == Reach(t.h - y, LAMBDA j : Edge(x, y + j))
      same(i, j) == At(t, x + i, y + j) = At(t, x, y)
  IN IF w >= h
     THEN Box(x, y, w, Reach(h, LAMBDA j : \A i \in 0..w - 1 : same(i, j)))
     ELSE Box(x, y, Reach(w, LAMBDA i : \A j \in 0..h - 1 : same(i, j)), h)

Painted(t, b, c) ==
  [t EXCEPT !.px = [i \in DOMAIN t.px |->
     IF InBox((i - 1) % t.w, (i - 1) \div t.w, b) THEN c ELSE t.px[i]]]

(***************************************************************************)
(* Hextile.                                                                *)
(***************************************************************************)

Cut(st, b, c, bg) ==
  [left |-> Painted(st.left, b, bg), boxes |-> Append(st.boxes, [box |-> b, colour |-> c])]

\* A box is painted over with the background once it has been found.
Rectified(st, x, y, bg) ==
  LET c == At(st.left, x, y) IN
  IF c = bg THEN st
  ELSE Cut(st, BoxAt(st.left, x, y, LAMBDA i, j : At(st.left, i, j) = c), c, bg)

Rectify(t, bg) ==
  LET upto[i \in 0..Area(t)] ==
        IF i = 0 THEN [left |-> t, boxes |-> <<>>]
        ELSE Rectified(upto[i - 1], (i - 1) % t.w, (i - 1) \div t.w, bg)
  IN upto[Area(t)].boxes

Bit(flag, flags, n) == IF flag \in flags THEN n ELSE 0

\* Mutant: the limit leaves no room for the two colours.
MostBoxesGreedy(t, bpp, flags) ==
  (Area(t) - 1) \div (2 + Bit("coloured", flags, bpp))

\* With more boxes than that the tile is sent raw.
MostBoxes(t, bpp, flags) ==
  (Area(t) - 1 - Bit("bg", flags, bpp) - Bit("fg", flags, bpp))
    \div (2 + Bit("coloured", flags, bpp))

FlagByte(flags) ==
  Byte(Bit("raw", flags, 1) + Bit("bg", flags, 2) + Bit("fg", flags, 4)
       + Bit("subrects", flags, 8) + Bit("coloured", flags, 16))

BoxFields(box, flags, bpp) ==
  (IF "coloured" \in flags THEN <<Pixel(bpp, box.colour)>> ELSE <<>>)
  \o <<Byte(box.box.x * 16 + box.box.y),
       Byte((box.box.w - 1) * 16 + box.box.h - 1)>>

\* The colours that the viewer has of the tiles before are not sent: bg and
\* fg are the sets of those it is known to have.
Unknown(scan, bg, fg) ==
  Flags(scan) \ ((IF Background(scan) \in bg THEN {"bg"} ELSE {})
                 \cup (IF "fg" \in Flags(scan) /\ Foreground(scan) \in fg
                       THEN {"fg"} ELSE {}))

KnownBg(scan, flags, bg) == IF "bg" \in flags THEN {Background(scan)} ELSE bg

\* Mutant: that a coloured box may change the viewer's foreground is forgotten.
KnownFgHopeful(scan, flags, fg) ==
  IF "fg" \in flags THEN {Foreground(scan)} ELSE fg

\* A viewer that paints coloured boxes may change its foreground.
KnownFg(scan, flags, fg) ==
  IF "fg" \in flags THEN {Foreground(scan)}
  ELSE IF "coloured" \in flags THEN {} ELSE fg

HextileFields(bpp, scan, flags, boxes) ==
  <<FlagByte(flags)>>
  \o (IF "bg" \in flags THEN <<Pixel(bpp, Background(scan))>> ELSE <<>>)
  \o (IF "fg" \in flags THEN <<Pixel(bpp, Foreground(scan))>> ELSE <<>>)
  \o (IF "subrects" \in flags
      THEN <<Byte(Len(boxes))>>
           \o FlattenSeq([i \in DOMAIN boxes |-> BoxFields(boxes[i], flags, bpp)])
      ELSE <<>>)

Coded(t, bpp, bg, fg, scan, flags, boxes) ==
  IF "subrects" \in flags /\ Len(boxes) > MostBoxes(t, bpp, flags)
  THEN [message |-> <<FlagByte({"raw"})>> \o Pixels(bpp, t.px), bg |-> bg, fg |-> fg]
  ELSE [message |-> HextileFields(bpp, scan, flags, boxes),
        bg |-> KnownBg(scan, flags, bg), fg |-> KnownFg(scan, flags, fg)]

Scanned(t, bpp, bg, fg, scan) ==
  Coded(t, bpp, bg, fg, scan, Unknown(scan, bg, fg), Rectify(t, Background(scan)))

\* The tile functions of Hextile.
HextileTile(t, bpp, bg, fg) == Scanned(t, bpp, bg, fg, Scan(t.px))

(***************************************************************************)
(* ZlibHex finds the end of each tile in the messages of Hextile.          *)
(***************************************************************************)

\* The byte at pos, from 0.
ByteAt(m, pos) ==
  m[CHOOSE i \in DOMAIN m : Size(SubSeq(m, 1, i - 1)) = pos].value

HasBit(m, b) == (m[1].value \div b) % 2 = 1

\* Mutant: the colours of coloured boxes are not counted.
TileSizeColourless(t, m, bpp) ==
  LET pos == 1 + (IF HasBit(m, 2) THEN bpp ELSE 0) + (IF HasBit(m, 4) THEN bpp ELSE 0)
  IN IF HasBit(m, 1) THEN 1 + Area(t) * bpp
     ELSE IF HasBit(m, 8) THEN pos + 1 + 2 * ByteAt(m, pos) ELSE pos

TileSize(t, m, bpp) ==
  LET pos == 1 + (IF HasBit(m, 2) THEN bpp ELSE 0) + (IF HasBit(m, 4) THEN bpp ELSE 0)
      each == 2 + (IF HasBit(m, 16) THEN bpp ELSE 0)
  IN IF HasBit(m, 1) THEN 1 + Area(t) * bpp
     ELSE IF HasBit(m, 8) THEN pos + 1 + each * ByteAt(m, pos) ELSE pos

(***************************************************************************)
(* RRE and CoRRE: place is the number of bytes of a coordinate.            *)
(***************************************************************************)

\* done: the rows of a column up to which boxes reach.
RreCut(st, b, c) ==
  [done |-> [x \in DOMAIN st.done |->
               IF b.x <= x /\ x < b.x + b.w THEN b.y + b.h ELSE st.done[x]],
   boxes |-> Append(st.boxes, [box |-> b, colour |-> c])]

RreRectified(t, st, x, y, bg) ==
  LET c == At(t, x, y) IN
  IF c = bg \/ st.done[x] > y THEN st
  ELSE RreCut(st, BoxAt(t, x, y, LAMBDA i, j : At(t, i, j) = c /\ st.done[i] <= j), c)

RreBoxes(t, bg) ==
  LET upto[i \in 0..Area(t)] ==
        IF i = 0 THEN [done |-> [x \in 0..t.w - 1 |-> 0], boxes |-> <<>>]
        ELSE RreRectified(t, upto[i - 1], (i - 1) % t.w, (i - 1) \div t.w, bg)
  IN upto[Area(t)].boxes

RreFields(box, bpp, place) ==
  <<Pixel(bpp, box.colour), Field(place, box.box.x), Field(place, box.box.y),
    Field(place, box.box.w), Field(place, box.box.h)>>

\* The header ends with the encoding, which is 0 for raw.
Header(encoding) == Field(12, encoding)

\* The limit most, which may be negative, is looked at when a box is found, and
\* in RRE before.
RreCoded(t, bpp, place, encoding, bg, boxes, most) ==
  IF (boxes # <<>> /\ Len(boxes) > most) \/ (encoding = 2 /\ most <= 0)
  THEN <<Header(0)>> \o Pixels(bpp, t.px)
  ELSE <<Header(encoding), Field(4, Len(boxes)), Pixel(bpp, bg)>>
       \o FlattenSeq([i \in DOMAIN boxes |-> RreFields(boxes[i], bpp, place)])

Rre(t, bpp, bg) ==
  RreCoded(t, bpp, 2, 2, bg, RreBoxes(t, bg), (Area(t) - 4 - bpp) \div (8 + bpp))

Corre(t, bpp, bg) ==
  RreCoded(t, bpp, 1, 4, bg, RreBoxes(t, bg), Area(t) \div (4 + bpp) - 1)

\* The tile functions of RRE and of CoRRE.
RreTile(t, bpp) == Rre(t, bpp, Background(Scan(t.px)))
CorreTile(t, bpp) == Corre(t, bpp, Background(Scan(t.px)))

(***************************************************************************)
(* The viewer, as the protocol has it (RFC 6143).                          *)
(***************************************************************************)

Blank(w, h, c) == Tile(w, h, [i \in 1..w * h |-> c])

\* What is shown once n boxes have been painted on t, the i-th of them in Read(i).
PaintAll(t, n, Read(_)) ==
  LET upto[i \in 0..n] ==
        IF i = 0 THEN t ELSE Painted(upto[i - 1], Read(i).box, Read(i).colour)
  IN upto[n].px

\* The colours that come before the boxes, or those of the tile before.
ReadBg(m, bg) == IF HasBit(m, 2) THEN m[2].value ELSE bg
ReadFg(m, fg) ==
  IF HasBit(m, 4) THEN m[IF HasBit(m, 2) THEN 3 ELSE 2].value ELSE fg

\* The field that says how many boxes there are.
CountAt(m) == 2 + (IF HasBit(m, 2) THEN 1 ELSE 0) + (IF HasBit(m, 4) THEN 1 ELSE 0)
Count(m) == IF HasBit(m, 8) THEN m[CountAt(m)].value ELSE 0
Each(m) == IF HasBit(m, 16) THEN 3 ELSE 2

ReadBox(m, i, fg) ==
  LET at == CountAt(m) + 1 + (i - 1) * Each(m)
      place == m[at + Each(m) - 2].value
      extent == m[at + Each(m) - 1].value
  IN [box |-> Box(place \div 16, place % 16, extent \div 16 + 1, (extent % 16) + 1),
      colour |-> IF HasBit(m, 16) THEN m[at].value ELSE fg]

HextileShown(w, h, m, bg, fg) ==
  IF HasBit(m, 1) THEN Values(Tail(m))
  ELSE IF Len(m) # CountAt(m) - 1 + (IF HasBit(m, 8) THEN 1 + Count(m) * Each(m) ELSE 0)
  THEN Garbled
  ELSE PaintAll(Blank(w, h, ReadBg(m, bg)), Count(m),
                LAMBDA i : ReadBox(m, i, ReadFg(m, fg)))

\* A viewer may take the colour of the last box for its foreground.
LastColours(m, fg) ==
  {ReadFg(m, fg)} \cup (IF HasBit(m, 16) /\ Count(m) > 0
                        THEN {ReadBox(m, Count(m), fg).colour} ELSE {})

RreShown(w, h, m) ==
  LET field(i, k) == m[3 + (i - 1) * 5 + k].value
      box(i) == [box |-> Box(field(i, 2), field(i, 3), field(i, 4), field(i, 5)),
                 colour |-> field(i, 1)]
  IN IF m[1].value = 0 THEN Values(Tail(m))
     ELSE IF Len(m) # 3 + 5 * m[2].value THEN Garbled
     ELSE PaintAll(Blank(w, h, m[3].value), m[2].value, box)
=============================================================================
