------------------------------ MODULE Linear4 -------------------------------
(***************************************************************************)
(* The renderer for frame buffers with two pixels in a byte, the left one  *)
(* in the high nibble (default/linear_4), the loops that draw, put and get *)
(* boxes with it (default/stubs/box.c), and the clipping they share        *)
(* (include/ggi/internal/ggi-dl.h).                                        *)
(*                                                                         *)
(* A renderer moves colours and never looks at them: a byte is a pair of   *)
(* colours, a colour is any number, and the frame buffers and the buffer   *)
(* of the application start with all colours different.                    *)
(***************************************************************************)
EXTENDS Integers

CONSTANTS
  VirtX, VirtY,  \* size of the virtual area
  Frames,        \* the frames of the mode, from 0
  Bytes,         \* size of the application's buffer
  Clips,         \* the clipping rectangles it sets
  Xs, Ys,        \* the places it draws at
  Ws, Hs,        \* the sizes it draws
  AlignedAcross, \* it copies from one frame to another also between places
                 \* that start in the same half of a byte
  MaxCalls       \* calls per behaviour

VARIABLES
  mem,    \* frame -> address -> byte
  buf,    \* the application's buffer, packed like the frame buffer
  call,   \* the call made last, with the settings it was made under
  calls   \* calls made
vars == <<mem, buf, call, calls>>

Stride == (VirtX + 1) \div 2
Size == Stride * VirtY

ASSUME SizeAssumption ==
  VirtX \in Nat \ {0} /\ VirtY \in Nat \ {0} /\ Frames \subseteq Nat
ASSUME ClipAssumption ==
  /\ Clips \subseteq [left : 0..VirtX, right : 0..VirtX, top : 0..VirtY, bottom : 0..VirtY]
  /\ \A k \in Clips : k.left <= k.right /\ k.top <= k.bottom
\* The application's buffer has room for its longest line.
ASSUME DrawAssumption ==
  /\ Xs \subseteq Int /\ Ys \subseteq Int /\ Ws \subseteq Nat /\ Hs \subseteq Nat
  /\ Bytes \in Nat /\ \A n \in Ws \cup Hs : n <= 2 * Bytes
  /\ AlignedAcross \in BOOLEAN /\ MaxCalls \in Nat

Foreground == -1
Leftover == -2   \* what a buffer holds that was never written

\* No call writes outside a frame or a buffer.
TypeOK ==
  /\ \A f \in Frames : mem[f] \in [0..Size - 1 -> [hi : Int, lo : Int]]
  /\ buf \in [0..Bytes - 1 -> [hi : Int, lo : Int]]
  /\ calls \in 0..MaxCalls

NoBox == [x |-> 0, y |-> 0, w |-> 0, h |-> 0]

Init ==
  /\ mem = [f \in Frames |-> [a \in 0..Size - 1 |->
              [hi |-> 2 * (f * Size + a), lo |-> 2 * (f * Size + a) + 1]]]
  /\ buf = [a \in 0..Bytes - 1 |-> [hi |-> 1000 + 2 * a, lo |-> 1001 + 2 * a]]
  /\ call = [op |-> "none"]
  /\ calls = 0

(***************************************************************************)
(* Bytes: m is a frame or a buffer.                                        *)
(***************************************************************************)

Odd(n) == n % 2 = 1

Address(x, y) == y * Stride + x \div 2

\* Writing outside m adds an address to it.
Byte(m, a) == IF a \in DOMAIN m THEN m[a] ELSE [hi |-> Leftover, lo |-> Leftover]

\* m after the bytes of new have been written.
Written(m, new) ==
  [a \in DOMAIN m \cup DOMAIN new |-> IF a \in DOMAIN new THEN new[a] ELSE m[a]]

SetHigh(m, a, v) == Written(m, [x \in {a} |-> [hi |-> v, lo |-> Byte(m, a).lo]])
SetLow(m, a, v) == Written(m, [x \in {a} |-> [hi |-> Byte(m, a).hi, lo |-> v]])

\* memcpy and memmove.
CopyBytes(m, to, s, from, n) ==
  Written(m, [a \in to..to + n - 1 |-> s[from + a - to]])

\* The ith colour of the buffer b.
Nibble(b, i) == IF Odd(i) THEN b[i \div 2].lo ELSE b[i \div 2].hi

SetNibble(b, i, v) ==
  IF Odd(i) THEN SetLow(b, i \div 2, v) ELSE SetHigh(b, i \div 2, v)

\* m after Step(m, 0), Step(., 1), ... Step(., n - 1).
Repeat(m, n, Step(_, _)) ==
  LET after[i \in 0..n] == IF i = 0 THEN m ELSE Step(after[i - 1], i - 1)
  IN after[n]

(***************************************************************************)
(* Clipping, one dimension at a time: of a line of len pixels at pos, what *)
(* lies in lo..hi - 1, and the pixels that are skipped before it.          *)
(***************************************************************************)

Clipped(pos, len, lo, hi) ==
  LET skip == IF pos < lo THEN lo - pos ELSE 0
      start == pos + skip
      left == len - skip
  IN [pos |-> start, skip |-> skip,
      len |-> IF start + left > hi THEN hi - start ELSE left]

\* The same for a copy from src to pos: the source must lie in 0..size - 1.
CopyClipped(src, pos, len, lo, hi, size) ==
  LET d == IF -src > lo - pos THEN -src ELSE lo - pos
      skip == IF d > 0 THEN d ELSE 0
      w1 == IF pos + len > hi THEN hi - (pos + skip) ELSE len - skip
      w2 == IF src + skip + w1 > size THEN size - (src + skip) ELSE w1
  IN [src |-> src + skip, pos |-> pos + skip, len |-> w2]

(***************************************************************************)
(* Drawing: m is the write frame.                                          *)
(***************************************************************************)

DrawPixel(m, k, x, y) ==
  IF x < k.left \/ y < k.top \/ x >= k.right \/ y >= k.bottom THEN m
  ELSE SetNibble(m, 2 * y * Stride + x, Foreground)

\* Mutant: the dangling left pixel is not taken off the width.
DrawHLineTooLong(m, x, y, w) ==
  LET first == x % 2
      a == Address(x, y) + first
      n == w \div 2
      left == IF first = 1 THEN SetLow(m, a - 1, Foreground) ELSE m
      middle == Written(left, [i \in a..a + n - 1 |->
                                 [hi |-> Foreground, lo |-> Foreground]])
  IN IF Odd(w) THEN SetHigh(middle, a + n, Foreground) ELSE middle

\* A dangling left pixel, whole bytes, a dangling right pixel; w > 0.
DrawHLineNC(m, x, y, w) ==
  LET first == x % 2
      a == Address(x, y) + first
      n == (w - first) \div 2
      left == IF first = 1 THEN SetLow(m, a - 1, Foreground) ELSE m
      middle == Written(left, [i \in a..a + n - 1 |->
                                 [hi |-> Foreground, lo |-> Foreground]])
  IN IF Odd(w - first) THEN SetHigh(middle, a + n, Foreground) ELSE middle

DrawHLine(m, k, x, y, w) ==
  LET c == Clipped(x, w, k.left, k.right) IN
  IF y < k.top \/ y >= k.bottom \/ c.len <= 0 THEN m
  ELSE DrawHLineNC(m, c.pos, y, c.len)

DrawVLine(m, k, x, y, h) ==
  LET c == Clipped(y, h, k.top, k.bottom) IN
  IF x < k.left \/ x >= k.right \/ c.len <= 0 THEN m
  ELSE Repeat(m, c.len, LAMBDA n, i :
         SetNibble(n, 2 * (c.pos + i) * Stride + x, Foreground))

DrawBox(m, k, b) ==
  LET cx == Clipped(b.x, b.w, k.left, k.right)
      cy == Clipped(b.y, b.h, k.top, k.bottom)
  IN IF cx.len <= 0 \/ cy.len <= 0 THEN m
     ELSE Repeat(m, cy.len, LAMBDA n, i :
            DrawHLineNC(n, cx.pos, cy.pos + i, cx.len))

(***************************************************************************)
(* Putting: from the buffer b, whose byte s is the first of the line.      *)
(***************************************************************************)

\* w pixels from the start of the byte s to the start of the byte a.
PutAligned(m, a, b, s, w) ==
  LET n == w \div 2
      copied == CopyBytes(m, a, b, s, n)
  IN IF Odd(w) THEN SetHigh(copied, a + n, b[s + n].hi) ELSE copied

\* w pixels from the start of the byte s to the middle of the byte a: the code
\* shifts them through 12 bits.
PutShifted(m, a, b, s, w) ==
  LET n == (w + 1) \div 2
      shifted == Written(m, [i \in a..a + n - 1 |->
                   [hi |-> IF i = a THEN m[a].hi ELSE b[s + i - a - 1].lo,
                    lo |-> b[s + i - a].hi]])
  IN IF w = 0 THEN m
     ELSE IF Odd(w) THEN shifted ELSE SetHigh(shifted, a + n, b[s + n - 1].lo)

PutHLine(m, k, x, y, w, b, start) ==
  LET c == Clipped(x, w, k.left, k.right)
      a == Address(c.pos, y)
      s == start + c.skip \div 2
      half == Odd(c.skip)
  IN IF y < k.top \/ y >= k.bottom \/ c.len <= 0 THEN m
     ELSE IF half /\ Odd(c.pos)
          THEN PutAligned(SetLow(m, a, b[s].lo), a + 1, b, s + 1, c.len - 1)
     ELSE IF half
          THEN PutShifted(SetHigh(m, a, b[s].lo), a, b, s + 1, c.len - 1)
     ELSE IF Odd(c.pos) THEN PutShifted(m, a, b, s, c.len)
     ELSE PutAligned(m, a, b, s, c.len)

PutVLine(m, k, x, y, h, b) ==
  LET c == Clipped(y, h, k.top, k.bottom) IN
  IF x < k.left \/ x >= k.right \/ c.len <= 0 THEN m
  ELSE Repeat(m, c.len, LAMBDA n, i :
         SetNibble(n, 2 * (c.pos + i) * Stride + x, Nibble(b, c.skip + i)))

RowBytes(w) == (w + 1) \div 2

PutBox(m, k, p, b) ==
  LET c == Clipped(p.y, p.h, k.top, k.bottom) IN
  IF c.len < 0 \/ p.x >= k.right \/ p.x + p.w <= k.left THEN m
  ELSE Repeat(m, c.len, LAMBDA n, i :
         PutHLine(n, k, p.x, c.pos + i, p.w, b, (c.skip + i) * RowBytes(p.w)))

(***************************************************************************)
(* Getting: m is the read frame.                                           *)
(***************************************************************************)

\* w pixels from the middle of the byte a to the start of the byte s.
GetShifted(b, s, m, a, w) ==
  LET n == w \div 2
      shifted == Written(b, [i \in s..s + n - 1 |->
                   [hi |-> m[a + i - s].lo, lo |-> m[a + i - s + 1].hi]])
  IN IF Odd(w) THEN SetHigh(shifted, s + n, m[a + n].lo) ELSE shifted

GetHLine(m, x, y, w, b, start) ==
  LET c == Clipped(x, w, 0, VirtX)
      a == Address(c.pos, y)
      s == start + c.skip \div 2
  IN IF y < 0 \/ y >= VirtY \/ c.len <= 0 THEN b
     ELSE IF Odd(c.skip)
          THEN GetShifted(SetLow(b, s, m[a].hi), s + 1, m, a, c.len - 1)
     ELSE IF Odd(c.pos) THEN GetShifted(b, s, m, a, c.len)
     ELSE PutAligned(b, s, m, a, c.len)

GetVLine(m, x, y, h, b) ==
  LET c == Clipped(y, h, 0, VirtY) IN
  IF x < 0 \/ x >= VirtX \/ c.len <= 0 THEN b
  ELSE Repeat(b, c.len, LAMBDA n, i :
         SetNibble(n, c.skip + i, Nibble(m, 2 * (c.pos + i) * Stride + x)))

GetBox(m, p, b) ==
  LET c == Clipped(p.y, p.h, 0, VirtY) IN
  IF c.len <= 0 THEN b
  ELSE Repeat(b, c.len, LAMBDA n, i :
         GetHLine(m, p.x, c.pos + i, p.w, n, (c.skip + i) * RowBytes(p.w)))

(***************************************************************************)
(* Copying, after clipping, w x h pixels at x, y to nx, ny.                *)
(***************************************************************************)

\* Mutant: the rows are always copied from the top down.
RowFromTop(h, ny, y, i) == i

\* The ith row that is copied.
Row(h, ny, y, i) == IF ny > y THEN h - 1 - i ELSE i

\* Source and destination start in the same half of a byte: bytes are moved,
\* and a dangling pixel before and after them, all within the write frame.
CopyAligned(m, x, y, w, h, nx, ny) ==
  LET first == x % 2
      last == (x + w) % 2
      n == (w - first - last) \div 2
      src(r) == Address(x, y + r) + first
      dst(r) == Address(nx, ny + r) + first
      left(f, r) == IF first = 1 THEN SetLow(f, dst(r) - 1, f[src(r) - 1].lo) ELSE f
      right(f, r) == IF last = 1 THEN SetHigh(f, dst(r) + n, f[src(r) + n].hi) ELSE f
      middle(f, r) == CopyBytes(f, dst(r), f, src(r), n)
      row(f, r) == IF nx > x THEN left(middle(right(f, r), r), r)
                             ELSE right(middle(left(f, r), r), r)
  IN Repeat(m, h, LAMBDA f, i : row(f, Row(h, ny, y, i)))

\* Otherwise each row is read from the read frame into a buffer, and put.
CopyByRows(rd, wr, k, x, y, w, h, nx, ny) ==
  LET fresh == [a \in 0..RowBytes(w) - 1 |-> [hi |-> Leftover, lo |-> Leftover]]
      from(f) == IF rd = wr THEN f ELSE mem[rd]
      row(f, r) == PutHLine(f, k, nx, ny + r, w,
                            GetHLine(from(f), x, y + r, w, fresh, 0), 0)
  IN Repeat(mem[wr], h, LAMBDA f, i : row(f, Row(h, ny, y, i)))

CopyBox(rd, wr, k, b, to) ==
  LET cx == CopyClipped(b.x, to.x, b.w, k.left, k.right, VirtX)
      cy == CopyClipped(b.y, to.y, b.h, k.top, k.bottom, VirtY)
  IN IF cx.len <= 0 \/ cy.len <= 0 THEN mem[wr]
     ELSE IF cx.src % 2 = cx.pos % 2
          THEN CopyAligned(mem[wr], cx.src, cy.src, cx.len, cy.len, cx.pos, cy.pos)
     ELSE CopyByRows(rd, wr, k, cx.src, cy.src, cx.len, cy.len, cx.pos, cy.pos)

(***************************************************************************)
(* The application's calls.                                                *)
(***************************************************************************)

Box(x, y, w, h) == [x |-> x, y |-> y, w |-> w, h |-> h]

Called(op, k, rd, wr, box, to, pitch) ==
  /\ calls' = calls + 1
  /\ call' = [op |-> op, clip |-> k, rd |-> rd, wr |-> wr, box |-> box,
              to |-> to, pitch |-> pitch]

Draws(k, wr, b, frame) ==
  /\ Called("draw", k, wr, wr, b, b, 0)
  /\ mem' = [mem EXCEPT ![wr] = frame]
  /\ UNCHANGED buf

\* The whole box has to be in the buffer.
Fits(b) == RowBytes(b.w) * b.h <= Bytes

Puts(k, wr, b, pitch, frame) ==
  /\ Called("put", k, wr, wr, b, b, pitch)
  /\ mem' = [mem EXCEPT ![wr] = frame]
  /\ UNCHANGED buf

Gets(k, rd, b, pitch, buffer) ==
  /\ Called("get", k, rd, rd, b, b, pitch)
  /\ buf' = buffer
  /\ UNCHANGED mem

Copies(k, rd, wr, b, to) ==
  /\ Called("copy", k, rd, wr, b, to, 0)
  /\ mem' = [mem EXCEPT ![wr] = CopyBox(rd, wr, k, b, to)]
  /\ UNCHANGED buf

Next ==
  /\ calls < MaxCalls
  /\ \E k \in Clips, f \in Frames, x \in Xs, y \in Ys :
       \/ Draws(k, f, Box(x, y, 1, 1), DrawPixel(mem[f], k, x, y))
       \/ \E w \in Ws :
            \/ Draws(k, f, Box(x, y, w, 1), DrawHLine(mem[f], k, x, y, w))
            \/ Puts(k, f, Box(x, y, w, 1), w, PutHLine(mem[f], k, x, y, w, buf, 0))
            \/ Gets(k, f, Box(x, y, w, 1), w, GetHLine(mem[f], x, y, w, buf, 0))
       \/ \E h \in Hs :
            \/ Draws(k, f, Box(x, y, 1, h), DrawVLine(mem[f], k, x, y, h))
            \/ Puts(k, f, Box(x, y, 1, h), 1, PutVLine(mem[f], k, x, y, h, buf))
            \/ Gets(k, f, Box(x, y, 1, h), 1, GetVLine(mem[f], x, y, h, buf))
       \/ \E w \in Ws, h \in Hs :
            LET b == Box(x, y, w, h) IN
            \/ Draws(k, f, b, DrawBox(mem[f], k, b))
            \/ Fits(b) /\ Puts(k, f, b, 2 * RowBytes(w), PutBox(mem[f], k, b, buf))
            \/ Fits(b) /\ Gets(k, f, b, 2 * RowBytes(w), GetBox(mem[f], b, buf))
            \/ \E wr \in Frames, nx \in Xs, ny \in Ys :
                 /\ f = wr \/ AlignedAcross \/ Odd(nx - x)
                 /\ Copies(k, f, wr, b, [x |-> nx, y |-> ny])

Spec == Init /\ [][Next]_vars
-----------------------------------------------------------------------------
\* The frame buffers and the buffer as pixels.
Picture ==
  [f \in Frames |-> [p \in (0..VirtX - 1) \X (0..VirtY - 1) |->
                       Nibble(mem[f], 2 * p[2] * Stride + p[1])]]
Line == [i \in 0..2 * Bytes - 1 |-> Nibble(buf, i)]

Screen == INSTANCE Canvas WITH
  VirtX <- VirtX, VirtY <- VirtY, Foreground <- Foreground,
  picture <- Picture, line <- Line, call <- call

\* Every call changes the pixels it should, wherever they are in their bytes
\* and however source and destination overlap, and no other.  The code fails
\* it where AlignedAcross: CopyAligned never looks at the read frame.
ScreenSpec == Screen!Spec
=============================================================================
