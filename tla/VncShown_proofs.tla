--------------------------- MODULE VncShown_proofs --------------------------
(***************************************************************************)
(* The viewer shows every tile as it was drawn: for all tiles of integer   *)
(* colours, all formats and every order of tiles, whatever the encoders    *)
(* choose, but for TRLE with pixels of four bytes.                         *)
(*                                                                         *)
(* For each encoding, what it writes is followed into the loop that reads  *)
(* it: the boxes of RRE and Hextile are cut so that painting them over the *)
(* background gives the pixels back (Pictured, PictureShows), the runs     *)
(* spell the pixels out (Spells, RunsRead), and the indices are taken from *)
(* a palette that has all the colours (HasAll, PackedRead).                *)
(***************************************************************************)
EXTENDS VncEncode_proofs

-----------------------------------------------------------------------------
(***************************************************************************)
(* Rows and columns.                                                       *)
(***************************************************************************)

\* Division leaves a remainder.
LEMMA Division ==
  ASSUME NEW n \in Nat, NEW w \in Nat \ {0}
  PROVE  /\ n \div w \in Nat /\ n % w \in 0..w - 1
         /\ n = (n \div w) * w + (n % w)
<1>1. n \div w \in Int /\ n \div w >= 0
  OBVIOUS
<1>2. n % w \in Int
  OBVIOUS
<1>3. n % w >= 0
  OBVIOUS
<1>4. n % w < w
  OBVIOUS
<1>5. n = w * (n \div w) + (n % w)
  OBVIOUS
<1>6. w * (n \div w) = (n \div w) * w
  BY <1>1
<1> QED BY <1>1, <1>2, <1>3, <1>4, <1>5, <1>6

\* And only one.
LEMMA Quotient ==
  ASSUME NEW w \in Nat \ {0}, NEW y \in Nat, NEW x \in 0..w - 1
  PROVE  (y * w + x) \div w = y /\ (y * w + x) % w = x
<1> DEFINE n == y * w + x
           q == n \div w
           r == n % w
<1>1. y * w \in Nat
  BY Products
<1>2. n \in Nat
  BY <1>1
<1>3. q \in Nat /\ r \in 0..w - 1 /\ n = q * w + r
  BY <1>2, Division
<1>4. q * w + r = y * w + x
  BY <1>3
<1> HIDE DEF q, r, n
<1>5. q * w \in Nat
  BY <1>3, Products
<1>6. ASSUME NEW a \in Nat, NEW b \in Nat, a < b PROVE a * w + w <= b * w
  <2>1. (a + 1) * w <= b * w
    BY <1>6, Products
  <2>2. (a + 1) * w = a * w + w
    OBVIOUS
  <2> QED BY <2>1, <2>2
<1>7. ~(q < y)
  <2> SUFFICES ASSUME q < y PROVE FALSE
    OBVIOUS
  <2>1. q * w + w <= y * w
    BY <1>3, <1>6
  <2> QED BY <1>1, <1>3, <1>4, <1>5, <2>1
<1>8. ~(y < q)
  <2> SUFFICES ASSUME y < q PROVE FALSE
    OBVIOUS
  <2>1. y * w + w <= q * w
    BY <1>3, <1>6
  <2> QED BY <1>1, <1>3, <1>4, <1>5, <2>1
<1>9. q = y
  BY <1>3, <1>7, <1>8
<1>10. r = x
  BY <1>1, <1>3, <1>4, <1>9
<1> QED BY <1>9, <1>10 DEF q, r, n

\* How many pixels there are.
Cells(w, h) == w * h

\* That is a number.
LEMMA CellsIs ==
  ASSUME NEW w \in Nat, NEW h \in Nat
  PROVE  Cells(w, h) \in Nat
BY Products DEF Cells

\* The column and the row of the i-th pixel.
X(i, w) == (i - 1) % w
Y(i, w) == (i - 1) \div w

\* They are within the tile, and no other pixel has them.
LEMMA Place ==
  ASSUME NEW w \in Nat \ {0}, NEW h \in Nat, NEW i \in 1..Cells(w, h)
  PROVE  /\ X(i, w) \in 0..w - 1 /\ Y(i, w) \in 0..h - 1
         /\ i = Y(i, w) * w + X(i, w) + 1
<1> DEFINE n == i - 1
           x == n % w
           y == n \div w
<1>1. n \in Nat /\ w * h \in Nat /\ n < w * h
  BY Products DEF Cells
<1>2. y \in Nat /\ x \in 0..w - 1 /\ n = y * w + x
  BY <1>1, Division
<1>3. y < h
  <2> SUFFICES ASSUME h <= y PROVE FALSE
    BY <1>2
  <2> HIDE DEF x, y
  <2>1. h * w <= y * w
    BY <1>2, Products
  <2>2. h * w = w * h /\ y * w \in Nat
    BY <1>2, Products
  <2> QED BY <1>1, <1>2, <2>1, <2>2
<1> QED BY <1>2, <1>3 DEF X, Y

\* The pixel of a column and a row: Place the other way round.
LEMMA PixelAt ==
  ASSUME NEW w \in Nat \ {0}, NEW h \in Nat, NEW x \in 0..w - 1, NEW y \in 0..h - 1,
         NEW i, i = y * w + x + 1
  PROVE  i \in 1..Cells(w, h) /\ X(i, w) = x /\ Y(i, w) = y
<1>1. y \in Nat /\ y * w \in Nat /\ w * h \in Nat
  BY Products
<1>2. (y + 1) * w <= h * w
  BY <1>1, Products
<1>3. (y + 1) * w = y * w + w /\ h * w = w * h
  BY <1>1
<1>4. i \in 1..Cells(w, h)
  BY <1>1, <1>2, <1>3 DEF Cells
<1>5. i - 1 = y * w + x
  BY <1>1
<1>6. (y * w + x) \div w = y /\ (y * w + x) % w = x
  BY <1>1, Quotient
<1> QED BY <1>4, <1>5, <1>6 DEF X, Y

-----------------------------------------------------------------------------
(***************************************************************************)
(* Painting.                                                               *)
(***************************************************************************)

\* The tiles of one size.
Canvas(w, h) == [w : {w}, h : {h}, px : [1..Cells(w, h) -> Int]]

\* Pixel j of a tile of width w is in the box.
Holds(b, j, w) == H!InBox(X(j, w), Y(j, w), b)

\* A box has the colour of the pixels in it.
Sound(r, px, w, h) == \A j \in 1..Cells(w, h) : Holds(r.box, j, w) => px[j] = r.colour

\* A pixel is in one of the boxes.
Covered(r, n, j, w) == \E k \in 1..n : Holds(r[k].box, j, w)

\* One box is painted.
LEMMA PaintedIs ==
  ASSUME NEW w \in Nat \ {0}, NEW h \in Nat, NEW t \in Canvas(w, h), NEW b, NEW c \in Int
  PROVE  /\ H!Painted(t, b, c) \in Canvas(w, h)
         /\ \A j \in 1..Cells(w, h) :
              H!Painted(t, b, c).px[j] = IF Holds(b, j, w) THEN c ELSE t.px[j]
<1> DEFINE f == [i \in DOMAIN t.px |->
                   IF H!InBox((i - 1) % t.w, (i - 1) \div t.w, b) THEN c ELSE t.px[i]]
<1>1. t.w = w /\ t.px \in [1..Cells(w, h) -> Int] /\ DOMAIN t.px = 1..Cells(w, h)
  BY DEF Canvas
<1>2. \A j \in 1..Cells(w, h) : f[j] = IF Holds(b, j, w) THEN c ELSE t.px[j]
  BY <1>1 DEF Holds, X, Y
<1>3. \A j \in 1..Cells(w, h) : f[j] \in Int
  BY <1>1, <1>2
<1>4. H!Painted(t, b, c) = [t EXCEPT !.px = f]
  BY DEF H!Painted
<1>5. f = [i \in 1..Cells(w, h) |-> f[i]]
  BY <1>1
<1> HIDE DEF f
<1>6. f \in [1..Cells(w, h) -> Int]
  BY <1>3, <1>5
<1>7. [t EXCEPT !.px = f] \in Canvas(w, h) /\ [t EXCEPT !.px = f].px = f
  BY <1>6 DEF Canvas
<1> QED BY <1>2, <1>4, <1>7

\* The boxes of r are painted one after the other.
Paints(g, t, n, r) ==
  g = [i \in 0..n |-> IF i = 0 THEN t ELSE H!Painted(g[i - 1], r[i].box, r[i].colour)]

\* They have the colours of the tile and leave out nothing but the background.
Makes(r, n, px, w, h, bg) ==
  /\ \A k \in 1..n : r[k].colour \in Int /\ Sound(r[k], px, w, h)
  /\ \A j \in 1..Cells(w, h) : px[j] = bg \/ Covered(r, n, j, w)

\* In whatever order they are painted, such boxes make the tile.
LEMMA PaintingShows ==
  ASSUME NEW w \in Nat \ {0}, NEW h \in Nat, NEW px \in Seq(Int), Len(px) = Cells(w, h),
         NEW bg \in Int, NEW n \in Nat, NEW r, Makes(r, n, px, w, h, bg)
  PROVE  /\ \E g : Paints(g, H!Blank(w, h, bg), n, r)
         /\ \A g : Paints(g, H!Blank(w, h, bg), n, r) => g[n].px = px
<1> DEFINE S == Canvas(w, h)
           t == H!Blank(w, h, bg)
<1>1. Cells(w, h) \in Nat
  BY CellsIs
<1>2. t \in S /\ \A j \in 1..Cells(w, h) : t.px[j] = bg
  BY DEF Canvas, H!Blank, H!Tile, Cells
<1> HIDE DEF t, S
<1> USE DEF Makes
<1>3. \E g : Paints(g, t, n, r)
  <2> DEFINE F == [z \in S \X (1..n) |-> H!Painted(z[1], r[z[2]].box, r[z[2]].colour)]
  <2>1. \A i \in 1..n, s \in S : F[<<s, i>>] = H!Painted(s, r[i].box, r[i].colour)
    OBVIOUS
  <2>2. \A i \in 1..n, s \in S : F[<<s, i>>] \in S
    BY <2>1, PaintedIs DEF S
  <2> HIDE DEF F
  <2>3. PICK g : Goes(g, t, n, F) /\ \A i \in 0..n : g[i] \in S
    BY <1>2, <2>2, Repeats
  <2>4. ASSUME NEW i \in 0..n, i # 0
        PROVE  F[<<g[i - 1], i>>] = H!Painted(g[i - 1], r[i].box, r[i].colour)
    <3>1. i \in 1..n /\ g[i - 1] \in S
      BY <2>3, <2>4
    <3> QED BY <2>1, <3>1
  <2>5. Paints(g, t, n, r)
    BY <2>3, <2>4 DEF Goes, Paints
  <2> QED BY <2>5
<1>4. ASSUME NEW g, Paints(g, t, n, r) PROVE g[n].px = px
  <2> DEFINE Right(i) ==
               /\ g[i] \in S
               /\ \A j \in 1..Cells(w, h) :
                    g[i].px[j] = IF Covered(r, i, j, w) THEN px[j] ELSE bg
             T0 == {i \in 0..n : Right(i)}
  <2>1. g[0] = t
    BY <1>4 DEF Paints
  <2>2. 0 \in T0
    BY <1>2, <2>1 DEF Covered
  <2>3. ASSUME NEW i \in 0..n - 1, i \in T0 PROVE i + 1 \in T0
    <3>1. PICK k \in 1..n : k = i + 1
      OBVIOUS
    <3>2. g[k] = H!Painted(g[i], r[k].box, r[k].colour)
      <4>1. k # 0 /\ k \in 0..n /\ k - 1 = i
        BY <3>1
      <4> QED BY <1>4, <4>1 DEF Paints
    <3>3. r[k].colour \in Int /\ Sound(r[k], px, w, h)
      OBVIOUS
    <3>4. g[i] \in Canvas(w, h)
      BY <2>3 DEF S
    <3>5. /\ g[k] \in Canvas(w, h)
          /\ \A j \in 1..Cells(w, h) :
               g[k].px[j] = IF Holds(r[k].box, j, w) THEN r[k].colour ELSE g[i].px[j]
      BY <3>2, <3>3, <3>4, PaintedIs
    <3>6. ASSUME NEW j \in 1..Cells(w, h)
          PROVE  g[k].px[j] = IF Covered(r, k, j, w) THEN px[j] ELSE bg
      <4>1. Covered(r, k, j, w) <=> Covered(r, i, j, w) \/ Holds(r[k].box, j, w)
        <5>1. 1..k = (1..i) \cup {k}
          BY <3>1
        <5> QED BY <5>1, Zenon DEF Covered
      <4>2. Holds(r[k].box, j, w) => px[j] = r[k].colour
        BY <3>3 DEF Sound
      <4>3. g[i].px[j] = IF Covered(r, i, j, w) THEN px[j] ELSE bg
        BY <2>3
      <4> QED BY <3>5, <4>1, <4>2, <4>3
    <3>7. Right(k)
      BY <3>5, <3>6 DEF S
    <3> QED BY <3>1, <3>7
  <2>4. n \in T0
    <3> HIDE DEF T0
    <3> QED BY <2>2, <2>3, Climb
  <2>5. ASSUME NEW j \in 1..Cells(w, h) PROVE g[n].px[j] = px[j]
    BY <2>4
  <2>6. g[n].px \in [1..Cells(w, h) -> Int]
    BY <2>4 DEF S, Canvas
  <2>7. IsSeq(g[n].px) /\ Len(g[n].px) = Cells(w, h) /\ IsSeq(px)
    <3>1. g[n].px \in Seq(Int) /\ Len(g[n].px) = Cells(w, h)
      BY <1>1, <2>6, FunctionSeq
    <3> QED BY <3>1 DEF IsSeq
  <2> QED BY <2>5, <2>7, SameSeq
<1> QED BY <1>3, <1>4 DEF t

-----------------------------------------------------------------------------
(***************************************************************************)
(* The boxes that are found.                                               *)
(***************************************************************************)

\* The boxes within a tile.
BoxIn(w, h) == {b \in [x : Nat, y : Nat, w : Nat \ {0}, h : Nat \ {0}] :
                  b.x + b.w <= w /\ b.y + b.h <= h}

\* The pixel at x, y.
LEMMA PixelIs ==
  ASSUME NEW w \in Nat \ {0}, NEW h \in Nat, NEW t \in Canvas(w, h), NEW i \in 1..Cells(w, h)
  PROVE  /\ H!At(t, X(i, w), Y(i, w)) = t.px[i] /\ t.px[i] \in Int
         /\ X(i, w) \in 0..w - 1 /\ Y(i, w) \in 0..h - 1
         /\ Y(i, w) * w + X(i, w) + 1 = i
<1>1. t.w = w /\ t.px \in [1..Cells(w, h) -> Int]
  BY DEF Canvas
<1>2. X(i, w) \in 0..w - 1 /\ Y(i, w) \in 0..h - 1 /\ Y(i, w) * w + X(i, w) + 1 = i
  BY Place
<1>3. H!At(t, X(i, w), Y(i, w)) = t.px[i]
  BY <1>1, <1>2 DEF H!At
<1> QED BY <1>1, <1>2, <1>3

\* A box within the tile from x, y on, of the colour of x, y.
IsBox(b, t, x, y, w, h) ==
  \E a \in 1..w - x, d \in 1..h - y :
    b = H!Box(x, y, a, d)
    /\ \A i \in 0..a - 1, j \in 0..d - 1 : H!At(t, x + i, y + j) = H!At(t, x, y)

\* It is in the tile, and its pixels have that colour.
LEMMA BoxHas ==
  ASSUME NEW w \in Nat \ {0}, NEW h \in Nat, NEW t \in Canvas(w, h), NEW i \in 1..Cells(w, h),
         NEW b, IsBox(b, t, X(i, w), Y(i, w), w, h)
  PROVE  /\ b \in BoxIn(w, h)
         /\ \A j \in 1..Cells(w, h) : Holds(b, j, w) => t.px[j] = t.px[i]
         /\ Holds(b, i, w) /\ b.y = Y(i, w)
<1>1. PICK x \in 0..w - 1, y \in 0..h - 1 :
        x = X(i, w) /\ y = Y(i, w) /\ H!At(t, x, y) = t.px[i]
  BY PixelIs
<1>2. IsBox(b, t, x, y, w, h)
  BY <1>1
<1>3. PICK a \in 1..w - x, d \in 1..h - y :
        b = H!Box(x, y, a, d)
        /\ \A k \in 0..a - 1, l \in 0..d - 1 : H!At(t, x + k, y + l) = H!At(t, x, y)
  BY <1>2 DEF IsBox
<1>4. b \in BoxIn(w, h) /\ b.y = y
  BY <1>3 DEF BoxIn, H!Box
<1>5. ASSUME NEW j \in 1..Cells(w, h), Holds(b, j, w) PROVE t.px[j] = t.px[i]
  <2>1. PICK u \in 0..w - 1, v \in 0..h - 1 :
          u = X(j, w) /\ v = Y(j, w) /\ H!At(t, u, v) = t.px[j]
    BY PixelIs
  <2>2. x <= u /\ u < x + a /\ y <= v /\ v < y + d
    BY <1>3, <1>5, <2>1 DEF Holds, H!InBox, H!Box
  <2>3. PICK k \in 0..a - 1, l \in 0..d - 1 : k = u - x /\ l = v - y
    BY <2>2
  <2>4. x + k = u /\ y + l = v
    BY <2>3
  <2>5. H!At(t, x + k, y + l) = H!At(t, x, y)
    BY <1>3
  <2> QED BY <1>1, <2>1, <2>4, <2>5
<1>6. Holds(b, i, w)
  BY <1>1, <1>3 DEF Holds, H!InBox, H!Box
<1> QED BY <1>1, <1>4, <1>5, <1>6

\* What Reach returns exists.
LEMMA ReachExists ==
  ASSUME NEW n \in Nat, NEW Q
  PROVE  \E k \in 0..n : (\A j \in 0..k - 1 : j \in Q) /\ (k < n => k \notin Q)
<1> SUFFICES ASSUME \A k \in 0..n : ~((\A j \in 0..k - 1 : j \in Q) /\ (k < n => k \notin Q))
             PROVE  FALSE
  OBVIOUS
<1> DEFINE T0 == {k \in 0..n : \A j \in 0..k - 1 : j \in Q}
<1>1. 0 \in T0
  OBVIOUS
<1>2. ASSUME NEW k \in 0..n - 1, k \in T0 PROVE k + 1 \in T0
  <2>1. k \in Q
    BY <1>2
  <2> QED BY <1>2, <2>1
<1>3. n \in T0
  <2> HIDE DEF T0
  <2> QED BY <1>1, <1>2, Climb
<1> QED BY <1>3

\* The shorter side is cut down.
LEMMA BoxFrom ==
  ASSUME NEW w \in Nat \ {0}, NEW h \in Nat, NEW t,
         NEW x \in 0..w - 1, NEW y \in 0..h - 1, NEW a \in 1..w - x, NEW d \in 1..h - y,
         \A i \in 0..a - 1 : H!At(t, x + i, y) = H!At(t, x, y),
         \A j \in 0..d - 1 : H!At(t, x, y + j) = H!At(t, x, y), NEW b,
         b = LET same(i, j) == H!At(t, x + i, y + j) = H!At(t, x, y)
             IN IF a >= d
                THEN H!Box(x, y, a, H!Reach(d, LAMBDA j : \A i \in 0..a - 1 : same(i, j)))
                ELSE H!Box(x, y, H!Reach(a, LAMBDA i : \A j \in 0..d - 1 : same(i, j)), d)
  PROVE  IsBox(b, t, x, y, w, h)
<1> DEFINE same(i, j) == H!At(t, x + i, y + j) = H!At(t, x, y)
<1>1. \A i \in 0..a - 1 : same(i, 0)
  OBVIOUS
<1>2. \A j \in 0..d - 1 : same(0, j)
  OBVIOUS
<1>3. CASE a >= d
  <2> DEFINE P(j) == \A i \in 0..a - 1 : same(i, j)
             Q == {j \in 0..d : P(j)}
             e == H!Reach(d, LAMBDA j : P(j))
  <2>1. \E k \in 0..d : (\A j \in 0..k - 1 : j \in Q) /\ (k < d => k \notin Q)
    <3> HIDE DEF Q
    <3> QED BY ReachExists
  <2>2. \E k \in 0..d : (\A j \in 0..k - 1 : P(j)) /\ (k < d => ~P(k))
    <3> HIDE DEF P
    <3> QED BY <2>1
  <2>3. e \in 0..d /\ (\A j \in 0..e - 1 : P(j)) /\ (e < d => ~P(e))
    <3> HIDE DEF P
    <3> QED BY <2>2 DEF H!Reach
  <2>4. P(0)
    BY <1>1
  <2>5. b = H!Box(x, y, a, e)
    BY <1>3
  <2> HIDE DEF e
  <2>6. e # 0
    BY <2>3, <2>4
  <2>7. \A i \in 0..a - 1, j \in 0..e - 1 : same(i, j)
    BY <2>3
  <2>8. e \in 1..h - y
    BY <2>3, <2>6
  <2> QED BY <2>5, <2>7, <2>8 DEF IsBox
<1>4. CASE ~(a >= d)
  <2> DEFINE P(i) == \A j \in 0..d - 1 : same(i, j)
             Q == {i \in 0..a : P(i)}
             e == H!Reach(a, LAMBDA i : P(i))
  <2>1. \E k \in 0..a : (\A j \in 0..k - 1 : j \in Q) /\ (k < a => k \notin Q)
    <3> HIDE DEF Q
    <3> QED BY ReachExists
  <2>2. \E k \in 0..a : (\A j \in 0..k - 1 : P(j)) /\ (k < a => ~P(k))
    <3> HIDE DEF P
    <3> QED BY <2>1
  <2>3. e \in 0..a /\ (\A j \in 0..e - 1 : P(j)) /\ (e < a => ~P(e))
    <3> HIDE DEF P
    <3> QED BY <2>2 DEF H!Reach
  <2>4. P(0)
    BY <1>2
  <2>5. b = H!Box(x, y, e, d)
    BY <1>4
  <2> HIDE DEF e
  <2>6. e # 0
    BY <2>3, <2>4
  <2>7. \A i \in 0..e - 1, j \in 0..d - 1 : same(i, j)
    BY <2>3
  <2>8. e \in 1..w - x
    BY <2>3, <2>6
  <2> QED BY <2>5, <2>7, <2>8 DEF IsBox
<1> QED BY <1>3, <1>4

\* Boxes of the colours of a tile; none is empty or of the background's colour.
Boxing(w, h) == [box : BoxIn(w, h), colour : Int]
Cuts(boxes, px, w, h, bg) ==
  /\ boxes \in Seq(Boxing(w, h))
  /\ \A k \in 1..Len(boxes) :
       /\ boxes[k].colour # bg /\ Sound(boxes[k], px, w, h)
       /\ \E j \in 1..Cells(w, h) : Holds(boxes[k].box, j, w)

\* The tile is its background with boxes on it.
Pictured(boxes, px, w, h, bg) ==
  /\ Cuts(boxes, px, w, h, bg)
  /\ \A j \in 1..Cells(w, h) : px[j] = bg \/ Covered(boxes, Len(boxes), j, w)

\* A box that may come after the others.
Suits(b, c, boxes, px, w, h, bg) ==
  /\ Cuts(boxes, px, w, h, bg)
  /\ b \in BoxIn(w, h) /\ c \in Int /\ c # bg
  /\ \A j \in 1..Cells(w, h) : Holds(b, j, w) => px[j] = c
  /\ \E j \in 1..Cells(w, h) : Holds(b, j, w)

With(boxes, b, c) == Append(boxes, [box |-> b, colour |-> c])

\* One more box.
LEMMA OneMoreBox ==
  ASSUME NEW w, NEW h, NEW px, NEW bg, NEW boxes, NEW b, NEW c,
         Suits(b, c, boxes, px, w, h, bg), NEW new, new = With(boxes, b, c)
  PROVE  /\ Cuts(new, px, w, h, bg) /\ Len(new) = Len(boxes) + 1
         /\ \A k \in 1..Len(boxes) : new[k] = boxes[k]
         /\ new[Len(new)].box = b
         /\ \A j : Covered(new, Len(new), j, w)
                     <=> Covered(boxes, Len(boxes), j, w) \/ Holds(b, j, w)
<1> DEFINE r == [box |-> b, colour |-> c]
           n == Len(boxes)
<1>1. r \in Boxing(w, h) /\ r.box = b /\ r.colour = c
  BY DEF Boxing, Suits
<1>2. boxes \in Seq(Boxing(w, h)) /\ n \in Nat
  BY DEF Cuts, Suits
<1> HIDE DEF r
<1>3. /\ new \in Seq(Boxing(w, h)) /\ Len(new) = n + 1 /\ new[n + 1] = r
      /\ \A k \in 1..n : new[k] = boxes[k]
  BY <1>1, <1>2 DEF r, With
<1> HIDE DEF n
<1>4. ASSUME NEW k \in 1..Len(new)
      PROVE  /\ new[k].colour # bg /\ Sound(new[k], px, w, h)
             /\ \E j \in 1..Cells(w, h) : Holds(new[k].box, j, w)
  <2>1. CASE k = n + 1
    BY <1>1, <1>3, <2>1 DEF Sound, Suits
  <2>2. CASE k # n + 1
    <3>1. k \in 1..n /\ new[k] = boxes[k]
      BY <1>2, <1>3, <2>2
    <3> QED BY <3>1 DEF Cuts, Suits, n
  <2> QED BY <2>1, <2>2
<1>5. ASSUME NEW j
      PROVE  Covered(new, Len(new), j, w) <=> Covered(boxes, n, j, w) \/ Holds(b, j, w)
  <2>1. 1..Len(new) = (1..n) \cup {n + 1}
    BY <1>2, <1>3
  <2>2. new[n + 1].box = b
    BY <1>1, <1>3
  <2> QED BY <1>3, <2>1, <2>2, Zenon DEF Covered
<1> QED BY <1>1, <1>3, <1>4, <1>5 DEF Cuts, n

\* A tile of Tiles.
LEMMA TileIs ==
  ASSUME NEW t \in Tiles
  PROVE  /\ t.w \in Nat \ {0} /\ t.h \in Nat \ {0} /\ t \in Canvas(t.w, t.h)
         /\ t.px \in Seq(Int) /\ Len(t.px) = Cells(t.w, t.h)
         /\ H!Area(t) = Cells(t.w, t.h) /\ H!Area(t) \in Nat
<1>1. t \in [w : Nat \ {0}, h : Nat \ {0}, px : Seq(Int)] /\ Len(t.px) = Cells(t.w, t.h)
  BY TileAssumption DEF Area, Cells
<1>2. t.px \in [1..Cells(t.w, t.h) -> Int]
  BY <1>1
<1>3. t \in Canvas(t.w, t.h)
  BY <1>1, <1>2 DEF Canvas
<1>4. Cells(t.w, t.h) \in Nat
  BY <1>1, CellsIs
<1> QED BY <1>1, <1>3, <1>4 DEF H!Area, Cells

\* The box that Hextile cuts out.
CutOut(t, x, y) == H!BoxAt(t, x, y, LAMBDA i, j : H!At(t, i, j) = H!At(t, x, y))

\* It has the colour of its corner everywhere, and lies in the tile.
LEMMA RectifyBox ==
  ASSUME NEW w \in Nat \ {0}, NEW h \in Nat, NEW t \in Canvas(w, h),
         NEW x \in 0..w - 1, NEW y \in 0..h - 1
  PROVE  IsBox(CutOut(t, x, y), t, x, y, w, h)
<1> DEFINE E(i, j) == H!At(t, i, j) = H!At(t, x, y)
           a == H!Reach(w - x, LAMBDA j : E(x + j, y))
           d == H!Reach(h - y, LAMBDA j : E(x, y + j))
           b == CutOut(t, x, y)
<1>1. t.w = w /\ t.h = h
  BY DEF Canvas
<1>2. a \in 1..w - x /\ \A j \in 0..a - 1 : E(x + j, y)
  <2> DEFINE P(j) == E(x + j, y)
             n == w - x
             Q == {j \in 0..n : P(j)}
  <2>1. n \in Nat /\ n # 0 /\ P(0)
    OBVIOUS
  <2> HIDE DEF n, P
  <2>2. \E k \in 0..n : (\A j \in 0..k - 1 : j \in Q) /\ (k < n => k \notin Q)
    <3> HIDE DEF Q
    <3> QED BY <2>1, ReachExists
  <2>3. \E k \in 0..n : (\A j \in 0..k - 1 : P(j)) /\ (k < n => ~P(k))
    BY <2>1, <2>2
  <2> DEFINE e == H!Reach(n, LAMBDA j : P(j))
  <2>4. e \in 0..n /\ (\A j \in 0..e - 1 : P(j)) /\ (e < n => ~P(e))
    BY <2>3 DEF H!Reach
  <2>5. a = e
    BY DEF P, n
  <2> HIDE DEF e
  <2>6. e \in 1..n /\ \A j \in 0..e - 1 : P(j)
    BY <2>1, <2>4
  <2> QED BY <2>5, <2>6 DEF P, n
<1>3. d \in 1..h - y /\ \A j \in 0..d - 1 : E(x, y + j)
  <2> DEFINE P(j) == E(x, y + j)
             n == h - y
             Q == {j \in 0..n : P(j)}
  <2>1. n \in Nat /\ n # 0 /\ P(0)
    OBVIOUS
  <2> HIDE DEF n, P
  <2>2. \E k \in 0..n : (\A j \in 0..k - 1 : j \in Q) /\ (k < n => k \notin Q)
    <3> HIDE DEF Q
    <3> QED BY <2>1, ReachExists
  <2>3. \E k \in 0..n : (\A j \in 0..k - 1 : P(j)) /\ (k < n => ~P(k))
    BY <2>1, <2>2
  <2> DEFINE e == H!Reach(n, LAMBDA j : P(j))
  <2>4. e \in 0..n /\ (\A j \in 0..e - 1 : P(j)) /\ (e < n => ~P(e))
    BY <2>3 DEF H!Reach
  <2>5. d = e
    BY DEF P, n
  <2> HIDE DEF e
  <2>6. e \in 1..n /\ \A j \in 0..e - 1 : P(j)
    BY <2>1, <2>4
  <2> QED BY <2>5, <2>6 DEF P, n
<1>4. b = LET same(i, j) == H!At(t, x + i, y + j) = H!At(t, x, y)
          IN IF a >= d
             THEN H!Box(x, y, a, H!Reach(d, LAMBDA j : \A i \in 0..a - 1 : same(i, j)))
             ELSE H!Box(x, y, H!Reach(a, LAMBDA i : \A j \in 0..d - 1 : same(i, j)), d)
  BY <1>1 DEF CutOut, H!BoxAt
<1> HIDE DEF a, d, b
<1>5. IsBox(b, t, x, y, w, h)
  BY <1>2, <1>3, <1>4, BoxFrom
<1> QED BY <1>5 DEF b

\* A box that is found at pixel i of t, all of which that is left has the colours px.
Found(b, i, t, boxes, px, w, h, bg) ==
  /\ w \in Nat \ {0} /\ h \in Nat /\ t \in Canvas(w, h) /\ i \in 1..Cells(w, h)
  /\ IsBox(b, t, X(i, w), Y(i, w), w, h) /\ t.px[i] # bg
  /\ \A j \in 1..Cells(w, h) : t.px[j] = px[j] \/ t.px[j] = bg
  /\ Cuts(boxes, px, w, h, bg)

\* It is a box that may come after the others.
LEMMA CutOne ==
  ASSUME NEW w, NEW h, NEW t, NEW px, NEW bg, NEW i, NEW b, NEW boxes,
         Found(b, i, t, boxes, px, w, h, bg), NEW new, new = With(boxes, b, t.px[i])
  PROVE  /\ Cuts(new, px, w, h, bg) /\ Len(new) = Len(boxes) + 1
         /\ \A k \in 1..Len(boxes) : new[k] = boxes[k]
         /\ new[Len(new)].box = b /\ Holds(b, i, w)
         /\ b.y = Y(i, w) /\ b.x \in Nat /\ b.w \in Nat /\ b.h \in Nat
         /\ \A j : Covered(new, Len(new), j, w)
                     <=> Covered(boxes, Len(boxes), j, w) \/ Holds(b, j, w)
<1>1. /\ w \in Nat \ {0} /\ h \in Nat /\ t \in Canvas(w, h) /\ i \in 1..Cells(w, h)
      /\ IsBox(b, t, X(i, w), Y(i, w), w, h) /\ t.px[i] # bg
  BY DEF Found
<1>2. PICK c \in Int : c = t.px[i]
  BY <1>1, PixelIs
<1>3. /\ b \in BoxIn(w, h)
      /\ \A j \in 1..Cells(w, h) : Holds(b, j, w) => t.px[j] = c
      /\ Holds(b, i, w) /\ b.y = Y(i, w)
  BY <1>1, <1>2, BoxHas
<1>4. \A j \in 1..Cells(w, h) : Holds(b, j, w) => px[j] = c
  BY <1>2, <1>3 DEF Found
<1>5. b.x \in Nat /\ b.w \in Nat /\ b.h \in Nat
  BY <1>3 DEF BoxIn
<1>6. c # bg /\ new = With(boxes, b, c)
  BY <1>2 DEF Found
<1>7. /\ Cuts(new, px, w, h, bg) /\ Len(new) = Len(boxes) + 1
      /\ \A k \in 1..Len(boxes) : new[k] = boxes[k]
      /\ new[Len(new)].box = b
      /\ \A j : Covered(new, Len(new), j, w)
                  <=> Covered(boxes, Len(boxes), j, w) \/ Holds(b, j, w)
  <2>1. Suits(b, c, boxes, px, w, h, bg)
    BY <1>3, <1>4, <1>6 DEF Suits, Found
  <2> QED BY <1>6, <2>1, OneMoreBox
<1> QED BY <1>1, <1>3, <1>5, <1>7

\* Hextile: what is left of the tile after i pixels, and the boxes so far.
Rectifying(left, boxes, px, w, h, bg, i) ==
  /\ left \in Canvas(w, h) /\ Cuts(boxes, px, w, h, bg)
  /\ \A j \in 1..Cells(w, h) :
       \/ left.px[j] = px[j]
       \/ left.px[j] = bg /\ Covered(boxes, Len(boxes), j, w)
  /\ \A j \in 1..i : left.px[j] = bg

\* A pixel of the background needs no box.
LEMMA PixelSkipped ==
  ASSUME NEW w, NEW h, NEW px, NEW bg, NEW i \in Nat \ {0}, NEW left, NEW boxes,
         Rectifying(left, boxes, px, w, h, bg, i - 1), left.px[i] = bg
  PROVE  Rectifying(left, boxes, px, w, h, bg, i)
<1>1. \A j \in 1..i : j = i \/ j \in 1..i - 1
  OBVIOUS
<1> QED BY <1>1 DEF Rectifying

\* For another one a box is cut out.
LEMMA PixelCut ==
  ASSUME NEW w \in Nat \ {0}, NEW h \in Nat, NEW px, NEW bg \in Int,
         NEW i \in 1..Cells(w, h), NEW left, NEW boxes,
         Rectifying(left, boxes, px, w, h, bg, i - 1), left.px[i] # bg,
         NEW b, b = CutOut(left, X(i, w), Y(i, w))
  PROVE  Rectifying(H!Painted(left, b, bg), With(boxes, b, left.px[i]), px, w, h, bg, i)
<1> DEFINE v == H!Painted(left, b, bg)
           new == With(boxes, b, left.px[i])
<1>1. /\ left \in Canvas(w, h) /\ Cuts(boxes, px, w, h, bg)
      /\ \A j \in 1..Cells(w, h) :
           \/ left.px[j] = px[j]
           \/ left.px[j] = bg /\ Covered(boxes, Len(boxes), j, w)
      /\ \A j \in 1..i - 1 : left.px[j] = bg
  BY DEF Rectifying
<1>2. IsBox(b, left, X(i, w), Y(i, w), w, h)
  BY <1>1, PixelIs, RectifyBox
<1>3. Found(b, i, left, boxes, px, w, h, bg)
  BY <1>1, <1>2 DEF Found
<1> HIDE DEF new, v
<1>4. /\ Cuts(new, px, w, h, bg) /\ Holds(b, i, w)
      /\ \A j : Covered(new, Len(new), j, w)
                  <=> Covered(boxes, Len(boxes), j, w) \/ Holds(b, j, w)
  BY <1>3, CutOne DEF new
<1>5. /\ v \in Canvas(w, h)
      /\ \A j \in 1..Cells(w, h) : v.px[j] = IF Holds(b, j, w) THEN bg ELSE left.px[j]
  BY <1>1, PaintedIs DEF v
<1>6. \A j \in 1..Cells(w, h) :
        \/ v.px[j] = px[j]
        \/ v.px[j] = bg /\ Covered(new, Len(new), j, w)
  BY <1>1, <1>4, <1>5
<1>7. ASSUME NEW j \in 1..i PROVE v.px[j] = bg
  <2>1. j \in 1..Cells(w, h)
    BY CellsIs
  <2>2. CASE j = i
    BY <1>4, <1>5, <2>1, <2>2
  <2>3. CASE j # i
    <3>1. left.px[j] = bg
      BY <1>1, <2>3
    <3> QED BY <1>5, <2>1, <3>1
  <2> QED BY <2>2, <2>3
<1>8. Rectifying(v, new, px, w, h, bg, i)
  BY <1>4, <1>5, <1>6, <1>7 DEF Rectifying
<1> QED BY <1>8 DEF v, new

\* The boxes of Hextile make the tile.
LEMMA RectifyPictures ==
  ASSUME NEW t \in Tiles, NEW bg \in Int
  PROVE  Pictured(H!Rectify(t, bg), t.px, t.w, t.h, bg)
<1>1. PICK a : RectifySteps(a, t, bg)
  BY RectifyMade
<1>2. PICK w \in Nat \ {0}, h \in Nat, px \in {t.px} : w = t.w /\ h = t.h /\ px = t.px
  BY TileIs
<1>3. PICK n \in Nat : n = Cells(w, h) /\ n = H!Area(t)
  BY <1>2, TileIs
<1>4. t \in Canvas(w, h)
  BY <1>2, TileIs
<1>5. a[0].left = t /\ a[0].boxes = <<>>
  BY <1>1 DEF RectifySteps
<1>6. \A i \in 1..n : a[i] = H!Rectified(a[i - 1], X(i, w), Y(i, w), bg)
  BY <1>1, <1>2, <1>3 DEF RectifySteps, X, Y
<1>7. H!Rectify(t, bg) = a[n].boxes
  BY <1>1, <1>3 DEF RectifySteps
<1> DEFINE T0 == {i \in 0..n : Rectifying(a[i].left, a[i].boxes, px, w, h, bg, i)}
<1>8. 0 \in T0
  <2>1. Cuts(a[0].boxes, px, w, h, bg)
    BY <1>5 DEF Cuts
  <2> QED BY <1>2, <1>4, <1>5, <2>1 DEF Rectifying
<1>9. ASSUME NEW i \in 0..n - 1, i \in T0 PROVE i + 1 \in T0
  <2>1. PICK k \in 1..n : k = i + 1
    OBVIOUS
  <2>2. PICK left, boxes : left = a[i].left /\ boxes = a[i].boxes
    OBVIOUS
  <2>3. Rectifying(left, boxes, px, w, h, bg, k - 1)
    BY <1>9, <2>1, <2>2
  <2>4. H!At(left, X(k, w), Y(k, w)) = left.px[k]
    <3>1. left \in Canvas(w, h)
      BY <2>3 DEF Rectifying
    <3>2. k \in 1..Cells(w, h)
      BY <1>3
    <3> QED BY <3>1, <3>2, PixelIs
  <2> DEFINE b == CutOut(left, X(k, w), Y(k, w))
             c == left.px[k]
  <2>5. a[k] = H!Rectified(a[i], X(k, w), Y(k, w), bg)
    BY <1>6, <2>1
  <2>6. LET e == H!At(a[i].left, X(k, w), Y(k, w)) IN
        a[k] = IF e = bg THEN a[i]
               ELSE H!Cut(a[i], CutOut(a[i].left, X(k, w), Y(k, w)), e, bg)
    BY <2>5 DEF H!Rectified, CutOut
  <2>7. a[k] = IF c = bg THEN a[i] ELSE H!Cut(a[i], b, c, bg)
    BY <2>2, <2>4, <2>6
  <2> HIDE DEF b
  <2>8. CASE c = bg
    <3>1. Rectifying(left, boxes, px, w, h, bg, k)
      BY <2>3, <2>8, PixelSkipped
    <3> QED BY <2>1, <2>2, <2>7, <2>8, <3>1
  <2>9. CASE c # bg
    <3>1. a[k].left = H!Painted(left, b, bg) /\ a[k].boxes = With(boxes, b, c)
      BY <2>2, <2>7, <2>9 DEF H!Cut, With
    <3>2. Rectifying(H!Painted(left, b, bg), With(boxes, b, c), px, w, h, bg, k)
      BY <1>3, <2>3, <2>9, PixelCut DEF b
    <3> QED BY <2>1, <3>1, <3>2
  <2> QED BY <2>8, <2>9
<1>10. n \in T0
  <2> HIDE DEF T0
  <2> QED BY <1>8, <1>9, Climb
<1>11. PICK left, boxes : boxes = a[n].boxes /\ Rectifying(left, boxes, px, w, h, bg, n)
  BY <1>10
<1>12. Pictured(boxes, px, w, h, bg)
  BY <1>3, <1>11 DEF Rectifying, Pictured
<1> QED BY <1>2, <1>7, <1>11, <1>12

-----------------------------------------------------------------------------
(***************************************************************************)
(* The boxes of RRE and CoRRE.                                             *)
(***************************************************************************)

\* A later pixel is not in an earlier row.
LEMMA RowsGrow ==
  ASSUME NEW w \in Nat \ {0}, NEW h \in Nat, NEW i \in 1..Cells(w, h), NEW j \in 1..i
  PROVE  Y(j, w) <= Y(i, w)
<1>1. j \in 1..Cells(w, h)
  BY CellsIs
<1> DEFINE x == X(i, w)
           y == Y(i, w)
           u == X(j, w)
           v == Y(j, w)
<1>2. x \in 0..w - 1 /\ y \in Nat /\ i = y * w + x + 1
  BY Place
<1>3. u \in 0..w - 1 /\ v \in Nat /\ j = v * w + u + 1
  BY <1>1, Place
<1> HIDE DEF x, y, u, v
<1>4. ~(y < v)
  <2> SUFFICES ASSUME y < v PROVE FALSE
    OBVIOUS
  <2>1. (y + 1) * w <= v * w
    BY <1>2, <1>3, Products
  <2>2. y * w \in Nat /\ v * w \in Nat
    BY <1>2, <1>3, Products
  <2>3. (y + 1) * w = y * w + w
    BY <1>2
  <2> QED BY <1>2, <1>3, <2>1, <2>2, <2>3
<1> QED BY <1>2, <1>3, <1>4 DEF y, v

\* The box that RRE cuts out.
RreCutOut(t, x, y, done) ==
  H!BoxAt(t, x, y, LAMBDA i, j : H!At(t, i, j) = H!At(t, x, y) /\ done[i] <= j)

\* It has one colour as well, and lies in the tile.
LEMMA RreBox ==
  ASSUME NEW w \in Nat \ {0}, NEW h \in Nat, NEW t \in Canvas(w, h),
         NEW x \in 0..w - 1, NEW y \in 0..h - 1, NEW done, done[x] \in Nat, done[x] <= y
  PROVE  IsBox(RreCutOut(t, x, y, done), t, x, y, w, h)
<1> DEFINE E(i, j) == H!At(t, i, j) = H!At(t, x, y) /\ done[i] <= j
           a == H!Reach(w - x, LAMBDA j : E(x + j, y))
           d == H!Reach(h - y, LAMBDA j : E(x, y + j))
           b == RreCutOut(t, x, y, done)
<1>1. t.w = w /\ t.h = h
  BY DEF Canvas
<1>2. a \in 1..w - x /\ \A j \in 0..a - 1 : E(x + j, y)
  <2> DEFINE P(j) == E(x + j, y)
             n == w - x
             Q == {j \in 0..n : P(j)}
  <2>1. n \in Nat /\ n # 0 /\ P(0)
    OBVIOUS
  <2> HIDE DEF n, P
  <2>2. \E k \in 0..n : (\A j \in 0..k - 1 : j \in Q) /\ (k < n => k \notin Q)
    <3> HIDE DEF Q
    <3> QED BY <2>1, ReachExists
  <2>3. \E k \in 0..n : (\A j \in 0..k - 1 : P(j)) /\ (k < n => ~P(k))
    BY <2>1, <2>2
  <2> DEFINE e == H!Reach(n, LAMBDA j : P(j))
  <2>4. e \in 0..n /\ (\A j \in 0..e - 1 : P(j)) /\ (e < n => ~P(e))
    BY <2>3 DEF H!Reach
  <2>5. a = e
    BY DEF P, n
  <2> HIDE DEF e
  <2>6. e \in 1..n /\ \A j \in 0..e - 1 : P(j)
    BY <2>1, <2>4
  <2> QED BY <2>5, <2>6 DEF P, n
<1>3. d \in 1..h - y /\ \A j \in 0..d - 1 : E(x, y + j)
  <2> DEFINE P(j) == E(x, y + j)
             n == h - y
             Q == {j \in 0..n : P(j)}
  <2>1. n \in Nat /\ n # 0 /\ P(0)
    OBVIOUS
  <2> HIDE DEF n, P
  <2>2. \E k \in 0..n : (\A j \in 0..k - 1 : j \in Q) /\ (k < n => k \notin Q)
    <3> HIDE DEF Q
    <3> QED BY <2>1, ReachExists
  <2>3. \E k \in 0..n : (\A j \in 0..k - 1 : P(j)) /\ (k < n => ~P(k))
    BY <2>1, <2>2
  <2> DEFINE e == H!Reach(n, LAMBDA j : P(j))
  <2>4. e \in 0..n /\ (\A j \in 0..e - 1 : P(j)) /\ (e < n => ~P(e))
    BY <2>3 DEF H!Reach
  <2>5. d = e
    BY DEF P, n
  <2> HIDE DEF e
  <2>6. e \in 1..n /\ \A j \in 0..e - 1 : P(j)
    BY <2>1, <2>4
  <2> QED BY <2>5, <2>6 DEF P, n
<1>4. b = LET same(i, j) == H!At(t, x + i, y + j) = H!At(t, x, y)
          IN IF a >= d
             THEN H!Box(x, y, a, H!Reach(d, LAMBDA j : \A i \in 0..a - 1 : same(i, j)))
             ELSE H!Box(x, y, H!Reach(a, LAMBDA i : \A j \in 0..d - 1 : same(i, j)), d)
  BY <1>1 DEF RreCutOut, H!BoxAt
<1> HIDE DEF a, d, b
<1>5. IsBox(b, t, x, y, w, h)
  BY <1>2, <1>3, <1>4, BoxFrom
<1> QED BY <1>5 DEF b

\* How far down column x has been done: as far as one of the boxes.
Reached(d, boxes, x) ==
  d = 0 \/ \E k \in 1..Len(boxes) :
             /\ boxes[k].box.x <= x /\ x < boxes[k].box.x + boxes[k].box.w
             /\ d = boxes[k].box.y + boxes[k].box.h

\* The boxes after i pixels, and the rows done of each column.
Cutting(done, boxes, px, w, h, bg, i) ==
  /\ Cuts(boxes, px, w, h, bg)
  /\ done \in [0..w - 1 -> Nat]
  /\ \A x \in 0..w - 1 : Reached(done[x], boxes, x)
  /\ \A k \in 1..Len(boxes) : \E j \in 1..i : boxes[k].box.y = Y(j, w)
  /\ \A j \in 1..i : px[j] = bg \/ Covered(boxes, Len(boxes), j, w)

\* A pixel of the background, or one that a box reaches, needs no box.
LEMMA PixelDone ==
  ASSUME NEW w \in Nat \ {0}, NEW h \in Nat, NEW px, NEW bg, NEW i \in 1..Cells(w, h),
         NEW done, NEW boxes, Cutting(done, boxes, px, w, h, bg, i - 1),
         px[i] = bg \/ done[X(i, w)] > Y(i, w)
  PROVE  Cutting(done, boxes, px, w, h, bg, i)
<1>1. PICK x \in 0..w - 1, y \in 0..h - 1 : x = X(i, w) /\ y = Y(i, w)
  BY Place
<1>2. \A j \in 1..i : j = i \/ j \in 1..i - 1
  OBVIOUS
<1>3. ASSUME px[i] # bg PROVE Covered(boxes, Len(boxes), i, w)
  <2>1. done[x] > y /\ Reached(done[x], boxes, x)
    BY <1>1, <1>3 DEF Cutting
  <2>2. PICK k \in 1..Len(boxes) :
          /\ boxes[k].box.x <= x /\ x < boxes[k].box.x + boxes[k].box.w
          /\ done[x] = boxes[k].box.y + boxes[k].box.h
    BY <2>1 DEF Reached
  <2>3. PICK j \in 1..i - 1 : boxes[k].box.y = Y(j, w)
    BY DEF Cutting
  <2>4. boxes[k].box.y <= y
    BY <1>1, <2>3, RowsGrow
  <2>5. Holds(boxes[k].box, i, w)
    BY <1>1, <2>1, <2>2, <2>4 DEF Holds, H!InBox
  <2> QED BY <2>5 DEF Covered
<1>4. \A k \in 1..Len(boxes) : \E j \in 1..i : boxes[k].box.y = Y(j, w)
  BY <1>2 DEF Cutting
<1> QED BY <1>2, <1>3, <1>4 DEF Cutting

\* For another one a box is cut out.
LEMMA PixelBoxed ==
  ASSUME NEW w \in Nat \ {0}, NEW h \in Nat, NEW t \in Canvas(w, h), NEW bg \in Int,
         NEW i \in 1..Cells(w, h), NEW done, NEW boxes,
         Cutting(done, boxes, t.px, w, h, bg, i - 1),
         t.px[i] # bg, done[X(i, w)] <= Y(i, w),
         NEW b, b = RreCutOut(t, X(i, w), Y(i, w), done),
         NEW st, st.done = done, st.boxes = boxes
  PROVE  LET n == H!RreCut(st, b, t.px[i])
         IN Cutting(n.done, n.boxes, t.px, w, h, bg, i)
<1> DEFINE new == With(boxes, b, t.px[i])
           d == [x \in DOMAIN done |->
                   IF b.x <= x /\ x < b.x + b.w THEN b.y + b.h ELSE done[x]]
<1>1. /\ Cuts(boxes, t.px, w, h, bg) /\ done \in [0..w - 1 -> Nat]
      /\ \A x \in 0..w - 1 : Reached(done[x], boxes, x)
      /\ \A k \in 1..Len(boxes) : \E j \in 1..i - 1 : boxes[k].box.y = Y(j, w)
      /\ \A j \in 1..i - 1 : t.px[j] = bg \/ Covered(boxes, Len(boxes), j, w)
  BY DEF Cutting
<1>2. IsBox(b, t, X(i, w), Y(i, w), w, h)
  BY <1>1, PixelIs, RreBox
<1>3. Found(b, i, t, boxes, t.px, w, h, bg)
  BY <1>1, <1>2 DEF Found
<1> HIDE DEF new
<1>4. /\ Cuts(new, t.px, w, h, bg) /\ Len(new) = Len(boxes) + 1
      /\ \A k \in 1..Len(boxes) : new[k] = boxes[k]
      /\ new[Len(new)].box = b /\ Holds(b, i, w)
      /\ b.y = Y(i, w) /\ b.x \in Nat /\ b.w \in Nat /\ b.h \in Nat
      /\ \A j : Covered(new, Len(new), j, w)
                  <=> Covered(boxes, Len(boxes), j, w) \/ Holds(b, j, w)
  BY <1>3, CutOne DEF new
<1>5. Len(boxes) \in Nat /\ Y(i, w) \in Nat
  BY <1>1, PixelIs DEF Cuts
<1>6. d \in [0..w - 1 -> Nat]
  BY <1>1, <1>4, <1>5
<1>7. ASSUME NEW x \in 0..w - 1 PROVE Reached(d[x], new, x)
  <2>1. d[x] = IF b.x <= x /\ x < b.x + b.w THEN b.y + b.h ELSE done[x]
    BY <1>1
  <2> HIDE DEF d
  <2>2. CASE b.x <= x /\ x < b.x + b.w
    <3>1. Len(new) \in 1..Len(new)
      BY <1>4, <1>5
    <3> QED BY <1>4, <2>1, <2>2, <3>1 DEF Reached
  <2>3. CASE ~(b.x <= x /\ x < b.x + b.w)
    <3>1. Reached(done[x], boxes, x) /\ d[x] = done[x]
      BY <1>1, <2>1, <2>3
    <3>2. \A k \in 1..Len(boxes) : k \in 1..Len(new)
      BY <1>4, <1>5
    <3> QED BY <1>4, <3>1, <3>2 DEF Reached
  <2> QED BY <2>2, <2>3
<1> HIDE DEF d
<1>8. ASSUME NEW k \in 1..Len(new) PROVE \E j \in 1..i : new[k].box.y = Y(j, w)
  <2>1. CASE k = Len(new)
    BY <1>4, <2>1
  <2>2. CASE k # Len(new)
    <3>1. k \in 1..Len(boxes)
      BY <1>4, <1>5, <2>2
    <3>2. PICK j \in 1..i - 1 : boxes[k].box.y = Y(j, w)
      BY <1>1, <3>1
    <3> QED BY <1>4, <3>1, <3>2
  <2> QED BY <2>1, <2>2
<1>9. ASSUME NEW j \in 1..i PROVE t.px[j] = bg \/ Covered(new, Len(new), j, w)
  <2>1. CASE j = i
    BY <1>4, <2>1
  <2>2. CASE j # i
    <3>1. j \in 1..i - 1
      BY <2>2
    <3> QED BY <1>1, <1>4, <3>1
  <2> QED BY <2>1, <2>2
<1>10. Cutting(d, new, t.px, w, h, bg, i)
  BY <1>4, <1>6, <1>7, <1>8, <1>9 DEF Cutting
<1>11. H!RreCut(st, b, t.px[i]).done = d /\ H!RreCut(st, b, t.px[i]).boxes = new
  BY DEF H!RreCut, d, new, With
<1> QED BY <1>10, <1>11

\* The boxes of RRE make the tile.
LEMMA RrePictures ==
  ASSUME NEW t \in Tiles, NEW bg \in Int
  PROVE  Pictured(H!RreBoxes(t, bg), t.px, t.w, t.h, bg)
<1>1. PICK a : RreSteps(a, t, bg)
  BY RreMade
<1>2. PICK w \in Nat \ {0}, h \in Nat, px \in {t.px} : w = t.w /\ h = t.h /\ px = t.px
  BY TileIs
<1>3. PICK n \in Nat : n = Cells(w, h) /\ n = H!Area(t)
  BY <1>2, TileIs
<1>4. t \in Canvas(w, h)
  BY <1>2, TileIs
<1>5. a[0].done = [x \in 0..w - 1 |-> 0] /\ a[0].boxes = <<>>
  BY <1>1, <1>2 DEF RreSteps
<1>6. \A i \in 1..n : a[i] = H!RreRectified(t, a[i - 1], X(i, w), Y(i, w), bg)
  BY <1>1, <1>2, <1>3 DEF RreSteps, X, Y
<1>7. H!RreBoxes(t, bg) = a[n].boxes
  BY <1>1, <1>3 DEF RreSteps
<1> DEFINE T0 == {i \in 0..n : Cutting(a[i].done, a[i].boxes, px, w, h, bg, i)}
<1>8. 0 \in T0
  <2>1. Cuts(a[0].boxes, px, w, h, bg) /\ Len(a[0].boxes) = 0
    BY <1>5 DEF Cuts
  <2>2. \A x \in 0..w - 1 : Reached(a[0].done[x], a[0].boxes, x)
    BY <1>5 DEF Reached
  <2>3. a[0].done \in [0..w - 1 -> Nat]
    BY <1>5
  <2> QED BY <2>1, <2>2, <2>3 DEF Cutting
<1>9. ASSUME NEW i \in 0..n - 1, i \in T0 PROVE i + 1 \in T0
  <2>1. PICK k \in 1..n : k = i + 1
    OBVIOUS
  <2>2. PICK done, boxes : done = a[i].done /\ boxes = a[i].boxes
    OBVIOUS
  <2>3. Cutting(done, boxes, px, w, h, bg, k - 1)
    BY <1>9, <2>1, <2>2
  <2>4. k \in 1..Cells(w, h)
    BY <1>3
  <2>5. /\ H!At(t, X(k, w), Y(k, w)) = px[k]
        /\ X(k, w) \in 0..w - 1 /\ Y(k, w) \in Nat /\ done[X(k, w)] \in Nat
    <3>1. /\ H!At(t, X(k, w), Y(k, w)) = t.px[k]
          /\ X(k, w) \in 0..w - 1 /\ Y(k, w) \in 0..h - 1
      BY <1>4, <2>4, PixelIs
    <3>2. done \in [0..w - 1 -> Nat]
      BY <2>3 DEF Cutting
    <3> QED BY <1>2, <3>1, <3>2
  <2> DEFINE b == RreCutOut(t, X(k, w), Y(k, w), done)
             c == px[k]
  <2>6. a[k] = H!RreRectified(t, a[i], X(k, w), Y(k, w), bg)
    BY <1>6, <2>1
  <2>7. LET e == H!At(t, X(k, w), Y(k, w)) IN
        a[k] = IF e = bg \/ a[i].done[X(k, w)] > Y(k, w) THEN a[i]
               ELSE H!RreCut(a[i], RreCutOut(t, X(k, w), Y(k, w), a[i].done), e)
    BY <2>6 DEF H!RreRectified, RreCutOut
  <2>8. a[k] = IF c = bg \/ done[X(k, w)] > Y(k, w) THEN a[i] ELSE H!RreCut(a[i], b, c)
    BY <2>2, <2>5, <2>7
  <2> HIDE DEF b
  <2>9. CASE c = bg \/ done[X(k, w)] > Y(k, w)
    <3>1. Cutting(done, boxes, px, w, h, bg, k)
      BY <2>3, <2>4, <2>9, PixelDone
    <3> QED BY <2>1, <2>2, <2>8, <2>9, <3>1
  <2>10. CASE ~(c = bg \/ done[X(k, w)] > Y(k, w))
    <3>1. Cutting(done, boxes, t.px, w, h, bg, k - 1) /\ t.px[k] # bg /\ c = t.px[k]
      BY <1>2, <2>3, <2>10
    <3>2. done[X(k, w)] <= Y(k, w)
      BY <2>5, <2>10
    <3>3. LET v == H!RreCut(a[i], b, c) IN Cutting(v.done, v.boxes, t.px, w, h, bg, k)
      BY <1>4, <2>2, <2>4, <3>1, <3>2, PixelBoxed DEF b
    <3> QED BY <1>2, <2>1, <2>8, <2>10, <3>3
  <2> QED BY <2>9, <2>10
<1>10. n \in T0
  <2> HIDE DEF T0
  <2> QED BY <1>8, <1>9, Climb
<1>11. PICK done, boxes : boxes = a[n].boxes /\ Cutting(done, boxes, px, w, h, bg, n)
  BY <1>10
<1>12. Pictured(boxes, px, w, h, bg)
  BY <1>3, <1>11 DEF Cutting, Pictured
<1> QED BY <1>2, <1>7, <1>11, <1>12

-----------------------------------------------------------------------------
(***************************************************************************)
(* Reading a message of RRE or CoRRE.                                      *)
(***************************************************************************)

\* Where the pieces of f begin in the sequence they are put together to.
Starts(z, f, n) ==
  /\ z[0] = 0
  /\ \A i \in 1..n : z[i] = z[i - 1] + Len(f[i])
  /\ \A i \in 0..n : z[i] \in Nat
  /\ Len(FlattenSeq(f)) = z[n]
  /\ \A i \in 1..n : \A k \in 1..Len(f[i]) : FlattenSeq(f)[z[i - 1] + k] = f[i][k]

\* Pieces put together can be told apart again.
LEMMA PiecesAre ==
  ASSUME NEW n \in Nat, NEW f, On(f, n), \A i \in 1..n : IsSeq(f[i])
  PROVE  \E z : Starts(z, f, n)
<1>1. CASE n = 0
  <2>1. FlattenSeq(f) = <<>>
    BY <1>1, FlattenIs
  <2> DEFINE z == [i \in 0..0 |-> 0]
  <2>2. z[0] = 0
    OBVIOUS
  <2>3. Len(FlattenSeq(f)) = 0
    BY <2>1, EmptyIsSeq
  <2> HIDE DEF z
  <2>4. Starts(z, f, n)
    BY <1>1, <2>2, <2>3 DEF Starts
  <2> QED BY <2>4
<1>2. CASE n # 0
  <2>1. PICK g : Flattening(g, f, n)
    BY <1>2, FlattenIs
  <2>2. /\ g[1] = f[1] /\ FlattenSeq(f) = g[n]
        /\ \A i \in 1..n - 1 : g[i + 1] = g[i] \o f[i + 1]
        /\ \A i \in 1..n : IsSeq(g[i])
    BY <2>1 DEF Flattening
  <2> DEFINE z == [i \in 0..n |-> IF i = 0 THEN 0 ELSE Len(g[i])]
  <2>3. z[0] = 0 /\ \A i \in 1..n : z[i] = Len(g[i])
    OBVIOUS
  <2>4. \A i \in 0..n : z[i] \in Nat
    <3>1. \A i \in 1..n : z[i] \in Nat
      BY <2>2, <2>3, SeqIs
    <3> HIDE DEF z
    <3> QED BY <2>3, <3>1
  <2> HIDE DEF z
  <2>5. ASSUME NEW i \in 1..n - 1, NEW m \in 1..n, m = i + 1
        PROVE  /\ z[m] = z[i] + Len(f[m])
               /\ \A k \in 1..Len(g[i]) : g[m][k] = g[i][k]
               /\ \A k \in 1..Len(f[m]) : g[m][z[i] + k] = f[m][k]
    <3> DEFINE a == g[i]
               b == f[m]
    <3>1. g[i + 1] = g[i] \o f[i + 1]
      BY <2>2
    <3>2. g[m] = a \o b
      BY <2>5, <3>1
    <3>3. IsSeq(a) /\ IsSeq(b)
      BY <2>2
    <3> HIDE DEF a, b
    <3>4. /\ Len(a \o b) = Len(a) + Len(b)
          /\ \A k \in 1..Len(a) : (a \o b)[k] = a[k]
          /\ \A k \in 1..Len(b) : (a \o b)[Len(a) + k] = b[k]
      BY <3>3, ConcatIsSeq
    <3>5. z[m] = Len(g[m]) /\ z[i] = Len(a)
      BY <2>3 DEF a
    <3> QED BY <3>2, <3>4, <3>5 DEF a, b
  <2>6. ASSUME NEW i \in 1..n PROVE z[i] = z[i - 1] + Len(f[i])
    <3>1. CASE i = 1
      BY <2>2, <2>3, <2>4, <3>1
    <3>2. CASE i # 1
      <4>1. PICK j \in 1..n - 1 : i = j + 1
        <5>1. i - 1 \in 1..n - 1 /\ i = (i - 1) + 1
          BY <3>2
        <5> QED BY <5>1
      <4>2. z[i] = z[j] + Len(f[i]) /\ i - 1 = j
        BY <2>5, <4>1
      <4> QED BY <4>2
    <3> QED BY <3>1, <3>2
  <2> DEFINE Right(i) == \A j \in 1..i : \A k \in 1..Len(f[j]) :
                           z[j - 1] + k \in 1..z[i] /\ g[i][z[j - 1] + k] = f[j][k]
             T0 == {i \in 0..n : Right(i)}
  <2>7. 0 \in T0
    OBVIOUS
  <2>8. ASSUME NEW i \in 0..n - 1, i \in T0 PROVE i + 1 \in T0
    <3>1. PICK m \in 1..n : m = i + 1
      OBVIOUS
    <3>2. ASSUME NEW j \in 1..m, NEW k \in 1..Len(f[j])
          PROVE  z[j - 1] + k \in 1..z[m] /\ g[m][z[j - 1] + k] = f[j][k]
      <4>1. CASE i = 0
        <5>1. j = 1 /\ m = 1 /\ j - 1 = 0
          BY <3>1, <4>1
        <5>2. z[1] = Len(f[1]) /\ z[0] = 0 /\ g[1] = f[1]
          BY <2>2, <2>3
        <5>3. z[j - 1] + k = k /\ Len(f[j]) = z[m]
          BY <5>1, <5>2
        <5> QED BY <5>1, <5>2, <5>3
      <4>2. CASE i # 0
        <5>1. i \in 1..n - 1
          BY <4>2
        <5>2. /\ z[m] = z[i] + Len(f[m])
              /\ \A l \in 1..Len(g[i]) : g[m][l] = g[i][l]
              /\ \A l \in 1..Len(f[m]) : g[m][z[i] + l] = f[m][l]
          BY <2>5, <3>1, <5>1
        <5>3. z[i] = Len(g[i]) /\ z[i] \in Nat /\ Len(f[m]) \in Nat
          BY <2>3, <2>4, <5>1, SeqIs
        <5>4. z[m] = z[i] + Len(f[m])
          BY <5>2
        <5>5. PICK l \in Nat, p \in Nat, q \in {z[m]} : l = Len(f[m]) /\ p = z[i] /\ q = z[m]
          BY <5>3
        <5>6. q = p + l
          BY <5>4, <5>5
        <5>7. p <= q /\ q \in Nat
          BY <5>6
        <5>8. CASE j = m
          <6> HIDE DEF T0, Right
          <6>1. j - 1 = i
            BY <3>1, <5>8
          <6>2. k \in 1..Len(f[m])
            BY <5>8
          <6>3. g[m][z[i] + k] = f[m][k]
            BY <5>2, <6>2
          <6>4. z[i] + k \in 1..z[m]
            BY <5>5, <5>6, <6>2
          <6> QED BY <5>8, <6>1, <6>3, <6>4
        <5>9. CASE j # m
          <6>1. j \in 1..i
            BY <3>1, <5>9
          <6>2. z[j - 1] + k \in 1..z[i] /\ g[i][z[j - 1] + k] = f[j][k]
            BY <2>8, <6>1
          <6> HIDE DEF T0, Right
          <6>3. z[j - 1] + k \in 1..Len(g[i])
            BY <5>3, <6>2
          <6>4. z[j - 1] + k \in 1..z[m]
            BY <5>7, <5>5, <6>2
          <6>5. g[m][z[j - 1] + k] = g[i][z[j - 1] + k]
            BY <5>2, <6>3
          <6> QED BY <6>2, <6>5, <6>4
        <5> QED BY <5>8, <5>9
      <4> QED BY <4>1, <4>2
    <3> QED BY <3>1, <3>2
  <2>9. n \in T0
    <3> HIDE DEF T0
    <3> QED BY <2>7, <2>8, Climb
  <2>10. Len(FlattenSeq(f)) = z[n]
    BY <1>2, <2>2, <2>3
  <2>11. Starts(z, f, n)
    BY <2>2, <2>3, <2>4, <2>6, <2>9, <2>10 DEF Starts
  <2> QED BY <2>11
<1> QED BY <1>1, <1>2

\* Pieces of the same length.
Even(f, n, e) == On(f, n) /\ \A i \in 1..n : IsSeq(f[i]) /\ Len(f[i]) = e

\* The k-th field of the i-th of them is where one expects it.
LEMMA EvenPieces ==
  ASSUME NEW n \in Nat, NEW e \in Nat, NEW f, Even(f, n, e)
  PROVE  /\ IsSeq(FlattenSeq(f)) /\ Len(FlattenSeq(f)) = Cells(n, e)
         /\ \A i \in 1..n : \A k \in 1..e :
              /\ Cells(i - 1, e) + k \in 1..Cells(n, e)
              /\ FlattenSeq(f)[Cells(i - 1, e) + k] = f[i][k]
<1> USE DEF Even
<1>1. PICK z : Starts(z, f, n)
  BY PiecesAre
<1>2. /\ z[0] = 0 /\ \A i \in 1..n : z[i] = z[i - 1] + e
      /\ \A i \in 0..n : z[i] \in Nat /\ Len(FlattenSeq(f)) = z[n]
      /\ \A i \in 1..n : \A k \in 1..e : FlattenSeq(f)[z[i - 1] + k] = f[i][k]
  BY <1>1 DEF Starts
<1>3. Cells(0, e) = 0
  BY DEF Cells
<1>4. \A i \in Nat : Cells(i, e) \in Nat
  BY CellsIs
<1>5. ASSUME NEW i \in Nat, NEW m, m = i + 1 PROVE Cells(m, e) = Cells(i, e) + e
  <2>1. (i + 1) * e = i * e + e
    OBVIOUS
  <2> QED BY <1>5, <2>1 DEF Cells
<1> DEFINE T0 == {i \in 0..n : \A j \in 0..i : z[j] = Cells(j, e) /\ Cells(j, e) <= Cells(i, e)}
<1>6. 0 \in T0
  BY <1>2, <1>3
<1>7. ASSUME NEW i \in 0..n - 1, i \in T0 PROVE i + 1 \in T0
  <2>1. PICK m \in 1..n : m = i + 1
    OBVIOUS
  <2>2. z[m] = z[i] + e
    BY <1>2, <2>1
  <2>3. i \in Nat /\ z[i] = Cells(i, e)
    BY <1>7
  <2>4. Cells(m, e) = Cells(i, e) + e
    <3> HIDE DEF T0
    <3> QED BY <1>5, <2>1, <2>3
  <2>5. z[m] = Cells(m, e) /\ Cells(m, e) = Cells(i, e) + e /\ Cells(i, e) \in Nat
    BY <1>4, <2>2, <2>3, <2>4
  <2>6. ASSUME NEW j \in 0..m PROVE z[j] = Cells(j, e) /\ Cells(j, e) <= Cells(m, e)
    <3>1. CASE j = m
      BY <2>5, <3>1
    <3>2. CASE j # m
      <4>1. j \in 0..i
        BY <2>1, <3>2
      <4>2. z[j] = Cells(j, e) /\ Cells(j, e) <= Cells(i, e) /\ Cells(j, e) \in Nat
        BY <1>4, <1>7, <4>1
      <4> HIDE DEF T0
      <4> QED BY <2>5, <4>2
    <3> QED BY <3>1, <3>2
  <2> QED BY <2>1, <2>6
<1>8. n \in T0
  <2> HIDE DEF T0
  <2> QED BY <1>6, <1>7, Climb
<1>9. IsSeq(FlattenSeq(f))
  BY FlattenIsSeq
<1>10. ASSUME NEW i \in 1..n, NEW k \in 1..e
      PROVE  /\ Cells(i - 1, e) + k \in 1..Cells(n, e)
             /\ FlattenSeq(f)[Cells(i - 1, e) + k] = f[i][k]
  <2>1. PICK j \in 0..n - 1 : j = i - 1 /\ i = j + 1
    <3>1. i - 1 \in 0..n - 1 /\ i = (i - 1) + 1
      OBVIOUS
    <3> QED BY <3>1
  <2>2. j \in Nat
    OBVIOUS
  <2>3. Cells(i, e) = Cells(j, e) + e
    <3> HIDE DEF T0
    <3> QED BY <1>5, <2>1, <2>2
  <2>4. Cells(i, e) = Cells(j, e) + e /\ Cells(j, e) \in Nat /\ Cells(n, e) \in Nat
    BY <1>4, <2>2, <2>3
  <2>5. z[j] = Cells(j, e) /\ Cells(i, e) <= Cells(n, e)
    BY <1>8, <2>1
  <2> QED BY <1>2, <2>1, <2>4, <2>5
<1> QED BY <1>2, <1>8, <1>9, <1>10

\* The boxes that are read are those that were found.
Reads(r, boxes, px, w, h, bg) ==
  /\ Pictured(boxes, px, w, h, bg)
  /\ \A k \in 1..Len(boxes) : r[k] = boxes[k]

\* Then they make the tile.
LEMMA PictureShows ==
  ASSUME NEW w \in Nat \ {0}, NEW h \in Nat, NEW px \in Seq(Int), Len(px) = Cells(w, h),
         NEW bg \in Int, NEW boxes, NEW r, Reads(r, boxes, px, w, h, bg)
  PROVE  /\ \E g : Paints(g, H!Blank(w, h, bg), Len(boxes), r)
         /\ \A g : Paints(g, H!Blank(w, h, bg), Len(boxes), r) => g[Len(boxes)].px = px
<1> DEFINE n == Len(boxes)
<1>1. /\ boxes \in Seq(Boxing(w, h))
      /\ \A k \in 1..n : Sound(boxes[k], px, w, h)
      /\ \A j \in 1..Cells(w, h) : px[j] = bg \/ Covered(boxes, n, j, w)
      /\ \A k \in 1..n : r[k] = boxes[k]
  BY DEF Reads, Pictured, Cuts
<1>2. n \in Nat /\ \A k \in 1..n : boxes[k] \in Boxing(w, h)
  BY <1>1
<1> HIDE DEF n
<1>3. \A k \in 1..n : r[k].colour \in Int /\ Sound(r[k], px, w, h)
  BY <1>1, <1>2 DEF Boxing
<1>4. Makes(r, n, px, w, h, bg)
  BY <1>1, <1>3 DEF Covered, Makes
<1>5. /\ \E g : Paints(g, H!Blank(w, h, bg), n, r)
      /\ \A g : Paints(g, H!Blank(w, h, bg), n, r) => g[n].px = px
  BY <1>2, <1>4, PaintingShows
<1> QED BY <1>5 DEF n

\* Box i of a message of RRE.
RreRead(m, i) ==
  [box |-> H!Box(m[3 + (i - 1) * 5 + 2].value, m[3 + (i - 1) * 5 + 3].value,
                 m[3 + (i - 1) * 5 + 4].value, m[3 + (i - 1) * 5 + 5].value),
   colour |-> m[3 + (i - 1) * 5 + 1].value]

\* A message with these boxes.
Coded(m, boxes, px, w, h, bg) ==
  /\ Pictured(boxes, px, w, h, bg)
  /\ m[1].value # 0 /\ m[2].value = Len(boxes) /\ m[3].value = bg
  /\ Len(m) = 3 + 5 * Len(boxes)
  /\ \A k \in 1..Len(boxes) : RreRead(m, k) = boxes[k]

\* It shows the tile.
LEMMA RreShows ==
  ASSUME NEW w \in Nat \ {0}, NEW h \in Nat, NEW px \in Seq(Int), Len(px) = Cells(w, h),
         NEW bg \in Int, NEW boxes, NEW m, Coded(m, boxes, px, w, h, bg)
  PROVE  H!RreShown(w, h, m) = px
<1> DEFINE n == m[2].value
           t == H!Blank(w, h, m[3].value)
           Loop(g) == g = [i \in 0..n |->
             IF i = 0 THEN t ELSE H!Painted(g[i - 1], RreRead(m, i).box, RreRead(m, i).colour)]
           a == CHOOSE g : Loop(g)
           r == [i \in 1..n |-> RreRead(m, i)]
<1> USE DEF Coded
<1>1. H!RreShown(w, h, m) = IF m[1].value = 0 THEN H!Values(Tail(m))
                            ELSE IF Len(m) # 3 + 5 * n THEN H!Garbled ELSE a[n].px
  BY DEF H!RreShown, H!PaintAll, RreRead
<1>2. \A g : Loop(g) <=> Paints(g, t, n, r)
  <2>1. ASSUME NEW i \in 1..n PROVE r[i] = RreRead(m, i)
    OBVIOUS
  <2> HIDE DEF r
  <2>2. n \in Nat
    BY DEF Pictured, Cuts
  <2>3. ASSUME NEW g
        PROVE  [i \in 0..n |->
                  IF i = 0 THEN t
                  ELSE H!Painted(g[i - 1], RreRead(m, i).box, RreRead(m, i).colour)]
               = [i \in 0..n |-> IF i = 0 THEN t ELSE H!Painted(g[i - 1], r[i].box, r[i].colour)]
    <3>1. \A i \in 0..n : i = 0 \/ i \in 1..n
      BY <2>2
    <3> HIDE DEF t, n
    <3> QED BY <2>1, <3>1
  <2> QED BY <2>3 DEF Paints
<1>3. \A k \in 1..Len(boxes) : r[k] = boxes[k]
  OBVIOUS
<1> HIDE DEF a, Loop, r
<1>4. Reads(r, boxes, px, w, h, bg)
  BY <1>3 DEF Reads
<1>5. /\ \E g : Paints(g, H!Blank(w, h, bg), Len(boxes), r)
      /\ \A g : Paints(g, H!Blank(w, h, bg), Len(boxes), r) => g[Len(boxes)].px = px
  BY <1>4, PictureShows
<1>6. Loop(a)
  BY <1>2, <1>5 DEF a
<1>7. a[n].px = px
  BY <1>2, <1>5, <1>6
<1> QED BY <1>1, <1>7

\* The pixels as they are.
Plain(m, x, b, px) == m = <<x>> \o H!Pixels(b, px)

\* They are read back.
LEMMA RawReads ==
  ASSUME NEW x, NEW b \in Nat \ {0}, NEW px \in Seq(Int), NEW m, Plain(m, x, b, px)
  PROVE  m[1] = x /\ H!Values(Tail(m)) = px
<1> DEFINE p == H!Pixels(b, px)
<1>1. IsSeq(p) /\ Len(p) = Len(px) /\ \A i \in 1..Len(px) : p[i].value = px[i]
  <2>1. p = T!Pixels(b, px)
    BY PixelsSize
  <2> QED BY <2>1, PixelsAre
<1> HIDE DEF p
<1>2. /\ IsSeq(m) /\ Len(m) = 1 + Len(p) /\ m[1] = x
      /\ \A i \in 1..Len(p) : m[1 + i] = p[i]
  BY <1>1, HeadIs DEF p, Plain
<1>3. /\ IsSeq(Tail(m)) /\ Len(Tail(m)) = Len(p)
      /\ \A i \in 1..Len(p) : Tail(m)[i] = m[i + 1]
  <2>1. PICK S : m \in Seq(S)
    BY <1>2 DEF IsSeq
  <2>2. Len(p) \in Nat
    BY <1>1, SeqIs
  <2>3. m # <<>>
    BY <1>2, <2>2, EmptyIsSeq
  <2>4. Tail(m) \in Seq(S)
    BY <2>1, <2>3
  <2> QED BY <1>2, <2>1, <2>2, <2>3, <2>4 DEF IsSeq
<1> DEFINE s == Tail(m)
           v == H!Values(s)
<1> HIDE DEF s
<1>4. DOMAIN s = 1..Len(px) /\ Len(px) \in Nat
  BY <1>1, <1>3, SeqIs DEF s
<1>5. On(v, Len(px)) /\ \A i \in 1..Len(px) : v[i] = s[i].value
  BY <1>4 DEF H!Values, On
<1> HIDE DEF v
<1>6. IsSeq(v) /\ Len(v) = Len(px)
  BY <1>4, <1>5, FunctionIsSeq
<1>7. \A i \in 1..Len(px) : v[i] = px[i]
  <2>1. ASSUME NEW i \in 1..Len(px) PROVE s[i] = p[i]
    BY <1>1, <1>2, <1>3 DEF s
  <2> QED BY <1>1, <1>5, <2>1
<1>8. IsSeq(px)
  BY DEF IsSeq
<1>9. v = px
  BY <1>6, <1>7, <1>8, SameSeq
<1> QED BY <1>2, <1>9 DEF v, s

-----------------------------------------------------------------------------
(***************************************************************************)
(* The scan of a tile for its background.                                  *)
(***************************************************************************)

Scans == [colour : [H!Slots -> Int], count : [H!Slots -> Nat], at : H!Slots]

\* There is always a slot for a colour: the one that has it, or one of the
\* lowest count, the first from the last one used on.
LEMMA SlotIs ==
  ASSUME NEW s \in Scans, NEW c
  PROVE  LET j == H!SlotFor(s, c)
         IN /\ j \in H!Slots
            /\ (\E k \in H!Slots : H!Holds(s, k, c)) => H!Holds(s, j, c)
            /\ ~(\E k \in H!Slots : H!Holds(s, k, c)) =>
                 \A k \in H!Slots : \/ s.count[j] < s.count[k]
                                    \/ s.count[j] = s.count[k] /\ H!Before(s, j, k)
<1> DEFINE Low(j, k) == \/ s.count[j] < s.count[k]
                        \/ s.count[j] = s.count[k] /\ H!Before(s, j, k)
<1>1. H!Slots = {0, 1, 2}
  BY DEF H!Slots
<1>2. \E j \in H!Slots : \A k \in H!Slots : Low(j, k)
  <2> DEFINE B(j, k) == H!Before(s, j, k)
  <2>1. /\ s.count[0] \in Nat /\ s.count[1] \in Nat /\ s.count[2] \in Nat
        /\ s.at \in {0, 1, 2}
    BY <1>1 DEF Scans
  <2>2. /\ B(0, 0) /\ B(1, 1) /\ B(2, 2) /\ (B(0, 1) \/ B(1, 0))
        /\ (B(0, 2) \/ B(2, 0)) /\ (B(1, 2) \/ B(2, 1))
        /\ (B(0, 1) /\ B(1, 2) => B(0, 2)) /\ (B(0, 2) /\ B(2, 1) => B(0, 1))
        /\ (B(1, 0) /\ B(0, 2) => B(1, 2)) /\ (B(1, 2) /\ B(2, 0) => B(1, 0))
        /\ (B(2, 0) /\ B(0, 1) => B(2, 1)) /\ (B(2, 1) /\ B(1, 0) => B(2, 0))
    BY <2>1 DEF H!Before
  <2> HIDE DEF B
  <2> DEFINE L(j, k) == \/ s.count[j] < s.count[k]
                        \/ s.count[j] = s.count[k] /\ B(j, k)
  <2>3. \/ L(0, 0) /\ L(0, 1) /\ L(0, 2)
        \/ L(1, 0) /\ L(1, 1) /\ L(1, 2)
        \/ L(2, 0) /\ L(2, 1) /\ L(2, 2)
    BY <2>1, <2>2
  <2>4. \A j, k : L(j, k) => Low(j, k)
    BY DEF B
  <2> HIDE DEF L, Low
  <2> QED BY <1>1, <2>3, <2>4
<1>3. CASE \E k \in H!Slots : H!Holds(s, k, c)
  BY <1>3 DEF H!SlotFor
<1>4. CASE ~(\E k \in H!Slots : H!Holds(s, k, c))
  <2>1. H!SlotFor(s, c) = CHOOSE j \in H!Slots : \A k \in H!Slots : Low(j, k)
    BY <1>4 DEF H!SlotFor
  <2> HIDE DEF Low
  <2>2. H!SlotFor(s, c) \in H!Slots /\ \A k \in H!Slots : Low(H!SlotFor(s, c), k)
    BY <1>2, <2>1
  <2> QED BY <1>4, <2>2 DEF Low
<1> QED BY <1>3, <1>4

\* What is known after i pixels: the slots are taken in their order, and as
\* long as one is free, the others have all the colours.
ScanInv(s, px, i) ==
  /\ s \in Scans
  /\ i > 0 => s.count[0] > 0
  /\ s.count[0] = 0 => s.count[1] = 0
  /\ s.count[1] = 0 => s.count[2] = 0 /\ s.at = 0
  /\ s.count[2] = 0 => \A j \in 1..i : \/ s.count[0] > 0 /\ px[j] = s.colour[0]
                                       \/ s.count[1] > 0 /\ px[j] = s.colour[1]

\* One pixel more.
LEMMA ScanStep ==
  ASSUME NEW px, NEW i \in Nat \ {0}, NEW s, ScanInv(s, px, i - 1), px[i] \in Int
  PROVE  ScanInv(H!Tallied(s, px[i]), px, i)
<1> DEFINE c == px[i]
           j == H!SlotFor(s, c)
           t == H!Tallied(s, c)
<1>1. s \in Scans /\ H!Slots = {0, 1, 2}
  BY DEF ScanInv, H!Slots
<1>2. /\ j \in {0, 1, 2}
      /\ (\E k \in H!Slots : H!Holds(s, k, c)) => H!Holds(s, j, c)
      /\ ~(\E k \in H!Slots : H!Holds(s, k, c)) =>
           \A k \in H!Slots : \/ s.count[j] < s.count[k]
                              \/ s.count[j] = s.count[k] /\ H!Before(s, j, k)
  BY <1>1, SlotIs
<1>3. t = [colour |-> [s.colour EXCEPT ![j] = c],
           count |-> [s.count EXCEPT ![j] = IF s.colour[j] = c THEN @ + 1 ELSE 1],
           at |-> j]
  BY DEF H!Tallied, H!Counted
<1> HIDE DEF j, t
<1>4. /\ t.colour = [s.colour EXCEPT ![j] = c] /\ t.at = j
      /\ t.count = [s.count EXCEPT ![j] = IF s.colour[j] = c THEN @ + 1 ELSE 1]
  BY <1>3
<1>5. /\ s.colour \in [{0, 1, 2} -> Int] /\ s.count \in [{0, 1, 2} -> Nat]
      /\ s.at \in {0, 1, 2}
  BY <1>1 DEF Scans
<1>6. t \in Scans
  <2>1. t.colour \in [{0, 1, 2} -> Int] /\ t.count \in [{0, 1, 2} -> Nat]
    BY <1>2, <1>4, <1>5
  <2> QED BY <1>1, <1>2, <1>3, <1>4, <2>1 DEF Scans
<1>7. /\ \A k \in {0, 1, 2} : k # j => t.count[k] = s.count[k] /\ t.colour[k] = s.colour[k]
      /\ t.count[j] > 0 /\ t.colour[j] = c
  BY <1>2, <1>4, <1>5
<1>8. /\ s.count[0] = 0 => s.count[1] = 0
      /\ s.count[1] = 0 => s.count[2] = 0 /\ s.at = 0
      /\ s.count[2] = 0 => \A k \in 1..i - 1 : \/ s.count[0] > 0 /\ px[k] = s.colour[0]
                                               \/ s.count[1] > 0 /\ px[k] = s.colour[1]
      /\ i - 1 > 0 => s.count[0] > 0
  BY DEF ScanInv
<1>9. \A k \in 1..i : k = i \/ k \in 1..i - 1
  OBVIOUS
<1>10. s.count[0] \in Nat /\ s.count[1] \in Nat /\ s.count[2] \in Nat
  BY <1>5
<1>11. CASE H!Holds(s, j, c)
  <2>1. s.count[j] > 0 /\ s.colour[j] = c
    BY <1>11 DEF H!Holds
  <2>2. \A k \in {0, 1, 2} : t.colour[k] = s.colour[k] /\ (t.count[k] = 0 <=> s.count[k] = 0)
    BY <1>2, <1>4, <1>5, <2>1
  <2>3. t.count[0] \in Nat /\ t.count[1] \in Nat /\ t.count[2] \in Nat
    BY <1>6, <1>1 DEF Scans
  <2>4. t.count[1] = 0 => t.count[2] = 0 /\ t.at = 0
    BY <1>2, <1>4, <1>8, <1>10, <2>1, <2>2
  <2>5. t.count[0] = 0 => t.count[1] = 0
    BY <1>8, <2>2
  <2>6. t.count[0] > 0
    BY <1>2, <1>8, <1>10, <2>1, <2>2, <2>3
  <2>7. t.count[2] = 0 => \A k \in 1..i : \/ t.count[0] > 0 /\ px[k] = t.colour[0]
                                          \/ t.count[1] > 0 /\ px[k] = t.colour[1]
    <3> SUFFICES ASSUME t.count[2] = 0, NEW k \in 1..i
                 PROVE  \/ t.count[0] > 0 /\ px[k] = t.colour[0]
                        \/ t.count[1] > 0 /\ px[k] = t.colour[1]
      OBVIOUS
    <3>1. CASE k = i
      BY <1>2, <1>7, <3>1
    <3>2. CASE k # i
      BY <1>8, <1>9, <1>10, <2>2, <2>3, <3>2
    <3> QED BY <3>1, <3>2
  <2> QED BY <1>6, <2>4, <2>5, <2>6, <2>7 DEF ScanInv, t
<1>12. CASE ~H!Holds(s, j, c)
  <2>1. \A k \in {0, 1, 2} : \/ s.count[j] < s.count[k]
                             \/ s.count[j] = s.count[k] /\ H!Before(s, j, k)
    BY <1>1, <1>2, <1>12
  <2>2. s.count[0] = 0 => j = 0
    <3> SUFFICES ASSUME s.count[0] = 0 PROVE j = 0
      OBVIOUS
    <3>1. s.count[1] = 0 /\ s.count[2] = 0 /\ s.at = 0
      BY <1>8
    <3>2. H!Before(s, j, 0)
      BY <1>2, <1>10, <2>1, <3>1
    <3> QED BY <1>2, <3>1, <3>2 DEF H!Before
  <2>3. s.count[0] # 0 /\ s.count[1] = 0 => j = 1
    <3> SUFFICES ASSUME s.count[0] # 0, s.count[1] = 0 PROVE j = 1
      OBVIOUS
    <3>1. s.count[2] = 0 /\ s.at = 0
      BY <1>8
    <3>2. j # 0 /\ H!Before(s, j, 1)
      BY <1>2, <1>10, <2>1, <3>1
    <3> QED BY <1>2, <3>1, <3>2 DEF H!Before
  <2>4. s.count[1] # 0 /\ s.count[2] = 0 => j = 2
    BY <1>2, <1>8, <1>10, <2>1
  <2>5. t.count[0] \in Nat /\ t.count[1] \in Nat /\ t.count[2] \in Nat
    BY <1>6, <1>1 DEF Scans
  <2>6. /\ t.count[0] > 0
        /\ t.count[1] = 0 => t.count[2] = 0 /\ t.at = 0
    <3>1. CASE s.count[0] = 0
      BY <1>4, <1>7, <1>8, <2>2, <3>1
    <3>2. CASE s.count[0] # 0 /\ s.count[1] = 0
      BY <1>4, <1>7, <1>10, <2>3, <3>2
    <3>3. CASE s.count[1] # 0
      BY <1>2, <1>7, <1>8, <1>10, <2>5, <3>3
    <3> QED BY <3>1, <3>2, <3>3
  <2>7. ASSUME t.count[2] = 0, NEW k \in 1..i
        PROVE  \/ t.count[0] > 0 /\ px[k] = t.colour[0]
               \/ t.count[1] > 0 /\ px[k] = t.colour[1]
    <3>1. j # 2
      BY <1>7, <2>7
    <3>2. s.count[2] = 0 /\ s.count[1] = 0
      BY <1>7, <2>4, <2>7, <3>1
    <3>3. CASE k = i
      BY <1>2, <1>7, <3>1, <3>3
    <3>4. CASE k # i
      <4>1. s.count[0] > 0 /\ px[k] = s.colour[0]
        BY <1>8, <1>9, <3>2, <3>4
      <4>2. j = 1
        BY <1>10, <2>3, <3>2, <4>1
      <4> QED BY <1>7, <4>1, <4>2
    <3> QED BY <3>3, <3>4
  <2> QED BY <1>6, <2>5, <2>6, <2>7 DEF ScanInv, t
<1> QED BY <1>11, <1>12

\* The scan of the whole tile.
LEMMA ScanEnds ==
  ASSUME NEW px \in Seq(Int), Len(px) # 0
  PROVE  ScanInv(H!Scan(px), px, Len(px))
<1> DEFINE n == Len(px)
           start == [colour |-> [j \in H!Slots |-> px[1]], count |-> [j \in H!Slots |-> 0],
                     at |-> 0]
           Loop(g) == g = [i \in 0..n |->
                             IF i = 0 THEN start ELSE H!Tallied(g[i - 1], px[i])]
           a == CHOOSE g : Loop(g)
           F == [z \in Scans \X (1..n) |-> H!Tallied(z[1], px[z[2]])]
<1>1. n \in Nat \ {0} /\ \A i \in 1..n : px[i] \in Int
  OBVIOUS
<1>2. H!Scan(px) = a[n]
  BY DEF H!Scan
<1>3. start \in Scans /\ start.count[0] = 0 /\ start.count[1] = 0 /\ start.count[2] = 0
      /\ start.at = 0
  <2>1. 1 \in 1..n
    BY <1>1
  <2> QED BY <1>1, <2>1 DEF Scans, H!Slots
<1> HIDE DEF start, n, a
<1>4. \A i \in 1..n, s \in Scans : F[<<s, i>>] = H!Tallied(s, px[i])
  OBVIOUS
<1> HIDE DEF F
<1>5. ASSUME NEW i \in 1..n, NEW s \in Scans PROVE H!Tallied(s, px[i]) \in Scans
  <2> DEFINE j == H!SlotFor(s, px[i])
  <2>1. j \in H!Slots
    BY SlotIs
  <2>2. /\ s.colour \in [H!Slots -> Int] /\ s.count \in [H!Slots -> Nat] /\ px[i] \in Int
    BY <1>1 DEF Scans
  <2>3. H!Tallied(s, px[i]) =
          [colour |-> [s.colour EXCEPT ![j] = px[i]],
           count |-> [s.count EXCEPT ![j] = IF s.colour[j] = px[i] THEN @ + 1 ELSE 1],
           at |-> j]
    BY DEF H!Tallied, H!Counted
  <2> HIDE DEF j
  <2>4. /\ [s.colour EXCEPT ![j] = px[i]] \in [H!Slots -> Int]
        /\ [s.count EXCEPT ![j] = IF s.colour[j] = px[i] THEN @ + 1 ELSE 1]
             \in [H!Slots -> Nat]
    BY <2>1, <2>2
  <2> QED BY <2>1, <2>3, <2>4 DEF Scans
<1>6. PICK g : Goes(g, start, n, F) /\ \A i \in 0..n : g[i] \in Scans
  <2>1. \A i \in 1..n, s \in Scans : F[<<s, i>>] \in Scans
    BY <1>4, <1>5
  <2> QED BY <1>1, <1>3, <2>1, Repeats
<1>7. Loop(g)
  <2>1. ASSUME NEW i \in 0..n, i # 0 PROVE F[<<g[i - 1], i>>] = H!Tallied(g[i - 1], px[i])
    <3>1. i \in 1..n /\ g[i - 1] \in Scans
      BY <1>1, <1>6, <2>1
    <3> QED BY <1>4, <3>1
  <2>2. g = [i \in 0..n |-> IF i = 0 THEN start ELSE F[<<g[i - 1], i>>]]
    BY <1>6 DEF Goes
  <2> QED BY <2>1, <2>2
<1>8. Loop(a)
  <2> HIDE DEF Loop
  <2> QED BY <1>7 DEF a
<1>9. a[0] = start /\ \A i \in 1..n : a[i] = H!Tallied(a[i - 1], px[i])
  BY <1>1, <1>8
<1> HIDE DEF Loop
<1> DEFINE T0 == {i \in 0..n : ScanInv(a[i], px, i)}
<1>10. 0 \in T0
  BY <1>1, <1>3, <1>9 DEF ScanInv
<1>11. ASSUME NEW i \in 0..n - 1, i \in T0 PROVE i + 1 \in T0
  <2>1. PICK k \in 1..n : k = i + 1 /\ k - 1 = i
    <3>1. i + 1 \in 1..n /\ (i + 1) - 1 = i
      BY <1>1
    <3> QED BY <3>1
  <2>2. ScanInv(a[i], px, k - 1) /\ px[k] \in Int /\ k \in Nat \ {0}
    BY <1>1, <1>11, <2>1
  <2>3. ScanInv(H!Tallied(a[i], px[k]), px, k)
    BY <2>2, ScanStep
  <2>4. a[k] = H!Tallied(a[i], px[k])
    BY <1>9, <2>1
  <2> QED BY <1>1, <2>1, <2>3, <2>4
<1>12. n \in T0
  <2> HIDE DEF T0
  <2> QED BY <1>1, <1>10, <1>11, Climb
<1> QED BY <1>2, <1>12 DEF n

\* What the scan says of a tile is so.
LEMMA ScanIs ==
  ASSUME NEW px \in Seq(Int), Len(px) # 0, NEW s, s = H!Scan(px)
  PROVE  /\ H!Background(s) \in Int
         /\ H!Flags(s) \in {{"bg"}, {"bg", "fg", "subrects"}, {"bg", "subrects", "coloured"}}
         /\ H!Flags(s) = {"bg"} => \A j \in 1..Len(px) : px[j] = H!Background(s)
         /\ "fg" \in H!Flags(s) =>
              \A j \in 1..Len(px) : px[j] \in {H!Background(s), H!Foreground(s)}
<1> DEFINE k == H!Most(s)
<1>1. ScanInv(s, px, Len(px)) /\ Len(px) > 0
  BY ScanEnds
<1>2. /\ s.count \in [{0, 1, 2} -> Nat] /\ s.colour \in [{0, 1, 2} -> Int]
      /\ s.count[0] > 0 /\ (s.count[1] = 0 => s.count[2] = 0)
      /\ s.count[2] = 0 => \A j \in 1..Len(px) :
                              \/ s.count[0] > 0 /\ px[j] = s.colour[0]
                              \/ s.count[1] > 0 /\ px[j] = s.colour[1]
  BY <1>1 DEF ScanInv, Scans, H!Slots
<1>3. s.count[0] \in Nat /\ s.count[1] \in Nat /\ s.count[2] \in Nat
  BY <1>2
<1>4. /\ k \in {0, 1, 2}
      /\ \A j \in {0, 1, 2} : s.count[k] > s.count[j] \/ (s.count[k] = s.count[j] /\ k <= j)
  <2> DEFINE M(i, j) == s.count[i] > s.count[j] \/ (s.count[i] = s.count[j] /\ i <= j)
  <2>1. \/ M(0, 0) /\ M(0, 1) /\ M(0, 2)
        \/ M(1, 0) /\ M(1, 1) /\ M(1, 2)
        \/ M(2, 0) /\ M(2, 1) /\ M(2, 2)
    BY <1>3
  <2>2. k = CHOOSE i \in {0, 1, 2} : \A j \in {0, 1, 2} : M(i, j)
    <3>1. H!Slots = {0, 1, 2}
      BY DEF H!Slots
    <3> QED BY <3>1 DEF H!Most
  <2> HIDE DEF M, k
  <2>3. \E i \in {0, 1, 2} : \A j \in {0, 1, 2} : M(i, j)
    BY <2>1
  <2>4. k \in {0, 1, 2} /\ \A j \in {0, 1, 2} : M(k, j)
    BY <2>2, <2>3
  <2> QED BY <2>4 DEF M
<1>5. H!Background(s) = s.colour[k] /\ H!Foreground(s) = s.colour[1 - k]
  BY DEF H!Background, H!Foreground
<1> HIDE DEF k
<1>6. H!Flags(s) = IF s.count[1] = 0 THEN {"bg"}
                   ELSE IF s.count[2] = 0 THEN {"bg", "fg", "subrects"}
                   ELSE {"bg", "subrects", "coloured"}
  BY DEF H!Flags
<1>7. s.count[1] = 0 => k = 0
  BY <1>2, <1>3, <1>4
<1>8. s.count[2] = 0 => k = 0 \/ k = 1
  BY <1>2, <1>3, <1>4
<1>9. H!Background(s) \in Int
  BY <1>2, <1>4, <1>5
<1>10. H!Flags(s) = {"bg"} => \A j \in 1..Len(px) : px[j] = H!Background(s)
  <2> SUFFICES ASSUME H!Flags(s) = {"bg"} PROVE \A j \in 1..Len(px) : px[j] = H!Background(s)
    OBVIOUS
  <2>1. "subrects" \notin H!Flags(s)
    OBVIOUS
  <2>2. s.count[1] = 0
    BY <1>6, <2>1
  <2> QED BY <1>2, <1>3, <1>5, <1>7, <2>2
<1>11. "fg" \in H!Flags(s) =>
         \A j \in 1..Len(px) : px[j] \in {H!Background(s), H!Foreground(s)}
  <2> SUFFICES ASSUME "fg" \in H!Flags(s)
               PROVE  \A j \in 1..Len(px) : px[j] \in {H!Background(s), H!Foreground(s)}
    OBVIOUS
  <2>1. s.count[2] = 0
    BY <1>6
  <2>2. CASE k = 0
    <3>1. 1 - k = 1
      BY <2>2
    <3> QED BY <1>2, <1>5, <2>1, <2>2, <3>1
  <2>3. CASE k = 1
    <3>1. 1 - k = 0
      BY <2>3
    <3> QED BY <1>2, <1>5, <2>1, <2>3, <3>1
  <2> QED BY <1>8, <2>1, <2>2, <2>3
<1> QED BY <1>6, <1>9, <1>10, <1>11

\* The five fields of a box.
LEMMA RreFieldsAre ==
  ASSUME NEW bpp, NEW place, NEW box, NEW s, s = H!RreFields(box, bpp, place)
  PROVE  /\ IsSeq(s) /\ Len(s) = 5
         /\ s[1].value = box.colour /\ s[2].value = box.box.x /\ s[3].value = box.box.y
         /\ s[4].value = box.box.w /\ s[5].value = box.box.h
<1> DEFINE a == H!Pixel(bpp, box.colour)
           b == H!Field(place, box.box.x)
           c == H!Field(place, box.box.y)
           d == H!Field(place, box.box.w)
           e == H!Field(place, box.box.h)
<1>1. s = <<a, b, c, d, e>>
  BY DEF H!RreFields
<1>2. /\ a.value = box.colour /\ b.value = box.box.x /\ c.value = box.box.y
      /\ d.value = box.box.w /\ e.value = box.box.h
  BY DEF H!Pixel, H!Field
<1> HIDE DEF a, b, c, d, e
<1>3. /\ s \in Seq({a, b, c, d, e}) /\ Len(s) = 5
      /\ s[1] = a /\ s[2] = b /\ s[3] = c /\ s[4] = d /\ s[5] = e
  BY <1>1
<1>4. IsSeq(s)
  BY <1>3 DEF IsSeq
<1> QED BY <1>2, <1>3, <1>4

\* A message of RRE or of CoRRE shows the tile.
LEMMA RreCodedShows ==
  ASSUME NEW t \in Tiles, NEW bpp \in Nat \ {0}, NEW place, NEW encoding \in {2, 4},
         NEW bg \in Int, NEW boxes, Pictured(boxes, t.px, t.w, t.h, bg), NEW most, NEW m,
         m = H!RreCoded(t, bpp, place, encoding, bg, boxes, most)
  PROVE  H!RreShown(t.w, t.h, m) = t.px
<1> DEFINE f == [i \in DOMAIN boxes |-> H!RreFields(boxes[i], bpp, place)]
           r == FlattenSeq(f)
           x == H!Header(encoding)
           y == H!Field(4, Len(boxes))
           z == H!Pixel(bpp, bg)
           h == <<x, y, z>>
           raw == (boxes # <<>> /\ Len(boxes) > most) \/ (encoding = 2 /\ most <= 0)
<1>1. CASE raw
  <2>1. t.px \in Seq(Int)
    BY TileIs
  <2> DEFINE p == H!Header(0)
  <2>2. p.value = 0
    BY DEF H!Header, H!Field
  <2>3. Plain(m, p, bpp, t.px)
    BY <1>1 DEF H!RreCoded, Plain
  <2> HIDE DEF p
  <2>4. m[1] = p /\ H!Values(Tail(m)) = t.px
    BY <2>1, <2>3, RawReads
  <2>5. m[1].value = 0
    BY <2>2, <2>4
  <2> QED BY <2>4, <2>5 DEF H!RreShown
<1>2. CASE ~raw
  <2> DEFINE n == Len(boxes)
  <2>1. m = h \o r
    BY <1>2 DEF H!RreCoded, H!FlattenSeq, FlattenSeq
  <2> HIDE DEF raw
  <2>2. /\ boxes \in Seq(Boxing(t.w, t.h)) /\ n \in Nat /\ DOMAIN boxes = 1..n
        /\ \A k \in 1..n : boxes[k] \in Boxing(t.w, t.h)
    BY DEF Pictured, Cuts
  <2>3. On(f, n)
    BY <2>2 DEF On
  <2>4. \A i \in 1..n : f[i] = H!RreFields(boxes[i], bpp, place)
    BY <2>2
  <2>5. x.value = encoding /\ y.value = n /\ z.value = bg
    BY DEF H!Header, H!Field, H!Pixel
  <2> HIDE DEF f, x, y, z, n
  <2>6. h \in Seq({x, y, z}) /\ Len(h) = 3 /\ h[1] = x /\ h[2] = y /\ h[3] = z
    OBVIOUS
  <2> HIDE DEF h
  <2>7. IsSeq(h)
    BY <2>6 DEF IsSeq
  <2>8. Even(f, n, 5)
    BY <2>3, <2>4, RreFieldsAre DEF Even
  <2>9. /\ IsSeq(r) /\ Len(r) = Cells(n, 5)
        /\ \A i \in 1..n : \A k \in 1..5 :
             Cells(i - 1, 5) + k \in 1..Cells(n, 5) /\ r[Cells(i - 1, 5) + k] = f[i][k]
    BY <2>2, <2>8, EvenPieces
  <2> HIDE DEF r
  <2>10. /\ Len(m) = 3 + Len(r) /\ m[1] = x /\ m[2] = y /\ m[3] = z
        /\ \A i \in 1..Len(r) : m[3 + i] = r[i]
    <3>1. /\ Len(h \o r) = Len(h) + Len(r) /\ \A i \in 1..Len(h) : (h \o r)[i] = h[i]
          /\ \A i \in 1..Len(r) : (h \o r)[Len(h) + i] = r[i]
      BY <2>7, <2>9, ConcatIsSeq
    <3> QED BY <2>6, <2>1, <3>1
  <2>11. Len(m) = 3 + 5 * n
    <3>1. Cells(n, 5) = 5 * n
      BY <2>2 DEF Cells
    <3> QED BY <2>9, <2>10, <3>1
  <2>12. ASSUME NEW k \in 1..n PROVE RreRead(m, k) = boxes[k]
    <3>1. ASSUME NEW j \in 1..5 PROVE m[3 + (k - 1) * 5 + j] = f[k][j]
      <4>1. Cells(k - 1, 5) + j \in 1..Len(r) /\ r[Cells(k - 1, 5) + j] = f[k][j]
        BY <2>9
      <4>2. m[3 + (Cells(k - 1, 5) + j)] = f[k][j]
        BY <2>10, <4>1
      <4>3. 3 + (Cells(k - 1, 5) + j) = 3 + (k - 1) * 5 + j
        BY <2>2 DEF Cells
      <4> QED BY <4>2, <4>3
    <3> DEFINE s == f[k]
               b == boxes[k]
    <3>2. s = H!RreFields(b, bpp, place)
      BY <2>4
    <3>3. b \in Boxing(t.w, t.h)
      BY <2>2
    <3>4. /\ m[3 + (k - 1) * 5 + 1] = s[1] /\ m[3 + (k - 1) * 5 + 2] = s[2]
          /\ m[3 + (k - 1) * 5 + 3] = s[3] /\ m[3 + (k - 1) * 5 + 4] = s[4]
          /\ m[3 + (k - 1) * 5 + 5] = s[5]
      BY <3>1
    <3> HIDE DEF s, b
    <3>5. /\ s[1].value = b.colour /\ s[2].value = b.box.x /\ s[3].value = b.box.y
          /\ s[4].value = b.box.w /\ s[5].value = b.box.h
      BY <3>2, RreFieldsAre
    <3>6. RreRead(m, k) = [box |-> H!Box(b.box.x, b.box.y, b.box.w, b.box.h),
                           colour |-> b.colour]
      BY <3>4, <3>5 DEF RreRead
    <3>7. b = [box |-> H!Box(b.box.x, b.box.y, b.box.w, b.box.h), colour |-> b.colour]
      BY <3>3 DEF Boxing, BoxIn, H!Box
    <3> QED BY <3>6, <3>7 DEF b
  <2>13. t.w \in Nat \ {0} /\ t.h \in Nat /\ t.px \in Seq(Int) /\ Len(t.px) = Cells(t.w, t.h)
    BY TileIs
  <2>14. m[1].value # 0 /\ m[2].value = n /\ m[3].value = bg
    BY <2>5, <2>10
  <2>15. Coded(m, boxes, t.px, t.w, t.h, bg)
    BY <2>11, <2>12, <2>14 DEF n, Coded
  <2> QED BY <2>13, <2>15, RreShows
<1> QED BY <1>1, <1>2

\* The tile functions of RRE and of CoRRE: the viewer shows the tile.
LEMMA RreShown ==
  ASSUME NEW t \in Tiles, NEW bpp \in Nat \ {0}
  PROVE  /\ H!RreShown(t.w, t.h, H!RreTile(t, bpp)) = t.px
         /\ H!RreShown(t.w, t.h, H!CorreTile(t, bpp)) = t.px
<1> DEFINE s == H!Scan(t.px)
           bg == H!Background(s)
           boxes == H!RreBoxes(t, bg)
           m == (H!Area(t) - 4 - bpp) \div (8 + bpp)
           n == H!Area(t) \div (4 + bpp) - 1
<1>1. bg \in Int
  <2>1. t.px \in Seq(Int) /\ Len(t.px) # 0
    <3>1. Area(t) \in Nat \ {0} /\ t.px \in Seq(Int)
      BY AreaIsPositive, TileIs
    <3> QED BY <3>1, TileAssumption
  <2> HIDE DEF s
  <2>2. \A z : z = H!Scan(t.px) => H!Background(z) \in Int
    BY <2>1, ScanIs
  <2> QED BY <2>2 DEF s
<1>2. Pictured(boxes, t.px, t.w, t.h, bg)
  <2> HIDE DEF bg
  <2> QED BY <1>1, RrePictures
<1>3. /\ H!RreTile(t, bpp) = H!RreCoded(t, bpp, 2, 2, bg, boxes, m)
      /\ H!CorreTile(t, bpp) = H!RreCoded(t, bpp, 1, 4, bg, boxes, n)
  BY DEF H!RreTile, H!Rre, H!CorreTile, H!Corre
<1> HIDE DEF boxes, bg, m, n
<1>4. \A p, c, k : c \in {2, 4} =>
        H!RreShown(t.w, t.h, H!RreCoded(t, bpp, p, c, bg, boxes, k)) = t.px
  BY <1>1, <1>2, RreCodedShows
<1> QED BY <1>3, <1>4

-----------------------------------------------------------------------------
(***************************************************************************)
(* Reading a message of Hextile.                                           *)
(***************************************************************************)

\* Two numbers in a byte.
LEMMA NibblesRead ==
  ASSUME NEW a \in 0..15, NEW b \in 0..15, NEW v, v = a * 16 + b
  PROVE  v \div 16 = a /\ v % 16 = b
<1>1. (a * 16 + b) \div 16 = a /\ (a * 16 + b) % 16 = b
  BY Quotient
<1> QED BY <1>1

\* How many fields a box has.
Fields(flags) == IF "coloured" \in flags THEN 3 ELSE 2

\* They are its colour, if there are colours, its place and its extent.
LEMMA BoxFieldsAre ==
  ASSUME NEW bpp, NEW flags, NEW box, NEW s, s = H!BoxFields(box, flags, bpp)
  PROVE  /\ IsSeq(s) /\ Len(s) = Fields(flags)
         /\ s[Fields(flags) - 1].value = box.box.x * 16 + box.box.y
         /\ s[Fields(flags)].value = (box.box.w - 1) * 16 + box.box.h - 1
         /\ "coloured" \in flags => s[1].value = box.colour
<1> DEFINE u == box.box.x * 16 + box.box.y
           v == (box.box.w - 1) * 16 + box.box.h - 1
           x == H!Byte(u)
           y == H!Byte(v)
           p == H!Pixel(bpp, box.colour)
           w == <<x, y>>
<1>1. x.value = u /\ y.value = v /\ p.value = box.colour
  BY DEF H!Byte, H!Field, H!Pixel
<1>2. s = (IF "coloured" \in flags THEN <<p>> ELSE <<>>) \o w
  BY DEF H!BoxFields
<1> HIDE DEF u, v, x, y, p
<1>3. w \in Seq({x, y}) /\ Len(w) = 2 /\ w[1] = x /\ w[2] = y
  OBVIOUS
<1> HIDE DEF w
<1>4. IsSeq(w)
  BY <1>3 DEF IsSeq
<1>5. CASE "coloured" \in flags
  <2>1. s = <<p>> \o w
    BY <1>2, <1>5
  <2>2. /\ IsSeq(<<p>> \o w) /\ Len(<<p>> \o w) = 1 + Len(w) /\ (<<p>> \o w)[1] = p
        /\ \A i \in 1..Len(w) : (<<p>> \o w)[1 + i] = w[i]
    BY <1>4, HeadIs
  <2>3. 1 \in 1..Len(w) /\ 2 \in 1..Len(w)
    BY <1>3
  <2>4. s[1 + 1] = x /\ s[1 + 2] = y
    BY <1>3, <2>1, <2>2, <2>3
  <2>5. s[2] = x /\ s[3] = y /\ Len(s) = 3 /\ s[1] = p /\ IsSeq(s)
    BY <1>3, <2>1, <2>2, <2>4
  <2>6. Fields(flags) = 3
    BY <1>5 DEF Fields
  <2> QED BY <1>1, <2>5, <2>6 DEF u, v
<1>6. CASE "coloured" \notin flags
  <2>1. s = <<>> \o w
    BY <1>2, <1>6
  <2>2. s = w
    BY <1>3, <2>1
  <2>3. Fields(flags) = 2
    BY <1>6 DEF Fields
  <2> QED BY <1>1, <1>3, <1>4, <1>6, <2>2, <2>3 DEF u, v
<1> QED BY <1>5, <1>6

\* The boxes of the message m, with what comes before them.
Message(m, bpp, scan, flags, boxes, w, h) ==
  /\ m = H!HextileFields(bpp, scan, flags, boxes)
  /\ flags \subseteq HexFlags
  /\ boxes \in Seq(Boxing(w, h)) /\ w <= 16 /\ h <= 16

\* It is read to its end, and the boxes are read as they were written.
LEMMA BoxesRead ==
  ASSUME NEW w \in Nat \ {0}, NEW h \in Nat, NEW m, NEW bpp, NEW scan, NEW flags, NEW boxes,
         Message(m, bpp, scan, flags, boxes, w, h), "subrects" \in flags
  PROVE  /\ H!HasBit(m, 8) /\ H!Count(m) = Len(boxes)
         /\ Len(m) = H!CountAt(m) + H!Count(m) * H!Each(m)
         /\ \A k \in 1..Len(boxes) : \A fg :
              H!ReadBox(m, k, fg) =
                [box |-> boxes[k].box,
                 colour |-> IF "coloured" \in flags THEN boxes[k].colour ELSE fg]
<1> DEFINE n == Len(boxes)
           e == Fields(flags)
           o == Opening(bpp, scan, flags)
           f == [i \in DOMAIN boxes |-> H!BoxFields(boxes[i], flags, bpp)]
           r == FlattenSeq(f)
           x == H!Byte(n)
           c == <<x>> \o r
           at == H!CountAt(m)
<1>1. /\ boxes \in Seq(Boxing(w, h)) /\ n \in Nat /\ DOMAIN boxes = 1..n
      /\ \A k \in 1..n : boxes[k] \in Boxing(w, h)
  BY DEF Message
<1>2. On(f, n) /\ \A i \in 1..n : f[i] = H!BoxFields(boxes[i], flags, bpp)
  BY <1>1 DEF On
<1>3. e \in {2, 3} /\ ("coloured" \in flags => e = 3) /\ ("coloured" \notin flags => e = 2)
  BY DEF Fields
<1>4. m = o \o c
  <2>1. Closing(bpp, flags, boxes) = c
    BY DEF Closing, Boxed
  <2> QED BY <2>1, FieldsSplit DEF Message
<1>5. IsSeq(boxes)
  BY <1>1 DEF IsSeq
<1>6. m[1] = H!FlagByte(flags)
  BY <1>5, FieldsAre DEF Message
<1>7. /\ ~H!HasBit(m, 1)
      /\ H!HasBit(m, 2) <=> "bg" \in flags
      /\ H!HasBit(m, 4) <=> "fg" \in flags
      /\ H!HasBit(m, 8) <=> "subrects" \in flags
      /\ H!HasBit(m, 16) <=> "coloured" \in flags
  BY <1>6, FlagsRead DEF Message
<1>8. IsSeq(o) /\ Len(o) + 1 = at /\ at \in 2..4
  <2>1. /\ IsSeq(o)
        /\ Len(o) = (IF "bg" \in flags THEN 2 ELSE 1) + (IF "fg" \in flags THEN 1 ELSE 0)
    BY OpeningIs
  <2>2. at = 2 + (IF "bg" \in flags THEN 1 ELSE 0) + (IF "fg" \in flags THEN 1 ELSE 0)
    BY <1>7 DEF H!CountAt
  <2> HIDE DEF o, at
  <2> QED BY <2>1, <2>2
<1>9. H!Each(m) = e
  BY <1>7 DEF H!Each, Fields
<1>10. x.value = n
  BY FieldBytes
<1> HIDE DEF f, o, x, n, e, at
<1>11. Even(f, n, e)
  BY <1>2, BoxFieldsAre DEF Even, e
<1>12. /\ IsSeq(r) /\ Len(r) = Cells(n, e)
       /\ \A i \in 1..n : \A k \in 1..e :
            Cells(i - 1, e) + k \in 1..Cells(n, e) /\ r[Cells(i - 1, e) + k] = f[i][k]
  BY <1>1, <1>3, <1>11, EvenPieces
<1> HIDE DEF r
<1>13. /\ IsSeq(c) /\ Len(c) = 1 + Len(r) /\ c[1] = x
       /\ \A i \in 1..Len(r) : c[1 + i] = r[i]
  BY <1>12, HeadIs
<1> HIDE DEF c
<1>14. /\ Len(m) = Len(o) + Len(c)
       /\ \A i \in 1..Len(c) : m[Len(o) + i] = c[i]
  BY <1>4, <1>8, <1>13, ConcatIsSeq
<1>15. Len(r) \in Nat /\ Len(o) \in Nat
  BY <1>8, <1>12, SeqIs
<1>16. Len(m) = at + Cells(n, e)
  BY <1>8, <1>12, <1>13, <1>14, <1>15
<1>17. m[at] = x
  <2>1. 1 \in 1..Len(c)
    BY <1>13, <1>15
  <2>2. m[Len(o) + 1] = c[1]
    BY <1>14, <2>1
  <2> QED BY <1>8, <1>13, <2>2
<1>18. \A i \in 1..Len(r) : m[at + i] = r[i]
  <2> TAKE i \in 1..Len(r)
  <2>1. PICK l \in 1..Len(c) : l = 1 + i
    BY <1>13, <1>15
  <2>2. m[Len(o) + l] = c[l] /\ c[l] = r[i]
    BY <1>13, <1>14, <2>1
  <2>3. Len(o) + l = at + i
    BY <1>8, <1>15, <2>1
  <2> QED BY <2>2, <2>3
<1>19. H!Count(m) = n
  BY <1>7, <1>10, <1>17 DEF H!Count, at
<1>20. Cells(n, e) = n * e
  BY DEF Cells
<1>21. ASSUME NEW k \in 1..n, NEW fg
       PROVE  H!ReadBox(m, k, fg) =
                [box |-> boxes[k].box,
                 colour |-> IF "coloured" \in flags THEN boxes[k].colour ELSE fg]
  <2> DEFINE s == f[k]
             b == boxes[k]
             p == b.box.x * 16 + b.box.y
             q == (b.box.w - 1) * 16 + b.box.h - 1
  <2>1. ASSUME NEW j \in 1..e PROVE m[at + (Cells(k - 1, e) + j)] = s[j]
    <3>1. Cells(k - 1, e) + j \in 1..Len(r) /\ r[Cells(k - 1, e) + j] = s[j]
      BY <1>12
    <3> QED BY <1>18, <3>1
  <2>2. PICK z \in Nat : z = Cells(k - 1, e) /\ z = (k - 1) * e
    <3>1. k - 1 \in Nat /\ e \in Nat
      BY <1>1, <1>3
    <3>2. Cells(k - 1, e) \in Nat
      BY <3>1, CellsIs
    <3> QED BY <3>2 DEF Cells
  <2>3. s = H!BoxFields(b, flags, bpp)
    BY <1>2
  <2> HIDE DEF s
  <2>4. /\ s[e - 1].value = p /\ s[e].value = q
        /\ "coloured" \in flags => s[1].value = b.colour
    BY <2>3, BoxFieldsAre DEF e
  <2>5. b \in Boxing(w, h) /\ w <= 16 /\ h <= 16
    BY <1>1 DEF Message
  <2> HIDE DEF b
  <2>6. /\ b.box.x \in 0..15 /\ b.box.y \in 0..15 /\ b.box.w - 1 \in 0..15
        /\ b.box.h - 1 \in 0..15
        /\ b.box = H!Box(b.box.x, b.box.y, b.box.w, b.box.h)
        /\ b.box.h \in Nat /\ b.box.w \in Nat
    <3> HIDE DEF p, q
    <3>1. b.box \in BoxIn(w, h)
      BY <2>5 DEF Boxing
    <3>2. /\ b.box \in [x : Nat, y : Nat, w : Nat \ {0}, h : Nat \ {0}]
          /\ b.box.x + b.box.w <= w /\ b.box.y + b.box.h <= h
      BY <3>1 DEF BoxIn
    <3>3. b.box = H!Box(b.box.x, b.box.y, b.box.w, b.box.h)
      BY <3>2 DEF H!Box
    <3>4. /\ b.box.x \in Nat /\ b.box.y \in Nat
          /\ b.box.w \in Nat \ {0} /\ b.box.h \in Nat \ {0}
      BY <3>2
    <3>5. b.box.x + b.box.w <= 16 /\ b.box.y + b.box.h <= 16
      BY <2>5, <3>2, <3>4
    <3> QED BY <3>3, <3>4, <3>5
  <2>7. q = (b.box.w - 1) * 16 + (b.box.h - 1)
    BY <2>6
  <2>8. p \div 16 = b.box.x /\ p % 16 = b.box.y
    BY <2>6, NibblesRead
  <2>9. q \div 16 = b.box.w - 1 /\ q % 16 = b.box.h - 1
    <3>1. PICK a \in 0..15, d \in 0..15 : a = b.box.w - 1 /\ d = b.box.h - 1
      BY <2>6
    <3>2. q = a * 16 + d
      BY <2>7, <3>1
    <3> HIDE DEF q
    <3>3. q \div 16 = a /\ q % 16 = d
      BY <3>2, NibblesRead
    <3> QED BY <3>1, <3>3
  <2>10. q \div 16 + 1 = b.box.w /\ (q % 16) + 1 = b.box.h
    <3> HIDE DEF q
    <3> QED BY <2>6, <2>9
  <2> HIDE DEF p, q
  <2>11. PICK l : l = at + 1 + (k - 1) * e /\ l = at + 1 + z
    BY <2>2
  <2>12. m[l + e - 2].value = p /\ m[l + e - 1].value = q
    <3>1. e - 1 \in 1..e /\ e \in 1..e
      BY <1>3
    <3>2. m[at + (z + (e - 1))] = s[e - 1] /\ m[at + (z + e)] = s[e]
      BY <2>1, <2>2, <3>1
    <3>3. at + (z + (e - 1)) = l + e - 2 /\ at + (z + e) = l + e - 1
      <4>1. l = at + 1 + z /\ at \in Nat /\ e \in Nat /\ z \in Nat
        BY <1>3, <1>8, <2>11
      <4> QED BY <4>1
    <3> QED BY <2>4, <3>2, <3>3
  <2>13. "coloured" \in flags => m[l].value = b.colour
    <3>1. 1 \in 1..e
      BY <1>3
    <3>2. m[at + (z + 1)] = s[1]
      BY <2>1, <2>2, <3>1
    <3>3. at + (z + 1) = l
      BY <1>8, <2>2, <2>11
    <3> QED BY <2>4, <3>2, <3>3
  <2>14. H!ReadBox(m, k, fg) =
           [box |-> H!Box(p \div 16, p % 16, q \div 16 + 1, (q % 16) + 1),
            colour |-> IF "coloured" \in flags THEN m[l].value ELSE fg]
    <3>1. l = H!CountAt(m) + 1 + (k - 1) * H!Each(m)
      BY <1>9, <2>11 DEF at
    <3>2. m[l + H!Each(m) - 2].value = p /\ m[l + H!Each(m) - 1].value = q
      BY <1>9, <2>12
    <3> QED BY <1>7, <3>1, <3>2 DEF H!ReadBox
  <2> QED BY <2>6, <2>8, <2>10, <2>13, <2>14 DEF b
<1> QED BY <1>7, <1>9, <1>16, <1>19, <1>20, <1>21 DEF n, at

\* A message that is read as these boxes on this background.
Hexes(m, vbg, vfg, boxes, px, w, h, bg) ==
  /\ Pictured(boxes, px, w, h, bg)
  /\ ~H!HasBit(m, 1) /\ H!ReadBg(m, vbg) = bg /\ H!Count(m) = Len(boxes)
  /\ Len(m) = H!CountAt(m) - 1
                + (IF H!HasBit(m, 8) THEN 1 + H!Count(m) * H!Each(m) ELSE 0)
  /\ \A k \in 1..Len(boxes) : H!ReadBox(m, k, H!ReadFg(m, vfg)) = boxes[k]

\* It shows the tile.
LEMMA HexShows ==
  ASSUME NEW w \in Nat \ {0}, NEW h \in Nat, NEW px \in Seq(Int), Len(px) = Cells(w, h),
         NEW bg \in Int, NEW boxes, NEW m, NEW vbg, NEW vfg,
         Hexes(m, vbg, vfg, boxes, px, w, h, bg)
  PROVE  H!HextileShown(w, h, m, vbg, vfg) = px
<1> DEFINE n == H!Count(m)
           t == H!Blank(w, h, H!ReadBg(m, vbg))
           R(i) == H!ReadBox(m, i, H!ReadFg(m, vfg))
           Loop(g) == g = [i \in 0..n |->
             IF i = 0 THEN t ELSE H!Painted(g[i - 1], R(i).box, R(i).colour)]
           a == CHOOSE g : Loop(g)
           r == [i \in 1..n |-> R(i)]
<1> USE DEF Hexes
<1>1. H!HextileShown(w, h, m, vbg, vfg) = a[n].px
  <2>1. H!HextileShown(w, h, m, vbg, vfg) =
          H!PaintAll(t, n, LAMBDA i : H!ReadBox(m, i, H!ReadFg(m, vfg)))
    BY DEF H!HextileShown
  <2> QED BY <2>1 DEF H!PaintAll
<1> HIDE DEF R
<1>2. \A g : Loop(g) <=> Paints(g, t, n, r)
  <2>1. ASSUME NEW i \in 1..n PROVE r[i] = R(i)
    OBVIOUS
  <2> HIDE DEF r
  <2>2. n \in Nat
    BY DEF Pictured, Cuts
  <2>3. ASSUME NEW g
        PROVE  [i \in 0..n |->
                  IF i = 0 THEN t ELSE H!Painted(g[i - 1], R(i).box, R(i).colour)]
               = [i \in 0..n |-> IF i = 0 THEN t ELSE H!Painted(g[i - 1], r[i].box, r[i].colour)]
    <3>1. \A i \in 0..n : i = 0 \/ i \in 1..n
      BY <2>2
    <3> HIDE DEF t, n
    <3> QED BY <2>1, <3>1
  <2> QED BY <2>3 DEF Paints
<1>3. \A k \in 1..Len(boxes) : r[k] = boxes[k]
  BY DEF R
<1> HIDE DEF a, Loop, r
<1>4. Reads(r, boxes, px, w, h, bg)
  BY <1>3 DEF Reads
<1>5. /\ \E g : Paints(g, H!Blank(w, h, bg), Len(boxes), r)
      /\ \A g : Paints(g, H!Blank(w, h, bg), Len(boxes), r) => g[Len(boxes)].px = px
  BY <1>4, PictureShows
<1>6. Loop(a)
  BY <1>2, <1>5 DEF a
<1>7. a[n].px = px
  BY <1>2, <1>5, <1>6
<1> QED BY <1>1, <1>7

\* A tile of two colours: its boxes have the foreground's.
LEMMA OneColour ==
  ASSUME NEW boxes, NEW px, NEW w, NEW h, NEW bg, NEW fg, Pictured(boxes, px, w, h, bg),
         \A j \in 1..Cells(w, h) : px[j] \in {bg, fg}, NEW k \in 1..Len(boxes)
  PROVE  boxes[k].colour = fg
<1>1. PICK j \in 1..Cells(w, h) : Holds(boxes[k].box, j, w)
  BY DEF Pictured, Cuts
<1>2. boxes[k].colour # bg /\ px[j] = boxes[k].colour
  BY <1>1 DEF Pictured, Cuts, Sound
<1> QED BY <1>2

\* A tile of one colour has none.
LEMMA NoBoxes ==
  ASSUME NEW boxes, NEW px, NEW w, NEW h, NEW bg, Pictured(boxes, px, w, h, bg),
         \A j \in 1..Cells(w, h) : px[j] = bg
  PROVE  Len(boxes) = 0
<1>1. Len(boxes) \in Nat
  BY DEF Pictured, Cuts
<1>2. \A k \in 1..Len(boxes) : FALSE
  <2> TAKE k \in 1..Len(boxes)
  <2>1. PICK j \in 1..Cells(w, h) : Holds(boxes[k].box, j, w)
    BY DEF Pictured, Cuts
  <2>2. boxes[k].colour # bg /\ px[j] = boxes[k].colour
    BY <2>1 DEF Pictured, Cuts, Sound
  <2> QED BY <2>2
<1> QED BY <1>1, <1>2

\* A message without boxes.
LEMMA NoBoxesRead ==
  ASSUME NEW m, NEW bpp, NEW scan, NEW flags, NEW boxes, IsSeq(boxes),
         m = H!HextileFields(bpp, scan, flags, boxes), flags \subseteq HexFlags,
         "subrects" \notin flags
  PROVE  ~H!HasBit(m, 8) /\ H!Count(m) = 0 /\ Len(m) = H!CountAt(m) - 1
<1> DEFINE o == Opening(bpp, scan, flags)
<1>1. /\ IsSeq(o)
      /\ Len(o) = (IF "bg" \in flags THEN 2 ELSE 1) + (IF "fg" \in flags THEN 1 ELSE 0)
  BY OpeningIs
<1>2. m = o \o <<>>
  BY FieldsSplit DEF Closing
<1>3. m[1] = H!FlagByte(flags)
  BY FieldsAre
<1>4. /\ H!HasBit(m, 2) <=> "bg" \in flags
      /\ H!HasBit(m, 4) <=> "fg" \in flags
      /\ ~H!HasBit(m, 8)
  BY <1>3, FlagsRead
<1> HIDE DEF o
<1> DEFINE c == <<>>
<1>5. IsSeq(c) /\ Len(c) = 0
  BY EmptyIsSeq
<1>6. m = o \o c
  BY <1>2
<1> HIDE DEF c
<1>7. Len(m) = Len(o) + Len(c)
  BY <1>1, <1>5, <1>6, ConcatIsSeq
<1>8. H!Count(m) = 0
  BY <1>4 DEF H!Count
<1>9. H!CountAt(m) = 2 + (IF "bg" \in flags THEN 1 ELSE 0) + (IF "fg" \in flags THEN 1 ELSE 0)
  BY <1>4 DEF H!CountAt
<1> QED BY <1>1, <1>4, <1>5, <1>7, <1>8, <1>9

\* The flags of a message are those of the scan, without the colours that the
\* viewer has.
LEMMA FlagsKnown ==
  ASSUME NEW scan, NEW bg, NEW fg, NEW flags, flags = H!Unknown(scan, bg, fg),
         H!Flags(scan) \in {{"bg"}, {"bg", "fg", "subrects"}, {"bg", "subrects", "coloured"}}
  PROVE  /\ "subrects" \in flags <=> H!Flags(scan) # {"bg"}
         /\ "coloured" \in flags <=> "coloured" \in H!Flags(scan)
         /\ "bg" \in flags \/ H!Background(scan) \in bg
         /\ "fg" \in H!Flags(scan) => "fg" \in flags \/ H!Foreground(scan) \in fg
         /\ "subrects" \in flags /\ "coloured" \notin flags => "fg" \in H!Flags(scan)
<1>1. /\ "bg" \in H!Flags(scan)
      /\ "subrects" \in H!Flags(scan) <=> H!Flags(scan) # {"bg"}
      /\ "subrects" \in H!Flags(scan) => "fg" \in H!Flags(scan) \/ "coloured" \in H!Flags(scan)
  OBVIOUS
<1> QED BY <1>1 DEF H!Unknown

\* The tile functions of Hextile: what the encoder knows of the viewer being
\* so, the viewer shows the tile.
LEMMA HextileShows ==
  ASSUME NEW t \in Tiles, t.w <= 16, t.h <= 16, NEW bpp \in Nat \ {0}, NEW bg, NEW fg,
         NEW vbg, NEW vfg, bg \subseteq {vbg}, fg \subseteq {vfg}
  PROVE  H!HextileShown(t.w, t.h, H!HextileTile(t, bpp, bg, fg).message, vbg, vfg) = t.px
<1> DEFINE scan == H!Scan(t.px)
           back == H!Background(scan)
           flags == H!Unknown(scan, bg, fg)
           boxes == H!Rectify(t, back)
           m == H!HextileTile(t, bpp, bg, fg).message
           raw == "subrects" \in flags /\ Len(boxes) > H!MostBoxes(t, bpp, flags)
<1>1. PICK w \in Nat \ {0}, h \in Nat, px \in Seq(Int) :
        /\ w = t.w /\ h = t.h /\ px = t.px /\ Len(px) = Cells(w, h)
        /\ w <= 16 /\ h <= 16
  BY TileIs
<1>2. m = H!Coded(t, bpp, bg, fg, scan, flags, boxes).message
  BY DEF H!HextileTile, H!Scanned
<1>3. Len(px) # 0
  <2>1. Area(t) \in Nat \ {0}
    BY AreaIsPositive
  <2> QED BY <1>1, <2>1, TileAssumption
<1>4. /\ back \in Int
      /\ H!Flags(scan) \in {{"bg"}, {"bg", "fg", "subrects"}, {"bg", "subrects", "coloured"}}
      /\ H!Flags(scan) = {"bg"} => \A j \in 1..Len(px) : px[j] = back
      /\ "fg" \in H!Flags(scan) => \A j \in 1..Len(px) : px[j] \in {back, H!Foreground(scan)}
  <2>1. scan = H!Scan(px)
    BY <1>1
  <2> HIDE DEF scan
  <2> QED BY <1>3, <2>1, ScanIs
<1>5. Pictured(boxes, px, w, h, back)
  <2> HIDE DEF back
  <2> QED BY <1>1, <1>4, RectifyPictures
<1> HIDE DEF scan, back
<1>6. /\ flags \subseteq HexFlags /\ ~("fg" \in flags /\ "coloured" \in flags)
      /\ "subrects" \in flags <=> H!Flags(scan) # {"bg"}
      /\ "bg" \in flags \/ back \in bg
      /\ "fg" \in H!Flags(scan) => "fg" \in flags \/ H!Foreground(scan) \in fg
      /\ "subrects" \in flags /\ "coloured" \notin flags => "fg" \in H!Flags(scan)
  <2>1. flags \subseteq HexFlags /\ ~("fg" \in flags /\ "coloured" \in flags)
    BY UnknownIs
  <2> HIDE DEF flags
  <2>2. flags = H!Unknown(scan, bg, fg)
    BY DEF flags
  <2> QED BY <1>4, <2>1, <2>2, FlagsKnown DEF back
<1>7. CASE raw
  <2> DEFINE x == H!FlagByte({"raw"})
  <2>1. m = <<x>> \o H!Pixels(bpp, t.px)
    BY <1>2, <1>7 DEF H!Coded
  <2>2. H!HasBit(m, 1)
    BY <2>1, RawIs
  <2> HIDE DEF m, x
  <2>3. Plain(m, x, bpp, px)
    BY <1>1, <2>1 DEF Plain
  <2>4. H!Values(Tail(m)) = px
    BY <2>3, RawReads
  <2>5. H!HextileShown(t.w, t.h, m, vbg, vfg) = px
    BY <2>2, <2>4 DEF H!HextileShown
  <2> QED BY <1>1, <2>5 DEF m
<1>8. CASE ~raw
  <2>1. m = H!HextileFields(bpp, scan, flags, boxes)
    BY <1>2, <1>8 DEF H!Coded
  <2> HIDE DEF m, flags, boxes, raw
  <2>2. boxes \in Seq(Boxing(w, h)) /\ IsSeq(boxes)
    BY <1>5 DEF Pictured, Cuts, IsSeq
  <2> DEFINE k == IF "bg" \in flags THEN 2 ELSE 1
  <2>3. /\ m[1] = H!FlagByte(flags)
        /\ "bg" \in flags => m[2].value = back
        /\ "fg" \in flags => m[k + 1].value = H!Foreground(scan)
    BY <2>1, <2>2, FieldsAre DEF back
  <2>4. /\ ~H!HasBit(m, 1)
        /\ H!HasBit(m, 2) <=> "bg" \in flags
        /\ H!HasBit(m, 4) <=> "fg" \in flags
        /\ H!HasBit(m, 8) <=> "subrects" \in flags
    BY <1>6, <2>3, FlagsRead
  <2>5. H!ReadBg(m, vbg) = back
    BY <1>6, <2>3, <2>4 DEF H!ReadBg
  <2>6. "fg" \in H!Flags(scan) => H!ReadFg(m, vfg) = H!Foreground(scan)
    BY <1>6, <2>3, <2>4 DEF H!ReadFg
  <2>7. Hexes(m, vbg, vfg, boxes, px, w, h, back)
    <3>1. CASE "subrects" \in flags
      <4>1. Message(m, bpp, scan, flags, boxes, w, h)
        BY <1>1, <1>6, <2>1, <2>2 DEF Message
      <4>2. /\ H!HasBit(m, 8) /\ H!Count(m) = Len(boxes)
            /\ Len(m) = H!CountAt(m) + H!Count(m) * H!Each(m)
            /\ \A i \in 1..Len(boxes) : \A c :
                 H!ReadBox(m, i, c) =
                   [box |-> boxes[i].box,
                    colour |-> IF "coloured" \in flags THEN boxes[i].colour ELSE c]
        BY <3>1, <4>1, BoxesRead
      <4>3. ASSUME NEW i \in 1..Len(boxes)
            PROVE  H!ReadBox(m, i, H!ReadFg(m, vfg)) = boxes[i]
        <5>1. boxes[i] = [box |-> boxes[i].box, colour |-> boxes[i].colour]
          <6>1. boxes[i] \in Boxing(w, h)
            BY <2>2
          <6> QED BY <6>1 DEF Boxing
        <5>2. "coloured" \notin flags => boxes[i].colour = H!ReadFg(m, vfg)
          <6> SUFFICES ASSUME "coloured" \notin flags
                       PROVE  boxes[i].colour = H!Foreground(scan)
            BY <1>6, <2>6, <3>1
          <6>1. \A j \in 1..Cells(w, h) : px[j] \in {back, H!Foreground(scan)}
            BY <1>1, <1>4, <1>6, <3>1
          <6> QED BY <1>5, <6>1, OneColour
        <5>3. H!ReadBox(m, i, H!ReadFg(m, vfg)) =
                [box |-> boxes[i].box,
                 colour |-> IF "coloured" \in flags THEN boxes[i].colour
                            ELSE H!ReadFg(m, vfg)]
          BY <4>2
        <5> QED BY <5>1, <5>2, <5>3
      <4>4. Len(m) = H!CountAt(m) - 1 + (1 + H!Count(m) * H!Each(m))
        <5> DEFINE p == H!Count(m) * H!Each(m)
        <5>1. p \in Nat
          <6>1. H!Count(m) \in Nat /\ H!Each(m) \in Nat
            BY <2>2, <4>2 DEF H!Each
          <6> QED BY <6>1, Products
        <5>2. H!CountAt(m) \in Nat /\ Len(m) = H!CountAt(m) + p
          BY <4>2 DEF H!CountAt
        <5> HIDE DEF p
        <5>3. Len(m) = H!CountAt(m) - 1 + (1 + p)
          BY <5>1, <5>2
        <5> QED BY <5>3 DEF p
      <4> QED BY <1>5, <2>4, <2>5, <4>2, <4>3, <4>4 DEF Hexes
    <3>2. CASE "subrects" \notin flags
      <4>1. \A j \in 1..Cells(w, h) : px[j] = back
        BY <1>1, <1>4, <1>6, <3>2
      <4>2. Len(boxes) = 0
        BY <1>5, <4>1, NoBoxes
      <4>3. ~H!HasBit(m, 8) /\ H!Count(m) = 0 /\ Len(m) = H!CountAt(m) - 1
        BY <1>6, <2>1, <2>2, <3>2, NoBoxesRead
      <4>4. H!CountAt(m) \in Nat
        BY DEF H!CountAt
      <4> QED BY <1>5, <2>4, <2>5, <4>2, <4>3, <4>4 DEF Hexes
    <3> QED BY <3>1, <3>2
  <2>8. H!HextileShown(w, h, m, vbg, vfg) = px
    <3>1. back \in Int /\ Len(px) = Cells(w, h)
      BY <1>1, <1>4
    <3> HIDE DEF k
    <3> QED BY <2>7, <3>1, HexShows
  <2> QED BY <1>1, <2>8 DEF m
<1> QED BY <1>7, <1>8

-----------------------------------------------------------------------------
(***************************************************************************)
(* TRLE and ZRLE: what the runs say.                                       *)
(***************************************************************************)

\* The first i pixels of px, run by run: g[k] of them are in the first k runs.
Spells(g, runs, px, i) ==
  /\ RunSums(g, runs) /\ g[Len(runs)] = i
  /\ \A k \in 1..Len(runs), j \in 1..i : g[k - 1] < j /\ j <= g[k] => px[j] = runs[k].colour

\* And one pixel more.
LEMMA OnePixelMore ==
  ASSUME NEW runs \in Seq(Run), NEW g, NEW px, NEW i \in Nat, NEW m, m = i + 1,
         Spells(g, runs, px, i), px[m] \in Int
  PROVE  \E h : Spells(h, T!Grown(runs, px[m]), px, m)
<1> DEFINE new == T!Grown(runs, px[m])
           n == Len(new)
           o == Len(runs)
<1>1. RunSums(g, runs) /\ g[o] = i
  BY DEF Spells
<1>2. PICK h : RunSums(h, new) /\ h[n] = g[o] + 1 /\ Grows(h, new, g, runs, px[m])
  BY <1>1, GrownSums
<1>3. o \in Nat
  OBVIOUS
<1> HIDE DEF new, o
<1>4. /\ n \in Nat \ {0} /\ new[n].colour = px[m]
      /\ \A k \in 1..n - 1 : k \in 1..o /\ new[k].colour = runs[k].colour
      /\ \A k \in 0..n - 1 : h[k] = g[k]
      /\ \/ n = o + 1
         \/ n = o /\ runs[o].colour = px[m]
  BY <1>2 DEF Grows, o
<1>5. ASSUME NEW k \in 1..n, NEW j \in 1..m, h[k - 1] < j, j <= h[k]
      PROVE  px[j] = new[k].colour
  <2>1. k - 1 \in 0..n - 1 /\ h[k - 1] = g[k - 1]
    BY <1>4
  <2>2. \A q \in 1..o, p \in 1..i : g[q - 1] < p /\ p <= g[q] => px[p] = runs[q].colour
    BY DEF Spells, o
  <2>3. CASE k # n
    <3>1. k \in 1..n - 1 /\ k \in 0..n - 1
      BY <1>4, <2>3
    <3>2. k \in 1..o /\ new[k].colour = runs[k].colour /\ h[k] = g[k]
      BY <1>4, <3>1
    <3>3. j # m
      <4>1. h[k] \in Nat /\ h[k] <= i
        <5>1. k \in 0..o /\ k <= o
          BY <1>3, <3>2
        <5>2. g[k] <= g[o]
          <6>1. \A q \in 0..o : g[q] \in Nat
            BY <1>1 DEF RunSums, o
          <6>2. k = o \/ k < o
            BY <1>3, <3>2
          <6> QED BY <5>1, <6>1, <6>2, <1>1, SumsGrow DEF o
        <5>3. g[k] \in Nat
          BY <1>1, <5>1 DEF RunSums, o
        <5> QED BY <1>1, <3>2, <5>2, <5>3
      <4> QED BY <1>5, <4>1
    <3>4. j \in 1..i
      BY <3>3
    <3> QED BY <1>5, <2>1, <2>2, <3>2, <3>4
  <2>4. CASE k = n /\ j = m
    BY <1>4, <2>4
  <2>5. CASE k = n /\ j # m
    <3>1. j \in 1..i
      BY <2>5
    <3>2. g[n - 1] < j
      BY <1>5, <2>1, <2>5
    <3>3. n # o + 1
      <4>1. CASE n = o + 1
        <5>1. n - 1 = o
          BY <1>3, <4>1
        <5> QED BY <1>1, <3>1, <3>2, <5>1
      <4> QED BY <4>1
    <3>4. n = o /\ runs[o].colour = px[m] /\ o \in 1..o
      BY <1>4, <3>3
    <3>5. px[j] = runs[o].colour
      <4>1. g[o - 1] < j /\ j <= g[o]
        BY <1>1, <3>1, <3>2, <3>4
      <4> QED BY <2>2, <3>1, <3>4, <4>1
    <3> QED BY <1>4, <2>5, <3>4, <3>5
  <2> QED BY <2>3, <2>4, <2>5
<1>6. h[n] = m
  BY <1>1, <1>2
<1>7. Spells(h, new, px, m)
  BY <1>2, <1>5, <1>6 DEF Spells
<1> QED BY <1>7 DEF new

\* The runs of a tile say its pixels.
LEMMA RunsSpell ==
  ASSUME NEW px \in Seq(Int)
  PROVE  \E g : Spells(g, T!Runs(px), px, Len(px))
<1>1. PICK a : Making(a, px)
  BY RunsMade
<1> DEFINE n == Len(px)
           Spelt(i) == \E g : Spells(g, a[i], px, i)
           T0 == {i \in 0..n : Spelt(i)}
<1>2. n \in Nat
  OBVIOUS
<1>3. Spelt(0)
  <2> DEFINE g == [i \in 0..0 |-> 0]
  <2>1. a[0] = <<>> /\ Len(<<>>) = 0
    BY <1>1, EmptyIsSeq DEF Making
  <2>2. Spells(g, a[0], px, 0)
    BY <2>1 DEF Spells, RunSums
  <2> QED BY <2>2
<1>4. ASSUME NEW i \in 0..n - 1, Spelt(i) PROVE Spelt(i + 1)
  <2>1. PICK j \in 1..n : j = i + 1
    BY <1>2
  <2>2. a[j] = T!Grown(a[i], px[j]) /\ a[i] \in Seq(Run) /\ px[j] \in Int
    <3>1. a[j] = T!Grown(a[j - 1], px[j]) /\ j - 1 = i /\ i \in 0..n /\ px[j] \in Int
      BY <1>1, <1>2, <2>1 DEF Making
    <3> QED BY <1>1, <3>1 DEF Making
  <2>3. PICK g : Spells(g, a[i], px, i)
    BY <1>4
  <2>4. i \in Nat
    BY <1>2
  <2>5. PICK h : Spells(h, T!Grown(a[i], px[j]), px, j)
    BY <2>1, <2>2, <2>3, <2>4, OnePixelMore
  <2> QED BY <2>1, <2>2, <2>5
<1> HIDE DEF Spelt
<1>5. 0 \in T0 /\ \A i \in 0..n - 1 : i \in T0 => i + 1 \in T0
  BY <1>2, <1>3, <1>4
<1>6. n \in T0
  <2> HIDE DEF T0
  <2> QED BY <1>2, <1>5, Climb
<1> QED BY <1>1, <1>6 DEF Making, Spelt

-----------------------------------------------------------------------------
(***************************************************************************)
(* TRLE and ZRLE: reading runs.                                            *)
(***************************************************************************)

\* How far the viewer is: s is the first i pixels of px.
FirstOf(s, px, i) == s \in Seq(Int) /\ Len(s) = i /\ \A j \in 1..i : s[j] = px[j]
Reading == [out : Seq(Int), ok : BOOLEAN, counting : BOOLEAN, colour : Int]
Shows(st, px, i) == st \in Reading /\ st.ok /\ FirstOf(st.out, px, i)

\* Between two runs, and within one of the colour c.
AtRest(st, px, i) == Shows(st, px, i) /\ ~st.counting
InRun(st, px, i, c) == Shows(st, px, i) /\ st.counting /\ st.colour = c

\* The pixels after the first i are n of the colour c.
Ahead(px, i, n, c) == \A j \in 1..n : px[i + j] = c

\* n pixels of a colour are added to those that are shown.
LEMMA Repeated ==
  ASSUME NEW out, NEW px, NEW i \in Nat, NEW n \in Nat, NEW c \in Int,
         FirstOf(out, px, i), Ahead(px, i, n, c)
  PROVE  FirstOf(out \o T!Repeat(c, n), px, i + n)
<1> DEFINE r == T!Repeat(c, n)
           s == out \o r
<1> USE DEF FirstOf
<1>1. r \in [1..n -> Int] /\ \A j \in 1..n : r[j] = c
  BY DEF T!Repeat
<1>2. r \in Seq(Int) /\ Len(r) = n
  BY <1>1, FunctionSeq
<1> HIDE DEF r
<1>3. s \in Seq(Int) /\ Len(s) = i + n
  BY <1>2
<1>4. ASSUME NEW j \in 1..i + n PROVE s[j] = px[j]
  <2>1. CASE j \in 1..i
    BY <1>2, <2>1
  <2>2. CASE j \notin 1..i
    <3>1. PICK k \in 1..n : j = i + k
      <4>1. j - i \in 1..n /\ j = i + (j - i)
        BY <2>2
      <4> QED BY <4>1
    <3>2. s[j] = r[k]
      <4>1. IsSeq(out) /\ IsSeq(r)
        BY <1>2 DEF IsSeq
      <4>2. \A q \in 1..Len(r) : (out \o r)[Len(out) + q] = r[q]
        BY <4>1, ConcatIsSeq
      <4> QED BY <1>2, <3>1, <4>2
    <3> QED BY <1>1, <3>1, <3>2 DEF Ahead
  <2> QED BY <2>1, <2>2
<1> QED BY <1>3, <1>4 DEF s, r

\* A pixel begins a run.
LEMMA PixelBegins ==
  ASSUME NEW st, NEW px, NEW i, AtRest(st, px, i), NEW b, NEW c \in Int,
         NEW palette, palette = <<>>
  PROVE  InRun(T!Read(st, T!Pixel(b, c), palette), px, i, c)
<1> DEFINE f == T!Pixel(b, c)
<1>1. st \in Reading /\ st.ok /\ ~st.counting
  BY DEF AtRest, Shows
<1>2. f.pixel = TRUE /\ f.value = c
  BY DEF T!Pixel
<1> HIDE DEF f
<1>3. T!Read(st, f, palette)
        = [st EXCEPT !.ok = @ /\ f.pixel, !.colour = f.value, !.counting = TRUE]
  BY <1>1 DEF T!Read
<1> DEFINE new == [out |-> st.out, ok |-> TRUE, counting |-> TRUE, colour |-> c]
<1>4. T!Read(st, f, palette) = new
  BY <1>1, <1>2, <1>3 DEF Reading
<1>5. new \in Reading /\ new.out = st.out /\ new.ok /\ new.counting /\ new.colour = c
  BY <1>1 DEF Reading
<1> HIDE DEF new
<1>6. InRun(new, px, i, c)
  BY <1>5 DEF InRun, AtRest, Shows
<1> QED BY <1>4, <1>6 DEF f

\* A byte that is not the last of a run's length.
LEMMA RunGoesOn ==
  ASSUME NEW st, NEW px, NEW i \in Nat, NEW c \in Int, InRun(st, px, i, c),
         NEW palette, Ahead(px, i, MaxByte, c)
  PROVE  InRun(T!Read(st, T!Byte(MaxByte), palette), px, i + MaxByte, c)
<1> DEFINE f == T!Byte(MaxByte)
           out == st.out \o T!Repeat(c, MaxByte)
           new == [st EXCEPT !.out = out]
<1>1. st \in Reading /\ st.ok = TRUE /\ st.counting = TRUE /\ st.colour = c
  BY DEF InRun, Shows, Reading
<1>2. f.pixel = FALSE /\ f.value = MaxByte
  BY DEF T!Byte, T!Field
<1>3. FirstOf(out, px, i + MaxByte)
  <2>1. MaxByte \in Nat
    BY ByteAssumption
  <2> QED BY <2>1, Repeated DEF InRun, Shows
<1> HIDE DEF f
<1>4. T!Read(st, f, palette) = new
  BY <1>1, <1>2 DEF T!Read
<1> HIDE DEF out
<1>5. new \in Reading /\ new.out = out /\ new.ok /\ new.counting /\ new.colour = c
  BY <1>1, <1>3 DEF Reading, FirstOf
<1> HIDE DEF new
<1>6. InRun(new, px, i + MaxByte, c)
  BY <1>3, <1>5 DEF InRun, Shows
<1> QED BY <1>4, <1>6 DEF f

\* The last byte of a run's length.
LEMMA RunEnds ==
  ASSUME NEW st, NEW px, NEW i \in Nat, NEW c \in Int, InRun(st, px, i, c),
         NEW palette, NEW n \in 1..MaxByte, NEW r, r = n - 1, Ahead(px, i, n, c)
  PROVE  AtRest(T!Read(st, T!Byte(r), palette), px, i + n)
<1> DEFINE f == T!Byte(r)
           out == st.out \o T!Repeat(c, n)
           new == [st EXCEPT !.out = out, !.counting = FALSE]
<1>1. st \in Reading /\ st.ok = TRUE /\ st.counting = TRUE /\ st.colour = c
  BY DEF InRun, Shows, Reading
<1>2. f.pixel = FALSE /\ f.value = r /\ r # MaxByte /\ r \in Int
  BY ByteAssumption DEF T!Byte, T!Field
<1>3. n \in Nat
  BY ByteAssumption
<1>4. FirstOf(out, px, i + n)
  BY <1>3, Repeated DEF InRun, Shows
<1> HIDE DEF f
<1>5. T!Read(st, f, palette) = new
  <2>1. f.value + 1 = n
    BY <1>2, <1>3
  <2> QED BY <1>1, <1>2, <2>1 DEF T!Read
<1> HIDE DEF out
<1>6. new \in Reading /\ new.out = out /\ new.ok /\ ~new.counting
  BY <1>1, <1>4 DEF Reading, FirstOf
<1> HIDE DEF new
<1>7. AtRest(new, px, i + n)
  BY <1>3, <1>4, <1>6 DEF AtRest, Shows
<1> QED BY <1>5, <1>7 DEF f

\* A palette that has the colour has it where its index says.
LEMMA IndexIs ==
  ASSUME NEW p \in Seq(Int), NEW c, \E i \in 1..Len(p) : p[i] = c
  PROVE  T!Index(p, c) \in 0..Len(p) - 1 /\ p[T!Index(p, c) + 1] = c
<1> DEFINE T0 == {i \in 1..Len(p) : p[i] = c}
           m == CHOOSE x \in T0 : \A y \in T0 : x <= y
<1>1. T0 # {} /\ T0 \subseteq Nat
  OBVIOUS
<1>2. T!Index(p, c) = m - 1
  BY <1>1 DEF T!Index, T!SelectInSeq, T!Min, Min
<1>3. \E x \in T0 : \A y \in T0 : x <= y
  <2> HIDE DEF T0
  <2> QED BY <1>1, LeastElement
<1>4. m \in T0
  <2> HIDE DEF T0
  <2> QED BY <1>3
<1> HIDE DEF m
<1> QED BY <1>2, <1>4

\* An index fits into seven bits.
LEMMA SevenBits ==
  ASSUME NEW n \in 1..127, NEW k \in 0..n - 1
  PROVE  /\ k % 128 = k /\ k < 128 /\ ~(k >= n)
         /\ (128 + k) % 128 = k /\ 128 + k - 127 = k + 1 /\ ~(128 + k < 128)
OBVIOUS

\* A colour of the palette p, of n colours, and its index.
Indexed(p, n, k, c) ==
  p \in Seq(Int) /\ n \in 1..127 /\ Len(p) = n /\ k \in 0..n - 1 /\ c \in Int /\ p[k + 1] = c

\* An index alone stands for a pixel.
LEMMA IndexShows ==
  ASSUME NEW st, NEW px, NEW i \in Nat, NEW p, NEW n, NEW k, NEW c, Indexed(p, n, k, c),
         AtRest(st, px, i), Ahead(px, i, 1, c)
  PROVE  AtRest(T!Read(st, T!Byte(k), p), px, i + 1)
<1> DEFINE f == T!Byte(k)
           out == Append(st.out, c)
           new == [st EXCEPT !.out = out]
<1>1. st \in Reading /\ st.ok = TRUE /\ st.counting = FALSE /\ FirstOf(st.out, px, i)
  BY DEF AtRest, Shows, Reading
<1>2. ~f.pixel /\ f.value = k
  BY DEF T!Byte, T!Field
<1>3. p # <<>> /\ Len(p) = n /\ p[k + 1] = c /\ c \in Int
  BY EmptyIsSeq DEF Indexed
<1>4. k % 128 = k /\ k < 128 /\ ~(k >= n)
  BY SevenBits DEF Indexed
<1> HIDE DEF f
<1>5. T!Read(st, f, p) = new
  <2>1. /\ ~st.counting /\ p # <<>> /\ ~(f.pixel \/ f.value % 128 >= Len(p))
        /\ f.value < 128 /\ p[f.value + 1] = c
    BY <1>1, <1>2, <1>3, <1>4
  <2> QED BY <2>1, Zenon DEF T!Read
<1>6. FirstOf(out, px, i + 1)
  <2>1. px[i + 1] = c
    BY DEF Ahead
  <2>2. PICK o \in Seq(Int) : o = st.out
    BY <1>1 DEF FirstOf
  <2>3. Len(o) = i /\ \A j \in 1..i : o[j] = px[j]
    BY <1>1, <2>2 DEF FirstOf
  <2>4. /\ Append(o, c) \in Seq(Int) /\ Len(Append(o, c)) = Len(o) + 1
        /\ \A j \in 1..Len(o) : Append(o, c)[j] = o[j]
        /\ Append(o, c)[Len(o) + 1] = c
    BY <1>3, AppendProperties
  <2>5. \A j \in 1..i + 1 : j \in 1..i \/ j = i + 1
    OBVIOUS
  <2> DEFINE q == Append(o, c)
  <2> HIDE DEF q
  <2>6. FirstOf(q, px, i + 1)
    BY <2>1, <2>3, <2>4, <2>5 DEF FirstOf, q
  <2> QED BY <2>2, <2>6 DEF q
<1> HIDE DEF out
<1>7. new \in Reading /\ new.out = out /\ new.ok /\ ~new.counting
  BY <1>1, <1>6 DEF Reading, FirstOf
<1> HIDE DEF new
<1>8. AtRest(new, px, i + 1)
  BY <1>6, <1>7 DEF AtRest, Shows
<1> QED BY <1>5, <1>8 DEF f

\* An index with the high bit begins a run.
LEMMA IndexBegins ==
  ASSUME NEW st, NEW px, NEW i \in Nat, NEW p, NEW n, NEW k, NEW c, Indexed(p, n, k, c),
         AtRest(st, px, i)
  PROVE  InRun(T!Read(st, T!Byte(128 + k), p), px, i, c)
<1> DEFINE f == T!Byte(128 + k)
           new == [st EXCEPT !.colour = c, !.counting = TRUE]
<1>1. st \in Reading /\ st.ok = TRUE /\ st.counting = FALSE /\ FirstOf(st.out, px, i)
  BY DEF AtRest, Shows, Reading
<1>2. ~f.pixel /\ f.value = 128 + k
  BY DEF T!Byte, T!Field
<1>3. p # <<>> /\ Len(p) = n /\ p[k + 1] = c /\ c \in Int
  BY EmptyIsSeq DEF Indexed
<1>4. (128 + k) % 128 = k /\ 128 + k - 127 = k + 1 /\ ~(128 + k < 128) /\ ~(k >= n)
  BY SevenBits DEF Indexed
<1> HIDE DEF f
<1>5. k \in Int /\ n \in Int
  BY DEF Indexed
<1>6. T!Read(st, f, p) = new
  <2>1. /\ ~st.counting /\ p # <<>> /\ ~(f.pixel \/ f.value % 128 >= Len(p))
        /\ ~(f.value < 128) /\ p[f.value - 127] = c
    BY <1>1, <1>2, <1>3, <1>4, <1>5
  <2> QED BY <2>1, Zenon DEF T!Read
<1>7. new \in Reading /\ new.out = st.out /\ new.ok /\ new.counting /\ new.colour = c
  BY <1>1, <1>3 DEF Reading
<1> HIDE DEF new
<1>8. InRun(new, px, i, c)
  BY <1>1, <1>7 DEF InRun, Shows
<1> QED BY <1>6, <1>8 DEF f

\* f are q bytes that say that a run goes on, and one that does not.
Lasts(f, n, q, r) ==
  /\ n = Cells(q, MaxByte) + r /\ Len(f) = q + 1
  /\ \A i \in 1..q : f[i] = T!Byte(MaxByte)
  /\ f[q + 1] = T!Byte(r - 1)

\* The length of a run.
LEMMA RunLengthIs ==
  ASSUME NEW n \in Nat \ {0}
  PROVE  /\ IsSeq(T!RunLength(n))
         /\ \E q \in Nat, r \in 1..MaxByte : Lasts(T!RunLength(n), n, q, r)
<1> DEFINE q == (n - 1) \div MaxByte
           s == (n - 1) % MaxByte
           a == [i \in 1..q |-> T!Byte(MaxByte)]
           b == T!Byte(s)
<1>1. MaxByte \in Nat \ {0} /\ n - 1 \in Nat
  BY ByteAssumption
<1>2. q \in Nat /\ s \in 0..MaxByte - 1 /\ n - 1 = Cells(q, MaxByte) + s
  BY <1>1, Division DEF Cells
<1>3. T!RunLength(n) = a \o <<b>>
  BY DEF T!RunLength
<1>4. s + 1 \in 1..MaxByte /\ n = Cells(q, MaxByte) + (s + 1) /\ s + 1 - 1 = s
  <2>1. Cells(q, MaxByte) \in Nat
    BY <1>1, <1>2, CellsIs
  <2> HIDE DEF q, s
  <2> QED BY <1>1, <1>2, <2>1
<1> HIDE DEF q, s
<1>5. On(a, q) /\ \A i \in 1..q : a[i] = T!Byte(MaxByte)
  BY DEF On
<1> HIDE DEF a
<1>6. IsSeq(a) /\ Len(a) = q
  BY <1>2, <1>5, FunctionIsSeq
<1>7. IsSeq(<<b>>) /\ Len(<<b>>) = 1 /\ <<b>>[1] = T!Byte(s)
  BY SingleIsSeq
<1> DEFINE d == <<b>>
<1> HIDE DEF b, d
<1>8. /\ IsSeq(a \o d) /\ Len(a \o d) = q + 1
      /\ \A i \in 1..q : (a \o d)[i] = T!Byte(MaxByte)
      /\ (a \o d)[q + 1] = T!Byte(s)
  <2>1. /\ IsSeq(a \o d) /\ Len(a \o d) = Len(a) + Len(d)
        /\ \A i \in 1..Len(a) : (a \o d)[i] = a[i]
        /\ \A i \in 1..Len(d) : (a \o d)[Len(a) + i] = d[i]
    BY <1>6, <1>7, ConcatIsSeq DEF d
  <2>2. Len(d) = 1 /\ d[1] = T!Byte(s) /\ 1 \in 1..1
    BY <1>7 DEF d
  <2> QED BY <1>5, <1>6, <2>1, <2>2
<1>9. T!RunLength(n) = a \o d
  BY <1>3 DEF d
<1>10. Lasts(a \o d, n, q, s + 1)
  <2>1. PICK e : e = a \o d
    OBVIOUS
  <2>2. PICK u : u = s + 1
    OBVIOUS
  <2>3. n = Cells(q, MaxByte) + u /\ T!Byte(s) = T!Byte(u - 1)
    <3>1. n = Cells(q, MaxByte) + u
      BY <1>4, <2>2, Zenon
    <3>2. u - 1 = s
      <4>1. s \in Int
        BY <1>1, <1>2
      <4> QED BY <2>2, <4>1
    <3> QED BY <3>1, <3>2, Zenon
  <2>4. /\ Len(e) = q + 1 /\ \A i \in 1..q : e[i] = T!Byte(MaxByte)
        /\ e[q + 1] = T!Byte(u - 1)
    BY <1>8, <2>1, <2>3
  <2>5. Lasts(e, n, q, u)
    BY <2>3, <2>4, Zenon DEF Lasts
  <2> QED BY <2>1, <2>2, <2>5
<1> QED BY <1>2, <1>4, <1>8, <1>9, <1>10

\* A part of the pixels ahead.
LEMMA AheadFrom ==
  ASSUME NEW px, NEW i \in Nat, NEW n \in Nat, NEW c, Ahead(px, i, n, c),
         NEW d \in Nat, NEW m \in Nat, d + m <= n
  PROVE  Ahead(px, i + d, m, c)
<1> SUFFICES ASSUME NEW j \in 1..m PROVE px[i + d + j] = c
  BY DEF Ahead
<1>1. PICK k \in 1..n : k = d + j
  <2>1. d + j \in 1..n
    OBVIOUS
  <2> QED BY <2>1
<1>2. px[i + k] = c
  BY DEF Ahead
<1>3. i + k = i + d + j
  BY <1>1
<1> QED BY <1>2, <1>3

\* The viewer reads the fields f from the p-th on: a[p] is how far it is before them.
Follows(a, p, f, palette) ==
  \A k \in 1..Len(f) : a[p + k] = T!Read(a[p + k - 1], f[k], palette)

\* It reads the length of a run.
LEMMA LengthRead ==
  ASSUME NEW n \in Nat \ {0}, NEW px, NEW i \in Nat, NEW c \in Int, NEW palette, NEW a,
         NEW p \in Nat, NEW f, f = T!RunLength(n), Follows(a, p, f, palette),
         InRun(a[p], px, i, c), Ahead(px, i, n, c)
  PROVE  AtRest(a[p + Len(f)], px, i + n)
<1>1. PICK q \in Nat, r \in 1..MaxByte : Lasts(f, n, q, r)
  BY RunLengthIs
<1>2. /\ n = Cells(q, MaxByte) + r /\ Len(f) = q + 1
      /\ \A k \in 1..q : f[k] = T!Byte(MaxByte)
      /\ f[q + 1] = T!Byte(r - 1)
  BY <1>1 DEF Lasts
<1>3. MaxByte \in Nat /\ n \in Nat /\ r \in Nat
  BY ByteAssumption
<1> DEFINE e(k) == Cells(k, MaxByte)
           Good(k) == InRun(a[p + k], px, i + e(k), c)
           T0 == {k \in 0..q : Good(k)}
<1>4. \A k \in Nat : e(k) \in Nat /\ e(k + 1) = e(k) + MaxByte
  <2> TAKE k \in Nat
  <2>1. e(k) \in Nat
    BY <1>3, CellsIs
  <2>2. (k + 1) * MaxByte = k * MaxByte + MaxByte
    BY <1>3
  <2> QED BY <2>1, <2>2 DEF Cells
<1>5. \A k \in 0..q : e(k) <= e(q)
  <2> TAKE k \in 0..q
  <2>1. k * MaxByte <= q * MaxByte
    BY <1>3, Products
  <2> QED BY <2>1 DEF Cells
<1>6. e(0) = 0
  BY <1>3 DEF Cells
<1>7. n = e(q) + r
  BY <1>2
<1> HIDE DEF e
<1>8. 0 \in T0
  <2>1. i + e(0) = i /\ p + 0 = p /\ 0 \in 0..q
    BY <1>6
  <2>2. Good(0)
    BY <2>1
  <2> QED BY <2>1, <2>2
<1>9. ASSUME NEW k \in 0..q - 1, k \in T0 PROVE k + 1 \in T0
  <2>1. PICK m \in 1..q : m = k + 1
    OBVIOUS
  <2>2. a[p + m] = T!Read(a[p + m - 1], f[m], palette)
    <3>1. m \in 1..Len(f)
      BY <1>2
    <3> QED BY <3>1 DEF Follows
  <2>3. p + m - 1 = p + k /\ f[m] = T!Byte(MaxByte) /\ k \in Nat /\ m \in 0..q
    BY <1>2, <2>1
  <2>4. PICK x \in Nat : x = i + e(k)
    BY <1>4, <2>3
  <2>5. InRun(a[p + k], px, x, c)
    BY <1>9, <2>4
  <2>6. Ahead(px, x, MaxByte, c)
    <3>1. e(k) \in Nat /\ e(m) = e(k) + MaxByte /\ e(m) <= e(q) /\ e(q) \in Nat
      BY <1>4, <1>5, <2>1, <2>3
    <3>2. e(k) + MaxByte <= n
      BY <1>3, <1>7, <3>1
    <3> QED BY <1>3, <2>4, <3>1, <3>2, AheadFrom
  <2>7. InRun(T!Read(a[p + k], T!Byte(MaxByte), palette), px, x + MaxByte, c)
    BY <2>5, <2>6, RunGoesOn
  <2>8. x + MaxByte = i + e(m)
    <3>1. e(k) \in Nat /\ e(m) = e(k) + MaxByte
      BY <1>4, <2>1, <2>3
    <3> QED BY <1>3, <2>4, <3>1
  <2>9. Good(m)
    BY <2>2, <2>3, <2>7, <2>8
  <2> HIDE DEF Good
  <2> QED BY <2>1, <2>3, <2>9
<1>10. q \in T0
  <2> HIDE DEF T0
  <2> QED BY <1>8, <1>9, Climb
<1>11. PICK x \in Nat : x = i + e(q)
  BY <1>4
<1>12. InRun(a[p + q], px, x, c)
  BY <1>10, <1>11
<1>13. Ahead(px, x, r, c)
  <2>1. e(q) \in Nat /\ e(q) + r <= n
    BY <1>3, <1>4, <1>7
  <2> QED BY <1>3, <1>11, <2>1, AheadFrom
<1>14. a[p + (q + 1)] = T!Read(a[p + q], T!Byte(r - 1), palette)
  <2>1. q + 1 \in 1..Len(f) /\ p + (q + 1) - 1 = p + q
    BY <1>2
  <2> QED BY <1>2, <2>1 DEF Follows
<1>15. AtRest(T!Read(a[p + q], T!Byte(r - 1), palette), px, x + r)
  BY <1>12, <1>13, RunEnds
<1>16. x + r = i + n
  <2>1. e(q) \in Nat
    BY <1>4
  <2> QED BY <1>3, <1>7, <1>11, <2>1
<1> QED BY <1>2, <1>14, <1>15, <1>16

\* f is read as n pixels of the colour c, wherever in a message it stands.
ReadAs(f, palette, c, n, px) ==
  \A a : \A p \in Nat : \A i \in Nat :
    AtRest(a[p], px, i) /\ Follows(a, p, f, palette) /\ Ahead(px, i, n, c) =>
      AtRest(a[p + Len(f)], px, i + n)

\* s is x and then f.
Headed(s, x, f) == s = <<x>> \o f

\* The fields after the first.
LEMMA FollowsOn ==
  ASSUME NEW x, NEW f, IsSeq(f), NEW a, NEW p \in Nat, NEW q, q = p + 1, NEW palette,
         NEW s, Headed(s, x, f), Follows(a, p, s, palette)
  PROVE  /\ IsSeq(s) /\ Len(s) = 1 + Len(f) /\ Len(f) \in Nat
         /\ a[q] = T!Read(a[p], x, palette)
         /\ Follows(a, q, f, palette)
<1>1. /\ IsSeq(s) /\ Len(s) = 1 + Len(f) /\ s[1] = x
      /\ \A i \in 1..Len(f) : s[1 + i] = f[i]
  BY HeadIs DEF Headed
<1>2. Len(f) \in Nat
  BY SeqIs
<1>3. \A k \in 1..Len(s) : a[p + k] = T!Read(a[p + k - 1], s[k], palette)
  BY DEF Follows
<1>4. a[p + 1] = T!Read(a[p], x, palette)
  <2>1. 1 \in 1..Len(s) /\ p + 1 - 1 = p
    BY <1>1, <1>2
  <2> QED BY <1>1, <1>3, <2>1
<1>5. ASSUME NEW k \in 1..Len(f)
      PROVE  a[p + 1 + k] = T!Read(a[p + 1 + k - 1], f[k], palette)
  <2>1. PICK m \in 1..Len(s) : m = 1 + k
    BY <1>1, <1>2
  <2>2. p + m = p + 1 + k /\ p + m - 1 = p + 1 + k - 1
    BY <2>1
  <2> QED BY <1>1, <1>3, <2>1, <2>2
<1> QED BY <1>1, <1>2, <1>4, <1>5 DEF Follows

\* A run with its colour is read.
LEMMA PlainRunRead ==
  ASSUME NEW b, NEW c \in Int, NEW n \in Nat \ {0}, NEW px, NEW palette, palette = <<>>
  PROVE  ReadAs(<<T!Pixel(b, c)>> \o T!RunLength(n), palette, c, n, px)
<1> DEFINE x == T!Pixel(b, c)
           f == T!RunLength(n)
           s == <<x>> \o f
<1> SUFFICES ASSUME NEW a, NEW p \in Nat, NEW i \in Nat, AtRest(a[p], px, i),
                    Follows(a, p, s, palette), Ahead(px, i, n, c)
             PROVE  AtRest(a[p + Len(s)], px, i + n)
  BY DEF ReadAs
<1>1. IsSeq(f)
  BY RunLengthIs
<1>2. PICK q \in Nat : q = p + 1
  OBVIOUS
<1>3. /\ Len(s) = 1 + Len(f) /\ Len(f) \in Nat
      /\ a[q] = T!Read(a[p], x, palette) /\ Follows(a, q, f, palette)
  <2>1. Headed(s, x, f)
    BY DEF s, Headed
  <2> HIDE DEF x, f, s
  <2>2. q = p + 1
    BY <1>2
  <2> QED BY <1>1, <2>1, <2>2, FollowsOn
<1>4. InRun(a[q], px, i, c)
  BY <1>3, PixelBegins
<1>5. AtRest(a[q + Len(f)], px, i + n)
  <2> DEFINE h == T!RunLength(n)
  <2>1. Follows(a, q, h, palette) /\ InRun(a[q], px, i, c)
    BY <1>3, <1>4
  <2>2. h = T!RunLength(n)
    OBVIOUS
  <2> HIDE DEF h
  <2>3. AtRest(a[q + Len(h)], px, i + n)
    BY <2>1, <2>2, LengthRead
  <2> QED BY <2>2, <2>3
<1>6. q + Len(f) = p + Len(s)
  <2> HIDE DEF f, s
  <2> QED BY <1>3, <1>2
<1> QED BY <1>5, <1>6

\* A run with an index is read.
LEMMA IndexRunRead ==
  ASSUME NEW palette, NEW m, NEW k, NEW c, Indexed(palette, m, k, c),
         NEW n \in Nat \ {0}, NEW px
  PROVE  ReadAs(T!IndexRun(k, n), palette, c, n, px) /\ IsSeq(T!IndexRun(k, n))
<1>1. CASE n = 1
  <2> DEFINE x == T!Byte(k)
             s == <<x>>
  <2>1. T!IndexRun(k, n) = s
    BY <1>1 DEF T!IndexRun
  <2>2. IsSeq(s) /\ Len(s) = 1 /\ s[1] = x
    BY SingleIsSeq
  <2>3. ASSUME NEW a, NEW p \in Nat, NEW i \in Nat, AtRest(a[p], px, i),
               Follows(a, p, s, palette), Ahead(px, i, n, c)
        PROVE  AtRest(a[p + Len(s)], px, i + n)
    <3>1. a[p + 1] = T!Read(a[p], x, palette)
      <4>1. 1 \in 1..Len(s) /\ p + 1 - 1 = p
        BY <2>2
      <4>2. a[p + 1] = T!Read(a[p + 1 - 1], s[1], palette)
        BY <2>3, <4>1 DEF Follows
      <4> QED BY <2>2, <4>1, <4>2
    <3>2. AtRest(a[p + 1], px, i + 1)
      BY <1>1, <2>3, <3>1, IndexShows
    <3> QED BY <1>1, <2>2, <3>2
  <2> HIDE DEF s
  <2> QED BY <2>1, <2>2, <2>3 DEF ReadAs
<1>2. CASE n # 1
  <2> DEFINE x == T!Byte(128 + k)
             f == T!RunLength(n)
             s == <<x>> \o f
  <2>1. T!IndexRun(k, n) = s
    BY <1>2 DEF T!IndexRun
  <2>2. IsSeq(f)
    BY RunLengthIs
  <2>3. IsSeq(s)
    BY <2>2, HeadIs
  <2>4. ASSUME NEW a, NEW p \in Nat, NEW i \in Nat, AtRest(a[p], px, i),
               Follows(a, p, s, palette), Ahead(px, i, n, c)
        PROVE  AtRest(a[p + Len(s)], px, i + n)
    <3>1. PICK q \in Nat : q = p + 1
      OBVIOUS
    <3>2. /\ Len(s) = 1 + Len(f) /\ Len(f) \in Nat
          /\ a[q] = T!Read(a[p], x, palette) /\ Follows(a, q, f, palette)
      <4>1. Headed(s, x, f)
        BY DEF s, Headed
      <4>2. q = p + 1 /\ Follows(a, p, s, palette)
        BY <2>4, <3>1
      <4> HIDE DEF x, f, s
      <4> QED BY <2>2, <4>1, <4>2, FollowsOn
    <3>3. InRun(a[q], px, i, c)
      BY <2>4, <3>2, IndexBegins
    <3>4. AtRest(a[q + Len(f)], px, i + n)
      <4> DEFINE h == T!RunLength(n)
      <4>1. Follows(a, q, h, palette) /\ InRun(a[q], px, i, c)
        BY <3>2, <3>3
      <4>2. h = T!RunLength(n) /\ c \in Int
        BY DEF Indexed
      <4> HIDE DEF h
      <4>3. AtRest(a[q + Len(h)], px, i + n)
        BY <2>4, <4>1, <4>2, LengthRead
      <4> QED BY <4>2, <4>3
    <3>5. q + Len(f) = p + Len(s)
      <4> HIDE DEF f, s
      <4> QED BY <3>1, <3>2
    <3> QED BY <3>4, <3>5
  <2> HIDE DEF s
  <2> QED BY <2>1, <2>3, <2>4 DEF ReadAs
<1> QED BY <1>1, <1>2

\* What comes later begins later.
LEMMA StartsGrow ==
  ASSUME NEW n \in Nat, NEW f, \A i \in 1..n : IsSeq(f[i]), NEW z, Starts(z, f, n),
         NEW k \in 0..n
  PROVE  z[k] <= z[n]
<1> DEFINE T0 == {i \in 0..n - k : z[k] <= z[k + i]}
<1>1. \A i \in 0..n : z[i] \in Nat
  BY DEF Starts
<1>2. 0 \in T0
  <2>1. k + 0 = k /\ 0 \in 0..n - k
    OBVIOUS
  <2>2. z[k] <= z[k]
    BY <1>1
  <2> QED BY <2>1, <2>2
<1>3. ASSUME NEW i \in 0..n - k - 1, i \in T0 PROVE i + 1 \in T0
  <2>1. PICK j \in 1..n : j = k + (i + 1)
    <3>1. k + (i + 1) \in 1..n
      OBVIOUS
    <3> QED BY <3>1
  <2>2. PICK p \in Nat, q \in Nat, l \in Nat : p = z[j - 1] /\ q = z[j] /\ l = Len(f[j])
    <3>1. j - 1 \in 0..n /\ j \in 0..n
      OBVIOUS
    <3>2. Len(f[j]) \in Nat
      BY SeqIs
    <3> QED BY <1>1, <3>1, <3>2
  <2>3. q = p + l
    BY <2>2 DEF Starts
  <2>4. PICK x \in Nat : x = z[k]
    BY <1>1
  <2>5. x <= p
    <3>1. j - 1 = k + i
      BY <2>1
    <3> QED BY <1>3, <2>2, <2>4, <3>1
  <2>6. z[k] <= z[j]
    BY <2>2, <2>3, <2>4, <2>5
  <2>7. i + 1 \in 0..n - k
    OBVIOUS
  <2> QED BY <2>1, <2>6, <2>7
<1>4. n - k \in Nat
  OBVIOUS
<1>5. n - k \in T0
  <2> HIDE DEF T0
  <2> QED BY <1>2, <1>3, <1>4, Climb
<1>6. k + (n - k) = n
  OBVIOUS
<1> QED BY <1>5, <1>6

\* The loop that reads the fields: a[i] is how far the viewer is after i of them.
ReadSteps(a, rest, palette) ==
  /\ a[0] = [out |-> <<>>, ok |-> TRUE, counting |-> FALSE, colour |-> 0]
  /\ Follows(a, 0, rest, palette)
  /\ T!ReadRuns(rest, palette)
       = IF a[Len(rest)].ok /\ ~a[Len(rest)].counting THEN a[Len(rest)].out ELSE T!Garbled

\* It can be gone through.
LEMMA ReadMade ==
  ASSUME NEW rest, IsSeq(rest), NEW palette
  PROVE  \E a : ReadSteps(a, rest, palette)
<1> DEFINE n == Len(rest)
           start == [out |-> <<>>, ok |-> TRUE, counting |-> FALSE, colour |-> 0]
           Step(s, i) == T!Read(s, rest[i], palette)
           Loop(g) == g = [i \in 0..n |-> IF i = 0 THEN start ELSE Step(g[i - 1], i)]
           Good(k, g) == g[0] = start /\ \A i \in 1..k : g[i] = Step(g[i - 1], i)
           a == CHOOSE g : Loop(g)
<1>1. T!ReadRuns(rest, palette) = IF a[n].ok /\ ~a[n].counting THEN a[n].out ELSE T!Garbled
  BY DEF T!ReadRuns
<1>2. n \in Nat
  BY SeqIs
<1> HIDE DEF n, start, Step
<1>3. \E g : Good(n, g)
  <2> DEFINE T0 == {k \in 0..n : \E g : Good(k, g)}
  <2>1. 0 \in T0
    <3>1. Good(0, [i \in 0..0 |-> start])
      OBVIOUS
    <3> HIDE DEF Good
    <3> QED BY <1>2, <3>1
  <2>2. ASSUME NEW k \in 0..n - 1, k \in T0 PROVE k + 1 \in T0
    <3>1. PICK g : Good(k, g)
      BY <2>2
    <3> DEFINE h == [i \in 0..k + 1 |-> IF i = k + 1 THEN Step(g[k], k + 1) ELSE g[i]]
    <3>2. h[0] = start
      BY <1>2, <3>1
    <3>3. ASSUME NEW i \in 1..k + 1 PROVE h[i] = Step(h[i - 1], i)
      <4>1. CASE i = k + 1
        BY <1>2, <4>1
      <4>2. CASE i # k + 1
        <5>1. i \in 1..k /\ i \in 0..k + 1 /\ i - 1 \in 0..k + 1 /\ i - 1 # k + 1
          BY <1>2, <4>2
        <5>2. g[i] = Step(g[i - 1], i)
          BY <3>1, <5>1
        <5> QED BY <4>2, <5>1, <5>2
      <4> QED BY <4>1, <4>2
    <3> HIDE DEF h
    <3>4. Good(k + 1, h)
      BY <3>2, <3>3
    <3> HIDE DEF Good
    <3> QED BY <1>2, <3>4
  <2> HIDE DEF T0
  <2>3. n \in T0
    BY <1>2, <2>1, <2>2, Climb
  <2> QED BY <2>3 DEF T0
<1>4. \E g : Loop(g)
  <2>1. PICK g : Good(n, g)
    BY <1>3
  <2> DEFINE f == [i \in 0..n |-> g[i]]
  <2>2. ASSUME NEW i \in 0..n PROVE f[i] = IF i = 0 THEN start ELSE Step(f[i - 1], i)
    BY <1>2, <2>1
  <2>3. Loop(f)
    BY <2>2
  <2> HIDE DEF Loop
  <2> QED BY <2>3
<1>5. Loop(a)
  <2> HIDE DEF Loop
  <2> QED BY <1>4
<1> HIDE DEF a
<1>6. a[0] = start /\ \A i \in 1..n : a[i] = Step(a[i - 1], i)
  BY <1>2, <1>5
<1> HIDE DEF Loop
<1>7. Follows(a, 0, rest, palette)
  <2>1. ASSUME NEW k \in 1..n PROVE a[0 + k] = T!Read(a[0 + k - 1], rest[k], palette)
    <3>1. 0 + k = k /\ 0 + k - 1 = k - 1
      BY <1>2
    <3> QED BY <1>6, <3>1 DEF Step
  <2> QED BY <2>1 DEF Follows, n
<1>8. ReadSteps(a, rest, palette)
  BY <1>1, <1>6, <1>7 DEF ReadSteps, n, start
<1> QED BY <1>8

\* f[k] is what is written of the k-th run.
Readable(f, runs, palette, px) ==
  /\ On(f, Len(runs))
  /\ \A k \in 1..Len(runs) :
       IsSeq(f[k]) /\ ReadAs(f[k], palette, runs[k].colour, runs[k].length, px)

\* The runs of a tile are read as its pixels.
LEMMA RunsRead ==
  ASSUME NEW px \in Seq(Int), NEW runs \in Seq(Run), NEW g, Spells(g, runs, px, Len(px)),
         NEW palette, NEW f, Readable(f, runs, palette, px)
  PROVE  T!ReadRuns(FlattenSeq(f), palette) = px
<1> DEFINE n == Len(runs)
           rest == FlattenSeq(f)
<1>1. n \in Nat /\ Len(px) \in Nat /\ \A k \in 1..n : runs[k].length \in Nat \ {0}
  <2>1. \A k \in 1..n : runs[k] \in Run
    BY ElementOfSeq
  <2> QED BY <2>1 DEF Run
<1>2. On(f, n) /\ \A k \in 1..n : IsSeq(f[k])
  BY DEF Readable
<1>3. PICK z : Starts(z, f, n)
  BY <1>1, <1>2, PiecesAre
<1>4. IsSeq(rest)
  BY <1>1, <1>2, FlattenIsSeq
<1>5. PICK a : ReadSteps(a, rest, palette)
  BY <1>4, ReadMade
<1> HIDE DEF n, rest
<1>6. /\ z[0] = 0 /\ Len(rest) = z[n] /\ \A k \in 0..n : z[k] \in Nat
      /\ \A k \in 1..n : z[k] = z[k - 1] + Len(f[k])
      /\ \A k \in 1..n : \A j \in 1..Len(f[k]) : rest[z[k - 1] + j] = f[k][j]
  BY <1>3 DEF Starts, rest
<1>7. /\ g[0] = 0 /\ g[n] = Len(px) /\ \A k \in 0..n : g[k] \in Nat
      /\ \A k \in 1..n : g[k] = g[k - 1] + runs[k].length
  BY DEF Spells, RunSums, n
<1>8. \A k \in 1..n : Ahead(px, g[k - 1], runs[k].length, runs[k].colour)
  <2> TAKE k \in 1..n
  <2>1. PICK l \in Nat, p \in Nat, q \in Nat : l = runs[k].length /\ p = g[k - 1] /\ q = g[k]
    <3>1. k - 1 \in 0..n /\ k \in 0..n
      BY <1>1
    <3> QED BY <1>1, <1>7, <3>1
  <2>2. q = p + l /\ q <= Len(px)
    <3>1. q = p + l
      BY <1>7, <2>1
    <3>2. k = n \/ (k < n /\ k \in 0..n /\ n \in 0..n)
      BY <1>1
    <3>3. CASE k = n
      BY <1>1, <1>7, <2>1, <3>1, <3>3
    <3>4. CASE k # n
      <4>1. g[k] < g[n]
        BY <3>2, <3>4, SumsGrow DEF n, Spells
      <4> QED BY <1>1, <1>7, <2>1, <3>1, <4>1
    <3> QED BY <3>3, <3>4
  <2>3. ASSUME NEW j \in 1..l PROVE px[p + j] = runs[k].colour
    <3>1. PICK i \in 1..Len(px) : i = p + j
      BY <1>1, <2>2
    <3>2. g[k - 1] < i /\ i <= g[k]
      <4>1. p < i /\ i <= q
        BY <2>2, <3>1
      <4> QED BY <2>1, <4>1
    <3>3. px[i] = runs[k].colour
      BY <3>2 DEF Spells, n
    <3> QED BY <3>1, <3>3
  <2> QED BY <2>1, <2>3 DEF Ahead
<1>9. \A k \in 1..n : Follows(a, z[k - 1], f[k], palette)
  <2> TAKE k \in 1..n
  <2>1. k - 1 \in 0..n /\ k \in 0..n
    BY <1>1
  <2>2. PICK p \in Nat, q \in Nat, l \in Nat : p = z[k - 1] /\ q = z[k] /\ l = Len(f[k])
    BY <1>2, <1>6, <2>1, SeqIs
  <2>3. q = p + l /\ q <= Len(rest) /\ Len(rest) \in Nat
    <3>1. q = p + l
      BY <1>6, <2>2
    <3>2. z[k] <= z[n]
      BY <1>1, <1>2, <1>3, <2>1, StartsGrow
    <3>3. n \in 0..n
      BY <1>1
    <3> QED BY <1>6, <2>2, <3>1, <3>2, <3>3
  <2>4. ASSUME NEW j \in 1..l
        PROVE  a[p + j] = T!Read(a[p + j - 1], f[k][j], palette)
    <3>1. PICK i \in 1..Len(rest) : i = p + j
      BY <2>3
    <3>2. a[0 + i] = T!Read(a[0 + i - 1], rest[i], palette)
      BY <1>5, <3>1 DEF ReadSteps, Follows
    <3>3. 0 + i = p + j /\ 0 + i - 1 = p + j - 1
      BY <3>1
    <3>4. rest[i] = f[k][j]
      BY <1>6, <2>2, <3>1
    <3> QED BY <3>2, <3>3, <3>4
  <2> QED BY <2>2, <2>4 DEF Follows
<1> DEFINE Good(k) == AtRest(a[z[k]], px, g[k])
           T0 == {k \in 0..n : Good(k)}
<1>10. 0 \in T0
  <2> DEFINE start == [out |-> <<>>, ok |-> TRUE, counting |-> FALSE, colour |-> 0]
  <2>1. a[0] = start
    BY <1>5 DEF ReadSteps
  <2>2. FirstOf(<<>>, px, 0)
    BY DEF FirstOf
  <2>3. start \in Reading /\ start.out = <<>> /\ start.ok /\ ~start.counting
    BY DEF Reading
  <2> HIDE DEF start
  <2>4. AtRest(start, px, 0)
    BY <2>2, <2>3 DEF AtRest, Shows
  <2>5. Good(0)
    BY <1>6, <1>7, <2>1, <2>4
  <2> QED BY <1>1, <2>5
<1>11. ASSUME NEW i \in 0..n - 1, i \in T0 PROVE i + 1 \in T0
  <2>1. PICK k \in 1..n : k = i + 1
    BY <1>1
  <2>2. k - 1 = i /\ i \in 0..n /\ k \in 0..n
    BY <1>1, <2>1
  <2>3. PICK p \in Nat, q \in Nat : p = z[i] /\ q = g[i]
    BY <1>6, <1>7, <2>2
  <2>4. ReadAs(f[k], palette, runs[k].colour, runs[k].length, px)
    BY DEF Readable, n
  <2>5. AtRest(a[p], px, q)
    BY <1>11, <2>3
  <2>6. Follows(a, p, f[k], palette) /\ Ahead(px, q, runs[k].length, runs[k].colour)
    BY <1>8, <1>9, <2>2, <2>3
  <2>7. AtRest(a[p + Len(f[k])], px, q + runs[k].length)
    BY <2>4, <2>5, <2>6 DEF ReadAs
  <2>8. z[k] = p + Len(f[k]) /\ g[k] = q + runs[k].length
    BY <1>6, <1>7, <2>2, <2>3
  <2>9. Good(k)
    BY <2>7, <2>8
  <2> HIDE DEF Good
  <2> QED BY <2>1, <2>2, <2>9
<1>12. n \in T0
  <2> HIDE DEF T0
  <2> QED BY <1>1, <1>10, <1>11, Climb
<1> DEFINE st == a[Len(rest)]
<1>13. AtRest(st, px, Len(px))
  BY <1>6, <1>7, <1>12
<1>14. T!ReadRuns(rest, palette) = IF st.ok /\ ~st.counting THEN st.out ELSE T!Garbled
  BY <1>5 DEF ReadSteps
<1> HIDE DEF st
<1>15. T!ReadRuns(rest, palette) = st.out
  BY <1>13, <1>14 DEF AtRest, Shows
<1>16. st.out = px
  <2>1. FirstOf(st.out, px, Len(px))
    BY <1>13 DEF AtRest, Shows
  <2>2. IsSeq(px)
    BY DEF IsSeq
  <2> QED BY <2>1, <2>2, SameSeq DEF FirstOf, IsSeq
<1> QED BY <1>15, <1>16 DEF rest

\* The runs with their colours.
LEMMA PlainRunsRead ==
  ASSUME NEW px \in Seq(Int), NEW b, NEW palette, palette = <<>>
  PROVE  /\ IsSeq(T!PlainRuns(T!Runs(px), b))
         /\ T!ReadRuns(T!PlainRuns(T!Runs(px), b), palette) = px
<1> DEFINE runs == T!Runs(px)
           n == Len(runs)
           f == [k \in 1..n |-> <<T!Pixel(b, runs[k].colour)>> \o T!RunLength(runs[k].length)]
<1>1. runs \in Seq(Run)
  BY RunsType
<1>2. PICK g : Spells(g, runs, px, Len(px))
  BY RunsSpell
<1> HIDE DEF runs
<1>3. n \in Nat /\ DOMAIN runs = 1..n
  BY <1>1
<1>4. T!PlainRuns(runs, b) = FlattenSeq(f)
  BY <1>3 DEF T!PlainRuns, T!FlattenSeq, FlattenSeq
<1>5. On(f, n)
  BY DEF On
<1>6. ASSUME NEW k \in 1..n
      PROVE  IsSeq(f[k]) /\ ReadAs(f[k], palette, runs[k].colour, runs[k].length, px)
  <2>1. runs[k] \in Run
    BY <1>1, ElementOfSeq
  <2>2. PICK c \in Int, l \in Nat \ {0} : c = runs[k].colour /\ l = runs[k].length
    BY <2>1 DEF Run
  <2>3. f[k] = <<T!Pixel(b, c)>> \o T!RunLength(l)
    BY <2>2
  <2> HIDE DEF f
  <2>4. ReadAs(<<T!Pixel(b, c)>> \o T!RunLength(l), palette, c, l, px)
    BY PlainRunRead
  <2>5. IsSeq(<<T!Pixel(b, c)>> \o T!RunLength(l))
    BY RunLengthIs, HeadIs
  <2> QED BY <2>2, <2>3, <2>4, <2>5
<1> HIDE DEF f
<1>7. Readable(f, runs, palette, px)
  BY <1>5, <1>6 DEF Readable
<1>8. T!ReadRuns(FlattenSeq(f), palette) = px
  BY <1>1, <1>2, <1>7, RunsRead
<1>9. IsSeq(FlattenSeq(f))
  BY <1>3, <1>5, <1>6, FlattenIsSeq
<1> QED BY <1>4, <1>8, <1>9 DEF runs

\* The palette p has all the colours of px.
HasAll(p, px) == \A j \in 1..Len(px) : \E i \in 1..Len(p) : p[i] = px[j]

\* The runs with their indices.
LEMMA PaletteRunsRead ==
  ASSUME NEW px \in Seq(Int), NEW p \in Seq(Int), Len(p) \in 1..127, HasAll(p, px)
  PROVE  /\ IsSeq(T!PaletteRuns(T!Runs(px), p))
         /\ T!ReadRuns(T!PaletteRuns(T!Runs(px), p), p) = px
<1> DEFINE runs == T!Runs(px)
           n == Len(runs)
           f == [k \in 1..n |-> T!IndexRun(T!Index(p, runs[k].colour), runs[k].length)]
<1>1. runs \in Seq(Run)
  BY RunsType
<1>2. PICK g : Spells(g, runs, px, Len(px))
  BY RunsSpell
<1> HIDE DEF runs
<1>3. n \in Nat /\ DOMAIN runs = 1..n
  BY <1>1
<1>4. T!PaletteRuns(runs, p) = FlattenSeq(f)
  BY <1>3 DEF T!PaletteRuns, T!FlattenSeq, FlattenSeq
<1>5. On(f, n)
  BY DEF On
<1>6. ASSUME NEW k \in 1..n
      PROVE  IsSeq(f[k]) /\ ReadAs(f[k], p, runs[k].colour, runs[k].length, px)
  <2>1. runs[k] \in Run
    BY <1>1, ElementOfSeq
  <2>2. PICK c \in Int, l \in Nat \ {0} : c = runs[k].colour /\ l = runs[k].length
    BY <2>1 DEF Run
  <2>3. f[k] = T!IndexRun(T!Index(p, c), l)
    BY <2>2
  <2> HIDE DEF f
  <2>4. PICK x \in Nat, y \in Nat : x = g[k - 1] /\ y = g[k] /\ y <= Len(px)
    <3>1. /\ g[n] = Len(px) /\ \A i \in 0..n : g[i] \in Nat
      BY <1>2 DEF Spells, RunSums
    <3>2. k - 1 \in 0..n /\ k \in 0..n /\ n \in 0..n /\ (k = n \/ k < n)
      <4> HIDE DEF n
      <4> QED BY <1>3
    <3>3. k = n \/ g[k] < g[n]
      BY <1>1, <1>2, <3>2, SumsGrow DEF Spells
    <3> HIDE DEF n
    <3>4. g[k - 1] \in Nat /\ g[k] \in Nat
      BY <3>1, <3>2
    <3>5. g[k] <= Len(px)
      BY <3>1, <3>3, <3>4
    <3> QED BY <3>4, <3>5
  <2>5. y = x + l
    BY <1>2, <2>2, <2>4 DEF Spells, RunSums
  <2>6. PICK j \in 1..Len(px) : j = x + 1
    BY <2>4, <2>5
  <2>7. px[j] = c
    <3>1. g[k - 1] < j /\ j <= g[k]
      <4>1. x < j /\ j <= y
        BY <2>5, <2>6
      <4> QED BY <2>4, <4>1
    <3> QED BY <1>2, <2>2, <3>1 DEF Spells
  <2>8. \E i \in 1..Len(p) : p[i] = c
    BY <2>7 DEF HasAll
  <2>9. T!Index(p, c) \in 0..Len(p) - 1 /\ p[T!Index(p, c) + 1] = c
    BY <2>8, IndexIs
  <2>10. Indexed(p, Len(p), T!Index(p, c), c)
    BY <2>9 DEF Indexed
  <2>11. /\ ReadAs(T!IndexRun(T!Index(p, c), l), p, c, l, px)
         /\ IsSeq(T!IndexRun(T!Index(p, c), l))
    BY <2>10, IndexRunRead
  <2> QED BY <2>2, <2>3, <2>11
<1> HIDE DEF f
<1>7. Readable(f, runs, p, px)
  BY <1>5, <1>6 DEF Readable
<1>8. T!ReadRuns(FlattenSeq(f), p) = px
  BY <1>1, <1>2, <1>7, RunsRead
<1>9. IsSeq(FlattenSeq(f))
  BY <1>3, <1>5, <1>6, FlattenIsSeq
<1> QED BY <1>4, <1>8, <1>9 DEF runs

-----------------------------------------------------------------------------
(***************************************************************************)
(* TRLE and ZRLE: palettes.                                                *)
(***************************************************************************)

Distinct(p) == \A i \in 1..Len(p), j \in 1..Len(p) : p[i] = p[j] => i = j

\* The palette of the first i pixels, unless they have too many colours.
Collects(p, px, i) ==
  /\ p \in Seq(Int) /\ Distinct(p)
  /\ Len(p) <= MaxPalette => \A j \in 1..i : \E k \in 1..Len(p) : p[k] = px[j]

\* And of one pixel more.
LEMMA SeenCollects ==
  ASSUME NEW p, NEW px, NEW i \in Nat, NEW m, m = i + 1, Collects(p, px, i), px[m] \in Int
  PROVE  Collects(T!Seen(p, px[m]), px, m)
<1> DEFINE c == px[m]
           n == Len(p)
           q == Append(p, c)
<1>1. p \in Seq(Int) /\ Distinct(p) /\ n \in Nat
  BY DEF Collects
<1>2. n <= MaxPalette => \A j \in 1..i : \E k \in 1..n : p[k] = px[j]
  BY DEF Collects
<1>3. \A j \in 1..m : j \in 1..i \/ j = m
  OBVIOUS
<1>4. T!Contains(p, c) <=> \E k \in 1..n : p[k] = c
  BY DEF T!Contains, Contains
<1>5. CASE n > MaxPalette \/ T!Contains(p, c)
  <2>1. T!Seen(p, c) = p
    BY <1>5 DEF T!Seen
  <2>2. ~(n > MaxPalette) => \A j \in 1..m : \E k \in 1..n : p[k] = px[j]
    BY <1>1, <1>2, <1>3, <1>4, <1>5, PaletteAssumption
  <2>3. n <= MaxPalette => \A j \in 1..m : \E k \in 1..n : p[k] = px[j]
    BY <1>1, <2>2, PaletteAssumption
  <2> QED BY <1>1, <2>1, <2>3 DEF Collects
<1>6. CASE ~(n > MaxPalette \/ T!Contains(p, c))
  <2>1. T!Seen(p, c) = q
    BY <1>6 DEF T!Seen
  <2>2. /\ q \in Seq(Int) /\ Len(q) = n + 1 /\ \A k \in 1..n : q[k] = p[k]
        /\ q[n + 1] = c
    BY <1>1, AppendProperties
  <2> HIDE DEF q, c
  <2>3. \A k \in 1..n : p[k] # c
    BY <1>4, <1>6
  <2>4. Distinct(q)
    <3> SUFFICES ASSUME NEW j \in 1..n + 1, NEW k \in 1..n + 1, q[j] = q[k] PROVE j = k
      BY <2>2 DEF Distinct
    <3>1. CASE j = n + 1 /\ k = n + 1
      BY <3>1
    <3>2. CASE j = n + 1 /\ k # n + 1
      <4>1. k \in 1..n
        BY <1>1, <3>2
      <4> QED BY <2>2, <2>3, <3>2, <4>1
    <3>3. CASE j # n + 1 /\ k = n + 1
      <4>1. j \in 1..n
        BY <1>1, <3>3
      <4> QED BY <2>2, <2>3, <3>3, <4>1
    <3>4. CASE j # n + 1 /\ k # n + 1
      <4>1. j \in 1..n /\ k \in 1..n
        BY <1>1, <3>4
      <4>2. p[j] = p[k]
        BY <2>2, <4>1
      <4> QED BY <1>1, <4>1, <4>2 DEF Distinct
    <3> QED BY <3>1, <3>2, <3>3, <3>4
  <2>5. n <= MaxPalette
    BY <1>1, <1>6, PaletteAssumption
  <2>6. ASSUME NEW j \in 1..m PROVE \E k \in 1..n + 1 : q[k] = px[j]
    <3>1. CASE j \in 1..i
      <4>1. PICK k \in 1..n : p[k] = px[j]
        BY <1>2, <2>5, <3>1
      <4>2. k \in 1..n + 1 /\ q[k] = p[k]
        BY <1>1, <2>2
      <4> QED BY <4>1, <4>2
    <3>2. CASE j = m
      <4>1. n + 1 \in 1..n + 1
        BY <1>1
      <4> QED BY <2>2, <3>2, <4>1 DEF c
    <3> QED BY <1>3, <3>1, <3>2
  <2>7. Collects(q, px, m)
    BY <2>2, <2>4, <2>6 DEF Collects
  <2> QED BY <2>1, <2>7 DEF c
<1> QED BY <1>5, <1>6

\* So the palette of a tile has its colours, each once.
LEMMA PaletteCollects ==
  ASSUME NEW px \in Seq(Int)
  PROVE  Collects(T!PaletteOf(px), px, Len(px))
<1>1. PICK a : PaletteSteps(a, px)
  BY PaletteMade
<1> DEFINE n == Len(px)
           T0 == {i \in 0..n : Collects(a[i], px, i)}
<1>2. n \in Nat
  OBVIOUS
<1>3. 0 \in T0
  <2> DEFINE s == <<>>
  <2>1. s \in Seq(Int) /\ Len(s) = 0
    OBVIOUS
  <2> HIDE DEF s
  <2>2. Collects(s, px, 0)
    BY <2>1 DEF Collects, Distinct
  <2>3. a[0] = s
    BY <1>1 DEF PaletteSteps, s
  <2> QED BY <1>2, <2>2, <2>3
<1>4. ASSUME NEW i \in 0..n - 1, i \in T0 PROVE i + 1 \in T0
  <2>1. PICK j \in 1..n : j = i + 1
    BY <1>2
  <2>2. a[j] = T!Seen(a[i], px[j]) /\ px[j] \in Int /\ i \in Nat /\ j \in 0..n
    <3>1. a[j] = T!Seen(a[j - 1], px[j])
      BY <1>1 DEF PaletteSteps
    <3>2. j - 1 = i /\ px[j] \in Int /\ i \in Nat /\ j \in 0..n
      BY <1>2, <2>1
    <3> QED BY <3>1, <3>2
  <2>3. Collects(a[i], px, i)
    BY <1>4
  <2>4. Collects(a[j], px, j)
    BY <2>1, <2>2, <2>3, SeenCollects
  <2> QED BY <2>1, <2>2, <2>4
<1>5. n \in T0
  <2> HIDE DEF T0
  <2> QED BY <1>2, <1>3, <1>4, Climb
<1> QED BY <1>1, <1>5 DEF PaletteSteps

\* A remembered palette that is used has all the colours of the tile.
LEMMA KnownHasAll ==
  ASSUME NEW px \in Seq(Int), NEW old \in Seq(Int), NEW k, k = T!Known(old, T!PaletteOf(px)),
         Len(k) \in 1..MaxPalette
  PROVE  k = old /\ HasAll(k, px)
<1> DEFINE p == T!PaletteOf(px)
<1>1. Collects(p, px, Len(px))
  BY PaletteCollects
<1> HIDE DEF p
<1>2. p \in Seq(Int) /\ Distinct(p) /\ Len(p) \in Nat /\ Len(old) \in Nat
  BY <1>1 DEF Collects
<1>3. k = IF \A i \in DOMAIN p : T!Contains(old, p[i]) THEN old ELSE <<>>
  BY DEF T!Known, p
<1>4. k # <<>>
  BY EmptyIsSeq
<1>5. k = old /\ \A i \in 1..Len(p) : \E j \in 1..Len(old) : old[j] = p[i]
  <2>1. k = old /\ \A i \in DOMAIN p : T!Contains(old, p[i])
    BY <1>3, <1>4
  <2>2. DOMAIN p = 1..Len(p)
    BY <1>2
  <2>3. \A i \in 1..Len(p) : \E j \in 1..Len(old) : old[j] = p[i]
    BY <2>1, <2>2 DEF T!Contains, Contains
  <2> QED BY <2>1, <2>3
<1>6. Len(p) <= MaxPalette
  <2> SUFFICES ASSUME ~(Len(p) <= MaxPalette) PROVE FALSE
    OBVIOUS
  <2> DEFINE A == 1..Len(p)
             B == 1..Len(old)
             f == [i \in A |-> CHOOSE j \in B : old[j] = p[i]]
  <2>1. Len(old) < Len(p)
    BY <1>2, <1>5, PaletteAssumption
  <2>2. \A i \in A : f[i] \in B /\ old[f[i]] = p[i]
    BY <1>5
  <2>3. f \in [A -> B]
    BY <2>2
  <2>4. IsFiniteSet(A) /\ Cardinality(A) = Len(p) /\ IsFiniteSet(B) /\ Cardinality(B) = Len(old)
    <3>1. ASSUME NEW n \in Nat PROVE IsFiniteSet(1..n) /\ Cardinality(1..n) = n
      <4>1. 1 \in Int /\ n \in Int
        OBVIOUS
      <4>2. IsFiniteSet(1..n) /\ Cardinality(1..n) = IF 1 > n THEN 0 ELSE n - 1 + 1
        BY <4>1, FS_Interval
      <4>3. (IF 1 > n THEN 0 ELSE n - 1 + 1) = n
        OBVIOUS
      <4> QED BY <4>2, <4>3
    <3> QED BY <1>2, <3>1
  <2> HIDE DEF f, A, B
  <2>5. PICK x \in A, y \in A : x # y /\ f[x] = f[y]
    BY <2>1, <2>3, <2>4, FS_PigeonHole
  <2>6. p[x] = p[y]
    BY <2>2, <2>5
  <2> QED BY <1>2, <2>5, <2>6 DEF Distinct, A
<1>7. ASSUME NEW j \in 1..Len(px) PROVE \E i \in 1..Len(old) : old[i] = px[j]
  <2>1. PICK i \in 1..Len(p) : p[i] = px[j]
    BY <1>1, <1>6 DEF Collects
  <2> QED BY <1>5, <2>1
<1> QED BY <1>5, <1>7 DEF HasAll

-----------------------------------------------------------------------------
(***************************************************************************)
(* TRLE and ZRLE: packed indices.                                          *)
(***************************************************************************)

\* Two numbers of four bits in a byte.
LEMMA FourBits ==
  ASSUME NEW a \in 0..15, NEW b \in 0..15, NEW v, v = (0 * 16 + a) * 16 + b
  PROVE  (v \div 16) % 16 = a /\ (v \div 1) % 16 = b
<1>1. v \in Nat /\ v = a * 16 + b
  OBVIOUS
<1>2. v \div 16 = a /\ v \div 1 = v
  BY <1>1
<1>3. v % 16 = b /\ a % 16 = a
  BY <1>1
<1> QED BY <1>2, <1>3

\* Four of two.
LEMMA TwoBits ==
  ASSUME NEW a \in 0..3, NEW b \in 0..3, NEW c \in 0..3, NEW d \in 0..3,
         NEW v, v = (((0 * 4 + a) * 4 + b) * 4 + c) * 4 + d
  PROVE  /\ (v \div 64) % 4 = a /\ (v \div 16) % 4 = b
         /\ (v \div 4) % 4 = c /\ (v \div 1) % 4 = d
<1>1. v \in Nat /\ v = a * 64 + b * 16 + c * 4 + d
  OBVIOUS
<1>2. v \div 64 = a /\ a % 4 = a
  BY <1>1
<1>3. v \div 16 = a * 4 + b /\ (a * 4 + b) % 4 = b
  BY <1>1
<1>4. v \div 4 = a * 16 + b * 4 + c /\ (a * 16 + b * 4 + c) % 4 = c
  BY <1>1
<1>5. v \div 1 = v /\ v % 4 = d
  BY <1>1
<1> QED BY <1>2, <1>3, <1>4, <1>5

\* Eight of one: the upper half of the byte is n.
LEMMA OneBit ==
  ASSUME NEW a \in 0..1, NEW b \in 0..1, NEW c \in 0..1, NEW d \in 0..1,
         NEW e \in 0..1, NEW f \in 0..1, NEW g \in 0..1, NEW h \in 0..1,
         NEW n, n = (((0 * 2 + a) * 2 + b) * 2 + c) * 2 + d,
         NEW v, v = (((n * 2 + e) * 2 + f) * 2 + g) * 2 + h
  PROVE  /\ (v \div 128) % 2 = a /\ (v \div 64) % 2 = b
         /\ (v \div 32) % 2 = c /\ (v \div 16) % 2 = d
         /\ (v \div 8) % 2 = e /\ (v \div 4) % 2 = f
         /\ (v \div 2) % 2 = g /\ (v \div 1) % 2 = h
<1>1. n \in Nat /\ n = a * 8 + b * 4 + c * 2 + d
  OBVIOUS
<1>2. v \in Nat /\ v = n * 16 + e * 8 + f * 4 + g * 2 + h
  BY <1>1
<1>3. v = a * 128 + b * 64 + c * 32 + d * 16 + e * 8 + f * 4 + g * 2 + h
  BY <1>1, <1>2
<1>4. v \div 128 = a /\ a % 2 = a
  BY <1>3
<1>5. v \div 64 = a * 2 + b /\ (a * 2 + b) % 2 = b
  BY <1>3
<1>6. v \div 32 = a * 4 + b * 2 + c /\ (a * 4 + b * 2 + c) % 2 = c
  BY <1>3
<1>7. v \div 16 = n /\ n % 2 = d
  BY <1>1, <1>2
<1>8. v \div 8 = n * 2 + e /\ (n * 2 + e) % 2 = e
  BY <1>1, <1>2
<1>9. v \div 4 = n * 4 + e * 2 + f /\ (n * 4 + e * 2 + f) % 2 = f
  BY <1>1, <1>2
<1>10. v \div 2 = n * 8 + e * 4 + f * 2 + g /\ (n * 8 + e * 4 + f * 2 + g) % 2 = g
  BY <1>1, <1>2
<1>11. v \div 1 = v /\ v % 2 = h
  BY <1>1, <1>2
<1> QED BY <1>4, <1>5, <1>6, <1>7, <1>8, <1>9, <1>10, <1>11

\* What is packed k-th into the byte for column x of row y.
Digit(t, p, x, y, k) == IF x + k < t.w THEN T!Index(p, T!At(t, x + k, y)) ELSE 0

\* The loop that packs a byte.
PackSteps(u, t, p, x, y, bits) ==
  /\ u[0] = 0
  /\ \A k \in 1..8 \div bits : u[k] = u[k - 1] * 2^bits + Digit(t, p, x, y, k - 1)
  /\ T!Packed(t, p, x, y, bits) = T!Byte(u[8 \div bits])

\* It can be gone through.
LEMMA PackMade ==
  ASSUME NEW t, NEW p, NEW x, NEW y, NEW bits \in {1, 2, 4}
  PROVE  \E u : PackSteps(u, t, p, x, y, bits)
<1> DEFINE n == 8 \div bits
           Step(s, i) == s * 2^bits + Digit(t, p, x, y, i - 1)
           Loop(g) == g = [i \in 0..n |-> IF i = 0 THEN 0 ELSE Step(g[i - 1], i)]
           Good(k, g) == g[0] = 0 /\ \A i \in 1..k : g[i] = Step(g[i - 1], i)
           a == CHOOSE g : Loop(g)
<1>1. T!Packed(t, p, x, y, bits) = T!Byte(a[n])
  BY DEF T!Packed, Digit
<1>2. n \in Nat
  OBVIOUS
<1> HIDE DEF n, Step
<1>3. \E g : Good(n, g)
  <2> DEFINE T0 == {k \in 0..n : \E g : Good(k, g)}
  <2>1. 0 \in T0
    <3>1. Good(0, [i \in 0..0 |-> 0])
      OBVIOUS
    <3> HIDE DEF Good
    <3> QED BY <1>2, <3>1
  <2>2. ASSUME NEW k \in 0..n - 1, k \in T0 PROVE k + 1 \in T0
    <3>1. PICK g : Good(k, g)
      BY <2>2
    <3> DEFINE h == [i \in 0..k + 1 |-> IF i = k + 1 THEN Step(g[k], k + 1) ELSE g[i]]
    <3>2. h[0] = 0
      BY <1>2, <3>1
    <3>3. ASSUME NEW i \in 1..k + 1 PROVE h[i] = Step(h[i - 1], i)
      <4>1. CASE i = k + 1
        BY <1>2, <4>1
      <4>2. CASE i # k + 1
        <5>1. i \in 1..k /\ i \in 0..k + 1 /\ i - 1 \in 0..k + 1 /\ i - 1 # k + 1
          BY <1>2, <4>2
        <5>2. g[i] = Step(g[i - 1], i)
          BY <3>1, <5>1
        <5> QED BY <4>2, <5>1, <5>2
      <4> QED BY <4>1, <4>2
    <3> HIDE DEF h
    <3>4. Good(k + 1, h)
      BY <3>2, <3>3
    <3> HIDE DEF Good
    <3> QED BY <1>2, <3>4
  <2> HIDE DEF T0
  <2>3. n \in T0
    BY <1>2, <2>1, <2>2, Climb
  <2> QED BY <2>3 DEF T0
<1>4. \E g : Loop(g)
  <2>1. PICK g : Good(n, g)
    BY <1>3
  <2> DEFINE f == [i \in 0..n |-> g[i]]
  <2>2. ASSUME NEW i \in 0..n PROVE f[i] = IF i = 0 THEN 0 ELSE Step(f[i - 1], i)
    BY <1>2, <2>1
  <2>3. Loop(f)
    BY <2>2
  <2> HIDE DEF Loop
  <2> QED BY <2>3
<1>5. Loop(a)
  <2> HIDE DEF Loop
  <2> QED BY <1>4
<1> HIDE DEF a
<1>6. a[0] = 0 /\ \A i \in 1..n : a[i] = Step(a[i - 1], i)
  BY <1>2, <1>5
<1>7. PackSteps(a, t, p, x, y, bits)
  BY <1>1, <1>6 DEF PackSteps, n, Step
<1> QED BY <1>7

\* The powers of two that are needed.
LEMMA Powers ==
  /\ 2^0 = 1 /\ 2^1 = 2 /\ 2^2 = 4 /\ 2^3 = 8 /\ 2^4 = 16 /\ 2^5 = 32 /\ 2^6 = 64 /\ 2^7 = 128
OBVIOUS

\* All that is packed into a byte are indices.
Packable(t, p, x, y, bits) ==
  \A k \in 0..8 \div bits - 1 : Digit(t, p, x, y, k) \in 0..2^bits - 1

\* The k-th index in byte v.
BitsAt(v, bits, k) == (v \div 2^(8 - bits * (k + 1))) % 2^bits

\* What is packed k-th into a byte is read k-th.
LEMMA DigitRead ==
  ASSUME NEW t, NEW p, NEW x, NEW y, NEW bits \in {1, 2, 4}, Packable(t, p, x, y, bits),
         NEW k \in 0..8 \div bits - 1, NEW v, v = T!Packed(t, p, x, y, bits).value
  PROVE  BitsAt(v, bits, k) = Digit(t, p, x, y, k)
<1>1. PICK u : PackSteps(u, t, p, x, y, bits)
  BY PackMade
<1> DEFINE D(j) == Digit(t, p, x, y, j)
<1>2. v = u[8 \div bits]
  BY <1>1 DEF PackSteps, T!Byte, T!Field
<1>3. u[0] = 0 /\ \A j \in 1..8 \div bits : u[j] = u[j - 1] * 2^bits + D(j - 1)
  BY <1>1 DEF PackSteps
<1>4. \A j \in 0..8 \div bits - 1 : D(j) \in 0..2^bits - 1
  BY DEF Packable
<1> HIDE DEF D
<1>5. CASE bits = 4
  <2>1. 8 \div bits = 2 /\ 2^bits = 16
    BY <1>5, Powers
  <2>2. D(0) \in 0..15 /\ D(1) \in 0..15
    BY <1>4, <2>1
  <2>3. u[1] = 0 * 16 + D(0) /\ u[2] = u[1] * 16 + D(1)
    <3>1. \A j \in 1..2, i \in 0..1 : i = j - 1 => u[j] = u[i] * 16 + D(i)
      BY <1>3, <2>1
    <3> QED BY <1>3, <3>1
  <2>4. v = (0 * 16 + D(0)) * 16 + D(1)
    BY <1>2, <2>1, <2>3
  <2>5. (v \div 16) % 16 = D(0) /\ (v \div 1) % 16 = D(1)
    BY <2>2, <2>4, FourBits
  <2>6. k = 0 \/ k = 1
    BY <2>1
  <2>7. CASE k = 0
    <3>1. 8 - bits * (k + 1) = 4
      BY <1>5, <2>7
    <3>2. 2^(8 - bits * (k + 1)) = 16
      BY <3>1, Powers
    <3> QED BY <2>1, <2>5, <2>7, <3>2 DEF D, BitsAt
  <2>8. CASE k = 1
    <3>1. 8 - bits * (k + 1) = 0
      BY <1>5, <2>8
    <3>2. 2^(8 - bits * (k + 1)) = 1
      BY <3>1, Powers
    <3> QED BY <2>1, <2>5, <2>8, <3>2 DEF D, BitsAt
  <2> QED BY <2>6, <2>7, <2>8
<1>6. CASE bits = 2
  <2>1. 8 \div bits = 4 /\ 2^bits = 4
    BY <1>6, Powers
  <2>2. D(0) \in 0..3 /\ D(1) \in 0..3 /\ D(2) \in 0..3 /\ D(3) \in 0..3
    BY <1>4, <2>1
  <2>3. /\ u[1] = 0 * 4 + D(0) /\ u[2] = u[1] * 4 + D(1)
        /\ u[3] = u[2] * 4 + D(2) /\ u[4] = u[3] * 4 + D(3)
    <3>1. \A j \in 1..4, i \in 0..3 : i = j - 1 => u[j] = u[i] * 4 + D(i)
      BY <1>3, <2>1
    <3> QED BY <1>3, <3>1
  <2>4. v = (((0 * 4 + D(0)) * 4 + D(1)) * 4 + D(2)) * 4 + D(3)
    BY <1>2, <2>1, <2>3
  <2>5. /\ (v \div 64) % 4 = D(0) /\ (v \div 16) % 4 = D(1)
        /\ (v \div 4) % 4 = D(2) /\ (v \div 1) % 4 = D(3)
    BY <2>2, <2>4, TwoBits
  <2>6. k = 0 \/ k = 1 \/ k = 2 \/ k = 3
    BY <2>1
  <2>7. /\ k = 0 => 8 - bits * (k + 1) = 6
        /\ k = 1 => 8 - bits * (k + 1) = 4
        /\ k = 2 => 8 - bits * (k + 1) = 2
        /\ k = 3 => 8 - bits * (k + 1) = 0
    BY <1>6
  <2> DEFINE e == 8 - bits * (k + 1)
  <2>8. /\ k = 0 => 2^e = 64
        /\ k = 1 => 2^e = 16
        /\ k = 2 => 2^e = 4
        /\ k = 3 => 2^e = 1
    BY <2>7, Powers
  <2> HIDE DEF e
  <2>9. (v \div 2^e) % 4 = D(k)
    BY <2>5, <2>6, <2>8
  <2> QED BY <2>1, <2>9 DEF D, e, BitsAt
<1>7. CASE bits = 1
  <2>1. 8 \div bits = 8 /\ 2^bits = 2
    BY <1>7, Powers
  <2>2. /\ D(0) \in 0..1 /\ D(1) \in 0..1 /\ D(2) \in 0..1 /\ D(3) \in 0..1
        /\ D(4) \in 0..1 /\ D(5) \in 0..1 /\ D(6) \in 0..1 /\ D(7) \in 0..1
    BY <1>4, <2>1
  <2>3. /\ u[1] = 0 * 2 + D(0) /\ u[2] = u[1] * 2 + D(1)
        /\ u[3] = u[2] * 2 + D(2) /\ u[4] = u[3] * 2 + D(3)
        /\ u[5] = u[4] * 2 + D(4) /\ u[6] = u[5] * 2 + D(5)
        /\ u[7] = u[6] * 2 + D(6) /\ u[8] = u[7] * 2 + D(7)
    <3>1. \A j \in 1..8, i \in 0..7 : i = j - 1 => u[j] = u[i] * 2 + D(i)
      BY <1>3, <2>1
    <3> QED BY <1>3, <3>1
  <2>4. /\ u[4] = (((0 * 2 + D(0)) * 2 + D(1)) * 2 + D(2)) * 2 + D(3)
        /\ v = (((u[4] * 2 + D(4)) * 2 + D(5)) * 2 + D(6)) * 2 + D(7)
    BY <1>2, <2>1, <2>3
  <2>5. /\ (v \div 128) % 2 = D(0) /\ (v \div 64) % 2 = D(1)
        /\ (v \div 32) % 2 = D(2) /\ (v \div 16) % 2 = D(3)
        /\ (v \div 8) % 2 = D(4) /\ (v \div 4) % 2 = D(5)
        /\ (v \div 2) % 2 = D(6) /\ (v \div 1) % 2 = D(7)
    BY <2>2, <2>4, OneBit
  <2>6. k = 0 \/ k = 1 \/ k = 2 \/ k = 3 \/ k = 4 \/ k = 5 \/ k = 6 \/ k = 7
    BY <2>1
  <2>7. /\ k = 0 => 8 - bits * (k + 1) = 7
        /\ k = 1 => 8 - bits * (k + 1) = 6
        /\ k = 2 => 8 - bits * (k + 1) = 5
        /\ k = 3 => 8 - bits * (k + 1) = 4
        /\ k = 4 => 8 - bits * (k + 1) = 3
        /\ k = 5 => 8 - bits * (k + 1) = 2
        /\ k = 6 => 8 - bits * (k + 1) = 1
        /\ k = 7 => 8 - bits * (k + 1) = 0
    BY <1>7
  <2> DEFINE e == 8 - bits * (k + 1)
  <2>8. /\ k = 0 => 2^e = 128
        /\ k = 1 => 2^e = 64
        /\ k = 2 => 2^e = 32
        /\ k = 3 => 2^e = 16
        /\ k = 4 => 2^e = 8
        /\ k = 5 => 2^e = 4
        /\ k = 6 => 2^e = 2
        /\ k = 7 => 2^e = 1
    BY <2>7, Powers
  <2> HIDE DEF e
  <2>9. (v \div 2^e) % 2 = D(k)
    BY <2>5, <2>6, <2>8
  <2> QED BY <2>1, <2>9 DEF D, e, BitsAt
<1> QED BY <1>5, <1>6, <1>7

\* The bits of an index hold it.
LEMMA BitsHold ==
  ASSUME NEW n \in 2..16
  PROVE  /\ T!PackedBits(n) \in {1, 2, 4} /\ n <= 2^T!PackedBits(n)
         /\ T!PerByte(n) = 8 \div T!PackedBits(n) /\ T!PerByte(n) \in {8, 4, 2}
<1>1. CASE n = 2
  BY <1>1, Powers DEF T!PackedBits, T!PerByte
<1>2. CASE n # 2 /\ n <= 4
  BY <1>2, Powers DEF T!PackedBits, T!PerByte
<1>3. CASE ~(n <= 4)
  BY <1>3, Powers DEF T!PackedBits, T!PerByte
<1> QED BY <1>1, <1>2, <1>3

\* A tile and a palette that has all its colours.
Painted(t, p) ==
  /\ t.w \in Nat \ {0} /\ t.h \in Nat \ {0}
  /\ t.px \in Seq(Int) /\ Len(t.px) = Cells(t.w, t.h)
  /\ p \in Seq(Int) /\ Len(p) \in 2..16 /\ HasAll(p, t.px)

\* The index of a pixel.
LEMMA IndexAt ==
  ASSUME NEW t, NEW p, Painted(t, p), NEW x \in 0..t.w - 1, NEW y \in 0..t.h - 1
  PROVE  /\ T!Index(p, T!At(t, x, y)) \in 0..Len(p) - 1
         /\ p[T!Index(p, T!At(t, x, y)) + 1] = T!At(t, x, y)
         /\ \A i \in 1..Cells(t.w, t.h) : i = y * t.w + x + 1 => T!At(t, x, y) = t.px[i]
<1> USE DEF Painted
<1>1. PICK w \in Nat \ {0}, h \in Nat \ {0} : w = t.w /\ h = t.h
  OBVIOUS
<1>2. PICK i \in Nat : i = y * w + x + 1
  <2>1. y * w \in Nat
    BY <1>1, Products
  <2> QED BY <1>1, <2>1
<1>3. i \in 1..Cells(w, h)
  BY <1>1, <1>2, PixelAt
<1>4. T!At(t, x, y) = t.px[i]
  BY <1>1, <1>2 DEF T!At
<1>5. \E k \in 1..Len(p) : p[k] = t.px[i]
  BY <1>1, <1>3 DEF HasAll
<1>6. p \in Seq(Int)
  OBVIOUS
<1>7. T!Index(p, t.px[i]) \in 0..Len(p) - 1 /\ p[T!Index(p, t.px[i]) + 1] = t.px[i]
  BY <1>5, <1>6, IndexIs
<1>8. \A j \in 1..Cells(w, h) : j = y * w + x + 1 => j = i
  BY <1>2
<1> QED BY <1>1, <1>4, <1>7, <1>8

\* So all bytes of a row can be packed.
LEMMA AllPackable ==
  ASSUME NEW t, NEW p, Painted(t, p), NEW x \in Nat, NEW y \in 0..t.h - 1,
         NEW bits, bits = T!PackedBits(Len(p))
  PROVE  Packable(t, p, x, y, bits)
<1>1. Len(p) \in 2..16 /\ t.w \in Nat
  BY DEF Painted
<1>2. bits \in {1, 2, 4} /\ Len(p) <= 2^bits
  BY <1>1, BitsHold
<1>3. 2^bits \in {2, 4, 16} /\ 8 \div bits \in Nat
  <2>1. CASE bits = 1
    BY <2>1, Powers
  <2>2. CASE bits = 2
    BY <2>2, Powers
  <2>3. CASE bits = 4
    BY <2>3, Powers
  <2> QED BY <1>2, <2>1, <2>2, <2>3
<1> SUFFICES ASSUME NEW k \in 0..8 \div bits - 1
             PROVE  Digit(t, p, x, y, k) \in 0..2^bits - 1
  BY DEF Packable
<1>4. CASE x + k < t.w
  <2>1. PICK c \in 0..t.w - 1 : c = x + k
    BY <1>1, <1>3, <1>4
  <2>2. T!Index(p, T!At(t, c, y)) \in 0..Len(p) - 1
    BY IndexAt
  <2>3. Digit(t, p, x, y, k) = T!Index(p, T!At(t, c, y))
    BY <1>4, <2>1 DEF Digit
  <2>4. PICK d : d = T!Index(p, T!At(t, c, y))
    OBVIOUS
  <2>5. PICK b \in {2, 4, 16} : b = 2^bits
    BY <1>3
  <2>6. PICK n \in 2..16 : n = Len(p)
    BY <1>1
  <2>7. d \in 0..n - 1 /\ n <= b
    BY <1>2, <2>2, <2>4, <2>5, <2>6
  <2>8. d \in 0..b - 1
    BY <2>7
  <2> QED BY <2>3, <2>4, <2>5, <2>8
<1>5. CASE ~(x + k < t.w)
  <2>1. Digit(t, p, x, y, k) = 0
    BY <1>5 DEF Digit
  <2> QED BY <1>3, <2>1
<1> QED BY <1>4, <1>5

\* Every row has bytes enough, and the last is not empty.
LEMMA RowHolds ==
  ASSUME NEW w \in Nat \ {0}, NEW per \in {8, 4, 2}, NEW row, row = (w + per - 1) \div per
  PROVE  /\ row \in Nat \ {0}
         /\ \A x \in 0..w - 1 :
              /\ x \div per \in 0..row - 1 /\ x % per \in 0..per - 1
              /\ (x \div per) * per + (x % per) = x
<1>1. CASE per = 8
  BY <1>1
<1>2. CASE per = 4
  BY <1>2
<1>3. CASE per = 2
  BY <1>3
<1> QED BY <1>1, <1>2, <1>3

\* What the viewer reads for column x and row y.
Unpacked(rest, row, per, bits, x, y) ==
  BitsAt(rest[y * row + x \div per + 1].value, bits, x % per)

\* Rows of w pixels have row bytes.
BytesOf(w, per, row) == row \in Nat \ {0} /\ row = (w + per - 1) \div per

\* Column x is the k-th of byte b, which begins with column o.
InRow(x, per, row, b, k, o) ==
  /\ b = x \div per /\ k = x % per /\ o = b * per /\ o + k = x
  /\ b \in 0..row - 1 /\ k \in 0..per - 1 /\ o \in Nat

\* Byte b of row y is byte m.
InRows(b, y, row, h, m) ==
  /\ m = y * row + b + 1 /\ m \in 1..Cells(row, h)
  /\ X(m, row) = b /\ Y(m, row) = y

\* Every column is in a byte.
LEMMA RowOf ==
  ASSUME NEW w \in Nat \ {0}, NEW per \in {8, 4, 2}, NEW row, BytesOf(w, per, row),
         NEW x \in 0..w - 1
  PROVE  \E b, k, o : InRow(x, per, row, b, k, o)
<1>1. /\ x \div per \in 0..row - 1 /\ x % per \in 0..per - 1
      /\ (x \div per) * per + (x % per) = x
  BY RowHolds DEF BytesOf
<1>2. (x \div per) * per \in Nat
  <2>1. x \div per \in Nat /\ per \in Nat
    BY <1>1 DEF BytesOf
  <2> QED BY <2>1, Products
<1>3. InRow(x, per, row, x \div per, x % per, (x \div per) * per)
  BY <1>1, <1>2, Zenon DEF InRow
<1> QED BY <1>3

\* Every byte of a row is one of all.
LEMMA RowsOf ==
  ASSUME NEW row \in Nat \ {0}, NEW h \in Nat \ {0}, NEW b \in 0..row - 1, NEW y \in 0..h - 1
  PROVE  \E m \in Nat : InRows(b, y, row, h, m)
<1>1. PICK m \in Nat : m = y * row + b + 1
  <2>1. y * row \in Nat
    BY Products
  <2> QED BY <2>1
<1>2. m \in 1..Cells(row, h)
  <2>1. h \in Nat
    OBVIOUS
  <2> QED BY <1>1, <2>1, PixelAt
<1>3. X(m, row) = b /\ Y(m, row) = y
  <2>1. y \in Nat /\ y * row \in Nat
    BY Products
  <2>2. m - 1 = y * row + b
    BY <1>1, <2>1
  <2>3. (y * row + b) \div row = y /\ (y * row + b) % row = b
    BY <2>1, Quotient
  <2> QED BY <2>2, <2>3 DEF X, Y
<1> QED BY <1>1, <1>2, <1>3 DEF InRows

\* rest are the packed indices of t, in rows of row bytes.
PackedRows(t, p, w, h, bits, per, row, rest) ==
  /\ Painted(t, p) /\ w = t.w /\ h = t.h /\ w \in Nat \ {0} /\ h \in Nat \ {0}
  /\ bits = T!PackedBits(Len(p)) /\ per = 8 \div bits /\ BytesOf(w, per, row)
  /\ \A i \in 1..Cells(row, h) :
       rest[i] = T!Packed(t, p, X(i, row) * per, Y(i, row), bits)

\* Column x and row y are in the tile.
Inside(x, y, w, h) == x \in 0..w - 1 /\ y \in 0..h - 1

\* So that the pixel's index is read.
LEMMA IndexRead ==
  ASSUME NEW t, NEW p, NEW w, NEW h, NEW bits \in {1, 2, 4}, NEW per \in {8, 4, 2},
         NEW row, NEW rest, PackedRows(t, p, w, h, bits, per, row, rest),
         NEW x, NEW y, Inside(x, y, w, h)
  PROVE  Unpacked(rest, row, per, bits, x, y) = T!Index(p, T!At(t, x, y))
<1>1. w \in Nat \ {0} /\ h \in Nat \ {0} /\ x \in 0..w - 1 /\ y \in 0..h - 1
  BY DEF PackedRows, Inside
<1>2. row \in Nat \ {0} /\ BytesOf(w, per, row)
  BY DEF PackedRows, BytesOf
<1>3. PICK b, k, o : InRow(x, per, row, b, k, o)
  BY <1>1, <1>2, RowOf
<1>4. b \in 0..row - 1 /\ k \in 0..per - 1 /\ o \in Nat
  BY <1>3 DEF InRow
<1>5. PICK m \in Nat : InRows(b, y, row, h, m)
  BY <1>1, <1>2, <1>4, RowsOf
<1>6. rest[m] = T!Packed(t, p, o, y, bits)
  <2>1. m \in 1..Cells(row, h) /\ X(m, row) = b /\ Y(m, row) = y /\ o = b * per
    BY <1>3, <1>5, Zenon DEF InRow, InRows
  <2>2. rest[m] = T!Packed(t, p, X(m, row) * per, Y(m, row), bits)
    BY <2>1, Zenon DEF PackedRows
  <2> QED BY <2>1, <2>2, Zenon
<1>7. Packable(t, p, o, y, bits)
  <2>1. Painted(t, p) /\ y \in 0..t.h - 1 /\ bits = T!PackedBits(Len(p))
    BY <1>1 DEF PackedRows
  <2> QED BY <1>4, <2>1, AllPackable
<1>8. PICK v : v = rest[m].value
  OBVIOUS
<1>9. BitsAt(v, bits, k) = Digit(t, p, o, y, k)
  <2>1. v = T!Packed(t, p, o, y, bits).value
    BY <1>6, <1>8
  <2>2. k \in 0..8 \div bits - 1
    BY <1>4 DEF PackedRows
  <2> QED BY <1>7, <2>1, <2>2, DigitRead
<1>10. Digit(t, p, o, y, k) = T!Index(p, T!At(t, x, y))
  <2>1. o + k = x /\ x < w
    BY <1>1, <1>3 DEF InRow
  <2>2. w = t.w
    BY DEF PackedRows
  <2> QED BY <2>1, <2>2 DEF Digit
<1>11. Unpacked(rest, row, per, bits, x, y) = BitsAt(v, bits, k)
  <2>1. b = x \div per /\ k = x % per /\ m = y * row + b + 1
    BY <1>3, <1>5, Zenon DEF InRow, InRows
  <2>2. y * row + x \div per + 1 = m
    BY <2>1, Zenon
  <2> QED BY <1>8, <2>1, <2>2, Zenon DEF Unpacked
<1> QED BY <1>9, <1>10, <1>11

\* Packed indices are read as the pixels of the tile.
LEMMA PackedRead ==
  ASSUME NEW t, NEW p, Painted(t, p)
  PROVE  /\ IsSeq(T!PackedPalette(t, p))
         /\ T!ReadPacked(t.w, t.h, T!PackedPalette(t, p), p) = t.px
<1> DEFINE bits == T!PackedBits(Len(p))
           per == 8 \div bits
           row == (t.w + per - 1) \div per
           rest == T!PackedPalette(t, p)
           n == Cells(row, t.h)
           index(x, y) == Unpacked(rest, row, per, bits, x, y)
           colour(k) == IF k < Len(p) THEN p[k + 1] ELSE -1
           shown == [i \in 1..t.w * t.h |-> colour(index((i - 1) % t.w, (i - 1) \div t.w))]
<1>1. T!ReadPacked(t.w, t.h, rest, p)
        = IF T!AreNumbers(rest) /\ Len(rest) = row * t.h THEN shown ELSE T!Garbled
  BY DEF T!ReadPacked, Unpacked, BitsAt
<1>2. rest = [i \in 1..row * t.h |->
                T!Packed(t, p, ((i - 1) % row) * per, (i - 1) \div row, bits)]
  BY DEF T!PackedPalette, T!PerByte
<1>3. bits \in {1, 2, 4} /\ per \in {8, 4, 2} /\ Len(p) \in 2..16
  <2>1. Len(p) \in 2..16
    BY DEF Painted
  <2>2. bits \in {1, 2, 4}
    BY <2>1, BitsHold
  <2> HIDE DEF bits
  <2> QED BY <2>1, <2>2
<1>4. t.w \in Nat \ {0} /\ t.h \in Nat \ {0}
  BY DEF Painted
<1>5. row \in Nat \ {0}
  <2> HIDE DEF per
  <2> QED BY <1>3, <1>4, RowHolds
<1>6. n \in Nat /\ n = row * t.h
  <2> HIDE DEF row
  <2> QED BY <1>4, <1>5, CellsIs DEF Cells
<1>7. \A i \in 1..n : rest[i] = T!Packed(t, p, X(i, row) * per, Y(i, row), bits)
  <2> HIDE DEF row, per, bits, rest, n
  <2> QED BY <1>2, <1>6 DEF X, Y
<1>8. On(rest, n)
  <2> HIDE DEF row, per, bits, n
  <2>1. rest = [i \in 1..n |->
                T!Packed(t, p, ((i - 1) % row) * per, (i - 1) \div row, bits)]
    BY <1>2, <1>6
  <2> HIDE DEF rest
  <2> QED BY <2>1, Zenon DEF On
<1> HIDE DEF rest
<1>9. IsSeq(rest) /\ Len(rest) = n
  <2> HIDE DEF n
  <2> QED BY <1>6, <1>8, FunctionIsSeq
<1>10. T!AreNumbers(rest)
  <2>1. ASSUME NEW i \in 1..n PROVE ~rest[i].pixel
    <3> DEFINE x == X(i, row) * per
               y == Y(i, row)
    <3>1. rest[i] = T!Packed(t, p, x, y, bits)
      BY <1>7
    <3> HIDE DEF x, y, bits
    <3>2. PICK u : PackSteps(u, t, p, x, y, bits)
      BY <1>3, PackMade
    <3> QED BY <3>1, <3>2 DEF PackSteps, T!Byte, T!Field
  <2>2. DOMAIN rest = 1..n
    BY <1>9, SeqIs
  <2> HIDE DEF n
  <2> QED BY <2>1, <2>2 DEF T!AreNumbers
<1>11. ASSUME NEW i \in 1..Cells(t.w, t.h)
       PROVE  colour(index(X(i, t.w), Y(i, t.w))) = t.px[i]
  <2> DEFINE x == X(i, t.w)
             y == Y(i, t.w)
  <2>1. x \in 0..t.w - 1 /\ y \in 0..t.h - 1 /\ i = y * t.w + x + 1
    BY <1>4, Place
  <2>2. PICK e : e = T!Index(p, T!At(t, x, y))
    OBVIOUS
  <2> HIDE DEF x, y
  <2>3. e \in 0..Len(p) - 1 /\ p[e + 1] = t.px[i]
    BY <2>1, <2>2, IndexAt
  <2>4. index(x, y) = e
    <3>1. PICK w \in Nat \ {0}, h \in Nat \ {0} : w = t.w /\ h = t.h
      BY <1>4
    <3>2. PackedRows(t, p, w, h, bits, per, row, rest)
      BY <1>5, <1>7, <3>1 DEF PackedRows, BytesOf
    <3>3. Inside(x, y, w, h)
      BY <2>1, <3>1 DEF Inside
    <3> HIDE DEF bits, per, row
    <3>4. bits \in {1, 2, 4} /\ per \in {8, 4, 2}
      BY <1>3
    <3>5. Unpacked(rest, row, per, bits, x, y) = T!Index(p, T!At(t, x, y))
      BY <3>2, <3>3, <3>4, IndexRead
    <3> QED BY <2>2, <3>5
  <2> HIDE DEF index
  <2>5. colour(e) = p[e + 1]
    BY <1>3, <2>3
  <2> QED BY <2>3, <2>4, <2>5 DEF x, y
<1>12. shown = t.px
  <2>1. t.px \in Seq(Int) /\ Len(t.px) = Cells(t.w, t.h) /\ Cells(t.w, t.h) \in Nat
    BY <1>4, CellsIs DEF Painted
  <2>2. \A i \in 1..Cells(t.w, t.h) : shown[i] = colour(index(X(i, t.w), Y(i, t.w)))
    <3> HIDE DEF index, colour
    <3> QED BY DEF Cells, X, Y
  <2>3. On(shown, Cells(t.w, t.h))
    <3> HIDE DEF index, colour
    <3> QED BY DEF On, Cells
  <2> HIDE DEF shown, index, colour
  <2>4. IsSeq(shown) /\ Len(shown) = Cells(t.w, t.h)
    BY <2>1, <2>3, FunctionIsSeq
  <2>5. IsSeq(t.px)
    BY <2>1 DEF IsSeq
  <2>6. \A i \in 1..Len(shown) : shown[i] = t.px[i]
    BY <1>11, <2>2, <2>4
  <2> QED BY <2>1, <2>4, <2>5, <2>6, SameSeq
<1> HIDE DEF shown
<1>13. T!ReadPacked(t.w, t.h, rest, p) = t.px
  <2>1. Len(rest) = row * t.h
    BY <1>6, <1>9
  <2> HIDE DEF row
  <2> QED BY <1>1, <1>10, <1>12, <2>1
<1> QED BY <1>9, <1>13 DEF rest

-----------------------------------------------------------------------------
(***************************************************************************)
(* TRLE and ZRLE: the message.                                             *)
(***************************************************************************)

\* k fields of s from the i-th on.
Cut(q, s, i, k) == IsSeq(q) /\ Len(q) = k /\ \A j \in 1..k : q[j] = s[i + j - 1]

\* PieceIs.
LEMMA PieceCut ==
  ASSUME NEW s, IsSeq(s), NEW i \in Nat \ {0}, NEW k \in Nat, NEW e \in Nat,
         e = i + k - 1, e <= Len(s)
  PROVE  Cut(SubSeq(s, i, e), s, i, k)
BY PieceIs DEF Cut

\* The subencoding x, the palette p and the rest r.
Opened(m, x, p, r) == m = <<x>> \o (p \o r)

\* It begins with x, and r is what comes after the palette.
Leaves(m, x, p, r) == m[1] = x /\ SubSeq(m, 2 + Len(p), Len(m)) = r

\* Such a message is read so.
LEMMA RestIs ==
  ASSUME NEW x, NEW p, IsSeq(p), NEW r, IsSeq(r), NEW m, Opened(m, x, p, r)
  PROVE  Leaves(m, x, p, r)
<1>1. PICK k \in Nat, s \in Nat \ {0} : k = Len(p) /\ s = 2 + k
  <2>1. Len(p) \in Nat
    BY SeqIs
  <2> QED BY <2>1
<1> DEFINE w == p \o r
           q == SubSeq(m, s, Len(m))
<1>2. /\ IsSeq(w) /\ Len(w) = k + Len(r) /\ Len(r) \in Nat
      /\ \A i \in 1..Len(r) : w[k + i] = r[i]
  <2>1. Len(r) \in Nat
    BY SeqIs
  <2>2. /\ IsSeq(w) /\ Len(w) = Len(p) + Len(r)
        /\ \A i \in 1..Len(r) : w[Len(p) + i] = r[i]
    BY ConcatIsSeq
  <2> HIDE DEF w
  <2> QED BY <1>1, <2>1, <2>2
<1>3. m = <<x>> \o w
  BY DEF Opened
<1> HIDE DEF w
<1>4. /\ IsSeq(m) /\ Len(m) = 1 + Len(w) /\ m[1] = x
      /\ \A i \in 1..Len(w) : m[1 + i] = w[i]
  <2>1. IsSeq(w)
    BY <1>2
  <2>2. /\ IsSeq(<<x>> \o w) /\ Len(<<x>> \o w) = 1 + Len(w) /\ (<<x>> \o w)[1] = x
        /\ \A i \in 1..Len(w) : (<<x>> \o w)[1 + i] = w[i]
    BY <2>1, HeadIs
  <2> QED BY <1>3, <2>2
<1>5. PICK n \in Nat : n = Len(r)
  BY <1>2
<1>6. IsSeq(q) /\ Len(q) = n /\ \A i \in 1..n : q[i] = m[s + i - 1]
  <2>1. PICK e \in Nat : e = Len(m)
    BY <1>2, <1>4
  <2>2. s \in Nat \ {0} /\ e = s + n - 1 /\ e <= Len(m)
    BY <1>1, <1>2, <1>4, <1>5, <2>1
  <2> HIDE DEF q
  <2>3. Cut(SubSeq(m, s, e), m, s, n)
    BY <1>4, <2>2, PieceCut
  <2> QED BY <2>1, <2>3 DEF q, Cut
<1> HIDE DEF q
<1>7. ASSUME NEW i \in 1..n PROVE q[i] = r[i]
  <2>1. PICK j \in Nat : j = k + i
    BY <1>2
  <2>2. j \in 1..Len(w) /\ s + i - 1 = 1 + j
    BY <1>1, <1>2, <1>5, <2>1
  <2>3. m[1 + j] = w[j] /\ w[j] = r[i]
    BY <1>2, <1>4, <1>5, <2>1, <2>2
  <2> QED BY <1>6, <2>2, <2>3
<1>8. q = r
  BY <1>5, <1>6, <1>7, SameSeq
<1> QED BY <1>1, <1>4, <1>8 DEF q, Leaves

\* A message of subencoding sub: the colours that are sent, in c bytes, and r.
Arrives(m, sub, colours, c, r) ==
  /\ colours \in Seq(Int) /\ T!Colors(sub) = Len(colours) /\ IsSeq(r)
  /\ m = <<T!Byte(sub)>> \o (T!Pixels(c, colours) \o r)

\* The viewer finds all three.
LEMMA ArrivesRead ==
  ASSUME NEW m, NEW sub, NEW colours, NEW c, NEW r, Arrives(m, sub, colours, c, r)
  PROVE  T!SubOf(m) = sub /\ T!PaletteIn(m) = colours /\ T!Rest(m) = r
<1> DEFINE p == T!Pixels(c, colours)
           x == T!Byte(sub)
<1>1. colours \in Seq(Int) /\ T!Colors(sub) = Len(colours) /\ IsSeq(r)
  BY DEF Arrives
<1>2. IsSeq(p) /\ Len(p) = Len(colours)
  BY <1>1, PixelsAre
<1>3. T!Values(SubSeq(m, 2, 1 + Len(colours))) = colours
  <2>1. m = <<x>> \o (p \o r)
    BY DEF Arrives
  <2> HIDE DEF x
  <2> QED BY <1>1, <2>1, PaletteRead
<1>4. m[1] = x /\ SubSeq(m, 2 + Len(colours), Len(m)) = r
  <2>1. Opened(m, x, p, r)
    BY DEF Opened, Arrives
  <2> HIDE DEF p, x
  <2>2. Leaves(m, x, p, r)
    BY <1>1, <1>2, <2>1, RestIs
  <2> QED BY <1>2, <2>2 DEF Leaves
<1>5. T!SubOf(m) = sub
  BY <1>4 DEF T!SubOf, T!Byte, T!Field
<1> QED BY <1>1, <1>3, <1>4, <1>5 DEF T!PaletteIn, T!Rest

\* Without colours only r is sent.
LEMMA NoColours ==
  ASSUME NEW c, NEW colours \in Seq(Int), Len(colours) = 0, NEW r, IsSeq(r)
  PROVE  T!Pixels(c, colours) \o r = r
<1> DEFINE p == T!Pixels(c, colours)
           w == p \o r
<1>1. IsSeq(p) /\ Len(p) = 0
  BY PixelsAre
<1> HIDE DEF p
<1>2. Len(r) \in Nat
  BY SeqIs
<1>3. /\ IsSeq(w) /\ Len(w) = Len(p) + Len(r)
      /\ \A i \in 1..Len(r) : w[Len(p) + i] = r[i]
  BY <1>1, ConcatIsSeq
<1> HIDE DEF w
<1>4. \A i \in 1..Len(w) : w[i] = r[i]
  <2>1. \A i \in 1..Len(r) : 0 + i = i
    OBVIOUS
  <2> QED BY <1>1, <1>2, <1>3, <2>1
<1>5. Len(w) = Len(r)
  BY <1>1, <1>2, <1>3
<1>6. w = r
  BY <1>3, <1>4, <1>5, SameSeq
<1> QED BY <1>6 DEF w, p

\* The pixels are read as they were written.
LEMMA PixelsRead ==
  ASSUME NEW c, NEW px \in Seq(Int)
  PROVE  /\ IsSeq(T!Pixels(c, px)) /\ T!ArePixels(T!Pixels(c, px))
         /\ T!Values(T!Pixels(c, px)) = px
<1> DEFINE p == T!Pixels(c, px)
           v == T!Values(p)
           n == Len(px)
<1>1. IsSeq(p) /\ Len(p) = n /\ \A i \in 1..n : p[i].value = px[i]
  BY PixelsAre
<1>2. n \in Nat /\ DOMAIN px = 1..n
  OBVIOUS
<1>3. \A i \in 1..n : p[i].pixel
  <2>1. \A i \in 1..n : p[i] = T!Pixel(c, px[i])
    BY <1>2 DEF T!Pixels
  <2> HIDE DEF p
  <2>2. ASSUME NEW i \in 1..n PROVE p[i].pixel
    <3>1. T!Pixel(c, px[i]).pixel = TRUE
      BY DEF T!Pixel
    <3> QED BY <2>1, <3>1
  <2> QED BY <2>2
<1> HIDE DEF p
<1>4. DOMAIN p = 1..n
  BY <1>1, SeqIs
<1>5. T!ArePixels(p)
  BY <1>3, <1>4 DEF T!ArePixels
<1>6. On(v, n) /\ \A i \in 1..n : v[i] = p[i].value
  BY <1>4 DEF T!Values, On
<1> HIDE DEF v
<1>7. IsSeq(v) /\ Len(v) = n
  BY <1>2, <1>6, FunctionIsSeq
<1>8. v = px
  <2>1. \A i \in 1..Len(v) : v[i] = px[i]
    BY <1>1, <1>6, <1>7
  <2>2. IsSeq(px)
    BY DEF IsSeq
  <2> QED BY <1>7, <2>1, <2>2, SameSeq
<1> QED BY <1>1, <1>5, <1>8 DEF v, p

\* The message of a tile.
Encoding(t, c, runs, sub, used) ==
  <<T!Byte(sub)>> \o T!Body(t, c, runs, sub, used, T!Sent(sub, c, used))

\* The pixels, or the runs of them, come without a palette.
LEMMA BareArrives ==
  ASSUME NEW t, NEW c, NEW runs, NEW sub, NEW used, NEW r, IsSeq(r), NEW e \in Seq(Int),
         Len(e) = 0, T!Colors(sub) = 0,
         r = T!Body(t, c, runs, sub, used, T!Sent(sub, c, used))
  PROVE  Arrives(Encoding(t, c, runs, sub, used), sub, e, c, r)
<1>1. T!Pixels(c, e) \o r = r
  BY NoColours
<1>2. Encoding(t, c, runs, sub, used) = <<T!Byte(sub)>> \o (T!Pixels(c, e) \o r)
  BY <1>1 DEF Encoding
<1> QED BY <1>2 DEF Arrives

\* With a palette the indices come after it.
LEMMA IndexedArrives ==
  ASSUME NEW t, NEW c, NEW runs, NEW sub, sub \notin {T!Raw, T!Rle}, NEW used,
         NEW e \in Seq(Int), T!Sent(sub, c, used) = e, T!Colors(sub) = Len(e),
         NEW r, IsSeq(r), r = T!Indices(t, runs, sub, used)
  PROVE  Arrives(Encoding(t, c, runs, sub, used), sub, e, c, r)
<1>1. Encoding(t, c, runs, sub, used) = <<T!Byte(sub)>> \o (T!Pixels(c, e) \o r)
  BY DEF Encoding, T!Body
<1> QED BY <1>1 DEF Arrives

\* What a message shows, by its subencoding.
LEMMA ShownBy ==
  ASSUME NEW w, NEW h, NEW m, NEW memory, NEW sub, NEW r, NEW palette,
         T!SubOf(m) = sub, T!Rest(m) = r, T!Viewed(m, memory) = palette
  PROVE  /\ sub = T!Raw /\ T!ArePixels(r) => T!Shown(w, h, m, memory) = T!Values(r)
         /\ sub = T!Rle => T!Shown(w, h, m, memory) = T!ReadRuns(r, <<>>)
         /\ sub = T!Solid /\ r = <<>> =>
              T!Shown(w, h, m, memory) = T!Repeat(palette[1], w * h)
         /\ sub \notin {T!Raw, T!Rle, T!Solid} /\ palette # <<>> =>
              T!Shown(w, h, m, memory)
                = IF sub > T!Rle THEN T!ReadRuns(r, palette) ELSE T!ReadPacked(w, h, r, palette)
<1> DEFINE s == T!Shown(w, h, m, memory)
<1>1. s = IF sub = T!Raw THEN IF T!ArePixels(r) THEN T!Values(r) ELSE T!Garbled
          ELSE IF sub = T!Rle THEN T!ReadRuns(r, <<>>)
          ELSE IF sub = T!Solid
          THEN IF r = <<>> THEN T!Repeat(palette[1], w * h) ELSE T!Garbled
          ELSE IF palette = <<>> THEN T!Garbled
          ELSE IF sub > T!Rle THEN T!ReadRuns(r, palette)
          ELSE T!ReadPacked(w, h, r, palette)
  BY Zenon DEF T!Shown
<1>2. T!Raw # T!Rle /\ T!Raw # T!Solid /\ T!Rle # T!Solid
  BY DEF T!Raw, T!Rle, T!Solid
<1> HIDE DEF s
<1>3. sub = T!Raw /\ T!ArePixels(r) => s = T!Values(r)
  BY <1>1, Zenon
<1>4. sub = T!Rle => s = T!ReadRuns(r, <<>>)
  BY <1>1, <1>2, Zenon
<1>5. sub = T!Solid /\ r = <<>> => s = T!Repeat(palette[1], w * h)
  BY <1>1, <1>2, Zenon
<1>6. sub \notin {T!Raw, T!Rle, T!Solid} /\ palette # <<>> =>
        s = IF sub > T!Rle THEN T!ReadRuns(r, palette) ELSE T!ReadPacked(w, h, r, palette)
  BY <1>1, Zenon
<1> QED BY <1>3, <1>4, <1>5, <1>6 DEF s

\* A tile of one colour.
LEMMA SolidShows ==
  ASSUME NEW t, Area(t) \in Nat, t.px \in Seq(Int), Len(t.px) = Area(t), NEW p \in Seq(Int),
         Len(p) = 1, HasAll(p, t.px)
  PROVE  T!Repeat(p[1], t.w * t.h) = t.px
<1> DEFINE s == T!Repeat(p[1], t.w * t.h)
           n == Area(t)
<1>1. s = [i \in 1..n |-> p[1]]
  BY DEF T!Repeat, Area
<1>2. \A j \in 1..Len(t.px) : p[1] = t.px[j]
  <2>1. \A i \in 1..Len(p) : i = 1
    OBVIOUS
  <2> QED BY <2>1 DEF HasAll
<1> HIDE DEF n
<1>3. t.px \in Seq(Int) /\ Len(t.px) = n
  BY DEF n
<1>4. t.px = [i \in 1..n |-> t.px[i]]
  BY <1>3
<1>5. [i \in 1..n |-> p[1]] = [i \in 1..n |-> t.px[i]]
  BY <1>2, <1>3
<1> QED BY <1>1, <1>4, <1>5

\* A palette of colours is not empty.
LEMMA NotEmpty ==
  ASSUME NEW p, Len(p) # 0
  PROVE  p # <<>>
BY EmptyIsSeq, Zenon

\* The subencodings with a palette of n colours that is sent.
Carries(sub, n) ==
  \/ sub = T!PrleBase + n /\ n \in 2..MaxPalette
  \/ sub = n /\ n \in 2..16

\* What they say of it.
LEMMA SentColours ==
  ASSUME NEW n \in Nat, NEW sub, Carries(sub, n)
  PROVE  /\ sub \notin {T!Raw, T!Rle, T!Solid} /\ sub \notin T!Remembering
         /\ T!Colors(sub) = n
<1>1. \/ sub = 128 + n /\ n \in 2..MaxPalette
      \/ sub = n /\ n \in 2..16
  BY DEF Carries, T!PrleBase
<1> USE DEF T!Remembering, T!Raw, T!Rle, T!Solid, T!PackedMem, T!PrleMem, T!Colors, T!PrleBase
<1>2. CASE sub = 128 + n /\ n \in 2..MaxPalette
  <2>1. sub \in Int /\ sub >= 130 /\ sub - 128 = n
    BY <1>2
  <2> QED BY <2>1
<1>3. CASE sub = n /\ n \in 2..16
  BY <1>3
<1> QED BY <1>1, <1>2, <1>3

\* A message with a palette that the viewer has, or is sent, shows the tile.
LEMMA IndicesShow ==
  ASSUME NEW t, NEW m, NEW memory, NEW sub, sub \notin {T!Raw, T!Rle, T!Solid},
         NEW e, NEW c, NEW used, NEW runs, runs = T!Runs(t.px),
         Arrives(m, sub, e, c, T!Indices(t, runs, sub, used)),
         T!Viewed(m, memory) = used, used \in Seq(Int), t.px \in Seq(Int),
         \/ sub > T!Rle /\ Len(used) \in 2..MaxPalette /\ HasAll(used, t.px)
         \/ ~(sub > T!Rle) /\ Painted(t, used)
  PROVE  T!Shown(t.w, t.h, m, memory) = t.px
<1> DEFINE r == T!Indices(t, runs, sub, used)
           s == T!Shown(t.w, t.h, m, memory)
<1>1. T!SubOf(m) = sub /\ T!Rest(m) = r
  BY ArrivesRead
<1>2. r = IF sub > T!Rle THEN T!PaletteRuns(T!Runs(t.px), used) ELSE T!PackedPalette(t, used)
  BY DEF T!Indices
<1> HIDE DEF r
<1>3. used # <<>> =>
        s = IF sub > T!Rle THEN T!ReadRuns(r, used) ELSE T!ReadPacked(t.w, t.h, r, used)
  BY <1>1, ShownBy
<1> HIDE DEF s
<1>4. CASE sub > T!Rle /\ Len(used) \in 2..MaxPalette /\ HasAll(used, t.px)
  <2>1. Len(used) \in 1..127 /\ used # <<>>
    <3>1. MaxPalette \in 16..127
      BY PaletteAssumption
    <3>2. PICK k \in 2..MaxPalette : k = Len(used)
      BY <1>4
    <3>3. k \in 1..127 /\ k # 0
      BY <3>1
    <3> QED BY <3>2, <3>3, NotEmpty, Zenon
  <2>2. T!ReadRuns(T!PaletteRuns(T!Runs(t.px), used), used) = t.px
    BY <1>4, <2>1, PaletteRunsRead
  <2> QED BY <1>2, <1>3, <1>4, <2>1, <2>2 DEF s
<1>5. CASE ~(sub > T!Rle) /\ Painted(t, used)
  <2>1. used # <<>>
    <3>1. Len(used) \in 2..16
      BY <1>5 DEF Painted
    <3>2. PICK k \in 2..16 : k = Len(used)
      BY <3>1
    <3>3. k # 0
      OBVIOUS
    <3> QED BY <3>2, <3>3, NotEmpty, Zenon
  <2>2. T!ReadPacked(t.w, t.h, T!PackedPalette(t, used), used) = t.px
    BY <1>5, PackedRead
  <2> QED BY <1>2, <1>3, <1>5, <2>1, <2>2 DEF s
<1> QED BY <1>4, <1>5

\* What a viewer reads as it was written: the conditions on a choice.
Offered(t, c, palette, known, memory, sub, used) ==
  /\ palette \in Seq(Int) /\ (Len(palette) \in 1..MaxPalette => HasAll(palette, t.px))
  /\ known \in Seq(Int) /\ (Len(known) \in 1..MaxPalette => HasAll(known, t.px))
  /\ known # <<>> => memory = known
  /\ used = IF sub \in T!Remembering THEN known ELSE palette
  /\ sub \in T!Remembering => c # 4

\* A tile can be painted with a palette that has its colours.
LEMMA TilePainted ==
  ASSUME NEW t \in Tiles, NEW p \in Seq(Int), Len(p) \in 2..16, HasAll(p, t.px)
  PROVE  Painted(t, p)
<1>1. /\ t.w \in Nat \ {0} /\ t.h \in Nat \ {0} /\ t.px \in Seq(Int) /\ Len(t.px) = Area(t)
  BY TileAssumption
<1> QED BY <1>1 DEF Painted, Cells, Area

\* With a palette that is sent.
LEMMA SentShows ==
  ASSUME NEW t \in Tiles, NEW c, NEW palette, NEW known, NEW memory, NEW sub, NEW used,
         Offered(t, c, palette, known, memory, sub, used), NEW runs, runs = T!Runs(t.px),
         Carries(sub, Len(palette))
  PROVE  T!Shown(t.w, t.h, Encoding(t, c, runs, sub, used), memory) = t.px
<1> DEFINE m == Encoding(t, c, runs, sub, used)
           r == T!Indices(t, runs, sub, used)
<1>1. PICK n \in Nat : n = Len(palette)
  BY DEF Offered
<1>2. \/ sub = 128 + n /\ n \in 2..MaxPalette
      \/ sub = n /\ n \in 2..16
  BY <1>1 DEF T!PrleBase, Carries
<1>3. /\ sub \notin {T!Raw, T!Rle, T!Solid} /\ sub \notin T!Remembering
      /\ T!Colors(sub) = n
  <2>1. Carries(sub, n)
    BY <1>1
  <2> QED BY <2>1, SentColours
<1>4. used = palette /\ T!Sent(sub, c, used) = palette
  BY <1>3 DEF Offered, T!Sent
<1>5. palette \in Seq(Int) /\ HasAll(palette, t.px) /\ t.px \in Seq(Int) /\ runs \in Seq(Run)
  <2>1. n \in 1..MaxPalette
    BY <1>2, PaletteAssumption
  <2>2. t.px \in Seq(Int)
    BY TileAssumption
  <2> QED BY <1>1, <2>1, <2>2, RunsType DEF Offered
<1>6. IsSeq(r)
  BY <1>4, <1>5, BodyIs
<1> HIDE DEF r
<1>7. Arrives(m, sub, palette, c, r)
  BY <1>1, <1>3, <1>4, <1>5, <1>6, IndexedArrives DEF r
<1> HIDE DEF m
<1>8. T!Viewed(m, memory) = palette
  BY <1>3, <1>7, ArrivesRead DEF T!Viewed
<1>9. \/ sub > T!Rle /\ Len(palette) \in 2..MaxPalette /\ HasAll(palette, t.px)
      \/ ~(sub > T!Rle) /\ Painted(t, palette)
  <2>1. CASE sub = 128 + n /\ n \in 2..MaxPalette
    BY <1>1, <1>5, <2>1, PaletteAssumption DEF T!Rle
  <2>2. CASE sub = n /\ n \in 2..16
    <3>1. Painted(t, palette)
      BY <1>1, <1>5, <2>2, TilePainted
    <3> QED BY <2>2, <3>1 DEF T!Rle
  <2> QED BY <1>2, <2>1, <2>2
<1>10. T!Shown(t.w, t.h, m, memory) = t.px
  BY <1>3, <1>4, <1>5, <1>7, <1>8, <1>9, IndicesShow DEF r
<1> QED BY <1>10 DEF m

\* With the palette that is remembered.
LEMMA MemoryShows ==
  ASSUME NEW t \in Tiles, NEW c, NEW palette, NEW known, NEW memory, NEW sub, NEW used,
         Offered(t, c, palette, known, memory, sub, used), NEW runs, runs = T!Runs(t.px),
         \/ sub = T!PrleMem /\ Len(known) \in 2..MaxPalette
         \/ sub = T!PackedMem /\ Len(known) \in 2..16
  PROVE  T!Shown(t.w, t.h, Encoding(t, c, runs, sub, used), memory) = t.px
<1> DEFINE m == Encoding(t, c, runs, sub, used)
           r == T!Indices(t, runs, sub, used)
<1>1. PICK e \in Seq(Int) : Len(e) = 0 /\ e = <<>>
  <2>1. <<>> \in Seq(Int) /\ Len(<<>>) = 0
    OBVIOUS
  <2> QED BY <2>1
<1>2. /\ sub \notin {T!Raw, T!Rle, T!Solid} /\ sub \in T!Remembering
      /\ T!Colors(sub) = 0
  BY DEF T!Remembering, T!Raw, T!Rle, T!Solid, T!PackedMem, T!PrleMem, T!Colors, T!PrleBase
<1>3. used = known /\ T!Sent(sub, c, used) = e
  BY <1>1, <1>2 DEF Offered, T!Sent
<1>4. /\ known \in Seq(Int) /\ HasAll(known, t.px) /\ memory = known /\ t.px \in Seq(Int)
      /\ runs \in Seq(Run)
  <2>1. Len(known) \in 1..MaxPalette /\ known # <<>>
    <3>1. MaxPalette \in 16..127
      BY PaletteAssumption
    <3>2. PICK k \in Nat : k = Len(known)
      BY DEF Offered
    <3>3. k \in 2..MaxPalette \/ k \in 2..16
      BY <3>2
    <3>4. k \in 1..MaxPalette /\ k # 0
      BY <3>1, <3>3
    <3> QED BY <3>2, <3>4, NotEmpty, Zenon
  <2>2. t.px \in Seq(Int)
    BY TileAssumption
  <2> QED BY <2>1, <2>2, RunsType DEF Offered
<1>5. IsSeq(r)
  BY <1>3, <1>4, BodyIs
<1> HIDE DEF r
<1>6. Arrives(m, sub, e, c, r)
  BY <1>1, <1>2, <1>3, <1>5, IndexedArrives DEF r
<1> HIDE DEF m
<1>7. T!Viewed(m, memory) = known
  BY <1>2, <1>4, <1>6, ArrivesRead DEF T!Viewed
<1>8. \/ sub > T!Rle /\ Len(known) \in 2..MaxPalette /\ HasAll(known, t.px)
      \/ ~(sub > T!Rle) /\ Painted(t, known)
  <2>1. CASE sub = T!PrleMem /\ Len(known) \in 2..MaxPalette
    BY <1>4, <2>1 DEF T!Rle, T!PrleMem
  <2>2. CASE sub = T!PackedMem /\ Len(known) \in 2..16
    <3>1. Painted(t, known)
      BY <1>4, <2>2, TilePainted
    <3> QED BY <2>2, <3>1 DEF T!Rle, T!PackedMem
  <2> QED BY <2>1, <2>2
<1>9. T!Shown(t.w, t.h, m, memory) = t.px
  BY <1>2, <1>3, <1>4, <1>6, <1>7, <1>8, IndicesShow DEF r
<1> QED BY <1>9 DEF m

\* Without a palette: the pixels, or the runs of them.
LEMMA BareShows ==
  ASSUME NEW t \in Tiles, NEW c, NEW memory, NEW sub, sub \in {T!Raw, T!Rle}, NEW used,
         NEW runs, runs = T!Runs(t.px)
  PROVE  T!Shown(t.w, t.h, Encoding(t, c, runs, sub, used), memory) = t.px
<1> DEFINE m == Encoding(t, c, runs, sub, used)
           s == T!Shown(t.w, t.h, m, memory)
<1>1. PICK e \in Seq(Int) : Len(e) = 0 /\ e = <<>>
  <2>1. <<>> \in Seq(Int) /\ Len(<<>>) = 0
    OBVIOUS
  <2> QED BY <2>1
<1>2. t.px \in Seq(Int)
  BY TileAssumption
<1>3. CASE sub = T!Raw
  <2> DEFINE r == T!Pixels(c, t.px)
  <2>1. r = T!Body(t, c, runs, sub, used, T!Sent(sub, c, used))
    BY <1>3 DEF T!Body
  <2>2. IsSeq(r) /\ T!ArePixels(r) /\ T!Values(r) = t.px
    BY <1>2, PixelsRead
  <2> HIDE DEF r
  <2>3. T!Colors(sub) = 0
    BY <1>3 DEF T!Colors, T!Raw, T!PrleMem
  <2>4. Arrives(m, sub, e, c, r)
    BY <1>1, <2>1, <2>2, <2>3, BareArrives
  <2> HIDE DEF m
  <2>5. T!SubOf(m) = sub /\ T!Rest(m) = r
    BY <2>4, ArrivesRead
  <2>6. s = T!Values(r)
    BY <1>3, <2>2, <2>5, ShownBy
  <2> HIDE DEF s
  <2> QED BY <2>2, <2>6 DEF s, m
<1>4. CASE sub = T!Rle
  <2> DEFINE r == T!PlainRuns(runs, c)
  <2>1. r = T!Body(t, c, runs, sub, used, T!Sent(sub, c, used))
    BY <1>4 DEF T!Body, T!Rle, T!Raw
  <2>2. IsSeq(r) /\ T!ReadRuns(r, e) = t.px
    BY <1>1, <1>2, PlainRunsRead
  <2> HIDE DEF r
  <2>3. T!Colors(sub) = 0
    BY <1>4 DEF T!Colors, T!Rle, T!PrleMem
  <2>4. Arrives(m, sub, e, c, r)
    BY <1>1, <2>1, <2>2, <2>3, BareArrives
  <2> HIDE DEF m
  <2>5. T!SubOf(m) = sub /\ T!Rest(m) = r
    BY <2>4, ArrivesRead
  <2>6. s = T!ReadRuns(r, <<>>)
    BY <1>4, <2>5, ShownBy
  <2> HIDE DEF s
  <2> QED BY <1>1, <2>2, <2>6 DEF s, m
<1> QED BY <1>3, <1>4

\* One colour, which is sent as a palette.
LEMMA OneColourShows ==
  ASSUME NEW t \in Tiles, NEW c, NEW palette, NEW known, NEW memory, NEW sub, NEW used,
         Offered(t, c, palette, known, memory, sub, used), NEW runs, runs = T!Runs(t.px),
         sub = T!Solid, Len(palette) = 1
  PROVE  T!Shown(t.w, t.h, Encoding(t, c, runs, sub, used), memory) = t.px
<1> DEFINE m == Encoding(t, c, runs, sub, used)
           s == T!Shown(t.w, t.h, m, memory)
<1>1. PICK r : r = <<>>
  OBVIOUS
<1>2. IsSeq(r)
  BY <1>1, EmptyIsSeq
<1>3. sub \notin {T!Raw, T!Rle} /\ sub \notin T!Remembering /\ T!Colors(sub) = 1
  BY DEF T!Remembering, T!Raw, T!Rle, T!Solid, T!PackedMem, T!PrleMem, T!Colors
<1>4. used = palette /\ T!Sent(sub, c, used) = palette
  BY <1>3 DEF Offered, T!Sent
<1>5. palette \in Seq(Int) /\ HasAll(palette, t.px)
  <2>1. 1 \in 1..MaxPalette
    BY PaletteAssumption
  <2> QED BY <2>1 DEF Offered
<1>6. r = T!Indices(t, runs, sub, used)
  BY <1>1 DEF T!Indices
<1>7. Arrives(m, sub, palette, c, r)
  BY <1>2, <1>3, <1>4, <1>5, <1>6, IndexedArrives
<1> HIDE DEF m
<1>8. T!SubOf(m) = sub /\ T!Rest(m) = r /\ T!Viewed(m, memory) = palette
  BY <1>3, <1>7, ArrivesRead DEF T!Viewed
<1>9. s = T!Repeat(palette[1], t.w * t.h)
  BY <1>1, <1>8, ShownBy
<1> HIDE DEF s
<1>10. T!Repeat(palette[1], t.w * t.h) = t.px
  <2>1. Area(t) \in Nat /\ t.px \in Seq(Int) /\ Len(t.px) = Area(t)
    BY TileAssumption, AreaIsPositive
  <2> QED BY <1>5, <2>1, SolidShows
<1> QED BY <1>9, <1>10 DEF s, m

\* Whatever is chosen, the viewer shows the tile.
LEMMA ChosenShows ==
  ASSUME NEW t \in Tiles, NEW c, NEW palette, NEW known, NEW memory, NEW sub, NEW used,
         Offered(t, c, palette, known, memory, sub, used), NEW runs, runs = T!Runs(t.px),
         NEW single, NEW multi, Paid(t, c, sub, Len(palette), Len(known), single, multi)
  PROVE  T!Shown(t.w, t.h, Encoding(t, c, runs, sub, used), memory) = t.px
<1>1. \/ sub \in {T!Raw, T!Rle}
      \/ sub = T!Solid /\ Len(palette) = 1
      \/ Carries(sub, Len(palette))
      \/ \/ sub = T!PrleMem /\ Len(known) \in 2..MaxPalette
         \/ sub = T!PackedMem /\ Len(known) \in 2..16
  BY DEF Paid, Carries
<1>2. CASE sub \in {T!Raw, T!Rle}
  BY <1>2, BareShows
<1>3. CASE sub = T!Solid /\ Len(palette) = 1
  BY <1>3, OneColourShows
<1>4. CASE Carries(sub, Len(palette))
  BY <1>4, SentShows
<1>5. CASE \/ sub = T!PrleMem /\ Len(known) \in 2..MaxPalette
           \/ sub = T!PackedMem /\ Len(known) \in 2..16
  BY <1>5, MemoryShows
<1> QED BY <1>1, <1>2, <1>3, <1>4, <1>5

\* The palette of a tile has its colours.
LEMMA PaletteHasAll ==
  ASSUME NEW t \in Tiles, NEW p, p = T!PaletteOf(t.px)
  PROVE  p \in Seq(Int) /\ (Len(p) \in 1..MaxPalette => HasAll(p, t.px))
<1>1. t.px \in Seq(Int)
  BY TileAssumption
<1>2. Collects(p, t.px, Len(t.px))
  BY <1>1, PaletteCollects
<1>3. p \in Seq(Int)
  BY <1>2 DEF Collects
<1>4. ASSUME Len(p) \in 1..MaxPalette PROVE HasAll(p, t.px)
  <2>1. Len(p) <= MaxPalette
    <3>1. PICK k \in 1..MaxPalette : k = Len(p)
      BY <1>4
    <3> QED BY <3>1, PaletteAssumption
  <2> QED BY <1>2, <2>1 DEF Collects, HasAll
<1> QED BY <1>3, <1>4

\* A tile of TRLE, whatever palette is remembered, but for pixels of four bytes.
LEMMA TrleShows ==
  ASSUME NEW t \in Tiles, NEW c \in Nat, c # 4, NEW old \in Seq(Int), NEW memory,
         old # <<>> => memory = old
  PROVE  T!Shown(t.w, t.h, T!TrleTile(t, c, old).message, memory) = t.px
<1> DEFINE palette == T!PaletteOf(t.px)
           runs == T!Runs(t.px)
           known == T!Known(old, palette)
           single == T!Single(runs)
           multi == T!Multi(runs)
           sub == T!SelectSubencoding(t, c, Len(known), Len(palette), single, multi)
           used == IF sub \in T!Remembering THEN known ELSE palette
           m == T!TrleTile(t, c, old).message
<1>1. m = Encoding(t, c, runs, sub, used)
  BY DEF T!TrleTile, T!Recoded, T!Scanned, T!Chosen, T!Coded, Encoding
<1> HIDE DEF m
<1>2. t.px \in Seq(Int)
  BY TileAssumption
<1>3. palette \in Seq(Int) /\ (Len(palette) \in 1..MaxPalette => HasAll(palette, t.px))
  BY PaletteHasAll
<1>4. runs \in Seq(Run)
  BY <1>2, RunsType
<1>5. Len(known) \in 1..MaxPalette => HasAll(known, t.px)
  BY <1>2, KnownHasAll
<1>6. known \in {old, <<>>}
  BY DEF T!Known
<1> HIDE DEF palette, runs, known
<1>7. known \in Seq(Int) /\ (known # <<>> => memory = known)
  <2>1. <<>> \in Seq(Int)
    OBVIOUS
  <2> QED BY <1>6, <2>1
<1>8. Paid(t, c, sub, Len(palette), Len(known), single, multi)
  <2>1. Len(known) \in Nat /\ Len(palette) \in Nat
    BY <1>3, <1>7
  <2>2. single \in Nat /\ multi \in Nat
    BY <1>4, RunCounts
  <2> HIDE DEF single, multi
  <2> QED BY <2>1, <2>2, SelectPays
<1> HIDE DEF sub
<1>9. Offered(t, c, palette, known, memory, sub, used)
  BY <1>3, <1>5, <1>7 DEF Offered
<1> HIDE DEF used
<1>10. T!Shown(t.w, t.h, Encoding(t, c, runs, sub, used), memory) = t.px
  BY <1>8, <1>9, ChosenShows DEF runs
<1> QED BY <1>1, <1>10 DEF m

\* ZRLE never chooses a palette that is remembered.
LEMMA FreshForgets ==
  ASSUME NEW t, NEW c, NEW n \in Nat, NEW sub, NEW single, NEW multi,
         Paid(t, c, sub, n, 0, single, multi)
  PROVE  sub \notin T!Remembering
<1>1. 0 \notin 2..MaxPalette /\ 0 \notin 2..16
  BY PaletteAssumption
<1>2. \/ sub \in {0, 1, 128}
      \/ n >= 2 /\ sub = 128 + n
      \/ sub \in 2..16
  BY <1>1, PaletteAssumption DEF Paid, T!Raw, T!Solid, T!Rle, T!PrleBase
<1>3. sub # 127 /\ sub # 129
  BY <1>2
<1> QED BY <1>3 DEF T!Remembering, T!PackedMem, T!PrleMem

\* A tile of ZRLE.
LEMMA ZrleShows ==
  ASSUME NEW t \in Tiles, NEW c \in Nat, NEW memory
  PROVE  T!Shown(t.w, t.h, T!ZrleTile(t, c), memory) = t.px
<1> DEFINE palette == T!PaletteOf(t.px)
           runs == T!Runs(t.px)
           single == T!Single(runs)
           multi == T!Multi(runs)
           sub == T!SelectFresh(t, c, Len(palette), single, multi)
           m == T!ZrleTile(t, c)
<1>1. m = Encoding(t, c, runs, sub, palette)
  BY DEF T!ZrleTile, T!Fresh, T!Coded, Encoding
<1> HIDE DEF m
<1>2. t.px \in Seq(Int)
  BY TileAssumption
<1>3. palette \in Seq(Int) /\ (Len(palette) \in 1..MaxPalette => HasAll(palette, t.px))
  BY PaletteHasAll
<1>4. runs \in Seq(Run)
  BY <1>2, RunsType
<1> HIDE DEF palette, runs
<1>5. PICK known \in Seq(Int) : known = <<>> /\ Len(known) = 0
  <2>1. <<>> \in Seq(Int) /\ Len(<<>>) = 0
    OBVIOUS
  <2> QED BY <2>1
<1>6. Paid(t, c, sub, Len(palette), 0, single, multi)
  <2>1. Len(palette) \in Nat
    BY <1>3
  <2>2. single \in Nat /\ multi \in Nat
    BY <1>4, RunCounts
  <2> HIDE DEF single, multi
  <2> QED BY <2>1, <2>2, SelectFreshPays
<1> HIDE DEF sub, single, multi
<1>7. sub \notin T!Remembering
  <2>1. Len(palette) \in Nat
    BY <1>3
  <2> QED BY <1>6, <2>1, FreshForgets
<1>8. Offered(t, c, palette, known, memory, sub, palette)
  <2>1. ~(Len(known) \in 1..MaxPalette)
    BY <1>5
  <2> QED BY <1>3, <1>5, <1>7, <2>1 DEF Offered
<1>9. Paid(t, c, sub, Len(palette), Len(known), single, multi)
  BY <1>5, <1>6
<1>10. T!Shown(t.w, t.h, Encoding(t, c, runs, sub, palette), memory) = t.px
  BY <1>8, <1>9, ChosenShows DEF runs
<1> QED BY <1>1, <1>10 DEF m

-----------------------------------------------------------------------------
\* Where ShownAsDrawn is claimed to hold, and holds.
Faithful ==
  ~(coding = "trle" /\ format.cbpp = 4) => ShownAsDrawn

\* A tile of TRLE, whatever palette is remembered.
LEMMA SendTrleShows ==
  ASSUME MemoryInv, NEW t \in Tiles, SendTrle(t)
  PROVE  Faithful'
<1> DEFINE m == T!TrleTile(t, format.cbpp, ctx.palette).message
<1>1. coding = "trle" /\ coding' = coding /\ format' = format
  BY DEF SendTrle
<1>2. sent'.shown = T!Shown(t.w, t.h, m, viewer.palette) /\ sent'.tile = t
  BY DEF SendTrle, Showing
<1>3. CASE format.cbpp = 4
  BY <1>1, <1>3 DEF Faithful
<1>4. CASE format.cbpp # 4
  <2>1. /\ ctx.palette \in Seq(Int) /\ (ctx.palette # <<>> => viewer.palette = ctx.palette)
        /\ format.cbpp \in Nat
    BY FormatAssumption DEF MemoryInv, InStep
  <2>2. T!Shown(t.w, t.h, m, viewer.palette) = t.px
    BY <1>4, <2>1, TrleShows
  <2> HIDE DEF m
  <2>3. ShownAsDrawn'
    BY <1>2, <2>2 DEF ShownAsDrawn
  <2> QED BY <2>3 DEF Faithful
<1> QED BY <1>3, <1>4

\* A tile of Hextile, whatever colours are remembered.
LEMMA SendHextileShows ==
  ASSUME MemoryInv, NEW t \in Tiles, Fits(t), SendHextile(t)
  PROVE  Faithful'
<1> DEFINE m == H!HextileTile(t, format.bpp, ctx.bg, ctx.fg).message
<1>1. coding = "hextile"
  BY DEF SendHextile
<1>2. /\ sent'.shown = H!HextileShown(t.w, t.h, m, viewer.bg, viewer.fg)
      /\ sent'.tile = t
  BY DEF SendHextile, Showing
<1>3. ctx.bg \subseteq {viewer.bg} /\ ctx.fg \subseteq {viewer.fg}
  BY DEF MemoryInv, InStep
<1>4. format.bpp \in Nat \ {0}
  BY FormatAssumption DEF MemoryInv
<1>5. t.w <= 16 /\ t.h <= 16
  BY <1>1 DEF Fits
<1>6. H!HextileShown(t.w, t.h, m, viewer.bg, viewer.fg) = t.px
  BY <1>3, <1>4, <1>5, HextileShows
<1> HIDE DEF m
<1>7. ShownAsDrawn'
  BY <1>2, <1>6 DEF ShownAsDrawn
<1> QED BY <1>7 DEF Faithful

\* A tile of an encoding that remembers nothing.
LEMMA SendFreshShows ==
  ASSUME MemoryInv, NEW t \in Tiles, SendFresh(t)
  PROVE  Faithful'
<1> DEFINE m == Fresh(t)
<1>1. coding \in {"zrle", "rre", "corre"}
  BY DEF SendFresh
<1>2. /\ sent'.shown = IF coding = "zrle" THEN T!Shown(t.w, t.h, m, <<>>)
                       ELSE H!RreShown(t.w, t.h, m)
      /\ sent'.tile = t
  BY DEF SendFresh, Showing
<1>3. format.bpp \in Nat \ {0} /\ format.cbpp \in Nat
  BY FormatAssumption DEF MemoryInv
<1>4. CASE coding = "zrle"
  <2>1. m = T!ZrleTile(t, format.cbpp)
    BY <1>4 DEF Fresh
  <2>2. T!Shown(t.w, t.h, T!ZrleTile(t, format.cbpp), <<>>) = t.px
    BY <1>3, ZrleShows
  <2> HIDE DEF m
  <2>3. ShownAsDrawn'
    BY <1>2, <1>4, <2>1, <2>2 DEF ShownAsDrawn
  <2> QED BY <2>3 DEF Faithful
<1>5. CASE coding \in {"rre", "corre"}
  <2>1. m \in {H!RreTile(t, format.bpp), H!CorreTile(t, format.bpp)}
    BY <1>5 DEF Fresh
  <2> HIDE DEF m
  <2>2. H!RreShown(t.w, t.h, m) = t.px
    BY <1>3, <2>1, RreShown
  <2>3. ShownAsDrawn'
    BY <1>2, <1>5, <2>2 DEF ShownAsDrawn
  <2> QED BY <2>3 DEF Faithful
<1> QED BY <1>1, <1>4, <1>5

(* The viewer shows every tile as it was drawn, whatever tiles were sent   *)
(* before: each encoding can be read back, and the two that leave out what *)
(* the viewer remembers leave out no more.  Left out is TRLE with pixels   *)
(* of four bytes, where a palette that is not expected is sent.            *)
THEOREM ShownAlways ==
  Spec => [](~(coding = "trle" /\ format.cbpp = 4) => ShownAsDrawn)
<1> DEFINE Inv == MemoryInv /\ Faithful
<1>1. Init => Inv
  BY MemoryFirst DEF Init, Faithful, ShownAsDrawn, Nothing, Tile
<1>2. Inv /\ [Next]_vars => Inv'
  <2> SUFFICES ASSUME Inv, [Next]_vars PROVE Faithful'
    BY MemoryKept
  <2>1. CASE UNCHANGED vars
    BY <2>1 DEF vars, Faithful, ShownAsDrawn
  <2>2. CASE StartRect
    BY <2>2 DEF StartRect, Faithful, ShownAsDrawn
  <2>3. CASE Written
    BY <2>3 DEF Written, Faithful, ShownAsDrawn, Nothing, Tile
  <2>4. ASSUME NEW t \in Tiles, Send(t) PROVE Faithful'
    <3>1. CASE SendTrle(t)
      BY <3>1, SendTrleShows
    <3>2. CASE SendHextile(t)
      BY <2>4, <3>2, SendHextileShows DEF Send
    <3>3. CASE SendFresh(t)
      BY <3>3, SendFreshShows
    <3> QED BY <2>4, <3>1, <3>2, <3>3 DEF Send
  <2> QED BY <2>1, <2>2, <2>3, <2>4 DEF Next
<1>3. Inv => (~(coding = "trle" /\ format.cbpp = 4) => ShownAsDrawn)
  BY DEF Faithful
<1> QED BY <1>1, <1>2, <1>3, PTL DEF Spec
=============================================================================
