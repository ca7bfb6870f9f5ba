-------------------------- MODULE VncUpdate_proofs --------------------------
(***************************************************************************)
(* For every size of the screen and of the frame, every pixel, every set   *)
(* of boxes and requests: the viewer is owed what the code thinks it is    *)
(* owed, each request is kept until it is answered, nothing is held back,  *)
(* and no wrong pixel is forgotten but in the ways VncUpdate names.        *)
(***************************************************************************)
EXTENDS VncUpdate, TLAPS

(***************************************************************************)
(* What the operations on rectangles (display/vnc/rect.h) do to the pixels *)
(* in them, for all rectangles.                                            *)
(***************************************************************************)

\* An empty rectangle has no pixel.
LEMMA EmptyHasNone ==
  ASSUME NEW r \in Rects, NEW p \in Coords, In(p, r)
  PROVE  ~IsEmpty(r)
BY DEF Rects, Coords, In, IsEmpty

\* Empty is one of them.
LEMMA EmptyType == Empty \in Rects /\ IsEmpty(Empty)
BY DEF Empty, Rect, Rects, IsEmpty

\* Four numbers make a rectangle.
LEMMA RectType ==
  ASSUME NEW x1 \in Int, NEW y1 \in Int, NEW x2 \in Int, NEW y2 \in Int
  PROVE  Rect(x1, y1, x2, y2) \in Rects
BY DEF Rect, Rects

\* An empty rectangle is made Empty, another is left as it is.
LEMMA NormalType ==
  ASSUME NEW r \in Rects
  PROVE  /\ Normal(r) \in Rects
         /\ \A p \in Coords : In(p, Normal(r)) <=> In(p, r)
BY EmptyType, EmptyHasNone DEF Normal

\* A union has the pixels of both rectangles (and may have more).
LEMMA UnionHasBoth ==
  ASSUME NEW r \in Rects, NEW s \in Rects
  PROVE  /\ Union(r, s) \in Rects
         /\ \A p \in Coords : In(p, r) \/ In(p, s) => In(p, Union(r, s))
BY DEF Union, Rects, Coords, In, IsEmpty, Rect, Lesser, Greater

\* What the bounds have in common has the pixels that are in both.
LEMMA OverlapExact ==
  ASSUME NEW r \in Rects, NEW s \in Rects
  PROVE  /\ Overlap(r, s) \in Rects
         /\ \A p \in Coords : In(p, Overlap(r, s)) <=> In(p, r) /\ In(p, s)
BY DEF Overlap, Rects, Coords, In, Rect, Lesser, Greater

\* An intersection has the pixels that are in both, and no other.
LEMMA IntersectExact ==
  ASSUME NEW r \in Rects, NEW s \in Rects
  PROVE  /\ Intersect(r, s) \in Rects
         /\ \A p \in Coords : In(p, Intersect(r, s)) <=> In(p, r) /\ In(p, s)
<1>1. CASE IsEmpty(r) \/ IsEmpty(s)
  BY <1>1, EmptyType, EmptyHasNone DEF Intersect
<1>2. CASE ~(IsEmpty(r) \/ IsEmpty(s))
  BY <1>2, OverlapExact, NormalType DEF Intersect
<1> QED BY <1>1, <1>2

\* A rectangle cut to what lies on one side of s keeps the pixels that are not
\* in s, and gets none.
LEMMA SubtractKeeps ==
  ASSUME NEW r \in Rects, NEW s \in Rects
  PROVE  /\ Subtract(r, s) \in Rects
         /\ \A p \in Coords : In(p, r) /\ ~In(p, s) => In(p, Subtract(r, s))
         /\ \A p \in Coords : In(p, Subtract(r, s)) => In(p, r)
<1> DEFINE i == Intersect(r, s)
<1>1. /\ i \in Rects
      /\ \A p \in Coords : In(p, i) <=> In(p, r) /\ In(p, s)
  BY IntersectExact
<1> HIDE DEF i
<1>2. SUFFICES ASSUME ~IsEmpty(i)
      PROVE  /\ Subtract(r, s) \in Rects
             /\ \A p \in Coords : In(p, r) /\ ~In(p, s) => In(p, Subtract(r, s))
             /\ \A p \in Coords : In(p, Subtract(r, s)) => In(p, r)
  BY DEF Subtract, Without, i
<1> DEFINE bot == Rect(r.x1, i.y2, r.x2, r.y2)
           rgt == Rect(i.x2, r.y1, r.x2, r.y2)
           top == Rect(r.x1, r.y1, r.x2, i.y1)
           lft == Rect(r.x1, r.y1, i.x1, r.y2)
<1>3. bot \in Rects /\ rgt \in Rects /\ top \in Rects /\ lft \in Rects
  BY <1>1 DEF Rect, Rects
<1>4. i.x1 <= i.x2 /\ i.y1 <= i.y2
  BY <1>1, <1>2 DEF IsEmpty, Rects
<1>5. r.x1 <= i.x1 /\ i.x2 <= r.x2 /\ r.y1 <= i.y1 /\ i.y2 <= r.y2
  <2>1. In(Coord(i.x1, i.y1), i) /\ In(Coord(i.x2 - 1, i.y2 - 1), i)
    BY <1>1, <1>2 DEF In, Coord, IsEmpty, Rects
  <2>2. Coord(i.x1, i.y1) \in Coords /\ Coord(i.x2 - 1, i.y2 - 1) \in Coords
    BY <1>1 DEF Coord, Coords, Rects
  <2>3. In(Coord(i.x1, i.y1), r) /\ In(Coord(i.x2 - 1, i.y2 - 1), r)
    BY <1>1, <2>1, <2>2
  <2> QED BY <1>1, <2>3 DEF In, Coord, Rects
<1>6. CASE i.x1 = r.x1 /\ i.x2 = r.x2 /\ i.y1 = r.y1
  <2>1. Subtract(r, s) = Normal(bot)
    BY <1>2, <1>6 DEF Subtract, Without, i
  <2>2. \A p \in Coords : /\ In(p, r) /\ ~In(p, i) => In(p, bot)
                          /\ In(p, bot) => In(p, r)
    BY <1>1, <1>4, <1>5, <1>6 DEF In, Rect, Rects, Coords
  <2> QED BY <1>1, <1>3, <2>1, <2>2, NormalType
<1>7. CASE i.y1 = r.y1 /\ i.y2 = r.y2 /\ i.x1 = r.x1 /\ i.x2 # r.x2
  <2>1. Subtract(r, s) = Normal(rgt)
    BY <1>2, <1>7 DEF Subtract, Without, i
  <2>2. \A p \in Coords : /\ In(p, r) /\ ~In(p, i) => In(p, rgt)
                          /\ In(p, rgt) => In(p, r)
    BY <1>1, <1>4, <1>5, <1>7 DEF In, Rect, Rects, Coords
  <2> QED BY <1>1, <1>3, <2>1, <2>2, NormalType
<1>8. CASE i.x1 = r.x1 /\ i.x2 = r.x2 /\ i.y2 = r.y2 /\ i.y1 # r.y1
  <2>1. Subtract(r, s) = Normal(top)
    BY <1>2, <1>8 DEF Subtract, Without, i
  <2>2. \A p \in Coords : /\ In(p, r) /\ ~In(p, i) => In(p, top)
                          /\ In(p, top) => In(p, r)
    BY <1>1, <1>4, <1>5, <1>8 DEF In, Rect, Rects, Coords
  <2> QED BY <1>1, <1>3, <2>1, <2>2, NormalType
<1>9. CASE i.y1 = r.y1 /\ i.y2 = r.y2 /\ i.x2 = r.x2 /\ i.x1 # r.x1
  <2>1. Subtract(r, s) = Normal(lft)
    BY <1>2, <1>9 DEF Subtract, Without, i
  <2>2. \A p \in Coords : /\ In(p, r) /\ ~In(p, i) => In(p, lft)
                          /\ In(p, lft) => In(p, r)
    BY <1>1, <1>4, <1>5, <1>9 DEF In, Rect, Rects, Coords
  <2> QED BY <1>1, <1>3, <2>1, <2>2, NormalType
<1>10. CASE ~(\/ i.x1 = r.x1 /\ i.x2 = r.x2 /\ i.y1 = r.y1
              \/ i.y1 = r.y1 /\ i.y2 = r.y2 /\ i.x1 = r.x1
              \/ i.x1 = r.x1 /\ i.x2 = r.x2 /\ i.y2 = r.y2
              \/ i.y1 = r.y1 /\ i.y2 = r.y2 /\ i.x2 = r.x2)
  <2>1. Subtract(r, s) = r
    BY <1>2, <1>10 DEF Subtract, Without, i
  <2> QED BY <2>1
<1> QED BY <1>6, <1>7, <1>8, <1>9, <1>10

\* Shifting moves each pixel along.
LEMMA ShiftExact ==
  ASSUME NEW r \in Rects, NEW o \in Coords
  PROVE  /\ ToFrame(r, o) \in Rects /\ ToScreen(r, o) \in Rects
         /\ \A p \in Coords :
              /\ In(p, ToFrame(r, o)) <=> In(Coord(p.x - o.x, p.y - o.y), r)
              /\ In(p, ToScreen(r, o)) <=> In(Coord(p.x + o.x, p.y + o.y), r)
<1>1. CASE IsEmpty(r)
  <2>1. ToFrame(r, o) = Empty /\ ToScreen(r, o) = Empty
    BY <1>1 DEF ToFrame, ToScreen
  <2>2. \A p \in Coords : /\ Coord(p.x - o.x, p.y - o.y) \in Coords
                          /\ Coord(p.x + o.x, p.y + o.y) \in Coords
    BY DEF Coord, Coords
  <2> QED BY <1>1, <2>1, <2>2, EmptyType, EmptyHasNone
<1>2. CASE ~IsEmpty(r)
  BY <1>2 DEF ToFrame, ToScreen, Rect, Rects, Coords, Coord, In
<1> QED BY <1>1, <1>2

-----------------------------------------------------------------------------
(***************************************************************************)
(* Rectangles that stay inside another: s starts at the origin.            *)
(***************************************************************************)

Corner(s) == s \in Rects /\ s.x1 = 0 /\ s.y1 = 0 /\ 0 < s.x2 /\ 0 < s.y2

LEMMA Areas == Corner(Visible) /\ Corner(Virtual)
BY SizeAssumption DEF Corner, Visible, Virtual, Rect, Rects

LEMMA OriginType ==
  ASSUME NEW o \in Origins
  PROVE  o \in Coords /\ View(o) \in Rects /\ Inside(View(o), Virtual)
BY SizeAssumption
   DEF Origins, Coord, Coords, View, Rect, Rects, Inside, Within, IsEmpty, Virtual

LEMMA InsideType ==
  ASSUME NEW s \in Rects, NEW r, Inside(r, s)
  PROVE  r \in Rects
BY EmptyType DEF Inside, Within

LEMMA UnionInside ==
  ASSUME NEW s, Corner(s), NEW r, NEW q, Inside(r, s), Inside(q, s)
  PROVE  Inside(Union(r, q), s)
BY DEF Corner, Inside, Within, Union, Rects, Rect, IsEmpty, Lesser, Greater, Empty

\* A rectangle cut short, at any place within it, is inside what it was.
LEMMA NormalInside ==
  ASSUME NEW s, Corner(s), NEW r \in Rects,
         s.x1 <= r.x1, r.x2 <= s.x2, s.y1 <= r.y1, r.y2 <= s.y2
  PROVE  Inside(Normal(r), s)
BY DEF Corner, Inside, Within, Normal, Rects, IsEmpty

LEMMA IntersectInside ==
  ASSUME NEW s, Corner(s), NEW r, Inside(r, s), NEW q \in Rects
  PROVE  Inside(Intersect(r, q), s) /\ Inside(Intersect(q, r), s)
<1> DEFINE o == Overlap(r, q)
           u == Overlap(q, r)
<1>1. CASE IsEmpty(r) \/ IsEmpty(q)
  BY <1>1 DEF Intersect, Inside
<1>2. CASE ~(IsEmpty(r) \/ IsEmpty(q))
  <2>1. /\ r \in Rects /\ s \in Rects
        /\ s.x1 <= r.x1 /\ r.x2 <= s.x2 /\ s.y1 <= r.y1 /\ r.y2 <= s.y2
    BY <1>2, EmptyType DEF Corner, Inside, Within
  <2>2. /\ o \in Rects
        /\ s.x1 <= o.x1 /\ o.x2 <= s.x2 /\ s.y1 <= o.y1 /\ o.y2 <= s.y2
    BY <2>1 DEF Overlap, Rect, Rects, Lesser, Greater
  <2>3. /\ u \in Rects
        /\ s.x1 <= u.x1 /\ u.x2 <= s.x2 /\ s.y1 <= u.y1 /\ u.y2 <= s.y2
    BY <2>1 DEF Overlap, Rect, Rects, Lesser, Greater
  <2> HIDE DEF o, u
  <2>4. Inside(Normal(o), s) /\ Inside(Normal(u), s)
    BY <2>2, <2>3, NormalInside
  <2> QED BY <1>2, <2>4 DEF Intersect, o, u
<1> QED BY <1>1, <1>2

LEMMA SubtractInside ==
  ASSUME NEW s, Corner(s), NEW r, Inside(r, s), NEW q \in Rects
  PROVE  Inside(Subtract(r, q), s)
<1> DEFINE i == Intersect(r, q)
<1>1. r \in Rects /\ Inside(i, s) /\ i \in Rects
  BY IntersectInside, InsideType DEF Corner
<1>2. Subtract(r, q) = Without(r, i)
  BY DEF Subtract
<1> HIDE DEF i
<1>3. CASE IsEmpty(i)
  BY <1>2, <1>3 DEF Without
<1>4. CASE ~IsEmpty(i)
  <2>1. /\ s.x1 <= i.x1 /\ i.x1 <= i.x2 /\ i.x2 <= s.x2
        /\ s.y1 <= i.y1 /\ i.y1 <= i.y2 /\ i.y2 <= s.y2
    BY <1>1, <1>4, EmptyType DEF Inside, Within
  <2>2. r # Empty
    BY <1>4, EmptyType DEF i, Intersect
  <2>3. /\ s.x1 <= r.x1 /\ r.x1 <= r.x2 /\ r.x2 <= s.x2
        /\ s.y1 <= r.y1 /\ r.y1 <= r.y2 /\ r.y2 <= s.y2
    BY <2>2 DEF Inside, Within
  <2>4. /\ Inside(Normal(Rect(r.x1, i.y2, r.x2, r.y2)), s)
        /\ Inside(Normal(Rect(i.x2, r.y1, r.x2, r.y2)), s)
        /\ Inside(Normal(Rect(r.x1, r.y1, r.x2, i.y1)), s)
        /\ Inside(Normal(Rect(r.x1, r.y1, i.x1, r.y2)), s)
    <3>1. /\ Rect(r.x1, i.y2, r.x2, r.y2) \in Rects
          /\ Rect(i.x2, r.y1, r.x2, r.y2) \in Rects
          /\ Rect(r.x1, r.y1, r.x2, i.y1) \in Rects
          /\ Rect(r.x1, r.y1, i.x1, r.y2) \in Rects
      BY <1>1 DEF Rect, Rects
    <3> QED BY <1>1, <2>1, <2>3, <3>1, NormalInside DEF Rect, Corner, Rects
  <2>5. Without(r, i) \in {r, Normal(Rect(r.x1, i.y2, r.x2, r.y2)),
                           Normal(Rect(i.x2, r.y1, r.x2, r.y2)),
                           Normal(Rect(r.x1, r.y1, r.x2, i.y1)),
                           Normal(Rect(r.x1, r.y1, i.x1, r.y2))}
    BY DEF Without
  <2> QED BY <1>2, <2>4, <2>5
<1> QED BY <1>3, <1>4

LEMMA ToFrameInside ==
  ASSUME NEW r, Inside(r, Visible), NEW o \in Origins
  PROVE  Inside(ToFrame(r, o), Virtual)
BY SizeAssumption
   DEF Inside, Within, Visible, Virtual, ToFrame, IsEmpty, Empty, Rect, Rects,
       Origins, Coord

(***************************************************************************)
(* Panning: what the viewer copies, and the stripes that are sent besides, *)
(* make up the whole screen.                                               *)
(***************************************************************************)

LEMMA CopiedExact ==
  ASSUME NEW c, ClientOK(c), NEW a, AppOK(a)
  PROVE  /\ Copied(c, a) \in Rects
         /\ \A q \in Coords :
              In(q, Copied(c, a)) <=>
                /\ In(q, Visible)
                /\ In(Coord(q.x + a.origin.x, q.y + a.origin.y), View(c.origin))
<1>1. /\ c.origin \in Coords /\ View(c.origin) \in Rects
      /\ a.origin \in Coords /\ View(a.origin) \in Rects
  BY OriginType DEF ClientOK, AppOK
<1>2. Intersect(View(c.origin), View(a.origin)) \in Rects
  BY <1>1, IntersectExact
<1>3. Copied(c, a) \in Rects
  BY <1>1, <1>2, ShiftExact DEF Copied
<1>4. ASSUME NEW q \in Coords
      PROVE  In(q, Copied(c, a)) <=>
               /\ In(q, Visible)
               /\ In(Coord(q.x + a.origin.x, q.y + a.origin.y), View(c.origin))
  <2> DEFINE t == Coord(q.x + a.origin.x, q.y + a.origin.y)
  <2>1. t \in Coords
    BY <1>1 DEF Coord, Coords
  <2>2. In(q, Copied(c, a)) <=> In(t, Intersect(View(c.origin), View(a.origin)))
    BY <1>1, <1>2, ShiftExact DEF Copied
  <2>3. @ <=> In(t, View(c.origin)) /\ In(t, View(a.origin))
    BY <1>1, <2>1, IntersectExact
  <2>4. In(t, View(a.origin)) <=> In(q, Visible)
    BY <1>1, SizeAssumption DEF In, View, Visible, Coord, Coords, Rect
  <2> QED BY <2>2, <2>3, <2>4
<1> QED BY <1>3, <1>4

\* The copied part lies in a corner of the new screen, or along an edge of it.
LEMMA CopiedAtEdge ==
  ASSUME NEW c, ClientOK(c), NEW a, AppOK(a), ~IsEmpty(Copied(c, a))
  PROVE  LET k == Copied(c, a) IN
         /\ 0 <= k.x1 /\ k.x1 < k.x2 /\ k.x2 <= X /\ (k.x1 = 0 \/ k.x2 = X)
         /\ 0 <= k.y1 /\ k.y1 < k.y2 /\ k.y2 <= Y /\ (k.y1 = 0 \/ k.y2 = Y)
         /\ Panned(c, a) => k.x2 - k.x1 < X \/ k.y2 - k.y1 < Y
<1>1. c.origin \in Coords /\ a.origin \in Coords
  BY OriginType DEF ClientOK, AppOK
<1>2. Panned(c, a) => c.origin.x # a.origin.x \/ c.origin.y # a.origin.y
  BY <1>1 DEF Panned, Coords
<1> DEFINE i == Intersect(View(c.origin), View(a.origin))
<1>3. ~IsEmpty(i) /\ Copied(c, a) = Rect(i.x1 - a.origin.x, i.y1 - a.origin.y,
                                         i.x2 - a.origin.x, i.y2 - a.origin.y)
  BY EmptyType DEF Copied, ToScreen
<1>4. i = Overlap(View(c.origin), View(a.origin)) /\ ~IsEmpty(i)
  BY <1>3, EmptyType DEF Intersect, Normal
<1> QED BY <1>1, <1>2, <1>3, <1>4, SizeAssumption
        DEF Overlap, View, Rect, IsEmpty, Lesser, Greater, Coords

\* The stripes next to a rectangle at an edge of the screen.
LEMMA BesideExact ==
  ASSUME NEW k \in Rects,
         0 <= k.x1, k.x1 < k.x2, k.x2 <= X, k.x1 = 0 \/ k.x2 = X,
         0 <= k.y1, k.y1 < k.y2, k.y2 <= Y
  PROVE  /\ k.x1 = 0 /\ k.x2 = X => Beside(k) = Empty
         /\ k.x1 = 0 /\ k.x2 < X => Beside(k) = Rect(k.x2, k.y1, X, k.y2)
         /\ k.x1 > 0 => Beside(k) = Rect(0, k.y1, k.x1, k.y2)
<1> DEFINE r == Rect(0, k.y1, X, k.y2)
<1>1. Intersect(r, k) = k /\ ~IsEmpty(k)
  BY SizeAssumption
     DEF Intersect, Overlap, Normal, IsEmpty, Rect, Rects, Lesser, Greater
<1>2. r.x1 = 0 /\ r.x2 = X /\ r.y1 = k.y1 /\ r.y2 = k.y2
  BY DEF Rect
<1>3. Beside(k) = Without(r, k)
  BY <1>1 DEF Beside, Subtract
<1>4. CASE k.x1 = 0 /\ k.x2 = X
  <2>1. Beside(k) = Normal(Rect(0, k.y2, X, k.y2))
    BY <1>1, <1>2, <1>3, <1>4 DEF Without
  <2> QED BY <1>4, <2>1, SizeAssumption DEF Normal, IsEmpty, Rect, Rects
<1>5. CASE k.x1 = 0 /\ k.x2 < X
  <2>1. Beside(k) = Normal(Rect(k.x2, k.y1, X, k.y2))
    BY <1>1, <1>2, <1>3, <1>5, SizeAssumption DEF Without, Rects
  <2> QED BY <1>5, <2>1, SizeAssumption DEF Normal, IsEmpty, Rect, Rects
<1>6. CASE k.x1 > 0
  <2>1. Beside(k) = Normal(Rect(0, k.y1, k.x1, k.y2))
    BY <1>1, <1>2, <1>3, <1>6, SizeAssumption DEF Without, Rects
  <2> QED BY <1>6, <2>1, SizeAssumption DEF Normal, IsEmpty, Rect, Rects
<1> QED BY <1>4, <1>5, <1>6, SizeAssumption DEF Rects

LEMMA AboveExact ==
  ASSUME NEW k \in Rects,
         0 <= k.x1, k.x1 < k.x2, k.x2 <= X,
         0 <= k.y1, k.y1 < k.y2, k.y2 <= Y, k.y1 = 0 \/ k.y2 = Y
  PROVE  /\ k.y1 = 0 /\ k.y2 = Y => Above(k) = Empty
         /\ k.y1 = 0 /\ k.y2 < Y => Above(k) = Rect(k.x1, k.y2, k.x2, Y)
         /\ k.y1 > 0 => Above(k) = Rect(k.x1, 0, k.x2, k.y1)
<1> DEFINE r == Rect(k.x1, 0, k.x2, Y)
<1>1. Intersect(r, k) = k /\ ~IsEmpty(k)
  BY SizeAssumption
     DEF Intersect, Overlap, Normal, IsEmpty, Rect, Rects, Lesser, Greater
<1>2. r.x1 = k.x1 /\ r.x2 = k.x2 /\ r.y1 = 0 /\ r.y2 = Y
  BY DEF Rect
<1>3. Above(k) = Without(r, k)
  BY <1>1 DEF Above, Subtract
<1>4. CASE k.y1 = 0 /\ k.y2 = Y
  <2>1. Above(k) = Normal(Rect(k.x1, Y, k.x2, Y))
    BY <1>1, <1>2, <1>3, <1>4 DEF Without
  <2> QED BY <1>4, <2>1, SizeAssumption DEF Normal, IsEmpty, Rect, Rects
<1>5. CASE k.y1 = 0 /\ k.y2 < Y
  <2>1. Above(k) = Normal(Rect(k.x1, k.y2, k.x2, Y))
    BY <1>1, <1>2, <1>3, <1>5, SizeAssumption DEF Without, Rects
  <2> QED BY <1>5, <2>1, SizeAssumption DEF Normal, IsEmpty, Rect, Rects
<1>6. CASE k.y1 > 0
  <2>1. Above(k) = Normal(Rect(k.x1, 0, k.x2, k.y1))
    BY <1>1, <1>2, <1>3, <1>6, SizeAssumption DEF Without, Rects
  <2> QED BY <1>6, <2>1, SizeAssumption DEF Normal, IsEmpty, Rect, Rects
<1> QED BY <1>4, <1>5, <1>6, SizeAssumption DEF Rects

LEMMA StripesFill ==
  ASSUME NEW c, ClientOK(c), NEW a, AppOK(a), Panned(c, a),
         NEW k, k = Copied(c, a), ~IsEmpty(k)
  PROVE  /\ Stripes(k)[1] \in Rects /\ Stripes(k)[2] \in Rects
         /\ \A q \in Coords :
              In(q, Visible) =>
                In(q, k) \/ In(q, Stripes(k)[1]) \/ In(q, Stripes(k)[2])
<1>1. /\ k \in Rects
      /\ 0 <= k.x1 /\ k.x1 < k.x2 /\ k.x2 <= X /\ (k.x1 = 0 \/ k.x2 = X)
      /\ 0 <= k.y1 /\ k.y1 < k.y2 /\ k.y2 <= Y /\ (k.y1 = 0 \/ k.y2 = Y)
      /\ k.x2 - k.x1 < X \/ k.y2 - k.y1 < Y
  BY CopiedExact, CopiedAtEdge
<1> DEFINE wide == X - (k.x2 - k.x1) > Y - (k.y2 - k.y1)
           across == Rect(Beside(k).x1, 0, Beside(k).x2, Y)
           along == Rect(0, Above(k).y1, X, Above(k).y2)
<1>2. CASE wide
  <2>1. k.x2 - k.x1 < X
    BY <1>1, <1>2, SizeAssumption DEF Rects
  <2>2. \/ k.x1 = 0 /\ k.x2 < X /\ across = Rect(k.x2, 0, X, Y)
        \/ k.x1 > 0 /\ k.x2 = X /\ across = Rect(0, 0, k.x1, Y)
    BY <1>1, <2>1, BesideExact, SizeAssumption DEF Rect, Rects
  <2>3. Stripes(k)[1] = across
    BY <1>2 DEF Stripes
  <2>4. CASE k.y2 - k.y1 = Y
    <3>1. Stripes(k)[2] = Empty
      BY <1>2, <2>4 DEF Stripes
    <3> QED BY <1>1, <2>2, <2>3, <2>4, <3>1, EmptyType, SizeAssumption
            DEF In, Visible, Rect, Rects, Coords
  <2>5. CASE k.y2 - k.y1 # Y
    <3>1. Stripes(k)[2] = Above(k)
      BY <1>2, <2>5 DEF Stripes
    <3>2. \/ k.y1 = 0 /\ k.y2 < Y /\ Above(k) = Rect(k.x1, k.y2, k.x2, Y)
          \/ k.y1 > 0 /\ k.y2 = Y /\ Above(k) = Rect(k.x1, 0, k.x2, k.y1)
      BY <1>1, <2>5, AboveExact, SizeAssumption DEF Rects
    <3> QED BY <1>1, <2>2, <2>3, <3>1, <3>2, SizeAssumption
            DEF In, Visible, Rect, Rects, Coords
  <2> QED BY <2>4, <2>5
<1>3. CASE ~wide
  <2>1. k.y2 - k.y1 < Y
    BY <1>1, <1>3, SizeAssumption DEF Rects
  <2>2. \/ k.y1 = 0 /\ k.y2 < Y /\ along = Rect(0, k.y2, X, Y)
        \/ k.y1 > 0 /\ k.y2 = Y /\ along = Rect(0, 0, X, k.y1)
    BY <1>1, <2>1, AboveExact, SizeAssumption DEF Rect, Rects
  <2>3. Stripes(k)[1] = along
    BY <1>3 DEF Stripes
  <2>4. CASE k.x2 - k.x1 = X
    <3>1. Stripes(k)[2] = Empty
      BY <1>3, <2>4 DEF Stripes
    <3> QED BY <1>1, <2>2, <2>3, <2>4, <3>1, EmptyType, SizeAssumption
            DEF In, Visible, Rect, Rects, Coords
  <2>5. CASE k.x2 - k.x1 # X
    <3>1. Stripes(k)[2] = Beside(k)
      BY <1>3, <2>5 DEF Stripes
    <3>2. \/ k.x1 = 0 /\ k.x2 < X /\ Beside(k) = Rect(k.x2, k.y1, X, k.y2)
          \/ k.x1 > 0 /\ k.x2 = X /\ Beside(k) = Rect(0, k.y1, k.x1, k.y2)
      BY <1>1, <2>5, BesideExact, SizeAssumption DEF Rects
    <3> QED BY <1>1, <2>2, <2>3, <3>1, <3>2, SizeAssumption
            DEF In, Visible, Rect, Rects, Coords
  <2> QED BY <2>4, <2>5
<1> QED BY <1>2, <1>3

\* A pixel of the screen is in one of the parts that are sent.
Sent(q, part) == In(q, part[1]) \/ In(q, part[2]) \/ In(q, part[3])

\* What is sent and what is copied make up all that was to be sent, and, when
\* the origin has moved, the whole screen.
LEMMA PartsFill ==
  ASSUME NEW c, ClientOK(c), NEW a, AppOK(a),
         NEW upd \in Rects, NEW pan \in BOOLEAN, pan => Panned(c, a),
         NEW part, part = Parts(c, a, upd, pan)
  PROVE  /\ part[1] \in Rects /\ part[2] \in Rects /\ part[3] \in Rects
         /\ \A q \in Coords :
              /\ In(q, upd) /\ In(q, Visible) => Sent(q, part)
              /\ pan /\ In(q, Visible) =>
                   Sent(q, part) \/ (c.copyrect /\ In(q, Copied(c, a)))
<1> DEFINE k == Copied(c, a)
           s == Stripes(k)
<1>1. CASE ~pan
  <2>1. part = <<Empty, Empty, upd>>
    BY <1>1 DEF Parts
  <2> QED BY <1>1, <2>1, EmptyType DEF Sent
<1>2. CASE pan /\ (~c.copyrect \/ IsEmpty(k))
  <2>1. part = <<Empty, Empty, Visible>>
    BY <1>2 DEF Parts
  <2> QED BY <2>1, EmptyType, Areas DEF Corner, Sent
<1>3. CASE pan /\ c.copyrect /\ ~IsEmpty(k)
  <2>1. part = <<s[1], s[2], Subtract(Subtract(upd, s[1]), s[2])>>
    BY <1>3 DEF Parts
  <2>2. /\ s[1] \in Rects /\ s[2] \in Rects
        /\ \A q \in Coords :
             In(q, Visible) => In(q, k) \/ In(q, s[1]) \/ In(q, s[2])
    BY <1>3, StripesFill
  <2> HIDE DEF s, k
  <2>3. Subtract(upd, s[1]) \in Rects
    BY <2>2, SubtractKeeps
  <2>4. part[3] \in Rects
    BY <2>1, <2>2, <2>3, SubtractKeeps
  <2>5. \A q \in Coords : In(q, upd) => In(q, s[1]) \/ In(q, s[2]) \/ In(q, part[3])
    BY <2>1, <2>2, <2>3, SubtractKeeps
  <2>6. part[1] = s[1] /\ part[2] = s[2]
    BY <2>1
  <2> QED BY <1>3, <2>2, <2>4, <2>5, <2>6 DEF k, Sent
<1> QED BY <1>1, <1>2, <1>3

(***************************************************************************)
(* Sending.                                                                *)
(***************************************************************************)

\* A pixel shown wrongly is on the viewer's screen.
Shows(c) == c.stale => Shown(c)

CoveredFor(c, a) ==
  c.stale => \/ In(probe, c.dirty) \/ (a.async /\ In(probe, c.fdirty))
             \/ c.loose \/ c.missed

KeptFor(c) == c.asked <=> ~IsEmpty(c.update)

NotHeld(c, a) ==
  c.asked /\ ~c.wpending =>
    c.origin = a.origin /\ IsEmpty(Wanted(c, a, c.update))

Sound(c, a) == ClientOK(c) /\ Shows(c) /\ CoveredFor(c, a)

LEMMA ProbeType == ASSUME probe \in Probes PROVE probe \in Coords
BY InputAssumption

LEMMA UnflushedType ==
  ASSUME NEW c, ClientOK(c), NEW a, AppOK(a), NEW upd, Inside(upd, Visible),
         NEW u, u = Unflushed(c, a, upd)
  PROVE  /\ ClientOK(u)
         /\ u = [c EXCEPT !.fdirty = u.fdirty]
         /\ u.fdirty = Subtract(c.fdirty, ToFrame(upd, a.origin))
<1>1. ToFrame(upd, a.origin) \in Rects
  BY ToFrameInside, InsideType, Areas DEF AppOK, Corner
<1>2. /\ Subtract(c.fdirty, ToFrame(upd, a.origin)) \in Rects
      /\ Inside(Subtract(c.fdirty, ToFrame(upd, a.origin)), Virtual)
  BY <1>1, SubtractInside, SubtractKeeps, Areas DEF ClientOK
<1> QED BY <1>2 DEF Unflushed, ClientOK

\* What is left of the dirty rectangle keeps each visible pixel that is not sent.
LEMMA LeftKeeps ==
  ASSUME NEW r, Inside(r, Virtual), NEW v \in Rects,
         NEW f1 \in Rects, NEW f2 \in Rects, NEW f3 \in Rects, NEW left,
         left = Subtract(Subtract(Subtract(Intersect(r, v), f1), f2), f3)
  PROVE  /\ left \in Rects /\ Inside(left, Virtual)
         /\ \A p \in Coords :
              In(p, r) /\ In(p, v) /\ ~In(p, f1) /\ ~In(p, f2) /\ ~In(p, f3)
                => In(p, left)
<1> DEFINE l0 == Intersect(r, v)
           l1 == Subtract(l0, f1)
           l2 == Subtract(l1, f2)
<1>1. r \in Rects /\ Corner(Virtual)
  BY InsideType, Areas DEF Corner
<1>2. /\ l0 \in Rects /\ Inside(l0, Virtual)
      /\ \A p \in Coords : In(p, l0) <=> In(p, r) /\ In(p, v)
  BY <1>1, IntersectExact, IntersectInside
<1>3. left = Subtract(l2, f3)
  OBVIOUS
<1> HIDE DEF l0
<1>4. /\ l1 \in Rects /\ Inside(l1, Virtual)
      /\ \A p \in Coords : In(p, l0) /\ ~In(p, f1) => In(p, l1)
  BY <1>1, <1>2, SubtractKeeps, SubtractInside
<1> HIDE DEF l1
<1>5. /\ l2 \in Rects /\ Inside(l2, Virtual)
      /\ \A p \in Coords : In(p, l1) /\ ~In(p, f2) => In(p, l2)
  BY <1>1, <1>4, SubtractKeeps, SubtractInside
<1> HIDE DEF l2
<1>6. /\ left \in Rects /\ Inside(left, Virtual)
      /\ \A p \in Coords : In(p, l2) /\ ~In(p, f3) => In(p, left)
  BY <1>1, <1>3, <1>5, SubtractKeeps, SubtractInside
<1> QED BY <1>2, <1>4, <1>5, <1>6

\* The fields of a client after an update that has something to send.
HasUpdated(u, a, upd, pan, d, part) ==
  LET f(i) == ToFrame(part[i], a.origin)
      left == Subtract(Subtract(Subtract(
                Intersect(u.dirty, View(a.origin)), f(1)), f(2)), f(3))
  IN /\ d \in [dirty : {left}, fdirty : {u.fdirty}, update : {Empty},
               origin : {a.origin},
               wpending : BOOLEAN, copyrect : BOOLEAN, converted : BOOLEAN,
               palette : BOOLEAN, asked : {FALSE}, stale : BOOLEAN,
               loose : BOOLEAN, missed : BOOLEAN]
     /\ d.stale <=>
          /\ In(probe, View(a.origin))
          /\ ~In(probe, f(1)) /\ ~In(probe, f(2)) /\ ~In(probe, f(3))
          /\ Kept(u, a, pan) => u.stale
     /\ d.loose <=> u.loose /\ d.stale
     /\ d.missed <=> d.stale /\ (u.missed \/ (Panned(u, a) /\ ~pan))

LEMMA UpdateFields ==
  ASSUME NEW u, ClientOK(u), NEW a, NEW upd, NEW pan \in BOOLEAN,
         ~(IsEmpty(upd) /\ ~pan), NEW d \in DoUpdate(u, a, upd, pan)
  PROVE  HasUpdated(u, a, upd, pan, d, Parts(u, a, upd, pan))
<1> DEFINE part == Parts(u, a, upd, pan)
           frame(i) == ToFrame(part[i], a.origin)
           left == Subtract(Subtract(Subtract(
                     Intersect(u.dirty, View(a.origin)), frame(1)), frame(2)), frame(3))
           stale == /\ In(probe, View(a.origin))
                    /\ \A i \in 1..3 : ~In(probe, frame(i))
                    /\ Kept(u, a, pan) => u.stale
<1>1. PICK block \in BOOLEAN :
        d = [[u EXCEPT !.palette = FALSE, !.dirty = left, !.origin = a.origin,
                !.update = Empty, !.asked = FALSE, !.stale = stale,
                !.loose = u.loose /\ stale,
                !.missed = stale /\ (u.missed \/ (Panned(u, a) /\ ~pan))]
              EXCEPT !.wpending = block]
  BY DEF DoUpdate, Updated, Written
<1>2. stale \in BOOLEAN
  OBVIOUS
<1>3. stale <=> /\ In(probe, View(a.origin))
                /\ ~In(probe, frame(1)) /\ ~In(probe, frame(2)) /\ ~In(probe, frame(3))
                /\ Kept(u, a, pan) => u.stale
  <2>1. (\A i \in 1..3 : ~In(probe, frame(i))) <=>
          ~In(probe, frame(1)) /\ ~In(probe, frame(2)) /\ ~In(probe, frame(3))
    <3> HIDE DEF frame
    <3> QED OBVIOUS
  <2> HIDE DEF frame
  <2> QED BY <2>1
<1> HIDE DEF stale, left, frame
<1>5. PICK ls \in BOOLEAN, ms \in BOOLEAN :
        /\ ls = (u.loose /\ stale)
        /\ ms = (stale /\ (u.missed \/ (Panned(u, a) /\ ~pan)))
  OBVIOUS
<1>6. d = [[u EXCEPT !.palette = FALSE, !.dirty = left, !.origin = a.origin,
                !.update = Empty, !.asked = FALSE, !.stale = stale,
                !.loose = ls, !.missed = ms]
              EXCEPT !.wpending = block]
  BY <1>1, <1>5
<1>7. /\ d \in [dirty : {left},
                fdirty : {u.fdirty}, update : {Empty}, origin : {a.origin},
                wpending : BOOLEAN, copyrect : BOOLEAN, converted : BOOLEAN,
                palette : BOOLEAN, asked : {FALSE}, stale : {stale},
                loose : {ls}, missed : {ms}]
  BY <1>6 DEF ClientOK
<1>8. d.stale = stale /\ d.loose = ls /\ d.missed = ms
  BY <1>7
<1>9. d \in [dirty : {left},
             fdirty : {u.fdirty}, update : {Empty}, origin : {a.origin},
             wpending : BOOLEAN, copyrect : BOOLEAN, converted : BOOLEAN,
             palette : BOOLEAN, asked : {FALSE}, stale : BOOLEAN,
             loose : BOOLEAN, missed : BOOLEAN]
  BY <1>2, <1>7
<1> HIDE DEF part
<1>10. /\ d.stale <=> /\ In(probe, View(a.origin))
                      /\ ~In(probe, frame(1)) /\ ~In(probe, frame(2))
                      /\ ~In(probe, frame(3))
                      /\ Kept(u, a, pan) => u.stale
       /\ d.loose <=> u.loose /\ d.stale
       /\ d.missed <=> d.stale /\ (u.missed \/ (Panned(u, a) /\ ~pan))
  BY <1>3, <1>5, <1>8
<1> USE DEF left, frame
<1> QED BY <1>9, <1>10 DEF HasUpdated, part

\* An update with nothing to send leaves the client as it is, but for what is
\* kept of the palette and of the socket.
LEMMA IdleUpdate ==
  ASSUME probe \in Probes, NEW a, AppOK(a), NEW c, Sound(c, a),
         NEW upd, Inside(upd, Visible), IsEmpty(upd), NEW pan \in BOOLEAN, ~pan,
         NEW d \in DoUpdate(Unflushed(c, a, upd), a, upd, pan)
  PROVE  /\ Sound(d, a)
         /\ d.asked = c.asked /\ d.update = c.update
         /\ d.origin = c.origin /\ d.dirty = c.dirty
<1> DEFINE u == Unflushed(c, a, upd)
<1>p. probe \in Coords
  BY ProbeType
<1>1. /\ ClientOK(u) /\ ClientOK(c)
      /\ u = [c EXCEPT !.fdirty = u.fdirty]
      /\ u.fdirty = Subtract(c.fdirty, ToFrame(upd, a.origin))
  BY UnflushedType DEF Sound
<1>2. ToFrame(upd, a.origin) = Empty /\ Empty \in Rects
  BY EmptyType DEF ToFrame
<1>3. In(probe, c.fdirty) => In(probe, u.fdirty)
  BY <1>p, <1>1, <1>2, EmptyType, EmptyHasNone, SubtractKeeps DEF ClientOK
<1>4. PICK palette \in BOOLEAN, block \in BOOLEAN :
        d = [[u EXCEPT !.palette = palette] EXCEPT !.wpending = block]
  <2>1. d = u \/ d \in Written([u EXCEPT !.palette = FALSE])
    BY DEF DoUpdate
  <2> HIDE DEF u
  <2>2. u.palette \in BOOLEAN /\ u.wpending \in BOOLEAN
        /\ u = [[u EXCEPT !.palette = u.palette] EXCEPT !.wpending = u.wpending]
    BY <1>1 DEF ClientOK
  <2> QED BY <2>1, <2>2 DEF Written
<1> HIDE DEF u
<1>5. /\ d \in [dirty : Rects, fdirty : Rects, update : Rects, origin : Origins,
                wpending : BOOLEAN, copyrect : BOOLEAN, converted : BOOLEAN,
                palette : BOOLEAN, asked : BOOLEAN, stale : BOOLEAN,
                loose : BOOLEAN, missed : BOOLEAN]
      /\ d.dirty = u.dirty /\ d.fdirty = u.fdirty /\ d.update = u.update
      /\ d.origin = u.origin /\ d.asked = u.asked /\ d.stale = u.stale
      /\ d.loose = u.loose /\ d.missed = u.missed
  BY <1>1, <1>4 DEF ClientOK
<1>6. /\ u.dirty = c.dirty /\ u.update = c.update /\ u.origin = c.origin
      /\ u.stale = c.stale /\ u.loose = c.loose
      /\ u.missed = c.missed /\ u.asked = c.asked
  BY <1>1 DEF ClientOK
<1>7. ClientOK(d)
  BY <1>1, <1>5 DEF ClientOK
<1> QED BY <1>3, <1>5, <1>6, <1>7 DEF Sound, Shows, Shown, CoveredFor

\* An update forgets only what it sends: it leaves the client sound, if it was
\* sound or if all of the screen is sent.
LEMMA SentUpdate ==
  ASSUME probe \in Probes, NEW a, AppOK(a), NEW c, ClientOK(c),
         NEW upd, Inside(upd, Visible), NEW pan \in BOOLEAN, pan => Panned(c, a),
         ~(IsEmpty(upd) /\ ~pan),
         CoveredFor(c, a) \/ \A q \in Coords : In(q, Visible) => In(q, upd),
         NEW d \in DoUpdate(Unflushed(c, a, upd), a, upd, pan)
  PROVE  Sound(d, a) /\ ~d.asked /\ KeptFor(d)
<1> DEFINE u == Unflushed(c, a, upd)
<1>p. probe \in Coords
  BY ProbeType
<1>1. /\ ClientOK(u) /\ ClientOK(c)
      /\ u = [c EXCEPT !.fdirty = u.fdirty]
      /\ u.fdirty = Subtract(c.fdirty, ToFrame(upd, a.origin))
  BY UnflushedType
<1>2. /\ u.dirty = c.dirty /\ u.update = c.update /\ u.origin = c.origin
      /\ u.copyrect = c.copyrect /\ u.stale = c.stale /\ u.loose = c.loose
      /\ u.missed = c.missed
  BY <1>1 DEF ClientOK
<1>3. /\ upd \in Rects /\ ToFrame(upd, a.origin) \in Rects
      /\ a.origin \in Coords /\ a.origin \in Origins
      /\ u.dirty \in Rects /\ Inside(u.dirty, Virtual) /\ View(a.origin) \in Rects
  BY <1>1, ToFrameInside, InsideType, Areas, OriginType DEF AppOK, Corner, ClientOK
<1>4. PICK part : part = Parts(u, a, upd, pan)
  OBVIOUS
<1>5. /\ part[1] \in Rects /\ part[2] \in Rects /\ part[3] \in Rects
      /\ \A q \in Coords :
           /\ In(q, upd) /\ In(q, Visible) => Sent(q, part)
           /\ pan /\ In(q, Visible) =>
                Sent(q, part) \/ (u.copyrect /\ In(q, Copied(u, a)))
  <2>1. pan => Panned(u, a)
    BY <1>2 DEF Panned
  <2> QED BY <1>1, <1>3, <1>4, <2>1, PartsFill
<1>6. PICK f1 \in Rects, f2 \in Rects, f3 \in Rects :
        /\ f1 = ToFrame(part[1], a.origin) /\ f2 = ToFrame(part[2], a.origin)
        /\ f3 = ToFrame(part[3], a.origin)
  BY <1>3, <1>5, ShiftExact
<1>7. PICK left \in Rects :
        left = Subtract(Subtract(Subtract(Intersect(u.dirty, View(a.origin)),
                                          f1), f2), f3)
  BY <1>3, LeftKeeps
<1>8. /\ d \in [dirty : {left}, fdirty : {u.fdirty}, update : {Empty},
                origin : {a.origin},
                wpending : BOOLEAN, copyrect : BOOLEAN, converted : BOOLEAN,
                palette : BOOLEAN, asked : {FALSE}, stale : BOOLEAN,
                loose : BOOLEAN, missed : BOOLEAN]
      /\ d.stale <=>
           /\ In(probe, View(a.origin))
           /\ ~In(probe, f1) /\ ~In(probe, f2) /\ ~In(probe, f3)
           /\ Kept(u, a, pan) => u.stale
      /\ d.loose <=> u.loose /\ d.stale
      /\ d.missed <=> d.stale /\ (u.missed \/ (Panned(u, a) /\ ~pan))
  <2>1. d \in DoUpdate(u, a, upd, pan)
    OBVIOUS
  <2> HIDE DEF u
  <2>2. HasUpdated(u, a, upd, pan, d, part)
    BY <1>1, <1>4, <2>1, UpdateFields
  <2> QED BY <1>6, <1>7, <2>2 DEF HasUpdated
<1> HIDE DEF u
<1>9. Inside(left, Virtual) /\ (In(probe, u.dirty) /\ d.stale => In(probe, left))
  BY <1>p, <1>3, <1>6, <1>7, <1>8, LeftKeeps
<1> DEFINE q == Coord(probe.x - a.origin.x, probe.y - a.origin.y)
<1>10. q \in Coords /\ Coord(q.x + a.origin.x, q.y + a.origin.y) = probe
  BY <1>p, <1>3 DEF Coord, Coords
<1>11. In(probe, View(a.origin)) <=> In(q, Visible)
  BY <1>p, <1>3, SizeAssumption DEF In, View, Visible, Rect, Coord, Coords
<1>12. /\ In(probe, f1) <=> In(q, part[1])
       /\ In(probe, f2) <=> In(q, part[2])
       /\ In(probe, f3) <=> In(q, part[3])
       /\ In(probe, ToFrame(upd, a.origin)) <=> In(q, upd)
  BY <1>p, <1>3, <1>5, <1>6, ShiftExact
<1>13. d.stale => In(q, Visible) /\ ~Sent(q, part)
  BY <1>8, <1>11, <1>12 DEF Sent
<1>c. In(q, Copied(u, a)) => In(probe, View(u.origin)) /\ In(probe, View(a.origin))
  BY <1>1, <1>10, <1>11, CopiedExact
<1> HIDE DEF q
<1>14. d.stale => ~In(probe, ToFrame(upd, a.origin))
  BY <1>5, <1>10, <1>12, <1>13
<1>15. d.stale /\ In(probe, c.fdirty) => In(probe, u.fdirty)
  BY <1>p, <1>1, <1>3, <1>14, SubtractKeeps DEF ClientOK
<1>16. d.stale /\ pan => Kept(u, a, pan)
  BY <1>5, <1>10, <1>13, <1>c DEF Kept
<1>17. d.stale => u.stale \/ (Panned(u, a) /\ ~pan)
  BY <1>8, <1>16 DEF Kept
<1>18. ClientOK(d)
  BY <1>1, <1>3, <1>8, <1>9, EmptyType DEF ClientOK, Inside
<1>19. Shows(d)
  BY <1>8 DEF Shows, Shown
<1>20. CoveredFor(d, a)
  <2>1. d.stale => CoveredFor(c, a)
    BY <1>5, <1>10, <1>13
  <2> QED BY <1>2, <1>8, <1>9, <1>15, <1>17, <2>1 DEF CoveredFor
<1> QED BY <1>8, <1>18, <1>19, <1>20, EmptyType DEF Sound, KeptFor

LEMMA WantedInside ==
  ASSUME NEW c, ClientOK(c), NEW a, AppOK(a), NEW r, Inside(r, Visible)
  PROVE  Inside(Wanted(c, a, r), Visible)
<1>1. ToScreen(c.dirty, a.origin) \in Rects
  BY OriginType, ShiftExact DEF ClientOK, AppOK
<1> QED BY <1>1, Areas, IntersectInside DEF Wanted

\* While the viewer waits, pending_client_update leaves nothing to be sent.
LEMMA PendingSound ==
  ASSUME probe \in Probes, NEW a, AppOK(a), NEW c, Sound(c, a), KeptFor(c),
         NEW d \in Pending(c, a)
  PROVE  Sound(d, a) /\ KeptFor(d) /\ NotHeld(d, a)
<1> DEFINE full == FullUpdate(a)
           upd == IF full THEN c.update ELSE Wanted(c, a, c.update)
           pan == ~full /\ Panned(c, a)
           idle == c.wpending \/ IsEmpty(c.update) \/ (IsEmpty(upd) /\ ~pan)
<1>1. IF idle THEN d = c ELSE d \in DoUpdate(Unflushed(c, a, upd), a, upd, pan)
  BY DEF Pending
<1>2. Inside(upd, Visible)
  BY WantedInside DEF Sound, ClientOK
<1>3. pan \in BOOLEAN /\ (pan => Panned(c, a)) /\ CoveredFor(c, a) /\ ClientOK(c)
  BY DEF Sound
<1>4. full => upd = c.update
  OBVIOUS
<1>5. ~full => upd = Wanted(c, a, c.update) /\ (pan <=> Panned(c, a))
  OBVIOUS
<1> HIDE DEF full, upd, pan
<1>6. CASE idle
  <2>1. NotHeld(c, a)
    BY <1>4, <1>5, <1>6 DEF NotHeld, KeptFor, Panned
  <2> QED BY <1>1, <1>6, <2>1
<1>7. CASE ~idle
  <2>1. Sound(d, a) /\ ~d.asked /\ KeptFor(d)
    BY <1>1, <1>2, <1>3, <1>7, SentUpdate
  <2> QED BY <2>1 DEF NotHeld
<1> QED BY <1>6, <1>7

LEMMA UnionAsks ==
  ASSUME NEW r, NEW s, Inside(r, Visible), Inside(s, Visible), ~IsEmpty(r)
  PROVE  /\ Inside(Union(r, s), Visible) /\ ~IsEmpty(Union(r, s))
         /\ Inside(Union(s, r), Visible) /\ ~IsEmpty(Union(s, r))
<1>1. r \in Rects /\ s \in Rects
  BY Areas, InsideType DEF Corner
<1>2. ~IsEmpty(Union(r, s)) /\ ~IsEmpty(Union(s, r))
  BY <1>1 DEF Union, IsEmpty, Rects, Rect, Lesser, Greater
<1> QED BY <1>2, Areas, UnionInside

\* A request is answered, or it is remembered and there is nothing to send.
LEMMA AnswerSound ==
  ASSUME probe \in Probes, NEW a, AppOK(a), NEW c, ClientOK(c), c.asked,
         NEW request, Inside(request, Visible), ~IsEmpty(request),
         NEW incremental \in BOOLEAN,
         Sound(c, a) \/ (~incremental /\ request = Visible),
         NEW d \in Answer(c, a, request, incremental)
  PROVE  Sound(d, a) /\ KeptFor(d) /\ NotHeld(d, a)
<1> DEFINE full == FullUpdate(a)
           asked == Union(request, c.update)
           upd == IF incremental /\ ~full THEN Wanted(c, a, asked) ELSE asked
           pan == Panned(c, a) /\ ~(incremental /\ full)
           idle == incremental /\ IsEmpty(upd) /\ ~pan
           waiting == IF idle THEN [c EXCEPT !.update = asked] ELSE c
<1>1. IF idle /\ ~c.palette THEN d = waiting
      ELSE d \in DoUpdate(Unflushed(waiting, a, upd), a, upd, pan)
  BY DEF Answer
<1>2. Inside(asked, Visible) /\ ~IsEmpty(asked) /\ asked \in Rects
  BY UnionAsks, Areas, InsideType DEF ClientOK, Corner
<1>3. Inside(upd, Visible)
  BY <1>2, WantedInside
<1>4. pan \in BOOLEAN /\ (pan => Panned(c, a))
  OBVIOUS
<1>5. ~(incremental /\ ~full) => upd = asked
  OBVIOUS
<1>6. incremental /\ ~full => upd = Wanted(c, a, asked) /\ (pan <=> Panned(c, a))
  OBVIOUS
<1>7. request = Visible => \A q \in Coords : In(q, Visible) => In(q, asked)
  BY Areas, UnionHasBoth DEF ClientOK, Corner
<1> HIDE DEF full, asked, upd, pan
<1>8. CASE idle
  <2> DEFINE w == [c EXCEPT !.update = asked]
  <2>1. waiting = w
    BY <1>8
  <2>2. ~full /\ incremental /\ IsEmpty(upd) /\ ~pan
    BY <1>2, <1>4, <1>5, <1>8
  <2>3. /\ ClientOK(w) /\ w.update = asked /\ w.origin = c.origin
        /\ w.dirty = c.dirty /\ w.asked = c.asked /\ w.fdirty = c.fdirty
        /\ w.stale = c.stale /\ w.loose = c.loose /\ w.missed = c.missed
    BY <1>2 DEF ClientOK
  <2>4. Sound(w, a)
    BY <2>2, <2>3 DEF Sound, Shows, Shown, CoveredFor
  <2> HIDE DEF w
  <2>5. /\ Sound(d, a) /\ d.asked = w.asked /\ d.update = w.update
        /\ d.origin = w.origin /\ d.dirty = w.dirty
    <3>1. CASE c.palette
      <4>1. d \in DoUpdate(Unflushed(w, a, upd), a, upd, pan)
        BY <1>1, <1>8, <2>1, <2>2, <3>1
      <4> QED BY <1>3, <1>4, <2>2, <2>4, <4>1, IdleUpdate
    <3>2. CASE ~c.palette
      BY <1>1, <1>8, <2>1, <2>4, <3>2
    <3> QED BY <3>1, <3>2
  <2>6. KeptFor(d)
    BY <1>2, <2>3, <2>5 DEF KeptFor
  <2>7. IsEmpty(Wanted(d, a, d.update)) /\ d.origin = a.origin
    BY <1>6, <2>2, <2>3, <2>5 DEF Wanted, Panned
  <2> QED BY <2>5, <2>6, <2>7 DEF NotHeld
<1>9. CASE ~idle
  <2>1. d \in DoUpdate(Unflushed(c, a, upd), a, upd, pan)
    BY <1>1, <1>9
  <2>2. ~(IsEmpty(upd) /\ ~pan)
    BY <1>2, <1>5, <1>9
  <2>3. CoveredFor(c, a) \/ \A q \in Coords : In(q, Visible) => In(q, upd)
    BY <1>5, <1>7 DEF Sound
  <2>4. Sound(d, a) /\ ~d.asked /\ KeptFor(d)
    BY <1>3, <1>4, <2>1, <2>2, <2>3, SentUpdate
  <2> QED BY <2>4 DEF NotHeld
<1> QED BY <1>8, <1>9

(***************************************************************************)
(* The inductive invariant, and the steps.                                 *)
(***************************************************************************)

Good(c, a) == Sound(c, a) /\ KeptFor(c) /\ NotHeld(c, a)

Inv == probe \in Probes /\ AppOK(app) /\ Good(client, app)

\* What is promised of a client depends on the origin and the mode only.
LEMMA SameView ==
  ASSUME NEW a, NEW b, a.async = b.async, a.origin = b.origin, NEW c
  PROVE  (Sound(c, a) <=> Sound(c, b)) /\ (NotHeld(c, a) <=> NotHeld(c, b))
BY DEF Sound, CoveredFor, NotHeld, Wanted

LEMMA InvInit == Init => Inv
<1> SUFFICES ASSUME Init PROVE Inv
  OBVIOUS
<1>1. Coord(0, 0) \in Origins
  BY SizeAssumption DEF Origins
<1>2. Inside(Virtual, Virtual) /\ Virtual \in Rects /\ ~IsEmpty(Virtual)
  BY SizeAssumption DEF Inside, Within, Virtual, Rect, Rects, IsEmpty
<1>3. probe \in Probes /\ In(probe, Virtual) /\ View(Coord(0, 0)) = Visible
  BY InputAssumption, SizeAssumption DEF Init, View, Visible, Coord, Rect
<1>4. PICK st \in BOOLEAN : st <=> In(probe, Visible)
  OBVIOUS
<1>5. client = [dirty |-> Virtual, fdirty |-> Empty, update |-> Empty,
               origin |-> Coord(0, 0), wpending |-> FALSE, copyrect |-> FALSE,
               converted |-> FALSE, palette |-> FALSE,
               asked |-> FALSE, stale |-> st, loose |-> FALSE, missed |-> FALSE]
  BY <1>4 DEF Init, In
<1>6. AppOK(app)
  BY <1>1 DEF Init, AppOK
<1>7. ClientOK(client)
  BY <1>1, <1>2, <1>5, EmptyType DEF ClientOK, Inside
<1>8. Shows(client) /\ CoveredFor(client, app)
  BY <1>3, <1>4, <1>5 DEF Shows, Shown, CoveredFor
<1>9. KeptFor(client) /\ NotHeld(client, app)
  BY <1>5, EmptyType DEF KeptFor, NotHeld
<1> QED BY <1>3, <1>6, <1>7, <1>8, <1>9 DEF Inv, Good, Sound

\* A rectangle of the frame is added to what is to be sent.
LEMMA InvalidatedType ==
  ASSUME NEW c, ClientOK(c), NEW r, Inside(r, Virtual), NEW d, d = Invalidated(c, r)
  PROVE  /\ ClientOK(d)
         /\ d.dirty = Union(c.dirty, r) /\ d.fdirty = c.fdirty
         /\ d.update = c.update /\ d.origin = c.origin /\ d.asked = c.asked
         /\ d.wpending = c.wpending
         /\ d.stale = c.stale /\ d.loose = c.loose /\ d.missed = c.missed
         /\ \A p \in Coords : In(p, c.dirty) \/ In(p, r) => In(p, d.dirty)
<1>1. r \in Rects /\ c.dirty \in Rects
  BY InsideType, Areas DEF Corner, ClientOK
<1>2. /\ Union(c.dirty, r) \in Rects /\ Inside(Union(c.dirty, r), Virtual)
      /\ \A p \in Coords : In(p, c.dirty) \/ In(p, r) => In(p, Union(c.dirty, r))
  BY <1>1, Areas, UnionHasBoth, UnionInside DEF ClientOK
<1> QED BY <1>2 DEF Invalidated, ClientOK

\* The same client, but for what is known of the probe.
LEMMA Reprobed ==
  ASSUME NEW c, ClientOK(c), NEW st \in BOOLEAN, NEW lo \in BOOLEAN,
         NEW mi \in BOOLEAN, NEW d,
         d = [c EXCEPT !.stale = st, !.loose = lo, !.missed = mi]
  PROVE  /\ ClientOK(d)
         /\ d.dirty = c.dirty /\ d.fdirty = c.fdirty
         /\ d.update = c.update /\ d.origin = c.origin /\ d.asked = c.asked
         /\ d.wpending = c.wpending
         /\ d.stale = st /\ d.loose = lo /\ d.missed = mi
BY DEF ClientOK

\* The probe never changes.
LEMMA NextInv ==
  ASSUME probe \in Probes, probe' = probe, AppOK(app'), Good(client', app')
  PROVE  Inv'
<1>1. Shows(client') => Shows(client)'
  BY DEF Shows, Shown
<1>2. CoveredFor(client', app') => CoveredFor(client, app)'
  BY DEF CoveredFor
<1> QED BY <1>1, <1>2 DEF Inv, Good, Sound

LEMMA DrawInv ==
  ASSUME Inv, NEW box \in Boxes, Draw(box)
  PROVE  Inv'
<1> DEFINE c == [client EXCEPT !.stale = @ \/ (In(probe, box) /\ Shown(client))]
<1>1. /\ Sound(client, app) /\ KeptFor(client) /\ NotHeld(client, app)
      /\ ClientOK(client) /\ AppOK(app) /\ probe \in Probes /\ probe \in Coords
      /\ probe' = probe /\ app' = app
  BY ProbeType DEF Inv, Good, Sound, Draw
<1>2. Inside(box, Virtual) /\ box \in Rects
  BY InputAssumption DEF Inside, Within
<1>3. PICK st \in BOOLEAN : st <=> client.stale \/ (In(probe, box) /\ Shown(client))
  OBVIOUS
<1>4. c = [client EXCEPT !.stale = st, !.loose = client.loose,
                         !.missed = client.missed]
  BY <1>1, <1>3 DEF ClientOK
<1>5. /\ ClientOK(c) /\ c.dirty = client.dirty /\ c.fdirty = client.fdirty
      /\ c.update = client.update /\ c.origin = client.origin
      /\ c.asked = client.asked /\ c.wpending = client.wpending
      /\ c.stale = st /\ c.loose = client.loose /\ c.missed = client.missed
  BY <1>1, <1>4, Reprobed DEF ClientOK
<1>6. IF app.async THEN client' = [c EXCEPT !.fdirty = Union(c.fdirty, box)]
      ELSE client' \in Pending(Invalidated(c, box), app)
  BY DEF Draw
<1> HIDE DEF c
<1>7. CASE app.async
  <2>1. /\ Union(c.fdirty, box) \in Rects /\ Inside(Union(c.fdirty, box), Virtual)
        /\ \A p \in Coords :
             In(p, c.fdirty) \/ In(p, box) => In(p, Union(c.fdirty, box))
    BY <1>2, <1>5, Areas, UnionHasBoth, UnionInside DEF ClientOK
  <2>2. /\ ClientOK(client') /\ client'.fdirty = Union(c.fdirty, box)
        /\ client'.dirty = c.dirty /\ client'.update = c.update
        /\ client'.origin = c.origin /\ client'.asked = c.asked
        /\ client'.wpending = c.wpending /\ client'.stale = c.stale
        /\ client'.loose = c.loose /\ client'.missed = c.missed
    BY <1>5, <1>6, <1>7, <2>1 DEF ClientOK
  <2>3. Shows(client') /\ CoveredFor(client', app)
    BY <1>1, <1>3, <1>5, <1>7, <2>1, <2>2 DEF Sound, Shows, Shown, CoveredFor
  <2>4. KeptFor(client') /\ NotHeld(client', app)
    BY <1>1, <1>5, <2>2 DEF KeptFor, NotHeld, Wanted
  <2> QED BY <1>1, <2>2, <2>3, <2>4, NextInv DEF Good, Sound
<1>8. CASE ~app.async
  <2> DEFINE e == Invalidated(c, box)
  <2>1. /\ ClientOK(e) /\ e.fdirty = c.fdirty /\ e.update = c.update
        /\ e.origin = c.origin /\ e.asked = c.asked /\ e.stale = c.stale
        /\ e.loose = c.loose /\ e.missed = c.missed
        /\ \A p \in Coords : In(p, c.dirty) \/ In(p, box) => In(p, e.dirty)
    BY <1>2, <1>5, InvalidatedType
  <2>2. client' \in Pending(e, app)
    BY <1>6, <1>8
  <2> HIDE DEF e
  <2>3. Shows(e) /\ CoveredFor(e, app) /\ KeptFor(e)
    BY <1>1, <1>3, <1>5, <1>8, <2>1 DEF Sound, Shows, Shown, CoveredFor, KeptFor
  <2>4. Good(client', app)
    BY <1>1, <2>1, <2>2, <2>3, PendingSound DEF Good, Sound
  <2> QED BY <1>1, <2>4, NextInv
<1> QED BY <1>7, <1>8

\* A handler that ends with pending_client_update.
LEMMA PendingInv ==
  ASSUME probe \in Probes, probe' = probe, NEW c, ClientOK(c), NEW b, AppOK(b),
         Shows(c), CoveredFor(c, b), KeptFor(c), client' \in Pending(c, b),
         AppOK(app'), app'.origin = b.origin, app'.async = b.async
  PROVE  Inv'
<1>1. Sound(client', b) /\ KeptFor(client') /\ NotHeld(client', b)
  BY PendingSound DEF Sound
<1>2. Sound(client', app') /\ NotHeld(client', app')
  BY <1>1, SameView
<1> QED BY <1>1, <1>2, NextInv DEF Good

\* What the steps of the application start from.
LEMMA Before ==
  ASSUME Inv
  PROVE  /\ probe \in Probes /\ probe \in Coords /\ AppOK(app)
         /\ ClientOK(client) /\ Shows(client) /\ CoveredFor(client, app)
         /\ KeptFor(client) /\ NotHeld(client, app) /\ Good(client, app)
         /\ View(app.origin) \in Rects /\ Inside(View(app.origin), Virtual)
         /\ client.dirty \in Rects /\ client.fdirty \in Rects
         /\ client.stale \in BOOLEAN /\ client.loose \in BOOLEAN
         /\ client.missed \in BOOLEAN
<1>1. AppOK(app) /\ ClientOK(client)
  BY DEF Inv, Good, Sound
<1> QED BY <1>1, ProbeType, OriginType DEF Inv, Good, Sound, AppOK, ClientOK

LEMMA SetOriginInv ==
  ASSUME Inv, NEW o \in Origins, SetOrigin(o)
  PROVE  Inv'
<1>1. AppOK(app') /\ app'.async = app.async
  BY Before DEF SetOrigin, AppOK
<1>2. CoveredFor(client, app')
  BY <1>1, Before DEF CoveredFor
<1> QED BY <1>1, <1>2, Before, PendingInv DEF SetOrigin

\* All that the viewer shows is stale, and the visible area is marked.
LEMMA AllChangedType ==
  ASSUME Inv, NEW c, c = AllChanged(client, app)
  PROVE  /\ ClientOK(c)
         /\ c.dirty = client.dirty /\ c.fdirty = client.fdirty
         /\ c.update = client.update /\ c.origin = client.origin
         /\ c.asked = client.asked /\ c.wpending = client.wpending
         /\ c.stale <=> Shown(client)
         /\ ~c.loose
         /\ c.missed <=> Shown(client) /\ ~In(probe, View(app.origin))
<1>1. PICK st \in BOOLEAN, mi \in BOOLEAN :
        /\ st <=> Shown(client)
        /\ mi <=> Shown(client) /\ ~In(probe, View(app.origin))
  BY Zenon DEF Shown, In
<1>2. /\ st = Shown(client)
      /\ mi = (Shown(client) /\ ~In(probe, View(app.origin)))
  BY <1>1 DEF Shown, In
<1>3. c = [client EXCEPT !.stale = st, !.loose = FALSE, !.missed = mi]
  BY <1>2 DEF AllChanged
<1>4. /\ c.stale = st /\ c.loose = FALSE /\ c.missed = mi /\ ClientOK(c)
      /\ c.dirty = client.dirty /\ c.fdirty = client.fdirty
      /\ c.update = client.update /\ c.origin = client.origin
      /\ c.asked = client.asked /\ c.wpending = client.wpending
  BY <1>3, Before DEF ClientOK
<1> QED BY <1>1, <1>4

LEMMA SetDisplayFrameInv ==
  ASSUME Inv, NEW held \in BOOLEAN, SetDisplayFrame(held)
  PROVE  Inv'
<1> DEFINE c == AllChanged(client, app)
           d == Invalidated(c, View(app.origin))
<1>1. AppOK(app') /\ app'.async = app.async /\ app'.origin = app.origin
  BY Before DEF SetDisplayFrame, AppOK
<1>2. client' \in Pending(d, app') /\ probe' = probe
  BY DEF SetDisplayFrame
<1>3. /\ ClientOK(c) /\ c.update = client.update /\ c.origin = client.origin
      /\ c.asked = client.asked /\ (c.stale <=> Shown(client))
      /\ (c.missed <=> Shown(client) /\ ~In(probe, View(app.origin)))
  BY AllChangedType
<1> HIDE DEF c
<1>4. /\ ClientOK(d) /\ d.update = c.update /\ d.origin = c.origin
      /\ d.asked = c.asked /\ d.stale = c.stale /\ d.missed = c.missed
      /\ \A p \in Coords : In(p, View(app.origin)) => In(p, d.dirty)
  BY <1>3, Before, InvalidatedType
<1> HIDE DEF d
<1>5. Shows(d) /\ CoveredFor(d, app') /\ KeptFor(d)
  BY <1>3, <1>4, Before DEF Shows, Shown, CoveredFor, KeptFor
<1> QED BY <1>1, <1>2, <1>4, <1>5, Before, PendingInv

LEMMA SetPaletteInv ==
  ASSUME Inv, SetPalette
  PROVE  Inv'
<1>1. app' = app /\ probe' = probe
  BY DEF SetPalette
<1>2. CASE client.converted
  <2> DEFINE c == AllChanged(client, app)
             d == [c EXCEPT !.dirty = View(app.origin)]
  <2>1. client' \in Pending(d, app)
    BY <1>2 DEF SetPalette
  <2>2. /\ ClientOK(c) /\ c.update = client.update /\ c.origin = client.origin
        /\ c.asked = client.asked /\ (c.stale <=> Shown(client))
        /\ (c.missed <=> Shown(client) /\ ~In(probe, View(app.origin)))
    BY AllChangedType
  <2> HIDE DEF c
  <2>3. /\ ClientOK(d) /\ d.update = c.update /\ d.origin = c.origin
        /\ d.asked = c.asked /\ d.stale = c.stale /\ d.missed = c.missed
        /\ d.dirty = View(app.origin)
    BY <2>2, Before DEF ClientOK
  <2> HIDE DEF d
  <2>4. Shows(d) /\ CoveredFor(d, app) /\ KeptFor(d)
    BY <2>2, <2>3, Before DEF Shows, Shown, CoveredFor, KeptFor
  <2> QED BY <1>1, <2>1, <2>3, <2>4, Before, PendingInv
<1>3. CASE ~client.converted
  <2> DEFINE d == [client EXCEPT !.palette = TRUE]
  <2>1. client' \in Pending(d, app)
    BY <1>3 DEF SetPalette
  <2>2. /\ ClientOK(d) /\ d.update = client.update /\ d.origin = client.origin
        /\ d.asked = client.asked /\ d.stale = client.stale
        /\ d.missed = client.missed /\ d.dirty = client.dirty
        /\ d.fdirty = client.fdirty /\ d.loose = client.loose
    BY Before DEF ClientOK
  <2> HIDE DEF d
  <2>3. Shows(d) /\ CoveredFor(d, app) /\ KeptFor(d)
    BY <2>2, Before DEF Shows, Shown, CoveredFor, KeptFor
  <2> QED BY <1>1, <2>1, <2>2, <2>3, Before, PendingInv
<1> QED BY <1>2, <1>3

LEMMA AcquireInv ==
  ASSUME Inv, Acquire
  PROVE  Inv'
<1>1. /\ AppOK(app') /\ app'.async = app.async /\ app'.origin = app.origin
      /\ probe' = probe
  BY Before DEF Acquire, AppOK
<1>2. CASE ~app.async /\ ~app.tidy
  <2> DEFINE d == Invalidated(client, View(app.origin))
  <2>1. client' \in Pending(d, app')
    BY <1>2 DEF Acquire
  <2>2. /\ ClientOK(d) /\ d.update = client.update /\ d.origin = client.origin
        /\ d.asked = client.asked /\ d.stale = client.stale
        /\ d.missed = client.missed /\ d.fdirty = client.fdirty
        /\ d.loose = client.loose
        /\ \A p \in Coords : In(p, client.dirty) => In(p, d.dirty)
    BY Before, InvalidatedType
  <2> HIDE DEF d
  <2>3. Shows(d) /\ CoveredFor(d, app') /\ KeptFor(d)
    BY <1>1, <2>2, Before DEF Shows, Shown, CoveredFor, KeptFor
  <2> QED BY <1>1, <2>1, <2>2, <2>3, Before, PendingInv
<1>3. CASE ~(~app.async /\ ~app.tidy)
  <2>1. client' = client
    BY <1>3 DEF Acquire
  <2> QED BY <1>1, <2>1, Before, SameView, NextInv DEF Good
<1> QED BY <1>2, <1>3

LEMMA DirectWriteInv ==
  ASSUME Inv, DirectWrite
  PROVE  Inv'
<1>1. PICK st \in BOOLEAN : st = Shown(client)
  BY DEF Shown, In
<1>2. client' = [client EXCEPT !.stale = st, !.loose = st, !.missed = client.missed]
  BY <1>1, Before DEF DirectWrite, ClientOK
<1>3. /\ ClientOK(client') /\ client'.dirty = client.dirty
      /\ client'.update = client.update /\ client'.origin = client.origin
      /\ client'.asked = client.asked /\ client'.wpending = client.wpending
      /\ client'.stale = st /\ client'.loose = st
  BY <1>2, Before DEF ClientOK
<1>4. app' = app /\ probe' = probe
  BY DEF DirectWrite
<1>5. Shows(client') /\ CoveredFor(client', app') /\ KeptFor(client')
      /\ NotHeld(client', app')
  BY <1>1, <1>3, <1>4, Before
     DEF Shows, Shown, CoveredFor, KeptFor, NotHeld, Wanted
<1> QED BY <1>3, <1>4, <1>5, Before, NextInv DEF Good, Sound

LEMMA ReleaseInv ==
  ASSUME Inv, Release
  PROVE  Inv'
<1>1. /\ AppOK(app') /\ app'.async = app.async /\ app'.origin = app.origin
      /\ probe' = probe
  BY Before DEF Release, AppOK
<1>2. CASE ~app.tidy
  <2>1. PICK lo \in BOOLEAN, mi \in BOOLEAN :
          /\ lo = FALSE
          /\ mi <=> client.missed \/ (client.loose /\ ~In(probe, View(app.origin)))
    OBVIOUS
  <2>2. mi = (client.missed \/ (client.loose /\ ~In(probe, View(app.origin))))
    BY <2>1, Before
  <2> DEFINE c == [client EXCEPT !.stale = client.stale, !.loose = lo, !.missed = mi]
             d == Invalidated(c, View(app.origin))
  <2>3. /\ ClientOK(c) /\ c.dirty = client.dirty /\ c.fdirty = client.fdirty
        /\ c.update = client.update /\ c.origin = client.origin
        /\ c.asked = client.asked /\ c.stale = client.stale /\ c.missed = mi
    BY <2>1, Before DEF ClientOK
  <2>4. c = [client EXCEPT !.loose = FALSE,
               !.missed = @ \/ (client.loose /\ ~In(probe, View(app.origin)))]
    BY <2>1, <2>2, Before DEF ClientOK
  <2> HIDE DEF c
  <2>5. client' \in Pending(d, app)
    BY <1>2, <2>4 DEF Release
  <2>6. /\ ClientOK(d) /\ d.update = c.update /\ d.origin = c.origin
        /\ d.asked = c.asked /\ d.stale = c.stale /\ d.missed = c.missed
        /\ d.fdirty = c.fdirty
        /\ \A p \in Coords : In(p, c.dirty) \/ In(p, View(app.origin)) => In(p, d.dirty)
    BY <2>3, Before, InvalidatedType
  <2> HIDE DEF d
  <2>7. Shows(d) /\ CoveredFor(d, app) /\ KeptFor(d)
    BY <2>1, <2>3, <2>6, Before DEF Shows, Shown, CoveredFor, KeptFor
  <2> QED BY <1>1, <2>5, <2>6, <2>7, Before, PendingInv
<1>3. CASE app.tidy
  <2>1. client' = client
    BY <1>3 DEF Release
  <2> QED BY <1>1, <2>1, Before, SameView, NextInv DEF Good
<1> QED BY <1>2, <1>3

LEMMA FlushInv ==
  ASSUME Inv, NEW box \in Boxes, Flush(box)
  PROVE  Inv'
<1>1. app' = app /\ probe' = probe
  BY DEF Flush
<1>2. Inside(box, Virtual) /\ box \in Rects
  BY InputAssumption DEF Inside, Within
<1>3. CASE app.tidy /\ app.held
  <2>1. PICK lo \in BOOLEAN : lo = (client.loose /\ ~In(probe, box))
    BY Before DEF In
  <2> DEFINE c == [client EXCEPT !.loose = lo]
             d == Invalidated(c, box)
  <2>2. c = [client EXCEPT !.loose = @ /\ ~In(probe, box)]
    BY <2>1, Before DEF ClientOK
  <2>3. /\ ClientOK(c) /\ c.dirty = client.dirty /\ c.fdirty = client.fdirty
        /\ c.update = client.update /\ c.origin = client.origin
        /\ c.asked = client.asked /\ c.stale = client.stale
        /\ c.missed = client.missed /\ c.loose = lo
    BY <2>1, Before DEF ClientOK
  <2> HIDE DEF c
  <2>4. client' \in Pending(d, app)
    BY <1>3, <2>2 DEF Flush
  <2>5. /\ ClientOK(d) /\ d.update = c.update /\ d.origin = c.origin
        /\ d.asked = c.asked /\ d.stale = c.stale /\ d.missed = c.missed
        /\ d.fdirty = c.fdirty /\ d.loose = c.loose
        /\ \A p \in Coords : In(p, c.dirty) \/ In(p, box) => In(p, d.dirty)
    BY <1>2, <2>3, InvalidatedType
  <2> HIDE DEF d
  <2>6. Shows(d) /\ CoveredFor(d, app) /\ KeptFor(d)
    BY <2>1, <2>3, <2>5, Before DEF Shows, Shown, CoveredFor, KeptFor
  <2> QED BY <1>1, <2>4, <2>5, <2>6, Before, PendingInv
<1>4. CASE ~(app.tidy /\ app.held)
  <2> DEFINE left == Subtract(client.fdirty, box)
             both == Intersect(box, client.fdirty)
             c == [client EXCEPT !.fdirty = left]
             d == Invalidated(c, both)
  <2>1. client' \in Pending(d, app)
    BY <1>4 DEF Flush
  <2>2. /\ left \in Rects /\ Inside(left, Virtual)
        /\ \A p \in Coords : In(p, client.fdirty) /\ ~In(p, box) => In(p, left)
    BY <1>2, Before, Areas, SubtractKeeps, SubtractInside DEF ClientOK
  <2>3. /\ both \in Rects /\ Inside(both, Virtual)
        /\ \A p \in Coords : In(p, client.fdirty) /\ In(p, box) => In(p, both)
    BY <1>2, Before, Areas, IntersectExact, IntersectInside
  <2> HIDE DEF left, both
  <2>4. /\ ClientOK(c) /\ c.dirty = client.dirty /\ c.fdirty = left
        /\ c.update = client.update /\ c.origin = client.origin
        /\ c.asked = client.asked /\ c.stale = client.stale
        /\ c.missed = client.missed /\ c.loose = client.loose
    BY <2>2, Before DEF ClientOK
  <2> HIDE DEF c
  <2>5. /\ ClientOK(d) /\ d.update = c.update /\ d.origin = c.origin
        /\ d.asked = c.asked /\ d.stale = c.stale /\ d.missed = c.missed
        /\ d.fdirty = c.fdirty /\ d.loose = c.loose
        /\ \A p \in Coords : In(p, c.dirty) \/ In(p, both) => In(p, d.dirty)
    BY <2>3, <2>4, InvalidatedType
  <2> HIDE DEF d
  <2>6. CoveredFor(d, app)
    BY <2>2, <2>3, <2>4, <2>5, Before DEF CoveredFor
  <2>7. Shows(d) /\ KeptFor(d)
    BY <2>4, <2>5, Before DEF Shows, Shown, KeptFor
  <2> QED BY <1>1, <2>1, <2>5, <2>6, <2>7, Before, PendingInv
<1> QED BY <1>3, <1>4

LEMMA SetFlagsInv ==
  ASSUME Inv, NEW async \in BOOLEAN, NEW tidy \in BOOLEAN, SetFlags(async, tidy)
  PROVE  Inv'
<1>1. /\ AppOK(app') /\ app'.async = async /\ app'.origin = app.origin
      /\ probe' = probe
  BY Before DEF SetFlags, AppOK
<1>2. CASE app.async /\ ~async
  <2> DEFINE d == Invalidated(client, client.fdirty)
  <2>1. client' \in Pending(d, app')
    BY <1>2 DEF SetFlags
  <2>2. /\ ClientOK(d) /\ d.update = client.update /\ d.origin = client.origin
        /\ d.asked = client.asked /\ d.stale = client.stale
        /\ d.missed = client.missed /\ d.loose = client.loose
        /\ \A p \in Coords :
             In(p, client.dirty) \/ In(p, client.fdirty) => In(p, d.dirty)
    BY Before, InvalidatedType DEF ClientOK
  <2> HIDE DEF d
  <2>3. Shows(d) /\ CoveredFor(d, app') /\ KeptFor(d)
    BY <2>2, Before DEF Shows, Shown, CoveredFor, KeptFor
  <2> QED BY <1>1, <2>1, <2>2, <2>3, Before, PendingInv
<1>3. CASE ~(app.async /\ ~async)
  <2>1. client' = client
    BY <1>3 DEF SetFlags
  <2>2. CoveredFor(client, app') /\ NotHeld(client, app')
    BY <1>1, <1>3, Before DEF CoveredFor, NotHeld, Wanted
  <2> QED BY <1>1, <2>1, <2>2, Before, NextInv DEF Good, Sound
<1> QED BY <1>2, <1>3

LEMMA UpdateRequestInv ==
  ASSUME Inv, NEW area \in Requests, NEW incremental \in BOOLEAN,
         UpdateRequest(area, incremental)
  PROVE  Inv'
<1> DEFINE request == OnScreen(area)
           lost == ~incremental /\ request = Visible /\ Shown(client)
           c == [client EXCEPT !.asked = TRUE, !.stale = @ \/ lost]
<1>1. /\ app' = app /\ probe' = probe /\ ~IsEmpty(request)
      /\ IF client.wpending
         THEN client' = Remember(c, request, incremental, lost /\ ~client.stale)
         ELSE client' \in Answer(c, app, request, incremental)
  BY DEF UpdateRequest
<1>2. /\ Inside(Visible, Visible)
      /\ \A r : Inside(r, Visible) => Inside(r, Virtual)
  BY SizeAssumption
     DEF Inside, Within, Visible, Virtual, Rect, Rects, IsEmpty, Empty
<1>3. Inside(request, Visible) /\ Inside(request, Virtual) /\ request \in Rects
  <2>1. area \in Rects
    BY InputAssumption
  <2> QED BY <1>2, <2>1, Areas, IntersectInside, InsideType DEF OnScreen, Corner
<1>4. PICK new \in BOOLEAN :
        /\ new <=> lost
        /\ new => ~incremental /\ request = Visible /\ Shown(client)
  OBVIOUS
<1>5. PICK st \in BOOLEAN : st <=> client.stale \/ new
  OBVIOUS
<1>6. c = [client EXCEPT !.asked = TRUE, !.stale = st]
  BY <1>4, <1>5, Before DEF ClientOK
<1>7. /\ ClientOK(c) /\ c.dirty = client.dirty /\ c.fdirty = client.fdirty
      /\ c.update = client.update /\ c.origin = client.origin /\ c.asked
      /\ c.stale = st /\ c.loose = client.loose /\ c.missed = client.missed
      /\ c.wpending = client.wpending
  BY <1>6, Before DEF ClientOK
<1>8. CASE client.wpending
  <2> DEFINE dirty == IF incremental THEN c.dirty ELSE Union(c.dirty, request)
             update == Union(c.update, request)
  <2>1. PICK mi \in BOOLEAN :
          mi <=> c.missed \/ (new /\ ~client.stale /\ ~In(probe, dirty))
    OBVIOUS
  <2>2. mi = (c.missed \/ ((lost /\ ~client.stale) /\ ~In(probe, dirty)))
    BY <1>4, <1>7, <2>1 DEF ClientOK
  <2> HIDE DEF lost
  <2>3. client' = [c EXCEPT !.dirty = dirty, !.update = update, !.missed = mi]
    BY <1>1, <1>8, <2>2 DEF Remember
  <2>4. /\ dirty \in Rects /\ Inside(dirty, Virtual)
        /\ \A p \in Coords : In(p, c.dirty) => In(p, dirty)
    BY <1>3, <1>7, Areas, UnionHasBoth, UnionInside DEF ClientOK
  <2>5. update \in Rects /\ Inside(update, Visible) /\ ~IsEmpty(update)
    BY <1>1, <1>3, <1>7, Areas, UnionAsks, InsideType DEF ClientOK, Corner
  <2> HIDE DEF request, c, dirty, update
  <2>6. /\ ClientOK(client') /\ client'.dirty = dirty /\ client'.update = update
        /\ client'.fdirty = c.fdirty /\ client'.asked = c.asked
        /\ client'.origin = c.origin /\ client'.stale = c.stale
        /\ client'.loose = c.loose /\ client'.missed = mi
        /\ client'.wpending = c.wpending
    BY <1>7, <2>3, <2>4, <2>5 DEF ClientOK
  <2>7. Shows(client')
    BY <1>4, <1>5, <1>7, <2>6, Before DEF Shows, Shown
  <2>8. CoveredFor(client', app')
    BY <1>1, <1>4, <1>5, <1>7, <2>1, <2>4, <2>6, Before DEF CoveredFor
  <2>9. KeptFor(client') /\ NotHeld(client', app')
    BY <1>7, <1>8, <2>5, <2>6 DEF KeptFor, NotHeld
  <2> QED BY <1>1, <2>6, <2>7, <2>8, <2>9, Before, NextInv DEF Good, Sound
<1>9. CASE ~client.wpending
  <2>1. client' \in Answer(c, app, request, incremental)
    BY <1>1, <1>9
  <2>2. Sound(c, app) \/ (~incremental /\ request = Visible)
    <3> HIDE DEF c
    <3> QED BY <1>4, <1>5, <1>7, Before DEF Sound, Shows, Shown, CoveredFor
  <2> HIDE DEF c, request
  <2>3. Good(client', app)
    BY <1>1, <1>3, <1>7, <2>1, <2>2, Before, AnswerSound DEF Good
  <2> QED BY <1>1, <2>3, Before, NextInv
<1> QED BY <1>8, <1>9

LEMMA WriteReadyInv ==
  ASSUME Inv, WriteReady
  PROVE  Inv'
<1> DEFINE c == [client EXCEPT !.wpending = FALSE]
<1>1. app' = app /\ probe' = probe /\ client' \in Pending(c, app)
  BY DEF WriteReady
<1>2. /\ ClientOK(c) /\ c.dirty = client.dirty /\ c.fdirty = client.fdirty
      /\ c.update = client.update /\ c.origin = client.origin
      /\ c.asked = client.asked /\ c.stale = client.stale
      /\ c.missed = client.missed /\ c.loose = client.loose
  BY Before DEF ClientOK
<1> HIDE DEF c
<1>3. Shows(c) /\ CoveredFor(c, app) /\ KeptFor(c)
  BY <1>2, Before DEF Shows, Shown, CoveredFor, KeptFor
<1> QED BY <1>1, <1>2, <1>3, Before, PendingInv

LEMMA SetTermsInv ==
  ASSUME Inv, NEW b \in BOOLEAN, SetEncodings(b) \/ SetPixelFormat(b)
  PROVE  Inv'
<1>1. app' = app /\ probe' = probe
  BY DEF SetEncodings, SetPixelFormat
<1>2. /\ ClientOK(client')
      /\ client'.dirty = client.dirty /\ client'.fdirty = client.fdirty
      /\ client'.update = client.update /\ client'.origin = client.origin
      /\ client'.asked = client.asked /\ client'.stale = client.stale
      /\ client'.missed = client.missed /\ client'.loose = client.loose
      /\ client'.wpending = client.wpending
  <2>1. CASE SetEncodings(b)
    BY <2>1, Before DEF SetEncodings, ClientOK
  <2>2. CASE SetPixelFormat(b)
    <3>1. PICK nb \in BOOLEAN : nb = ~b
      OBVIOUS
    <3>2. client' = [client EXCEPT !.converted = b, !.palette = nb]
      BY <2>2, <3>1 DEF SetPixelFormat
    <3> QED BY <3>2, Before DEF ClientOK
  <2> QED BY <2>1, <2>2
<1>3. /\ Shows(client') /\ CoveredFor(client', app') /\ KeptFor(client')
      /\ NotHeld(client', app')
  BY <1>1, <1>2, Before DEF Shows, Shown, CoveredFor, KeptFor, NotHeld, Wanted
<1> QED BY <1>1, <1>2, <1>3, Before, NextInv DEF Good, Sound

\* The invariant holds in every reachable state.
LEMMA Invariant == Spec => []Inv
<1>1. Inv /\ [Next]_vars => Inv'
  <2> SUFFICES ASSUME Inv, [Next]_vars PROVE Inv'
    OBVIOUS
  <2>1. CASE UNCHANGED vars
    <3>1. probe' = probe /\ app' = app /\ client' = client
      BY <2>1 DEF vars
    <3> QED BY <3>1, Before, NextInv
  <2>2. ASSUME NEW box \in Boxes, Draw(box) \/ Flush(box) PROVE Inv'
    BY <2>2, DrawInv, FlushInv
  <2>3. ASSUME NEW held \in BOOLEAN, SetDisplayFrame(held) PROVE Inv'
    BY <2>3, SetDisplayFrameInv
  <2>4. CASE Acquire \/ Release \/ SetPalette \/ DirectWrite
    BY <2>4, AcquireInv, ReleaseInv, SetPaletteInv, DirectWriteInv
  <2>5. ASSUME NEW o \in Origins, SetOrigin(o) PROVE Inv'
    BY <2>5, SetOriginInv
  <2>6. ASSUME NEW m \in Modes, SetFlags(m[1], m[2]) PROVE Inv'
    <3>1. m[1] \in BOOLEAN /\ m[2] \in BOOLEAN
      BY InputAssumption
    <3> QED BY <2>6, <3>1, SetFlagsInv
  <2>7. ASSUME NEW r \in Requests, NEW incremental \in BOOLEAN,
               UpdateRequest(r, incremental)
        PROVE  Inv'
    BY <2>7, UpdateRequestInv
  <2>8. ASSUME NEW b \in BOOLEAN, SetEncodings(b) \/ SetPixelFormat(b) PROVE Inv'
    BY <2>8, SetTermsInv
  <2>9. CASE WriteReady
    BY <2>9, WriteReadyInv
  <2>10. CASE Application
    BY <2>10, <2>2, <2>3, <2>4, <2>5, <2>6 DEF Application
  <2>11. CASE Viewer
    BY <2>11, <2>7, <2>8, <2>9 DEF Viewer
  <2> QED BY <2>1, <2>10, <2>11 DEF Next
<1> QED BY <1>1, InvInit, PTL DEF Spec

(***************************************************************************)
(* What follows.                                                           *)
(***************************************************************************)

\* What the server plans to send lies on the frame, and what it thinks the
\* viewer waits for on the screen: no update reads pixels past the frame
\* (do_client_update, vnc_client_update).
THEOREM TypeCorrect == Spec => []TypeOK
<1>1. Inv => TypeOK
  BY Before DEF Inv, TypeOK
<1> QED BY <1>1, Invariant, PTL

\* A pixel that the viewer shows wrongly is never forgotten, but in the ways
\* VncUpdate names with loose and missed: the smallest rectangle around two,
\* the cut of one by another, the stripes of a panned screen and what the
\* viewer copies leave out none.
THEOREM CoveredAlways == Spec => []Covered
<1>1. Inv => Covered
  BY Before DEF Covered, CoveredFor
<1> QED BY <1>1, Invariant, PTL

\* Requests are kept until they are answered, also those that come while a
\* message is being written, and nothing is sent without one.
THEOREM RequestKeptAlways == Spec => []RequestKept
<1>1. Inv => RequestKept
  BY Before DEF RequestKept, KeptFor
<1> QED BY <1>1, Invariant, PTL

\* Every handler that changes what there is to send, or frees the socket, also
\* sends it to a viewer that waits.
THEOREM NothingHeldBackAlways == Spec => []NothingHeldBack
<1>1. Inv => NothingHeldBack
  BY Before DEF NothingHeldBack, NotHeld
<1> QED BY <1>1, Invariant, PTL
=============================================================================
