------------------------------ MODULE VncRect -------------------------------
(***************************************************************************)
(* The rectangles of the VNC target (display/vnc/rect.h): the top left     *)
(* corner belongs to a rectangle, the bottom right corner does not.  The   *)
(* code asks isempty before it looks at the corners, so all rectangles     *)
(* without a pixel are one value here, Empty.                              *)
(***************************************************************************)
EXTENDS Integers

Rect(x1, y1, x2, y2) == [x1 |-> x1, y1 |-> y1, x2 |-> x2, y2 |-> y2]

Rects == [x1 : Int, y1 : Int, x2 : Int, y2 : Int]

Coords == [x : Int, y : Int]

Coord(x, y) == [x |-> x, y |-> y]

IsEmpty(r) == r.x2 <= r.x1 \/ r.y2 <= r.y1

Empty == Rect(0, 0, 0, 0)

Normal(r) == IF IsEmpty(r) THEN Empty ELSE r

\* The pixel p is one of the rectangle's.
In(p, r) == r.x1 <= p.x /\ p.x < r.x2 /\ r.y1 <= p.y /\ p.y < r.y2

Lesser(a, b) == IF a <= b THEN a ELSE b
Greater(a, b) == IF a <= b THEN b ELSE a

\* The smallest rectangle around both.
Union(r, s) ==
  IF IsEmpty(s) THEN r
  ELSE IF IsEmpty(r) THEN s
  ELSE Rect(Lesser(r.x1, s.x1), Lesser(r.y1, s.y1),
            Greater(r.x2, s.x2), Greater(r.y2, s.y2))

Overlap(r, s) ==
  Rect(Greater(r.x1, s.x1), Greater(r.y1, s.y1),
       Lesser(r.x2, s.x2), Lesser(r.y2, s.y2))

Intersect(r, s) ==
  IF IsEmpty(r) \/ IsEmpty(s) THEN Empty ELSE Normal(Overlap(r, s))

\* Mutant: an edge fits although a corner of it does not.
SubtractAnyEdge(r, s) ==
  LET i == Intersect(r, s) IN
  IF IsEmpty(i) THEN r
  ELSE IF r.x1 = i.x1 /\ r.y1 = i.y1 THEN Normal(Rect(r.x1, i.y2, r.x2, r.y2))
  ELSE r

\* What is left of r without its part i, if that is a rectangle; otherwise r
\* stays as it is.
Without(r, i) ==
  IF IsEmpty(i) THEN r
  ELSE IF r.x1 = i.x1 /\ r.x2 = i.x2 /\ r.y1 = i.y1
       THEN Normal(Rect(r.x1, i.y2, r.x2, r.y2))
  ELSE IF r.y1 = i.y1 /\ r.y2 = i.y2 /\ r.x1 = i.x1
       THEN Normal(Rect(i.x2, r.y1, r.x2, r.y2))
  ELSE IF r.x1 = i.x1 /\ r.x2 = i.x2 /\ r.y2 = i.y2
       THEN Normal(Rect(r.x1, r.y1, r.x2, i.y1))
  ELSE IF r.y1 = i.y1 /\ r.y2 = i.y2 /\ r.x2 = i.x2
       THEN Normal(Rect(r.x1, r.y1, i.x1, r.y2))
  ELSE r

Subtract(r, s) == Without(r, Intersect(r, s))

\* Shifted from the screen to the frame whose pixel o is in its top left
\* corner, and back.
ToFrame(r, o) ==
  IF IsEmpty(r) THEN Empty
  ELSE Rect(r.x1 + o.x, r.y1 + o.y, r.x2 + o.x, r.y2 + o.y)

ToScreen(r, o) ==
  IF IsEmpty(r) THEN Empty
  ELSE Rect(r.x1 - o.x, r.y1 - o.y, r.x2 - o.x, r.y2 - o.y)
=============================================================================
