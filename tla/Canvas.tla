------------------------------- MODULE Canvas -------------------------------
(***************************************************************************)
(* What LibGGI promises of the calls that draw, put, get and copy pixels   *)
(* (doc/libggi-functions.txt), whatever the layout of the frame buffer:    *)
(* each frame is an array of pixels, a call changes those of its box that  *)
(* are inside the clipping rectangle, and a buffer of the application is a *)
(* row of pixels.                                                          *)
(***************************************************************************)
EXTENDS Integers

CONSTANTS
  VirtX, VirtY,  \* size of the virtual area
  Foreground     \* the colour that is drawn with

VARIABLES
  picture,  \* frame -> pixel -> colour
  line,     \* the application's buffer: index -> colour
  call      \* the call made last:
            \*   op       "draw", "put", "get", "copy", or "none" at the start
            \*   clip     the clipping rectangle
            \*   rd, wr   the read and the write frame
            \*   box, to  the box; where it is copied to
            \*   pitch    the pixels of the buffer per row of the box

Pixels == (0..VirtX - 1) \X (0..VirtY - 1)

InBox(p, b) ==
  b.x <= p[1] /\ p[1] < b.x + b.w /\ b.y <= p[2] /\ p[2] < b.y + b.h

InClip(p, k) == k.left <= p[1] /\ p[1] < k.right /\ k.top <= p[2] /\ p[2] < k.bottom

\* Where the pixel p of the box is in the buffer.
Index(p, c) == (p[2] - c.box.y) * c.pitch + (p[1] - c.box.x)

\* The write frame after the call, if the colour of its pixel p becomes New(p)
\* where On(p).
Painted(c, On(_), New(_)) ==
  [picture EXCEPT ![c.wr] =
     [p \in Pixels |-> IF On(p) /\ InClip(p, c.clip) THEN New(p) ELSE @[p]]]

Draw(c) ==
  /\ c.op = "draw"
  /\ picture' = Painted(c, LAMBDA p : InBox(p, c.box), LAMBDA p : Foreground)
  /\ UNCHANGED line

Put(c) ==
  /\ c.op = "put"
  /\ picture' = Painted(c, LAMBDA p : InBox(p, c.box), LAMBDA p : line[Index(p, c)])
  /\ UNCHANGED line

\* Places of the buffer that stand for no pixel of the frame are not touched.
Get(c) ==
  LET seen == {p \in Pixels : InBox(p, c.box)} IN
  /\ c.op = "get"
  /\ line' = [i \in DOMAIN line |->
                IF \E p \in seen : Index(p, c) = i
                THEN picture[c.rd][CHOOSE p \in seen : Index(p, c) = i]
                ELSE line[i]]
  /\ UNCHANGED picture

\* All pixels are copied at once, so an overlap does no harm; they come from
\* the read frame.
Copy(c) ==
  LET source(p) == <<p[1] - c.to.x + c.box.x, p[2] - c.to.y + c.box.y>>
      on(p) == InBox(source(p), c.box) /\ source(p) \in Pixels
  IN /\ c.op = "copy"
     /\ picture' = Painted(c, on, LAMBDA p : picture[c.rd][source(p)])
     /\ UNCHANGED line

Init == call.op = "none"

Next == Draw(call') \/ Put(call') \/ Get(call') \/ Copy(call')

Spec == Init /\ [][Next]_<<picture, line, call>>
=============================================================================
