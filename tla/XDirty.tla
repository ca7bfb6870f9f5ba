-------------------------------- MODULE XDirty --------------------------------
(***************************************************************************)
(* The frame buffer the X target keeps on the client, in a slave memory    *)
(* visual (display/X/buffer.c and the drawing files).  With an Xlib        *)
(* drawable (the default) most primitives draw into the buffer and into    *)
(* the window and mark the box clean (GGI_X_CLEAN), the ggiPut family only *)
(* changes the buffer and marks it dirty (GGI_X_DIRTY); with -noaccel and  *)
(* the pixmap of the DGA helper every primitive does the latter.  A flush  *)
(* sends the intersection of the request and of the dirty rectangle to the *)
(* server, as far as the XImage reaches; an application that holds a       *)
(* DirectBuffer for writing bypasses the rectangle.                        *)
(*                                                                         *)
(* What a pixel holds is abstracted away: "stale" is the set of pixels     *)
(* whose value in the buffer is not the one the server shows.              *)
(***************************************************************************)
EXTENDS Integers

CONSTANTS
  VirtX, VirtY,   \* LIBGGI_VIRTX, LIBGGI_VIRTY: size of a frame
  Frames,         \* LIBGGI_MODE(vis)->frames
  Accels,         \* targets: with a drawable (TRUE), without (FALSE)
  Shm,            \* is the buffer of the SHM helper?
  Tidy,           \* has the application raised GGIFLAG_TIDYBUF?
  Calls,          \* which of ggiDrawLine, ggiCopyBox, ggiPutc it calls,
                  \* with a drawable and without
  Coords, Lens,   \* coordinates and lengths the application passes
  ClipBoxes       \* clipping rectangles the application asks for

ASSUME SizeAssumption ==
  /\ VirtX \in Nat \ {0}
  /\ VirtY \in Nat \ {0}
  /\ Frames \in Nat \ {0}
ASSUME FlagAssumption ==
  /\ Accels # {} /\ Accels \subseteq BOOLEAN
  /\ Shm \in BOOLEAN /\ Tidy \in BOOLEAN
  /\ Calls \in [BOOLEAN -> SUBSET {"line", "copy", "text"}]
\* With -noaccel only the DGA helper provides something to put an image into
\* (its pixmap; otherwise priv->drawable stays None and the X server ends the
\* program at the first request); it knows one frame and precludes SHM.
ASSUME TargetAssumption == FALSE \in Accels => Frames = 1 /\ ~Shm
ASSUME InputAssumption == Coords \subseteq Int /\ Lens \subseteq Nat
ASSUME ClipAssumption ==
  ClipBoxes \subseteq [left : Int, top : Int, right : Int, bottom : Int]

Frame == 0 .. Frames - 1
Pixels == Frame \X (0 .. VirtX - 1) \X (0 .. VirtY - 1)

\* ImagePixels of an SHM image as high as that of _ggi_x_createfb
ImagePixelsOfOneFrame == {p \in Pixels : p[1] = 0}

\* The pixels that XPutImage can send: the SHM helper's XImage spans all the
\* frames, that of _ggi_x_createfb is VIRTY rows high.  A put from beyond the
\* last row of its image sends nothing.
ImagePixels == {p \in Pixels : Shm \/ p[1] = 0}

VARIABLES
  accel,    \* priv->createdrawable # NULL: GGIopen was not told -noaccel
  region,   \* priv->dirtytl, priv->dirtybr
  stale,    \* pixels of the buffer not yet put to the server
  unfilled, \* history: those a ggiFillscreen left stale (see Fillscreen)
  wframe,   \* vis->w_frame_num
  rframe,   \* vis->r_frame_num
  dframe,   \* vis->d_frame_num
  held,     \* frames whose resource has GGI_ACTYPE_WRITE in curactype
  clip      \* LIBGGI_GC(vis)->cliptl, clipbr

vars == <<accel, region, stale, unfilled, wframe, rframe, dframe, held, clip>>

-----------------------------------------------------------------------------
(* Rectangles *)

Least(a, b) == IF a < b THEN a ELSE b
Most(a, b) == IF a > b THEN a ELSE b

\* the pixels of frame f inside the w x h box at (x, y)
BoxPixels(f, x, y, w, h) ==
  {p \in Pixels : /\ p[1] = f
                  /\ x <= p[2] /\ p[2] < x + w
                  /\ y <= p[3] /\ p[3] < y + h}

\* the same box in window coordinates, where frame f starts at row f * VirtY
WindowPixels(x, y, w, h) ==
  {p \in Pixels : /\ x <= p[2] /\ p[2] < x + w
                  /\ y <= p[3] + VirtY * p[1] /\ p[3] + VirtY * p[1] < y + h}

InRegion(r, p) ==
  r.tlx <= p[2] /\ p[2] <= r.brx /\ r.tly <= p[3] /\ p[3] <= r.bry

Rect(tlx, tly, brx, bry) == [tlx |-> tlx, tly |-> tly, brx |-> brx, bry |-> bry]
IsEmpty(r) == r.tlx > r.brx
Emptied(r) == Rect(1, r.tly, 0, r.bry)

\* GGI_X_DIRTY with the corner one past the drawn box
DirtyPastEnd(r, x, y, w, h) ==
  IF IsEmpty(r)
  THEN Rect(x, y, x + w, y + h)
  ELSE Rect(Least(r.tlx, x), Least(r.tly, y),
            Most(r.brx, x + w), Most(r.bry, y + h))

\* GGI_X_DIRTY: the bounding box of the region and of the drawn box
Dirty(r, x, y, w, h) ==
  IF IsEmpty(r)
  THEN Rect(x, y, x + w - 1, y + h - 1)
  ELSE Rect(Least(r.tlx, x), Least(r.tly, y),
            Most(r.brx, x + w - 1), Most(r.bry, y + h - 1))

\* cut a box that spans the region's full width off its upper or lower part
CutRows(r, y, y2) ==
  IF r.bry < y \/ r.tly > y2 \/ (r.bry > y2 /\ r.tly < y) THEN r
  ELSE IF r.tly < y THEN Rect(r.tlx, r.tly, r.brx, y - 1)
  ELSE IF r.bry > y2 THEN Rect(r.tlx, y2 + 1, r.brx, r.bry)
  ELSE r

\* CutColumns without the test for a box strictly inside the region
CutColumnsInside(r, x, x2) ==
  IF r.brx < x \/ r.tlx > x2 THEN r
  ELSE IF r.tlx < x THEN Rect(r.tlx, r.tly, x - 1, r.bry)
  ELSE IF r.brx > x2 THEN Rect(x2 + 1, r.tly, r.brx, r.bry)
  ELSE r

CutColumns(r, x, x2) ==
  IF r.brx < x \/ r.tlx > x2 \/ (r.brx > x2 /\ r.tlx < x) THEN r
  ELSE IF r.tlx < x THEN Rect(r.tlx, r.tly, x - 1, r.bry)
  ELSE IF r.brx > x2 THEN Rect(x2 + 1, r.tly, r.brx, r.bry)
  ELSE r

\* GGI_X_CLEAN: the smallest rectangle left once the box is up to date
Clean(r, x, y, w, h) ==
  LET x2 == x + w - 1
      y2 == y + h - 1
      allColumns == r.tlx >= x /\ r.brx <= x2
      allRows == r.tly >= y /\ r.bry <= y2
  IN CASE allColumns /\ allRows -> Emptied(r)
       [] allColumns /\ ~allRows -> CutRows(r, y, y2)
       [] ~allColumns /\ allRows -> CutColumns(r, x, x2)
       [] OTHER -> r

-----------------------------------------------------------------------------
(* GGI_X_flush_ximage_child with tryflag 1 or 2 *)

\* the whole request is sent: an expose, or the write frame is being written
SendsAll(fullflush) == fullflush \/ wframe \in held

\* Overlap one column short
OverlapShort(x, y, w, h) ==
  LET ox == Most(x, region.tlx)
      oy == Most(y, region.tly)
  IN [x |-> ox, y |-> oy,
      w |-> Least(x + w - 1, region.brx) - ox,
      h |-> Least(y + h - 1, region.bry) - oy + 1]

\* the intersection of a request with the dirty region, as corner and size
Overlap(x, y, w, h) ==
  LET ox == Most(x, region.tlx)
      oy == Most(y, region.tly)
  IN [x |-> ox, y |-> oy,
      w |-> Least(x + w - 1, region.brx) - ox + 1,
      h |-> Least(y + h - 1, region.bry) - oy + 1]

OverlapIsEmpty(o) == IsEmpty(region) \/ o.w <= 0 \/ o.h <= 0

RegionAfterFlush(x, y, w, h, tryflag, fullflush) ==
  LET o == Overlap(x, y, w, h)
  IN IF SendsAll(fullflush)
     THEN IF tryflag # 2 THEN Clean(region, x, y, w, h) ELSE region
     ELSE IF OverlapIsEmpty(o) THEN region
     ELSE Clean(region, o.x, o.y, o.w, o.h)

\* with tryflag 2 a full flush takes its rows as window rows
StaleAfterFlush(x, y, w, h, tryflag, fullflush) ==
  LET o == Overlap(x, y, w, h)
      sent == CASE SendsAll(fullflush) /\ tryflag # 2 -> BoxPixels(wframe, x, y, w, h)
                [] SendsAll(fullflush) /\ tryflag = 2 -> WindowPixels(x, y, w, h)
                [] OTHER -> IF OverlapIsEmpty(o) THEN {}
                            ELSE BoxPixels(wframe, o.x, o.y, o.w, o.h)
  IN stale \ (sent \cap ImagePixels)

\* what every flush does
Flushed(x, y, w, h, tryflag, fullflush) ==
  /\ region' = RegionAfterFlush(x, y, w, h, tryflag, fullflush)
  /\ stale' = StaleAfterFlush(x, y, w, h, tryflag, fullflush)
  /\ unfilled' = unfilled \cap stale'

-----------------------------------------------------------------------------
(* The state ggiSetMode leaves: it has filled every frame in turn, which with
   a drawable has reached the window for frame 0 only (see Fillscreen), and
   flushed frame 0 *)

Init ==
  /\ accel \in Accels
  /\ region = Rect(1, 0, 0, VirtY - 1)
  /\ stale = {p \in Pixels : p[1] # 0}
  /\ unfilled = stale
  /\ wframe = 0
  /\ rframe = 0
  /\ dframe = 0
  /\ held = {}
  /\ clip = [left |-> 0, top |-> 0, right |-> VirtX, bottom |-> VirtY]

\* ggiSetGCClipping without its range check
SetGCClippingUnchecked(c) ==
  /\ clip' = c
  /\ UNCHANGED <<accel, region, stale, unfilled, wframe, rframe, dframe, held>>

\* ggiSetGCClipping; any other rectangle is refused with GGI_ENOSPACE
SetGCClipping(c) ==
  /\ 0 <= c.left /\ c.left <= c.right /\ c.right <= VirtX
  /\ 0 <= c.top /\ c.top <= c.bottom /\ c.bottom <= VirtY
  /\ clip' = c
  /\ UNCHANGED <<accel, region, stale, unfilled, wframe, rframe, dframe, held>>

\* a box clipped by LIBGGICLIP_XYWH, as corner and size
Clipped(x, y, w, h) ==
  LET cx == Most(x, clip.left)
      cy == Most(y, clip.top)
  IN [x |-> cx, y |-> cy,
      w |-> Least(x + w, clip.right) - cx, h |-> Least(y + h, clip.bottom) - cy]

\* the buffer alone is changed
MarkDirty(c) ==
  /\ stale' = stale \cup BoxPixels(wframe, c.x, c.y, c.w, c.h)
  /\ unfilled' = unfilled \ BoxPixels(wframe, c.x, c.y, c.w, c.h)
  /\ region' = Dirty(region, c.x, c.y, c.w, c.h)

\* MarkClean of a draw that only reaches the buffer
MarkCleanUndrawn(c) ==
  /\ stale' = stale \cup BoxPixels(wframe, c.x, c.y, c.w, c.h)
  /\ unfilled' = unfilled \ BoxPixels(wframe, c.x, c.y, c.w, c.h)
  /\ region' = Clean(region, c.x, c.y, c.w, c.h)

\* the buffer and the window are changed alike
MarkClean(c) ==
  /\ stale' = stale \ BoxPixels(wframe, c.x, c.y, c.w, c.h)
  /\ unfilled' = unfilled \ BoxPixels(wframe, c.x, c.y, c.w, c.h)
  /\ region' = Clean(region, c.x, c.y, c.w, c.h)

\* ggiPutBox, ggiPutPixel, ggiPutHLine, ggiPutVLine
PutBox(x, y, w, h) ==
  LET c == Clipped(x, y, w, h)
  IN /\ c.w > 0 /\ c.h > 0
     /\ MarkDirty(c)
     /\ UNCHANGED <<accel, wframe, rframe, dframe, held, clip>>

\* ggiDrawBox, ggiDrawPixel, ggiDrawHLine, ggiDrawVLine
DrawBox(x, y, w, h) ==
  LET c == Clipped(x, y, w, h)
  IN /\ c.w > 0 /\ c.h > 0
     /\ IF accel THEN MarkClean(c) ELSE MarkDirty(c)
     /\ UNCHANGED <<accel, wframe, rframe, dframe, held, clip>>

\* ggiPutc; with a drawable the box is marked clean before it is clipped
PutText(x, y, w, h) ==
  LET c == Clipped(x, y, w, h)
  IN /\ "text" \in Calls[accel]
     /\ c.w > 0 /\ c.h > 0
     /\ IF accel
        THEN /\ stale' = stale \ BoxPixels(wframe, c.x, c.y, c.w, c.h)
             /\ unfilled' = unfilled \ BoxPixels(wframe, c.x, c.y, c.w, c.h)
             /\ region' = Clean(region, x, y, w, h)
        ELSE MarkDirty(c)
     /\ UNCHANGED <<accel, wframe, rframe, dframe, held, clip>>

\* ggiFillscreen: the clipping rectangle.  With a drawable and no clipping,
\* XFillRectangle fills the window's first frame, whatever the write frame.
Fillscreen ==
  LET c == Clipped(0, 0, VirtX, VirtY)
      noClip == c = [x |-> 0, y |-> 0, w |-> VirtX, h |-> VirtY]
  IN /\ IF ~accel THEN MarkDirty(c)
        ELSE IF ~noClip \/ wframe = 0 THEN MarkClean(c)
        ELSE /\ stale' = stale \cup {p \in Pixels : p[1] \in {0, wframe}}
             /\ unfilled' = unfilled \cup {p \in Pixels : p[1] \in {0, wframe}}
             /\ region' = Clean(region, c.x, c.y, c.w, c.h)
     /\ UNCHANGED <<accel, wframe, rframe, dframe, held, clip>>

\* ggiDrawLine with both ends inside the clipping rectangle; of the pixels
\* of a line the model follows its two ends
DrawLine(x1, y1, x2, y2) ==
  LET ends == BoxPixels(wframe, x1, y1, 1, 1) \cup BoxPixels(wframe, x2, y2, 1, 1)
  IN /\ "line" \in Calls[accel]
     /\ \A x \in {x1, x2} : clip.left <= x /\ x < clip.right
     /\ \A y \in {y1, y2} : clip.top <= y /\ y < clip.bottom
     /\ unfilled' = unfilled \ ends
     /\ IF accel
        THEN stale' = stale \ ends /\ region' = region
        ELSE /\ stale' = stale \cup ends
             /\ region' = Dirty(region, x1, y1, x2 - x1, y2 - y1)
     /\ UNCHANGED <<accel, wframe, rframe, dframe, held, clip>>

\* ggiCopyBox, clipped by LIBGGICLIP_COPYBOX at its source and destination.
\* With a drawable the server copies what it shows of the source.
CopyBox(x, y, w, h, nx, ny) ==
  LET dx == Most(0, Most(clip.left - nx, 0 - x))
      dy == Most(0, Most(clip.top - ny, 0 - y))
      c == [x |-> nx + dx, y |-> ny + dy,
            w |-> Least(w - dx, Least(clip.right - nx - dx, VirtX - x - dx)),
            h |-> Least(h - dy, Least(clip.bottom - ny - dy, VirtY - y - dy))]
      dest == BoxPixels(wframe, c.x, c.y, c.w, c.h)
  IN /\ "copy" \in Calls[accel]
     /\ c.w > 0 /\ c.h > 0
     /\ IF accel
        THEN /\ stale' = (stale \ dest) \cup
                  {p \in dest : <<rframe, p[2] - nx + x, p[3] - ny + y>> \in stale}
             /\ unfilled' = unfilled \ dest
             /\ region' = Clean(region, c.x, c.y, c.w, c.h)
        ELSE MarkDirty(c)
     /\ UNCHANGED <<accel, wframe, rframe, dframe, held, clip>>

\* ggiFlushRegion: the sanity check of the core, which clamps the box to the
\* screen, then the target's flush
Clamp(x, y, w, h) ==
  LET fx == Most(x, 0)
      fy == Most(y, 0)
  IN [x |-> fx, y |-> fy,
      w |-> Least(fx + w, VirtX) - fx, h |-> Least(fy + h, VirtY) - fy]

StaleAfterRequest(x, y, w, h) ==
  LET c == Clamp(x, y, w, h) IN StaleAfterFlush(c.x, c.y, c.w, c.h, 1, FALSE)

FlushRegion(x, y, w, h) ==
  LET c == Clamp(x, y, w, h)
  IN /\ x <= VirtX /\ y <= VirtY
     /\ Flushed(c.x, c.y, c.w, c.h, 1, FALSE)
     /\ UNCHANGED <<accel, wframe, rframe, dframe, held, clip>>

\* GGI_X_unlock_xlib found a flush posted by the mansync task, which the
\* target does not run with DGA
PendingFlush ==
  /\ accel
  /\ Flushed(0, 0, VirtX, VirtY, 2, FALSE)
  /\ UNCHANGED <<accel, wframe, rframe, dframe, held, clip>>

\* GGI_X_expose; an event of a previous, larger mode is ignored
Expose(x, y, w, h) ==
  /\ 0 <= x /\ 0 <= y
  /\ x + w <= VirtX /\ y + h <= VirtY * (dframe + 1)
  /\ Flushed(x, y, w, h, 2, TRUE)
  /\ UNCHANGED <<accel, wframe, rframe, dframe, held, clip>>

\* GGI_X_db_acquire for writing
Acquire(f) ==
  /\ f \notin held
  /\ held' = held \cup {f}
  /\ UNCHANGED <<accel, region, stale, unfilled, wframe, rframe, dframe, clip>>

\* the application writes through the pointer of the acquired write frame
\* (it must make a frame the write frame before altering it)
DirectWrite(x, y, w, h) ==
  /\ wframe \in held
  /\ stale' = stale \cup BoxPixels(wframe, x, y, w, h)
  /\ unfilled' = unfilled \ BoxPixels(wframe, x, y, w, h)
  /\ UNCHANGED <<accel, region, wframe, rframe, dframe, held, clip>>

\* "Before releasing the lock, applications should be sure to flush all
\* affected regions" (libggi-functions, tidy buffer mode)
AppHasFlushed(f) == Tidy => \A p \in stale : p[1] # f

\* Release that has cleared curactype before it flushes
ReleaseFlushLate(f) ==
  /\ f \in held
  /\ AppHasFlushed(f)
  /\ held' = held \ {f}
  /\ IF f = wframe /\ ~Tidy
     THEN /\ region' = Emptied(region)
          /\ stale' = {p \in stale : ~InRegion(region, p)}
          /\ unfilled' = unfilled \cap stale'
     ELSE UNCHANGED <<region, stale, unfilled>>
  /\ UNCHANGED <<accel, wframe, rframe, dframe, clip>>

\* GGI_X_db_release: a full flush of the write frame, unless in tidy mode
Release(f) ==
  /\ f \in held
  /\ AppHasFlushed(f)
  /\ held' = held \ {f}
  /\ IF f = wframe /\ ~Tidy
     THEN Flushed(0, 0, VirtX, VirtY, 1, FALSE)
     ELSE UNCHANGED <<region, stale, unfilled>>
  /\ UNCHANGED <<accel, wframe, rframe, dframe, clip>>

\* SetWriteFrame that flushes once the new frame is the write frame
SetWriteFrameFlushLate(f) ==
  /\ wframe' = f
  /\ region' = Emptied(region)
  /\ stale' = IF Tidy THEN stale ELSE stale \ BoxPixels(f, 0, 0, VirtX, VirtY)
  /\ unfilled' = unfilled \cap stale'
  /\ UNCHANGED <<accel, rframe, dframe, held, clip>>

\* GGI_X_setwriteframe_slave: flush the old frame unless in tidy mode; the
\* dirty region does not span frames
SetWriteFrame(f) ==
  /\ wframe' = f
  /\ region' = Emptied(IF Tidy THEN region
                       ELSE RegionAfterFlush(0, 0, VirtX, VirtY, 1, FALSE))
  /\ stale' = IF Tidy THEN stale
              ELSE StaleAfterFlush(0, 0, VirtX, VirtY, 1, FALSE)
  /\ unfilled' = unfilled \cap stale'
  /\ UNCHANGED <<accel, rframe, dframe, held, clip>>

\* GGI_X_setreadframe_slave; only ggiCopyBox looks at the read frame
SetReadFrame(f) ==
  /\ "copy" \in Calls[accel]
  /\ rframe' = f
  /\ UNCHANGED <<accel, region, stale, unfilled, wframe, dframe, held, clip>>

\* GGI_X_setdisplayframe_child
SetDisplayFrame(f) ==
  /\ dframe' = f
  /\ UNCHANGED <<accel, region, stale, unfilled, wframe, rframe, held, clip>>

Next ==
  \/ \E c \in ClipBoxes : SetGCClipping(c)
  \/ \E x, y \in Coords, w, h \in Lens : PutBox(x, y, w, h)
  \/ \E x, y \in Coords, w, h \in Lens : DrawBox(x, y, w, h)
  \/ \E x, y \in Coords, w, h \in Lens : PutText(x, y, w, h)
  \/ \E x, y, nx, ny \in Coords, w, h \in Lens : CopyBox(x, y, w, h, nx, ny)
  \/ Fillscreen
  \/ \E x1, y1, x2, y2 \in Coords : DrawLine(x1, y1, x2, y2)
  \/ \E x, y \in Coords, w, h \in Lens : FlushRegion(x, y, w, h)
  \/ PendingFlush
  \/ \E x, y \in Coords, w, h \in Lens : Expose(x, y, w, h)
  \/ \E f \in Frame : Acquire(f)
  \/ \E x, y \in Coords, w, h \in Lens : DirectWrite(x, y, w, h)
  \/ \E f \in Frame : Release(f)
  \/ \E f \in Frame : SetWriteFrame(f)
  \/ \E f \in Frame : SetReadFrame(f)
  \/ \E f \in Frame : SetDisplayFrame(f)

Spec == Init /\ [][Next]_vars

-----------------------------------------------------------------------------
(* Correctness *)

\* the region's corners are integers; pixels, frames and clipping rectangle
\* are those of the mode
TypeOK ==
  /\ accel \in Accels
  /\ region \in [tlx : Int, tly : Int, brx : Int, bry : Int]
  /\ stale \subseteq Pixels
  /\ unfilled \subseteq stale
  /\ wframe \in Frame
  /\ rframe \in Frame
  /\ dframe \in Frame
  /\ held \subseteq Frame
  /\ clip \in [left : Int, top : Int, right : Int, bottom : Int]
  /\ 0 <= clip.left /\ clip.right <= VirtX
  /\ 0 <= clip.top /\ clip.bottom <= VirtY

\* A region that claims to hold something lies on the frame: no sequence of
\* GGI_X_DIRTY and GGI_X_CLEAN makes a flush ask for columns or rows that the
\* write frame does not have.
RegionOnScreen ==
  ~IsEmpty(region) =>
    /\ 0 <= region.tlx /\ region.brx < VirtX
    /\ 0 <= region.tly /\ region.bry < VirtY

\* No pixel drawn is forgotten: unless the write frame is held (then whole
\* requests are sent), every pixel the server lacks is on the write frame and
\* inside the dirty rectangle, whatever sequence of draws, partial flushes,
\* frame switches, exposes and DirectBuffer sessions came before; but for those
\* that a ggiFillscreen of a frame other than 0 spoils (see Fillscreen).
DirtyCoversStale ==
  wframe \notin held =>
    \A p \in stale \ unfilled : p[1] = wframe /\ InRegion(region, p)

\* Whenever ggiFlushRegion is called, it brings the requested region of the
\* write frame up to date, although the target sends only what it believes
\* dirty: nothing of the request would stay stale, but for what a
\* ggiFillscreen spoiled.
FlushServesRequest ==
  \A x, y \in Coords, w, h \in Lens :
    StaleAfterRequest(x, y, w, h) \cap BoxPixels(wframe, x, y, w, h) \subseteq unfilled

\* Leaving a frame, or releasing the write frame's DirectBuffer, leaves no
\* pixel behind that a later flush could not find, but for what a
\* ggiFillscreen spoiled.
LeaveFrameClean ==
  [][ \/ wframe' # wframe
      \/ wframe \in held /\ wframe \notin held'
      => stale' \subseteq unfilled' ]_vars

\* Where the target's rectangle can be relied on: not in tidy mode; with a
\* drawable, one frame or SHM and neither ggiCopyBox nor ggiPutc; without, no
\* ggiDrawLine.
Dependable ==
  /\ ~Tidy
  /\ TRUE \in Accels => (Frames = 1 \/ Shm) /\ Calls[TRUE] \cap {"copy", "text"} = {}
  /\ FALSE \in Accels => "line" \notin Calls[FALSE]
=============================================================================
