---------------------------- MODULE XDirty_proofs ----------------------------
(***************************************************************************)
(* For every frame size, number of frames and input the dirty rectangle of *)
(* the X target stays on the frame.  Where the target is Dependable it     *)
(* moreover covers every pixel the server lacks, and a flush serves its    *)
(* whole request; the theorems that assume this say so.  What Dependable   *)
(* leaves out breaks it: ggiCopyBox and ggiPutc with a drawable, lines     *)
(* without, several frames without SHM, and tidy mode.                     *)
(***************************************************************************)
EXTENDS XDirty, TLAPS

RegionType == [tlx : Int, tly : Int, brx : Int, bry : Int]

\* What holds of every target and program.
TypeInv == TypeOK /\ RegionOnScreen

\* All stale pixels are on the write frame, also while it is held.
StaleOnWriteFrame == \A p \in stale \ unfilled : p[1] = wframe

\* What holds where the target is Dependable.
Covers == StaleOnWriteFrame /\ DirtyCoversStale

\* What each step must show.
StepRight ==
  /\ TypeInv'
  /\ Dependable /\ Covers => Covers'

-----------------------------------------------------------------------------
(* The rectangle arithmetic *)

\* A pixel is a frame, a column and a row of the screen.
LEMMA PixelCoords ==
  ASSUME NEW p \in Pixels
  PROVE  /\ p[1] \in Frame /\ p[2] \in Int /\ p[3] \in Int
         /\ 0 <= p[2] /\ p[2] < VirtX /\ 0 <= p[3] /\ p[3] < VirtY
BY SizeAssumption DEF Pixels

\* "r lies on the screen" as an operator of a rectangle
OnScreen(r) ==
  ~IsEmpty(r) => /\ 0 <= r.tlx /\ r.brx < VirtX
                 /\ 0 <= r.tly /\ r.bry < VirtY

\* GGI_X_CLEAN yields a rectangle on the screen and never drops a pixel of
\* the region that is outside the cleaned box.
LEMMA CleanRight ==
  ASSUME NEW r \in RegionType, NEW x \in Int, NEW y \in Int, NEW w \in Int,
         NEW h \in Int, OnScreen(r)
  PROVE  /\ Clean(r, x, y, w, h) \in RegionType
         /\ OnScreen(Clean(r, x, y, w, h))
         /\ \A p \in Pixels :
              /\ InRegion(r, p)
              /\ ~(x <= p[2] /\ p[2] < x + w /\ y <= p[3] /\ p[3] < y + h)
              => InRegion(Clean(r, x, y, w, h), p)
<1> DEFINE x2 == x + w - 1
           y2 == y + h - 1
           allColumns == r.tlx >= x /\ r.brx <= x2
           allRows == r.tly >= y /\ r.bry <= y2
           outside(p) == ~(x <= p[2] /\ p[2] < x + w /\ y <= p[3] /\ p[3] < y + h)
<1>0. r.tlx \in Int /\ r.tly \in Int /\ r.brx \in Int /\ r.bry \in Int
  BY DEF RegionType
<1>1. CASE allColumns /\ allRows
  <2>1. Clean(r, x, y, w, h) = Emptied(r)
    BY <1>1 DEF Clean
  <2>2. Emptied(r) \in RegionType /\ OnScreen(Emptied(r))
    BY <1>0 DEF Emptied, Rect, RegionType, OnScreen, IsEmpty
  <2>3. ASSUME NEW p \in Pixels, InRegion(r, p), outside(p)  PROVE FALSE
    BY <1>0, <1>1, <2>3, PixelCoords DEF InRegion
  <2> QED BY <2>1, <2>2, <2>3
<1>2. CASE allColumns /\ ~allRows
  <2>1. Clean(r, x, y, w, h) = CutRows(r, y, y2)
    BY <1>2 DEF Clean
  <2>2. CutRows(r, y, y2) \in RegionType
    BY <1>0 DEF CutRows, Rect, RegionType
  <2>3. OnScreen(CutRows(r, y, y2))
    BY <1>0, <1>2, SizeAssumption DEF CutRows, Rect, OnScreen, IsEmpty
  <2>4. ASSUME NEW p \in Pixels, InRegion(r, p), outside(p)
        PROVE  InRegion(CutRows(r, y, y2), p)
    BY <1>0, <1>2, <2>4, PixelCoords DEF CutRows, Rect, InRegion
  <2> QED BY <2>1, <2>2, <2>3, <2>4
<1>3. CASE ~allColumns /\ allRows
  <2>1. Clean(r, x, y, w, h) = CutColumns(r, x, x2)
    BY <1>3 DEF Clean
  <2>2. CutColumns(r, x, x2) \in RegionType
    BY <1>0 DEF CutColumns, Rect, RegionType
  <2>3. OnScreen(CutColumns(r, x, x2))
    BY <1>0, <1>3, SizeAssumption DEF CutColumns, Rect, OnScreen, IsEmpty
  <2>4. ASSUME NEW p \in Pixels, InRegion(r, p), outside(p)
        PROVE  InRegion(CutColumns(r, x, x2), p)
    BY <1>0, <1>3, <2>4, PixelCoords DEF CutColumns, Rect, InRegion
  <2> QED BY <2>1, <2>2, <2>3, <2>4
<1>4. CASE ~allColumns /\ ~allRows
  BY <1>4 DEF Clean
<1> QED BY <1>1, <1>2, <1>3, <1>4

\* GGI_X_DIRTY with a box on the screen yields a rectangle on the screen that
\* holds the old region and the box.
LEMMA DirtyRight ==
  ASSUME NEW r \in RegionType, NEW x \in Int, NEW y \in Int, NEW w \in Int,
         NEW h \in Int, OnScreen(r),
         0 <= x, x + w <= VirtX, 0 <= y, y + h <= VirtY
  PROVE  /\ Dirty(r, x, y, w, h) \in RegionType
         /\ OnScreen(Dirty(r, x, y, w, h))
         /\ \A p \in Pixels :
              \/ InRegion(r, p)
              \/ x <= p[2] /\ p[2] < x + w /\ y <= p[3] /\ p[3] < y + h
              => InRegion(Dirty(r, x, y, w, h), p)
BY SizeAssumption, PixelCoords
   DEF Dirty, Rect, RegionType, OnScreen, IsEmpty, InRegion, Least, Most

-----------------------------------------------------------------------------
(* A flush *)

\* A dependable target can send every pixel: its image spans all its frames.
LEMMA AllReach ==
  ASSUME Dependable
  PROVE  ImagePixels = Pixels
<1>1. Shm \/ Frames = 1
  BY TargetAssumption, FlagAssumption DEF Dependable
<1>2. CASE Shm
  BY <1>2 DEF ImagePixels
<1>3. CASE Frames = 1
  <2>1. \A p \in Pixels : p[1] = 0
    BY <1>3, PixelCoords DEF Frame
  <2> QED BY <2>1 DEF ImagePixels
<1> QED BY <1>1, <1>2, <1>3

\* Whatever it is asked for, a flush keeps the region sound.
LEMMA FlushRight ==
  ASSUME TypeInv, NEW x \in Int, NEW y \in Int, NEW w \in Int, NEW h \in Int,
         NEW tryflag \in Int, NEW fullflush \in BOOLEAN
  PROVE  LET r == RegionAfterFlush(x, y, w, h, tryflag, fullflush)
             s == StaleAfterFlush(x, y, w, h, tryflag, fullflush)
         IN /\ r \in RegionType /\ OnScreen(r)
            /\ s \subseteq stale
            /\ Dependable /\ Covers /\ wframe \notin held
               => \A p \in s \ unfilled : InRegion(r, p)
<1> DEFINE r == RegionAfterFlush(x, y, w, h, tryflag, fullflush)
           s == StaleAfterFlush(x, y, w, h, tryflag, fullflush)
           o == Overlap(x, y, w, h)
<1>1. /\ region \in RegionType /\ OnScreen(region)
      /\ stale \subseteq Pixels
      /\ Covers => \A p \in stale \ unfilled : p[1] = wframe
      /\ Covers /\ wframe \notin held => \A p \in stale \ unfilled : InRegion(region, p)
  BY DEF TypeInv, TypeOK, RegionType, RegionOnScreen, OnScreen, Covers,
         StaleOnWriteFrame, DirtyCoversStale
<1>2. Dependable => ImagePixels = Pixels
  BY AllReach
<1>3. s \subseteq stale
  BY DEF StaleAfterFlush
<1>4. CASE SendsAll(fullflush) /\ tryflag # 2
  <2>1. /\ r = Clean(region, x, y, w, h)
        /\ s = stale \ (BoxPixels(wframe, x, y, w, h) \cap ImagePixels)
    BY <1>4 DEF RegionAfterFlush, StaleAfterFlush
  <2>2. ASSUME Dependable, Covers, NEW p \in s \ unfilled
        PROVE  ~(x <= p[2] /\ p[2] < x + w /\ y <= p[3] /\ p[3] < y + h)
    BY <1>1, <1>2, <2>1, <2>2 DEF BoxPixels
  <2> QED BY <1>1, <1>3, <2>1, <2>2, CleanRight
<1>5. CASE SendsAll(fullflush) /\ tryflag = 2
  <2>1. r = region
    BY <1>5 DEF RegionAfterFlush
  <2> QED BY <1>1, <1>3, <2>1
<1>6. CASE ~SendsAll(fullflush) /\ OverlapIsEmpty(o)
  <2>1. r = region
    BY <1>6 DEF RegionAfterFlush
  <2> QED BY <1>1, <1>3, <2>1
<1>7. CASE ~SendsAll(fullflush) /\ ~OverlapIsEmpty(o)
  <2>1. /\ r = Clean(region, o.x, o.y, o.w, o.h)
        /\ s = stale \ (BoxPixels(wframe, o.x, o.y, o.w, o.h) \cap ImagePixels)
    BY <1>7 DEF RegionAfterFlush, StaleAfterFlush
  <2>2. ASSUME Dependable, Covers, NEW p \in s \ unfilled
        PROVE  ~(o.x <= p[2] /\ p[2] < o.x + o.w /\ o.y <= p[3] /\ p[3] < o.y + o.h)
    BY <1>1, <1>2, <2>1, <2>2 DEF BoxPixels
  <2>3. o.x \in Int /\ o.y \in Int /\ o.w \in Int /\ o.h \in Int
    BY <1>1 DEF Overlap, RegionType, Least, Most
  <2> HIDE DEF o
  <2> QED BY <1>1, <1>3, <2>1, <2>2, <2>3, CleanRight
<1> QED BY <1>4, <1>5, <1>6, <1>7

\* A translated flush of a box leaves no stale pixel in it: the intersection
\* with the dirty region was enough.
LEMMA FlushServes ==
  ASSUME TypeInv, Dependable, Covers,
         NEW x \in Int, NEW y \in Int, NEW w \in Int, NEW h \in Int
  PROVE  \A p \in StaleAfterFlush(x, y, w, h, 1, FALSE) \ unfilled :
           ~(x <= p[2] /\ p[2] < x + w /\ y <= p[3] /\ p[3] < y + h)
<1> DEFINE s == StaleAfterFlush(x, y, w, h, 1, FALSE)
           o == Overlap(x, y, w, h)
<1>0. /\ region.tlx \in Int /\ region.tly \in Int
      /\ region.brx \in Int /\ region.bry \in Int
  BY DEF TypeInv, TypeOK
<1>1. /\ stale \subseteq Pixels
      /\ \A p \in stale \ unfilled : p[1] = wframe
      /\ wframe \notin held => \A p \in stale \ unfilled : InRegion(region, p)
      /\ ImagePixels = Pixels
  BY AllReach DEF TypeInv, TypeOK, Covers, StaleOnWriteFrame, DirtyCoversStale
<1>2. CASE SendsAll(FALSE)
  BY <1>1, <1>2 DEF StaleAfterFlush, BoxPixels
<1>3. CASE ~SendsAll(FALSE) /\ OverlapIsEmpty(o)
  <2>1. s = stale /\ \A p \in stale \ unfilled : InRegion(region, p)
    BY <1>1, <1>3 DEF StaleAfterFlush, SendsAll
  <2>2. ASSUME NEW p \in stale \ unfilled,
               x <= p[2], p[2] < x + w, y <= p[3], p[3] < y + h
        PROVE  FALSE
    <3>1. /\ p[2] \in Int /\ p[3] \in Int
          /\ InRegion(region, p)
      BY <1>1, <2>1, PixelCoords
    <3> QED
      BY <1>0, <1>3, <2>2, <3>1
         DEF Overlap, OverlapIsEmpty, IsEmpty, InRegion, Least, Most
  <2> QED BY <2>1, <2>2
<1>4. CASE ~SendsAll(FALSE) /\ ~OverlapIsEmpty(o)
  <2>1. /\ s = stale \ (BoxPixels(wframe, o.x, o.y, o.w, o.h) \cap ImagePixels)
        /\ \A p \in stale \ unfilled : InRegion(region, p)
    BY <1>1, <1>4 DEF StaleAfterFlush, SendsAll
  <2>2. ASSUME NEW p \in s \ unfilled,
               x <= p[2], p[2] < x + w, y <= p[3], p[3] < y + h
        PROVE  FALSE
    <3>1. /\ p \in Pixels /\ p[1] = wframe
          /\ p[2] \in Int /\ p[3] \in Int
          /\ InRegion(region, p)
      BY <1>1, <2>1, PixelCoords
    <3>2. ~(o.x <= p[2] /\ p[2] < o.x + o.w /\ o.y <= p[3] /\ p[3] < o.y + o.h)
      BY <1>1, <2>1, <2>2, <3>1 DEF BoxPixels
    <3> QED
      BY <1>0, <2>2, <3>1, <3>2 DEF Overlap, InRegion, Least, Most
  <2> QED BY <2>2
<1> QED BY <1>2, <1>3, <1>4

\* ggiFlush sends every stale pixel: all of them are on the write frame.
LEMMA FullFlushEmpties ==
  ASSUME TypeInv, Dependable, Covers
  PROVE  StaleAfterFlush(0, 0, VirtX, VirtY, 1, FALSE) \subseteq unfilled
<1> DEFINE s == StaleAfterFlush(0, 0, VirtX, VirtY, 1, FALSE)
<1>1. VirtX \in Int /\ VirtY \in Int
  BY SizeAssumption
<1>2. \A p \in s \ unfilled :
        ~(0 <= p[2] /\ p[2] < 0 + VirtX /\ 0 <= p[3] /\ p[3] < 0 + VirtY)
  <2>1. \A x, y, w, h \in Int :
          \A p \in StaleAfterFlush(x, y, w, h, 1, FALSE) \ unfilled :
            ~(x <= p[2] /\ p[2] < x + w /\ y <= p[3] /\ p[3] < y + h)
    BY FlushServes
  <2>2. 0 \in Int
    OBVIOUS
  <2> QED BY <1>1, <2>1, <2>2, Zenon
<1>3. s \subseteq Pixels
  BY DEF StaleAfterFlush, TypeInv, TypeOK
<1>4. ASSUME NEW p \in s \ unfilled  PROVE FALSE
  <2>1. /\ p[2] \in Int /\ p[3] \in Int
        /\ 0 <= p[2] /\ p[2] < VirtX /\ 0 <= p[3] /\ p[3] < VirtY
    BY <1>3, PixelCoords
  <2> HIDE DEF s
  <2>2. ~(0 <= p[2] /\ p[2] < 0 + VirtX /\ 0 <= p[3] /\ p[3] < 0 + VirtY)
    BY <1>2
  <2> QED BY <1>1, <2>1, <2>2
<1> QED BY <1>4

-----------------------------------------------------------------------------
(* Every step preserves the invariants *)

\* The fresh mode satisfies them: all that is stale was filled by ggiSetMode.
LEMMA InitRight == Init => TypeInv /\ Covers
BY SizeAssumption
   DEF Init, TypeInv, TypeOK, RegionOnScreen, Covers, StaleOnWriteFrame,
       DirtyCoversStale, Frame, Rect, IsEmpty

\* What a step that leaves frames and clipping alone must show.
LEMMA MarksRight ==
  ASSUME TypeInv, UNCHANGED <<accel, wframe, rframe, dframe, held, clip>>,
         region' \in RegionType, OnScreen(region'),
         stale' \subseteq Pixels, unfilled' \subseteq stale',
         Dependable /\ Covers =>
           \A p \in stale' \ unfilled' :
             p[1] = wframe /\ (wframe \notin held => InRegion(region', p))
  PROVE  StepRight
BY DEF TypeInv, TypeOK, RegionOnScreen, OnScreen, Covers, StaleOnWriteFrame,
       DirtyCoversStale, RegionType, IsEmpty, InRegion, StepRight

\* What the steps below know before they change anything.
LEMMA Before ==
  ASSUME TypeInv
  PROVE  /\ region \in RegionType /\ OnScreen(region)
         /\ stale \subseteq Pixels /\ unfilled \subseteq stale
         /\ Covers =>
              \A p \in stale \ unfilled :
                p[1] = wframe /\ (wframe \notin held => InRegion(region, p))
BY DEF TypeInv, TypeOK, RegionType, RegionOnScreen, OnScreen, Covers,
       StaleOnWriteFrame, DirtyCoversStale

\* The target is one of those there are.
LEMMA Target ==
  ASSUME TypeInv
  PROVE  (accel => accel = TRUE /\ TRUE \in Accels) /\ (~accel => accel = FALSE /\ FALSE \in Accels)
BY FlagAssumption DEF TypeInv, TypeOK

\* Drawing the box (x, y, w, h) of the write frame and marking it dirty.
LEMMA DrawRight ==
  ASSUME TypeInv, NEW x \in Int, NEW y \in Int, NEW w \in Int, NEW h \in Int,
         0 <= x, x + w <= VirtX, 0 <= y, y + h <= VirtY,
         stale' = stale \cup BoxPixels(wframe, x, y, w, h),
         unfilled' = unfilled \ BoxPixels(wframe, x, y, w, h),
         region' = Dirty(region, x, y, w, h),
         UNCHANGED <<accel, wframe, rframe, dframe, held, clip>>
  PROVE  StepRight
<1>1. region' \in RegionType /\ OnScreen(region')
  BY Before, DirtyRight
<1>2. \A p \in Pixels :
        InRegion(region, p)
        \/ (x <= p[2] /\ p[2] < x + w /\ y <= p[3] /\ p[3] < y + h)
        => InRegion(region', p)
  BY Before, DirtyRight
<1>3. BoxPixels(wframe, x, y, w, h) \subseteq Pixels
  BY DEF BoxPixels
<1>4. ASSUME Covers, NEW p \in stale' \ unfilled'
      PROVE  p[1] = wframe /\ (wframe \notin held => InRegion(region', p))
  <2>1. CASE p \in BoxPixels(wframe, x, y, w, h)
    BY <1>2, <2>1 DEF BoxPixels
  <2>2. CASE p \in stale \ unfilled
    BY <1>2, <1>4, <2>2, Before
  <2> QED BY <1>4, <2>1, <2>2
<1> QED BY <1>1, <1>3, <1>4, Before, MarksRight

\* Drawing the box into the buffer and the window and marking it clean.
LEMMA CleanDrawRight ==
  ASSUME TypeInv, NEW x \in Int, NEW y \in Int, NEW w \in Int, NEW h \in Int,
         stale' = stale \ BoxPixels(wframe, x, y, w, h),
         unfilled' = unfilled \ BoxPixels(wframe, x, y, w, h),
         region' = Clean(region, x, y, w, h),
         UNCHANGED <<accel, wframe, rframe, dframe, held, clip>>
  PROVE  StepRight
<1>1. region' \in RegionType /\ OnScreen(region')
  BY Before, CleanRight
<1>2. ASSUME Covers, NEW p \in stale' \ unfilled'
      PROVE  p[1] = wframe /\ (wframe \notin held => InRegion(region', p))
  <2>1. p \in Pixels /\ p \in stale \ unfilled /\ p[1] = wframe
    BY <1>2, Before
  <2>2. ~(x <= p[2] /\ p[2] < x + w /\ y <= p[3] /\ p[3] < y + h)
    BY <1>2, <2>1 DEF BoxPixels
  <2>3. wframe \notin held => InRegion(region, p)
    BY <1>2, <2>1, Before
  <2>4. InRegion(region, p) => InRegion(region', p)
    BY <2>1, <2>2, Before, CleanRight
  <2> QED BY <2>1, <2>3, <2>4
<1> QED BY <1>1, <1>2, Before, MarksRight

\* Clipping yields a box on the screen.
LEMMA ClippedRight ==
  ASSUME TypeInv, NEW x \in Int, NEW y \in Int, NEW w \in Int, NEW h \in Int
  PROVE  LET c == Clipped(x, y, w, h)
         IN /\ c.x \in Int /\ c.y \in Int /\ c.w \in Int /\ c.h \in Int
            /\ 0 <= c.x /\ c.x + c.w <= VirtX /\ 0 <= c.y /\ c.y + c.h <= VirtY
BY SizeAssumption DEF TypeInv, TypeOK, Clipped, Least, Most

\* Whether it is marked clean or dirty, drawing a clipped box is right.
LEMMA MarkRight ==
  ASSUME TypeInv, NEW x \in Int, NEW y \in Int, NEW w \in Int, NEW h \in Int,
         MarkClean(Clipped(x, y, w, h)) \/ MarkDirty(Clipped(x, y, w, h)),
         UNCHANGED <<accel, wframe, rframe, dframe, held, clip>>
  PROVE  StepRight
<1> DEFINE c == Clipped(x, y, w, h)
<1>1. /\ c.x \in Int /\ c.y \in Int /\ c.w \in Int /\ c.h \in Int
      /\ 0 <= c.x /\ c.x + c.w <= VirtX /\ 0 <= c.y /\ c.y + c.h <= VirtY
  BY ClippedRight
<1>2. MarkClean(c) \/ MarkDirty(c)
  OBVIOUS
<1> HIDE DEF c
<1>3. CASE MarkClean(c)
  BY <1>1, <1>3, CleanDrawRight DEF MarkClean
<1>4. CASE MarkDirty(c)
  BY <1>1, <1>4, DrawRight DEF MarkDirty
<1> QED BY <1>2, <1>3, <1>4

\* ggiPut and ggiDraw mark the box as it was drawn.
LEMMA BoxStep ==
  ASSUME TypeInv, NEW x \in Int, NEW y \in Int, NEW w \in Int, NEW h \in Int,
         PutBox(x, y, w, h) \/ DrawBox(x, y, w, h)
  PROVE  StepRight
<1>1. /\ MarkClean(Clipped(x, y, w, h)) \/ MarkDirty(Clipped(x, y, w, h))
      /\ UNCHANGED <<accel, wframe, rframe, dframe, held, clip>>
  BY DEF PutBox, DrawBox
<1> QED BY <1>1, MarkRight

\* With a drawable a character marks more clean than it draws, but nothing
\* outside the frame.
LEMMA TextStep ==
  ASSUME TypeInv, NEW x \in Int, NEW y \in Int, NEW w \in Int, NEW h \in Int,
         PutText(x, y, w, h)
  PROVE  StepRight
<1>1. CASE accel
  <2> DEFINE c == Clipped(x, y, w, h)
             box == BoxPixels(wframe, c.x, c.y, c.w, c.h)
  <2>1. /\ stale' = stale \ box /\ unfilled' = unfilled \ box
        /\ region' = Clean(region, x, y, w, h)
        /\ UNCHANGED <<accel, wframe, rframe, dframe, held, clip>>
    BY <1>1 DEF PutText
  <2>2. ~Dependable
    BY <1>1, Target DEF PutText, Dependable
  <2>3. region' \in RegionType /\ OnScreen(region')
    BY <2>1, Before, CleanRight
  <2> HIDE DEF box
  <2> QED BY <2>1, <2>2, <2>3, Before, MarksRight
<1>2. CASE ~accel
  <2>1. /\ MarkDirty(Clipped(x, y, w, h))
        /\ UNCHANGED <<accel, wframe, rframe, dframe, held, clip>>
    BY <1>2 DEF PutText
  <2> QED BY <2>1, MarkRight
<1> QED BY <1>1, <1>2

\* What ggiFillscreen spoils it also records.
LEMMA FillscreenStep ==
  ASSUME TypeInv, Fillscreen
  PROVE  StepRight
<1>1. 0 \in Int /\ VirtX \in Int /\ VirtY \in Int
  BY SizeAssumption
<1> DEFINE c == Clipped(0, 0, VirtX, VirtY)
           lost == {p \in Pixels : p[1] \in {0, wframe}}
<1>2. /\ \/ MarkClean(c) \/ MarkDirty(c)
         \/ /\ stale' = stale \cup lost /\ unfilled' = unfilled \cup lost
            /\ region' = Clean(region, c.x, c.y, c.w, c.h)
            /\ c = [x |-> 0, y |-> 0, w |-> VirtX, h |-> VirtY]
      /\ UNCHANGED <<accel, wframe, rframe, dframe, held, clip>>
  BY DEF Fillscreen
<1>3. CASE MarkClean(c) \/ MarkDirty(c)
  BY <1>1, <1>2, <1>3, MarkRight
<1>4. CASE /\ stale' = stale \cup lost /\ unfilled' = unfilled \cup lost
           /\ region' = Clean(region, c.x, c.y, c.w, c.h)
           /\ c = [x |-> 0, y |-> 0, w |-> VirtX, h |-> VirtY]
  <2>1. region' = Clean(region, 0, 0, VirtX, VirtY)
    BY <1>4
  <2>2. region' \in RegionType /\ OnScreen(region')
    BY <1>1, <2>1, Before, CleanRight
  <2>3. lost \subseteq Pixels
    OBVIOUS
  <2>4. ASSUME Covers, NEW p \in stale' \ unfilled'
        PROVE  p[1] = wframe /\ (wframe \notin held => InRegion(region', p))
    <3>1. p \in stale \ unfilled /\ p \notin lost
      BY <1>4, <2>4
    <3>2. p \in Pixels /\ p[1] = wframe
      BY <2>4, <3>1, Before
    <3> QED BY <3>1, <3>2
  <2> HIDE DEF lost
  <2> QED BY <1>2, <1>4, <2>2, <2>3, <2>4, Before, MarksRight
<1> QED BY <1>2, <1>3, <1>4

\* With a drawable a line reaches the window; without, it marks a box on the
\* frame, though not always the right one.
LEMMA LineStep ==
  ASSUME TypeInv, NEW x1 \in Int, NEW y1 \in Int, NEW x2 \in Int, NEW y2 \in Int,
         DrawLine(x1, y1, x2, y2)
  PROVE  StepRight
<1> DEFINE ends == BoxPixels(wframe, x1, y1, 1, 1) \cup BoxPixels(wframe, x2, y2, 1, 1)
<1>1. /\ ends \subseteq Pixels
      /\ unfilled' = unfilled \ ends
      /\ UNCHANGED <<accel, wframe, rframe, dframe, held, clip>>
  BY DEF DrawLine, BoxPixels
<1>2. CASE accel
  <2>1. stale' = stale \ ends /\ region' = region
    BY <1>2 DEF DrawLine
  <2> HIDE DEF ends
  <2> QED BY <1>1, <2>1, Before, MarksRight
<1>3. CASE ~accel
  <2>1. stale' = stale \cup ends /\ region' = Dirty(region, x1, y1, x2 - x1, y2 - y1)
    BY <1>3 DEF DrawLine
  <2>2. ~Dependable
    BY <1>3, Target DEF DrawLine, Dependable
  <2>3. 0 <= x1 /\ x2 < VirtX /\ 0 <= y1 /\ y2 < VirtY
    BY SizeAssumption DEF TypeInv, TypeOK, DrawLine
  <2>4. /\ x2 - x1 \in Int /\ x1 + (x2 - x1) <= VirtX
        /\ y2 - y1 \in Int /\ y1 + (y2 - y1) <= VirtY
    BY <2>3, SizeAssumption
  <2>5. region' \in RegionType /\ OnScreen(region')
    BY <2>1, <2>3, <2>4, Before, DirtyRight
  <2> HIDE DEF ends
  <2> QED BY <1>1, <2>1, <2>2, <2>5, Before, MarksRight
<1> QED BY <1>2, <1>3

\* ggiCopyBox clips to the screen; without a drawable it marks its destination
\* dirty, with one it marks it clean.
LEMMA CopyStep ==
  ASSUME TypeInv, NEW x \in Int, NEW y \in Int, NEW w \in Int, NEW h \in Int,
         NEW nx \in Int, NEW ny \in Int, CopyBox(x, y, w, h, nx, ny)
  PROVE  StepRight
<1> DEFINE dx == Most(0, Most(clip.left - nx, 0 - x))
           dy == Most(0, Most(clip.top - ny, 0 - y))
           cw == Least(w - dx, Least(clip.right - nx - dx, VirtX - x - dx))
           ch == Least(h - dy, Least(clip.bottom - ny - dy, VirtY - y - dy))
           cx == nx + dx
           cy == ny + dy
           dest == BoxPixels(wframe, cx, cy, cw, ch)
<1>1. /\ clip.left \in Int /\ clip.top \in Int
      /\ clip.right \in Int /\ clip.bottom \in Int
      /\ 0 <= clip.left /\ clip.right <= VirtX
      /\ 0 <= clip.top /\ clip.bottom <= VirtY
  BY DEF TypeInv, TypeOK
<1>2. /\ cx \in Int /\ cw \in Int /\ 0 <= cx /\ cx + cw <= VirtX
  BY <1>1, SizeAssumption DEF Most, Least
<1>3. /\ cy \in Int /\ ch \in Int /\ 0 <= cy /\ cy + ch <= VirtY
  BY <1>1, SizeAssumption DEF Most, Least
<1>4. CASE ~accel
  <2>1. /\ stale' = stale \cup dest /\ unfilled' = unfilled \ dest
        /\ region' = Dirty(region, cx, cy, cw, ch)
        /\ UNCHANGED <<accel, wframe, rframe, dframe, held, clip>>
    BY <1>4 DEF CopyBox, MarkDirty
  <2> HIDE DEF cx, cy, cw, ch
  <2> QED BY <1>2, <1>3, <2>1, DrawRight
<1>5. CASE accel
  <2> DEFINE old == {p \in dest : <<rframe, p[2] - nx + x, p[3] - ny + y>> \in stale}
  <2>1. /\ stale' = (stale \ dest) \cup old /\ unfilled' = unfilled \ dest
        /\ region' = Clean(region, cx, cy, cw, ch)
        /\ UNCHANGED <<accel, wframe, rframe, dframe, held, clip>>
    BY <1>5 DEF CopyBox
  <2>2. ~Dependable
    BY <1>5, Target DEF CopyBox, Dependable
  <2>3. old \subseteq Pixels
    BY DEF BoxPixels
  <2> HIDE DEF cx, cy, cw, ch, old
  <2>4. region' \in RegionType /\ OnScreen(region')
    BY <1>2, <1>3, <2>1, Before, CleanRight
  <2> HIDE DEF dest
  <2> QED BY <2>1, <2>2, <2>3, <2>4, Before, MarksRight
<1> QED BY <1>4, <1>5

\* Every flush, of the application, of the mansync task or for an expose.
LEMMA FlushStep ==
  ASSUME TypeInv, NEW x \in Int, NEW y \in Int, NEW w \in Int, NEW h \in Int,
         NEW tryflag \in Int, NEW fullflush \in BOOLEAN,
         Flushed(x, y, w, h, tryflag, fullflush),
         UNCHANGED <<accel, wframe, rframe, dframe, held, clip>>
  PROVE  StepRight
<1>1. /\ region' \in RegionType /\ OnScreen(region')
      /\ stale' \subseteq stale
      /\ Dependable /\ Covers /\ wframe \notin held
         => \A p \in stale' \ unfilled : InRegion(region', p)
  BY FlushRight DEF Flushed
<1>2. unfilled' = unfilled \cap stale'
  BY DEF Flushed
<1>3. ASSUME Dependable, Covers, NEW p \in stale' \ unfilled'
      PROVE  p[1] = wframe /\ (wframe \notin held => InRegion(region', p))
  BY <1>1, <1>2, <1>3, Before
<1> QED BY <1>1, <1>2, <1>3, Before, MarksRight

\* Releasing the write frame flushes it; releasing another frame changes
\* nothing the region depends on.
LEMMA ReleaseStep ==
  ASSUME TypeInv, NEW f \in Frame, Release(f)
  PROVE  StepRight
<1>1. /\ held' = held \ {f}
      /\ UNCHANGED <<accel, wframe, rframe, dframe, clip>>
  BY DEF Release
<1>0. 0 \in Int /\ VirtX \in Int /\ VirtY \in Int /\ 1 \in Int
  BY SizeAssumption
<1>2. CASE f = wframe /\ ~Tidy
  <2>1. Flushed(0, 0, VirtX, VirtY, 1, FALSE)
    BY <1>2 DEF Release
  <2>2. /\ region' \in RegionType /\ OnScreen(region')
        /\ stale' \subseteq stale /\ unfilled' = unfilled \cap stale'
    BY <1>0, <2>1, FlushRight DEF Flushed
  <2>3. Dependable /\ Covers => stale' \subseteq unfilled'
    BY <2>1, <2>2, FullFlushEmpties DEF Flushed
  <2>4. TypeInv'
    BY <1>1, <2>2, Before
       DEF TypeInv, TypeOK, RegionOnScreen, OnScreen, RegionType, IsEmpty
  <2> QED
    BY <2>3, <2>4 DEF StepRight, Covers, StaleOnWriteFrame, DirtyCoversStale
<1>3. CASE ~(f = wframe /\ ~Tidy)
  <2>1. UNCHANGED <<region, stale, unfilled>>
    BY <1>3 DEF Release
  <2>2. TypeInv'
    BY <1>1, <2>1 DEF TypeInv, TypeOK, RegionOnScreen, IsEmpty
  <2>3. Dependable => f # wframe
    BY <1>3 DEF Dependable
  <2> QED
    BY <1>1, <2>1, <2>2, <2>3
       DEF StepRight, Covers, StaleOnWriteFrame, DirtyCoversStale, InRegion
<1> QED BY <1>2, <1>3

\* Switching the write frame flushes the old one and empties the region.
LEMMA SetWriteFrameStep ==
  ASSUME TypeInv, NEW f \in Frame, SetWriteFrame(f)
  PROVE  StepRight
<1> DEFINE r == IF Tidy THEN region ELSE RegionAfterFlush(0, 0, VirtX, VirtY, 1, FALSE)
<1>1. /\ wframe' = f /\ region' = Emptied(r)
      /\ stale' = IF Tidy THEN stale
                  ELSE StaleAfterFlush(0, 0, VirtX, VirtY, 1, FALSE)
      /\ unfilled' = unfilled \cap stale'
      /\ UNCHANGED <<accel, rframe, dframe, held, clip>>
  BY DEF SetWriteFrame
<1>2. 0 \in Int /\ VirtX \in Int /\ VirtY \in Int /\ 1 \in Int
  BY SizeAssumption
<1>3. r \in RegionType /\ stale' \subseteq stale
  BY <1>1, <1>2, FlushRight, Before
<1>4. region' \in RegionType /\ IsEmpty(region')
  <2>1. \A q \in RegionType : Emptied(q) \in RegionType /\ IsEmpty(Emptied(q))
    BY DEF Emptied, Rect, RegionType, IsEmpty
  <2> QED BY <1>1, <1>3, <2>1
<1>5. TypeInv'
  BY <1>1, <1>3, <1>4, Before DEF TypeInv, TypeOK, RegionType, RegionOnScreen, IsEmpty
<1>6. Dependable /\ Covers => stale' \subseteq unfilled'
  BY <1>1, FullFlushEmpties DEF Dependable
<1> QED
  BY <1>5, <1>6 DEF StepRight, Covers, StaleOnWriteFrame, DirtyCoversStale

\* The remaining steps change neither the region nor, unless the write frame
\* is held, the stale pixels.
LEMMA OtherStep ==
  ASSUME TypeInv,
         \/ \E c \in ClipBoxes : SetGCClipping(c)
         \/ \E f \in Frame : Acquire(f)
         \/ \E x, y \in Coords, w, h \in Lens : DirectWrite(x, y, w, h)
         \/ \E f \in Frame : SetReadFrame(f)
         \/ \E f \in Frame : SetDisplayFrame(f)
         \/ UNCHANGED vars
  PROVE  StepRight
<1> USE DEF StepRight, TypeInv, RegionOnScreen, Covers, StaleOnWriteFrame,
            DirtyCoversStale, IsEmpty, InRegion
<1>1. ASSUME NEW c \in ClipBoxes, SetGCClipping(c)  PROVE StepRight
  BY <1>1, ClipAssumption, SizeAssumption DEF SetGCClipping, TypeOK
<1>2. ASSUME NEW f \in Frame, Acquire(f)  PROVE StepRight
  BY <1>2 DEF Acquire, TypeOK
<1>3. ASSUME NEW x \in Coords, NEW y \in Coords, NEW w \in Lens, NEW h \in Lens,
             DirectWrite(x, y, w, h)
      PROVE  StepRight
  BY <1>3 DEF DirectWrite, TypeOK, BoxPixels
<1>4. ASSUME NEW f \in Frame, SetDisplayFrame(f)  PROVE StepRight
  BY <1>4 DEF SetDisplayFrame, TypeOK
<1>5. CASE UNCHANGED vars
  BY <1>5 DEF vars, TypeOK
<1>6. ASSUME NEW f \in Frame, SetReadFrame(f)  PROVE StepRight
  BY <1>6 DEF SetReadFrame, TypeOK
<1> QED BY <1>1, <1>2, <1>3, <1>4, <1>5, <1>6

LEMMA NextRight == TypeInv /\ [Next]_vars => StepRight
<1> SUFFICES ASSUME TypeInv, [Next]_vars  PROVE StepRight
  OBVIOUS
<1>0. /\ Coords \subseteq Int /\ Lens \subseteq Int /\ Lens \subseteq Nat
      /\ 0 \in Int /\ 1 \in Int /\ 2 \in Int
      /\ VirtX \in Int /\ VirtY \in Int
      /\ TRUE \in BOOLEAN /\ FALSE \in BOOLEAN
  BY InputAssumption, SizeAssumption
<1>1. ASSUME NEW x \in Coords, NEW y \in Coords, NEW w \in Lens, NEW h \in Lens,
             PutBox(x, y, w, h) \/ DrawBox(x, y, w, h) \/ PutText(x, y, w, h)
      PROVE  StepRight
  BY <1>0, <1>1, BoxStep, TextStep
<1>2. CASE Fillscreen
  BY <1>2, FillscreenStep
<1>3. ASSUME NEW x \in Coords, NEW y \in Coords, NEW w \in Lens, NEW h \in Lens,
             FlushRegion(x, y, w, h)
      PROVE  StepRight
  <2> DEFINE c == Clamp(x, y, w, h)
  <2>1. c.x \in Int /\ c.y \in Int /\ c.w \in Int /\ c.h \in Int
    BY <1>0 DEF Clamp, Least, Most
  <2>2. /\ Flushed(c.x, c.y, c.w, c.h, 1, FALSE)
        /\ UNCHANGED <<accel, wframe, rframe, dframe, held, clip>>
    BY <1>3 DEF FlushRegion
  <2> HIDE DEF c
  <2> QED BY <1>0, <2>1, <2>2, FlushStep
<1>4. CASE PendingFlush
  BY <1>0, <1>4, FlushStep DEF PendingFlush
<1>5. ASSUME NEW x \in Coords, NEW y \in Coords, NEW w \in Lens, NEW h \in Lens,
             Expose(x, y, w, h)
      PROVE  StepRight
  BY <1>0, <1>5, FlushStep DEF Expose
<1>6. ASSUME NEW f \in Frame, Release(f)  PROVE StepRight
  BY <1>6, ReleaseStep
<1>7. ASSUME NEW f \in Frame, SetWriteFrame(f)  PROVE StepRight
  BY <1>7, SetWriteFrameStep
<1>8. ASSUME NEW x1 \in Coords, NEW y1 \in Coords, NEW x2 \in Coords,
             NEW y2 \in Coords, DrawLine(x1, y1, x2, y2)
      PROVE  StepRight
  BY <1>0, <1>8, LineStep
<1>9. ASSUME NEW x \in Coords, NEW y \in Coords, NEW nx \in Coords, NEW ny \in Coords,
             NEW w \in Lens, NEW h \in Lens, CopyBox(x, y, w, h, nx, ny)
      PROVE  StepRight
  BY <1>0, <1>9, CopyStep
<1> QED BY <1>1, <1>2, <1>3, <1>4, <1>5, <1>6, <1>7, <1>8, <1>9, OtherStep DEF Next

-----------------------------------------------------------------------------
(* The theorems *)

\* What holds of every target and program.
LEMMA TypeInvariance == Spec => []TypeInv
<1>1. TypeInv /\ [Next]_vars => TypeInv'
  BY NextRight DEF StepRight
<1>2. Init => TypeInv
  BY InitRight
<1> QED BY <1>1, <1>2, PTL DEF Spec

\* What holds where the target is dependable.
LEMMA CoverInvariance ==
  ASSUME Dependable
  PROVE  Spec => []Covers
<1>1. TypeInv /\ Covers /\ [Next]_vars => Covers'
  BY NextRight DEF StepRight
<1>2. Init => Covers
  BY InitRight
<1> QED BY <1>1, <1>2, TypeInvariance, PTL DEF Spec

\* Type correctness (XDirty, all variables), for every target and program.
THEOREM TypeCorrect == Spec => []TypeOK
<1>1. TypeInv => TypeOK
  BY DEF TypeInv
<1> QED BY <1>1, TypeInvariance, PTL

\* The dirty rectangle never reaches past the frame, whatever is drawn, copied,
\* written or flushed, with any number of frames, in tidy mode or not, with a
\* drawable or without (GGI_X_DIRTY, GGI_X_CLEAN).
THEOREM OnScreenAlways == Spec => []RegionOnScreen
<1>1. TypeInv => RegionOnScreen
  BY DEF TypeInv
<1> QED BY <1>1, TypeInvariance, PTL

\* No pixel drawn is forgotten, for every frame size and every sequence of
\* operations of a dependable target (GGI_X_DIRTY and GGI_X_CLEAN against the
\* flush of buffer.c and shm.c).
THEOREM Coverage ==
  ASSUME Dependable
  PROVE  Spec => []DirtyCoversStale
<1>1. Covers => DirtyCoversStale
  BY DEF Covers
<1> QED BY <1>1, CoverInvariance, PTL

\* ggiFlushRegion of a dependable target always serves its whole request.
THEOREM RequestServed ==
  ASSUME Dependable
  PROVE  Spec => []FlushServesRequest
<1>1. TypeInv /\ Covers => FlushServesRequest
  <2> SUFFICES ASSUME TypeInv, Covers, NEW x \in Coords, NEW y \in Coords,
                      NEW w \in Lens, NEW h \in Lens,
                      NEW p \in StaleAfterRequest(x, y, w, h),
                      p \in BoxPixels(wframe, x, y, w, h),
                      p \notin unfilled
               PROVE  FALSE
    BY DEF FlushServesRequest
  <2> DEFINE c == Clamp(x, y, w, h)
  <2>1. /\ x \in Int /\ y \in Int /\ w \in Nat /\ h \in Nat
        /\ VirtX \in Nat /\ VirtY \in Nat
    BY InputAssumption, SizeAssumption
  <2>2. c.x \in Int /\ c.y \in Int /\ c.w \in Int /\ c.h \in Int
    BY <2>1 DEF Clamp, Least, Most
  <2>3. /\ x <= p[2] /\ p[2] < x + w /\ y <= p[3] /\ p[3] < y + h
        /\ p[2] \in Int /\ p[3] \in Int
        /\ 0 <= p[2] /\ p[2] < VirtX /\ 0 <= p[3] /\ p[3] < VirtY
    BY PixelCoords DEF BoxPixels
  <2>4. c.x <= p[2] /\ p[2] < c.x + c.w /\ c.y <= p[3] /\ p[3] < c.y + c.h
    BY <2>1, <2>3 DEF Clamp, Least, Most
  <2>5. p \in StaleAfterFlush(c.x, c.y, c.w, c.h, 1, FALSE) \ unfilled
    BY DEF StaleAfterRequest
  <2> HIDE DEF c
  <2> QED BY <2>2, <2>4, <2>5, FlushServes
<1> QED BY <1>1, TypeInvariance, CoverInvariance, PTL

\* Leaving the write frame of a dependable target, or releasing its
\* DirectBuffer, leaves nothing stale.
THEOREM CleanLeave ==
  ASSUME Dependable
  PROVE  Spec => LeaveFrameClean
<1> DEFINE Leave == \/ wframe' # wframe
                    \/ wframe \in held /\ wframe \notin held'
<1>1. ASSUME TypeInv, Covers, [Next]_vars, Leave  PROVE stale' \subseteq unfilled'
  <2> DEFINE Stay == wframe' = wframe /\ held \subseteq held'
  <2>a. ASSUME NEW x \in Coords, NEW y \in Coords, NEW w \in Lens, NEW h \in Lens,
               \/ PutBox(x, y, w, h) \/ DrawBox(x, y, w, h) \/ PutText(x, y, w, h)
               \/ FlushRegion(x, y, w, h) \/ Expose(x, y, w, h) \/ DirectWrite(x, y, w, h)
        PROVE  Stay
    BY <2>a DEF PutBox, DrawBox, PutText, FlushRegion, Expose, DirectWrite
  <2>b. ASSUME NEW x \in Coords, NEW y \in Coords, NEW nx \in Coords,
               NEW ny \in Coords, NEW w \in Lens, NEW h \in Lens,
               CopyBox(x, y, w, h, nx, ny)
        PROVE  Stay
    BY <2>b DEF CopyBox
  <2>c. ASSUME Fillscreen \/ PendingFlush \/ UNCHANGED vars  PROVE Stay
    BY <2>c DEF Fillscreen, PendingFlush, vars
  <2>d. ASSUME NEW f \in Frame, Acquire(f) \/ SetReadFrame(f) \/ SetDisplayFrame(f)
        PROVE  Stay
    BY <2>d DEF Acquire, SetReadFrame, SetDisplayFrame
  <2>e. ASSUME NEW c \in ClipBoxes, SetGCClipping(c)  PROVE Stay
    BY <2>e DEF SetGCClipping
  <2>f. ASSUME NEW x1 \in Coords, NEW y1 \in Coords, NEW x2 \in Coords,
               NEW y2 \in Coords, DrawLine(x1, y1, x2, y2)
        PROVE  Stay
    BY <2>f DEF DrawLine
  <2>1. \/ \E f \in Frame : Release(f) /\ f = wframe
        \/ \E f \in Frame : SetWriteFrame(f)
    <3>1. ~Stay
      BY <1>1
    <3>2. \A f \in Frame : Release(f) => wframe' = wframe /\ held' = held \ {f}
      BY DEF Release
    <3>3. (\E f \in Frame : Release(f)) \/ (\E f \in Frame : SetWriteFrame(f))
      <4> HIDE DEF Stay
      <4> QED BY <1>1, <2>a, <2>b, <2>c, <2>d, <2>e, <2>f, <3>1 DEF Next
    <3> QED BY <1>1, <3>2, <3>3
  <2>2. ASSUME NEW f \in Frame, Release(f), f = wframe  PROVE stale' \subseteq unfilled'
    BY <1>1, <2>2, FullFlushEmpties DEF Release, Dependable, Flushed
  <2>3. ASSUME NEW f \in Frame, SetWriteFrame(f)  PROVE stale' \subseteq unfilled'
    BY <1>1, <2>3, FullFlushEmpties DEF SetWriteFrame, Dependable
  <2> QED BY <2>1, <2>2, <2>3
<1>2. TypeInv /\ Covers /\ [Next]_vars => [Leave => stale' \subseteq unfilled']_vars
  BY <1>1
<1>3. Spec => []TypeInv /\ []Covers
  BY TypeInvariance, CoverInvariance
<1> QED BY <1>2, <1>3, PTL DEF Spec, LeaveFrameClean
=============================================================================
