----------------------------- MODULE VncEncode ------------------------------
(***************************************************************************)
(* A VNC client that is sent tiles in one of the tile encodings, and a     *)
(* viewer that reads them.  Hextile and TRLE leave out what the viewer     *)
(* remembers of earlier tiles, so the encoder has to know exactly what     *)
(* that is.                                                                *)
(***************************************************************************)
EXTENDS VncTile

CONSTANTS
  Formats,  \* pixel formats: bpp bytes in the frame, cbpp bytes in TRLE, ZRLE
  Codings,  \* the encodings used
  Tiles,    \* the tiles that are sent
  MaxPalette, MaxByte  \* of VncTrle

ASSUME FormatAssumption ==
  \A f \in Formats :
    f.bpp \in {1, 2, 4} /\ f.cbpp \in {f.bpp, 3} /\ (f.cbpp # f.bpp => f.bpp = 4)
ASSUME TileAssumption ==
  \A t \in Tiles :
    /\ t \in [w : Nat \ {0}, h : Nat \ {0}, px : Seq(Int)]
    /\ Len(t.px) = Area(t)

ASSUME PaletteAssumption == MaxPalette \in 16..127
ASSUME ByteAssumption == MaxByte \in 1..255

T == INSTANCE VncTrle
H == INSTANCE VncHextile

VARIABLES
  format, coding,  \* one of Formats and of Codings; they do not change
  ctx,             \* what the encoder believes the viewer to remember:
                   \*   palette   of TRLE, <<>> if none
                   \*   bg, fg    of Hextile, {} if it does not know
  viewer,          \* what the viewer remembers, the same fields
  sent             \* the tile sent last, its message, and what the viewer shows
vars == <<format, coding, ctx, viewer, sent>>

Nothing == [tile |-> Tile(0, 0, <<>>), message |-> <<>>, shown |-> <<>>]

Init ==
  /\ format \in Formats /\ coding \in Codings
  /\ ctx = [palette |-> <<>>, bg |-> {}, fg |-> {}]
  /\ viewer = [palette |-> <<>>, bg |-> 0, fg |-> 0]
  /\ sent = Nothing

\* The tiles a rectangle is cut into; in RRE it is sent whole.
Fits(t) ==
  LET side == IF coding \in {"hextile", "trle"} THEN 16
              ELSE IF coding = "corre" THEN 48 ELSE 64
  IN coding = "rre" \/ (t.w <= side /\ t.h <= side)

Showing(t, message, shown) ==
  sent' = [tile |-> t, message |-> message, shown |-> shown]

\* A new rectangle: nothing is carried over from the last one in Hextile.
StartRect ==
  /\ coding = "hextile" /\ sent = Nothing
  /\ ctx' = [ctx EXCEPT !.bg = {}, !.fg = {}]
  /\ viewer' = [viewer EXCEPT !.bg = 0, !.fg = 0]
  /\ UNCHANGED <<format, coding, sent>>

SendTrle(t) ==
  /\ coding = "trle"
  /\ LET new == T!TrleTile(t, format.cbpp, ctx.palette) IN
     /\ ctx' = [ctx EXCEPT !.palette = new.palette]
     /\ viewer' = [viewer EXCEPT !.palette = T!Kept(new.message, @)]
     /\ Showing(t, new.message, T!Shown(t.w, t.h, new.message, viewer.palette))
  /\ UNCHANGED <<format, coding>>

SendHextile(t) ==
  /\ coding = "hextile"
  /\ LET new == H!HextileTile(t, format.bpp, ctx.bg, ctx.fg)
         raw == H!HasBit(new.message, 1)
     IN /\ ctx' = [ctx EXCEPT !.bg = new.bg, !.fg = new.fg]
        /\ \E fg \in IF raw THEN {viewer.fg} ELSE H!LastColours(new.message, viewer.fg) :
             viewer' = [viewer EXCEPT
                          !.bg = IF raw THEN @ ELSE H!ReadBg(new.message, @),
                          !.fg = fg]
        /\ Showing(t, new.message,
                   H!HextileShown(t.w, t.h, new.message, viewer.bg, viewer.fg))
  /\ UNCHANGED <<format, coding>>

\* The encodings without a memory.
Fresh(t) ==
  CASE coding = "zrle" -> T!ZrleTile(t, format.cbpp)
    [] coding = "rre" -> H!RreTile(t, format.bpp)
    [] coding = "corre" -> H!CorreTile(t, format.bpp)

SendFresh(t) ==
  /\ coding \in {"zrle", "rre", "corre"}
  /\ LET m == Fresh(t) IN
     Showing(t, m, IF coding = "zrle" THEN T!Shown(t.w, t.h, m, <<>>)
                   ELSE H!RreShown(t.w, t.h, m))
  /\ UNCHANGED <<format, coding, ctx, viewer>>

\* The message is on its way, and the next tile can be encoded.
Written ==
  /\ sent # Nothing
  /\ sent' = Nothing
  /\ UNCHANGED <<format, coding, ctx, viewer>>

Send(t) ==
  /\ sent = Nothing /\ Fits(t)
  /\ SendTrle(t) \/ SendHextile(t) \/ SendFresh(t)

Next == StartRect \/ Written \/ \E t \in Tiles : Send(t)

Spec == Init /\ [][Next]_vars
-----------------------------------------------------------------------------
(***************************************************************************)
(* Properties.                                                             *)
(***************************************************************************)

\* The viewer reads the message to its end and shows the tile as it is.
ShownAsDrawn == sent.shown = sent.tile.px

\* What the encoder takes for known to the viewer is what the viewer
\* remembers: the flags of Hextile's context, and the palette of TRLE's.
InStep ==
  /\ ctx.bg \subseteq {viewer.bg} /\ ctx.fg \subseteq {viewer.fg}
  /\ ctx.palette # <<>> => viewer.palette = ctx.palette

\* What GGI_vnc_buf_reserve is asked for, per tile (of RRE and CoRRE with the
\* header, of the others with the byte that comes first).
Room(t) ==
  IF coding \in {"trle", "zrle"} THEN 1 + Area(t) * format.cbpp
  ELSE IF coding = "hextile" THEN 1 + Area(t) * format.bpp
  ELSE 12 + Max({Area(t) * format.bpp, 4 + format.bpp})

\* The estimates of the code count at most 9/4 bytes for the length of a run, but a
\* run takes a byte more with each MaxByte pixels.
LongRun(t) == \E i \in DOMAIN T!Runs(t.px) : T!Runs(t.px)[i].length > 2 * MaxByte

\* A message fits into the room that was reserved before it was known ("buffer
\* overrun", hextile.c): the estimates and limits are never too low, but for a
\* run so long that only a tile of ZRLE can have it.
RoomSuffices ==
  sent # Nothing /\ ~(coding = "zrle" /\ LongRun(sent.tile)) =>
    Size(sent.message) <= Room(sent.tile)

\* ZlibHex finds the end of each tile of Hextile, from the message alone.
TakenApart ==
  coding = "hextile" /\ sent # Nothing =>
    H!TileSize(sent.tile, sent.message, format.bpp) = Size(sent.message)
=============================================================================
