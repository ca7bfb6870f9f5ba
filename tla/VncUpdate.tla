----------------------------- MODULE VncUpdate ------------------------------
(***************************************************************************)
(* The VNC target as a server of one viewer: which pixels it has to send,  *)
(* and when (display/vnc/rfb.c, mode.c, buffer.c and the drawing calls).   *)
(*                                                                         *)
(* All calls, those of the application and those LibGII makes when the     *)
(* viewer's socket is ready, are made by one thread, so each is one step.  *)
(* The clients of a visual share nothing but the frame buffer: one is      *)
(* enough.  The mode does not change.                                      *)
(*                                                                         *)
(* The handlers treat pixels as rectangles only and each pixel like any    *)
(* other, so the content of the viewer's screen is followed for one pixel  *)
(* of the frame, the probe, which may be any of Probes.                    *)
(***************************************************************************)
EXTENDS VncRect

CONSTANTS
  Modes,         \* the settings of <<GGIFLAG_ASYNC, GGIFLAG_TIDYBUF>> it uses
  X, Y,          \* size of the visible area
  VirtX, VirtY,  \* size of the virtual area
  Probes,        \* the pixels of the frame of which one is followed
  Boxes,         \* the boxes the application draws and flushes
  Requests       \* the areas the viewer asks for

Visible == Rect(0, 0, X, Y)
Virtual == Rect(0, 0, VirtX, VirtY)

\* r lies in s.
Within(r, s) ==
  /\ r \in Rects
  /\ s.x1 <= r.x1 /\ r.x1 <= r.x2 /\ r.x2 <= s.x2
  /\ s.y1 <= r.y1 /\ r.y1 <= r.y2 /\ r.y2 <= s.y2

ASSUME SizeAssumption ==
  /\ X \in Nat \ {0} /\ Y \in Nat \ {0}
  /\ VirtX \in Nat /\ VirtY \in Nat /\ X <= VirtX /\ Y <= VirtY
ASSUME InputAssumption ==
  /\ Modes \subseteq BOOLEAN \X BOOLEAN
  /\ Probes \subseteq Coords /\ \A p \in Probes : In(p, Virtual)
  /\ \A b \in Boxes : Within(b, Virtual) /\ ~IsEmpty(b)
  /\ \A r \in Requests : r \in Rects

Origins == {Coord(x, y) : x \in 0..VirtX - X, y \in 0..VirtY - Y}

\* The part of the frame that is on the screen.
View(o) == Rect(o.x, o.y, o.x + X, o.y + Y)

VARIABLES
  probe,   \* a pixel of the frame (never changes)
  app,     \* the state of the visual:
           \*   origin          LIBGGI's origin_x, origin_y
           \*   held            the DirectBuffer of the frame on display is acquired
           \*                   for writing
           \*   async, tidy     GGIFLAG_ASYNC, GGIFLAG_TIDYBUF
  client   \* the state of the client:
           \*   dirty, fdirty   of the frame: to be sent; to be sent once flushed
           \*   update          of the screen: what the viewer waits for
           \*   origin          the origin of the last update
           \*   wpending        write_pending
           \*   copyrect        copy_rect: the viewer knows copyrect
           \*   converted       vis: the viewer has its own pixel format
           \*   palette         palette_dirty
           \* and, of the viewer:
           \*   asked           it has sent a request that was not answered
           \*   stale           it shows the probe, and not as it is in the frame
           \*   loose           the probe was written through a DirectBuffer and
           \*                   not yet flushed or released
           \*   missed          the probe became stale in a way the code misses
vars == <<probe, app, client>>

Inside(r, s) == r = Empty \/ (Within(r, s) /\ ~IsEmpty(r))

AppOK(a) ==
  a \in [origin : Origins, held : BOOLEAN, async : BOOLEAN, tidy : BOOLEAN]

ClientOK(c) ==
  /\ c \in [dirty : Rects, fdirty : Rects, update : Rects, origin : Origins,
            wpending : BOOLEAN, copyrect : BOOLEAN, converted : BOOLEAN,
            palette : BOOLEAN, asked : BOOLEAN, stale : BOOLEAN,
            loose : BOOLEAN, missed : BOOLEAN]
  /\ Inside(c.dirty, Virtual) /\ Inside(c.fdirty, Virtual)
  /\ Inside(c.update, Visible)

\* What is to be sent is on the frame, what is asked for on the screen.
TypeOK == probe \in Probes /\ AppOK(app) /\ ClientOK(client)

Init ==
  /\ probe \in Probes
  /\ app = [origin |-> Coord(0, 0), held |-> FALSE, async |-> FALSE, tidy |-> FALSE]
  /\ client = [dirty |-> Virtual, fdirty |-> Empty, update |-> Empty,
               origin |-> Coord(0, 0), wpending |-> FALSE, copyrect |-> FALSE,
               converted |-> FALSE, palette |-> FALSE,
               asked |-> FALSE, stale |-> In(probe, Visible), loose |-> FALSE,
               missed |-> FALSE]

(***************************************************************************)
(* Sending: c is the client, a the visual, as they are when the function   *)
(* is called; the value is the set of the clients it may leave.            *)
(***************************************************************************)

FullUpdate(a) == ~a.async /\ ~a.tidy /\ a.held

\* What the viewer can copy when the origin has changed, on its new screen.
Copied(c, a) == ToScreen(Intersect(View(c.origin), View(a.origin)), a.origin)

\* The stripes of the new screen to the left or right of what is copied, and
\* above or below: the first one is sent over the whole height or width.
Beside(k) == Subtract(Rect(0, k.y1, X, k.y2), k)
Above(k) == Subtract(Rect(k.x1, 0, k.x2, Y), k)

Stripes(k) ==
  IF X - (k.x2 - k.x1) > Y - (k.y2 - k.y1)
  THEN <<Rect(Beside(k).x1, 0, Beside(k).x2, Y),
         IF k.y2 - k.y1 = Y THEN Empty ELSE Above(k)>>
  ELSE <<Rect(0, Above(k).y1, X, Above(k).y2),
         IF k.x2 - k.x1 = X THEN Empty ELSE Beside(k)>>

\* What is sent of the screen, the copied part aside, for this update.
Parts(c, a, upd, pan) ==
  LET k == Copied(c, a)
      s == Stripes(k)
  IN IF ~pan THEN <<Empty, Empty, upd>>
     ELSE IF ~c.copyrect \/ IsEmpty(k) THEN <<Empty, Empty, Visible>>
     ELSE <<s[1], s[2], Subtract(Subtract(upd, s[1]), s[2])>>

\* Mutant: an origin that moves up or down is overlooked.
PannedAcross(c, a) == a.origin.x # c.origin.x

Panned(c, a) == a.origin # c.origin

\* The viewer shows the probe as it did before.
Kept(c, a, pan) ==
  \/ ~Panned(c, a)
  \/ pan /\ c.copyrect /\ In(probe, View(c.origin)) /\ In(probe, View(a.origin))

\* The socket takes the whole message, or not.
Written(c) == {[c EXCEPT !.wpending = block] : block \in BOOLEAN}

\* The client when the parts have been sent.
Updated(c, a, pan, part) ==
  LET frame(i) == ToFrame(part[i], a.origin)
      seen == Intersect(c.dirty, View(a.origin))
      stale == /\ In(probe, View(a.origin))
               /\ \A i \in 1..3 : ~In(probe, frame(i))
               /\ Kept(c, a, pan) => c.stale
  IN [c EXCEPT !.palette = FALSE,
               !.dirty = Subtract(Subtract(Subtract(seen, frame(1)), frame(2)),
                                  frame(3)),
               !.origin = a.origin, !.update = Empty, !.asked = FALSE,
               !.stale = stale, !.loose = c.loose /\ stale,
               !.missed = stale /\ (c.missed \/ (Panned(c, a) /\ ~pan))]

DoUpdate(c, a, upd, pan) ==
  IF ~IsEmpty(upd) \/ pan THEN Written(Updated(c, a, pan, Parts(c, a, upd, pan)))
  ELSE IF c.palette THEN Written([c EXCEPT !.palette = FALSE])
  ELSE {c}

\* The area upd of the screen needs no flush any more.
Unflushed(c, a, upd) ==
  [c EXCEPT !.fdirty = Subtract(c.fdirty, ToFrame(upd, a.origin))]

Wanted(c, a, request) == Intersect(request, ToScreen(c.dirty, a.origin))

\* pending_client_update, which is called only while the viewer waits.
Pending(c, a) ==
  LET full == FullUpdate(a)
      upd == IF full THEN c.update ELSE Wanted(c, a, c.update)
      pan == ~full /\ Panned(c, a)
      nothing == IsEmpty(upd) /\ ~pan
  IN IF c.wpending \/ IsEmpty(c.update) \/ nothing
     THEN {c}
     ELSE DoUpdate(Unflushed(c, a, upd), a, upd, pan)

Invalidated(c, r) == [c EXCEPT !.dirty = Union(c.dirty, r)]

(***************************************************************************)
(* The application.                                                        *)
(***************************************************************************)

Shown(c) == In(probe, View(c.origin))

\* Every drawing call, after it has drawn box into the frame that is shown.
\* While the write frame is another, drawing calls do nothing more.
Draw(box) ==
  LET c == [client EXCEPT !.stale = @ \/ (In(probe, box) /\ Shown(client))] IN
  /\ IF app.async
     THEN client' = [c EXCEPT !.fdirty = Union(c.fdirty, box)]
     ELSE client' \in Pending(Invalidated(c, box), app)
  /\ UNCHANGED <<probe, app>>

SetOrigin(o) ==
  /\ app' = [app EXCEPT !.origin = o]
  /\ client' \in Pending(client, app')
  /\ UNCHANGED probe

\* All that the viewer shows has changed: only the area that is visible now
\* is marked, though the viewer may still show another.
AllChanged(c, a) ==
  [c EXCEPT !.stale = Shown(c), !.loose = FALSE,
            !.missed = Shown(c) /\ ~In(probe, View(a.origin))]

\* The frame that is shown now may be held, or not.
SetDisplayFrame(held) ==
  /\ app' = [app EXCEPT !.held = held]
  /\ client' \in Pending(Invalidated(AllChanged(client, app), View(app.origin)),
                         app')
  /\ UNCHANGED probe

SetPalette ==
  /\ IF client.converted
     THEN client' \in Pending([AllChanged(client, app) EXCEPT
                                 !.dirty = View(app.origin)], app)
     ELSE client' \in Pending([client EXCEPT !.palette = TRUE], app)
  /\ UNCHANGED <<probe, app>>

\* Of the frame that is shown, as is Release: the others do nothing more.
Acquire ==
  /\ ~app.held
  /\ app' = [app EXCEPT !.held = TRUE]
  /\ IF ~app.async /\ ~app.tidy
     THEN client' \in Pending(Invalidated(client, View(app.origin)), app')
     ELSE UNCHANGED client
  /\ UNCHANGED probe

\* The application writes the probe through the DirectBuffer it holds.
DirectWrite ==
  /\ app.held
  /\ client' = [client EXCEPT !.stale = Shown(client), !.loose = Shown(client)]
  /\ UNCHANGED <<probe, app>>

\* Everything visible may have been written.  As the code has it, the type of
\* the access is cleared after the update.
Release ==
  /\ app.held
  /\ app' = [app EXCEPT !.held = FALSE]
  /\ IF ~app.tidy
     THEN client' \in Pending(
            Invalidated([client EXCEPT !.loose = FALSE,
                           !.missed = @ \/ (client.loose /\
                                           ~In(probe, View(app.origin)))],
                        View(app.origin)), app)
     ELSE UNCHANGED client
  /\ UNCHANGED probe

Flush(box) ==
  /\ app.async \/ app.tidy
  /\ IF app.tidy /\ app.held
     THEN client' \in Pending(
            Invalidated([client EXCEPT !.loose = @ /\ ~In(probe, box)], box), app)
     ELSE client' \in Pending(
            Invalidated([client EXCEPT !.fdirty = Subtract(client.fdirty, box)],
                        Intersect(box, client.fdirty)), app)
  /\ UNCHANGED <<probe, app>>

SetFlags(async, tidy) ==
  /\ app' = [app EXCEPT !.async = async, !.tidy = tidy]
  /\ IF app.async /\ ~async
     THEN client' \in Pending(Invalidated(client, client.fdirty), app')
     ELSE UNCHANGED client
  /\ UNCHANGED probe

(***************************************************************************)
(* The viewer's messages, and its socket.                                  *)
(***************************************************************************)

\* Mutant: a request is dropped while a message is still being written.
RememberNothing(c, request, incremental, lost) ==
  [c EXCEPT !.missed = @ \/ lost]

\* A request is remembered while a message is still being written.  The code
\* adds an area of the screen to one of the frame.
Remember(c, request, incremental, lost) ==
  LET dirty == IF incremental THEN c.dirty ELSE Union(c.dirty, request) IN
  [c EXCEPT !.dirty = dirty, !.update = Union(c.update, request),
            !.missed = @ \/ (lost /\ ~In(probe, dirty))]

Answer(c, a, request, incremental) ==
  LET full == FullUpdate(a)
      asked == Union(request, c.update)
      upd == IF incremental /\ ~full THEN Wanted(c, a, asked) ELSE asked
      pan == Panned(c, a) /\ ~(incremental /\ full)
      idle == incremental /\ IsEmpty(upd) /\ ~pan
      waiting == IF idle THEN [c EXCEPT !.update = asked] ELSE c
  IN IF idle /\ ~c.palette
     THEN {waiting}
     ELSE DoUpdate(Unflushed(waiting, a, upd), a, upd, pan)

\* Mutant: the viewer is trusted to ask for the screen only.
OnScreenUnclipped(area) == area

OnScreen(area) == Intersect(area, Visible)

\* A viewer that asks for the whole screen anew may have lost it.
UpdateRequest(area, incremental) ==
  LET request == OnScreen(area)
      lost == ~incremental /\ request = Visible /\ Shown(client)
      c == [client EXCEPT !.asked = TRUE, !.stale = @ \/ lost]
  IN /\ ~IsEmpty(request)
     /\ IF client.wpending
        THEN client' = Remember(c, request, incremental, lost /\ ~client.stale)
        ELSE client' \in Answer(c, app, request, incremental)
     /\ UNCHANGED <<probe, app>>

SetEncodings(copyrect) ==
  /\ client' = [client EXCEPT !.copyrect = copyrect]
  /\ UNCHANGED <<probe, app>>

SetPixelFormat(converted) ==
  /\ client' = [client EXCEPT !.converted = converted, !.palette = ~converted]
  /\ UNCHANGED <<probe, app>>

\* The socket takes the rest of the message.
WriteReady ==
  /\ client.wpending
  /\ client' \in Pending([client EXCEPT !.wpending = FALSE], app)
  /\ UNCHANGED <<probe, app>>

Application ==
  \/ \E box \in Boxes : Draw(box) \/ Flush(box)
  \/ \E held \in BOOLEAN : SetDisplayFrame(held)
  \/ Acquire \/ Release
  \/ \E o \in Origins : SetOrigin(o)
  \/ SetPalette \/ DirectWrite
  \/ \E m \in Modes : SetFlags(m[1], m[2])

Viewer ==
  \/ \E r \in Requests, incremental \in BOOLEAN : UpdateRequest(r, incremental)
  \/ \E b \in BOOLEAN : SetEncodings(b) \/ SetPixelFormat(b)
  \/ WriteReady

Next == Application \/ Viewer

Spec == Init /\ [][Next]_vars
-----------------------------------------------------------------------------
(***************************************************************************)
(* Properties.                                                             *)
(***************************************************************************)

\* A pixel that the viewer shows wrongly is remembered: it is in the dirty
\* rectangle, or, in asynchronous mode, waits for a flush.
Covered ==
  client.stale =>
    \/ In(probe, client.dirty) \/ (app.async /\ In(probe, client.fdirty))
    \/ client.loose \/ client.missed

\* What the viewer asked for is remembered until it is answered, and the
\* server sends nothing that was not asked for (RFB).
RequestKept == client.asked <=> ~IsEmpty(client.update)

\* While the viewer waits and the socket is free there is nothing to send:
\* each change is sent as soon as it can be.
NothingHeldBack ==
  client.asked /\ ~client.wpending =>
    /\ client.origin = app.origin
    /\ IsEmpty(Wanted(client, app, client.update))
=============================================================================
