# Verification of LibGGI in TLA+

LibGGI is a drawing library. An application opens a *visual* (a window, a
console, a network screen, a block of memory), sets a mode, and draws; a *target*
under `display/` shows what is drawn. This project models the parts of the library
where that is hard to get right: what the X and the VNC target believe the other
side already shows, how the X target fakes a synchronous mode with a periodic task,
how a program on a Linux console lets the user switch away and back, how the
libraries behind a visual are loaded and unloaded, how tiles are encoded for a
viewer that remembers some of what it was sent, and how a renderer moves pixels
that share a byte.

Run everything from this directory: `tlc -config <file>.cfg <module>` for a run of
the table in section 3, and `tlapm <module>.tla` for the proofs, with the modules
`XDirty_proofs`, `XSync_proofs`, `VisualDL_proofs`, `VTSwitch_proofs`, `VncUpdate_proofs`,
`VncEncode_proofs`, `VncShown_proofs` and `Linear4_proofs` (the last three take three to
five minutes each).

## 1. Inventory of the system

| Component | State | Operations | Interaction | What is hard, what is correct |
|---|---|---|---|---|
| X target, buffered drawing (`display/X/buffer.c`, `box.c`, `pixel.c`, `hline.c`, `vline.c`, `line.c`, `fillscreen.c`, `gtext.c`, `x.h`) | frame buffer in a slave memory visual, dirty rectangle, read/write/display frame, curactype of each frame's resource | all drawing calls in two variants, flush, expose, frame switches, DirectBuffer acquire and release | core stubs call it; expose events come through LibGII; mansync asks for flushes | one rectangle stands for any set of pixels; a pixel it forgets is never shown |
| X target, synchronous mode (`display/mansync`, `visual.c`, `listener.c`, `helper/shm`) | `isasync`, `ignore`, `running`, the task, `flushlock`, `xliblock`, flags | init, deinit, start, stop, ignore, cont, setflags, lock, unlock | a libgg task in a signal handler or a thread, against the application's calls | muting is by hand and nested, two locks, start and stop from four places |
| X target, open, mode, close (`visual.c`, `mode.c`) | windows, visuals, colormaps, helpers | GGIopen, checkmode, setmode, GGIexit, GGIclose | loads renderers through the core, runs with xliblock held | many steps that can fail half-way |
| Libraries of a visual (`ggi/dl.c`, `ggi/visual.c`) | four lists of operations' providers, the master list, use counts | _ggiAddDL, _ggiExitDL, _ggiZapDL, _ggiCloseDL, _ggiZapMode | ggiOpen, setmode of every target, ggiClose | shared handles, order of exit and close, a display that also draws |
| Core stubs, GC, modes (`ggi/stubs.c`, `gc.c`, `mode.c`) | GC, mode | argument checks, ggiSetMode's clearing of all frames | call the target | boundary values |
| DirectBuffer lists (`ggi/db.c`, `display/X/dbs.inc`) | two arrays of buffers, index of the target's own | add, delete, move, find | targets fill them at setmode | index arithmetic, nested acquires |
| Colormaps (`ggi/colormap.c`, `display/X/color.c`) | palette, dirty range | set, get, match, flush | flushed with the display | range bookkeeping |
| Extensions (`ggi/ext.c`) | registered extensions, private slots | register, attach, detach | every open visual | counts per visual |
| Visual list (`ggi/init.c`) | list of open visuals, init count | ggiInit, ggiOpen, ggiClose, ggiExit | holds a mutex in part | list walked without its mutex |
| Console switching (`display/linvtsw`, callbacks and listener of `display/fbdev`) | `vt_switched_away`, `switchpending`, the list of visuals, one pointer into the first visual's flags; per visual `ismapped`, `switchpending`, `autoswitch`, `dohalt` | signal handler, release_vt, open, close, acknowledge, halt | kernel signals, targets' callbacks, the application's acknowledgement | one signal with two meanings, signals between any two steps, pause() |
| VNC target (`display/vnc/rfb.c`, `rect.h`, `copyrect.c`, `buffer.c`, `mode.c`) | per client: dirty and flushed-dirty rectangle, waiting request, origin of the last update, pending write | handshake, update requests, encodings, pixel format, write-ready; draw, flush, pan, frames, DirectBuffers | LibGII calls it when the socket is ready; the drawing calls invalidate | a request that waits, a socket that blocks, panning by copyrect; no wrong pixel is forgotten, nothing is held back |
| VNC target: encoders (`trle.c`, `zrle.c`, `hextile.c`, `zlibhex.c`, `rre.c`, `corre.c`, `tight.c`, `raw.c`, `zlib.c`) | per client: palette of TRLE, colours of Hextile, deflate streams | one call per update rectangle | called by an update, write into the client's buffer | the encoder leaves out what the viewer remembers; room is reserved before the form is chosen |
| tele, ipc, tile, sub, palemu, trueemu, aa, quartz, directx, fbdev, kgi, svgalib and others | own buffers or devices | the display operations | child visuals, sockets, devices | mostly forwarding; several use mansync |
| Renderers (`default/`, here `linear_4` and the box loops of `stubs`) | none but the frame buffer | draw, put, get, copy; pixel loops per memory layout | called by targets | two pixels per byte: alignment, clipping and overlap together |

`PROJECT.json` lists every component with its sources, and the hazards at the
lines where they bite.

## 2. Modules

| Module | Models |
|---|---|
| `XDirty` | the dirty rectangle and the frames of the buffered X target |
| `XSync` | mansync, the two locks, flags, and the calls that use them |
| `VisualDL` | the libraries of a visual |
| `DLLifecycle` | what a library may rely on: opened, exited, closed; `VisualDL` implements it |
| `VTSwitch` | console switching: the kernel, the helper `linvtsw`, the visuals of `display-fbdev` and the program |
| `VncRect` | the operations on rectangles of `display/vnc/rect.h` |
| `VncUpdate` | what the VNC target has to send to a viewer, and when |
| `VncTile`, `VncTrle`, `VncHextile` | the tile encoders of the VNC target, and how a viewer reads their messages |
| `VncEncode` | a client that is sent tiles through them, and its viewer |
| `Canvas` | what drawing, putting, getting and copying pixels means, without a layout; `Linear4` implements it |
| `Linear4` | the renderer for two pixels per byte, with the box loops of `default/stubs` |
| `XDirty_proofs`, `XSync_proofs`, `VisualDL_proofs`, `VTSwitch_proofs`, `VncUpdate_proofs`, `VncEncode_proofs`, `VncShown_proofs`, `Linear4_proofs` | theorems and their proofs |
| `MCXDirty`, `MCXSync`, `MCVisualDL`, `MCVTSwitch`, `MCVncUpdate`, `MCVncEncode`, `MCLinear4` | values of the constants for TLC |

### XDirty

What a pixel holds does not matter; whether the buffer and the server agree on it
does. The state is the set `stale` of pixels on which they do not, next to the
code's own `dirtytl`/`dirtybr` (`region`), frame numbers, the frames held for
writing (`held`) and the clipping rectangle. The macros `GGI_X_DIRTY` and
`GGI_X_CLEAN` are translated comparison by comparison, the flush with its two
branches (`SendsAll`: everything asked for; otherwise the intersection with the
rectangle), and each drawing call in the variant the target installs
(`_ggi_x_load_slaveops`): with a drawable (`accel`) a draw reaches buffer and
window and cleans, a put reaches the buffer only and dirties; without one
everything dirties. The latter is `-noaccel`, which leaves `priv->drawable` empty; only
the DGA helper then provides something an image can be put into, its pixmap, and it has
one frame (`TargetAssumption`). Operations that do the same to this state share an action
(`DrawBox` stands for boxes, pixels and horizontal and vertical lines). A line is
followed by its two end pixels.

An XPutImage brings the server up to date for the pixels it names as far as the XImage
reaches (`ImagePixels`): that of the SHM helper (`Shm`) spans all frames, that of
`buffer.c` is one frame high although the flush asks for rows of the write frame, and
beyond its last row Xlib sends nothing. A full flush with tryflag 2 (an expose, or a pending flush while the write frame is
held) is not translated to the write frame, and neither is it in the model:
`WindowPixels`. Coordinates of requests and draws, clipping rectangles included,
are enumerated beyond the screen's edges, so that clipping and refusal happen.

`unfilled` is a history variable: the pixels that an unclipped ggiFillscreen of another
frame than 0 left stale (section 5), and still are. The clearing of all frames by
ggiSetMode does that to every frame but 0, so several frames begin so. The properties
leave these pixels out, by this name and no other.

`AppHasFlushed` is the one obligation of the application: in tidy mode it flushes
what it wrote before it releases the frame (`doc/libggi-functions.txt`, "Tidy
buffer mode"). A held frame is not acquired again before its release.

### XSync

Two actors. The mansync task looks at `ignore` and `isasync` (`TaskCheck`) and
later posts its request by unlocking `flushlock` (`TaskPost`). The application
runs one call at a time; a call is a sequence of steps in `todo`, and the task may
run between any two. `unlock_xlib` puts the steps of a nested flush in front of
what is left when it finds a request. `signals` says which libgg scheduler is
used and is chosen in `Init`: with signals, the handler runs to its end before the
application goes on; with threads, the application runs on while the task is
between its check and its post, and `ggDelTask` waits for it.

Of the screen there is one bit per frame (`unseen`: it has changed and the window has
not), of the region one bit (`dirty`); XDirty is the module about them. `Shm` selects the
flush of the SHM helper or the one of `buffer.c`. They differ in the height of the image
(`Shown`) and in one line: the latter does not call `MANSYNC_cont` after a whole put in
tidy mode. `dropped` is a history variable: the frames that ggiSetWriteFrame has left in
tidy mode with changes unseen, whose region it has emptied. `Apart` is about the
application: it never holds a DirectBuffer for writing while it asks for the
asynchronous and the tidy mode together. All four combinations of the two flags are
passed. `setmode` is modelled on its successful path, with
the clearing of all frames that ggiSetMode does after it. LibGII's event poll is
external: it takes and releases the lock through the two functions GGIopen hands
to it, and delivers expose events with the lock held.

### VisualDL and DLLifecycle

`list` is the four lists of handles, `master` the handles allocated, `usecnt`
their counts. Opening, and each of the steps of `_ggiCloseDL`, one list at a time
with all exit functions first, is an action. The kinds a library provides are a
constant; that every library provides some is the assumption (`_ggiAddDL` refuses
the others). `generic_ext` is left out: nothing in the tree puts a library there.

`DLLifecycle` is the abstract specification: a handle is `none`, `open` or
`exited`, and only an exited library is closed. `VisualDL` implements it under the
mapping `life`, which reads the state off `master` and `exited`.

### VTSwitch

The kernel sends one signal both for "the user wants to leave your console" and for
"your console is shown again"; the helper tells them apart by `vt_switched_away`.
The handler runs with signals blocked, except while it halts the program in
`while (vt_switched_away) pause()`, where it can be interrupted by itself: `stack`
holds its invocations. A program that asked not to be halted
(GGICMD_NOHALT_ON_UNMAP) is only told, and runs `release_vt` in its own context; there
each of the ioctl and the two assignments is a step that the signal may precede or
follow. The list of visuals, the callbacks of each, and `vthandling`, which points
into the private data of the visual opened first, are as in the code; what is read
through the pointer after that visual was closed is any value (`Flag`).

`raced` is a history variable. The code has eight windows in which a signal or a call
meets no protection: `stale` (a second release signal is taken for an acquire),
`merge` (an acquire and the next release become one signal), `store` (a signal
between the ioctl and the assignments of `release_vt`), `pause` (a signal between the
test and `pause()`), `lostack` (the only visual that was asked closes before it
acknowledges), `openaway` (a visual is opened while another console is shown), `freed` (a
request is passed on although no visual asked to be told, on what is read through
`vthandling` after its visual was closed) and `orphan` (a visual that asked closes, and
the request is left to visuals that did not). Each
property excludes, by name, only the windows that break it: it says that nothing goes
wrong in any other way.

### VncRect and VncUpdate

`VncRect` translates the rectangle operations comparison by comparison. `VncUpdate`
is a server of one viewer. The state of the client is the code's own `dirty`,
`fdirty`, `update`, `origin`, `wpending` (`write_pending`), `copyrect`, `palette`, and
whether the viewer has a pixel format of its own. All handlers run in one thread, so
each is one step, with everything it calls: an update request may be answered at once
(`Answer`), wait for a change (`Kept`), or be remembered because the last message is
still being written (`Remember`); every change looks at the waiting request
(`Pending`). An answer may leave the socket blocked: `Written` is a choice.

The code treats all pixels alike and knows rectangles only, so what the viewer shows
is followed for one pixel of the frame, the probe, which is any pixel and never
changes. It is `stale` when the viewer shows it and shows it wrongly. Two more
history fields say why a stale pixel may be unknown to the server: `loose` (written
through a DirectBuffer and not yet flushed or released, which the code cannot know) and
`missed`, the ways in which the code loses a pixel: a full update after the origin was
moved leaves what the viewer shows outside the request (the question in the comment at
`rfb.c:1319`); a new display frame, palette or released DirectBuffer marks only the
area visible now though the viewer still shows an older one; and a request that has to
wait while a message is written adds an area of the screen to one of the frame
(`rfb.c:1299`). `Covered` shows that there is no other.

### VncTile, VncTrle, VncHextile and VncEncode

A tile is a rectangle of colours and a message a sequence of fields with their sizes
in bytes; byte orders, and which three of a pixel's four bytes are sent, are left out.
The code has a copy of each function for one, two, three and four bytes per pixel; the
number is a parameter. `VncTrle` has the scan for runs and palette, the choice among
the subencodings by estimated size (with the remembered palette in TRLE, without in
ZRLE), and the forms: raw, solid, packed indices, runs, runs of indices. `VncHextile`
has the scan for the most frequent colour with its three slots, the search for boxes
(Hextile paints a found box over, RRE and CoRRE remember how far boxes reach in each
column), the limits on their number, what is left out because the viewer has it, and
the way ZlibHex finds the length of a Hextile tile. Both have a viewer, external, that
reads the message as RFC 6143 says, with its memory of palette and colours.

`VncEncode` sends tiles one after the other. `ctx` is what the code keeps (palette,
background, foreground and whether they are known), `viewer` what the viewer remembers.
Assumptions about the viewer: after a raw, solid or plain-run tile of TRLE it has no
palette, otherwise it keeps it, also from one rectangle to the next; a coloured box of
Hextile may or may not become its foreground, as the comment in `hextile.c:547`
supposes.

### Canvas and Linear4

`Canvas` is abstract: frames are arrays of pixels, a call changes those of its box that
are inside the clipping rectangle, and a copy reads all its pixels, of the read frame, before
it writes to the write frame.
`Linear4` is the code: bytes as pairs of nibbles, the clipping of
`LIBGGICLIP_XYW` and its relatives with the offset into the application's buffer, the
aligned and the shifted loops of put and get, the two ways to copy a box with their
order of rows and of nibbles and bytes. `Screen!Spec` under the mapping `Picture` and
`Line` is a property: the loops implement the canvas. `DrawAssumption` is the
application's part: its buffer holds the longest line it draws, and a box is put or got
only when all of it is in the buffer (`Fits`). `AlignedAcross` says whether it copies from
one frame to another also between places in the same half of a byte, where the code
takes the pixels from the wrong frame (finding 4).

## 3. Runs

| Run | Bounds | Shows |
|---|---|---|
| `MCXDirty_frame` | 3 x 2 pixels, one frame, with a drawable (lines) or without (DGA; copies and text) | all five properties hold |
| `MCXDirty_frames` | 2 x 2 pixels, two frames, drawable, SHM image | `DirtyCoversStale`, `FlushServesRequest`, `LeaveFrameClean` hold across frame switches |
| `MCXDirty_copy` | 2 x 2, drawable, copies | `DirtyCoversStale` violated: finding |
| `MCXSync_shm` | two frames, all four flag words, SHM flush, `Apart` | all eight properties hold, two of them liveness |
| `MCXSync_expose` | one frame, synchronous and tidy mode, flush of `buffer.c` | `SyncShows` violated: finding |
| `MCVisualDL_libs` | three handles (symmetric), all combinations of kinds in the tree | all six properties hold |
| `MCVTSwitch_keys` | two visuals, the user switches four times (`MaxKeys`) | four invariants and two liveness properties hold |
| `MCVncUpdate_pan` | a screen of 2 x 2 in a frame of 3 x 3, two probes, one box, two requests, both flags or none | all four properties hold |
| `MCVncEncode_tiles` | all tiles of 3 x 1, 1 x 5, 2 x 2 in three and of 3 x 3 in two colours, and 23 larger ones in runs; palettes up to 17, run bytes up to 15; 1, 2, 4 bytes per pixel, 3 sent of the 4 | all four properties hold |
| `MCVncEncode_wide` | the same tiles, TRLE, pixels of four bytes | `ShownAsDrawn` violated: finding |
| `MCLinear4_calls` | 6 x 3 pixels, two frames, a buffer of 12 bytes, places from left of to right of the frame, two clipping rectangles, one call, not `AlignedAcross` | type (no write outside) and refinement hold |
| `MCLinear4_across` | the same with `AlignedAcross` | `ScreenSpec` violated: finding |

Why the bounds are enough. `GGI_X_CLEAN` distinguishes, in each direction, a box
before, over the start of, inside, over the end of, and after the region: "inside"
with something left on both sides needs three columns, which the first run has;
rows take the same code path with the two-row cases checked there and the
general case proved. Two frames suffice for what is asked of frames: the write
frame and another one; in `frames` the screen is smaller and the clipping rectangle stays
as it is, since the boxes are cut in the first run. In XSync nothing is counted; two
frames and all flag words give every combination of the conditions in the code. In
VisualDL three handles are enough for a display library, a renderer it shares a list with,
and one that shares no list; the theorems hold for any number.

In VTSwitch two visuals are the one the helper points into and another; four switches
are away, back, away, back, or a request repeated before the first is answered. In
VncUpdate the origin can move sideways, up and down and across, so that copyrect leaves
a column, a row, or both; the theorems hold for every size. In VncEncode the limits
127 (colours of a palette) and 255 (highest byte of a run's length) are constants, set
to 17 and 15: TLC could not fill a palette of 127, and with 17 there are still palettes
with 1, 2 and 4 bits per index and palettes too large to be packed. Every subencoding
and every form is reached, the raw ones and a Hextile tile that fills its room
exactly included. The format and the encoding do not change within a behaviour. In
Linear4 a renderer keeps no state but the pixels, and these are all different at the
start: one call from there shows what a call does, and all calls within the bounds are
made.

The runs of XDirty that pass leave out what the violations are about: with a drawable,
copies and text both mark a box clean that may not be (the first is the run `copy`), with
several frames the image of `buffer.c` is too low, and in tidy mode the rectangle is
dropped. Without a drawable ggiDrawLine is left out: its box is one too short. Section 5
has them all.

### Properties worth naming

- `DirtyCoversStale`: whatever came before, a pixel the server lacks is inside the
  dirty rectangle of the write frame. This is what makes flushing only the
  rectangle right; `FlushServesRequest` says so of every request.
- `LeaveFrameClean`: a frame switch or a release loses nothing.
- `MansyncMatchesMode`: between calls mansync runs exactly in synchronous mode
  with no tidy write frame held. Four entry points share the duty.
- `NotLeftMuted`, `CallsReturn`, `SyncShows`: ignores meet their conts, no call
  hangs, and what is drawn is shown.
- `StopAssertion`, `DeinitAssertion`: the assertions in `mansync.c`.
- `FollowsConsole`, `UnmappedWhileAway`, `RequestHeard`, `RequestAnswered`,
  `ProgramResumes`: the helper agrees with the kernel about whose console is shown, no
  visual believes it may draw while another console is, a request is neither forgotten
  nor left unanswered, and a halted program runs again.
- `Covered`, `RequestKept`, `NothingHeldBack`: a pixel shown wrongly is remembered, a
  request is kept until it is answered and nothing is sent unasked, and no handler
  leaves a waiting viewer something it should have been sent.
- `ShownAsDrawn`, `InStep`, `RoomSuffices`, `TakenApart`: the viewer shows what was
  drawn, the encoder's belief about the viewer's memory is true, a message does not
  exceed the room reserved before its form was known (but for very long runs in ZRLE,
  section 5), and ZlibHex cuts the messages
  of Hextile where they end.
- `ScreenSpec`: each call of the renderer is a call on the canvas.
- `UseCountExact`, `MasterListExact`, `DisplayStaysLoaded`, `DisplayClosedLast`,
  `LifecycleSpec`: no library is freed while listed, none is leaked, all exit
  before any is closed.

### Fairness

Only `XSync` and `VTSwitch` state fairness; the properties of the others are safety.

`VTSwitch` assumes that a pending signal is delivered (`WF(Deliver)`), that the
handler and the program's steps inside `release_vt` go on (`WF(Handler)`,
`WF(Release)`), and that a program which asked not to be halted acknowledges a request
it was told of, as `ggi-types.h` demands. Nothing makes the user switch, or the program
open, close or halt. A visual that never asked owes no acknowledgement: a request that
the helper passes on to such visuals only may wait for ever (`freed`, `orphan`).

`XSync` assumes: a call that has begun
runs on although signals interrupt it (strong fairness of its steps); a handler
that started ends (`WF(TaskPost)`); ticks are periodic, so a task that is unmuted
again and again is at some tick found unmuted (`SF(TaskCheck)`); and the
application polls for events again and again (`SF(CallPoll)`). The last one the
code cannot give: the task only posts a request, as the comment at
`mansync.c:75` explains, and an application that never calls the library again is
never flushed. The property says what an application with an event loop gets.

## 4. Proofs

`XDirty_proofs` proves, for every screen size, number of frames, target, mode and set of
inputs, type correctness and `RegionOnScreen` (`OnScreenAlways`: the rectangle lies in the
frame). Under `Dependable` it proves `DirtyCoversStale`, `FlushServesRequest` and
`LeaveFrameClean`. `Dependable` names the configurations in which the target's rectangle can
be relied on: not tidy; with a drawable, one frame or the SHM image, and no copies or text;
without (DGA), no lines. Outside it they fail, as finding 1 and the first observations of
section 5 show. The three properties say nothing of `unfilled` pixels: several frames with
a drawable have them from the start.

The inductive invariant is the conjunction of the type invariant, the rectangle on
the screen, the coverage property, and its complement: while the write frame is
held nothing is known of its pixels, but every stale pixel that is not `unfilled` is on
the write frame. The last conjunct is needed because a release or a frame switch flushes the
write frame only: without it, pixels of another frame could be stale after it. The
argument rests on lemmas about the macros, stated once: `GGI_X_DIRTY` returns a
rectangle that contains the old one and the box; `GGI_X_CLEAN` returns one that
contains everything of the old one outside the box; a flush leaves no stale pixel
of its request, where the image reaches all frames.

`XSync_proofs` proves type correctness, `MansyncMatchesMode`, `StopAssertion`,
`DeinitAssertion` and `TaskHasItsHook` for any number of frames and both schedulers. The
properties speak of the states between calls, or of one step; the inductive invariant,
`Orderly`, has to say in the middle of a call what the call still has to do to mansync.
`Course` says it by the shape of `todo`: quiet steps (locks, flushes, draws, muting), as
many as there are, and then an end that changes frame or flags, with mansync already as
it should be after that end; or the start or the stop that makes it so, with the steps
of the stop (mute, wait for the task) told apart; or the mode set with its clearing of all
frames, each of which is a change of the write frame while nothing is held. A nested
flush only puts quiet steps in front, so it changes nothing of this. `Linked` ties the
task to `running`, which is why a hook is never freed under it. All but the first of the
theorems assume `Apart`: the application holds no DirectBuffer for writing while it asks for
the asynchronous and the tidy mode together. Both modes together are allowed, and so are
DirectBuffers in each; without `Apart` the assertions are false (section 5).
`NeverLeftMuted` adds the assumption `Shm`, without which it is false too: that is finding
2. Its invariant `Unmuting` says that every ignore still to be done has a cont after it,
and that a muted mansync which is not stopped has a cont ahead. TLC checked both
invariants as invariants of `MCXSync_shm` first.

`VisualDL_proofs` proves type correctness, exact counts, the exact master list,
that the display stays loaded and goes last, and that `VisualDL` implements
`DLLifecycle`, for any finite or infinite set of handles and any assignment of
kinds. The invariant adds to the properties where `_ggiCloseDL` is: during the exit
phase the lists before `at` have exited, during the zap phase all lists up to `upto`
have and those before `at` are empty; and a display handle exists once the visual
is up. Cardinalities of sets of lists are handled by one lemma about removing
one list.

`CountsExact` and `MasterExact` are such properties of every step of every close, not
only of its end.

`VTSwitch_proofs` proves type correctness, `FollowsConsole`, `UnmappedWhileAway` and
`RequestHeard` for every set of visuals, every number of switches and every depth of
the stack. The properties speak of states in which no signal is under way; the
invariant has to say what a signal under way will find. `Away`: a signal that finds
the flag set is an acquire, so our console is shown, and a second one beside it means
that the user has left again. `Told`: a signal that finds neither flag set is a
request the kernel still has, and so is one that has been passed on. `Heard`: a
request that is passed on leaves somebody asked, or `release_vt` about to answer.
`Unstored` says that nothing has come in between while `release_vt` has its two
assignments to make. Each part holds only as long as the windows it names have not
been hit. The steps of the handler are reduced by lemmas about the stack to three
facts: whether a signal is under way, whether two are, and how either changes when the
innermost invocation has made its first test. `pause`, `freed`, `orphan` and `openaway`
do not break the invariant itself: the first three only matter to liveness, the last to
`UnmappedWhileAway`.

`VncUpdate_proofs` begins with the lemmas about rectangles: what a union, an intersection,
a shift and a subtraction contain. It proves type correctness, `Covered`, `RequestKept` and `NothingHeldBack` for every size of screen and frame,
every set of boxes and requests and every probe. The invariant is
`Inv == probe \in Probes /\ AppOK(app) /\ Good(client, app)`, where `Good` is the
conjunction of `Sound` (the types, `stale` only of a pixel the viewer shows, and
`Covered`), `KeptFor` (`RequestKept`) and `NotHeld` (`NothingHeldBack`). The last two rest on the
types in the first: that the rectangles lie inside the frame and the screen, and are
either `Empty` or not empty at all. The lemmas go up
from rectangles: copyrect's rectangle and the two stripes together are the screen
(`CopiedExact`, `BesideExact`, `AboveExact`, `StripesFill`), so an update of the parts
leaves nothing of the request stale (`PartsFill`, `SentUpdate`), so `Pending` and
`Answer` are sound (`PendingSound`, `AnswerSound`); then one lemma per action.

`Linear4_proofs` proves that no call writes outside a frame or the buffer, and that
`Linear4` implements `Canvas`, both for every size of the frame and the buffer, all
clipping rectangles within the frame, and all places and sizes. The second assumes
`~AlignedAcross`, without which it is false (finding 4). The invariant is only
that frames and buffer keep their types; what takes the room is that one step is one
call of the canvas. The lemmas go up in four layers.

- Bytes and colours: `Painted` says of a store which of its colours a write gives which
  value and that it leaves the others; a memset or a memcpy with its dangling nibbles
  (`LinePaints`, `AlignedPaints`), the shifting loops (`ShiftedPaints`, `GetShiftedPaints`)
  and a copied row (`CopiedLinePaints`, in both orders of its three parts) are each one
  such statement.
- Pixels: `Places` says that different pixels of the screen are different colours of the
  frame, the stride being rounded up, so that painting a segment changes just the pixels
  of a row (`LineChanges`).
- Loops: the recursive function in `Repeat` is not reasoned about by the library's
  induction, whose theorems take an operator as a parameter; `Climb` gets the induction
  step for a set of numbers from the least element of its complement, and `Repeats`
  makes of it that the function a loop defines exists when its steps stay in a set.
  `BlockChanges`, `BlockFetched` and `BlockCopied` are the loops over rows for drawing
  and putting, for getting, and for copying. In the last one, what is read must not have
  been written by an earlier row: `IntactRow` shows it from the order `Row` chooses.
- Calls: for each call, what it changes after clipping is what the canvas changes
  (`DrawMaps`, `PutMaps`, `GetMaps`, `CopyMaps`), an empty clip included.

So the mutants of the runs, a line that is a pixel too long and rows always copied from
the top, break lemmas of the first and the third layer.

`VncEncode_proofs` proves `InStep` and `TakenApart` for all tiles of integer colours, all
pixel sizes, both limits on palettes and run bytes, and every order of tiles; and
`RoomSuffices` for the value 255 that `MaxByte` has in the code, leaving out TRLE with
pixels of four bytes, where the palette of finding 3 comes on top. `InStep`
needs an invariant only in so far as the palette must stay a sequence of colours
(`MemoryInv`); the work is in the lemmas about one tile.

- For TRLE, `SelectIs` says what a choice by estimates can be: of every form with a
  palette it gives the number of colours that the viewer will read from the subencoding
  (`ColorsIs`), and if that form has the remembered palette, it was chosen by the length of
  one that the tile can do with. `PaletteRead` is that a palette that was sent is read as
  it was sent, whatever follows it; `TrleInStep` puts these together. The bytes sent in
  excess with pixels of four bytes (finding 3) spoil the picture but not the memory.
- For Hextile, `FlagsRead` and `FieldsAre` say that the viewer finds each flag and colour
  where the encoder put it, and `HextileInStep` goes through what either makes of it: raw
  tiles change nothing, a coloured box may leave any foreground at the viewer, and then
  the encoder relies on none. That a tile of two colours has a foreground and one of more
  has coloured boxes, never both (`UnknownIs`), is what keeps the two apart.
- For `TakenApart` the length of a message is taken apart as the message is
  (`SizeOfConcat`, `SizeOfFlatten`, `OpeningSize`, `ClosingSize`); `ByteAfter` shows that the
  number of boxes is the byte ZlibHex looks at, because no two parts of a message from its
  start are equally long (`TotalsGrow`).
- For `RoomSuffices` the lengths of the messages are compared with the room, encoding by
  encoding. In RRE, CoRRE and Hextile the limit on boxes is a quotient, and what is sent
  with as many boxes fits (`RreFits`, `LimitFits`, `HextileFits`). In TRLE and ZRLE a
  choice that is possible and not longer, by its estimate, than the raw tile is `Paid` for
  (`SelectPays`, `SelectFreshPays`); packed indices are as long as estimated
  (`PackedFits`), and runs are counted (`RunsSize`) together with the pixels they stand
  for. The estimate of runs of indices can be too low even when no run has more than 510
  pixels, 9/4 bytes for a length of two bytes and an index; what saves the room is that a
  run of so many pixels would have taken far more raw than the whole palette does
  (`IndexedFits`). This is where 255 counts.

The scans and searches are recursive functions over the pixels. What is proved of them is
what every step keeps (`Climb` and `Repeats`, as in `Linear4_proofs`): that palettes, runs and
boxes are sequences of colours, runs and boxes. Which ones does not matter for these three
properties; it does for the next.

`VncShown_proofs` proves `ShownAsDrawn` for all tiles of integer colours, all formats and
every order of tiles, leaving out TRLE with pixels of four bytes, which finding 3
violates. Encoder and viewer are both recursive functions, one over the pixels of a tile,
the other over the fields of a message, so each form needs a statement that both keep,
and the theorem puts them together with `MemoryInv`: what is left out of a message is
what the viewer remembers.

- Boxes (RRE, CoRRE, Hextile): `Cuts` says of the boxes found so far that each covers
  only pixels of its own colour, which is not the background's, and is not empty. The
  searches of RRE and Hextile differ in what they remember of the pixels done; each has an
  invariant (`Cutting`, `Rectifying`) that a pixel the search has come past is covered or of
  the background's colour. It survives the cutting of a box, which grows only over pixels
  of one colour (`BoxFrom`). At its end the tile is `Pictured`, and painting the boxes over
  the background gives the pixels back (`PictureShows`). `RreShown` and `HextileShows` read the
  fields of a message back into those boxes, or find the tile raw.
- Runs (TRLE, ZRLE): `Spells` says that the runs up to some place spell the pixels up to
  there, and `RunsRead` that the viewer, whose runs have their length in several bytes,
  arrives at the same pixels, for plain runs and for runs of indices
  (`PlainRunsRead`, `PaletteRunsRead`).
- Palettes: an index only means something if the colour is in the palette. `SeenCollects`
  and `PaletteCollects` show that a scan that did not overflow has collected every colour
  of the tile, and `KnownHasAll` that the remembered palette is used only if it has them
  all; `IndexShows` that the first place of a colour is read as that colour.
- Packed indices: `DigitRead` shows, from sums of digits, that each index is read from its
  byte as it was put there, for all three widths, and `PackedRead` does the rows, which
  begin with a new byte each.
- `ChosenShows`, `TrleShows` and `ZrleShows` go through the forms the choice can take.

That a box grows only over its own colour, that a run ends where the colour changes, that
a scan looks at every pixel and that a row begins with a new byte are what a mistake in
these encoders would break, and each is a step of these proofs.

All proofs rest on the named assumptions of the modules about their constants, on
`Dependable`, `Apart`, `Shm`, `~AlignedAcross` and `MaxByte = 255` where the theorems name them, and on
nothing else.

With `ShownAsDrawn` every invariant and every action property of a run that passes, and
both refinements, are stated by a theorem. Only model-checked are the liveness properties,
`CallsReturn` and `SyncShows` of `XSync` and `RequestAnswered` and `ProgramResumes` of
`VTSwitch`, which the prover cannot reach; and there is nothing to prove of what the code
violates (section 5): the runs that end in a violation show it.

## 5. Findings

Four runs end in a violation of something the code, a comment or the documentation
says; `PROJECT.json` quotes the lines.

1. `display/X/box.c:117` (`MCXDirty_copy`): ggiCopyBox of pixels put but not flushed shows
   old pixels.
2. `display/X/buffer.c:405` (`MCXSync_expose`): an expose in synchronous tidy mode without
   SHM mutes mansync for good.
3. `display/vnc/trle.c:1112` (`MCVncEncode_wide`): with pixels that use all four bytes TRLE
   sends the remembered palette that it says it does not send.
4. `default/linear_4/copybox.c:103` (`MCLinear4_across`): an aligned copy reads the write
   frame, not the read frame.

Observations that the models show and no run is kept for, with the change of a
configuration or a property that lets TLC find one where a change is needed:

- `display/X/fillscreen.c:106`: ggiFillscreen without clipping fills frame 0 of the window,
  whatever the write frame, and so does the clearing of all frames by ggiSetMode
  (`MCXDirty_frames` without `unfilled` in `DirtyCoversStale`).
- `display/X/gtext.c:101`: ggiPutc with a drawable marks the whole cell clean though only the
  part inside the clipping rectangle is drawn (`MCXDirty_frame` with ggiPutc in
  `Calls[TRUE]` violates `FlushServesRequest`).
- `display/X/line.c:41`: ggiDrawLine without a drawable marks a box that lacks a row and a
  column (ggiDrawLine in `Calls[FALSE]`, the same property).
- `display/X/buffer.c:239`: without SHM the image is one frame high, so that a flush of
  another frame than 0 sends nothing and empties the rectangle (`MCXDirty_frames` with `Shm`
  FALSE, the same property).
- `display/X/buffer.c:152`: in tidy mode ggiSetWriteFrame drops the dirty rectangle, so that a
  later flush does not update what was put (`MCXDirty_frames` with `Tidy` TRUE, the same
  property; the manual says of this mode that "ggiFlushRegion(3) will always cause the
  requested region of the screen to be updated", `doc/libggi-functions.txt:1687`). In
  synchronous mode too, where the manual asks for no flush, it is never shown
  (`MCXSync_shm` without `dropped` in `SyncShows`).
- `display/X/buffer.c:44`: acquiring the write frame in the asynchronous and tidy mode
  together stops a mansync that does not run (`MCXSync_shm` with `Apart` FALSE violates
  `StopAssertion`, the assertion of `mansync.c:153`).
- `display/X/buffer.c:60` with `visual.c:725`: releasing it there starts mansync, and GGIexit
  frees its hook under the task (the same, `DeinitAssertion`).
- `display/vnc`: the ways named by `missed` (section 2) leave pixels wrong at the viewer
  until something else changes them.
- `display/linvtsw/visual.c`: the eight windows named by `raced`. Of `freed` the comment at
  `include/ggi/ggi-types.h:260` says that the event "is only sent if the application has
  explicitly requested GGICMD_NOHALT_ON_UNMAP", of `pause` the one at `visual.c:234` that "we
  rely on the acquire signal interrupting us" (`MCVTSwitch_keys` without the window in
  `RequestAnswered` or `ProgramResumes`).
- `display/vnc/zrle.c:130`: the estimate by which ZRLE chooses a form counts 9/4 bytes for
  the length of a run, but a run takes a byte more with every 255 pixels. In a tile of
  ZRLE, which has up to 64 x 64 pixels, a run can be longer than 510, and a message chosen by a
  tight estimate can then be longer than the tile sent raw, for which room is reserved.
  `RoomSuffices` leaves these tiles out (`LongRun`); without that, TLC finds one among the
  tiles of `MCVncEncode_tiles`. The tiles of TRLE are too small for such runs.
- `display/vnc/rfb.c:512`: a new pixel format does not reset the palette TRLE remembers,
  whose colours are in the old one. The format does not change in `VncEncode`.

## 6. Plan

Done: `XDirty`, `XSync`, `VisualDL` with `DLLifecycle`, `VTSwitch`, `VncRect` and
`VncUpdate`, the tile encoders with `VncEncode`, `Linear4` with `Canvas`; theorems
about all of them. Left, in order of what matters most:

1. The Tight encoder and a change of the pixel format between tiles; `VncUpdate` with the
   messages of desktop size and name, and the handshake.
2. `DBList`: `ggi/db.c` and `dbs.inc`, with nested acquires and the error paths of
   createfb, composed with `VisualDL` into the mode set of a visual.
3. The other packed renderers (`linear_1`, `linear_2`), which implement the same
   `Canvas`.
4. `Colormap` and `Extension`: range and slot bookkeeping; the list of visuals.

## 7. Not modelled, and why

The unbuffered X drawing functions keep no state. The renderers with whole bytes per
pixel are plain loops, and the accelerated ones register programming; so are the
hardware targets. Memory and file targets are input and output. The programs and tests
are users of the library. Of the VNC target, the handshake and its authentication, desktop
size and name, WMVi, input events and the second client are left out: they share nothing
with what an update sends but the output buffer; raw is a copy of memory, and deflate
belongs to zlib. Choosing and activating a console and its keyboard and graphics modes
are system calls with no state of the library's. Threads that call one visual
concurrently are outside what LibGGI promises. The failure paths of setmode, allocation
failures and a failing ggAddTask are hazards with a note in `PROJECT.json`.
