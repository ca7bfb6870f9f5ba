------------------------------ MODULE VTSwitch ------------------------------
(***************************************************************************)
(* Console switching on Linux: the helper display/linvtsw, composed with   *)
(* the callbacks and the listener of display/fbdev (those of vgl and       *)
(* svgalib have the same form).                                            *)
(*                                                                         *)
(* The kernel sends one signal, SWITCHSIG, both for "the user wants to     *)
(* leave your console" and for "your console is shown again".  The helper  *)
(* tells the two apart by vt_switched_away alone.  The handler runs with   *)
(* all signals blocked, except while it halts the program.  The program    *)
(* may instead ask to be told (GGICMD_NOHALT_ON_UNMAP); then the handler   *)
(* only passes the request on, and release_vt runs in the program's own    *)
(* context, where the signal may interrupt it anywhere.                    *)
(*                                                                         *)
(* raced is a history variable: the windows in which a signal or a call    *)
(* came that the code has no protection against.  The properties say that  *)
(* nothing goes wrong but through one of these windows.                    *)
(***************************************************************************)
EXTENDS Naturals, Sequences, FiniteSets, SequencesExt

CONSTANTS
  Vis,      \* the visuals a program may open on the console
  NoVis,    \* no visual: its private data has been freed
  MaxKeys   \* bound: how often the user switches

ASSUME VisAssumption == NoVis \notin Vis
ASSUME KeysAssumption == MaxKeys \in Nat

VARIABLES
  console,        \* who is shown: "ours" or "other"
  newvt,          \* the kernel waits for our VT_RELDISP
  sig,            \* SWITCHSIG is pending (signals do not queue)
  process,        \* the VT is under our control (VT_PROCESS)
  plugged,        \* linvtsw: the visuals on the list vtvisuals
  owner,          \* linvtsw: whose private data vthandling points into
  away,           \* linvtsw: vt_switched_away
  switchpending,  \* linvtsw: a request has been passed on
  mapped,         \* fbdev: priv->ismapped
  pend,           \* fbdev: priv->switchpending
  autoswitch,     \* fbdev: priv->autoswitch
  dohalt,         \* fbdev: priv->dohalt
  main,           \* where the program is in release_vt or pause
  halting,        \* the program called release_vt to halt
  stack,          \* the invocations of switching_handler, the innermost last
  raced,          \* history: unprotected windows that have been hit
  keys            \* how often the user has switched

kernel == <<console, newvt, sig, process>>
helper == <<plugged, owner, away, switchpending>>
target == <<mapped, pend, autoswitch, dohalt>>
control == <<main, halting, stack>>
vars == <<kernel, helper, target, control, raced, keys>>

Races == {"stale", "merge", "store", "pause", "lostack", "openaway",
          "freed", "orphan"}
Frames == {"entry", "check", "topause", "paused"}
Places == {"idle", "reldisp", "clear", "set", "topause", "paused"}

TypeOK ==
  /\ console \in {"ours", "other"} /\ newvt \in BOOLEAN
  /\ sig \in BOOLEAN /\ process \in BOOLEAN
  /\ plugged \subseteq Vis /\ owner \in plugged \cup {NoVis}
  /\ process <=> plugged # {}
  /\ away \in BOOLEAN /\ switchpending \in BOOLEAN
  /\ mapped \in [Vis -> BOOLEAN] /\ pend \in [Vis -> BOOLEAN]
  /\ autoswitch \in [Vis -> BOOLEAN] /\ dohalt \in [Vis -> BOOLEAN]
  /\ main \in Places /\ halting \in BOOLEAN /\ stack \in Seq(Frames)
  /\ raced \subseteq Races /\ keys \in 0..MaxKeys

Init ==
  /\ console = "ours" /\ newvt = FALSE /\ sig = FALSE /\ process = FALSE
  /\ plugged = {} /\ owner = NoVis /\ away = FALSE /\ switchpending = FALSE
  /\ mapped = [v \in Vis |-> FALSE] /\ pend = [v \in Vis |-> FALSE]
  /\ autoswitch = [v \in Vis |-> FALSE] /\ dohalt = [v \in Vis |-> FALSE]
  /\ main = "idle" /\ halting = FALSE /\ stack = <<>> /\ raced = {} /\ keys = 0

Hit(window, when) == IF when THEN {window} ELSE {}

(***************************************************************************)
(* The kernel and the user.                                                *)
(***************************************************************************)

\* The user asks for another console, perhaps again before the first answer.
PressAway ==
  /\ process /\ console = "ours" /\ keys < MaxKeys
  /\ newvt' = TRUE /\ sig' = TRUE /\ keys' = keys + 1
  /\ UNCHANGED <<console, process, helper, target, control, raced>>

PressBack ==
  /\ process /\ console = "other" /\ keys < MaxKeys
  /\ console' = "ours" /\ sig' = TRUE /\ keys' = keys + 1
  /\ UNCHANGED <<newvt, process, helper, target, control, raced>>

\* ioctl VT_RELDISP with 1 or VT_ACKACQ: if the kernel waits for an answer
\* either lets the switch happen, otherwise neither changes anything.
Reldisp ==
  /\ console' = IF newvt THEN "other" ELSE console
  /\ newvt' = FALSE

(***************************************************************************)
(* The signal handler.                                                     *)
(***************************************************************************)

Top == stack[Len(stack)]
InHandler(frame) == stack # <<>> /\ Top = frame
ReplaceTop(frame) == stack' = Append(Front(stack), frame) /\ UNCHANGED main

\* The handler returns.  A pause() it interrupted returns too.
Return ==
  LET below == Front(stack) IN
  IF below = <<>>
  THEN /\ stack' = <<>>
       /\ main' = IF main = "paused" THEN "idle" ELSE main
  ELSE /\ stack' = IF Last(below) = "paused"
                   THEN Append(Front(below), "check") ELSE below
       /\ UNCHANGED main

\* The signal is not blocked (SA_NOMASK) until the handler's first call, nor
\* while it halts the program.
Deliver ==
  /\ sig /\ process
  /\ sig' = FALSE
  /\ stack' = Append(stack, "entry")
  /\ raced' = raced \cup Hit("store", main \in {"clear", "set"})
                    \cup Hit("pause", \/ InHandler("topause")
                                      \/ stack = <<>> /\ main = "topause")
  /\ UNCHANGED <<console, newvt, process, helper, target, main, halting, keys>>

\* What *vthandling.autoswitch or *vthandling.dohalt reads: anything once the
\* visual it points into is gone.
Flag(flag) == IF owner = NoVis THEN BOOLEAN ELSE {flag[owner]}

\* Mutant: only the first visual is told.
SwitchingFirstOnly ==
  /\ mapped' = [v \in Vis |-> mapped[v] /\ v # owner]
  /\ pend' = [v \in Vis |-> pend[v] /\ v \notin plugged]

\* A program that uses one of these visuals asked to be told of requests
\* (GGICMD_NOHALT_ON_UNMAP), so that it owes an acknowledgement.
AnyAsked(visuals) == \E v \in visuals : ~autoswitch[v]

\* The callback switching of every visual.
Switching ==
  /\ mapped' = [v \in Vis |-> mapped[v] /\ v \notin plugged]
  /\ pend' = [v \in Vis |-> pend[v] /\ v \notin plugged]

\* Mutant: the handler does not note that the console is back.
HandlerAcquireForgetful ==
  /\ InHandler("entry") /\ away
  /\ Reldisp
  /\ mapped' = [v \in Vis |-> mapped[v] \/ v \in plugged]
  /\ UNCHANGED away
  /\ Return
  /\ raced' = raced \cup Hit("merge", newvt)
  /\ UNCHANGED <<sig, process, plugged, owner, switchpending, pend,
                 autoswitch, dohalt, halting, keys>>

HandlerAcquire ==
  /\ InHandler("entry") /\ away
  /\ Reldisp
  /\ mapped' = [v \in Vis |-> mapped[v] \/ v \in plugged]
  /\ away' = FALSE
  /\ Return
  /\ raced' = raced \cup Hit("merge", newvt)
  /\ UNCHANGED <<sig, process, plugged, owner, switchpending, pend,
                 autoswitch, dohalt, halting, keys>>

HandlerAlreadyPending ==
  /\ InHandler("entry") /\ ~away /\ switchpending
  /\ Return
  /\ UNCHANGED <<kernel, helper, target, halting, raced, keys>>

\* Mutant: the handler leaves its own request pending.
HandlerReleaseForgetful ==
  /\ InHandler("entry") /\ ~away /\ ~switchpending
  /\ TRUE \in Flag(autoswitch)
  /\ Switching /\ Reldisp
  /\ away' = TRUE /\ switchpending' = TRUE
  /\ \/ TRUE \in Flag(dohalt) /\ ReplaceTop("check")
     \/ FALSE \in Flag(dohalt) /\ Return
  /\ raced' = raced \cup
       Hit("stale", sig \/ \E i \in 1..Len(stack) - 1 : stack[i] = "entry")
  /\ UNCHANGED <<sig, process, plugged, owner, autoswitch, dohalt, halting,
                 keys>>

\* The handler answers at once and, if the program wants it, halts.
HandlerRelease ==
  /\ InHandler("entry") /\ ~away /\ ~switchpending
  /\ TRUE \in Flag(autoswitch)
  /\ Switching /\ Reldisp
  /\ away' = TRUE /\ switchpending' = FALSE
  /\ \/ TRUE \in Flag(dohalt) /\ ReplaceTop("check")
     \/ FALSE \in Flag(dohalt) /\ Return
  /\ raced' = raced \cup
       Hit("stale", sig \/ \E i \in 1..Len(stack) - 1 : stack[i] = "entry")
  /\ UNCHANGED <<sig, process, plugged, owner, autoswitch, dohalt, halting,
                 keys>>

\* The handler passes the request on (switchreq of every visual).
HandlerRequest ==
  /\ InHandler("entry") /\ ~away /\ ~switchpending
  /\ FALSE \in Flag(autoswitch)
  /\ switchpending' = TRUE
  /\ pend' = [v \in Vis |-> pend[v] \/ v \in plugged]
  /\ Return
  /\ raced' = raced \cup Hit("freed", ~AnyAsked(plugged))
  /\ UNCHANGED <<kernel, plugged, owner, away, mapped, autoswitch, dohalt,
                 halting, keys>>

\* while (vt_switched_away) pause();
HaltCheck ==
  /\ InHandler("check")
  /\ IF away THEN ReplaceTop("topause") ELSE Return
  /\ UNCHANGED <<kernel, helper, target, halting, raced, keys>>

HaltPause ==
  /\ InHandler("topause")
  /\ ReplaceTop("paused")
  /\ UNCHANGED <<kernel, helper, target, halting, raced, keys>>

Handler ==
  \/ HandlerAcquire \/ HandlerAlreadyPending \/ HandlerRelease
  \/ HandlerRequest \/ HaltCheck \/ HaltPause

(***************************************************************************)
(* The program.                                                            *)
(***************************************************************************)

Running == stack = <<>> /\ main = "idle"

\* GGIopen of the target, which plugs the helper.  Only the first visual
\* opens the VT and leaves its flags with the helper.
Open(v) ==
  /\ Running /\ v \notin plugged
  /\ plugged' = plugged \cup {v}
  /\ mapped' = [mapped EXCEPT ![v] = TRUE]
  /\ pend' = [pend EXCEPT ![v] = FALSE]
  /\ autoswitch' = [autoswitch EXCEPT ![v] = TRUE]
  /\ dohalt' = [dohalt EXCEPT ![v] = TRUE]
  /\ IF plugged = {}
     THEN process' = TRUE /\ away' = FALSE /\ owner' = v
     ELSE UNCHANGED <<process, away, owner>>
  /\ raced' = raced \cup Hit("openaway", plugged # {} /\ away)
  /\ UNCHANGED <<console, newvt, sig, switchpending, control, keys>>

\* Mutant: the last visual does not give the VT back.
CloseKeepingControl(v) ==
  /\ Running /\ v \in plugged /\ ~sig
  /\ plugged' = plugged \ {v}
  /\ mapped' = [mapped EXCEPT ![v] = FALSE]
  /\ pend' = [pend EXCEPT ![v] = FALSE]
  /\ owner' = IF owner = v THEN NoVis ELSE owner
  /\ IF plugged = {v}
     THEN process' = process /\ newvt' = FALSE /\ console' = "ours"
     ELSE UNCHANGED <<process, newvt, console>>
  /\ LET told == {w \in plugged \ {v} : pend[w]} IN
     raced' = raced \cup Hit("lostack", pend[v] /\ told = {})
                    \cup Hit("orphan", told # {} /\ ~AnyAsked(told))
  /\ UNCHANGED <<sig, away, switchpending, autoswitch, dohalt, control, keys>>

\* GGIclose of the target.  The last one gives the VT back: the kernel
\* forgets its request, and a switch needs no answer any more.  A signal that
\* is already pending is handled before.
Close(v) ==
  /\ Running /\ v \in plugged /\ ~sig
  /\ plugged' = plugged \ {v}
  /\ mapped' = [mapped EXCEPT ![v] = FALSE]
  /\ pend' = [pend EXCEPT ![v] = FALSE]
  /\ owner' = IF owner = v THEN NoVis ELSE owner
  /\ IF plugged = {v}
     THEN process' = FALSE /\ newvt' = FALSE /\ console' = "ours"
     ELSE UNCHANGED <<process, newvt, console>>
  /\ LET told == {w \in plugged \ {v} : pend[w]} IN
     raced' = raced \cup Hit("lostack", pend[v] /\ told = {})
                    \cup Hit("orphan", told # {} /\ ~AnyAsked(told))
  /\ UNCHANGED <<sig, away, switchpending, autoswitch, dohalt, control, keys>>

NoHaltOnUnmap(v) ==
  /\ Running /\ v \in plugged
  /\ autoswitch' = [autoswitch EXCEPT ![v] = FALSE]
  /\ dohalt' = [dohalt EXCEPT ![v] = FALSE]
  /\ UNCHANGED <<kernel, helper, mapped, pend, control, raced, keys>>

\* priv->doswitch, that is release_vt, up to its ioctl.
DoSwitch(then) ==
  /\ halting' = then
  /\ IF away
     THEN main' = (IF then THEN "topause" ELSE "idle") /\ UNCHANGED <<mapped, pend>>
     ELSE main' = "reldisp" /\ Switching

AcknowledgeSwitch(v) ==
  /\ Running /\ v \in plugged /\ pend[v]
  /\ DoSwitch(FALSE)
  /\ UNCHANGED <<kernel, helper, autoswitch, dohalt, stack, raced, keys>>

HaltOnUnmap(v) ==
  /\ Running /\ v \in plugged
  /\ autoswitch' = [autoswitch EXCEPT ![v] = TRUE]
  /\ dohalt' = [dohalt EXCEPT ![v] = TRUE]
  /\ IF pend[v] THEN DoSwitch(TRUE)
     ELSE UNCHANGED <<mapped, pend, main, halting>>
  /\ UNCHANGED <<kernel, helper, stack, raced, keys>>

ReleaseIoctl ==
  /\ stack = <<>> /\ main = "reldisp"
  /\ Reldisp /\ main' = "clear"
  /\ UNCHANGED <<sig, process, helper, target, halting, stack, raced, keys>>

\* Mutant: release_vt leaves the request pending.
ReleaseClearForgetful ==
  /\ stack = <<>> /\ main = "clear" /\ ~sig
  /\ UNCHANGED switchpending /\ main' = "set"
  /\ UNCHANGED <<kernel, plugged, owner, away, target, halting, stack, raced,
                 keys>>

\* A signal that is already pending comes first: the ioctl has returned.
ReleaseClear ==
  /\ stack = <<>> /\ main = "clear" /\ ~sig
  /\ switchpending' = FALSE /\ main' = "set"
  /\ UNCHANGED <<kernel, plugged, owner, away, target, halting, stack, raced,
                 keys>>

\* Mutant: release_vt does not note that the console is away.
ReleaseSetForgetful ==
  /\ stack = <<>> /\ main = "set" /\ ~sig
  /\ UNCHANGED away
  /\ main' = IF halting THEN "topause" ELSE "idle"
  /\ UNCHANGED <<kernel, plugged, owner, switchpending, target, halting,
                 stack, raced, keys>>

ReleaseSet ==
  /\ stack = <<>> /\ main = "set" /\ ~sig
  /\ away' = TRUE
  /\ main' = IF halting THEN "topause" ELSE "idle"
  /\ UNCHANGED <<kernel, plugged, owner, switchpending, target, halting,
                 stack, raced, keys>>

ProgramPause ==
  /\ stack = <<>> /\ main = "topause"
  /\ main' = "paused"
  /\ UNCHANGED <<kernel, helper, target, halting, stack, raced, keys>>

Release == ReleaseIoctl \/ ReleaseClear \/ ReleaseSet \/ ProgramPause

Program ==
  \E v \in Vis : Open(v) \/ Close(v) \/ NoHaltOnUnmap(v)
                 \/ AcknowledgeSwitch(v) \/ HaltOnUnmap(v)

Next == PressAway \/ PressBack \/ Deliver \/ Handler \/ Release \/ Program

\* The kernel delivers signals and runs the program; a visual that asked not
\* to be halted acknowledges requests, as ggi-types.h demands of the program.
\* One that never asked owes no answer, even if it is told of a request.
\* Nothing makes the user switch or the program open and close visuals.
Fairness ==
  /\ WF_vars(Deliver) /\ WF_vars(Handler) /\ WF_vars(Release)
  /\ WF_vars(\E v \in Vis : ~autoswitch[v] /\ AcknowledgeSwitch(v))

Spec == Init /\ [][Next]_vars /\ Fairness
-----------------------------------------------------------------------------
(***************************************************************************)
(* Properties.                                                             *)
(***************************************************************************)

\* None of these windows has been hit.
Unhit(windows) == raced \cap windows = {}

\* No signal is under way, and the program is not inside release_vt.
Quiet ==
  /\ ~sig /\ main \in {"idle", "topause", "paused"}
  /\ \A i \in 1..Len(stack) : stack[i] # "entry"

\* The helper tells a release from an acquire by vt_switched_away alone, so
\* it must agree with the kernel whenever no signal is under way
\* (switching_handler, release_vt).  Three windows break it: a second release
\* signal taken for an acquire, an acquire signal that merges with the next
\* release, and an acquire that comes before release_vt has stored the flag.
FollowsConsole ==
  process /\ Quiet /\ Unhit({"stale", "merge", "store"})
    => (away <=> console = "other")

\* While another console is shown every visual knows that it is unmapped:
\* the callbacks run before the kernel gets its answer, and those that map a
\* visual again only once the console is back (ggi-types.h: the display is
\* unmapped, the application must not draw).
UnmappedWhileAway ==
  console = "other" /\ Unhit({"stale", "merge", "openaway"})
    => \A v \in plugged : ~mapped[v]

\* A request of the kernel is never forgotten: its signal is under way, or a
\* visual has been asked and its acknowledgement will be heard
\* (switchpending of the helper and of the target agree).
RequestHeard ==
  process /\ newvt /\ Quiet /\ Unhit({"store", "lostack"})
    => switchpending /\ \E v \in plugged : pend[v]

\* The user's request is answered, by the handler or by a program that asked
\* to be told.  It is not if nobody owes the answer: the flag of a closed
\* visual passed the request on to others that never asked, or the one that
\* asked was closed with the request unanswered.
RequestAnswered ==
  newvt ~> ~newvt \/ ~Unhit({"store", "pause", "lostack", "freed", "orphan"})

\* A program that is halted runs again once its console is shown, unless the
\* user leaves again: the handler's pause() is interrupted by the acquire
\* signal, and only a signal that comes between the test and pause() is lost.
ProgramResumes ==
  process /\ console = "ours" ~>
    \/ Running \/ newvt \/ console = "other" \/ ~process
    \/ ~Unhit({"stale", "merge", "store", "pause"})

=============================================================================
