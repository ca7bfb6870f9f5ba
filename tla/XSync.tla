------------------------------- MODULE XSync -------------------------------
(***************************************************************************)
(* Synchronous mode of the X target (display/X with the mansync helper).   *)
(*                                                                         *)
(* X has no synchronous mode, so LibGGI fakes one: a periodic libgg task   *)
(* (mansync) asks for a flush.  The task may run in a signal handler, so   *)
(* it never touches Xlib: it unlocks `flushlock', and the application's    *)
(* next GGI_X_UNLOCK_XLIB finds the lock free, takes it back and flushes.  *)
(* Two actors share this state: the application, which runs one library    *)
(* call at a time, and the task.  A call is the sequence `todo' of the     *)
(* steps it has left, so that the task can run between any two of them.    *)
(*                                                                         *)
(* What is on the screen is one bit per frame here (`unseen'); the regions *)
(* are the subject of XDirty.  There is a window: without a drawable the   *)
(* target does not load mansync.                                           *)
(***************************************************************************)
EXTENDS Integers, Sequences, SequencesExt

CONSTANTS
  Frames,     \* frames of the mode
  FlagSets,   \* the flag words the application passes to ggiSetFlags
  Shm,        \* the flush is the one of the XShm helper, not of buffer.c
  Apart       \* the application never holds a DirectBuffer for writing while
              \* both the asynchronous and the tidy mode are asked for

ASSUME XSyncAssumption ==
  /\ Frames \in Nat \ {0}
  /\ \A fl \in FlagSets : fl \subseteq STRING
  /\ Shm \in BOOLEAN
  /\ Apart \in BOOLEAN

Frame == 0..Frames - 1

\* The flags the X target knows.
Flag == {"ASYNC", "TIDY"}

\* The frames a put reaches: the XImage of buffer.c is one frame high.
Shown == IF Shm THEN Frame ELSE {0}

VARIABLES
  flags,    \* LIBGGI_FLAGS(vis)
  hook,     \* struct mansync_hook, and whether it is still allocated
  task,     \* the libgg task: "off", "idle", or "posting" (past its checks)
  posted,   \* flushlock is unlocked: a flush is asked for
  xlib,     \* xliblock is locked
  wframe,   \* vis->w_frame_num
  held,     \* frames whose resource is acquired for writing
  dirty,    \* the dirty region is not empty
  unseen,   \* frames that have changed and the window has not
  dropped,  \* (history) frames a tidy setwriteframe has left with unseen
            \* changes: no dirty region stands for them any more
  todo,     \* what is left of the application's call
  signals   \* the task runs in a signal handler of the application's thread

vars == <<flags, hook, task, posted, xlib, wframe, held, dirty, unseen, dropped,
          todo, signals>>
view == <<wframe, held, dirty, unseen, dropped>>

Step == {<<s>> : s \in {"ignore", "cont", "lock", "unlock", "release", "put", "catchup",
                        "expose", "start", "stop", "deltask", "setsync", "settidy",
                        "clean", "draw", "fill", "window", "deinit"}}
        \cup {<<s, f>> : s \in {"acquire", "drop", "frame", "switch"}, f \in Frame}
        \cup {<<"setflags", fl>> : fl \in FlagSets}

Ready == todo = <<>> /\ hook.alive

(* The body of a flush asked for by the application (tryflag 1) and of the *)
(* one unlock_xlib makes with the lock in hand (tryflag 2).                *)
Flush == << <<"ignore">>, <<"lock">>, <<"put">>, <<"unlock">>, <<"cont">> >>
CatchUp == << <<"ignore">>, <<"catchup">>, <<"cont">> >>

---------------------------------------------------------------------------
(* The task.  _GGI_mansync_task reads ignore and isasync, then calls flush *)
(* with tryflag 0, which only unlocks flushlock.                           *)

TaskCheck ==
  /\ task = "idle"
  /\ ~hook.ignore
  /\ ~hook.isasync
  /\ task' = "posting"
  /\ UNCHANGED <<flags, hook, posted, xlib, view, todo, signals>>

TaskPost ==
  /\ task = "posting"
  /\ posted' = TRUE
  /\ task' = "idle"
  /\ UNCHANGED <<flags, hook, xlib, view, todo, signals>>

---------------------------------------------------------------------------
(* The steps of a call.                                                    *)

\* The application runs its next step, unless it is under the task's signal.
At(op) ==
  /\ todo # <<>>
  /\ Head(todo)[1] = op
  /\ signals => task # "posting"

Then(steps) == todo' = steps \o Tail(todo)
Skip == Then(<<>>)

Ignore ==
  /\ At("ignore")
  /\ hook' = [hook EXCEPT !.ignore = TRUE]
  /\ Skip
  /\ UNCHANGED <<flags, task, posted, xlib, view, signals>>

Cont ==
  /\ At("cont")
  /\ hook' = IF "ASYNC" \in flags THEN hook ELSE [hook EXCEPT !.ignore = FALSE]
  /\ Skip
  /\ UNCHANGED <<flags, task, posted, xlib, view, signals>>

Lock ==
  /\ At("lock")
  /\ ~xlib
  /\ xlib' = TRUE
  /\ Skip
  /\ UNCHANGED <<flags, hook, task, posted, view, signals>>

\* The lock is let go only when no flush is asked for any more.
UnlockWhenQuiet ==
  /\ At("unlock")
  /\ posted' = FALSE
  /\ Then(IF posted THEN CatchUp \o << <<"unlock">> >> ELSE << <<"release">> >>)
  /\ UNCHANGED <<flags, hook, task, xlib, view, signals>>

\* ggTryLock(flushlock): a flush asked for is made before the lock is let go.
Unlock ==
  /\ At("unlock")
  /\ posted' = FALSE
  /\ Then((IF posted THEN CatchUp ELSE <<>>) \o << <<"release">> >>)
  /\ UNCHANGED <<flags, hook, task, xlib, view, signals>>

LockRelease ==
  /\ At("release")
  /\ xlib' = FALSE
  /\ Skip
  /\ UNCHANGED <<flags, hook, task, posted, view, signals>>

\* The helper's flush with the lines of buffer.c.
AfterWholePutAnyTarget ==
  IF "TIDY" \in flags THEN RemoveFirst(Tail(todo), <<"cont">>) ELSE Tail(todo)

(* The flush without SHM does not let mansync continue after it has put a  *)
(* whole area in tidy mode.                                                *)
AfterWholePut ==
  IF ~Shm /\ "TIDY" \in flags THEN RemoveFirst(Tail(todo), <<"cont">>) ELSE Tail(todo)

\* The frames fs are put whole.
Show(fs) ==
  /\ unseen' = unseen \ (fs \cap Shown)
  /\ dropped' = dropped \ (fs \cap Shown)

PutDirty ==
  /\ dirty' = FALSE
  /\ unseen' = unseen \ IF dirty THEN ({wframe} \cap Shown) \ dropped ELSE {}
  /\ Skip
  /\ UNCHANGED dropped

\* The application's own flush: a held write frame is sent whole.
Put ==
  /\ At("put")
  /\ \/ /\ wframe \in held
        /\ dirty' = FALSE
        /\ Show({wframe})
        /\ todo' = AfterWholePut
     \/ /\ wframe \notin held
        /\ PutDirty
  /\ UNCHANGED <<flags, hook, task, posted, xlib, wframe, held, signals>>

\* A whole area put with tryflag 2 is not translated to the write frame.
CatchUpPut ==
  /\ At("catchup")
  /\ \/ /\ wframe \in held
        /\ Show({0})
        /\ todo' = AfterWholePut
        /\ UNCHANGED dirty
     \/ /\ wframe \notin held
        /\ PutDirty
  /\ UNCHANGED <<flags, hook, task, posted, xlib, wframe, held, signals>>

\* An expose event covers any part of the window, all of frame 0 perhaps.
ExposePut ==
  /\ At("expose")
  /\ Show({}) \/ Show({0})
  /\ todo' = AfterWholePut
  /\ UNCHANGED <<flags, hook, task, posted, xlib, wframe, held, dirty, signals>>

---------------------------------------------------------------------------
(* Starting and stopping mansync.                                          *)

\* The task is added but the flag the handlers look at is forgotten.
StartStillIgnored ==
  /\ At("start")
  /\ hook' = IF hook.isasync
             THEN [hook EXCEPT !.isasync = FALSE, !.running = TRUE]
             ELSE hook
  /\ task' = IF hook.isasync THEN "idle" ELSE task
  /\ Skip
  /\ UNCHANGED <<flags, posted, xlib, view, signals>>

\* Mansync that runs already is left alone.
Start ==
  /\ At("start")
  /\ hook' = IF hook.isasync
             THEN [hook EXCEPT !.isasync = FALSE, !.ignore = FALSE, !.running = TRUE]
             ELSE hook
  /\ task' = IF hook.isasync THEN "idle" ELSE task
  /\ Skip
  /\ UNCHANGED <<flags, posted, xlib, view, signals>>

Stop ==
  /\ At("stop")
  /\ hook' = IF hook.isasync THEN hook
             ELSE [hook EXCEPT !.isasync = TRUE, !.ignore = TRUE]
  /\ Then(IF hook.isasync THEN <<>> ELSE << <<"deltask">> >>)
  /\ UNCHANGED <<flags, task, posted, xlib, view, signals>>

\* The task is unlinked while its handler still runs.
DelTaskAtOnce ==
  /\ At("deltask")
  /\ task' = IF task = "idle" THEN "off" ELSE task
  /\ hook' = [hook EXCEPT !.running = FALSE]
  /\ Skip
  /\ UNCHANGED <<flags, posted, xlib, view, signals>>

\* ggDelTask returns when no handler of the task is running.
DelTask ==
  /\ At("deltask")
  /\ task # "posting"
  /\ task' = "off"
  /\ hook' = [hook EXCEPT !.running = FALSE]
  /\ Skip
  /\ UNCHANGED <<flags, posted, xlib, view, signals>>

\* MANSYNC_SETFLAGS, evaluated after LIBGGI_FLAGS has been assigned.
SetSync ==
  /\ At("setsync")
  /\ Then(CASE hook.isasync /\ "ASYNC" \notin flags -> << <<"start">> >>
            [] ~hook.isasync /\ "ASYNC" \in flags -> << <<"stop">> >>
            [] OTHER -> <<>>)
  /\ UNCHANGED <<flags, hook, task, posted, xlib, view, signals>>

SetTidy ==
  /\ At("settidy")
  /\ Then(IF "TIDY" \in flags /\ wframe \in held THEN << <<"stop">> >> ELSE <<>>)
  /\ UNCHANGED <<flags, hook, task, posted, xlib, view, signals>>

\* Unknown flags take.
AssignFlagsUnmasked ==
  /\ At("setflags")
  /\ flags' = Head(todo)[2]
  /\ Then(<< <<"setsync">>, <<"settidy">> >>)
  /\ UNCHANGED <<hook, task, posted, xlib, view, signals>>

AssignFlags ==
  /\ At("setflags")
  /\ flags' = Head(todo)[2] \cap Flag
  /\ Then(<< <<"setsync">>, <<"settidy">> >>)
  /\ UNCHANGED <<hook, task, posted, xlib, view, signals>>

---------------------------------------------------------------------------
(* DirectBuffers, frames, the mode and the end.                            *)

MarkHeld ==
  /\ At("acquire")
  /\ held' = held \cup {Head(todo)[2]}
  /\ Skip
  /\ UNCHANGED <<flags, hook, task, posted, xlib, wframe, dirty, unseen, dropped, signals>>

MarkReleased ==
  /\ At("drop")
  /\ held' = held \ {Head(todo)[2]}
  /\ Skip
  /\ UNCHANGED <<flags, hook, task, posted, xlib, wframe, dirty, unseen, dropped, signals>>

(* The tidy branch of setwriteframe moves mansync from the old frame's     *)
(* state to the new one's; the other branch flushes the old frame.         *)
WriteFrame ==
  /\ At("frame")
  /\ LET f == Head(todo)[2]
         moves == (wframe \in held) # (f \in held)
     IN  Then(CASE "TIDY" \notin flags -> Flush \o << <<"switch", f>> >>
                [] "TIDY" \in flags /\ ~moves -> << <<"switch", f>> >>
                [] OTHER -> << <<"switch", f>>,
                               IF f \in held THEN <<"stop">> ELSE <<"start">> >>)
  /\ UNCHANGED <<flags, hook, task, posted, xlib, view, signals>>

(* The new write frame starts with an empty dirty region, whether or not   *)
(* the old one's has been put.                                             *)
SwitchFrame ==
  /\ At("switch")
  /\ wframe' = Head(todo)[2]
  /\ dirty' = FALSE
  /\ dropped' = IF "TIDY" \in flags THEN dropped \cup ({wframe} \cap unseen) ELSE dropped
  /\ Skip
  /\ UNCHANGED <<flags, hook, task, posted, xlib, held, unseen, signals>>

\* setmode: new window, new frame buffer (_ggi_create_dbs sets w_frame).
NewWindow ==
  /\ At("window")
  /\ wframe' = 0
  /\ unseen' = {}
  /\ dropped' = {}
  /\ Skip
  /\ UNCHANGED <<flags, hook, task, posted, xlib, held, dirty, signals>>

CleanRegion ==
  /\ At("clean")
  /\ dirty' = FALSE
  /\ Skip
  /\ UNCHANGED <<flags, hook, task, posted, xlib, wframe, held, unseen, dropped, signals>>

Draw ==
  /\ At("draw")
  /\ dirty' = TRUE
  /\ unseen' = unseen \cup {wframe}
  /\ Skip
  /\ UNCHANGED <<flags, hook, task, posted, xlib, wframe, held, dropped, signals>>

(* fillscreen on a whole new frame, which is empty already: the region is  *)
(* marked clean, and the window is filled directly.                        *)
FillScreen ==
  /\ At("fill")
  /\ dirty' = FALSE
  /\ Skip
  /\ UNCHANGED <<flags, hook, task, posted, xlib, wframe, held, unseen, dropped, signals>>

Deinit ==
  /\ At("deinit")
  /\ hook' = [hook EXCEPT !.alive = FALSE]
  /\ Skip
  /\ UNCHANGED <<flags, task, posted, xlib, view, signals>>

---------------------------------------------------------------------------
(* The calls of the application.                                           *)

Begin(steps) ==
  /\ Ready
  /\ todo' = steps
  /\ UNCHANGED <<flags, hook, task, posted, xlib, view, signals>>

\* Any drawing operation of the buffered target (..._slave).
CallDraw == Begin(<< <<"draw">> >>)

CallFlush == Begin(Flush)

(* giiEventPoll and every other call that uses Xlib for a moment; an       *)
(* expose event is handled with the lock in hand.                          *)
CallPoll == Begin(<< <<"lock">>, <<"unlock">> >>)

CallPollExposed ==
  Begin(<< <<"lock">>, <<"ignore">>, <<"expose">>, <<"cont">>, <<"unlock">> >>)

CallSetFlags ==
  \E new \in FlagSets :
    /\ Apart /\ Flag \subseteq new => held = {}
    /\ Begin((IF "ASYNC" \in flags \ new THEN Flush ELSE <<>>) \o << <<"setflags", new>> >>)

\* Mansync is stopped for a frame that is not the write frame.
CallAcquireAnyFrame ==
  \E f \in Frame \ held :
    /\ Apart => flags # Flag
    /\ Begin((IF "TIDY" \in flags THEN << <<"stop">> >> ELSE <<>>) \o << <<"acquire", f>> >>)

CallAcquire ==
  \E f \in Frame \ held :
    /\ Apart => flags # Flag
    /\ Begin((IF "TIDY" \in flags /\ f = wframe THEN << <<"stop">> >> ELSE <<>>)
             \o << <<"acquire", f>> >>)

\* The stop of a tidy acquire is never undone.
CallReleaseForgetful ==
  \E f \in held :
    Begin((IF f = wframe /\ "TIDY" \notin flags THEN Flush ELSE <<>>)
          \o << <<"drop", f>> >>)

(* Before it releases a frame the application has flushed what it wrote,   *)
(* as the documentation asks, unless the release itself flushes.           *)
CallRelease ==
  \E f \in held :
    /\ f \in unseen \cap Shown => f = wframe /\ "TIDY" \notin flags
    /\ Begin((CASE f # wframe -> <<>>
                [] f = wframe /\ "TIDY" \in flags -> << <<"start">> >>
                [] OTHER -> Flush)
             \o << <<"drop", f>> >>)

\* The application stores into the memory of the write frame, which it holds.
DirectWrite ==
  /\ Ready
  /\ wframe \in held
  /\ unseen' = unseen \cup {wframe}
  /\ signals => task # "posting"
  /\ UNCHANGED <<flags, hook, task, posted, xlib, wframe, held, dirty, dropped, todo, signals>>

CallSetWriteFrame == \E f \in Frame : Begin(<< <<"frame", f>> >>)

(* ggiSetMode: the target's setmode, then every frame is cleared and frame *)
(* 0 is made the write frame.  No DirectBuffer outlives the mode.          *)
ClearFrames ==
  [i \in 1..4 * Frames |-> CASE i % 4 = 1 -> <<"frame", i \div 4>>
                             [] i % 4 = 2 -> <<"lock">>
                             [] i % 4 = 3 -> <<"fill">>
                             [] i % 4 = 0 -> <<"unlock">>]

CallSetMode ==
  /\ held = {}
  /\ Begin(<< <<"ignore">>, <<"lock">>, <<"window">>, <<"unlock">>, <<"clean">>, <<"cont">> >>
           \o ClearFrames \o << <<"frame", 0>> >> \o Flush)

(* GGIexit stops mansync in synchronous mode, then frees the hook.         *)
CallExitRunning ==
  /\ held = {}
  /\ Begin(<< <<"deinit">> >>)

CallExit ==
  /\ held = {}
  /\ Begin((IF "ASYNC" \in flags THEN <<>> ELSE << <<"stop">> >>) \o << <<"deinit">> >>)

Closed ==
  /\ todo = <<>>
  /\ ~hook.alive
  /\ UNCHANGED vars

---------------------------------------------------------------------------
(* The visual is open, synchronous, and its first mode is set.             *)
Init ==
  /\ flags = {}
  /\ hook = [isasync |-> FALSE, ignore |-> FALSE, running |-> TRUE, alive |-> TRUE]
  /\ task = "idle"
  /\ posted = FALSE
  /\ xlib = FALSE
  /\ wframe = 0
  /\ held = {}
  /\ dirty = FALSE
  /\ unseen = {}
  /\ dropped = {}
  /\ todo = <<>>
  /\ signals \in BOOLEAN

Continue ==
  \/ Ignore \/ Cont \/ Lock \/ Unlock \/ LockRelease
  \/ Put \/ CatchUpPut \/ ExposePut
  \/ Start \/ Stop \/ DelTask \/ SetSync \/ SetTidy \/ AssignFlags
  \/ MarkHeld \/ MarkReleased \/ WriteFrame \/ SwitchFrame
  \/ NewWindow \/ CleanRegion \/ Draw \/ FillScreen \/ Deinit

Call ==
  \/ CallDraw \/ CallFlush \/ CallPoll \/ CallPollExposed \/ CallSetFlags
  \/ CallAcquire \/ CallRelease \/ DirectWrite
  \/ CallSetWriteFrame \/ CallSetMode \/ CallExit

Next == TaskCheck \/ TaskPost \/ Continue \/ Call \/ Closed

(* A call that has begun runs on between the signals, and so does a        *)
(* handler.  Ticks are periodic: when mansync is unmuted again and again,  *)
(* a tick finds it so again and again.  And the application polls for      *)
(* events again and again: one that stops calling the library is never     *)
(* flushed.                                                                *)
Fairness ==
  /\ SF_vars(Continue)
  /\ WF_vars(TaskPost)
  /\ SF_vars(TaskCheck)
  /\ SF_vars(CallPoll)

Spec == Init /\ [][Next]_vars /\ Fairness

---------------------------------------------------------------------------
(* Properties.                                                             *)

TypeOK ==
  /\ flags \subseteq Flag
  /\ hook \in [isasync : BOOLEAN, ignore : BOOLEAN, running : BOOLEAN, alive : BOOLEAN]
  /\ task \in {"off", "idle", "posting"}
  /\ posted \in BOOLEAN
  /\ xlib \in BOOLEAN
  /\ wframe \in Frame
  /\ held \subseteq Frame
  /\ dirty \in BOOLEAN
  /\ unseen \subseteq Frame
  /\ dropped \subseteq Frame
  /\ todo \in Seq(Step)
  /\ signals \in BOOLEAN

(* Between two calls mansync runs exactly when the flags ask for it and no *)
(* tidy write frame is held: the three entry points that start and stop it *)
(* (setflags, acquire/release, setwriteframe) agree on one rule.           *)
MansyncMatchesMode ==
  Ready =>
    LET wanted == "ASYNC" \notin flags /\ ~("TIDY" \in flags /\ wframe \in held)
    IN  /\ hook.running = wanted
        /\ hook.isasync = ~wanted
        /\ (task # "off") = wanted

(* Between two calls a mansync that runs is not left muted: every ignore   *)
(* has met its cont (the flush, its nested flush in unlock_xlib, setmode). *)
NotLeftMuted == Ready /\ hook.running => ~hook.ignore

\* mansync.c asserts that what is stopped was started.
StopAssertion == todo # <<>> /\ Head(todo) = <<"stop">> => hook.running

\* mansync.c asserts that mansync is stopped before its hook is freed.
DeinitAssertion == todo # <<>> /\ Head(todo) = <<"deinit">> => ~hook.running

\* The task reads the hook at every tick: it must not outlive it.
TaskHasItsHook == task # "off" => hook.alive

(* No call hangs: neither on xliblock, which the caller may hold already,  *)
(* nor on the task, however often it asks for a flush.                     *)
CallsReturn == (todo # <<>>) ~> (todo = <<>>)

(* In synchronous mode what is drawn gets to the window without the        *)
(* application asking: through a tick of mansync and the next unlock_xlib. *)
(* What a tidy setwriteframe drops is left out: the code loses it.         *)
SyncShows ==
  \A f \in Frame :
    ("ASYNC" \notin flags /\ f \in unseen \ (dropped \cup held))
      ~> (f \notin unseen \/ "ASYNC" \in flags \/ f \in dropped \cup held \/ ~hook.alive)

=============================================================================
