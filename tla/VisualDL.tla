------------------------------ MODULE VisualDL ------------------------------
(***************************************************************************)
(* The libraries of a visual (ggi/dl.c, ggi/visual.c, ggi/init.c).         *)
(*                                                                         *)
(* A visual is a display library and, for each mode, the renderer          *)
(* libraries the display asks for.  A library provides operations of one   *)
(* or more kinds; each kind has a list of the libraries behind it, and the *)
(* master list of the visual holds them all.  The handle of a library      *)
(* counts the lists it is in, and the library is closed when the count     *)
(* drops to zero.  Setting a mode drops the lists of all kinds but         *)
(* opdisplay; closing the visual drops them all.                           *)
(***************************************************************************)
EXTENDS Integers, FiniteSets

CONSTANTS
  Handle,     \* addresses malloc may return for a ggi_dlhandle
  Provides    \* the *dlret values of the libraries

\* The kinds of operations, in the order _ggiCloseDL goes through them.
OpDraw == 1
OpColor == 2
OpGC == 3
OpDisplay == 4
Op == 1..4

ASSUME VisualDLAssumption == Provides \subseteq (SUBSET Op) \ {{}}

VARIABLES
  list,      \* vis->op*->head.dlhandle, for each kind
  master,    \* LIBGGI_DLHANDLE(vis): the handles that are allocated
  usecnt,    \* handle->usecnt
  exited,    \* handles whose exit function has been called
  status,    \* of the visual: "new" (inside ggiOpen), "up" or "gone"
  loading,   \* setmode is opening the libraries of the mode
  phase,     \* of _ggiCloseDL: "none", "exit" or "zap"
  at,        \* the kind _ggiCloseDL is at
  upto       \* the last kind it goes to: OpGC, or OpDisplay with zapall

vars == <<list, master, usecnt, exited, status, loading, phase, at, upto>>

Idle == phase = "none"

---------------------------------------------------------------------------
(* Opening a library.                                                      *)

\* One reference, however many lists the handle was put in.
AddDLCountedOnce(h, ops) ==
  /\ h \notin master
  /\ list' = [o \in Op |-> IF o \in ops THEN list[o] \cup {h} ELSE list[o]]
  /\ usecnt' = [usecnt EXCEPT ![h] = 1]
  /\ master' = master \cup {h}
  /\ exited' = exited \ {h}

AddDL(h, ops) ==
  /\ h \notin master
  /\ list' = [o \in Op |-> IF o \in ops THEN list[o] \cup {h} ELSE list[o]]
  /\ usecnt' = [usecnt EXCEPT ![h] = Cardinality(ops)]
  /\ master' = master \cup {h}
  /\ exited' = exited \ {h}

(* ggiOpen tries the targets of its list until the library of one opens; a *)
(* library that cannot be opened leaves nothing behind.                    *)
OpenDisplay(h, ops) ==
  /\ Idle
  /\ status = "new"
  /\ OpDisplay \in ops
  /\ AddDL(h, ops)
  /\ status' = "up"
  /\ UNCHANGED <<loading, phase, at, upto>>

OpenModeLib(h, ops) ==
  /\ Idle
  /\ loading
  /\ OpDisplay \notin ops
  /\ AddDL(h, ops)
  /\ UNCHANGED <<status, loading, phase, at, upto>>

\* The display has no further library to ask for, or one did not open.
ModeLibsDone ==
  /\ Idle
  /\ loading
  /\ loading' = FALSE
  /\ UNCHANGED <<list, master, usecnt, exited, status, phase, at, upto>>

---------------------------------------------------------------------------
(* _ggiCloseDL: every exit function first, then the lists, in the same     *)
(* order of kinds.                                                         *)

CloseDL(last) ==
  /\ phase' = "exit"
  /\ at' = OpDraw
  /\ upto' = last
  /\ UNCHANGED <<list, master, usecnt, exited, status>>

SetMode ==
  /\ Idle
  /\ status = "up"
  /\ loading' = FALSE
  /\ CloseDL(OpGC)

\* ggiClose, or ggiOpen when no target's library could be opened.
Destroy ==
  /\ Idle
  /\ status \in {"new", "up"}
  /\ loading' = FALSE
  /\ CloseDL(OpDisplay)

\* The exit functions of the kinds that a mode does not own are not called.
ExitDLOfMode ==
  /\ phase = "exit"
  /\ exited' = IF at = OpDisplay THEN exited ELSE exited \cup list[at]
  /\ at' = IF at < upto THEN at + 1 ELSE OpDraw
  /\ phase' = IF at < upto THEN "exit" ELSE "zap"
  /\ UNCHANGED <<list, master, usecnt, status, loading, upto>>

ExitDL ==
  /\ phase = "exit"
  /\ exited' = exited \cup list[at]
  /\ at' = IF at < upto THEN at + 1 ELSE OpDraw
  /\ phase' = IF at < upto THEN "exit" ELSE "zap"
  /\ UNCHANGED <<list, master, usecnt, status, loading, upto>>

\* The whole list is closed, whoever else uses its libraries.
UnusedOrNot(S) == S

\* _ggiRemoveDL closes, unloads and frees what nothing uses any more.
Unused(S) == {h \in S : usecnt[h] - 1 <= 0}

(* One list is dropped; after the last one a new mode's libraries may be   *)
(* opened, or the visual is freed.                                         *)
ZapDL ==
  /\ phase = "zap"
  /\ usecnt' = [h \in Handle |-> IF h \in list[at] THEN usecnt[h] - 1 ELSE usecnt[h]]
  /\ master' = master \ Unused(list[at])
  /\ list' = [list EXCEPT ![at] = {}]
  /\ at' = IF at < upto THEN at + 1 ELSE OpDraw
  /\ phase' = IF at < upto THEN "zap" ELSE "none"
  /\ loading' = (at = upto /\ upto = OpGC)
  /\ status' = IF at = upto /\ upto = OpDisplay THEN "gone" ELSE status
  /\ UNCHANGED <<exited, upto>>

Gone ==
  /\ Idle
  /\ status = "gone"
  /\ UNCHANGED vars

---------------------------------------------------------------------------
Init ==
  /\ list = [o \in Op |-> {}]
  /\ master = {}
  /\ usecnt = [h \in Handle |-> 0]
  /\ exited = {}
  /\ status = "new"
  /\ loading = FALSE
  /\ phase = "none"
  /\ at = OpDraw
  /\ upto = OpGC

Next ==
  \/ \E h \in Handle, ops \in Provides : OpenDisplay(h, ops)
  \/ \E h \in Handle, ops \in Provides : OpenModeLib(h, ops)
  \/ ModeLibsDone
  \/ SetMode
  \/ Destroy
  \/ ExitDL
  \/ ZapDL
  \/ Gone

Spec == Init /\ [][Next]_vars

---------------------------------------------------------------------------
(* Properties.                                                             *)

TypeOK ==
  /\ list \in [Op -> SUBSET Handle]
  /\ master \subseteq Handle
  /\ usecnt \in [Handle -> Nat]
  /\ exited \subseteq Handle
  /\ status \in {"new", "up", "gone"}
  /\ loading \in BOOLEAN
  /\ phase \in {"none", "exit", "zap"}
  /\ at \in 1..upto
  /\ upto \in {OpGC, OpDisplay}

Users(h) == {o \in Op : h \in list[o]}

(* The count of every handle is the number of lists that hold it, at every *)
(* step of every _ggiCloseDL: counted per kind in _ggiAddDL, uncounted per *)
(* kind in _ggiZapDL.                                                      *)
UseCountExact == \A h \in Handle : usecnt[h] = Cardinality(Users(h))

(* A handle is allocated exactly as long as a list of operations holds it: *)
(* no list leads to a freed handle, and no library stays loaded unused.    *)
MasterListExact == master = UNION {list[o] : o \in Op}

(* From ggiOpen to ggiClose the display library is loaded, whatever modes  *)
(* are set: setmode runs in its code.                                      *)
DisplayStaysLoaded ==
  status = "up" /\ (Idle \/ upto = OpGC) => list[OpDisplay] \cap master # {}

(* The display library is the last to go: the others draw through it.      *)
DisplayClosedLast ==
  [][\A h \in master \ master' : h \in list[OpDisplay] => master' = {}]_vars

(* The libraries see the life they may rely on: opened, exited, then       *)
(* closed, once.                                                           *)
life == [h \in Handle |-> IF h \notin master THEN "none"
                          ELSE IF h \in exited THEN "exited" ELSE "open"]

Lifecycle == INSTANCE DLLifecycle WITH Handle <- Handle, life <- life
LifecycleSpec == Lifecycle!Spec

=============================================================================
