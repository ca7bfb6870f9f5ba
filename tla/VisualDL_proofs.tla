-------------------------- MODULE VisualDL_proofs --------------------------
(***************************************************************************)
(* For every set of handles and every choice of libraries: the use counts  *)
(* are exact, no list leads to a freed handle, the display library stays   *)
(* until the visual goes and goes last, and every library lives the life   *)
(* DLLifecycle describes.                                                  *)
(***************************************************************************)
EXTENDS VisualDL, FiniteSetTheorems, TLAPS

\* How far _ggiCloseDL has got: which lists are dropped, and which of those
\* still to be dropped have had the exit functions of their libraries called.
CloseProgress ==
  /\ phase = "exit" => \A o \in 1..at - 1 : list[o] \subseteq exited
  /\ phase = "zap" => /\ \A o \in 1..at - 1 : list[o] = {}
                      /\ \A o \in 1..upto : list[o] \subseteq exited

IInv ==
  /\ TypeOK
  /\ UseCountExact
  /\ MasterListExact
  /\ CloseProgress
  /\ DisplayStaysLoaded

---------------------------------------------------------------------------
(* Counting the lists of a handle.                                         *)

LEMMA OpFinite == IsFiniteSet(Op)
<1>1. 1 \in Int /\ 4 \in Int
  OBVIOUS
<1>2. IsFiniteSet(1..4)
  BY <1>1, FS_Interval, Zenon
<1> QED
  BY <1>2 DEF Op

LEMMA UsersFinite ==
  ASSUME NEW h
  PROVE  /\ Users(h) \subseteq Op
         /\ IsFiniteSet(Users(h))
         /\ Cardinality(Users(h)) \in Nat
<1>1. Users(h) \subseteq Op
  BY DEF Users
<1>3. IsFiniteSet(Users(h))
  BY <1>1, OpFinite, FS_Subset
<1>4. Cardinality(Users(h)) \in Nat
  BY <1>3, FS_CardinalityType
<1> QED
  BY <1>1, <1>3, <1>4

\* The sets of kinds a library may provide are finite.
LEMMA ProvidesFinite ==
  ASSUME NEW ops \in Provides
  PROVE  ops \subseteq Op /\ ops # {} /\ Cardinality(ops) \in Nat
<1>1. ops \subseteq Op /\ ops # {}
  <2>1. ops \in (SUBSET Op) \ {{}}
    BY VisualDLAssumption DEF VisualDLAssumption
  <2> QED
    BY <2>1
<1>3. IsFiniteSet(ops)
  BY <1>1, OpFinite, FS_Subset
<1>4. Cardinality(ops) \in Nat
  BY <1>3, FS_CardinalityType
<1> QED
  BY <1>1, <1>4

\* A handle that is taken off a list it is on is unused exactly when it is
\* on no other list.
LEMMA TakenOff ==
  ASSUME NEW h, NEW o \in Users(h)
  PROVE  /\ Cardinality(Users(h) \ {o}) = Cardinality(Users(h)) - 1
         /\ Cardinality(Users(h)) - 1 <= 0 <=> Users(h) = {o}
<1>1. IsFiniteSet(Users(h)) /\ Cardinality(Users(h)) \in Nat
  BY UsersFinite
<1>2. Cardinality(Users(h) \ {o}) = Cardinality(Users(h)) - 1
  BY <1>1, FS_RemoveElement
<1>3. IsFiniteSet(Users(h) \ {o})
  BY <1>1, FS_RemoveElement
<1>4. Cardinality(Users(h) \ {o}) \in Nat
  BY <1>3, FS_CardinalityType
<1>5. Cardinality(Users(h) \ {o}) = 0 <=> Users(h) \ {o} = {}
  BY <1>3, FS_EmptySet
<1> QED
  BY <1>1, <1>2, <1>4, <1>5

---------------------------------------------------------------------------
(* Opening a library.                                                      *)

LEMMA AddDLCounts ==
  ASSUME IInv, NEW h \in Handle, NEW ops \in Provides, AddDL(h, ops)
  PROVE  /\ list' \in [Op -> SUBSET Handle]
         /\ master' \subseteq Handle
         /\ usecnt' \in [Handle -> Nat]
         /\ exited' \subseteq Handle
         /\ UseCountExact'
         /\ MasterListExact'
<1>1. ops \subseteq Op /\ ops # {} /\ Cardinality(ops) \in Nat
  BY ProvidesFinite
<1>2. /\ list' \in [Op -> SUBSET Handle]
      /\ master' \subseteq Handle
      /\ usecnt' \in [Handle -> Nat]
      /\ exited' \subseteq Handle
  BY <1>1 DEF IInv, TypeOK, AddDL
<1>3. \A o \in Op : h \notin list[o]
  BY DEF IInv, MasterListExact, AddDL
<1>4. Users(h)' = ops
  BY <1>1, <1>3 DEF Users, AddDL
<1>5. \A g \in Handle \ {h} : Users(g)' = Users(g)
  BY <1>1 DEF Users, AddDL
<1>6. UseCountExact'
  BY <1>4, <1>5 DEF IInv, TypeOK, UseCountExact, AddDL
<1>7. MasterListExact'
  BY <1>1 DEF IInv, MasterListExact, AddDL
<1> QED
  BY <1>2, <1>6, <1>7

LEMMA OpenDisplayPreserves ==
  ASSUME IInv, NEW h \in Handle, NEW ops \in Provides, OpenDisplay(h, ops)
  PROVE  IInv'
<1>1. TypeOK' /\ UseCountExact' /\ MasterListExact'
  BY AddDLCounts DEF OpenDisplay, IInv, TypeOK
<1>2. CloseProgress'
  BY DEF OpenDisplay, Idle, CloseProgress
<1>3. DisplayStaysLoaded'
  BY DEF OpenDisplay, AddDL, DisplayStaysLoaded, Op, OpDisplay
<1> QED
  BY <1>1, <1>2, <1>3 DEF IInv

LEMMA OpenModeLibPreserves ==
  ASSUME IInv, NEW h \in Handle, NEW ops \in Provides, OpenModeLib(h, ops)
  PROVE  IInv'
<1>1. TypeOK' /\ UseCountExact' /\ MasterListExact'
  BY AddDLCounts DEF OpenModeLib, IInv, TypeOK
<1>2. CloseProgress'
  BY DEF OpenModeLib, Idle, CloseProgress
<1>3. list'[OpDisplay] = list[OpDisplay] /\ master \subseteq master'
  BY DEF OpenModeLib, AddDL, Op, OpDisplay
<1>4. DisplayStaysLoaded'
  BY <1>3 DEF OpenModeLib, IInv, DisplayStaysLoaded, Idle
<1> QED
  BY <1>1, <1>2, <1>4 DEF IInv

---------------------------------------------------------------------------
(* _ggiCloseDL.                                                            *)

LEMMA CloseDLPreserves ==
  ASSUME IInv, Idle, loading' = FALSE, NEW last \in {OpGC, OpDisplay}, CloseDL(last),
         last = OpGC => status = "up"
  PROVE  IInv'
<1>1. loading' \in BOOLEAN
  OBVIOUS
<1>2. at' = 1 /\ upto' \in {3, 4} /\ phase' = "exit"
  BY DEF CloseDL, OpDraw, OpGC, OpDisplay
<1>3. at' \in 1..upto'
  BY <1>2
<1>4. TypeOK'
  BY <1>1, <1>2, <1>3 DEF IInv, TypeOK, CloseDL, OpGC, OpDisplay
<1>5. UseCountExact' /\ MasterListExact'
  BY DEF IInv, UseCountExact, MasterListExact, Users, CloseDL
<1>6. CloseProgress'
  BY DEF CloseDL, CloseProgress, OpDraw
<1>7. DisplayStaysLoaded'
  BY DEF IInv, DisplayStaysLoaded, CloseDL, Idle
<1> QED
  BY <1>4, <1>5, <1>6, <1>7 DEF IInv

LEMMA ExitDLPreserves ==
  ASSUME IInv, ExitDL
  PROVE  IInv'
<1>0. /\ at \in Int /\ upto \in {3, 4} /\ 1 <= at /\ at <= upto
      /\ at' = (IF at < upto THEN at + 1 ELSE 1)
      /\ phase' = (IF at < upto THEN "exit" ELSE "zap")
      /\ upto' = upto /\ phase = "exit" /\ at \in Op
  BY DEF IInv, TypeOK, ExitDL, OpGC, OpDisplay, OpDraw, Op
<1>1. TypeOK'
  BY <1>0 DEF IInv, TypeOK, ExitDL, OpGC, OpDisplay, OpDraw, Op
<1>2. UseCountExact' /\ MasterListExact'
  BY DEF IInv, UseCountExact, MasterListExact, Users, ExitDL
<1>3. \A o \in 1..at : list'[o] \subseteq exited'
  BY <1>0 DEF IInv, CloseProgress, ExitDL
<1>4. CloseProgress'
  BY <1>0, <1>3 DEF CloseProgress
<1>5. DisplayStaysLoaded'
  BY <1>0 DEF IInv, DisplayStaysLoaded, ExitDL, Idle
<1> QED
  BY <1>1, <1>2, <1>4, <1>5 DEF IInv

\* What one ZapDL does to the counts and to the master list.
LEMMA ZapDLCounts ==
  ASSUME IInv, ZapDL
  PROVE  /\ usecnt' \in [Handle -> Nat]
         /\ UseCountExact'
         /\ MasterListExact'
         /\ \A h \in master \ master' : Users(h) = {at}
<1>0. at \in Op /\ list \in [Op -> SUBSET Handle] /\ list'[at] = {}
      /\ \A o \in Op \ {at} : list'[o] = list[o]
  BY DEF IInv, TypeOK, ZapDL, OpGC, OpDisplay, Op
<1>1. \A h \in Handle : Users(h)' = Users(h) \ {at}
  BY <1>0 DEF Users
<1>2. \A h \in Handle : h \in list[at] <=> at \in Users(h)
  BY <1>0 DEF Users
<1>3. \A h \in Handle : usecnt'[h] = Cardinality(Users(h) \ {at})
  <2> TAKE h \in Handle
  <2>1. usecnt[h] = Cardinality(Users(h))
    BY DEF IInv, UseCountExact
  <2>2. CASE h \in list[at]
    <3>1. usecnt'[h] = usecnt[h] - 1
      BY <2>2 DEF ZapDL, IInv, TypeOK
    <3> QED
      BY <3>1, <2>1, <2>2, <1>2, TakenOff
  <2>3. CASE h \notin list[at]
    <3>1. Users(h) \ {at} = Users(h)
      BY <2>3, <1>2
    <3> QED
      BY <3>1, <2>1, <2>3 DEF ZapDL, IInv, TypeOK
  <2> QED
    BY <2>2, <2>3
<1>4. UseCountExact'
  BY <1>1, <1>3 DEF UseCountExact
<1>5. usecnt' \in [Handle -> Nat]
  <2>1. \A h \in Handle : usecnt'[h] \in Nat
    <3> TAKE h \in Handle
    <3>1. IsFiniteSet(Users(h) \ {at})
      BY UsersFinite, FS_Difference
    <3> QED
      BY <3>1, <1>3, FS_CardinalityType
  <2> QED
    BY <2>1 DEF ZapDL
<1>6. \A h \in list[at] : h \in Unused(list[at]) <=> Users(h) = {at}
  <2> TAKE h \in list[at]
  <2>1. h \in Handle /\ at \in Users(h)
    BY <1>0, <1>2
  <2>2. usecnt[h] = Cardinality(Users(h))
    BY <2>1 DEF IInv, UseCountExact
  <2> QED
    BY <2>1, <2>2, TakenOff DEF Unused
<1>7. \A h \in master \ master' : Users(h) = {at}
  BY <1>6 DEF ZapDL, Unused
<1>8. MasterListExact'
  <2>1. \A h \in master : h \in master' <=> \E o \in Op : h \in list'[o]
    <3> TAKE h \in master
    <3>1. h \in Handle /\ \E o \in Op : h \in list[o]
      BY DEF IInv, TypeOK, MasterListExact
    <3>2. CASE h \in list[at]
      <4>1. h \in master' <=> Users(h) # {at}
        BY <3>2, <1>6 DEF ZapDL
      <4>2. at \in Users(h) /\ Users(h) \subseteq Op
        BY <3>1, <3>2, <1>2, UsersFinite
      <4>3. Users(h) # {at} <=> \E o \in Op \ {at} : h \in list[o]
        BY <4>2 DEF Users
      <4> QED
        BY <4>1, <4>3, <1>0
    <3>3. CASE h \notin list[at]
      <4>1. h \in master'
        BY <3>3 DEF ZapDL, Unused
      <4> QED
        BY <4>1, <3>1, <3>3, <1>0
    <3> QED
      BY <3>2, <3>3
  <2>2. \A o \in Op : list'[o] \subseteq master
    BY <1>0 DEF IInv, MasterListExact
  <2>3. master' \subseteq master
    BY DEF ZapDL
  <2> QED
    BY <2>1, <2>2, <2>3 DEF MasterListExact
<1> QED
  BY <1>4, <1>5, <1>7, <1>8

LEMMA ZapDLPreserves ==
  ASSUME IInv, ZapDL
  PROVE  IInv'
<1>0. /\ at \in Int /\ upto \in {3, 4} /\ 1 <= at /\ at <= upto /\ at \in Op
      /\ at' = (IF at < upto THEN at + 1 ELSE 1)
      /\ phase' = (IF at < upto THEN "zap" ELSE "none")
      /\ upto' = upto /\ phase = "zap" /\ exited' = exited
      /\ list \in [Op -> SUBSET Handle] /\ list' = [list EXCEPT ![at] = {}]
  BY DEF IInv, TypeOK, ZapDL, OpGC, OpDisplay, OpDraw, Op
<1>1. usecnt' \in [Handle -> Nat] /\ UseCountExact' /\ MasterListExact'
  BY ZapDLCounts
<1>2. TypeOK'
  BY <1>0, <1>1 DEF IInv, TypeOK, ZapDL, OpGC, OpDisplay, OpDraw
<1>3. CloseProgress'
  <2>1. \A o \in 1..at : list'[o] = {}
    BY <1>0 DEF IInv, CloseProgress, Op
  <2>2. \A o \in 1..upto : list'[o] \subseteq exited'
    BY <1>0 DEF IInv, CloseProgress, Op
  <2> QED
    BY <1>0, <2>1, <2>2 DEF CloseProgress
<1>4. DisplayStaysLoaded'
  <2> SUFFICES ASSUME status' = "up", (phase' = "none" \/ upto' = 3)
               PROVE  list'[4] \cap master' # {}
    BY DEF DisplayStaysLoaded, Idle, OpGC, OpDisplay
  <2>1. upto = 3 /\ status = "up"
    BY <1>0 DEF ZapDL, OpGC, OpDisplay
  <2>2. list'[4] = list[4]
    BY <2>1, <1>0 DEF Op
  <2>3. list[4] # {}
    BY <2>1 DEF IInv, DisplayStaysLoaded, OpGC, OpDisplay
  <2>4. list'[4] \subseteq master'
    BY <1>1 DEF MasterListExact, Op
  <2> QED
    BY <2>2, <2>3, <2>4
<1> QED
  BY <1>1, <1>2, <1>3, <1>4 DEF IInv

---------------------------------------------------------------------------
(* The theorems.                                                           *)

LEMMA InitIInv == Init => IInv
<1> SUFFICES ASSUME Init PROVE IInv
  OBVIOUS
<1>1. \A h \in Handle : Users(h) = {}
  BY DEF Init, Users
<1>2. UseCountExact
  BY <1>1, FS_EmptySet DEF Init, UseCountExact
<1>3. MasterListExact
  BY DEF Init, MasterListExact
<1>4. TypeOK
  <2>1. loading \in BOOLEAN
    BY DEF Init
  <2>2. at = 1 /\ upto = 3 /\ at \in 1..upto
    BY DEF Init, OpGC, OpDraw
  <2>3. list \in [Op -> SUBSET Handle] /\ usecnt \in [Handle -> Nat]
    BY DEF Init
  <2> QED
    BY <2>1, <2>2, <2>3 DEF Init, TypeOK, OpGC, OpDisplay
<1>5. CloseProgress /\ DisplayStaysLoaded
  BY DEF Init, CloseProgress, DisplayStaysLoaded
<1> QED
  BY <1>2, <1>3, <1>4, <1>5 DEF IInv

LEMMA NextIInv == IInv /\ [Next]_vars => IInv'
<1> SUFFICES ASSUME IInv, [Next]_vars PROVE IInv'
  OBVIOUS
<1>1. ASSUME NEW h \in Handle, NEW ops \in Provides, OpenDisplay(h, ops) PROVE IInv'
  BY <1>1, OpenDisplayPreserves
<1>2. ASSUME NEW h \in Handle, NEW ops \in Provides, OpenModeLib(h, ops) PROVE IInv'
  BY <1>2, OpenModeLibPreserves
<1>3. CASE ModeLibsDone
  BY <1>3 DEF ModeLibsDone, IInv, TypeOK, UseCountExact, MasterListExact, Users,
              CloseProgress, DisplayStaysLoaded, Idle
<1>4. CASE SetMode
  BY <1>4, CloseDLPreserves DEF SetMode
<1>5. CASE Destroy
  <2>1. OpDisplay # OpGC
    BY DEF OpGC, OpDisplay
  <2> QED
    BY <1>5, <2>1, CloseDLPreserves DEF Destroy
<1>6. CASE ExitDL
  BY <1>6, ExitDLPreserves
<1>7. CASE ZapDL
  BY <1>7, ZapDLPreserves
<1>8. CASE Gone \/ UNCHANGED vars
  BY <1>8 DEF Gone, vars, IInv, TypeOK, UseCountExact, MasterListExact, Users,
              CloseProgress, DisplayStaysLoaded, Idle
<1> QED
  BY <1>1, <1>2, <1>3, <1>4, <1>5, <1>6, <1>7, <1>8 DEF Next

\* The inductive invariant: the counts and lists of ggi/dl.c agree, and
\* _ggiCloseDL has called every exit function before it drops a list.
THEOREM Invariance == Spec => []IInv
<1>1. Init => IInv
  BY InitIInv
<1>2. IInv /\ [Next]_vars => IInv'
  BY NextIInv
<1> QED
  BY <1>1, <1>2, PTL DEF Spec

\* Every variable keeps its type; a use count never drops below zero.
THEOREM TypeCorrect == Spec => []TypeOK
<1>1. IInv => TypeOK
  BY DEF IInv
<1> QED
  BY <1>1, Invariance, PTL

\* A library's use count is the number of the visual's lists that hold it
\* (_ggiAddDL and _ggiZapDL, one increment or decrement per list).
THEOREM CountsExact == Spec => []UseCountExact
<1>1. IInv => UseCountExact
  BY DEF IInv
<1> QED
  BY <1>1, Invariance, PTL

\* The master list holds exactly the libraries that some list holds: _ggiZapDL
\* frees a handle when its last list drops it, and never before.
THEOREM MasterExact == Spec => []MasterListExact
<1>1. IInv => MasterListExact
  BY DEF IInv
<1> QED
  BY <1>1, Invariance, PTL

\* No mode set closes the library of the display.
THEOREM DisplayLoaded == Spec => []DisplayStaysLoaded
<1>1. IInv => DisplayStaysLoaded
  BY DEF IInv
<1> QED
  BY <1>1, Invariance, PTL

\* When the display's library is closed, no other library is left.
THEOREM DisplayLast == Spec => DisplayClosedLast
<1>1. IInv /\ IInv' /\ [Next]_vars
      => [\A h \in master \ master' : h \in list[OpDisplay] => master' = {}]_vars
  <2> SUFFICES ASSUME IInv, IInv', Next, NEW h \in master \ master', h \in list[OpDisplay]
               PROVE  master' = {}
    BY DEF vars
  <2>1. CASE ZapDL
    <3>1. Users(h) = {at}
      BY <2>1, ZapDLCounts
    <3>2. at = 4
      BY <3>1 DEF Users, Op, OpDisplay
    <3>3. \A o \in Op : list'[o] = {}
      BY <2>1, <3>2 DEF ZapDL, IInv, CloseProgress, TypeOK, Op
    <3> QED
      BY <3>3 DEF IInv, MasterListExact
  <2>2. CASE ~ZapDL
    BY <2>2 DEF Next, OpenDisplay, OpenModeLib, AddDL, ModeLibsDone, SetMode, Destroy,
                CloseDL, ExitDL, Gone, vars
  <2> QED
    BY <2>1, <2>2
<1> QED
  BY <1>1, Invariance, NextIInv, PTL DEF Spec, DisplayClosedLast

---------------------------------------------------------------------------
(* VisualDL implements DLLifecycle.                                        *)

LEMMA StepIsLifeStep ==
  ASSUME IInv, [Next]_vars
  PROVE  [Lifecycle!Next]_life
<1>1. ASSUME NEW h \in Handle, NEW ops \in Provides, AddDL(h, ops)
      PROVE  Lifecycle!Next
  <2>1. life[h] = "none"
    BY <1>1 DEF AddDL, life
  <2>2. life' = [life EXCEPT ![h] = "open"]
    BY <1>1 DEF AddDL, life
  <2> QED
    BY <2>1, <2>2 DEF Lifecycle!Next, Lifecycle!Open
<1>2. CASE \E h \in Handle, ops \in Provides : OpenDisplay(h, ops)
  BY <1>1, <1>2 DEF OpenDisplay
<1>3. CASE \E h \in Handle, ops \in Provides : OpenModeLib(h, ops)
  BY <1>1, <1>3 DEF OpenModeLib
<1>4. CASE ModeLibsDone \/ SetMode \/ Destroy \/ Gone \/ UNCHANGED vars
  BY <1>4 DEF ModeLibsDone, SetMode, Destroy, CloseDL, Gone, vars, life
<1>5. CASE ExitDL
  <2>1. list[at] \subseteq master /\ list[at] \in SUBSET Handle
    BY <1>5 DEF IInv, TypeOK, MasterListExact, OpGC, OpDisplay, Op
  <2>2. \A h \in list[at] : life[h] # "none"
    BY <2>1 DEF life
  <2>3. life' = [h \in Handle |-> IF h \in list[at] THEN "exited" ELSE life[h]]
    BY <1>5, <2>1 DEF ExitDL, life
  <2>4. Lifecycle!Exit(list[at])
    BY <2>2, <2>3 DEF Lifecycle!Exit
  <2> QED
    BY <2>1, <2>4 DEF Lifecycle!Next
<1>6. CASE ZapDL
  <2> DEFINE S == Unused(list[at])
  <2>1. /\ S \subseteq list[at] /\ list[at] \subseteq master
        /\ list[at] \subseteq exited /\ list[at] \in SUBSET Handle
    BY <1>6 DEF IInv, TypeOK, MasterListExact, CloseProgress, ZapDL, Unused,
                OpGC, OpDisplay, Op
  <2>2. \A h \in S : life[h] = "exited"
    BY <2>1 DEF life
  <2>3. master' = master \ S /\ exited' = exited
    BY <1>6 DEF ZapDL
  <2> HIDE DEF S
  <2>4. life' = [h \in Handle |-> IF h \in S THEN "none" ELSE life[h]]
    BY <2>3 DEF life
  <2>5. Lifecycle!Close(S)
    BY <2>2, <2>4 DEF Lifecycle!Close
  <2> QED
    BY <2>1, <2>5 DEF Lifecycle!Next
<1> QED
  BY <1>2, <1>3, <1>4, <1>5, <1>6 DEF Next

\* Every library is opened, has its exit function called, and is closed
\* once, in this order.
THEOREM ImplementsLifecycle == Spec => LifecycleSpec
<1>1. Init => Lifecycle!Init
  BY DEF Init, Lifecycle!Init, life
<1>2. IInv /\ [Next]_vars => [Lifecycle!Next]_life
  BY StepIsLifeStep
<1> QED
  BY <1>1, <1>2, Invariance, PTL DEF Spec, LifecycleSpec, Lifecycle!Spec

=============================================================================
