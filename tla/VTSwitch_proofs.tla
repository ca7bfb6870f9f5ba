-------------------------- MODULE VTSwitch_proofs --------------------------
(***************************************************************************)
(* Proofs of the safety properties of VTSwitch, for every set of visuals   *)
(* and every number of switches.                                           *)
(***************************************************************************)
EXTENDS VTSwitch, SequenceTheorems, TLAPS

\* Some invocation of the handler in s has not made its first test yet.
Early(s) == \E i \in 1..Len(s) : s[i] = "entry"

\* Two invocations in s have not.
Doubled(s) ==
  \E i \in 1..Len(s), j \in 1..Len(s) :
    i # j /\ s[i] = "entry" /\ s[j] = "entry"

\* t is s when its innermost invocation is no longer at its first test.
Popped(s, t) ==
  /\ t \in Seq(Frames)
  /\ \A i \in 1..Len(t) : t[i] = "entry" => i < Len(s) /\ s[i] = "entry"
  /\ \A i \in 1..Len(s) : i < Len(s) /\ s[i] = "entry" => i <= Len(t) /\ t[i] = "entry"

\* A signal is under way: pending, or delivered to a handler that has not
\* looked at the flags.
UnderWay == sig \/ Early(stack)

\* Two are.
Twice == (sig /\ Early(stack)) \/ Doubled(stack)

-----------------------------------------------------------------------------
(***************************************************************************)
(* The stack of invocations.                                               *)
(***************************************************************************)

\* Without its innermost invocation s has an early one if there were two
\* early ones, or if the innermost was not early; it has no more early ones
\* than before (Return and ReplaceTop of the handler).
LEMMA PoppedStack ==
  ASSUME NEW s \in Seq(Frames), NEW t, s # <<>>, Popped(s, t)
  PROVE  /\ Doubled(t) => Doubled(s)
         /\ Early(t) => Early(s)
         /\ s[Len(s)] = "entry" => Early(s)
         /\ s[Len(s)] = "entry" /\ Early(t) => Doubled(s)
         /\ Doubled(s) => Early(t)
         /\ s[Len(s)] # "entry" => (Early(t) <=> Early(s))
         /\ s[Len(s)] # "entry" => (Doubled(t) <=> Doubled(s))
<1>1. /\ Len(s) \in Nat /\ Len(s) > 0 /\ Len(s) \in 1..Len(s)
      /\ Len(t) \in Nat
  BY DEF Popped
<1>2. \A i \in 1..Len(t) : t[i] = "entry" => i \in 1..Len(s) /\ i # Len(s) /\ s[i] = "entry"
  BY <1>1 DEF Popped
<1>3. \A i \in 1..Len(s) : i # Len(s) /\ s[i] = "entry" => i \in 1..Len(t) /\ t[i] = "entry"
  BY <1>1 DEF Popped
<1>4. (Doubled(t) => Doubled(s)) /\ (Early(t) => Early(s))
  BY <1>2 DEF Doubled, Early
<1>5. s[Len(s)] = "entry" => Early(s)
  BY <1>1 DEF Early
<1>6. s[Len(s)] = "entry" /\ Early(t) => Doubled(s)
  BY <1>1, <1>2 DEF Doubled, Early
<1>7. Doubled(s) => Early(t)
  BY <1>1, <1>3 DEF Doubled, Early
<1>8. s[Len(s)] # "entry" => (Early(s) => Early(t)) /\ (Doubled(s) => Doubled(t))
  BY <1>1, <1>3 DEF Doubled, Early
<1> QED BY <1>4, <1>5, <1>6, <1>7, <1>8

\* All but the last element of a sequence.
LEMMA FrontElements ==
  ASSUME NEW s \in Seq(Frames), s # <<>>
  PROVE  /\ Front(s) \in Seq(Frames) /\ Len(Front(s)) = Len(s) - 1
         /\ \A i \in 1..Len(s) - 1 : Front(s)[i] = s[i]
<1>1. Len(s) \in Nat /\ Len(s) > 0 /\ \A i \in 1..Len(s) - 1 : s[i] \in Frames
  OBVIOUS
<1> DEFINE last == Len(s) - 1
           u == SubSeq(s, 1, last)
<1>2. last \in Int /\ 1 \in Int /\ \A i \in 1..last : s[i] \in Frames
  BY <1>1
<1>3. /\ u \in Seq(Frames) /\ Len(u) = IF 1 <= last THEN last - 1 + 1 ELSE 0
      /\ \A i \in 1..last - 1 + 1 : u[i] = s[1 + i - 1]
  <2> HIDE DEF last
  <2> QED BY <1>2, SubSeqProperties
<1>4. Front(s) = u
  BY DEF Front
<1>5. last \in Nat
  BY <1>1
<1> HIDE DEF last, u
<1>6. /\ u \in Seq(Frames) /\ Len(u) = last
      /\ \A i \in 1..last : u[i] = s[i]
  BY <1>3, <1>5
<1> QED BY <1>4, <1>6 DEF last

\* Replacing the innermost frame by one that is past the first test.
LEMMA ReplacedTop ==
  ASSUME NEW s \in Seq(Frames), s # <<>>, NEW f \in Frames \ {"entry"}
  PROVE  Popped(s, Append(Front(s), f))
<1> DEFINE t == Append(Front(s), f)
<1>1. Len(s) \in Nat /\ Len(s) > 0 /\ Len(s) - 1 \in 0..Len(s)
  OBVIOUS
<1>2. /\ Front(s) \in Seq(Frames) /\ Len(Front(s)) = Len(s) - 1
      /\ \A i \in 1..Len(s) - 1 : Front(s)[i] = s[i]
  BY FrontElements
<1>3. t \in Seq(Frames) /\ Len(t) = Len(s)
  BY <1>1, <1>2
<1>4. \A i \in 1..Len(s) - 1 : t[i] = s[i]
  BY <1>1, <1>2
<1>5. t[Len(s)] = f
  BY <1>1, <1>2
<1> QED BY <1>1, <1>3, <1>4, <1>5 DEF Popped

\* A return leaves the other invocations as they are, but for a pause() that
\* the signal has interrupted.
LEMMA Returned ==
  ASSUME TypeOK, stack # <<>>, Return
  PROVE  /\ Popped(stack, stack')
         /\ main' \in Places
         /\ main' = main \/ (main = "paused" /\ main' = "idle")
<1> DEFINE below == Front(stack)
<1>1. stack \in Seq(Frames) /\ Len(stack) \in Nat /\ Len(stack) > 0
  BY DEF TypeOK
<1>2. /\ below \in Seq(Frames) /\ Len(below) = Len(stack) - 1
      /\ \A i \in 1..Len(below) : below[i] = stack[i]
  BY <1>1, FrontElements
<1>3. /\ main' \in Places
      /\ main' = main \/ (main = "paused" /\ main' = "idle")
  BY DEF Return, TypeOK, Places
<1>4. CASE below = <<>>
  <2>1. stack' = <<>> /\ Len(stack) = 1
    BY <1>1, <1>2, <1>4 DEF Return
  <2> QED BY <1>1, <1>3, <2>1 DEF Popped
<1>5. CASE below # <<>> /\ Last(below) = "paused"
  <2>1. stack' = Append(Front(below), "check")
    BY <1>5 DEF Return
  <2>2. Popped(below, stack')
    BY <1>2, <1>5, <2>1, ReplacedTop DEF Frames
  <2>3. below[Len(below)] # "entry" /\ Len(below) \in Nat
    BY <1>2, <1>5 DEF Last
  <2>4. \A i \in 1..Len(stack') :
          stack'[i] = "entry" => i < Len(stack) /\ stack[i] = "entry"
    BY <1>1, <1>2, <2>2, <2>3 DEF Popped
  <2>5. \A i \in 1..Len(stack) :
          i < Len(stack) /\ stack[i] = "entry"
            => i <= Len(stack') /\ stack'[i] = "entry"
    BY <1>1, <1>2, <2>2, <2>3 DEF Popped
  <2> QED BY <1>3, <2>2, <2>4, <2>5 DEF Popped
<1>6. CASE below # <<>> /\ Last(below) # "paused"
  <2>1. stack' = below
    BY <1>6 DEF Return
  <2> QED BY <1>1, <1>2, <1>3, <2>1 DEF Popped
<1> QED BY <1>4, <1>5, <1>6

\* A new invocation is early, and the others are what they were.
LEMMA Entered ==
  ASSUME NEW s \in Seq(Frames)
  PROVE  LET t == Append(s, "entry") IN
         /\ t \in Seq(Frames) /\ t # <<>> /\ Early(t)
         /\ Doubled(t) <=> Early(s)
<1> DEFINE t == Append(s, "entry")
<1>1. /\ t \in Seq(Frames) /\ Len(t) = Len(s) + 1 /\ Len(s) \in Nat
      /\ \A i \in 1..Len(s) : t[i] = s[i]
      /\ t[Len(t)] = "entry" /\ Len(t) \in 1..Len(t)
  BY DEF Frames
<1>2. t # <<>> /\ Early(t)
  BY <1>1 DEF Early
<1>3. Early(s) => Doubled(t)
  BY <1>1 DEF Early, Doubled
<1>4. Doubled(t) => Early(s)
  BY <1>1 DEF Early, Doubled
<1> QED BY <1>1, <1>2, <1>3, <1>4

-----------------------------------------------------------------------------
(***************************************************************************)
(* The inductive invariant.                                                *)
(***************************************************************************)

\* A visual has been asked to acknowledge a request.
Asked == \E v \in plugged : pend[v]

\* Between release_vt's callbacks and its store to vt_switched_away.
Storing == main \in {"clear", "set"}

Shape ==
  /\ ~process => console = "ours" /\ ~newvt /\ ~sig
  /\ stack # <<>> => process
  /\ main \in {"reldisp", "clear"} =>
       switchpending /\ ~away /\ ~Asked /\ \A v \in plugged : ~mapped[v]
  /\ Asked => switchpending

\* A signal that finds the flag set is an acquire; so two can be under way
\* only if the user has left again.
Away ==
  Unhit({"stale", "merge"}) =>
    /\ UnderWay /\ away => console = "ours"
    /\ Twice /\ away => newvt
    /\ console = "other" => away \/ Storing

Unstored ==
  Unhit({"store"}) /\ Storing => stack = <<>> /\ ~Asked

\* A signal that finds no flag set is a request; a request that has been
\* passed on is still the kernel's; the flag is only set when the kernel shows
\* the other console, or has a signal under way that will clear it.
Told ==
  Unhit({"stale", "merge", "store"}) =>
    /\ UnderWay /\ ~away /\ ~switchpending /\ ~Storing => newvt
    /\ Storing /\ ~sig => console = "other"
    /\ main = "reldisp" \/ Asked => newvt
    /\ process /\ away => console = "other" \/ UnderWay

Heard ==
  Unhit({"store", "lostack"}) =>
    /\ switchpending => main \in {"reldisp", "clear"} \/ Asked
    /\ process /\ newvt => UnderWay \/ main = "reldisp" \/ Asked

IInv ==
  /\ TypeOK /\ Shape /\ Away /\ Unstored /\ Told /\ Heard
  /\ UnmappedWhileAway

-----------------------------------------------------------------------------
(***************************************************************************)
(* What a step does to the signals under way and to the history.           *)
(***************************************************************************)

\* A window that has not been hit had not been hit before.
LEMMA UnhitBefore ==
  ASSUME raced \subseteq raced', NEW W, Unhit(W)'
  PROVE  Unhit(W)
BY DEF Unhit

\* When the innermost invocation has made its first test, a signal is under
\* way only if there were two.
LEMMA InnermostTested ==
  ASSUME TypeOK, InHandler("entry"), Popped(stack, stack'), sig' = sig
  PROVE  /\ UnderWay
         /\ UnderWay' => Twice
         /\ Twice' => Twice
         /\ Twice => UnderWay'
<1>1. stack \in Seq(Frames) /\ stack # <<>> /\ stack[Len(stack)] = "entry"
  BY DEF TypeOK, InHandler, Top
<1> QED BY <1>1, PoppedStack DEF UnderWay, Twice

\* A halted invocation that moves on changes nothing of the sort.
LEMMA InnermostHalted ==
  ASSUME TypeOK, NEW f \in Frames \ {"entry"}, InHandler(f),
         Popped(stack, stack'), sig' = sig
  PROVE  /\ UnderWay' <=> UnderWay
         /\ Twice' <=> Twice
<1>1. stack \in Seq(Frames) /\ stack # <<>> /\ stack[Len(stack)] # "entry"
  BY DEF TypeOK, InHandler, Top
<1> QED BY <1>1, PoppedStack DEF UnderWay, Twice

\* Two signals under way are what the handler does not expect when it
\* releases the console.
LEMMA TwiceIsStale ==
  ASSUME TypeOK, Twice
  PROVE  sig \/ \E i \in 1..Len(stack) - 1 : stack[i] = "entry"
<1>1. Len(stack) \in Nat
  BY DEF TypeOK
<1> QED BY <1>1 DEF Twice, Doubled

\* The handler moves on to its halt loop or returns.
LEMMA ReplacedOrReturned ==
  ASSUME IInv, NEW g \in Frames, InHandler(g),
         Return \/ \E f \in Frames \ {"entry"} : ReplaceTop(f)
  PROVE  /\ Popped(stack, stack') /\ main' \in Places
         /\ main' = main \/ (main = "paused" /\ main' = "idle")
<1>1. TypeOK /\ stack # <<>> /\ stack \in Seq(Frames) /\ main \in Places
  BY DEF IInv, TypeOK, InHandler
<1>2. CASE Return
  BY <1>1, <1>2, Returned
<1>3. CASE \E f \in Frames \ {"entry"} : ReplaceTop(f)
  BY <1>1, <1>3, ReplacedTop DEF ReplaceTop
<1> QED BY <1>2, <1>3

\* Outside the handler only a pending signal is under way.
LEMMA NothingStacked ==
  ASSUME stack = <<>>, stack' = <<>>, sig' = sig
  PROVE  /\ UnderWay' = UnderWay /\ ~Twice' /\ (UnderWay <=> sig)
         /\ stack = <<>> /\ stack' = <<>>
BY DEF UnderWay, Twice, Early, Doubled

-----------------------------------------------------------------------------
(***************************************************************************)
(* Every action keeps the invariant.                                       *)
(***************************************************************************)

\* The user asks for another console: a signal is under way from now on.
LEMMA PressAwayKeepsIInv ==
  ASSUME IInv, PressAway
  PROVE  IInv'
<1>1. UnderWay'
  BY DEF UnderWay, PressAway
<1>2. TypeOK'
  BY <1>1, KeysAssumption DEF IInv, TypeOK, Places, PressAway, kernel, helper,
      target, control
<1>3. Shape'
  BY <1>1 DEF IInv, TypeOK, Shape, Asked, PressAway, kernel, helper, target,
      control
<1>4. Away'
  BY <1>1 DEF IInv, Away, Unhit, Storing, PressAway, kernel, helper, target,
      control
<1>5. Unstored'
  BY <1>1 DEF IInv, Unstored, Unhit, Storing, Asked, PressAway, kernel,
      helper, target, control
<1>6. Told'
  BY <1>1 DEF IInv, TypeOK, Shape, Away, Unstored, Told, Asked, Unhit,
      Storing, PressAway, kernel, helper, target, control
<1>7. Heard'
  BY <1>1 DEF IInv, TypeOK, Shape, Unstored, Heard, Asked, Unhit, Storing,
      PressAway, kernel, helper, target, control
<1>8. UnmappedWhileAway'
  BY <1>1 DEF IInv, TypeOK, Shape, Away, UnmappedWhileAway, Unhit, Storing,
      PressAway, kernel, helper, target, control
<1> QED BY <1>2, <1>3, <1>4, <1>5, <1>6, <1>7, <1>8 DEF IInv

\* The user comes back.  No other signal can be under way while the flag is
\* set, so the new one is not taken for a second one.
LEMMA PressBackKeepsIInv ==
  ASSUME IInv, PressBack
  PROVE  IInv'
<1>1. UnderWay'
  BY DEF UnderWay, PressBack
<1>2. Doubled(stack) => Early(stack)
  BY DEF Doubled, Early
<1>3. Twice' => Early(stack)
  BY <1>2 DEF Twice, PressBack, control
<1>4. Early(stack) => UnderWay
  BY DEF UnderWay
<1>5. TypeOK'
  BY <1>1, <1>2, <1>3, <1>4, KeysAssumption DEF IInv, TypeOK, Places,
      PressBack, kernel, helper, target, control
<1>6. Shape'
  BY <1>1, <1>2, <1>3, <1>4 DEF IInv, TypeOK, Shape, Asked, PressBack, kernel,
      helper, target, control
<1>7. Away'
  BY <1>1, <1>2, <1>3, <1>4 DEF IInv, Away, Unhit, Storing, PressBack, kernel,
      helper, target, control
<1>8. Unstored'
  BY <1>1, <1>2, <1>3, <1>4 DEF IInv, Unstored, Unhit, Storing, Asked,
      PressBack, kernel, helper, target, control
<1>9. Told'
  BY <1>1, <1>2, <1>3, <1>4 DEF IInv, TypeOK, Shape, Away, Unstored, Told,
      Asked, Unhit, Storing, PressBack, kernel, helper, target, control
<1>10. Heard'
  BY <1>1, <1>2, <1>3, <1>4 DEF IInv, TypeOK, Shape, Unstored, Heard, Asked,
      Unhit, Storing, PressBack, kernel, helper, target, control
<1>11. UnmappedWhileAway'
  BY <1>1, <1>2, <1>3, <1>4 DEF IInv, TypeOK, Shape, Away, UnmappedWhileAway,
      Unhit, Storing, PressBack, kernel, helper, target, control
<1> QED BY <1>5, <1>6, <1>7, <1>8, <1>9, <1>10, <1>11 DEF IInv

\* Delivery turns a pending signal into an invocation of the handler.
LEMMA DeliverKeepsIInv ==
  ASSUME IInv, Deliver
  PROVE  IInv'
<1>1. /\ stack' \in Seq(Frames) /\ stack' # <<>> /\ Early(stack')
      /\ Doubled(stack') <=> Early(stack)
  BY Entered DEF IInv, TypeOK, Deliver
<1>2. UnderWay /\ UnderWay' /\ (Twice' => Twice)
  BY <1>1 DEF UnderWay, Twice, Deliver
<1>3. TypeOK'
  BY <1>1, <1>2 DEF IInv, TypeOK, Places, Deliver, Hit, Races, helper, target
<1>4. Shape'
  BY <1>1, <1>2 DEF IInv, TypeOK, Shape, Asked, Deliver, Hit, Races, helper,
      target
<1>5. Away'
  BY <1>1, <1>2 DEF IInv, Away, Unhit, Storing, Deliver, Hit, Races, helper,
      target
<1>6. Unstored'
  BY <1>1, <1>2 DEF IInv, Unstored, Unhit, Storing, Asked, Deliver, Hit,
      Races, helper, target
<1>7. Told'
  BY <1>1, <1>2 DEF IInv, TypeOK, Shape, Away, Unstored, Told, Asked, Unhit,
      Storing, Deliver, Hit, Races, helper, target
<1>8. Heard'
  BY <1>1, <1>2 DEF IInv, TypeOK, Shape, Unstored, Heard, Asked, Unhit,
      Storing, Deliver, Hit, Races, helper, target
<1>9. UnmappedWhileAway'
  BY <1>1, <1>2 DEF IInv, TypeOK, Shape, Away, UnmappedWhileAway, Unhit,
      Storing, Deliver, Hit, Races, helper, target
<1> QED BY <1>3, <1>4, <1>5, <1>6, <1>7, <1>8, <1>9 DEF IInv

\* An acquire clears the flag.  Its answer lets no request pass, unless the
\* two signals have merged.
LEMMA AcquireKeepsIInv ==
  ASSUME IInv, HandlerAcquire
  PROVE  IInv'
<1>1. /\ Popped(stack, stack') /\ main' \in Places
      /\ main' = main \/ (main = "paused" /\ main' = "idle")
  BY Returned DEF IInv, HandlerAcquire, InHandler
<1>2. /\ UnderWay /\ (UnderWay' => Twice)
      /\ (Twice' => Twice) /\ (Twice => UnderWay')
  BY <1>1, InnermostTested DEF IInv, HandlerAcquire, kernel
<1>3. process /\ stack # <<>> /\ stack' \in Seq(Frames)
  BY <1>1 DEF IInv, Shape, HandlerAcquire, InHandler, Popped
<1>4. TypeOK'
  BY <1>1, <1>2, <1>3 DEF IInv, TypeOK, Places, HandlerAcquire, Reldisp, Hit,
      Races
<1>5. Shape'
  BY <1>1, <1>2, <1>3 DEF IInv, TypeOK, Shape, Asked, HandlerAcquire, Reldisp,
      Hit, Races
<1>6. Away'
  BY <1>1, <1>2, <1>3 DEF IInv, Away, Unhit, Storing, HandlerAcquire, Reldisp,
      Hit, Races
<1>7. Unstored'
  BY <1>1, <1>2, <1>3 DEF IInv, Unstored, Unhit, Storing, Asked,
      HandlerAcquire, Reldisp, Hit, Races
<1>8. Told'
  BY <1>1, <1>2, <1>3 DEF IInv, TypeOK, Shape, Away, Unstored, Told, Asked,
      Unhit, Storing, HandlerAcquire, Reldisp, Hit, Races
<1>9. Heard'
  BY <1>1, <1>2, <1>3 DEF IInv, TypeOK, Shape, Unstored, Heard, Asked, Unhit,
      Storing, HandlerAcquire, Reldisp, Hit, Races
<1>10. UnmappedWhileAway'
  BY <1>1, <1>2, <1>3 DEF IInv, TypeOK, Shape, Away, UnmappedWhileAway, Unhit,
      Storing, HandlerAcquire, Reldisp, Hit, Races
<1> QED BY <1>4, <1>5, <1>6, <1>7, <1>8, <1>9, <1>10 DEF IInv

\* A signal is ignored only while a request has been passed on.
LEMMA AlreadyPendingKeepsIInv ==
  ASSUME IInv, HandlerAlreadyPending
  PROVE  IInv'
<1>1. /\ Popped(stack, stack') /\ main' \in Places
      /\ main' = main \/ (main = "paused" /\ main' = "idle")
  BY Returned DEF IInv, HandlerAlreadyPending, InHandler
<1>2. /\ UnderWay /\ (UnderWay' => Twice)
      /\ (Twice' => Twice) /\ (Twice => UnderWay')
  BY <1>1, InnermostTested DEF IInv, HandlerAlreadyPending, kernel
<1>3. process /\ stack # <<>> /\ stack' \in Seq(Frames)
  BY <1>1 DEF IInv, Shape, HandlerAlreadyPending, InHandler, Popped
<1>4. TypeOK'
  BY <1>1, <1>2, <1>3 DEF IInv, TypeOK, Places, HandlerAlreadyPending, kernel,
      helper, target, control
<1>5. Shape'
  BY <1>1, <1>2, <1>3 DEF IInv, TypeOK, Shape, Asked, HandlerAlreadyPending,
      kernel, helper, target, control
<1>6. Away'
  BY <1>1, <1>2, <1>3 DEF IInv, Away, Unhit, Storing, HandlerAlreadyPending,
      kernel, helper, target, control
<1>7. Unstored'
  BY <1>1, <1>2, <1>3 DEF IInv, Unstored, Unhit, Storing, Asked,
      HandlerAlreadyPending, kernel, helper, target, control
<1>8. Told'
  BY <1>1, <1>2, <1>3 DEF IInv, TypeOK, Shape, Away, Unstored, Told, Asked,
      Unhit, Storing, HandlerAlreadyPending, kernel, helper, target, control
<1>9. Heard'
  BY <1>1, <1>2, <1>3 DEF IInv, TypeOK, Shape, Unstored, Heard, Asked, Unhit,
      Storing, HandlerAlreadyPending, kernel, helper, target, control
<1>10. UnmappedWhileAway'
  BY <1>1, <1>2, <1>3 DEF IInv, TypeOK, Shape, Away, UnmappedWhileAway, Unhit,
      Storing, HandlerAlreadyPending, kernel, helper, target, control
<1> QED BY <1>4, <1>5, <1>6, <1>7, <1>8, <1>9, <1>10 DEF IInv

\* A release sets the flag for the console the answer lets the kernel show;
\* another signal under way would be the stale one.
LEMMA ReleaseKeepsIInv ==
  ASSUME IInv, HandlerRelease
  PROVE  IInv'
<1>1. /\ Popped(stack, stack') /\ main' \in Places
      /\ main' = main \/ (main = "paused" /\ main' = "idle")
  BY ReplacedOrReturned DEF HandlerRelease, IInv, Frames
<1>2. /\ UnderWay /\ (UnderWay' => Twice)
      /\ (Twice' => Twice) /\ (Twice => UnderWay')
  BY <1>1, InnermostTested DEF IInv, HandlerRelease, kernel
<1>3. process /\ stack # <<>> /\ stack' \in Seq(Frames)
  BY <1>1 DEF IInv, Shape, HandlerRelease, InHandler, Popped
<1>4. Twice => "stale" \in raced'
  BY TwiceIsStale DEF HandlerRelease, Hit, IInv
<1>5. Unhit({"stale", "merge", "store"})' => newvt /\ ~UnderWay'
  BY <1>2, <1>3, <1>4 DEF HandlerRelease, IInv, Told, Unstored, Storing,
      Unhit
<1>6. TypeOK'
  BY <1>1, <1>2, <1>3, <1>4, <1>5 DEF IInv, TypeOK, Places, HandlerRelease,
      Switching, Reldisp, Hit, Races
<1>7. Shape'
  BY <1>1, <1>2, <1>3, <1>4, <1>5 DEF IInv, TypeOK, Shape, Asked,
      HandlerRelease, Switching, Reldisp, Hit, Races
<1>8. Away'
  BY <1>1, <1>2, <1>3, <1>4, <1>5 DEF IInv, Away, Unhit, Storing,
      HandlerRelease, Switching, Reldisp, Hit, Races
<1>9. Unstored'
  BY <1>1, <1>2, <1>3, <1>4, <1>5 DEF IInv, Unstored, Unhit, Storing, Asked,
      HandlerRelease, Switching, Reldisp, Hit, Races
<1>10. Told'
  BY <1>1, <1>2, <1>3, <1>4, <1>5 DEF IInv, TypeOK, Shape, Away, Unstored,
      Told, Asked, Unhit, Storing, HandlerRelease, Switching, Reldisp, Hit,
      Races
<1>11. Heard'
  BY <1>1, <1>2, <1>3, <1>4, <1>5 DEF IInv, TypeOK, Shape, Unstored, Heard,
      Asked, Unhit, Storing, HandlerRelease, Switching, Reldisp, Hit, Races
<1>12. UnmappedWhileAway'
  BY <1>1, <1>2, <1>3, <1>4, <1>5 DEF IInv, TypeOK, Shape, Away,
      UnmappedWhileAway, Unhit, Storing, HandlerRelease, Switching, Reldisp,
      Hit, Races
<1> QED BY <1>6, <1>7, <1>8, <1>9, <1>10, <1>11, <1>12 DEF IInv

\* A request that is passed on is the kernel's: the flag is not set, and
\* release_vt has not answered it.
LEMMA RequestKeepsIInv ==
  ASSUME IInv, HandlerRequest
  PROVE  IInv'
<1>1. /\ Popped(stack, stack') /\ main' \in Places
      /\ main' = main \/ (main = "paused" /\ main' = "idle")
  BY Returned DEF IInv, HandlerRequest, InHandler
<1>2. /\ UnderWay /\ (UnderWay' => Twice)
      /\ (Twice' => Twice) /\ (Twice => UnderWay')
  BY <1>1, InnermostTested DEF IInv, HandlerRequest, kernel
<1>3. process /\ stack # <<>> /\ stack' \in Seq(Frames)
  BY <1>1 DEF IInv, Shape, HandlerRequest, InHandler, Popped
<1>4. TypeOK'
  BY <1>1, <1>2, <1>3 DEF IInv, TypeOK, Places, HandlerRequest, Hit, Races,
      kernel
<1>5. Shape'
  BY <1>1, <1>2, <1>3 DEF IInv, TypeOK, Shape, Asked, HandlerRequest, Hit,
      Races, kernel
<1>6. Away'
  BY <1>1, <1>2, <1>3 DEF IInv, Away, Unhit, Storing, HandlerRequest, Hit,
      Races, kernel
<1>7. Unstored'
  BY <1>1, <1>2, <1>3 DEF IInv, Unstored, Unhit, Storing, Asked,
      HandlerRequest, Hit, Races, kernel
<1>8. Told'
  BY <1>1, <1>2, <1>3 DEF IInv, TypeOK, Shape, Away, Unstored, Told, Asked,
      Unhit, Storing, HandlerRequest, Hit, Races, kernel
<1>9. Heard'
  BY <1>1, <1>2, <1>3 DEF IInv, TypeOK, Shape, Unstored, Heard, Asked, Unhit,
      Storing, HandlerRequest, Hit, Races, kernel
<1>10. UnmappedWhileAway'
  BY <1>1, <1>2, <1>3 DEF IInv, TypeOK, Shape, Away, UnmappedWhileAway, Unhit,
      Storing, HandlerRequest, Hit, Races, kernel
<1> QED BY <1>4, <1>5, <1>6, <1>7, <1>8, <1>9, <1>10 DEF IInv

\* The halted handler looks at the flag.
LEMMA HaltCheckKeepsIInv ==
  ASSUME IInv, HaltCheck
  PROVE  IInv'
<1>1. /\ Popped(stack, stack') /\ main' \in Places
      /\ main' = main \/ (main = "paused" /\ main' = "idle")
  BY ReplacedOrReturned DEF HaltCheck, IInv, Frames
<1>2. (UnderWay' <=> UnderWay) /\ (Twice' <=> Twice)
  BY <1>1, InnermostHalted DEF IInv, HaltCheck, Frames, kernel
<1>3. process /\ stack # <<>> /\ stack' \in Seq(Frames)
  BY <1>1 DEF IInv, Shape, HaltCheck, InHandler, Popped
<1>4. TypeOK'
  BY <1>1, <1>2, <1>3 DEF IInv, TypeOK, Places, HaltCheck, kernel, helper,
      target, control
<1>5. Shape'
  BY <1>1, <1>2, <1>3 DEF IInv, TypeOK, Shape, Asked, HaltCheck, kernel,
      helper, target, control
<1>6. Away'
  BY <1>1, <1>2, <1>3 DEF IInv, Away, Unhit, Storing, HaltCheck, kernel,
      helper, target, control
<1>7. Unstored'
  BY <1>1, <1>2, <1>3 DEF IInv, Unstored, Unhit, Storing, Asked, HaltCheck,
      kernel, helper, target, control
<1>8. Told'
  BY <1>1, <1>2, <1>3 DEF IInv, TypeOK, Shape, Away, Unstored, Told, Asked,
      Unhit, Storing, HaltCheck, kernel, helper, target, control
<1>9. Heard'
  BY <1>1, <1>2, <1>3 DEF IInv, TypeOK, Shape, Unstored, Heard, Asked, Unhit,
      Storing, HaltCheck, kernel, helper, target, control
<1>10. UnmappedWhileAway'
  BY <1>1, <1>2, <1>3 DEF IInv, TypeOK, Shape, Away, UnmappedWhileAway, Unhit,
      Storing, HaltCheck, kernel, helper, target, control
<1> QED BY <1>4, <1>5, <1>6, <1>7, <1>8, <1>9, <1>10 DEF IInv

\* The halted handler waits.
LEMMA HaltPauseKeepsIInv ==
  ASSUME IInv, HaltPause
  PROVE  IInv'
<1>1. /\ Popped(stack, stack') /\ main' \in Places
      /\ main' = main \/ (main = "paused" /\ main' = "idle")
  BY ReplacedOrReturned DEF HaltPause, IInv, Frames
<1>2. (UnderWay' <=> UnderWay) /\ (Twice' <=> Twice)
  BY <1>1, InnermostHalted DEF IInv, HaltPause, Frames, kernel
<1>3. process /\ stack # <<>> /\ stack' \in Seq(Frames)
  BY <1>1 DEF IInv, Shape, HaltPause, InHandler, Popped
<1>4. TypeOK'
  BY <1>1, <1>2, <1>3 DEF IInv, TypeOK, Places, HaltPause, kernel, helper,
      target, control
<1>5. Shape'
  BY <1>1, <1>2, <1>3 DEF IInv, TypeOK, Shape, Asked, HaltPause, kernel,
      helper, target, control
<1>6. Away'
  BY <1>1, <1>2, <1>3 DEF IInv, Away, Unhit, Storing, HaltPause, kernel,
      helper, target, control
<1>7. Unstored'
  BY <1>1, <1>2, <1>3 DEF IInv, Unstored, Unhit, Storing, Asked, HaltPause,
      kernel, helper, target, control
<1>8. Told'
  BY <1>1, <1>2, <1>3 DEF IInv, TypeOK, Shape, Away, Unstored, Told, Asked,
      Unhit, Storing, HaltPause, kernel, helper, target, control
<1>9. Heard'
  BY <1>1, <1>2, <1>3 DEF IInv, TypeOK, Shape, Unstored, Heard, Asked, Unhit,
      Storing, HaltPause, kernel, helper, target, control
<1>10. UnmappedWhileAway'
  BY <1>1, <1>2, <1>3 DEF IInv, TypeOK, Shape, Away, UnmappedWhileAway, Unhit,
      Storing, HaltPause, kernel, helper, target, control
<1> QED BY <1>4, <1>5, <1>6, <1>7, <1>8, <1>9, <1>10 DEF IInv

\* A visual opened beside others joins what they have been told; the first
\* one finds nothing under way.
LEMMA OpenKeepsIInv ==
  ASSUME NEW v \in Vis, IInv, Open(v)
  PROVE  IInv'
<1>1. /\ UnderWay' = UnderWay /\ ~Twice' /\ (UnderWay <=> sig)
      /\ stack = <<>> /\ stack' = <<>>
  BY NothingStacked DEF Open, kernel, helper, target, control, Running
<1>2. plugged = {} => console = "ours" /\ ~newvt /\ ~sig
  BY DEF IInv, TypeOK, Shape
<1>3. TypeOK'
  BY <1>1, <1>2 DEF IInv, TypeOK, Places, Open, Running, Hit, Races, control
<1>4. Shape'
  BY <1>1, <1>2 DEF IInv, TypeOK, Shape, Asked, Open, Running, Hit, Races,
      control
<1>5. Away'
  BY <1>1, <1>2 DEF IInv, Away, Unhit, Storing, Open, Running, Hit, Races,
      control
<1>6. Unstored'
  BY <1>1, <1>2 DEF IInv, Unstored, Unhit, Storing, Asked, Open, Running, Hit,
      Races, control
<1>7. Told'
  BY <1>1, <1>2 DEF IInv, TypeOK, Shape, Away, Unstored, Told, Asked, Unhit,
      Storing, Open, Running, Hit, Races, control
<1>8. Heard'
  BY <1>1, <1>2 DEF IInv, TypeOK, Shape, Unstored, Heard, Asked, Unhit,
      Storing, Open, Running, Hit, Races, control
<1>9. UnmappedWhileAway'
  BY <1>1, <1>2 DEF IInv, TypeOK, Shape, Away, UnmappedWhileAway, Unhit,
      Storing, Open, Running, Hit, Races, control
<1> QED BY <1>3, <1>4, <1>5, <1>6, <1>7, <1>8, <1>9 DEF IInv

\* The last visual takes the kernel's request with it; another one may take
\* the acknowledgement that all have been asked for.
LEMMA CloseKeepsIInv ==
  ASSUME NEW v \in Vis, IInv, Close(v)
  PROVE  IInv'
<1>1. /\ UnderWay' = UnderWay /\ ~Twice' /\ (UnderWay <=> sig)
      /\ stack = <<>> /\ stack' = <<>>
  BY NothingStacked DEF Close, kernel, helper, target, control, Running
<1>2. TypeOK'
  BY <1>1 DEF IInv, TypeOK, Places, Close, Running, Hit, Races, control
<1>3. Shape'
  BY <1>1 DEF IInv, TypeOK, Shape, Asked, Close, Running, Hit, Races, control
<1>4. Away'
  BY <1>1 DEF IInv, Away, Unhit, Storing, Close, Running, Hit, Races, control
<1>5. Unstored'
  BY <1>1 DEF IInv, Unstored, Unhit, Storing, Asked, Close, Running, Hit,
      Races, control
<1>6. Told'
  BY <1>1 DEF IInv, TypeOK, Shape, Away, Unstored, Told, Asked, Unhit,
      Storing, Close, Running, Hit, Races, control
<1>7. Heard'
  BY <1>1 DEF IInv, TypeOK, Shape, Unstored, Heard, Asked, Unhit, Storing,
      Close, Running, Hit, Races, control
<1>8. UnmappedWhileAway'
  BY <1>1 DEF IInv, TypeOK, Shape, Away, UnmappedWhileAway, Unhit, Storing,
      Close, Running, Hit, Races, control
<1> QED BY <1>2, <1>3, <1>4, <1>5, <1>6, <1>7, <1>8 DEF IInv

\* The program asks to be told.
LEMMA NoHaltOnUnmapKeepsIInv ==
  ASSUME NEW v \in Vis, IInv, NoHaltOnUnmap(v)
  PROVE  IInv'
<1>1. /\ UnderWay' = UnderWay /\ ~Twice' /\ (UnderWay <=> sig)
      /\ stack = <<>> /\ stack' = <<>>
  BY NothingStacked DEF NoHaltOnUnmap, kernel, helper, target, control, Running
<1>2. TypeOK'
  BY <1>1 DEF IInv, TypeOK, Places, NoHaltOnUnmap, kernel, helper, target,
      control
<1>3. Shape'
  BY <1>1 DEF IInv, TypeOK, Shape, Asked, NoHaltOnUnmap, kernel, helper,
      target, control
<1>4. Away'
  BY <1>1 DEF IInv, Away, Unhit, Storing, NoHaltOnUnmap, kernel, helper,
      target, control
<1>5. Unstored'
  BY <1>1 DEF IInv, Unstored, Unhit, Storing, Asked, NoHaltOnUnmap, kernel,
      helper, target, control
<1>6. Told'
  BY <1>1 DEF IInv, TypeOK, Shape, Away, Unstored, Told, Asked, Unhit,
      Storing, NoHaltOnUnmap, kernel, helper, target, control
<1>7. Heard'
  BY <1>1 DEF IInv, TypeOK, Shape, Unstored, Heard, Asked, Unhit, Storing,
      NoHaltOnUnmap, kernel, helper, target, control
<1>8. UnmappedWhileAway'
  BY <1>1 DEF IInv, TypeOK, Shape, Away, UnmappedWhileAway, Unhit, Storing,
      NoHaltOnUnmap, kernel, helper, target, control
<1> QED BY <1>2, <1>3, <1>4, <1>5, <1>6, <1>7, <1>8 DEF IInv

\* An acknowledgement leads to release_vt, or finds the console away.
LEMMA AcknowledgeSwitchKeepsIInv ==
  ASSUME NEW v \in Vis, IInv, AcknowledgeSwitch(v)
  PROVE  IInv'
<1>1. /\ UnderWay' = UnderWay /\ ~Twice' /\ (UnderWay <=> sig)
      /\ stack = <<>> /\ stack' = <<>>
  BY NothingStacked DEF AcknowledgeSwitch, kernel, helper, target, control, Running
<1>2. TypeOK'
  BY <1>1 DEF IInv, TypeOK, Places, AcknowledgeSwitch, DoSwitch, Switching,
      Running, kernel, helper, target, control
<1>3. Shape'
  BY <1>1 DEF IInv, TypeOK, Shape, Asked, AcknowledgeSwitch, DoSwitch,
      Switching, Running, kernel, helper, target, control
<1>4. Away'
  BY <1>1 DEF IInv, Away, Unhit, Storing, AcknowledgeSwitch, DoSwitch,
      Switching, Running, kernel, helper, target, control
<1>5. Unstored'
  BY <1>1 DEF IInv, Unstored, Unhit, Storing, Asked, AcknowledgeSwitch,
      DoSwitch, Switching, Running, kernel, helper, target, control
<1>6. Told'
  BY <1>1 DEF IInv, TypeOK, Shape, Away, Unstored, Told, Asked, Unhit,
      Storing, AcknowledgeSwitch, DoSwitch, Switching, Running, kernel,
      helper, target, control
<1>7. Heard'
  BY <1>1 DEF IInv, TypeOK, Shape, Unstored, Heard, Asked, Unhit, Storing,
      AcknowledgeSwitch, DoSwitch, Switching, Running, kernel, helper, target,
      control
<1>8. UnmappedWhileAway'
  BY <1>1 DEF IInv, TypeOK, Shape, Away, UnmappedWhileAway, Unhit, Storing,
      AcknowledgeSwitch, DoSwitch, Switching, Running, kernel, helper, target,
      control
<1> QED BY <1>2, <1>3, <1>4, <1>5, <1>6, <1>7, <1>8 DEF IInv

\* So does the wish to be halted, if a request is open.
LEMMA HaltOnUnmapKeepsIInv ==
  ASSUME NEW v \in Vis, IInv, HaltOnUnmap(v)
  PROVE  IInv'
<1>1. /\ UnderWay' = UnderWay /\ ~Twice' /\ (UnderWay <=> sig)
      /\ stack = <<>> /\ stack' = <<>>
  BY NothingStacked DEF HaltOnUnmap, kernel, helper, target, control, Running
<1>2. TypeOK'
  BY <1>1 DEF IInv, TypeOK, Places, HaltOnUnmap, DoSwitch, Switching, Running,
      kernel, helper, target, control
<1>3. Shape'
  BY <1>1 DEF IInv, TypeOK, Shape, Asked, HaltOnUnmap, DoSwitch, Switching,
      Running, kernel, helper, target, control
<1>4. Away'
  BY <1>1 DEF IInv, Away, Unhit, Storing, HaltOnUnmap, DoSwitch, Switching,
      Running, kernel, helper, target, control
<1>5. Unstored'
  BY <1>1 DEF IInv, Unstored, Unhit, Storing, Asked, HaltOnUnmap, DoSwitch,
      Switching, Running, kernel, helper, target, control
<1>6. Told'
  BY <1>1 DEF IInv, TypeOK, Shape, Away, Unstored, Told, Asked, Unhit,
      Storing, HaltOnUnmap, DoSwitch, Switching, Running, kernel, helper,
      target, control
<1>7. Heard'
  BY <1>1 DEF IInv, TypeOK, Shape, Unstored, Heard, Asked, Unhit, Storing,
      HaltOnUnmap, DoSwitch, Switching, Running, kernel, helper, target,
      control
<1>8. UnmappedWhileAway'
  BY <1>1 DEF IInv, TypeOK, Shape, Away, UnmappedWhileAway, Unhit, Storing,
      HaltOnUnmap, DoSwitch, Switching, Running, kernel, helper, target,
      control
<1> QED BY <1>2, <1>3, <1>4, <1>5, <1>6, <1>7, <1>8 DEF IInv

\* release_vt answers a request that is still the kernel's.
LEMMA ReleaseIoctlKeepsIInv ==
  ASSUME IInv, ReleaseIoctl
  PROVE  IInv'
<1>1. /\ UnderWay' = UnderWay /\ ~Twice' /\ (UnderWay <=> sig)
      /\ stack = <<>> /\ stack' = <<>>
  BY NothingStacked DEF ReleaseIoctl, kernel, helper, target, control, Running
<1>2. TypeOK'
  BY <1>1 DEF IInv, TypeOK, Places, ReleaseIoctl, Reldisp, helper, target
<1>3. Shape'
  BY <1>1 DEF IInv, TypeOK, Shape, Asked, ReleaseIoctl, Reldisp, helper,
      target
<1>4. Away'
  BY <1>1 DEF IInv, Away, Unhit, Storing, ReleaseIoctl, Reldisp, helper,
      target, Shape
<1>5. Unstored'
  BY <1>1 DEF IInv, Unstored, Unhit, Storing, Asked, ReleaseIoctl, Reldisp,
      helper, target, Shape
<1>6. Told'
  BY <1>1 DEF IInv, TypeOK, Shape, Away, Unstored, Told, Asked, Unhit,
      Storing, ReleaseIoctl, Reldisp, helper, target
<1>7. Heard'
  BY <1>1 DEF IInv, TypeOK, Shape, Unstored, Heard, Asked, Unhit, Storing,
      ReleaseIoctl, Reldisp, helper, target
<1>8. UnmappedWhileAway'
  BY <1>1 DEF IInv, TypeOK, Shape, Away, UnmappedWhileAway, Unhit, Storing,
      ReleaseIoctl, Reldisp, helper, target
<1> QED BY <1>2, <1>3, <1>4, <1>5, <1>6, <1>7, <1>8 DEF IInv

\* The request is done; no signal has come, so nobody has been asked again.
LEMMA ReleaseClearKeepsIInv ==
  ASSUME IInv, ReleaseClear
  PROVE  IInv'
<1>1. /\ UnderWay' = UnderWay /\ ~Twice' /\ (UnderWay <=> sig)
      /\ stack = <<>> /\ stack' = <<>>
  BY NothingStacked DEF ReleaseClear, kernel, helper, target, control, Running
<1>2. TypeOK'
  BY <1>1 DEF IInv, TypeOK, Places, ReleaseClear, kernel, target
<1>3. Shape'
  BY <1>1 DEF IInv, TypeOK, Shape, Asked, ReleaseClear, kernel, target
<1>4. Away'
  BY <1>1 DEF IInv, Away, Unhit, Storing, ReleaseClear, kernel, target
<1>5. Unstored'
  BY <1>1 DEF IInv, Unstored, Unhit, Storing, Asked, ReleaseClear, kernel,
      target
<1>6. Told'
  BY <1>1 DEF IInv, TypeOK, Shape, Away, Unstored, Told, Asked, Unhit,
      Storing, ReleaseClear, kernel, target
<1>7. Heard'
  BY <1>1 DEF IInv, TypeOK, Shape, Unstored, Heard, Asked, Unhit, Storing,
      ReleaseClear, kernel, target
<1>8. UnmappedWhileAway'
  BY <1>1 DEF IInv, TypeOK, Shape, Away, UnmappedWhileAway, Unhit, Storing,
      ReleaseClear, kernel, target
<1> QED BY <1>2, <1>3, <1>4, <1>5, <1>6, <1>7, <1>8 DEF IInv

\* The flag is stored while the other console is shown.
LEMMA ReleaseSetKeepsIInv ==
  ASSUME IInv, ReleaseSet
  PROVE  IInv'
<1>1. /\ UnderWay' = UnderWay /\ ~Twice' /\ (UnderWay <=> sig)
      /\ stack = <<>> /\ stack' = <<>>
  BY NothingStacked DEF ReleaseSet, kernel, helper, target, control, Running
<1>2. TypeOK'
  BY <1>1 DEF IInv, TypeOK, Places, ReleaseSet, kernel, target
<1>3. Shape'
  BY <1>1 DEF IInv, TypeOK, Shape, Asked, ReleaseSet, kernel, target
<1>4. Away'
  BY <1>1 DEF IInv, Away, Unhit, Storing, ReleaseSet, kernel, target
<1>5. Unstored'
  BY <1>1 DEF IInv, Unstored, Unhit, Storing, Asked, ReleaseSet, kernel,
      target
<1>6. Told'
  BY <1>1 DEF IInv, TypeOK, Shape, Away, Unstored, Told, Asked, Unhit,
      Storing, ReleaseSet, kernel, target
<1>7. Heard'
  BY <1>1 DEF IInv, TypeOK, Shape, Unstored, Heard, Asked, Unhit, Storing,
      ReleaseSet, kernel, target
<1>8. UnmappedWhileAway'
  BY <1>1 DEF IInv, TypeOK, Shape, Away, UnmappedWhileAway, Unhit, Storing,
      ReleaseSet, kernel, target
<1> QED BY <1>2, <1>3, <1>4, <1>5, <1>6, <1>7, <1>8 DEF IInv

\* The halted program waits.
LEMMA ProgramPauseKeepsIInv ==
  ASSUME IInv, ProgramPause
  PROVE  IInv'
<1>1. /\ UnderWay' = UnderWay /\ ~Twice' /\ (UnderWay <=> sig)
      /\ stack = <<>> /\ stack' = <<>>
  BY NothingStacked DEF ProgramPause, kernel, helper, target, control, Running
<1>2. TypeOK'
  BY <1>1 DEF IInv, TypeOK, Places, ProgramPause, kernel, helper, target,
      control
<1>3. Shape'
  BY <1>1 DEF IInv, TypeOK, Shape, Asked, ProgramPause, kernel, helper,
      target, control
<1>4. Away'
  BY <1>1 DEF IInv, Away, Unhit, Storing, ProgramPause, kernel, helper,
      target, control
<1>5. Unstored'
  BY <1>1 DEF IInv, Unstored, Unhit, Storing, Asked, ProgramPause, kernel,
      helper, target, control
<1>6. Told'
  BY <1>1 DEF IInv, TypeOK, Shape, Away, Unstored, Told, Asked, Unhit,
      Storing, ProgramPause, kernel, helper, target, control
<1>7. Heard'
  BY <1>1 DEF IInv, TypeOK, Shape, Unstored, Heard, Asked, Unhit, Storing,
      ProgramPause, kernel, helper, target, control
<1>8. UnmappedWhileAway'
  BY <1>1 DEF IInv, TypeOK, Shape, Away, UnmappedWhileAway, Unhit, Storing,
      ProgramPause, kernel, helper, target, control
<1> QED BY <1>2, <1>3, <1>4, <1>5, <1>6, <1>7, <1>8 DEF IInv

-----------------------------------------------------------------------------
\* Nothing is open in the beginning.
LEMMA InitIInv ==
  ASSUME Init
  PROVE  IInv
<1>1. ~UnderWay /\ ~Twice
  BY DEF Init, UnderWay, Twice, Early, Doubled
<1>2. TypeOK
  <2>1. keys \in 0..MaxKeys /\ stack \in Seq(Frames)
    BY KeysAssumption DEF Init
  <2>2. /\ mapped \in [Vis -> BOOLEAN] /\ pend \in [Vis -> BOOLEAN]
        /\ autoswitch \in [Vis -> BOOLEAN] /\ dohalt \in [Vis -> BOOLEAN]
    BY DEF Init
  <2>3. (process <=> plugged # {}) /\ owner \in plugged \cup {NoVis}
    BY DEF Init
  <2> QED BY <2>1, <2>2, <2>3 DEF Init, TypeOK, Places
<1> QED BY <1>1, <1>2 DEF Init, IInv, Shape, Away, Unstored, Told,
      Heard, UnmappedWhileAway, Asked, Storing

\* The invariant is inductive.
LEMMA StepKeepsIInv ==
  ASSUME IInv, [Next]_vars
  PROVE  IInv'
<1>1. CASE PressAway \/ PressBack \/ Deliver
  BY <1>1, PressAwayKeepsIInv, PressBackKeepsIInv, DeliverKeepsIInv
<1>2. CASE Handler
  BY <1>2, AcquireKeepsIInv, AlreadyPendingKeepsIInv, ReleaseKeepsIInv,
     RequestKeepsIInv, HaltCheckKeepsIInv, HaltPauseKeepsIInv DEF Handler
<1>3. CASE Release
  BY <1>3, ReleaseIoctlKeepsIInv, ReleaseClearKeepsIInv,
     ReleaseSetKeepsIInv, ProgramPauseKeepsIInv DEF Release
<1>4. CASE Program
  BY <1>4, OpenKeepsIInv, CloseKeepsIInv, NoHaltOnUnmapKeepsIInv,
     AcknowledgeSwitchKeepsIInv, HaltOnUnmapKeepsIInv DEF Program
<1>5. CASE UNCHANGED vars
  BY <1>5 DEF vars, kernel, helper, target, control, IInv, TypeOK, Shape,
     Away, Unstored, Told, Heard, UnmappedWhileAway, UnderWay, Twice, Early,
     Doubled, Asked, Storing, Unhit
<1> QED BY <1>1, <1>2, <1>3, <1>4, <1>5 DEF Next

\* The invariant holds in every reachable state.
THEOREM Inductive == Spec => []IInv
<1>1. Init => IInv
  BY InitIInv
<1>2. IInv /\ [Next]_vars => IInv'
  BY StepKeepsIInv
<1> QED BY <1>1, <1>2, PTL DEF Spec

\* What is left when no signal is under way and release_vt is not running.
LEMMA QuietState ==
  ASSUME IInv, Quiet
  PROVE  ~UnderWay /\ ~Storing /\ main \notin {"reldisp", "clear"}
BY DEF Quiet, UnderWay, Early, Storing

\* The flags, the stack and the lists stay within their types, however often
\* the handler interrupts itself.
THEOREM TypeCorrect == Spec => []TypeOK
<1>1. IInv => TypeOK
  BY DEF IInv
<1> QED BY <1>1, Inductive, PTL

\* vt_switched_away agrees with the kernel whenever no signal is under way,
\* unless one of the three windows has been hit (switching_handler,
\* release_vt).
THEOREM FollowsConsoleAlways == Spec => []FollowsConsole
<1>1. ASSUME IInv PROVE FollowsConsole
  <2> SUFFICES ASSUME process, Quiet, Unhit({"stale", "merge", "store"})
               PROVE  away <=> console = "other"
    BY DEF FollowsConsole
  <2>1. ~UnderWay /\ ~Storing
    BY <1>1, QuietState
  <2>2. Unhit({"stale", "merge"})
    BY DEF Unhit
  <2>3. away => console = "other"
    BY <1>1, <2>1 DEF IInv, Told
  <2>4. console = "other" => away
    BY <1>1, <2>1, <2>2 DEF IInv, Away
  <2> QED BY <2>3, <2>4
<1> QED BY <1>1, Inductive, PTL

\* While another console is shown every visual knows that it is unmapped.
THEOREM UnmappedAlways == Spec => []UnmappedWhileAway
<1>1. IInv => UnmappedWhileAway
  BY DEF IInv
<1> QED BY <1>1, Inductive, PTL

\* A request of the kernel is under way, or a visual has been asked and its
\* acknowledgement will be heard.
THEOREM RequestHeardAlways == Spec => []RequestHeard
<1>1. ASSUME IInv PROVE RequestHeard
  <2> SUFFICES ASSUME process, newvt, Quiet, Unhit({"store", "lostack"})
               PROVE  switchpending /\ Asked
    BY DEF RequestHeard, Asked
  <2>1. ~UnderWay /\ main # "reldisp"
    BY <1>1, QuietState
  <2>2. Asked
    BY <1>1, <2>1 DEF IInv, Heard
  <2> QED BY <1>1, <2>2 DEF IInv, Shape
<1> QED BY <1>1, Inductive, PTL
=============================================================================
