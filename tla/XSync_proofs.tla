---------------------------- MODULE XSync_proofs ----------------------------
(***************************************************************************)
(* Proofs of the safety properties of XSync, for every number of frames    *)
(* and every set of flag words.  Apart from the types they need an         *)
(* application that keeps DirectBuffers and the pair of ASYNC and TIDY     *)
(* apart (Apart): without it the properties are false.                     *)
(***************************************************************************)
EXTENDS XSync, SequenceTheorems, WellFoundedInduction, TLAPS

-----------------------------------------------------------------------------
(***************************************************************************)
(* What a call still has to do to mansync.                                 *)
(***************************************************************************)

\* The steps that neither start nor stop mansync nor change what it should be.
QuietOps == {"ignore", "cont", "lock", "unlock", "release", "put", "catchup",
             "expose", "clean", "draw", "fill"}
Quiet == {<<s>> : s \in QuietOps}

\* Whether mansync should run when w is the write frame and h are held.
Wanted(w, h) == "ASYNC" \notin flags /\ ~("TIDY" \in flags /\ w \in h)

On == hook.running /\ ~hook.isasync
Off == ~hook.running /\ hook.isasync
Stopping == hook.running /\ hook.isasync
Settled(wanted) == IF wanted THEN On ELSE Off

\* The last step of a call, and whether mansync should run before it.
Ends(e, wanted) ==
  \/ e = <<>> /\ wanted = Wanted(wframe, held)
  \/ e = << <<"settidy">> >> /\ wanted = ("ASYNC" \notin flags)
  \/ \E f \in Frame :
       \/ /\ e = << <<"acquire", f>> >> /\ wanted = Wanted(wframe, held \cup {f})
          /\ flags # Flag
       \/ e = << <<"drop", f>> >> /\ wanted = Wanted(wframe, held \ {f})
       \/ e = << <<"switch", f>> >> /\ wanted = Wanted(f, held)
       \/ e = << <<"frame", f>> >> /\ wanted = Wanted(wframe, held)
  \/ \E fl \in FlagSets :
       /\ e = << <<"setflags", fl>> >> /\ wanted = Wanted(wframe, held)
       /\ Flag \subseteq fl => held = {}
  \/ e = << <<"deinit">> >> /\ wanted = FALSE

AtEnd(e) == \E wanted \in BOOLEAN : Ends(e, wanted) /\ Settled(wanted)

\* Before that, mansync is being started or stopped.
Turning(s) ==
  \/ \E e : Ends(e, TRUE) /\ Off /\ s = << <<"start">> >> \o e
  \/ \E e : Ends(e, FALSE) /\ On /\ s = << <<"stop">> >> \o e
  \/ \E e : Ends(e, FALSE) /\ Stopping /\ s = << <<"deltask">> >> \o e
  \/ s = << <<"setsync">>, <<"settidy">> >> /\ (On \/ Off)
  \/ \E f \in Frame :
       \/ s = << <<"switch", f>>, <<"start">> >> /\ Off /\ Wanted(f, held)
       \/ s = << <<"switch", f>>, <<"stop">> >> /\ On /\ ~Wanted(f, held)

\* ggiSetMode: no frame is held, so a change of the frame changes nothing.
ClearStep ==
  Quiet \cup {<<"window">>} \cup {<<s, f>> : s \in {"frame", "switch"}, f \in Frame}
Clearing ==
  held = {} /\ todo \in Seq(ClearStep) /\ Settled("ASYNC" \notin flags)

InCall ==
  \/ \E q \in Seq(Quiet), e \in Seq(Step) : todo = q \o e /\ AtEnd(e)
  \/ Turning(todo)

(* A visual that is open is setting a mode or in another call; one that is *)
(* closed has stopped mansync.                                             *)
Course ==
  \/ ~hook.alive /\ todo = <<>> /\ Off
  \/ hook.alive /\ (Clearing \/ InCall)

\* The task exists as long as mansync runs.
Linked == task # "off" <=> hook.running

\* No DirectBuffer is held while both modes are asked for.
HeldApart == flags = Flag => held = {}

(* The inductive invariant.  MansyncMatchesMode speaks of the states       *)
(* between calls; Course says in every state of a call what is left to do. *)
Orderly == TypeOK /\ HeldApart /\ Linked /\ Course

HasCont(s) == \E i \in 1..Len(s) : s[i] = <<"cont">>

\* Every ignore is followed by a cont.
Paired(s) ==
  \A i \in 1..Len(s) : s[i] = <<"ignore">> =>
    \E j \in 1..Len(s) : i < j /\ s[j] = <<"cont">>

\* Mansync is muted and not stopped.
Mute == hook.ignore /\ ~hook.isasync

\* A call that has muted mansync will let it continue.
Unmuting == Paired(todo) /\ (Mute => HasCont(todo))

-----------------------------------------------------------------------------
(***************************************************************************)
(* Sequences of steps.                                                     *)
(***************************************************************************)

\* The first element and the rest of a concatenation.
LEMMA ConsParts ==
  ASSUME NEW S, NEW x \in S, NEW e \in Seq(S)
  PROVE  /\ <<x>> \o e \in Seq(S) /\ <<x>> \o e # <<>>
         /\ Head(<<x>> \o e) = x /\ Tail(<<x>> \o e) = e
<1> DEFINE s == <<x>> \o e
<1>1. <<x>> \in Seq(S) /\ Len(<<x>>) = 1 /\ <<x>>[1] = x
  OBVIOUS
<1>2. /\ s \in Seq(S) /\ Len(s) = Len(e) + 1 /\ Len(e) \in Nat
      /\ s[1] = x /\ \A i \in 1..Len(e) : s[i + 1] = e[i]
  BY <1>1
<1>3. s # <<>> /\ Head(s) = x
  BY <1>2
<1>4. Tail(s) \in Seq(S) /\ Len(Tail(s)) = Len(e)
  BY <1>2, <1>3
<1>5. \A i \in 1..Len(e) : Tail(s)[i] = e[i]
  BY <1>2, <1>3, <1>4
<1>6. Tail(s) = e
  BY <1>4, <1>5, SeqEqual
<1> QED BY <1>2, <1>3, <1>6

\* A sequence of one element.
LEMMA Singleton ==
  ASSUME NEW S, NEW s \in Seq(S), Len(s) = 1
  PROVE  s = <<Head(s)>> /\ Tail(s) = <<>>
<1>1. s # <<>> /\ Head(s) = s[1] /\ s[1] \in S
  OBVIOUS
<1> DEFINE t == <<s[1]>>
<1>2. t \in Seq(S) /\ Len(t) = 1 /\ t[1] = s[1]
  BY <1>1
<1> HIDE DEF t
<1>3. s = t
  BY <1>2, SeqEqual
<1>4. Tail(s) \in Seq(S) /\ Len(Tail(s)) = 0
  BY <1>1
<1>5. Tail(s) = <<>>
  BY <1>4, EmptySeq
<1>6. s = <<Head(s)>>
  BY <1>1, <1>3 DEF t
<1> QED BY <1>5, <1>6

\* The same of a concatenation with a first part that is not empty.
LEMMA ConcatParts ==
  ASSUME NEW S, NEW q \in Seq(S), NEW r \in Seq(S), q # <<>>
  PROVE  /\ q \o r \in Seq(S) /\ q \o r # <<>>
         /\ Head(q \o r) = Head(q) /\ Tail(q) \in Seq(S)
         /\ Tail(q \o r) = Tail(q) \o r
<1> DEFINE s == q \o r
           t == Tail(q) \o r
<1>1. Len(q) \in Nat /\ Len(q) > 0 /\ Len(r) \in Nat
  OBVIOUS
<1>2. /\ s \in Seq(S) /\ Len(s) = Len(q) + Len(r)
      /\ \A i \in 1..Len(s) : s[i] = IF i <= Len(q) THEN q[i] ELSE r[i - Len(q)]
  BY <1>1
<1>3. s # <<>> /\ Head(s) = Head(q)
  BY <1>1, <1>2
<1>4. /\ Tail(q) \in Seq(S) /\ Len(Tail(q)) = Len(q) - 1
      /\ \A i \in 1..Len(q) - 1 : Tail(q)[i] = q[i + 1]
  BY <1>1
<1>5. /\ t \in Seq(S) /\ Len(t) = Len(q) - 1 + Len(r)
      /\ \A i \in 1..Len(t) :
           t[i] = IF i <= Len(q) - 1 THEN Tail(q)[i] ELSE r[i - (Len(q) - 1)]
  BY <1>1, <1>4
<1>6. /\ Tail(s) \in Seq(S) /\ Len(Tail(s)) = Len(s) - 1
      /\ \A i \in 1..Len(s) - 1 : Tail(s)[i] = s[i + 1]
  BY <1>2, <1>3
<1> HIDE DEF s, t
<1>7. \A i \in 1..Len(t) : Tail(s)[i] = t[i]
  BY <1>1, <1>2, <1>4, <1>5, <1>6
<1>8. Tail(s) = t
  BY <1>1, <1>2, <1>5, <1>6, <1>7, SeqEqual
<1> QED BY <1>2, <1>3, <1>4, <1>8 DEF s, t

Below == {p \in Nat \X Nat : p[1] < p[2]}

\* A set of numbers has a least one.
LEMMA LeastElement ==
  ASSUME NEW T, T \subseteq Nat, T # {}
  PROVE  \E x \in T : \A y \in T : x <= y
<1>1. IsWellFoundedOn(Below, Nat)
  BY NatLessThanWellFounded DEF OpToRel, Below
<1>2. PICK x \in T : \A y \in T : ~ (<<y, x>> \in Below)
  BY <1>1, WFMin
<1>3. \A y \in T : ~ (y < x)
  BY <1>2 DEF Below
<1> QED BY <1>3

\* RemoveFirst leaves out one element.
LEMMA RemovedElement ==
  ASSUME NEW S, NEW s \in Seq(S), NEW e, \E i \in 1..Len(s) : s[i] = e
  PROVE  \E k \in 1..Len(s) :
           /\ s[k] = e
           /\ RemoveFirst(s, e) = SubSeq(s, 1, k - 1) \o SubSeq(s, k + 1, Len(s))
<1> DEFINE I == {i \in 1..Len(s) : s[i] = e}
           k == Min(I)
<1>1. I \subseteq Nat /\ I # {}
  OBVIOUS
<1>2. k \in I
  BY <1>1, LeastElement DEF Min
<1>3. RemoveFirst(s, e) = RemoveAt(s, k)
  BY <1>1 DEF RemoveFirst, SelectInSeq
<1> QED BY <1>2, <1>3 DEF RemoveAt

\* The elements of a part of a sequence.
LEMMA PartElements ==
  ASSUME NEW S, NEW s \in Seq(S), NEW m \in Nat, NEW n \in Nat,
         1 <= m, m <= n + 1, n <= Len(s)
  PROVE  /\ SubSeq(s, m, n) \in Seq(S) /\ Len(SubSeq(s, m, n)) = n - m + 1
         /\ \A i \in 1..n - m + 1 : SubSeq(s, m, n)[i] = s[m + i - 1]
<1>1. m \in Int /\ n \in Int /\ \A i \in m..n : s[i] \in S
  OBVIOUS
<1>2. /\ SubSeq(s, m, n) \in Seq(S)
      /\ Len(SubSeq(s, m, n)) = IF m <= n THEN n - m + 1 ELSE 0
      /\ \A i \in 1..n - m + 1 : SubSeq(s, m, n)[i] = s[m + i - 1]
  BY <1>1, SubSeqProperties
<1>3. (IF m <= n THEN n - m + 1 ELSE 0) = n - m + 1
  OBVIOUS
<1> QED BY <1>2, <1>3

\* Leaving out an element brings in no new one.
LEMMA RemovedKeeps ==
  ASSUME NEW S, NEW s \in Seq(S), NEW e
  PROVE  RemoveFirst(s, e) \in Seq(S)
<1>1. CASE ~ \E i \in 1..Len(s) : s[i] = e
  BY <1>1 DEF RemoveFirst
<1>2. CASE \E i \in 1..Len(s) : s[i] = e
  <2>1. PICK k \in 1..Len(s) :
          RemoveFirst(s, e) = SubSeq(s, 1, k - 1) \o SubSeq(s, k + 1, Len(s))
    BY <1>2, RemovedElement
  <2>2. SubSeq(s, 1, k - 1) \in Seq(S) /\ SubSeq(s, k + 1, Len(s)) \in Seq(S)
    <3>1. /\ k - 1 \in Nat /\ k + 1 \in Nat /\ Len(s) \in Nat /\ 1 \in Nat
          /\ 1 <= 1 /\ 1 <= k - 1 + 1 /\ k - 1 <= Len(s)
          /\ 1 <= k + 1 /\ k + 1 <= Len(s) + 1 /\ Len(s) <= Len(s)
      OBVIOUS
    <3> QED BY <3>1, PartElements
  <2> QED BY <2>1, <2>2
<1> QED BY <1>1, <1>2

-----------------------------------------------------------------------------
(***************************************************************************)
(* The end of a call.                                                      *)
(***************************************************************************)

\* What a step of a given name is.
LEMMA StepForm ==
  ASSUME NEW x \in Step
  PROVE  /\ x[1] \in {"acquire", "drop", "frame", "switch"} =>
              x[2] \in Frame /\ x = <<x[1], x[2]>>
         /\ x[1] = "setflags" => x[2] \in FlagSets /\ x = <<"setflags", x[2]>>
         /\ x[1] \notin {"acquire", "drop", "frame", "switch", "setflags"} =>
              x = <<x[1]>>
BY DEF Step

\* The three sets of steps.
LEMMA StepSets ==
  /\ Quiet \subseteq Step /\ ClearStep \subseteq Step /\ Quiet \subseteq ClearStep
  /\ \A x \in Step : x \in Quiet <=> x[1] \in QuietOps
BY StepForm DEF Quiet, QuietOps, ClearStep, Step

\* What the last step of a call may be: not a quiet one.
LastOps == {"settidy", "acquire", "drop", "switch", "frame", "setflags", "deinit"}

LEMMA EndsActive ==
  ASSUME NEW e, NEW b, Ends(e, b)
  PROVE  /\ e \in Seq(Step)
         /\ e = <<>> \/ (Len(e) = 1 /\ e[1] \notin Quiet /\ e[1][1] \in LastOps)
<1>1. CASE e = <<>>
  BY <1>1
<1>2. ASSUME NEW s \in Step, e = <<s>>, s[1] \in LastOps
      PROVE  e \in Seq(Step) /\ Len(e) = 1 /\ e[1] \notin Quiet /\ e[1][1] \in LastOps
  <2>1. s[1] \notin QuietOps
    BY <1>2 DEF LastOps, QuietOps
  <2>2. e \in Seq(Step) /\ Len(e) = 1 /\ e[1] = s
    BY <1>2
  <2> QED BY <1>2, <2>1, <2>2, StepSets
<1>3. CASE e = << <<"settidy">> >>
  <2>1. <<"settidy">> \in Step /\ <<"settidy">>[1] \in LastOps
    BY DEF Step, LastOps
  <2> QED BY <1>2, <1>3, <2>1
<1>4. CASE \E f \in Frame, s \in {"acquire", "drop", "switch", "frame"} : e = << <<s, f>> >>
  <2>1. PICK f \in Frame, s \in {"acquire", "drop", "switch", "frame"} : e = << <<s, f>> >>
    BY <1>4
  <2>2. <<s, f>> \in Step /\ <<s, f>>[1] \in LastOps
    BY DEF Step, LastOps
  <2> QED BY <1>2, <2>1, <2>2
<1>5. CASE \E fl \in FlagSets : e = << <<"setflags", fl>> >>
  <2>1. PICK fl \in FlagSets : e = << <<"setflags", fl>> >>
    BY <1>5
  <2>2. <<"setflags", fl>> \in Step /\ <<"setflags", fl>>[1] \in LastOps
    BY DEF Step, LastOps
  <2> QED BY <1>2, <2>1, <2>2
<1>6. CASE e = << <<"deinit">> >>
  <2>1. <<"deinit">> \in Step /\ <<"deinit">>[1] \in LastOps
    BY DEF Step, LastOps
  <2> QED BY <1>2, <1>6, <2>1
<1> QED BY <1>1, <1>3, <1>4, <1>5, <1>6 DEF Ends

\* What starts or stops mansync begins with a step that is not quiet.
LEMMA TurningFirst ==
  ASSUME NEW s, Turning(s)
  PROVE  s # <<>> /\ Head(s) \in Step /\ Head(s) \notin Quiet
<1>1. \A o \in {"start", "stop", "deltask", "setsync"} :
        <<o>> \in Step /\ <<o>> \notin Quiet
  BY StepSets DEF Step, QuietOps
<1>2. \A f \in Frame : <<"switch", f>> \in Step /\ <<"switch", f>> \notin Quiet
  BY StepSets DEF Step, QuietOps
<1>3. ASSUME NEW e, NEW b, Ends(e, b), NEW o \in {"start", "stop", "deltask"},
             s = << <<o>> >> \o e
      PROVE  s # <<>> /\ Head(s) = <<o>>
  <2>1. e \in Seq(Step) /\ <<o>> \in Step
    BY <1>1, <1>3, EndsActive
  <2> QED BY <1>3, <2>1, ConsParts
<1>4. ASSUME NEW x, NEW y, s = <<x, y>>
      PROVE  s # <<>> /\ Head(s) = x
  BY <1>4
<1> QED BY <1>1, <1>2, <1>3, <1>4 DEF Turning

\* What is due depends on the flags, mansync's state, the write frame and the
\* held ones.
LEMMA SameDue ==
  ASSUME flags' = flags, wframe' = wframe, held' = held,
         hook'.running = hook.running, hook'.isasync = hook.isasync
  PROVE  /\ \A e : AtEnd(e) => AtEnd(e)'
         /\ \A s : Turning(s) => Turning(s)'
<1>1. \A w, h : Wanted(w, h) <=> Wanted(w, h)'
  BY DEF Wanted
<1>2. /\ Wanted(wframe, held)' = Wanted(wframe, held)
      /\ \A f : /\ Wanted(wframe, held \cup {f})' = Wanted(wframe, held \cup {f})
               /\ Wanted(wframe, held \ {f})' = Wanted(wframe, held \ {f})
               /\ Wanted(f, held)' = Wanted(f, held)
  BY DEF Wanted
<1>3. ASSUME NEW e, NEW b, Ends(e, b) PROVE Ends(e, b)'
  BY <1>2, <1>3 DEF Ends
<1>4. (On' <=> On) /\ (Off' <=> Off) /\ (Stopping' <=> Stopping)
  BY DEF On, Off, Stopping
<1>5. \A b : Settled(b) => Settled(b)'
  BY <1>4 DEF Settled
<1>6. ASSUME NEW e, AtEnd(e) PROVE AtEnd(e)'
  BY <1>3, <1>5, <1>6 DEF AtEnd
<1>7. ASSUME NEW s, Turning(s) PROVE Turning(s)'
  BY <1>2, <1>3, <1>4, <1>7 DEF Turning
<1> QED BY <1>6, <1>7

\* A quiet step comes before the last one of its call.
LEMMA QuietFirst ==
  ASSUME TypeOK, InCall, todo # <<>>, Head(todo) \in Quiet
  PROVE  \E q \in Seq(Quiet), e \in Seq(Step) : Tail(todo) = q \o e /\ AtEnd(e)
<1>1. ~Turning(todo)
  BY TurningFirst
<1>2. PICK q \in Seq(Quiet), e \in Seq(Step) : todo = q \o e /\ AtEnd(e)
  BY <1>1 DEF InCall
<1>3. q # <<>>
  <2> SUFFICES ASSUME q = <<>> PROVE FALSE
    OBVIOUS
  <2>1. todo = e
    BY <1>2
  <2>2. Len(e) > 0 /\ Head(e) = e[1] /\ Len(e) \in Nat
    BY <2>1
  <2> QED BY <1>2, <2>1, <2>2, EndsActive DEF AtEnd
<1>4. q \in Seq(Step)
  BY StepSets
<1>5. Tail(q) \in Seq(Quiet) /\ Tail(todo) = Tail(q) \o e
  BY <1>2, <1>3, <1>4, ConcatParts
<1> QED BY <1>2, <1>5

\* Another step is the last one, or turns mansync on or off.
LEMMA DueFirst ==
  ASSUME TypeOK, InCall, todo # <<>>, Head(todo) \notin Quiet
  PROVE  AtEnd(todo) \/ Turning(todo)
<1>1. CASE Turning(todo)
  BY <1>1
<1>2. CASE ~Turning(todo)
  <2>1. PICK q \in Seq(Quiet), e \in Seq(Step) : todo = q \o e /\ AtEnd(e)
    BY <1>2 DEF InCall
  <2>2. q = <<>>
    <3> SUFFICES ASSUME q # <<>> PROVE FALSE
      OBVIOUS
    <3>1. q \in Seq(Step)
      BY StepSets
    <3>2. Head(todo) = Head(q)
      BY <2>1, <3>1, ConcatParts
    <3> QED BY <3>2
  <2> QED BY <2>1, <2>2
<1> QED BY <1>1, <1>2

\* The steps that need a given end of the call.
LEMMA Forms ==
  ASSUME TypeOK, InCall, todo # <<>>, Head(todo)[1] \notin QuietOps
  PROVE  /\ Head(todo)[1] = "start" =>
              Off /\ Tail(todo) \in Seq(Step) /\ Ends(Tail(todo), TRUE)
         /\ Head(todo)[1] = "stop" =>
              On /\ Tail(todo) \in Seq(Step) /\ Ends(Tail(todo), FALSE)
         /\ Head(todo)[1] = "deltask" =>
              Stopping /\ Tail(todo) \in Seq(Step) /\ Ends(Tail(todo), FALSE)
         /\ Head(todo)[1] = "setsync" =>
              (On \/ Off) /\ Tail(todo) = << <<"settidy">> >>
         /\ Head(todo)[1] \in {"settidy", "acquire", "drop", "frame", "setflags", "deinit"} =>
              AtEnd(todo) /\ todo = << Head(todo) >> /\ Tail(todo) = <<>>
         /\ Head(todo)[1] = "switch" =>
              \/ AtEnd(todo) /\ todo = << Head(todo) >> /\ Tail(todo) = <<>>
              \/ /\ Head(todo)[2] \in Frame /\ Off /\ Wanted(Head(todo)[2], held)
                 /\ Tail(todo) = << <<"start">> >>
              \/ /\ Head(todo)[2] \in Frame /\ On /\ ~Wanted(Head(todo)[2], held)
                 /\ Tail(todo) = << <<"stop">> >>
         /\ Head(todo)[1] \in {"start", "stop", "deltask", "setsync", "settidy", "acquire",
                               "drop", "frame", "setflags", "deinit", "switch"}
<1>1. AtEnd(todo) \/ Turning(todo)
  BY DueFirst, StepSets DEF TypeOK
<1>2. CASE AtEnd(todo)
  <2>1. Len(todo) = 1 /\ todo \in Seq(Step) /\ todo[1][1] \in LastOps
    BY <1>2, EndsActive DEF AtEnd
  <2>2. todo = << Head(todo) >> /\ Tail(todo) = <<>>
    BY <2>1, Singleton
  <2>3. Head(todo)[1] \in LastOps
    BY <2>1
  <2> QED BY <1>2, <2>2, <2>3 DEF LastOps
<1>3. ASSUME NEW e \in Seq(Step), NEW o \in {"start", "stop", "deltask"},
             todo = << <<o>> >> \o e
      PROVE  Head(todo) = <<o>> /\ Tail(todo) = e
  <2>1. <<o>> \in Step
    BY DEF Step
  <2> QED BY <1>3, <2>1, ConsParts
<1>4. ASSUME NEW e, Ends(e, TRUE), todo = << <<"start">> >> \o e
      PROVE  Head(todo)[1] = "start" /\ Tail(todo) = e /\ e \in Seq(Step)
  <2>1. e \in Seq(Step)
    BY <1>4, EndsActive
  <2>2. Head(todo) = <<"start">> /\ Tail(todo) = e
    BY <1>3, <1>4, <2>1
  <2> QED BY <2>1, <2>2
<1>5. ASSUME NEW e, Ends(e, FALSE), todo = << <<"stop">> >> \o e
      PROVE  Head(todo)[1] = "stop" /\ Tail(todo) = e /\ e \in Seq(Step)
  <2>1. e \in Seq(Step)
    BY <1>5, EndsActive
  <2>2. Head(todo) = <<"stop">> /\ Tail(todo) = e
    BY <1>3, <1>5, <2>1
  <2> QED BY <2>1, <2>2
<1>6. ASSUME NEW e, Ends(e, FALSE), todo = << <<"deltask">> >> \o e
      PROVE  Head(todo)[1] = "deltask" /\ Tail(todo) = e /\ e \in Seq(Step)
  <2>1. e \in Seq(Step)
    BY <1>6, EndsActive
  <2>2. Head(todo) = <<"deltask">> /\ Tail(todo) = e
    BY <1>3, <1>6, <2>1
  <2> QED BY <2>1, <2>2
<1>7. ASSUME NEW x, NEW y, todo = <<x, y>>
      PROVE  Head(todo) = x /\ Tail(todo) = <<y>>
  BY <1>7
<1>8. CASE \E e : Ends(e, TRUE) /\ Off /\ todo = << <<"start">> >> \o e
  BY <1>4, <1>8
<1>9. CASE \E e : Ends(e, FALSE) /\ On /\ todo = << <<"stop">> >> \o e
  BY <1>5, <1>9
<1>10. CASE \E e : Ends(e, FALSE) /\ Stopping /\ todo = << <<"deltask">> >> \o e
  BY <1>6, <1>10
<1>11. CASE todo = << <<"setsync">>, <<"settidy">> >> /\ (On \/ Off)
  <2>1. Head(todo) = <<"setsync">> /\ Tail(todo) = << <<"settidy">> >>
    BY <1>7, <1>11
  <2>2. Head(todo)[1] = "setsync"
    BY <2>1
  <2> QED BY <1>11, <2>1, <2>2
<1>12. CASE \E f \in Frame :
              todo = << <<"switch", f>>, <<"start">> >> /\ Off /\ Wanted(f, held)
  <2>1. PICK f \in Frame :
          todo = << <<"switch", f>>, <<"start">> >> /\ Off /\ Wanted(f, held)
    BY <1>12
  <2>2. Head(todo) = <<"switch", f>> /\ Tail(todo) = << <<"start">> >>
    BY <1>7, <2>1
  <2>3. Head(todo)[1] = "switch" /\ Head(todo)[2] = f
    BY <2>2
  <2> QED BY <2>1, <2>2, <2>3
<1>13. CASE \E f \in Frame :
              todo = << <<"switch", f>>, <<"stop">> >> /\ On /\ ~Wanted(f, held)
  <2>1. PICK f \in Frame :
          todo = << <<"switch", f>>, <<"stop">> >> /\ On /\ ~Wanted(f, held)
    BY <1>13
  <2>2. Head(todo) = <<"switch", f>> /\ Tail(todo) = << <<"stop">> >>
    BY <1>7, <2>1
  <2>3. Head(todo)[1] = "switch" /\ Head(todo)[2] = f
    BY <2>2
  <2> QED BY <2>1, <2>2, <2>3
<1> QED BY <1>1, <1>2, <1>8, <1>9, <1>10, <1>11, <1>12, <1>13 DEF Turning

-----------------------------------------------------------------------------
(***************************************************************************)
(* Type correctness.                                                       *)
(***************************************************************************)

\* The steps by name.
LEMMA Named ==
  /\ \A s \in {"ignore", "cont", "lock", "unlock", "release", "put", "catchup",
               "expose", "start", "stop", "deltask", "setsync", "settidy",
               "clean", "draw", "fill", "window", "deinit"} : <<s>> \in Step
  /\ \A s \in {"acquire", "drop", "frame", "switch"}, f \in Frame : <<s, f>> \in Step
  /\ \A fl \in FlagSets : <<"setflags", fl>> \in Step
BY DEF Step

\* There is a first frame.
LEMMA FirstFrame == 0 \in Frame
BY XSyncAssumption DEF Frame

\* The parts a call is made of.
LEMMA Parts ==
  /\ Flush \in Seq(Quiet) /\ CatchUp \in Seq(Quiet)
  /\ \A s \in QuietOps : << <<s>> >> \in Seq(Quiet)
<1>1. \A s \in QuietOps : <<s>> \in Quiet
  BY DEF Quiet
<1>2. \A s \in {"ignore", "lock", "put", "unlock", "cont", "catchup"} : <<s>> \in Quiet
  BY <1>1 DEF QuietOps
<1> QED BY <1>1, <1>2 DEF Flush, CatchUp

\* Steps of a smaller set are steps.
LEMMA Widens ==
  ASSUME NEW S, NEW T, S \subseteq T
  PROVE  Seq(S) \subseteq Seq(T)
OBVIOUS

\* A call that sets a mode only does what ClearStep lists.
SetModeSteps ==
  << <<"ignore">>, <<"lock">>, <<"window">>, <<"unlock">>, <<"clean">>, <<"cont">> >>
    \o ClearFrames \o << <<"frame", 0>> >> \o Flush

\* The steps that clear the frames.
LEMMA ClearedBy ==
  ASSUME NEW i \in 1..4 * Frames
  PROVE  \/ \E f \in Frame : ClearFrames[i] = <<"frame", f>>
         \/ \E s \in {"lock", "fill", "unlock"} : ClearFrames[i] = <<s>>
<1>1. i \in Nat /\ i % 4 \in 0..3 /\ Frames \in Nat
  BY XSyncAssumption
<1>2. CASE i % 4 = 1
  <2>1. i \div 4 \in Frame
    BY <1>1, <1>2 DEF Frame
  <2>2. ClearFrames[i] = <<"frame", i \div 4>>
    BY <1>2 DEF ClearFrames
  <2> QED BY <2>1, <2>2
<1>3. CASE i % 4 = 2
  <2>1. ClearFrames[i] = <<"lock">>
    BY <1>3 DEF ClearFrames
  <2> QED BY <2>1
<1>4. CASE i % 4 = 3
  <2>1. ClearFrames[i] = <<"fill">>
    BY <1>4 DEF ClearFrames
  <2> QED BY <2>1
<1>5. CASE i % 4 = 0
  <2>1. ClearFrames[i] = <<"unlock">>
    BY <1>5 DEF ClearFrames
  <2> QED BY <2>1
<1> QED BY <1>1, <1>2, <1>3, <1>4, <1>5

\* A function with such values is a sequence of them.
LEMMA ClearFramesIs ==
  ASSUME NEW S, \A i \in 1..4 * Frames : ClearFrames[i] \in S
  PROVE  ClearFrames \in Seq(S) /\ Len(ClearFrames) = 4 * Frames
<1>1. 4 * Frames \in Nat
  BY XSyncAssumption
<1>2. ClearFrames = [i \in 1..4 * Frames |-> ClearFrames[i]]
  BY DEF ClearFrames
<1> HIDE DEF ClearFrames
<1>3. ClearFrames \in [1..4 * Frames -> S]
  BY <1>2
<1> QED BY <1>1, <1>3

LEMMA SetModeClears == SetModeSteps \in Seq(ClearStep)
<1>1. \A s \in QuietOps \cup {"window"} : <<s>> \in ClearStep
  BY DEF ClearStep, Quiet
<1>2. \A f \in Frame : <<"frame", f>> \in ClearStep
  BY DEF ClearStep
<1>3. << <<"ignore">>, <<"lock">>, <<"window">>, <<"unlock">>, <<"clean">>, <<"cont">> >>
        \in Seq(ClearStep)
  <2>1. \A s \in {"ignore", "lock", "window", "unlock", "clean", "cont"} :
          <<s>> \in ClearStep
    BY <1>1 DEF QuietOps
  <2> QED BY <2>1
<1>4. ClearFrames \in Seq(ClearStep)
  <2>1. \A s \in {"lock", "fill", "unlock"} : <<s>> \in ClearStep
    BY <1>1 DEF QuietOps
  <2>2. ASSUME NEW i \in 1..4 * Frames
        PROVE  ClearFrames[i] \in ClearStep
    BY <1>2, <2>1, ClearedBy
  <2> QED BY <2>2, ClearFramesIs
<1>5. << <<"frame", 0>> >> \in Seq(ClearStep)
  BY <1>2, FirstFrame
<1>6. Flush \in Seq(ClearStep)
  BY Parts, StepSets, Widens
<1> HIDE DEF ClearFrames, Flush
<1> QED BY <1>3, <1>4, <1>5, <1>6 DEF SetModeSteps

\* What At and Then say of the call.
LEMMA AtFacts ==
  ASSUME TypeOK, NEW op, At(op)
  PROVE  /\ todo # <<>> /\ Head(todo) \in Step /\ Head(todo)[1] = op
         /\ Tail(todo) \in Seq(Step)
BY DEF At, TypeOK

LEMMA SkipIs ==
  ASSUME TypeOK, NEW op, At(op), Skip
  PROVE  todo' = Tail(todo)
BY AtFacts DEF Skip, Then

\* The visual as it has been opened.
LEMMA TypeInit == Init => TypeOK
<1> SUFFICES ASSUME Init PROVE TypeOK
  OBVIOUS
<1>1. hook \in [isasync : BOOLEAN, ignore : BOOLEAN, running : BOOLEAN, alive : BOOLEAN]
  BY DEF Init
<1>2. /\ posted \in BOOLEAN /\ xlib \in BOOLEAN /\ dirty \in BOOLEAN
      /\ unseen \subseteq Frame /\ dropped \subseteq Frame
  BY DEF Init
<1>3. todo \in Seq(Step)
  BY EmptySeq DEF Init
<1>4. flags \subseteq Flag /\ held \subseteq Frame /\ wframe \in Frame
  BY FirstFrame DEF Init
<1>5. signals \in BOOLEAN /\ task \in {"off", "idle", "posting"}
  BY DEF Init
<1> QED BY <1>1, <1>2, <1>3, <1>4, <1>5 DEF TypeOK

LEMMA TypeStay ==
  ASSUME TypeOK, UNCHANGED vars
  PROVE  TypeOK'
BY DEF TypeOK, vars, view

\* The steps of a call keep the types.
LEMMA TypeContinue ==
  ASSUME TypeOK, Continue
  PROVE  TypeOK'
<1> USE DEF view
<1>1. ASSUME NEW op, At(op), Skip
      PROVE  todo' \in Seq(Step)
  BY <1>1, AtFacts, SkipIs
<1>2. ASSUME NEW op, At(op), NEW s \in Seq(Step), Then(s)
      PROVE  todo' \in Seq(Step)
  BY <1>2, AtFacts DEF Then
<1>3. ASSUME NEW op, At(op)
      PROVE  AfterWholePut \in Seq(Step)
  BY <1>3, AtFacts, RemovedKeeps DEF AfterWholePut
<1>4. Flush \in Seq(Step) /\ CatchUp \in Seq(Step)
  BY Parts, StepSets, Widens
<1>5. CASE Ignore
  BY <1>1, <1>5 DEF Ignore, TypeOK
<1>6. CASE Cont
  BY <1>1, <1>6 DEF Cont, TypeOK
<1>7. CASE Lock
  BY <1>1, <1>7 DEF Lock, TypeOK
<1>8. CASE Unlock
  <2>1. << <<"release">> >> \in Seq(Step) /\ <<>> \in Seq(Step)
    BY Named
  <2>2. (IF posted THEN CatchUp ELSE <<>>) \o << <<"release">> >> \in Seq(Step)
    BY <1>4, <2>1
  <2>3. todo' \in Seq(Step)
    BY <1>2, <1>8, <2>2 DEF Unlock
  <2> QED BY <1>8, <2>3 DEF Unlock, TypeOK
<1>9. CASE LockRelease
  BY <1>1, <1>9 DEF LockRelease, TypeOK
<1>10. CASE Put
  <2>1. /\ todo' \in Seq(Step) /\ dirty' \in BOOLEAN
        /\ unseen' \subseteq Frame /\ dropped' \subseteq Frame
    BY <1>1, <1>3, <1>10 DEF Put, PutDirty, Show, TypeOK
  <2> QED BY <1>10, <2>1 DEF Put, TypeOK
<1>11. CASE CatchUpPut
  <2>1. /\ todo' \in Seq(Step) /\ dirty' \in BOOLEAN
        /\ unseen' \subseteq Frame /\ dropped' \subseteq Frame
    BY <1>1, <1>3, <1>11 DEF CatchUpPut, PutDirty, Show, TypeOK
  <2> QED BY <1>11, <2>1 DEF CatchUpPut, TypeOK
<1>12. CASE ExposePut
  <2>1. todo' \in Seq(Step) /\ unseen' \subseteq Frame /\ dropped' \subseteq Frame
    BY <1>3, <1>12 DEF ExposePut, Show, TypeOK
  <2> QED BY <1>12, <2>1 DEF ExposePut, TypeOK
<1>13. CASE Start
  BY <1>1, <1>13 DEF Start, TypeOK
<1>14. CASE Stop
  <2>1. (IF hook.isasync THEN <<>> ELSE << <<"deltask">> >>) \in Seq(Step)
    BY Named
  <2>2. todo' \in Seq(Step)
    BY <1>2, <1>14, <2>1 DEF Stop
  <2> QED BY <1>14, <2>2 DEF Stop, TypeOK
<1>15. CASE DelTask
  BY <1>1, <1>15 DEF DelTask, TypeOK
<1>16. CASE SetSync
  <2>1. (CASE hook.isasync /\ "ASYNC" \notin flags -> << <<"start">> >>
           [] ~hook.isasync /\ "ASYNC" \in flags -> << <<"stop">> >>
           [] OTHER -> <<>>) \in Seq(Step)
    BY Named DEF TypeOK
  <2>2. todo' \in Seq(Step)
    BY <1>2, <1>16, <2>1 DEF SetSync
  <2> QED BY <1>16, <2>2 DEF SetSync, TypeOK
<1>17. CASE SetTidy
  <2>1. (IF "TIDY" \in flags /\ wframe \in held THEN << <<"stop">> >> ELSE <<>>) \in Seq(Step)
    BY Named
  <2>2. todo' \in Seq(Step)
    BY <1>2, <1>17, <2>1 DEF SetTidy
  <2> QED BY <1>17, <2>2 DEF SetTidy, TypeOK
<1>18. CASE AssignFlags
  <2>1. << <<"setsync">>, <<"settidy">> >> \in Seq(Step)
    BY Named
  <2>2. todo' \in Seq(Step)
    BY <1>2, <1>18, <2>1 DEF AssignFlags
  <2> QED BY <1>18, <2>2 DEF AssignFlags, TypeOK
<1>19. CASE MarkHeld
  <2>1. Head(todo)[2] \in Frame
    BY <1>19, AtFacts, StepForm DEF MarkHeld
  <2> QED BY <1>1, <1>19, <2>1 DEF MarkHeld, TypeOK
<1>20. CASE MarkReleased
  BY <1>1, <1>20 DEF MarkReleased, TypeOK
<1>21. CASE WriteFrame
  <2> DEFINE f == Head(todo)[2]
             moves == (wframe \in held) # (f \in held)
             steps == CASE "TIDY" \notin flags -> Flush \o << <<"switch", f>> >>
                        [] "TIDY" \in flags /\ ~moves -> << <<"switch", f>> >>
                        [] OTHER -> << <<"switch", f>>,
                                       IF f \in held THEN <<"stop">> ELSE <<"start">> >>
  <2>1. <<"switch", f>> \in Step
    <3>1. f \in Frame
      BY <1>21, AtFacts, StepForm DEF WriteFrame
    <3> QED BY <3>1, Named
  <2>2. (IF f \in held THEN <<"stop">> ELSE <<"start">>) \in Step
    BY Named
  <2>3. At("frame") /\ Then(steps)
    BY <1>21 DEF WriteFrame
  <2>4. steps \in Seq(Step)
    <3> HIDE DEF f
    <3>1. /\ Flush \o << <<"switch", f>> >> \in Seq(Step) /\ << <<"switch", f>> >> \in Seq(Step)
          /\ << <<"switch", f>>, IF f \in held THEN <<"stop">> ELSE <<"start">> >> \in Seq(Step)
      BY <1>4, <2>1, <2>2
    <3> QED BY <3>1
  <2> HIDE DEF steps
  <2>5. todo' \in Seq(Step)
    BY <1>2, <2>3, <2>4
  <2> QED BY <1>21, <2>5 DEF WriteFrame, TypeOK
<1>22. CASE SwitchFrame
  <2>1. Head(todo)[2] \in Frame
    BY <1>22, AtFacts, StepForm DEF SwitchFrame
  <2> QED BY <1>1, <1>22, <2>1 DEF SwitchFrame, TypeOK
<1>23. CASE NewWindow
  BY <1>1, <1>23, FirstFrame DEF NewWindow, TypeOK
<1>24. CASE CleanRegion
  BY <1>1, <1>24 DEF CleanRegion, TypeOK
<1>25. CASE Draw
  BY <1>1, <1>25 DEF Draw, TypeOK
<1>26. CASE Deinit
  BY <1>1, <1>26 DEF Deinit, TypeOK
<1>27. CASE FillScreen
  BY <1>1, <1>27 DEF FillScreen, TypeOK
<1> QED BY <1>5, <1>6, <1>7, <1>8, <1>9, <1>10, <1>11, <1>12, <1>13, <1>14, <1>15, <1>16,
           <1>17, <1>18, <1>19, <1>20, <1>21, <1>22, <1>23, <1>24, <1>25, <1>26, <1>27
        DEF Continue

\* A call begins with steps.
LEMMA TypeBegin ==
  ASSUME TypeOK, NEW s \in Seq(Step), Begin(s)
  PROVE  TypeOK'
BY DEF Begin, TypeOK, view

\* The calls keep the types.
LEMMA TypeCall ==
  ASSUME TypeOK, Call
  PROVE  TypeOK'
<1>1. Flush \in Seq(Step)
  BY Parts, StepSets, Widens
<1>2. CASE CallDraw
  <2>1. << <<"draw">> >> \in Seq(Step)
    BY Named
  <2> QED BY <1>2, <2>1, TypeBegin DEF CallDraw
<1>3. CASE CallFlush
  BY <1>1, <1>3, TypeBegin DEF CallFlush
<1>4. CASE CallPoll
  <2>1. << <<"lock">>, <<"unlock">> >> \in Seq(Step)
    BY Named
  <2> QED BY <1>4, <2>1, TypeBegin DEF CallPoll
<1>5. CASE CallPollExposed
  <2>1. << <<"lock">>, <<"ignore">>, <<"expose">>, <<"cont">>, <<"unlock">> >> \in Seq(Step)
    BY Named
  <2> QED BY <1>5, <2>1, TypeBegin DEF CallPollExposed
<1>6. CASE CallSetFlags
  <2>1. PICK new \in FlagSets :
          Begin((IF "ASYNC" \in flags \ new THEN Flush ELSE <<>>) \o << <<"setflags", new>> >>)
    BY <1>6 DEF CallSetFlags
  <2>2. << <<"setflags", new>> >> \in Seq(Step)
    BY Named
  <2>3. (IF "ASYNC" \in flags \ new THEN Flush ELSE <<>>) \o << <<"setflags", new>> >>
          \in Seq(Step)
    BY <1>1, <2>2
  <2> QED BY <2>1, <2>3, TypeBegin
<1>7. CASE CallAcquire
  <2>1. PICK f \in Frame \ held :
          Begin((IF "TIDY" \in flags /\ f = wframe THEN << <<"stop">> >> ELSE <<>>)
                \o << <<"acquire", f>> >>)
    BY <1>7 DEF CallAcquire
  <2>2. << <<"acquire", f>> >> \in Seq(Step) /\ << <<"stop">> >> \in Seq(Step)
    BY Named
  <2>3. (IF "TIDY" \in flags /\ f = wframe THEN << <<"stop">> >> ELSE <<>>)
          \o << <<"acquire", f>> >> \in Seq(Step)
    BY <2>2
  <2> QED BY <2>1, <2>3, TypeBegin
<1>8. CASE CallRelease
  <2> DEFINE first(f) == CASE f # wframe -> <<>>
                           [] f = wframe /\ "TIDY" \in flags -> << <<"start">> >>
                           [] OTHER -> Flush
  <2>1. PICK f \in held : Begin(first(f) \o << <<"drop", f>> >>)
    BY <1>8 DEF CallRelease
  <2>2. << <<"drop", f>> >> \in Seq(Step) /\ << <<"start">> >> \in Seq(Step)
    BY Named DEF TypeOK
  <2>3. first(f) \in Seq(Step)
    BY <1>1, <2>2
  <2> HIDE DEF first
  <2>4. first(f) \o << <<"drop", f>> >> \in Seq(Step)
    BY <2>2, <2>3
  <2> QED BY <2>1, <2>4, TypeBegin
<1>9. CASE DirectWrite
  BY <1>9 DEF DirectWrite, TypeOK
<1>10. CASE CallSetWriteFrame
  <2>1. PICK f \in Frame : Begin(<< <<"frame", f>> >>)
    BY <1>10 DEF CallSetWriteFrame
  <2>2. << <<"frame", f>> >> \in Seq(Step)
    BY Named
  <2> QED BY <2>1, <2>2, TypeBegin
<1>11. CASE CallSetMode
  <2>1. Begin(SetModeSteps)
    BY <1>11 DEF CallSetMode, SetModeSteps
  <2>2. SetModeSteps \in Seq(Step)
    BY SetModeClears, StepSets, Widens
  <2> QED BY <2>1, <2>2, TypeBegin
<1>12. CASE CallExit
  <2>1. << <<"stop">> >> \in Seq(Step) /\ << <<"deinit">> >> \in Seq(Step)
    BY Named
  <2>2. (IF "ASYNC" \in flags THEN <<>> ELSE << <<"stop">> >>) \o << <<"deinit">> >>
          \in Seq(Step)
    BY <2>1
  <2> QED BY <1>12, <2>2, TypeBegin DEF CallExit
<1> QED BY <1>2, <1>3, <1>4, <1>5, <1>6, <1>7, <1>8, <1>9, <1>10, <1>11, <1>12 DEF Call

LEMMA TypeNext ==
  ASSUME TypeOK, [Next]_vars
  PROVE  TypeOK'
<1>1. CASE TaskCheck \/ TaskPost
  BY <1>1 DEF TaskCheck, TaskPost, TypeOK, view
<1> QED BY <1>1, TypeContinue, TypeCall, TypeStay DEF Next, Closed

(***************************************************************************)
(* The state is well formed: the steps of every call are steps of the code *)
(* modelled, and frames, flags and the hook stay in their ranges.          *)
(***************************************************************************)
THEOREM TypeCorrect == Spec => []TypeOK
BY TypeInit, TypeNext, PTL DEF Spec

-----------------------------------------------------------------------------
(***************************************************************************)
(* The course of a call: quiet steps and calls.                            *)
(***************************************************************************)

\* Nothing but what SameDue lists decides what is due.
SameMode ==
  /\ flags' = flags /\ wframe' = wframe /\ held' = held /\ hook'.alive = hook.alive
  /\ hook'.running = hook.running /\ hook'.isasync = hook.isasync

\* A call goes on to its last step.
LEMMA GoesOn ==
  ASSUME NEW q \in Seq(Quiet), NEW e \in Seq(Step), todo' = q \o e, AtEnd(e)', hook'.alive
  PROVE  Course'
BY DEF Course, InCall

LEMMA AtItsEnd ==
  ASSUME NEW e \in Seq(Step), todo' = e, AtEnd(e)', hook'.alive
  PROVE  Course'
<1>1. <<>> \in Seq(Quiet) /\ todo' = <<>> \o e
  BY EmptySeq
<1> QED BY <1>1, GoesOn

\* If only the first part of a concatenation has the element, it is left out
\* there.
LEMMA RemovedBefore ==
  ASSUME NEW Q, NEW S, Q \subseteq S, NEW q \in Seq(Q), NEW r \in Seq(S),
         NEW e, \A i \in 1..Len(r) : r[i] # e
  PROVE  \E p \in Seq(Q) : RemoveFirst(q \o r, e) = p \o r
<1> DEFINE whole == q \o r
<1>1. Len(q) \in Nat /\ Len(r) \in Nat /\ q \in Seq(S)
  OBVIOUS
<1>2. /\ whole \in Seq(S) /\ Len(whole) = Len(q) + Len(r)
      /\ \A i \in 1..Len(whole) : whole[i] = IF i <= Len(q) THEN q[i] ELSE r[i - Len(q)]
  BY <1>1
<1> HIDE DEF whole
<1>3. CASE ~ \E i \in 1..Len(whole) : whole[i] = e
  BY <1>3 DEF RemoveFirst, whole
<1>4. CASE \E i \in 1..Len(whole) : whole[i] = e
  <2>1. PICK k \in 1..Len(whole) :
          /\ whole[k] = e
          /\ RemoveFirst(whole, e) = SubSeq(whole, 1, k - 1) \o SubSeq(whole, k + 1, Len(whole))
    BY <1>2, <1>4, RemovedElement
  <2>2. k <= Len(q)
    <3> SUFFICES ASSUME ~(k <= Len(q)) PROVE FALSE
      OBVIOUS
    <3>1. k - Len(q) \in 1..Len(r)
      BY <1>1, <1>2
    <3>2. r[k - Len(q)] = e
      BY <1>2, <2>1
    <3> QED BY <3>1, <3>2
  <2>3. /\ k - 1 \in Nat /\ k + 1 \in Nat /\ Len(whole) \in Nat /\ 1 \in Nat
        /\ 1 <= 1 /\ 1 <= k - 1 + 1 /\ k - 1 <= Len(whole) /\ k - 1 <= Len(q)
        /\ 1 <= k + 1 /\ k + 1 <= Len(whole) + 1 /\ Len(whole) <= Len(whole)
        /\ k + 1 <= Len(q) + 1 /\ Len(q) <= Len(q) /\ k \in Nat
    BY <1>1, <1>2, <2>2
  <2> DEFINE before == SubSeq(whole, 1, k - 1)
             after == SubSeq(whole, k + 1, Len(whole))
             left == SubSeq(q, 1, k - 1)
             right == SubSeq(q, k + 1, Len(q))
  <2>4. /\ before \in Seq(S) /\ Len(before) = k - 1 - 1 + 1
        /\ \A i \in 1..k - 1 - 1 + 1 : before[i] = whole[1 + i - 1]
    BY <1>2, <2>3, PartElements
  <2>5. /\ after \in Seq(S) /\ Len(after) = Len(whole) - (k + 1) + 1
        /\ \A i \in 1..Len(whole) - (k + 1) + 1 : after[i] = whole[k + 1 + i - 1]
    BY <1>2, <2>3, PartElements
  <2>6. /\ left \in Seq(Q) /\ Len(left) = k - 1 - 1 + 1
        /\ \A i \in 1..k - 1 - 1 + 1 : left[i] = q[1 + i - 1]
    BY <1>1, <2>3, PartElements
  <2>7. /\ right \in Seq(Q) /\ Len(right) = Len(q) - (k + 1) + 1
        /\ \A i \in 1..Len(q) - (k + 1) + 1 : right[i] = q[k + 1 + i - 1]
    BY <1>1, <2>3, PartElements
  <2> HIDE DEF before, after, left, right
  <2>8. left \o right \in Seq(Q) /\ left \in Seq(S) /\ right \in Seq(S)
    BY <2>6, <2>7
  <2>9. before = left
    <3>1. Len(before) = k - 1 /\ Len(left) = k - 1
      BY <2>3, <2>4, <2>6
    <3>2. \A i \in 1..k - 1 : before[i] = whole[i] /\ left[i] = q[i] /\ whole[i] = q[i]
      BY <1>1, <1>2, <2>2, <2>3, <2>4, <2>6
    <3> QED BY <2>4, <2>8, <3>1, <3>2, SeqEqual
  <2>10. after = right \o r
    <3>1. /\ right \o r \in Seq(S) /\ Len(right \o r) = Len(right) + Len(r)
          /\ \A i \in 1..Len(right \o r) :
               (right \o r)[i] = IF i <= Len(right) THEN right[i] ELSE r[i - Len(right)]
      BY <2>8
    <3>2. Len(after) = Len(q) + Len(r) - k /\ Len(right) = Len(q) - k
      BY <1>1, <1>2, <2>3, <2>5, <2>7
    <3>3. Len(after) = Len(right \o r)
      BY <1>1, <2>3, <3>1, <3>2
    <3>4. \A i \in 1..Len(after) : after[i] = whole[k + i]
      BY <1>1, <1>2, <2>3, <2>5, <3>2
    <3>5. \A i \in 1..Len(right) : right[i] = q[k + i]
      BY <1>1, <2>3, <2>7, <3>2
    <3>6. \A i \in 1..Len(after) :
            whole[k + i] = IF i <= Len(right) THEN q[k + i] ELSE r[i - Len(right)]
      BY <1>1, <1>2, <2>3, <3>2
    <3>7. \A i \in 1..Len(after) : after[i] = (right \o r)[i]
      BY <3>1, <3>2, <3>3, <3>4, <3>5, <3>6, <1>1, <2>3
    <3> QED BY <2>5, <3>1, <3>3, <3>7, SeqEqual
  <2>11. before \o after = (left \o right) \o r
    <3>1. left \in Seq(S) /\ right \in Seq(S) /\ r \in Seq(S)
      BY <2>8
    <3>2. (left \o right) \o r = left \o (right \o r)
      BY <3>1, ConcatAssociative, SMTT(60)
    <3> QED BY <2>9, <2>10, <3>2
  <2> QED BY <2>1, <2>8, <2>11 DEF before, after, whole
<1> QED BY <1>3, <1>4

\* The same of the steps before the last one of a call.
LEMMA RemovedQuiet ==
  ASSUME NEW q \in Seq(Quiet), NEW r \in Seq(Step), NEW x,
         \A i \in 1..Len(r) : r[i] # x
  PROVE  \E p \in Seq(Quiet) : RemoveFirst(q \o r, x) = p \o r
<1>1. Quiet \subseteq Step
  BY StepSets
<1> QED BY <1>1, RemovedBefore, SMTT(30)

\* A quiet step leads on, also where it removes the cont that is to come.
LEMMA QuietKeepsCourse ==
  ASSUME TypeOK, Course, todo # <<>>, Head(todo) \in Quiet, SameMode,
         NEW steps \in Seq(Quiet),
         \/ todo' = steps \o Tail(todo)
         \/ todo' = RemoveFirst(Tail(todo), <<"cont">>)
  PROVE  Course'
<1>1. hook.alive /\ hook'.alive /\ (Clearing \/ InCall)
  BY DEF Course, SameMode
<1>2. CASE Clearing
  <2>1. Tail(todo) \in Seq(ClearStep)
    BY <1>2 DEF Clearing
  <2>2. steps \in Seq(ClearStep)
    BY StepSets, Widens
  <2>3. todo' \in Seq(ClearStep)
    <3>1. steps \o Tail(todo) \in Seq(ClearStep)
      BY <2>1, <2>2
    <3>2. RemoveFirst(Tail(todo), <<"cont">>) \in Seq(ClearStep)
      BY <2>1, RemovedKeeps
    <3> QED BY <3>1, <3>2
  <2>4. held' = {} /\ Settled("ASYNC" \notin flags)'
    BY <1>2 DEF Clearing, SameMode, Settled, On, Off
  <2> QED BY <1>1, <2>3, <2>4 DEF Course, Clearing
<1>3. CASE InCall
  <2>1. PICK q \in Seq(Quiet), e \in Seq(Step) : Tail(todo) = q \o e /\ AtEnd(e)
    BY <1>3, QuietFirst
  <2>2. AtEnd(e)'
    BY <2>1, SameDue DEF SameMode
  <2>3. CASE todo' = steps \o Tail(todo)
    <3>1. steps \o q \in Seq(Quiet) /\ steps \in Seq(Step) /\ q \in Seq(Step)
      BY StepSets, Widens
    <3>2. \A u, v, w \in Seq(Step) : (u \o v) \o w = u \o (v \o w)
      BY ConcatAssociative
    <3>3. (steps \o q) \o e = steps \o (q \o e)
      BY <3>1, <3>2
    <3>4. todo' = (steps \o q) \o e
      BY <2>1, <2>3, <3>3
    <3> QED BY <1>1, <2>2, <3>1, <3>4, GoesOn
  <2>4. CASE todo' = RemoveFirst(Tail(todo), <<"cont">>)
    <3>1. \A i \in 1..Len(e) : e[i] # <<"cont">>
      <4>1. <<"cont">> \in Quiet
        BY DEF Quiet, QuietOps
      <4>2. e = <<>> \/ (Len(e) = 1 /\ e[1] \notin Quiet)
        BY <2>1, EndsActive DEF AtEnd
      <4> QED BY <4>1, <4>2
    <3>2. PICK p \in Seq(Quiet) : RemoveFirst(q \o e, <<"cont">>) = p \o e
      BY <3>1, RemovedQuiet
    <3>3. todo' = p \o e
      BY <2>1, <2>4, <3>2
    <3> QED BY <1>1, <2>2, <3>3, GoesOn
  <2> QED BY <2>3, <2>4
<1> QED BY <1>1, <1>2, <1>3

\* At rest mansync does what the mode wants.
LEMMA Rests ==
  ASSUME Course, Ready
  PROVE  Settled(Wanted(wframe, held))
<1>1. todo = <<>> /\ hook.alive /\ (Clearing \/ InCall)
  BY DEF Course, Ready
<1>2. CASE Clearing
  BY <1>2 DEF Clearing, Wanted
<1>3. CASE InCall
  <2>1. ~Turning(todo)
    BY <1>1, TurningFirst
  <2>2. PICK q \in Seq(Quiet), e \in Seq(Step) : todo = q \o e /\ AtEnd(e)
    BY <1>3, <2>1 DEF InCall
  <2>3. e = <<>>
    <3>1. Len(todo) = 0 /\ Len(q) \in Nat /\ Len(e) \in Nat /\ Len(q \o e) = Len(q) + Len(e)
      BY <1>1
    <3>2. Len(e) = 0
      BY <2>2, <3>1
    <3> QED BY <3>2, EmptySeq
  <2>4. ~(\E x : e = <<x>>)
    BY <2>3
  <2> QED BY <2>2, <2>3, <2>4 DEF AtEnd, Ends
<1> QED BY <1>1, <1>2, <1>3

\* A call that has begun is in its course when it ends with what is due.
LEMMA BeginsCourse ==
  ASSUME Course, NEW q \in Seq(Quiet), NEW e \in Seq(Step), Begin(q \o e),
         Ends(e, Wanted(wframe, held))
  PROVE  Course'
<1>1. SameMode /\ hook'.alive /\ todo' = q \o e
  BY DEF Begin, SameMode, view, Ready
<1>2. AtEnd(e)
  <2>1. Wanted(wframe, held) \in BOOLEAN
    BY DEF Wanted
  <2> QED BY <2>1, Rests DEF AtEnd, Begin
<1>3. AtEnd(e)'
  BY <1>1, <1>2, SameDue DEF SameMode
<1> QED BY <1>1, <1>3, GoesOn

\* The same for a call that turns mansync first.
LEMMA BeginsTurning ==
  ASSUME Course, NEW s, Begin(s), Turning(s)
  PROVE  Course'
<1>1. SameMode /\ hook'.alive /\ todo' = s
  BY DEF Begin, SameMode, view, Ready
<1>2. Turning(s)'
  BY <1>1, SameDue DEF SameMode
<1> QED BY <1>1, <1>2 DEF Course, InCall

\* Tidy mode without the asynchronous one.
LEMMA TidyIsSync ==
  ASSUME TypeOK, flags # Flag, "TIDY" \in flags
  PROVE  "ASYNC" \notin flags
BY DEF TypeOK, Flag

\* Every call begins a course.
LEMMA CourseCall ==
  ASSUME Apart, TypeOK, Course, HeldApart, Call
  PROVE  Course'
<1> DEFINE wanted == Wanted(wframe, held)
<1>1. /\ Flush \in Seq(Quiet) /\ <<>> \in Seq(Quiet) /\ <<>> \in Seq(Step)
      /\ \A s \in QuietOps : << <<s>> >> \in Seq(Quiet)
  BY Parts, EmptySeq
<1>2. Ends(<<>>, wanted)
  BY DEF Ends
<1>3. \A q \in Seq(Quiet) : q \o <<>> = q
  OBVIOUS
<1>4. ASSUME NEW q \in Seq(Quiet), Begin(q)
      PROVE  Course'
  <2>1. Begin(q \o <<>>)
    BY <1>3, <1>4
  <2> QED BY <1>1, <1>2, <2>1, BeginsCourse
<1>5. ASSUME NEW e \in Seq(Step), Begin(<<>> \o e), Ends(e, wanted)
      PROVE  Course'
  BY <1>1, <1>5, BeginsCourse
<1>6. CASE CallDraw
  BY <1>1, <1>4, <1>6 DEF CallDraw, QuietOps
<1>7. CASE CallFlush
  BY <1>1, <1>4, <1>7 DEF CallFlush
<1>8. CASE CallPoll
  <2>1. <<"lock">> \in Quiet /\ <<"unlock">> \in Quiet
    BY DEF Quiet, QuietOps
  <2>2. << <<"lock">>, <<"unlock">> >> \in Seq(Quiet)
    BY <2>1
  <2> QED BY <1>4, <1>8, <2>2 DEF CallPoll
<1>9. CASE CallPollExposed
  <2>1. \A s \in {"lock", "ignore", "expose", "cont", "unlock"} : <<s>> \in Quiet
    BY DEF Quiet, QuietOps
  <2>2. << <<"lock">>, <<"ignore">>, <<"expose">>, <<"cont">>, <<"unlock">> >> \in Seq(Quiet)
    BY <2>1
  <2> QED BY <1>4, <1>9, <2>2 DEF CallPollExposed
<1>10. CASE CallSetFlags
  <2> DEFINE first(new) == IF "ASYNC" \in flags \ new THEN Flush ELSE <<>>
  <2>1. PICK new \in FlagSets :
          /\ Flag \subseteq new => held = {}
          /\ Begin(first(new) \o << <<"setflags", new>> >>)
    BY <1>10 DEF CallSetFlags
  <2>2. first(new) \in Seq(Quiet)
    BY <1>1
  <2>3. << <<"setflags", new>> >> \in Seq(Step)
    BY Named
  <2>4. Ends(<< <<"setflags", new>> >>, wanted)
    BY <2>1 DEF Ends
  <2> HIDE DEF first
  <2> QED BY <2>1, <2>2, <2>3, <2>4, BeginsCourse
<1>11. CASE CallAcquire
  <2> DEFINE first(f) == IF "TIDY" \in flags /\ f = wframe THEN << <<"stop">> >> ELSE <<>>
  <2>1. PICK f \in Frame \ held : flags # Flag /\ Begin(first(f) \o << <<"acquire", f>> >>)
    BY <1>11 DEF CallAcquire
  <2> DEFINE e == << <<"acquire", f>> >>
  <2>2. e \in Seq(Step) /\ Ends(e, Wanted(wframe, held \cup {f}))
    <3>1. f \in Frame
      BY DEF TypeOK
    <3>2. e \in Seq(Step)
      BY <3>1, Named
    <3>3. \E g \in Frame : e = << <<"acquire", g>> >> /\ f = g
      BY <3>1
    <3> HIDE DEF e
    <3>4. \E g \in Frame :
            e = << <<"acquire", g>> >> /\ Wanted(wframe, held \cup {f}) = Wanted(wframe, held \cup {g})
      BY <3>3
    <3>5. Ends(e, Wanted(wframe, held \cup {f}))
      BY <2>1, <3>4 DEF Ends
    <3> QED BY <3>2, <3>5
  <2> HIDE DEF e
  <2>3. CASE "TIDY" \in flags /\ f = wframe
    <3>1. wanted = TRUE /\ Wanted(wframe, held \cup {f}) = FALSE
      BY <2>1, <2>3, TidyIsSync DEF Wanted
    <3>2. On
      BY <2>1, <3>1, Rests DEF Settled, Begin
    <3>3. Begin(<< <<"stop">> >> \o e)
      BY <2>1, <2>3 DEF e
    <3>4. Turning(<< <<"stop">> >> \o e)
      BY <2>2, <3>1, <3>2 DEF Turning
    <3> QED BY <3>3, <3>4, BeginsTurning
  <2>4. CASE ~("TIDY" \in flags /\ f = wframe)
    <3>1. Wanted(wframe, held \cup {f}) = wanted
      BY <2>4 DEF Wanted
    <3>2. Begin(<<>> \o e)
      BY <2>1, <2>4 DEF e
    <3>3. Ends(e, wanted)
      BY <2>2, <3>1
    <3> QED BY <1>5, <2>2, <3>2, <3>3
  <2> QED BY <2>3, <2>4
<1>12. CASE CallRelease
  <2> DEFINE first(f) == CASE f # wframe -> <<>>
                           [] f = wframe /\ "TIDY" \in flags -> << <<"start">> >>
                           [] OTHER -> Flush
  <2>1. PICK f \in held : Begin(first(f) \o << <<"drop", f>> >>)
    BY <1>12 DEF CallRelease
  <2> DEFINE e == << <<"drop", f>> >>
  <2>2. e \in Seq(Step) /\ Ends(e, Wanted(wframe, held \ {f}))
    <3>1. f \in Frame
      BY DEF TypeOK
    <3>2. e \in Seq(Step)
      BY <3>1, Named
    <3>3. \E g \in Frame : e = << <<"drop", g>> >> /\ f = g
      BY <3>1
    <3> HIDE DEF e
    <3>4. \E g \in Frame :
            e = << <<"drop", g>> >> /\ Wanted(wframe, held \ {f}) = Wanted(wframe, held \ {g})
      BY <3>3
    <3>5. Ends(e, Wanted(wframe, held \ {f}))
      BY <3>4 DEF Ends
    <3> QED BY <3>2, <3>5
  <2> HIDE DEF e
  <2>3. CASE f = wframe /\ "TIDY" \in flags
    <3>1. wanted = FALSE /\ Wanted(wframe, held \ {f}) = TRUE
      BY <2>1, <2>3, TidyIsSync DEF Wanted, HeldApart
    <3>2. Off
      BY <2>1, <3>1, Rests DEF Settled, Begin
    <3>3. first(f) = << <<"start">> >>
      BY <2>3
    <3>4. Begin(<< <<"start">> >> \o e)
      BY <2>1, <3>3 DEF e
    <3>5. Turning(<< <<"start">> >> \o e)
      BY <2>2, <3>1, <3>2 DEF Turning
    <3> QED BY <3>4, <3>5, BeginsTurning
  <2>4. CASE ~(f = wframe /\ "TIDY" \in flags)
    <3>1. Wanted(wframe, held \ {f}) = wanted
      BY <2>4 DEF Wanted
    <3>2. first(f) \in Seq(Quiet)
      BY <1>1, <2>4
    <3> HIDE DEF first
    <3>3. Begin(first(f) \o e)
      BY <2>1 DEF e
    <3>4. Ends(e, wanted)
      BY <2>2, <3>1
    <3> QED BY <2>2, <3>2, <3>3, <3>4, BeginsCourse
  <2> QED BY <2>3, <2>4
<1>13. CASE DirectWrite
  <2>1. SameMode /\ todo' = todo
    BY <1>13 DEF DirectWrite, SameMode
  <2>2. AtEnd(<<>>)
    <3>1. wanted \in BOOLEAN
      BY DEF Wanted
    <3> QED BY <1>2, <1>13, <3>1, Rests DEF AtEnd, DirectWrite
  <2>3. AtEnd(<<>>)'
    BY <2>1, <2>2, SameDue DEF SameMode
  <2>4. todo' = <<>> /\ hook'.alive
    BY <1>13, <2>1 DEF DirectWrite, Ready, SameMode
  <2> QED BY <1>1, <2>3, <2>4, AtItsEnd
<1>14. CASE CallSetWriteFrame
  <2>1. PICK f \in Frame : Begin(<< <<"frame", f>> >>)
    BY <1>14 DEF CallSetWriteFrame
  <2> DEFINE e == << <<"frame", f>> >>
  <2>2. e \in Seq(Step) /\ Ends(e, wanted)
    BY Named DEF Ends
  <2>3. Begin(<<>> \o e)
    BY <2>1
  <2> HIDE DEF e
  <2> QED BY <1>5, <2>2, <2>3
<1>15. CASE CallSetMode
  <2>1. held = {} /\ Begin(SetModeSteps)
    BY <1>15 DEF CallSetMode, SetModeSteps
  <2>2. SameMode /\ hook'.alive /\ todo' = SetModeSteps
    BY <2>1 DEF Begin, SameMode, view, Ready
  <2>3. Settled("ASYNC" \notin flags)
    BY <2>1, Rests DEF Begin, Wanted
  <2>4. Settled("ASYNC" \notin flags)' /\ held' = {}
    BY <2>1, <2>2, <2>3 DEF SameMode, Settled, On, Off
  <2> QED BY <2>2, <2>4, SetModeClears DEF Course, Clearing
<1>16. CASE CallExit
  <2> DEFINE e == << <<"deinit">> >>
  <2>1. /\ held = {}
        /\ Begin((IF "ASYNC" \in flags THEN <<>> ELSE << <<"stop">> >>) \o e)
    BY <1>16 DEF CallExit
  <2>2. e \in Seq(Step) /\ Ends(e, FALSE)
    BY Named DEF Ends
  <2> HIDE DEF e
  <2>3. CASE "ASYNC" \in flags
    <3>1. wanted = FALSE /\ Begin(<<>> \o e)
      BY <2>1, <2>3 DEF Wanted
    <3> QED BY <1>5, <2>2, <3>1
  <2>4. CASE "ASYNC" \notin flags
    <3>1. wanted = TRUE /\ Begin(<< <<"stop">> >> \o e)
      BY <2>1, <2>4 DEF Wanted
    <3>2. Turning(<< <<"stop">> >> \o e)
      BY <2>2, <3>1, Rests DEF Turning, Settled, Begin
    <3> QED BY <3>1, <3>2, BeginsTurning
  <2> QED BY <2>3, <2>4
<1> QED BY <1>6, <1>7, <1>8, <1>9, <1>10, <1>11, <1>12, <1>13, <1>14, <1>15, <1>16 DEF Call

-----------------------------------------------------------------------------
(***************************************************************************)
(* The course of a call: its steps.                                        *)
(***************************************************************************)

\* Where a call is when its next step is not quiet.
LEMMA NotQuiet ==
  ASSUME TypeOK, Course, NEW op, todo # <<>>, Head(todo)[1] = op, op \notin QuietOps
  PROVE  /\ hook.alive /\ (Clearing \/ InCall)
         /\ Clearing => op \in {"window", "frame", "switch"}
<1>1. /\ todo # <<>> /\ Head(todo)[1] = op /\ Head(todo) \in Step
  BY DEF TypeOK
<1>2. hook.alive /\ (Clearing \/ InCall)
  BY <1>1 DEF Course
<1>3. ASSUME Clearing PROVE op \in {"window", "frame", "switch"}
  <2>1. Head(todo) \in ClearStep
    BY <1>1, <1>3 DEF Clearing
  <2> QED BY <1>1, <2>1, StepSets DEF ClearStep, Quiet
<1> QED BY <1>2, <1>3

\* The quiet steps.
LEMMA CourseQuiet ==
  ASSUME TypeOK, Course,
         \/ Ignore \/ Cont \/ Lock \/ Unlock \/ LockRelease
         \/ Put \/ CatchUpPut \/ ExposePut \/ CleanRegion \/ Draw \/ FillScreen
  PROVE  Course'
<1>1. ASSUME NEW op \in QuietOps, At(op), SameMode, NEW steps \in Seq(Quiet),
             \/ todo' = steps \o Tail(todo)
             \/ todo' = RemoveFirst(Tail(todo), <<"cont">>)
      PROVE  Course'
  <2>1. todo # <<>> /\ Head(todo) \in Quiet
    BY <1>1, AtFacts, StepSets
  <2> QED BY <1>1, <2>1, QuietKeepsCourse
<1>2. <<>> \in Seq(Quiet)
  BY EmptySeq
<1>3. ASSUME NEW op \in QuietOps, At(op), SameMode, Skip
      PROVE  Course'
  BY <1>1, <1>2, <1>3 DEF Skip, Then
<1>4. ASSUME NEW op \in QuietOps, At(op), SameMode, todo' = AfterWholePut
      PROVE  Course'
  <2>1. Tail(todo) = <<>> \o Tail(todo)
    BY <1>4, AtFacts
  <2>2. \/ todo' = <<>> \o Tail(todo)
        \/ todo' = RemoveFirst(Tail(todo), <<"cont">>)
    BY <1>4, <2>1 DEF AfterWholePut
  <2> QED BY <1>1, <1>2, <1>4, <2>2
<1>5. CASE Ignore
  <2>1. "ignore" \in QuietOps /\ SameMode
    BY <1>5 DEF Ignore, QuietOps, SameMode, view, TypeOK
  <2> QED BY <1>3, <1>5, <2>1 DEF Ignore
<1>6. CASE Cont
  <2>1. "cont" \in QuietOps /\ SameMode
    BY <1>6 DEF Cont, QuietOps, SameMode, view, TypeOK
  <2> QED BY <1>3, <1>6, <2>1 DEF Cont
<1>7. CASE Lock
  <2>1. "lock" \in QuietOps /\ SameMode
    BY <1>7 DEF Lock, QuietOps, SameMode, view
  <2> QED BY <1>3, <1>7, <2>1 DEF Lock
<1>8. CASE Unlock
  <2>1. "unlock" \in QuietOps /\ SameMode
    BY <1>8 DEF Unlock, QuietOps, SameMode, view
  <2> DEFINE steps == (IF posted THEN CatchUp ELSE <<>>) \o << <<"release">> >>
  <2>2. << <<"release">> >> \in Seq(Quiet) /\ CatchUp \in Seq(Quiet)
    BY Parts DEF QuietOps
  <2>3. steps \in Seq(Quiet)
    BY <1>2, <2>2
  <2>4. At("unlock") /\ todo' = steps \o Tail(todo)
    BY <1>8 DEF Unlock, Then
  <2> HIDE DEF steps
  <2> QED BY <1>1, <2>1, <2>3, <2>4
<1>9. CASE LockRelease
  <2>1. "release" \in QuietOps /\ SameMode
    BY <1>9 DEF LockRelease, QuietOps, SameMode, view
  <2> QED BY <1>3, <1>9, <2>1 DEF LockRelease
<1>10. CASE Put
  <2>1. "put" \in QuietOps /\ SameMode
    BY <1>10 DEF Put, QuietOps, SameMode
  <2> QED BY <1>3, <1>4, <1>10, <2>1 DEF Put, PutDirty
<1>11. CASE CatchUpPut
  <2>1. "catchup" \in QuietOps /\ SameMode
    BY <1>11 DEF CatchUpPut, QuietOps, SameMode
  <2> QED BY <1>3, <1>4, <1>11, <2>1 DEF CatchUpPut, PutDirty
<1>12. CASE ExposePut
  <2>1. "expose" \in QuietOps /\ SameMode
    BY <1>12 DEF ExposePut, QuietOps, SameMode
  <2> QED BY <1>4, <1>12, <2>1 DEF ExposePut
<1>13. CASE CleanRegion
  <2>1. "clean" \in QuietOps /\ SameMode
    BY <1>13 DEF CleanRegion, QuietOps, SameMode
  <2> QED BY <1>3, <1>13, <2>1 DEF CleanRegion
<1>14. CASE Draw
  <2>1. "draw" \in QuietOps /\ SameMode
    BY <1>14 DEF Draw, QuietOps, SameMode
  <2> QED BY <1>3, <1>14, <2>1 DEF Draw
<1>15. CASE FillScreen
  <2>1. "fill" \in QuietOps /\ SameMode
    BY <1>15 DEF FillScreen, QuietOps, SameMode
  <2> QED BY <1>3, <1>15, <2>1 DEF FillScreen
<1> QED BY <1>5, <1>6, <1>7, <1>8, <1>9, <1>10, <1>11, <1>12, <1>13, <1>14, <1>15

\* What the last step of a call says of mansync.
LEMMA LastStep ==
  ASSUME TypeOK, AtEnd(todo), todo # <<>>, NEW f, f = Head(todo)[2]
  PROVE  /\ Head(todo)[1] = "settidy" => Settled("ASYNC" \notin flags)
         /\ Head(todo)[1] = "acquire" => Settled(Wanted(wframe, held \cup {f}))
         /\ Head(todo)[1] = "drop" => Settled(Wanted(wframe, held \ {f}))
         /\ Head(todo)[1] = "switch" => Settled(Wanted(f, held))
         /\ Head(todo)[1] = "frame" => Settled(Wanted(wframe, held))
         /\ Head(todo)[1] = "setflags" => Settled(Wanted(wframe, held))
         /\ Head(todo)[1] = "deinit" => Settled(FALSE)
<1>1. PICK wanted \in BOOLEAN : Ends(todo, wanted) /\ Settled(wanted)
  BY DEF AtEnd
<1>2. ASSUME NEW x, todo = <<x>> PROVE Head(todo) = x
  BY <1>2
<1>3. CASE todo = << <<"settidy">> >> /\ wanted = ("ASYNC" \notin flags)
  <2>1. Head(todo)[1] = "settidy"
    BY <1>2, <1>3
  <2> QED BY <1>1, <1>3, <2>1
<1>4. CASE \E g \in Frame :
              todo = << <<"acquire", g>> >> /\ wanted = Wanted(wframe, held \cup {g})
  <2>1. PICK g \in Frame :
          todo = << <<"acquire", g>> >> /\ wanted = Wanted(wframe, held \cup {g})
    BY <1>4
  <2>2. Head(todo) = <<"acquire", g>>
    BY <1>2, <2>1
  <2>3. Head(todo)[1] = "acquire" /\ g = f
    BY <2>2
  <2> QED BY <1>1, <2>1, <2>3
<1>5. CASE \E g \in Frame :
              todo = << <<"drop", g>> >> /\ wanted = Wanted(wframe, held \ {g})
  <2>1. PICK g \in Frame :
          todo = << <<"drop", g>> >> /\ wanted = Wanted(wframe, held \ {g})
    BY <1>5
  <2>2. Head(todo) = <<"drop", g>>
    BY <1>2, <2>1
  <2>3. Head(todo)[1] = "drop" /\ g = f
    BY <2>2
  <2> QED BY <1>1, <2>1, <2>3
<1>6. CASE \E g \in Frame : todo = << <<"switch", g>> >> /\ wanted = Wanted(g, held)
  <2>1. PICK g \in Frame : todo = << <<"switch", g>> >> /\ wanted = Wanted(g, held)
    BY <1>6
  <2>2. Head(todo) = <<"switch", g>>
    BY <1>2, <2>1
  <2>3. Head(todo)[1] = "switch" /\ g = f
    BY <2>2
  <2> QED BY <1>1, <2>1, <2>3
<1>7. CASE /\ \/ \E g \in Frame : todo = << <<"frame", g>> >>
              \/ \E fl \in FlagSets : todo = << <<"setflags", fl>> >>
           /\ wanted = Wanted(wframe, held)
  <2>1. Head(todo)[1] \in {"frame", "setflags"}
    BY <1>2, <1>7
  <2> QED BY <1>1, <1>7, <2>1
<1>8. CASE todo = << <<"deinit">> >> /\ wanted = FALSE
  <2>1. Head(todo)[1] = "deinit"
    BY <1>2, <1>8
  <2> QED BY <1>1, <1>8, <2>1
<1> QED BY <1>1, <1>3, <1>4, <1>5, <1>6, <1>7, <1>8 DEF Ends

\* What a call ends with stays what it is.
LEMMA SameEnds ==
  ASSUME NEW e, NEW b, Ends(e, b), flags' = flags, wframe' = wframe, held' = held
  PROVE  Ends(e, b)'
<1>1. /\ Wanted(wframe, held)' = Wanted(wframe, held)
      /\ \A f : /\ Wanted(wframe, held \cup {f})' = Wanted(wframe, held \cup {f})
               /\ Wanted(wframe, held \ {f})' = Wanted(wframe, held \ {f})
               /\ Wanted(f, held)' = Wanted(f, held)
  BY DEF Wanted
<1> QED BY <1>1 DEF Ends

\* Steps that are not at the end yet.
LEMMA TurnsOn ==
  ASSUME Turning(todo)', hook'.alive
  PROVE  Course'
BY DEF Course, InCall

\* The steps that start and stop mansync.
LEMMA CourseTurn ==
  ASSUME TypeOK, Course, HeldApart, Start \/ Stop \/ DelTask \/ SetSync \/ SetTidy
  PROVE  Course'
<1>1. ASSUME NEW op \in {"start", "stop", "deltask", "setsync", "settidy"}, At(op)
      PROVE  /\ op \notin QuietOps /\ hook.alive /\ InCall
             /\ todo # <<>> /\ Head(todo)[1] = op
  BY <1>1, AtFacts, NotQuiet DEF QuietOps
<1>2. flags' = flags /\ wframe' = wframe /\ held' = held
  BY DEF Start, Stop, DelTask, SetSync, SetTidy, view
<1>3. CASE Start
  <2>1. Off /\ Tail(todo) \in Seq(Step) /\ Ends(Tail(todo), TRUE) /\ hook.alive
    BY <1>1, <1>3, Forms DEF Start
  <2>2. PICK e \in Seq(Step) : e = Tail(todo) /\ Ends(e, TRUE)
    BY <2>1
  <2>3. todo' = e
    BY <1>3, <2>2, SkipIs DEF Start
  <2>4. On' /\ hook'.alive
    BY <1>3, <2>1 DEF Start, Off, On, TypeOK
  <2>5. Ends(e, TRUE)'
    BY <1>2, <2>2, SameEnds
  <2>6. AtEnd(e)'
    BY <2>4, <2>5 DEF AtEnd, Settled
  <2> QED BY <2>3, <2>4, <2>6, AtItsEnd
<1>4. CASE Stop
  <2>1. On /\ Tail(todo) \in Seq(Step) /\ Ends(Tail(todo), FALSE) /\ hook.alive
    BY <1>1, <1>4, Forms DEF Stop
  <2>2. PICK e \in Seq(Step) : e = Tail(todo) /\ Ends(e, FALSE)
    BY <2>1
  <2>3. todo' = << <<"deltask">> >> \o e
    BY <1>4, <2>1, <2>2 DEF Stop, Then, On
  <2>4. Stopping' /\ hook'.alive
    BY <1>4, <2>1 DEF Stop, Stopping, On, TypeOK
  <2>5. Ends(e, FALSE)'
    BY <1>2, <2>2, SameEnds
  <2>6. Turning(todo)'
    BY <2>3, <2>4, <2>5 DEF Turning
  <2> QED BY <2>4, <2>6, TurnsOn
<1>5. CASE DelTask
  <2>1. Stopping /\ Tail(todo) \in Seq(Step) /\ Ends(Tail(todo), FALSE) /\ hook.alive
    BY <1>1, <1>5, Forms DEF DelTask
  <2>2. PICK e \in Seq(Step) : e = Tail(todo) /\ Ends(e, FALSE)
    BY <2>1
  <2>3. todo' = e
    BY <1>5, <2>2, SkipIs DEF DelTask
  <2>4. Off' /\ hook'.alive
    BY <1>5, <2>1 DEF DelTask, Stopping, Off, TypeOK
  <2>5. Ends(e, FALSE)'
    BY <1>2, <2>2, SameEnds
  <2>6. AtEnd(e)'
    BY <2>4, <2>5 DEF AtEnd, Settled
  <2> QED BY <2>3, <2>4, <2>6, AtItsEnd
<1>6. CASE SetSync
  <2> DEFINE e == << <<"settidy">> >>
  <2>1. (On \/ Off) /\ Tail(todo) = e /\ hook.alive
    BY <1>1, <1>6, Forms DEF SetSync
  <2>2. e \in Seq(Step) /\ Ends(e, "ASYNC" \notin flags)
    BY Named DEF Ends
  <2>3. hook' = hook
    BY <1>6 DEF SetSync
  <2> HIDE DEF e
  <2>4. CASE hook.isasync /\ "ASYNC" \notin flags
    <3>1. todo' = << <<"start">> >> \o e
      BY <1>6, <2>1, <2>4 DEF SetSync, Then
    <3>2. Off /\ Ends(e, TRUE)
      BY <2>1, <2>2, <2>4 DEF On
    <3>3. Turning(<< <<"start">> >> \o e)
      BY <3>2 DEF Turning
    <3>4. Turning(<< <<"start">> >> \o e)'
      BY <1>2, <2>3, <3>3, SameDue
    <3> QED BY <2>1, <2>3, <3>1, <3>4, TurnsOn
  <2>5. CASE ~hook.isasync /\ "ASYNC" \in flags
    <3>1. todo' = << <<"stop">> >> \o e
      BY <1>6, <2>1, <2>5 DEF SetSync, Then
    <3>2. On /\ Ends(e, FALSE)
      BY <2>1, <2>2, <2>5 DEF Off
    <3>3. Turning(<< <<"stop">> >> \o e)
      BY <3>2 DEF Turning
    <3>4. Turning(<< <<"stop">> >> \o e)'
      BY <1>2, <2>3, <3>3, SameDue
    <3> QED BY <2>1, <2>3, <3>1, <3>4, TurnsOn
  <2>6. CASE hook.isasync = ("ASYNC" \in flags)
    <3>1. todo' = <<>> \o e
      BY <1>6, <2>1, <2>6 DEF SetSync, Then
    <3>2. todo' = e
      BY <2>2, <3>1
    <3>3. Settled("ASYNC" \notin flags)
      BY <2>1, <2>6 DEF Settled, On, Off
    <3>4. AtEnd(e)
      BY <2>2, <3>3 DEF AtEnd
    <3>5. AtEnd(e)'
      BY <1>2, <2>3, <3>4, SameDue
    <3> QED BY <2>1, <2>2, <2>3, <3>2, <3>5, AtItsEnd
  <2> QED BY <2>4, <2>5, <2>6 DEF TypeOK
<1>7. CASE SetTidy
  <2>1. /\ todo # <<>> /\ Head(todo)[1] = "settidy" /\ hook.alive
        /\ AtEnd(todo) /\ Tail(todo) = <<>>
    BY <1>1, <1>7, Forms DEF SetTidy
  <2>2. Settled("ASYNC" \notin flags)
    BY <2>1, LastStep
  <2>3. hook' = hook
    BY <1>7 DEF SetTidy
  <2>4. Ends(<<>>, Wanted(wframe, held)) /\ <<>> \in Seq(Step)
    BY EmptySeq DEF Ends
  <2>5. CASE "TIDY" \in flags /\ wframe \in held
    <3> DEFINE e == <<>>
    <3>1. todo' = << <<"stop">> >> \o e
      BY <1>7, <2>1, <2>5 DEF SetTidy, Then
    <3>2. On /\ Ends(e, FALSE)
      BY <2>2, <2>4, <2>5, TidyIsSync DEF Settled, Wanted, HeldApart
    <3> HIDE DEF e
    <3>3. Turning(<< <<"stop">> >> \o e)
      BY <3>2 DEF Turning
    <3>4. Turning(<< <<"stop">> >> \o e)'
      BY <1>2, <2>3, <3>3, SameDue
    <3> QED BY <2>1, <2>3, <3>1, <3>4, TurnsOn
  <2>6. CASE ~("TIDY" \in flags /\ wframe \in held)
    <3>1. todo' = <<>>
      BY <1>7, <2>1, <2>6, SkipIs DEF SetTidy, Then
    <3>2. Settled(Wanted(wframe, held)) /\ Wanted(wframe, held) \in BOOLEAN
      BY <2>2, <2>6 DEF Wanted
    <3>3. AtEnd(<<>>)
      BY <2>4, <3>2 DEF AtEnd
    <3>4. AtEnd(<<>>)'
      BY <1>2, <2>3, <3>3, SameDue
    <3> QED BY <2>1, <2>3, <2>4, <3>1, <3>4, AtItsEnd
  <2> QED BY <2>5, <2>6
<1> QED BY <1>3, <1>4, <1>5, <1>6, <1>7

\* The steps that change what mansync should do.
LEMMA CourseMode ==
  ASSUME TypeOK, Course, HeldApart, AssignFlags \/ MarkHeld \/ MarkReleased \/ Deinit
  PROVE  Course'
<1>1. ASSUME NEW op \in {"setflags", "acquire", "drop", "deinit"}, At(op)
      PROVE  /\ hook.alive /\ AtEnd(todo) /\ Tail(todo) = <<>>
             /\ todo # <<>> /\ Head(todo)[1] = op
  <2>1. op \notin QuietOps /\ todo # <<>> /\ Head(todo)[1] = op
    BY <1>1, AtFacts DEF QuietOps
  <2>2. hook.alive /\ InCall
    BY <1>1, <2>1, NotQuiet
  <2> QED BY <2>1, <2>2, Forms
<1>2. <<>> \in Seq(Step)
  BY EmptySeq
<1>3. ASSUME todo' = <<>>, Settled(Wanted(wframe, held))', hook'.alive
      PROVE  Course'
  <2>1. (Wanted(wframe, held) \in BOOLEAN)'
    BY DEF Wanted
  <2>2. AtEnd(<<>>)'
    BY <1>3, <2>1 DEF AtEnd, Ends
  <2> QED BY <1>2, <1>3, <2>2, AtItsEnd
<1>4. CASE AssignFlags
  <2>1. hook.alive /\ AtEnd(todo) /\ Tail(todo) = <<>> /\ todo # <<>> /\ Head(todo)[1] = "setflags"
    BY <1>1, <1>4 DEF AssignFlags
  <2>2. Settled(Wanted(wframe, held))
    BY <2>1, LastStep
  <2>3. On \/ Off
    BY <2>2 DEF Settled
  <2>4. todo' = << <<"setsync">>, <<"settidy">> >> /\ hook' = hook
    <3> DEFINE turn == << <<"setsync">>, <<"settidy">> >>
    <3>1. turn \in Seq(Step)
      BY Named
    <3>2. todo' = turn \o <<>> /\ hook' = hook
      BY <1>4, <2>1 DEF AssignFlags, Then
    <3> HIDE DEF turn
    <3>3. todo' = turn /\ hook' = hook
      BY <3>1, <3>2
    <3> QED BY <3>3 DEF turn
  <2>5. On' \/ Off'
    BY <2>3, <2>4 DEF On, Off
  <2>6. Turning(todo)'
    BY <2>4, <2>5 DEF Turning
  <2> QED BY <2>1, <2>4, <2>6, TurnsOn
<1>5. CASE MarkHeld
  <2>1. /\ hook.alive /\ AtEnd(todo) /\ Tail(todo) = <<>> /\ todo # <<>>
        /\ Head(todo)[1] = "acquire"
    BY <1>1, <1>5 DEF MarkHeld
  <2>2. Settled(Wanted(wframe, held \cup {Head(todo)[2]}))
    BY <2>1, LastStep
  <2>3. /\ held' = held \cup {Head(todo)[2]} /\ hook' = hook /\ flags' = flags
        /\ wframe' = wframe /\ todo' = <<>>
    BY <1>5, <2>1, SkipIs DEF MarkHeld
  <2>4. Settled(Wanted(wframe, held))'
    BY <2>2, <2>3 DEF Settled, Wanted, On, Off
  <2> QED BY <1>3, <2>1, <2>3, <2>4
<1>6. CASE MarkReleased
  <2>1. /\ hook.alive /\ AtEnd(todo) /\ Tail(todo) = <<>> /\ todo # <<>>
        /\ Head(todo)[1] = "drop"
    BY <1>1, <1>6 DEF MarkReleased
  <2>2. Settled(Wanted(wframe, held \ {Head(todo)[2]}))
    BY <2>1, LastStep
  <2>3. /\ held' = held \ {Head(todo)[2]} /\ hook' = hook /\ flags' = flags
        /\ wframe' = wframe /\ todo' = <<>>
    BY <1>6, <2>1, SkipIs DEF MarkReleased
  <2>4. Settled(Wanted(wframe, held))'
    BY <2>2, <2>3 DEF Settled, Wanted, On, Off
  <2> QED BY <1>3, <2>1, <2>3, <2>4
<1>7. CASE Deinit
  <2>1. hook.alive /\ AtEnd(todo) /\ Tail(todo) = <<>> /\ todo # <<>> /\ Head(todo)[1] = "deinit"
    BY <1>1, <1>7 DEF Deinit
  <2>2. Settled(FALSE)
    BY <2>1, LastStep
  <2>3. todo' = <<>> /\ ~hook'.alive /\ Off'
    BY <1>7, <2>1, <2>2, SkipIs DEF Deinit, Settled, Off, TypeOK
  <2> QED BY <2>3 DEF Course
<1> QED BY <1>4, <1>5, <1>6, <1>7

\* The steps that change the write frame.
LEMMA CourseFrame ==
  ASSUME TypeOK, Course, HeldApart, WriteFrame \/ SwitchFrame \/ NewWindow
  PROVE  Course'
<1>1. ASSUME NEW op \in {"frame", "switch", "window"}, At(op)
      PROVE  /\ hook.alive /\ (Clearing \/ InCall)
             /\ todo # <<>> /\ Head(todo) \in Step /\ Head(todo)[1] = op
             /\ op # "window" => Head(todo)[2] \in Frame /\ Head(todo) = <<op, Head(todo)[2]>>
             /\ op \notin QuietOps
  BY <1>1, AtFacts, NotQuiet, StepForm DEF QuietOps
<1>2. ASSUME NEW steps \in Seq(ClearStep), Clearing, todo # <<>>, todo' = steps \o Tail(todo),
             hook' = hook, flags' = flags, held' = held, hook.alive
      PROVE  Course'
  <2>1. Tail(todo) \in Seq(ClearStep)
    BY <1>2 DEF Clearing
  <2>2. todo' \in Seq(ClearStep)
    BY <1>2, <2>1
  <2>3. held' = {} /\ Settled("ASYNC" \notin flags)'
    BY <1>2 DEF Clearing, Settled, On, Off
  <2> QED BY <1>2, <2>2, <2>3 DEF Course, Clearing
<1>3. <<>> \in Seq(ClearStep) /\ Flush \in Seq(ClearStep) /\ Flush \in Seq(Quiet)
  BY Parts, StepSets, Widens, EmptySeq
<1>4. CASE NewWindow
  <2>1. hook.alive /\ todo # <<>> /\ Head(todo)[1] = "window" /\ "window" \notin QuietOps
    BY <1>1, <1>4 DEF NewWindow
  <2>2. Clearing
    BY <1>1, <1>4, <2>1, Forms DEF NewWindow
  <2> QED BY <1>2, <1>3, <1>4, <2>1, <2>2 DEF NewWindow, Skip, Then
<1>5. CASE SwitchFrame
  <2> DEFINE f == Head(todo)[2]
  <2>1. /\ hook.alive /\ (Clearing \/ InCall) /\ todo # <<>> /\ Head(todo)[1] = "switch"
        /\ f \in Frame /\ "switch" \notin QuietOps
    BY <1>1, <1>5 DEF SwitchFrame
  <2>2. wframe' = f /\ hook' = hook /\ flags' = flags /\ held' = held /\ todo' = Tail(todo)
    BY <1>5, SkipIs DEF SwitchFrame
  <2>3. CASE Clearing
    BY <1>2, <1>3, <1>5, <2>1, <2>3 DEF SwitchFrame, Skip, Then
  <2>4. CASE InCall
    <3>1. Wanted(wframe, held)' = Wanted(f, held) /\ Wanted(f, held) \in BOOLEAN
      BY <2>2 DEF Wanted
    <3>2. (On' <=> On) /\ (Off' <=> Off)
      BY <2>2 DEF On, Off
    <3>3. <<>> \in Seq(Step)
      BY EmptySeq
    <3>4. CASE AtEnd(todo) /\ Tail(todo) = <<>>
      <4>1. Settled(Wanted(f, held))
        BY <2>1, <3>4, LastStep
      <4>2. Settled(Wanted(wframe, held))'
        BY <3>1, <3>2, <4>1 DEF Settled
      <4>3. AtEnd(<<>>)'
        BY <3>1, <4>2 DEF AtEnd, Ends
      <4> QED BY <2>1, <2>2, <3>3, <3>4, <4>3, AtItsEnd
    <3>5. CASE Off /\ Wanted(f, held) /\ Tail(todo) = << <<"start">> >>
      <4> DEFINE e == <<>>
      <4>1. Ends(e, TRUE)' /\ todo' = << <<"start">> >> \o e
        BY <2>2, <3>1, <3>5 DEF Ends
      <4> HIDE DEF e
      <4>2. Turning(todo)'
        BY <3>2, <3>5, <4>1 DEF Turning
      <4> QED BY <2>1, <2>2, <4>2, TurnsOn
    <3>6. CASE On /\ ~Wanted(f, held) /\ Tail(todo) = << <<"stop">> >>
      <4> DEFINE e == <<>>
      <4>1. Ends(e, FALSE)' /\ todo' = << <<"stop">> >> \o e
        BY <2>2, <3>1, <3>6 DEF Ends
      <4> HIDE DEF e
      <4>2. Turning(todo)'
        BY <3>2, <3>6, <4>1 DEF Turning
      <4> QED BY <2>1, <2>2, <4>2, TurnsOn
    <3> QED BY <2>1, <2>4, <3>4, <3>5, <3>6, Forms
  <2> QED BY <2>1, <2>3, <2>4
<1>6. CASE WriteFrame
  <2> DEFINE f == Head(todo)[2]
             moves == (wframe \in held) # (f \in held)
             last == << <<"switch", f>> >>
             steps == CASE "TIDY" \notin flags -> Flush \o last
                        [] "TIDY" \in flags /\ ~moves -> last
                        [] OTHER -> << <<"switch", f>>,
                                       IF f \in held THEN <<"stop">> ELSE <<"start">> >>
  <2>1. /\ hook.alive /\ (Clearing \/ InCall) /\ todo # <<>> /\ Head(todo)[1] = "frame"
        /\ f \in Frame /\ "frame" \notin QuietOps
    BY <1>1, <1>6 DEF WriteFrame
  <2>2. /\ wframe' = wframe /\ hook' = hook /\ flags' = flags /\ held' = held
        /\ todo' = steps \o Tail(todo)
    BY <1>6 DEF WriteFrame, Then, view
  <2>3. last \in Seq(Step) /\ last \in Seq(ClearStep)
    <3>1. <<"switch", f>> \in ClearStep /\ <<"switch", f>> \in Step
      BY <2>1, Named DEF ClearStep
    <3> QED BY <3>1
  <2>4. CASE Clearing
    <3>1. ~moves
      BY <2>4 DEF Clearing
    <3>2. steps = Flush \o last \/ steps = last
      BY <3>1
    <3> HIDE DEF steps, last
    <3>3. Flush \o last \in Seq(ClearStep)
      BY <1>3, <2>3
    <3>4. steps \in Seq(ClearStep)
      BY <2>3, <3>2, <3>3
    <3> QED BY <1>2, <2>1, <2>2, <2>4, <3>4
  <2>5. CASE InCall
    <3>1. AtEnd(todo) /\ Tail(todo) = <<>>
      BY <2>1, <2>5, Forms
    <3>2. Settled(Wanted(wframe, held))
      BY <2>1, <3>1, LastStep
    <3>3. CASE "TIDY" \notin flags \/ ~moves
      <4>1. Wanted(f, held) = Wanted(wframe, held) /\ Wanted(f, held) \in BOOLEAN
        BY <3>3 DEF Wanted
      <4>2. Ends(last, Wanted(f, held))
        <5>1. \E g \in Frame : last = << <<"switch", g>> >> /\ f = g
          BY <2>1
        <5> HIDE DEF last, f
        <5> QED BY <5>1 DEF Ends
      <4>3. AtEnd(last)
        BY <3>2, <4>1, <4>2 DEF AtEnd
      <4>4. \E q \in Seq(Quiet) : steps = q \o last
        <5>1. steps = Flush \o last \/ steps = last
          BY <3>3
        <5> HIDE DEF steps, last
        <5>2. last = <<>> \o last /\ <<>> \in Seq(Quiet)
          BY <2>3, EmptySeq
        <5> QED BY <1>3, <5>1, <5>2
      <4> HIDE DEF steps
      <4>5. PICK q \in Seq(Quiet) : steps = q \o last
        BY <4>4
      <4>6. PICK e \in Seq(Step) : e = last /\ AtEnd(e)
        BY <2>3, <4>3
      <4>7. todo' = q \o e
        <5>1. q \in Seq(Step)
          BY StepSets, Widens
        <5>2. q \o e \in Seq(Step)
          BY <5>1
        <5>3. todo' = (q \o e) \o <<>>
          BY <2>2, <3>1, <4>5, <4>6
        <5> QED BY <5>2, <5>3
      <4>8. AtEnd(e)'
        BY <2>2, <4>6, SameDue
      <4> QED BY <2>1, <2>2, <4>7, <4>8, GoesOn
    <3>4. CASE "TIDY" \in flags /\ moves
      <4> DEFINE turn == IF f \in held THEN <<"stop">> ELSE <<"start">>
      <4>1. steps = << <<"switch", f>>, turn >>
        BY <3>4
      <4>2. turn \in Step /\ <<"switch", f>> \in Step
        BY <2>1, Named
      <4>3. todo' = << <<"switch", f>>, turn >>
        <5>1. << <<"switch", f>>, turn >> \in Seq(Step)
          BY <4>2
        <5>2. todo' = << <<"switch", f>>, turn >> \o <<>>
          BY <2>2, <3>1, <4>1
        <5> QED BY <5>1, <5>2
      <4>4. CASE f \in held
        <5>1. On /\ ~Wanted(f, held)
          BY <3>2, <3>4, <4>4, TidyIsSync DEF Wanted, Settled, HeldApart
        <5>2. PICK g \in Frame : g = f
          BY <2>1
        <5>3. On' /\ ~Wanted(g, held)' /\ todo' = << <<"switch", g>>, <<"stop">> >>
          BY <2>2, <4>3, <4>4, <5>1, <5>2 DEF On, Wanted
        <5>4. Turning(todo)'
          BY <5>3 DEF Turning
        <5> QED BY <2>1, <2>2, <5>4, TurnsOn
      <4>5. CASE f \notin held
        <5>1. Off /\ Wanted(f, held)
          BY <3>2, <3>4, <4>5, TidyIsSync DEF Wanted, Settled, HeldApart
        <5>2. PICK g \in Frame : g = f
          BY <2>1
        <5>3. Off' /\ Wanted(g, held)' /\ todo' = << <<"switch", g>>, <<"start">> >>
          BY <2>2, <4>3, <4>5, <5>1, <5>2 DEF Off, Wanted
        <5>4. Turning(todo)'
          BY <5>3 DEF Turning
        <5> QED BY <2>1, <2>2, <5>4, TurnsOn
      <4> QED BY <4>4, <4>5
    <3> QED BY <3>3, <3>4
  <2> QED BY <2>1, <2>4, <2>5
<1> QED BY <1>4, <1>5, <1>6

-----------------------------------------------------------------------------
(***************************************************************************)
(* The invariant without its part about muting.                            *)
(***************************************************************************)

LEMMA OrderlyInit == Init => Orderly
<1> SUFFICES ASSUME Init PROVE Orderly
  OBVIOUS
<1>1. TypeOK
  BY TypeInit
<1>2. HeldApart /\ Linked
  BY DEF Init, HeldApart, Linked
<1>3. Clearing
  <2>1. todo \in Seq(ClearStep)
    BY EmptySeq DEF Init
  <2>2. Settled("ASYNC" \notin flags)
    BY DEF Init, Settled, On
  <2> QED BY <2>1, <2>2 DEF Init, Clearing
<1> QED BY <1>1, <1>2, <1>3 DEF Orderly, Course, Init

\* The task's steps, and none, leave a call where it is.
LEMMA CourseStay ==
  ASSUME Course, flags' = flags, hook' = hook, wframe' = wframe, held' = held, todo' = todo
  PROVE  Course'
<1>1. CASE ~hook.alive /\ todo = <<>> /\ Off
  BY <1>1 DEF Course, Off
<1>2. CASE hook.alive /\ Clearing
  <2>1. Clearing'
    BY <1>2 DEF Clearing, Settled, On, Off
  <2> QED BY <1>2, <2>1 DEF Course
<1>3. CASE hook.alive /\ InCall
  <2>1. CASE Turning(todo)
    <3>1. PICK s : s = todo /\ Turning(s)
      BY <2>1
    <3>2. Turning(s)' /\ todo' = s
      BY <3>1, SameDue
    <3>3. Turning(todo)'
      BY <3>2 DEF Turning
    <3> QED BY <1>3, <3>3, TurnsOn
  <2>2. CASE ~Turning(todo)
    <3>1. PICK q \in Seq(Quiet), e \in Seq(Step) : todo = q \o e /\ AtEnd(e)
      BY <1>3, <2>2 DEF InCall
    <3>2. AtEnd(e)' /\ todo' = q \o e
      BY <3>1, SameDue
    <3> QED BY <1>3, <3>2, GoesOn
  <2> QED BY <2>1, <2>2
<1> QED BY <1>1, <1>2, <1>3 DEF Course

\* The task exists as long as mansync runs.
LEMMA LinkedNext ==
  ASSUME TypeOK, Linked, [Next]_vars
  PROVE  Linked'
<1>1. CASE UNCHANGED <<hook, task>>
  BY <1>1 DEF Linked
<1>2. CASE TaskCheck \/ TaskPost
  BY <1>2 DEF TaskCheck, TaskPost, Linked
<1>3. CASE Ignore \/ Cont \/ Stop \/ Deinit
  BY <1>3 DEF Ignore, Cont, Stop, Deinit, Linked, TypeOK
<1>4. CASE Start
  BY <1>4 DEF Start, Linked, TypeOK
<1>5. CASE DelTask
  BY <1>5 DEF DelTask, Linked, TypeOK
<1>6. CASE Call
  BY <1>1, <1>6
     DEF Call, CallDraw, CallFlush, CallPoll, CallPollExposed, CallSetFlags, CallAcquire,
         CallRelease, DirectWrite, CallSetWriteFrame, CallSetMode, CallExit, Begin
<1>7. CASE \/ Lock \/ Unlock \/ LockRelease \/ Put \/ CatchUpPut \/ ExposePut
           \/ SetSync \/ SetTidy \/ AssignFlags \/ MarkHeld \/ MarkReleased
           \/ WriteFrame \/ SwitchFrame \/ NewWindow \/ CleanRegion \/ Draw \/ FillScreen
  BY <1>1, <1>7
     DEF Lock, Unlock, LockRelease, Put, CatchUpPut, ExposePut, SetSync, SetTidy,
         AssignFlags, MarkHeld, MarkReleased, WriteFrame, SwitchFrame, NewWindow,
         CleanRegion, Draw, FillScreen
<1> QED BY <1>1, <1>2, <1>3, <1>4, <1>5, <1>6, <1>7 DEF Next, Continue, Closed, vars

\* Only AssignFlags changes the flags, and only MarkHeld adds to what is held.
LEMMA HeldApartNext ==
  ASSUME TypeOK, Course, HeldApart, [Next]_vars
  PROVE  HeldApart'
<1>1. CASE flags' = flags /\ held' \subseteq held
  BY <1>1 DEF HeldApart
<1>2. ASSUME NEW op \in {"setflags", "acquire"}, At(op)
      PROVE  /\ \E wanted : Ends(todo, wanted)
             /\ todo = << Head(todo) >> /\ Head(todo)[1] = op
  <2>1. op \notin QuietOps /\ todo # <<>> /\ Head(todo)[1] = op
    BY <1>2, AtFacts DEF QuietOps
  <2>2. InCall
    BY <1>2, <2>1, NotQuiet
  <2> QED BY <2>1, <2>2, Forms DEF AtEnd
<1>3. ASSUME NEW x, todo = <<x>> PROVE Head(todo) = x
  BY <1>3
<1>4. ASSUME NEW wanted, Ends(todo, wanted)
      PROVE  \/ Head(todo)[1] \notin {"setflags", "acquire"} \/ todo = <<>>
             \/ Head(todo)[1] = "acquire" /\ flags # Flag
             \/ Head(todo)[1] = "setflags" /\ (Flag \subseteq Head(todo)[2] => held = {})
  <2>1. CASE \E f \in Frame : todo = << <<"acquire", f>> >> /\ flags # Flag
    <3>1. PICK f \in Frame : todo = << <<"acquire", f>> >> /\ flags # Flag
      BY <2>1
    <3>2. Head(todo) = <<"acquire", f>>
      BY <1>3, <3>1
    <3> QED BY <3>1, <3>2
  <2>2. CASE \E fl \in FlagSets : todo = << <<"setflags", fl>> >> /\ (Flag \subseteq fl => held = {})
    <3>1. PICK fl \in FlagSets :
            todo = << <<"setflags", fl>> >> /\ (Flag \subseteq fl => held = {})
      BY <2>2
    <3>2. Head(todo) = <<"setflags", fl>>
      BY <1>3, <3>1
    <3> QED BY <3>1, <3>2
  <2>3. ASSUME NEW x, todo = <<x>>, x[1] \notin {"setflags", "acquire"}
        PROVE  Head(todo)[1] \notin {"setflags", "acquire"}
    BY <1>3, <2>3
  <2>4. CASE todo = << <<"settidy">> >> \/ todo = << <<"deinit">> >>
    BY <2>3, <2>4
  <2>5. CASE \E f \in Frame, o \in {"drop", "switch", "frame"} : todo = << <<o, f>> >>
    BY <2>3, <2>5
  <2> QED BY <1>4, <2>1, <2>2, <2>4, <2>5 DEF Ends
<1>5. CASE AssignFlags
  <2>1. flags' = Head(todo)[2] \cap Flag /\ held' = held /\ At("setflags")
    BY <1>5 DEF AssignFlags, view
  <2>2. Flag \subseteq Head(todo)[2] => held = {}
    <3>1. PICK wanted : Ends(todo, wanted)
      BY <1>2, <2>1
    <3>2. Head(todo)[1] = "setflags" /\ todo # <<>>
      BY <1>2, <2>1
    <3> QED BY <1>4, <3>1, <3>2
  <2> QED BY <2>1, <2>2 DEF HeldApart
<1>6. CASE MarkHeld
  <2>1. flags' = flags /\ At("acquire")
    BY <1>6 DEF MarkHeld
  <2>2. flags # Flag
    <3>1. PICK wanted : Ends(todo, wanted)
      BY <1>2, <2>1
    <3>2. Head(todo)[1] = "acquire" /\ todo # <<>>
      BY <1>2, <2>1
    <3> QED BY <1>4, <3>1, <3>2
  <2> QED BY <2>1, <2>2 DEF HeldApart
<1>7. CASE Call
  BY <1>1, <1>7
     DEF Call, CallDraw, CallFlush, CallPoll, CallPollExposed, CallSetFlags, CallAcquire,
         CallRelease, DirectWrite, CallSetWriteFrame, CallSetMode, CallExit, Begin, view
<1>8. CASE \/ Ignore \/ Cont \/ Lock \/ Unlock \/ LockRelease \/ Put \/ CatchUpPut \/ ExposePut
           \/ Start \/ Stop \/ DelTask \/ SetSync \/ SetTidy \/ MarkReleased
           \/ WriteFrame \/ SwitchFrame \/ NewWindow \/ CleanRegion \/ Draw \/ FillScreen
           \/ Deinit
  BY <1>1, <1>8
     DEF Ignore, Cont, Lock, Unlock, LockRelease, Put, CatchUpPut, ExposePut, Start, Stop,
         DelTask, SetSync, SetTidy, MarkReleased, WriteFrame, SwitchFrame,
         NewWindow, CleanRegion, Draw, FillScreen, Deinit, view
<1> QED BY <1>1, <1>5, <1>6, <1>7, <1>8
        DEF Next, Continue, TaskCheck, TaskPost, Closed, vars, view

LEMMA OrderlyNext ==
  ASSUME Apart, Orderly, [Next]_vars
  PROVE  Orderly'
<1>1. TypeOK' /\ HeldApart' /\ Linked'
  BY TypeNext, HeldApartNext, LinkedNext DEF Orderly
<1>2. Course'
  <2>1. CASE TaskCheck \/ TaskPost \/ Closed \/ UNCHANGED vars
    BY <2>1, CourseStay DEF Orderly, TaskCheck, TaskPost, Closed, vars, view
  <2>2. CASE Call
    BY <2>2, CourseCall DEF Orderly
  <2>3. CASE Continue
    BY <2>3, CourseQuiet, CourseTurn, CourseMode, CourseFrame DEF Orderly, Continue
  <2> QED BY <2>1, <2>2, <2>3 DEF Next
<1> QED BY <1>1, <1>2 DEF Orderly

\* Orderly is an invariant.
LEMMA AlwaysOrderly ==
  ASSUME Apart
  PROVE  Spec => []Orderly
<1>1. Orderly /\ [Next]_vars => Orderly'
  BY OrderlyNext
<1> QED BY <1>1, OrderlyInit, PTL DEF Spec

(***************************************************************************)
(* Between two calls mansync runs exactly when the flags ask for it and no *)
(* tidy write frame is held, whichever of setflags, acquire, release,      *)
(* setwriteframe and setmode came before, and whatever the task did in the *)
(* middle of them; for an application that is Apart.                       *)
(***************************************************************************)
THEOREM ModeIsKept ==
  ASSUME Apart
  PROVE  Spec => []MansyncMatchesMode
<1>1. ASSUME Orderly PROVE MansyncMatchesMode
  BY <1>1, Rests DEF Orderly, MansyncMatchesMode, Wanted, Settled, On, Off, Linked, TypeOK
<1> QED BY <1>1, AlwaysOrderly, PTL

(***************************************************************************)
(* MANSYNC_stop's assertion: no call stops a mansync that does not run,    *)
(* for all the ways a call may come to the stop, of an application that is *)
(* Apart.                                                                  *)
(***************************************************************************)
THEOREM StopsWhatRuns ==
  ASSUME Apart
  PROVE  Spec => []StopAssertion
<1>1. ASSUME Orderly PROVE StopAssertion
  <2> SUFFICES ASSUME todo # <<>>, Head(todo) = <<"stop">> PROVE hook.running
    BY DEF StopAssertion
  <2>1. Head(todo)[1] = "stop" /\ "stop" \notin QuietOps
    BY DEF QuietOps
  <2>2. TypeOK /\ InCall
    BY <1>1, <2>1, NotQuiet DEF Orderly
  <2> QED BY <2>1, <2>2, Forms DEF On
<1> QED BY <1>1, AlwaysOrderly, PTL

(***************************************************************************)
(* MANSYNC_deinit's assertion: GGIexit frees the hook of a mansync that    *)
(* has been stopped, if the application is Apart.                          *)
(***************************************************************************)
THEOREM FreesWhatStopped ==
  ASSUME Apart
  PROVE  Spec => []DeinitAssertion
<1>1. ASSUME Orderly PROVE DeinitAssertion
  <2> SUFFICES ASSUME todo # <<>>, Head(todo) = <<"deinit">> PROVE ~hook.running
    BY DEF DeinitAssertion
  <2>1. Head(todo)[1] = "deinit" /\ "deinit" \notin QuietOps
    BY DEF QuietOps
  <2>2. TypeOK /\ InCall
    BY <1>1, <2>1, NotQuiet DEF Orderly
  <2>3. AtEnd(todo)
    BY <2>1, <2>2, Forms
  <2> QED BY <2>1, <2>2, <2>3, LastStep DEF Settled, Off
<1> QED BY <1>1, AlwaysOrderly, PTL

(***************************************************************************)
(* The task never outlives the hook it reads at every tick, if the         *)
(* application is Apart.                                                   *)
(***************************************************************************)
THEOREM HookOutlivesTask ==
  ASSUME Apart
  PROVE  Spec => []TaskHasItsHook
<1>1. ASSUME Orderly PROVE TaskHasItsHook
  BY <1>1 DEF Orderly, TaskHasItsHook, Course, Off, Linked
<1> QED BY <1>1, AlwaysOrderly, PTL

-----------------------------------------------------------------------------
(***************************************************************************)
(* Muting: every ignore meets its cont.                                    *)
(***************************************************************************)

\* Taking the first step of a call.
LEMMA PairedTail ==
  ASSUME NEW S, NEW s \in Seq(S), s # <<>>, Paired(s)
  PROVE  /\ Paired(Tail(s))
         /\ Head(s) = <<"ignore">> => HasCont(Tail(s))
         /\ HasCont(s) /\ Head(s) # <<"cont">> => HasCont(Tail(s))
<1> DEFINE t == Tail(s)
<1>1. /\ Len(s) \in Nat /\ Len(s) >= 1 /\ Head(s) = s[1]
      /\ Len(t) = Len(s) - 1 /\ \A i \in 1..Len(s) - 1 : t[i] = s[i + 1]
  OBVIOUS
<1> HIDE DEF t
<1>2. ASSUME NEW j \in 2..Len(s), s[j] = <<"cont">>
      PROVE  j - 1 \in 1..Len(t) /\ t[j - 1] = <<"cont">>
  <2>1. j - 1 \in 1..Len(s) - 1 /\ j - 1 + 1 = j
    BY <1>1
  <2> QED BY <1>1, <1>2, <2>1
<1>3. ASSUME NEW i \in 1..Len(t), t[i] = <<"ignore">>
      PROVE  \E j \in 1..Len(t) : i < j /\ t[j] = <<"cont">>
  <2>1. i + 1 \in 1..Len(s) /\ s[i + 1] = <<"ignore">>
    BY <1>1, <1>3
  <2>2. PICK j \in 1..Len(s) : i + 1 < j /\ s[j] = <<"cont">>
    BY <2>1 DEF Paired
  <2>3. j \in 2..Len(s) /\ i < j - 1
    BY <1>1, <2>2
  <2> QED BY <1>2, <2>2, <2>3
<1>4. ASSUME Head(s) = <<"ignore">> PROVE HasCont(t)
  <2>1. 1 \in 1..Len(s) /\ s[1] = <<"ignore">>
    BY <1>1, <1>4
  <2>2. PICK j \in 1..Len(s) : 1 < j /\ s[j] = <<"cont">>
    BY <2>1 DEF Paired
  <2>3. j \in 2..Len(s)
    BY <2>2
  <2> QED BY <1>2, <2>2, <2>3 DEF HasCont
<1>5. ASSUME HasCont(s), Head(s) # <<"cont">> PROVE HasCont(t)
  <2>1. PICK j \in 1..Len(s) : s[j] = <<"cont">>
    BY <1>5 DEF HasCont
  <2>2. j \in 2..Len(s)
    BY <1>1, <1>5, <2>1
  <2> QED BY <1>2, <2>1, <2>2 DEF HasCont
<1>6. Paired(t)
  BY <1>3 DEF Paired
<1> QED BY <1>4, <1>5, <1>6 DEF t

\* Putting steps before or after others.
LEMMA PairedConcat ==
  ASSUME NEW S, NEW s \in Seq(S), NEW t \in Seq(S), Paired(s), Paired(t)
  PROVE  /\ Paired(s \o t)
         /\ HasCont(s) \/ HasCont(t) => HasCont(s \o t)
<1> DEFINE w == s \o t
<1>1. /\ Len(s) \in Nat /\ Len(t) \in Nat /\ Len(w) = Len(s) + Len(t)
      /\ \A i \in 1..Len(w) : w[i] = IF i <= Len(s) THEN s[i] ELSE t[i - Len(s)]
  OBVIOUS
<1> HIDE DEF w
<1>2. \A i \in 1..Len(s) : i \in 1..Len(w) /\ w[i] = s[i]
  BY <1>1
<1>3. \A i \in 1..Len(t) : i + Len(s) \in 1..Len(w) /\ w[i + Len(s)] = t[i]
  BY <1>1
<1>4. \A i \in 1..Len(w) : i \in 1..Len(s) \/ (i - Len(s) \in 1..Len(t) /\ w[i] = t[i - Len(s)])
  BY <1>1
<1>5. ASSUME NEW i \in 1..Len(w), w[i] = <<"ignore">>
      PROVE  \E j \in 1..Len(w) : i < j /\ w[j] = <<"cont">>
  <2>1. CASE i \in 1..Len(s)
    <3>1. PICK j \in 1..Len(s) : i < j /\ s[j] = <<"cont">>
      BY <1>2, <1>5, <2>1 DEF Paired
    <3> QED BY <1>2, <3>1
  <2>2. CASE i - Len(s) \in 1..Len(t) /\ w[i] = t[i - Len(s)]
    <3>1. PICK j \in 1..Len(t) : i - Len(s) < j /\ t[j] = <<"cont">>
      BY <1>5, <2>2 DEF Paired
    <3>2. i < j + Len(s)
      BY <1>1, <3>1
    <3> QED BY <1>3, <3>1, <3>2
  <2> QED BY <1>4, <2>1, <2>2
<1>6. Paired(w)
  BY <1>5 DEF Paired
<1>7. ASSUME HasCont(s) PROVE HasCont(w)
  BY <1>2, <1>7 DEF HasCont
<1>8. ASSUME HasCont(t) PROVE HasCont(w)
  BY <1>3, <1>8 DEF HasCont
<1> QED BY <1>6, <1>7, <1>8 DEF w

\* Steps without an ignore.
LEMMA PairedPlain ==
  ASSUME NEW s, \A i \in 1..Len(s) : s[i] # <<"ignore">>
  PROVE  Paired(s)
BY DEF Paired

\* The two flushes.
LEMMA PairedFlush == Paired(Flush) /\ Paired(CatchUp)
<1>1. Len(Flush) = 5 /\ Flush[5] = <<"cont">> /\ \A i \in 2..5 : Flush[i] # <<"ignore">>
  BY DEF Flush
<1>2. Paired(Flush)
  BY <1>1 DEF Paired
<1>3. Len(CatchUp) = 3 /\ CatchUp[3] = <<"cont">> /\ \A i \in 2..3 : CatchUp[i] # <<"ignore">>
  BY DEF CatchUp
<1>4. Paired(CatchUp)
  BY <1>3 DEF Paired
<1> QED BY <1>2, <1>4

\* A mode is set.
LEMMA PairedSetMode == Paired(SetModeSteps)
<1> DEFINE first == << <<"ignore">>, <<"lock">>, <<"window">>, <<"unlock">>, <<"clean">>, <<"cont">> >>
           last == << <<"frame", 0>> >>
<1>1. first \in Seq(Step) /\ last \in Seq(Step)
  BY Named, FirstFrame
<1>2. Flush \in Seq(Step)
  BY Parts, StepSets, Widens
<1>3. ClearFrames \in Seq(Step) /\ Paired(ClearFrames)
  <2>1. ASSUME NEW i \in 1..4 * Frames
        PROVE  ClearFrames[i] \in Step /\ ClearFrames[i] # <<"ignore">>
    <3>1. \A f \in Frame : <<"frame", f>> \in Step /\ <<"frame", f>> # <<"ignore">>
      BY Named
    <3>2. \A s \in {"lock", "fill", "unlock"} : <<s>> \in Step /\ <<s>> # <<"ignore">>
      BY Named
    <3> QED BY <3>1, <3>2, ClearedBy
  <2>2. ClearFrames \in Seq(Step) /\ Len(ClearFrames) = 4 * Frames
    BY <2>1, ClearFramesIs
  <2> QED BY <2>1, <2>2, PairedPlain
<1>4. Paired(first)
  <2>1. /\ Len(first) = 6 /\ first[6] = <<"cont">>
        /\ \A i \in 2..6 : first[i] # <<"ignore">>
    OBVIOUS
  <2> HIDE DEF first
  <2> QED BY <2>1 DEF Paired
<1>5. Paired(last)
  BY PairedPlain
<1> HIDE DEF first, last
<1>6. first \o ClearFrames \in Seq(Step) /\ Paired(first \o ClearFrames)
  BY <1>1, <1>3, <1>4, PairedConcat
<1> DEFINE cleared == first \o ClearFrames
           framed == cleared \o last
<1>7. cleared \in Seq(Step) /\ Paired(cleared)
  BY <1>6
<1> HIDE DEF cleared
<1>8. framed \in Seq(Step) /\ Paired(framed)
  BY <1>1, <1>5, <1>7, PairedConcat
<1> HIDE DEF framed
<1>9. Paired(framed \o Flush)
  BY <1>2, <1>8, PairedConcat, PairedFlush
<1> QED BY <1>9 DEF SetModeSteps, first, last, cleared, framed

\* A step that does not mute may prepend steps that unmute what they mute.
LEMMA UnmuteThen ==
  ASSUME TypeOK, Unmuting, NEW op, At(op), op \notin {"ignore", "cont"},
         NEW steps \in Seq(Step), Paired(steps), todo' = steps \o Tail(todo),
         Mute' => Mute
  PROVE  Unmuting'
<1>1. /\ todo # <<>> /\ Head(todo)[1] = op /\ Tail(todo) \in Seq(Step)
      /\ todo \in Seq(Step) /\ Head(todo) # <<"cont">>
  BY AtFacts DEF TypeOK
<1>2. Paired(todo) /\ (Mute => HasCont(todo))
  BY DEF Unmuting, Mute
<1>3. Paired(Tail(todo)) /\ (Mute => HasCont(Tail(todo)))
  BY <1>1, <1>2, PairedTail
<1>4. Paired(steps \o Tail(todo)) /\ (Mute => HasCont(steps \o Tail(todo)))
  BY <1>1, <1>3, PairedConcat
<1>5. Paired(todo)' /\ (Mute' => HasCont(todo)')
  <2>1. PICK s : s = todo' /\ Paired(s) /\ (Mute => HasCont(s))
    BY <1>4
  <2> QED BY <2>1 DEF Paired, HasCont
<1> QED BY <1>5 DEF Unmuting, Mute

LEMMA UnmuteSkip ==
  ASSUME TypeOK, Unmuting, NEW op, At(op), op \notin {"ignore", "cont"},
         todo' = Tail(todo), Mute' => Mute
  PROVE  Unmuting'
<1>1. <<>> \in Seq(Step) /\ Paired(<<>>)
  BY EmptySeq, PairedPlain
<1>2. Tail(todo) = <<>> \o Tail(todo)
  BY AtFacts
<1> QED BY <1>1, <1>2, UnmuteThen

\* A call that flushes asynchronously finds mansync stopped.
LEMMA AsyncStopped ==
  ASSUME Orderly, todo # <<>>, Head(todo) \in Quiet, "ASYNC" \in flags
  PROVE  hook.isasync
<1>1. hook.alive /\ (Clearing \/ InCall)
  BY DEF Orderly, Course
<1>2. CASE Clearing
  BY <1>2 DEF Clearing, Settled, Off
<1>3. CASE InCall
  <2>1. PICK e : AtEnd(e)
    BY <1>3, QuietFirst DEF Orderly
  <2>2. PICK wanted \in BOOLEAN : Ends(e, wanted) /\ Settled(wanted)
    BY <2>1 DEF AtEnd
  <2>3. \A w, h : Wanted(w, h) = FALSE
    BY DEF Wanted
  <2>4. wanted = FALSE
    BY <2>2, <2>3 DEF Ends
  <2> QED BY <2>2, <2>4 DEF Settled, Off
<1> QED BY <1>1, <1>2, <1>3

\* The steps of a call.
LEMMA UnmutingContinue ==
  ASSUME Shm, Orderly, Unmuting, Continue
  PROVE  Unmuting'
<1>1. TypeOK
  BY DEF Orderly
<1>2. hook' = hook => (Mute' => Mute)
  BY DEF Mute
<1>3. CASE Ignore
  <2>1. /\ todo # <<>> /\ Head(todo) \in Step /\ Head(todo)[1] = "ignore" /\ todo \in Seq(Step)
        /\ todo' = Tail(todo)
    BY <1>1, <1>3, AtFacts, SkipIs DEF Ignore, TypeOK
  <2>2. Head(todo) = <<"ignore">>
    BY <2>1, StepForm
  <2>3. Paired(Tail(todo)) /\ HasCont(Tail(todo))
    BY <2>1, <2>2, PairedTail DEF Unmuting
  <2>4. PICK s : s = todo' /\ Paired(s) /\ HasCont(s)
    BY <2>1, <2>3
  <2> QED BY <2>4 DEF Unmuting, Paired, HasCont
<1>4. CASE Cont
  <2>1. /\ todo # <<>> /\ Head(todo) \in Step /\ Head(todo)[1] = "cont" /\ todo \in Seq(Step)
        /\ todo' = Tail(todo)
    BY <1>1, <1>4, AtFacts, SkipIs DEF Cont, TypeOK
  <2>2. Paired(Tail(todo))
    BY <2>1, PairedTail DEF Unmuting
  <2>3. Head(todo) \in Quiet
    BY <2>1, StepSets DEF QuietOps
  <2>4. ~Mute'
    <3>1. CASE "ASYNC" \in flags
      BY <1>4, <2>1, <2>3, <3>1, AsyncStopped DEF Cont, Mute
    <3>2. CASE "ASYNC" \notin flags
      BY <1>1, <1>4, <3>2 DEF Cont, Mute, TypeOK
    <3> QED BY <3>1, <3>2
  <2>5. PICK s : s = todo' /\ Paired(s)
    BY <2>1, <2>2
  <2> QED BY <2>4, <2>5 DEF Unmuting, Paired, Mute
<1>5. CASE Lock
  BY <1>1, <1>2, <1>5, SkipIs, UnmuteSkip DEF Lock
<1>6. CASE Unlock
  <2> DEFINE steps == (IF posted THEN CatchUp ELSE <<>>) \o << <<"release">> >>
             first == IF posted THEN CatchUp ELSE <<>>
             last == << <<"release">> >>
  <2>1. first \in Seq(Step) /\ Paired(first)
    <3>1. CatchUp \in Seq(Step) /\ <<>> \in Seq(Step) /\ Paired(<<>>)
      BY Parts, StepSets, Widens, EmptySeq, PairedPlain
    <3> QED BY <3>1, PairedFlush
  <2>2. last \in Seq(Step) /\ Paired(last)
    BY Named, PairedPlain
  <2>3. first \o last \in Seq(Step) /\ Paired(first \o last)
    <3> HIDE DEF first, last
    <3> QED BY <2>1, <2>2, PairedConcat
  <2>4. At("unlock") /\ todo' = steps \o Tail(todo) /\ hook' = hook
    BY <1>6 DEF Unlock, Then
  <2>5. steps \in Seq(Step) /\ Paired(steps)
    BY <2>3
  <2> HIDE DEF steps
  <2> QED BY <1>1, <1>2, <2>4, <2>5, UnmuteThen
<1>7. CASE LockRelease
  BY <1>1, <1>2, <1>7, SkipIs, UnmuteSkip DEF LockRelease
<1>8. AfterWholePut = Tail(todo)
  BY DEF AfterWholePut
<1>9. CASE Put
  BY <1>1, <1>2, <1>8, <1>9, SkipIs, UnmuteSkip DEF Put, PutDirty
<1>10. CASE CatchUpPut
  BY <1>1, <1>2, <1>8, <1>10, SkipIs, UnmuteSkip DEF CatchUpPut, PutDirty
<1>11. CASE ExposePut
  BY <1>1, <1>2, <1>8, <1>11, UnmuteSkip DEF ExposePut
<1>12. CASE Start
  <2>1. Mute' => Mute
    BY <1>1, <1>12 DEF Start, Mute, TypeOK
  <2> QED BY <1>1, <1>12, <2>1, SkipIs, UnmuteSkip DEF Start
<1>13. ASSUME NEW op \in {"stop", "setsync", "settidy", "setflags", "frame"}, At(op),
              Mute' => Mute, NEW steps \in Seq(Step), Then(steps),
              \A i \in 1..Len(steps) : steps[i] # <<"ignore">>
       PROVE  Unmuting'
  BY <1>1, <1>13, PairedPlain, UnmuteThen DEF Then
<1>14. CASE Stop
  <2> DEFINE steps == IF hook.isasync THEN <<>> ELSE << <<"deltask">> >>
  <2>1. Mute' => Mute
    BY <1>1, <1>14 DEF Stop, Mute, TypeOK
  <2>2. steps \in Seq(Step) /\ \A i \in 1..Len(steps) : steps[i] # <<"ignore">>
    BY Named
  <2>3. At("stop") /\ Then(steps)
    BY <1>14 DEF Stop
  <2> HIDE DEF steps
  <2> QED BY <1>13, <2>1, <2>2, <2>3
<1>15. CASE DelTask
  <2>1. Mute' => Mute
    BY <1>1, <1>15 DEF DelTask, Mute, TypeOK
  <2> QED BY <1>1, <1>15, <2>1, SkipIs, UnmuteSkip DEF DelTask
<1>16. CASE SetSync
  <2> DEFINE steps == CASE hook.isasync /\ "ASYNC" \notin flags -> << <<"start">> >>
                        [] ~hook.isasync /\ "ASYNC" \in flags -> << <<"stop">> >>
                        [] OTHER -> <<>>
  <2>1. steps \in { << <<"start">> >>, << <<"stop">> >>, <<>> }
    BY <1>1 DEF TypeOK
  <2>2. steps \in Seq(Step) /\ \A i \in 1..Len(steps) : steps[i] # <<"ignore">>
    <3> HIDE DEF steps
    <3>1. ASSUME NEW o \in {"start", "stop"}, steps = << <<o>> >>
          PROVE  steps \in Seq(Step) /\ \A i \in 1..Len(steps) : steps[i] # <<"ignore">>
      BY <3>1, Named
    <3>2. CASE steps = <<>>
      BY <3>2, EmptySeq
    <3> QED BY <2>1, <3>1, <3>2
  <2>3. At("setsync") /\ Then(steps) /\ hook' = hook
    BY <1>16 DEF SetSync
  <2> HIDE DEF steps
  <2> QED BY <1>2, <1>13, <2>2, <2>3
<1>17. CASE SetTidy
  <2> DEFINE steps == IF "TIDY" \in flags /\ wframe \in held THEN << <<"stop">> >> ELSE <<>>
  <2>1. steps \in Seq(Step) /\ \A i \in 1..Len(steps) : steps[i] # <<"ignore">>
    BY Named
  <2>2. At("settidy") /\ Then(steps) /\ hook' = hook
    BY <1>17 DEF SetTidy
  <2> HIDE DEF steps
  <2> QED BY <1>2, <1>13, <2>1, <2>2
<1>18. CASE AssignFlags
  <2> DEFINE steps == << <<"setsync">>, <<"settidy">> >>
  <2>1. steps \in Seq(Step) /\ \A i \in 1..Len(steps) : steps[i] # <<"ignore">>
    BY Named
  <2>2. At("setflags") /\ Then(steps) /\ hook' = hook
    BY <1>18 DEF AssignFlags
  <2> HIDE DEF steps
  <2> QED BY <1>2, <1>13, <2>1, <2>2
<1>19. CASE MarkHeld
  BY <1>1, <1>2, <1>19, SkipIs, UnmuteSkip DEF MarkHeld
<1>20. CASE MarkReleased
  BY <1>1, <1>2, <1>20, SkipIs, UnmuteSkip DEF MarkReleased
<1>21. CASE WriteFrame
  <2> DEFINE f == Head(todo)[2]
             moves == (wframe \in held) # (f \in held)
             last == << <<"switch", f>> >>
             turn == << <<"switch", f>>, IF f \in held THEN <<"stop">> ELSE <<"start">> >>
             steps == CASE "TIDY" \notin flags -> Flush \o last
                        [] "TIDY" \in flags /\ ~moves -> last
                        [] OTHER -> turn
  <2>1. At("frame") /\ todo' = steps \o Tail(todo) /\ hook' = hook
    BY <1>21 DEF WriteFrame, Then
  <2>2. f \in Frame
    BY <1>1, <2>1, AtFacts, StepForm
  <2>3. last \in Seq(Step) /\ Paired(last)
    <3>1. last \in Seq(Step) /\ \A i \in 1..Len(last) : last[i] # <<"ignore">>
      BY <2>2, Named
    <3> QED BY <3>1, PairedPlain
  <2>4. turn \in Seq(Step) /\ Paired(turn)
    <3>1. (IF f \in held THEN <<"stop">> ELSE <<"start">>) \in Step \ {<<"ignore">>}
      BY Named
    <3>2. <<"switch", f>> \in Step \ {<<"ignore">>}
      BY <2>2, Named
    <3>3. turn \in Seq(Step) /\ \A i \in 1..Len(turn) : turn[i] # <<"ignore">>
      BY <3>1, <3>2
    <3> QED BY <3>3, PairedPlain
  <2>5. Flush \in Seq(Step) /\ Paired(Flush)
    BY Parts, StepSets, Widens, PairedFlush
  <2>6. steps \in {Flush \o last, last, turn}
    OBVIOUS
  <2> HIDE DEF steps, last, turn
  <2>7. Flush \o last \in Seq(Step) /\ Paired(Flush \o last)
    BY <2>3, <2>5, PairedConcat
  <2>8. steps \in Seq(Step) /\ Paired(steps)
    BY <2>3, <2>4, <2>6, <2>7
  <2> QED BY <1>1, <1>2, <2>1, <2>8, UnmuteThen
<1>22. CASE SwitchFrame
  BY <1>1, <1>2, <1>22, SkipIs, UnmuteSkip DEF SwitchFrame
<1>23. CASE NewWindow
  BY <1>1, <1>2, <1>23, SkipIs, UnmuteSkip DEF NewWindow
<1>24. CASE CleanRegion
  BY <1>1, <1>2, <1>24, SkipIs, UnmuteSkip DEF CleanRegion
<1>25. CASE Draw
  BY <1>1, <1>2, <1>25, SkipIs, UnmuteSkip DEF Draw
<1>27. CASE FillScreen
  BY <1>1, <1>2, <1>27, SkipIs, UnmuteSkip DEF FillScreen
<1>26. CASE Deinit
  <2>1. Mute' => Mute
    BY <1>1, <1>26 DEF Deinit, Mute, TypeOK
  <2> QED BY <1>1, <1>26, <2>1, SkipIs, UnmuteSkip DEF Deinit
<1> QED BY <1>3, <1>4, <1>5, <1>6, <1>7, <1>9, <1>10, <1>11, <1>12, <1>14, <1>15, <1>16,
           <1>17, <1>18, <1>19, <1>20, <1>21, <1>22, <1>23, <1>24, <1>25, <1>26, <1>27
        DEF Continue

\* A call begins unmuted, and unmutes what it mutes.
LEMMA UnmuteBegin ==
  ASSUME Unmuting, NEW s \in Seq(Step), Paired(s), Begin(s)
  PROVE  Unmuting'
<1>1. todo = <<>> /\ hook' = hook /\ todo' = s
  BY DEF Begin, Ready
<1>2. ~HasCont(todo)
  BY <1>1 DEF HasCont
<1>3. ~Mute
  BY <1>2 DEF Unmuting, Mute
<1> QED BY <1>1, <1>3 DEF Unmuting, Mute, Paired, HasCont

\* The calls.
LEMMA UnmutingCall ==
  ASSUME Orderly, Unmuting, Call
  PROVE  Unmuting'
<1>1. Flush \in Seq(Step) /\ Paired(Flush) /\ <<>> \in Seq(Step) /\ Paired(<<>>)
  BY Parts, StepSets, Widens, PairedFlush, EmptySeq, PairedPlain
<1>2. ASSUME NEW x \in Step, x # <<"ignore">>
      PROVE  <<x>> \in Seq(Step) /\ Paired(<<x>>)
  <2>1. <<x>> \in Seq(Step) /\ \A i \in 1..Len(<<x>>) : <<x>>[i] # <<"ignore">>
    BY <1>2
  <2> QED BY <2>1, PairedPlain
<1>3. ASSUME NEW q, q = Flush \/ q = <<>> \/ (\E s \in {"start", "stop"} : q = << <<s>> >>),
             NEW e, Begin(q \o e), NEW x \in Step, x # <<"ignore">>, e = <<x>>
      PROVE  Unmuting'
  <2>1. e \in Seq(Step) /\ Paired(e)
    BY <1>2, <1>3
  <2>2. q \in Seq(Step) /\ Paired(q)
    <3>1. \A s \in {"start", "stop"} : << <<s>> >> \in Seq(Step) /\ Paired(<< <<s>> >>)
      BY <1>2, Named
    <3> QED BY <1>1, <1>3, <3>1
  <2>3. q \o e \in Seq(Step) /\ Paired(q \o e)
    BY <2>1, <2>2, PairedConcat
  <2> QED BY <1>3, <2>3, UnmuteBegin
<1>4. CASE CallDraw
  <2>1. <<"draw">> \in Step /\ <<"draw">> # <<"ignore">>
    BY Named
  <2> QED BY <1>2, <1>4, <2>1, UnmuteBegin DEF CallDraw
<1>5. CASE CallFlush
  BY <1>1, <1>5, UnmuteBegin DEF CallFlush
<1>6. CASE CallPoll
  <2> DEFINE s == << <<"lock">>, <<"unlock">> >>
  <2>1. s \in Seq(Step) /\ \A i \in 1..Len(s) : s[i] # <<"ignore">>
    BY Named
  <2>2. Begin(s)
    BY <1>6 DEF CallPoll
  <2> HIDE DEF s
  <2> QED BY <2>1, <2>2, PairedPlain, UnmuteBegin
<1>7. CASE CallPollExposed
  <2> DEFINE s == << <<"lock">>, <<"ignore">>, <<"expose">>, <<"cont">>, <<"unlock">> >>
  <2>1. s \in Seq(Step)
    BY Named
  <2>2. /\ Len(s) = 5 /\ s[4] = <<"cont">>
        /\ s[1] # <<"ignore">> /\ s[3] # <<"ignore">> /\ s[4] # <<"ignore">> /\ s[5] # <<"ignore">>
    OBVIOUS
  <2>3. Begin(s)
    BY <1>7 DEF CallPollExposed
  <2> HIDE DEF s
  <2>4. Paired(s)
    <3>1. ASSUME NEW i \in 1..Len(s), s[i] = <<"ignore">>
          PROVE  \E j \in 1..Len(s) : i < j /\ s[j] = <<"cont">>
      <4>1. i = 2 /\ 4 \in 1..Len(s) /\ 2 < 4
        BY <2>2, <3>1
      <4> QED BY <2>2, <4>1
    <3> QED BY <3>1 DEF Paired
  <2> QED BY <2>1, <2>3, <2>4, UnmuteBegin
<1>8. CASE CallSetFlags
  <2> DEFINE first(new) == IF "ASYNC" \in flags \ new THEN Flush ELSE <<>>
  <2>1. PICK new \in FlagSets : Begin(first(new) \o << <<"setflags", new>> >>)
    BY <1>8 DEF CallSetFlags
  <2>2. <<"setflags", new>> \in Step /\ <<"setflags", new>> # <<"ignore">>
    BY Named
  <2>3. first(new) = Flush \/ first(new) = <<>>
    OBVIOUS
  <2> HIDE DEF first
  <2> QED BY <1>3, <2>1, <2>2, <2>3
<1>9. CASE CallAcquire
  <2> DEFINE first(f) == IF "TIDY" \in flags /\ f = wframe THEN << <<"stop">> >> ELSE <<>>
  <2>1. PICK f \in Frame \ held : Begin(first(f) \o << <<"acquire", f>> >>)
    BY <1>9 DEF CallAcquire
  <2>2. <<"acquire", f>> \in Step /\ <<"acquire", f>> # <<"ignore">>
    BY Named
  <2>3. first(f) = << <<"stop">> >> \/ first(f) = <<>>
    OBVIOUS
  <2> HIDE DEF first
  <2> QED BY <1>3, <2>1, <2>2, <2>3
<1>10. CASE CallRelease
  <2> DEFINE first(f) == CASE f # wframe -> <<>>
                           [] f = wframe /\ "TIDY" \in flags -> << <<"start">> >>
                           [] OTHER -> Flush
  <2>1. PICK f \in held : Begin(first(f) \o << <<"drop", f>> >>)
    BY <1>10 DEF CallRelease
  <2>2. <<"drop", f>> \in Step /\ <<"drop", f>> # <<"ignore">>
    BY Named DEF Orderly, TypeOK
  <2>3. first(f) = << <<"start">> >> \/ first(f) = <<>> \/ first(f) = Flush
    OBVIOUS
  <2> HIDE DEF first
  <2> QED BY <1>3, <2>1, <2>2, <2>3
<1>11. CASE DirectWrite
  BY <1>11 DEF DirectWrite, Unmuting, Mute, Paired, HasCont
<1>12. CASE CallSetWriteFrame
  <2>1. PICK f \in Frame : Begin(<< <<"frame", f>> >>)
    BY <1>12 DEF CallSetWriteFrame
  <2>2. <<"frame", f>> \in Step /\ <<"frame", f>> # <<"ignore">>
    BY Named
  <2> QED BY <1>2, <2>1, <2>2, UnmuteBegin
<1>13. CASE CallSetMode
  <2>1. Begin(SetModeSteps)
    BY <1>13 DEF CallSetMode, SetModeSteps
  <2>2. SetModeSteps \in Seq(Step)
    BY SetModeClears, StepSets, Widens
  <2> QED BY <2>1, <2>2, PairedSetMode, UnmuteBegin
<1>14. CASE CallExit
  <2> DEFINE first == IF "ASYNC" \in flags THEN <<>> ELSE << <<"stop">> >>
  <2>1. Begin(first \o << <<"deinit">> >>)
    BY <1>14 DEF CallExit
  <2>2. <<"deinit">> \in Step /\ <<"deinit">> # <<"ignore">>
    BY Named
  <2>3. first = << <<"stop">> >> \/ first = <<>>
    OBVIOUS
  <2> HIDE DEF first
  <2> QED BY <1>3, <2>1, <2>2, <2>3
<1> QED BY <1>4, <1>5, <1>6, <1>7, <1>8, <1>9, <1>10, <1>11, <1>12, <1>13, <1>14 DEF Call

(***************************************************************************)
(* With the XShm helper, a mansync that runs between two calls is not      *)
(* muted: however flushes nest in unlock_xlib and whatever the mode, every *)
(* ignore has met its cont.  The application is Apart.                     *)
(***************************************************************************)
THEOREM NeverLeftMuted ==
  ASSUME Apart, Shm
  PROVE  Spec => []NotLeftMuted
<1>1. Init => Unmuting
  <2>1. Init => Paired(todo) /\ ~hook.ignore
    BY PairedPlain DEF Init
  <2> QED BY <2>1 DEF Unmuting, Mute
<1>2. Orderly /\ Unmuting /\ [Next]_vars => Unmuting'
  <2> SUFFICES ASSUME Orderly, Unmuting, [Next]_vars PROVE Unmuting'
    OBVIOUS
  <2>1. CASE TaskCheck \/ TaskPost \/ Closed \/ UNCHANGED vars
    BY <2>1 DEF TaskCheck, TaskPost, Closed, vars, Unmuting, Mute, Paired, HasCont
  <2> QED BY <2>1, UnmutingContinue, UnmutingCall DEF Next
<1>3. Orderly /\ Unmuting => NotLeftMuted
  <2> SUFFICES ASSUME Orderly, Unmuting, Ready, hook.running PROVE ~hook.ignore
    BY DEF NotLeftMuted
  <2>1. ~HasCont(todo)
    BY DEF Ready, HasCont
  <2>2. ~hook.isasync
    BY Rests DEF Orderly, Settled, On, Off
  <2> QED BY <2>1, <2>2 DEF Unmuting, Mute
<1> QED BY <1>1, <1>2, <1>3, AlwaysOrderly, PTL DEF Spec
=============================================================================
