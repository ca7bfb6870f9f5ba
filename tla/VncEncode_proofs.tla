-------------------------- MODULE VncEncode_proofs --------------------------
(***************************************************************************)
(* Proofs about VncEncode, for all tiles of integer colours, all formats   *)
(* and every order of tiles: what the encoder takes for known is what the  *)
(* viewer remembers, ZlibHex finds the end of every tile of Hextile, and   *)
(* messages fit into the room that is reserved for them.                   *)
(***************************************************************************)
EXTENDS VncEncode, SequenceTheorems, FiniteSetTheorems, WellFoundedInduction, TLAPS

\* A sequence, of whatever elements.
IsSeq(s) == \E S : s \in Seq(S)

-----------------------------------------------------------------------------
(***************************************************************************)
(* Loops: a recursive function over 0..n.                                  *)
(***************************************************************************)

Below == {p \in Nat \X Nat : p[1] < p[2]}

\* A set of numbers that is not empty has a least one.
LEMMA LeastElement ==
  ASSUME NEW T0, T0 \subseteq Nat, T0 # {}
  PROVE  \E x \in T0 : \A y \in T0 : x <= y
<1>1. IsWellFoundedOn(Below, Nat)
  BY NatLessThanWellFounded DEF OpToRel, Below
<1>2. PICK x \in T0 : \A y \in T0 : ~ (<<y, x>> \in Below)
  BY <1>1, WFMin
<1>3. \A y \in T0 : ~(y < x)
  BY <1>2 DEF Below
<1> QED BY <1>3

\* What holds before a loop and is kept by its steps holds after it.
LEMMA Climb ==
  ASSUME NEW n \in Nat, NEW T0, 0 \in T0, \A i \in 0..n - 1 : i \in T0 => i + 1 \in T0
  PROVE  n \in T0
<1> SUFFICES ASSUME n \notin T0 PROVE FALSE
  OBVIOUS
<1> DEFINE B == {i \in 0..n : i \notin T0}
<1>1. PICK x \in B : \A y \in B : x <= y
  <2>1. B \subseteq Nat /\ B # {}
    OBVIOUS
  <2> HIDE DEF B
  <2> QED BY <2>1, LeastElement
<1>2. x \in 0..n /\ x \notin T0 /\ x # 0
  OBVIOUS
<1>3. x - 1 \in 0..n - 1 /\ x - 1 \in T0
  BY <1>1, <1>2
<1>4. x - 1 + 1 \in T0
  BY <1>3
<1> QED BY <1>2, <1>4

\* g goes through n steps of F from m on.
Goes(g, m, n, F) == g = [i \in 0..n |-> IF i = 0 THEN m ELSE F[<<g[i - 1], i>>]]

\* Steps that stay in S can be made.
LEMMA Repeats ==
  ASSUME NEW n \in Nat, NEW S, NEW m \in S, NEW F,
         \A i \in 1..n, s \in S : F[<<s, i>>] \in S
  PROVE  \E g : Goes(g, m, n, F) /\ \A i \in 0..n : g[i] \in S
<1> DEFINE Good(k, g) == g[0] = m /\ \A i \in 1..k : g[i] = F[<<g[i - 1], i>>]
           T0 == {k \in 0..n : \E g \in [0..k -> S] : Good(k, g)}
<1>1. 0 \in T0
  <2>1. [i \in 0..0 |-> m] \in [0..0 -> S] /\ Good(0, [i \in 0..0 |-> m])
    OBVIOUS
  <2>2. \E g \in [0..0 -> S] : Good(0, g)
    <3> HIDE DEF Good
    <3> QED BY <2>1
  <2> HIDE DEF Good
  <2> QED BY <2>2
<1>2. ASSUME NEW k \in 0..n - 1, k \in T0 PROVE k + 1 \in T0
  <2>1. PICK g \in [0..k -> S] : Good(k, g)
    BY <1>2
  <2> DEFINE h == [i \in 0..k + 1 |-> IF i = k + 1 THEN F[<<g[k], k + 1>>] ELSE g[i]]
  <2>2. F[<<g[k], k + 1>>] \in S
    OBVIOUS
  <2>3. h \in [0..k + 1 -> S]
    BY <2>2
  <2>4. h[0] = m
    BY <2>1
  <2>5. ASSUME NEW i \in 1..k + 1 PROVE h[i] = F[<<h[i - 1], i>>]
    <3>1. CASE i = k + 1
      BY <3>1
    <3>2. CASE i # k + 1
      <4>1. i \in 1..k /\ i \in 0..k + 1 /\ i - 1 \in 0..k + 1 /\ i - 1 # k + 1
        BY <3>2
      <4>2. g[i] = F[<<g[i - 1], i>>]
        BY <2>1, <4>1
      <4> QED BY <3>2, <4>1, <4>2
    <3> QED BY <3>1, <3>2
  <2> HIDE DEF h
  <2>6. Good(k + 1, h)
    BY <2>4, <2>5
  <2> QED BY <2>3, <2>6
<1>3. n \in T0
  <2> HIDE DEF T0
  <2> QED BY <1>1, <1>2, Climb
<1>4. PICK g \in [0..n -> S] : Good(n, g)
  BY <1>3
<1>5. ASSUME NEW i \in 0..n PROVE g[i] = IF i = 0 THEN m ELSE F[<<g[i - 1], i>>]
  BY <1>4
<1>6. g = [i \in 0..n |-> IF i = 0 THEN m ELSE F[<<g[i - 1], i>>]]
  BY <1>4, <1>5
<1> QED BY <1>4, <1>6 DEF Goes

-----------------------------------------------------------------------------
(***************************************************************************)
(* Sequences.                                                              *)
(***************************************************************************)

\* What is known of a sequence of unknown elements.
LEMMA SeqIs ==
  ASSUME NEW s, IsSeq(s)
  PROVE  Len(s) \in Nat /\ DOMAIN s = 1..Len(s)
BY DEF IsSeq

\* A function on 1..n.
On(s, n) == s = [i \in 1..n |-> s[i]]

\* It is a sequence of the length n.
LEMMA FunctionSeq ==
  ASSUME NEW k \in Nat, NEW S, NEW s \in [1..k -> S]
  PROVE  s \in Seq(S) /\ Len(s) = k
OBVIOUS

\* The same of a function whose values are not known; n may be negative.
LEMMA FunctionIsSeq ==
  ASSUME NEW n \in Int, NEW s, On(s, n)
  PROVE  IsSeq(s) /\ Len(s) = IF n < 0 THEN 0 ELSE n
<1> DEFINE k == IF n < 0 THEN 0 ELSE n
           S == {s[i] : i \in 1..n}
<1>1. k \in Nat /\ 1..n = 1..k
  OBVIOUS
<1>2. \A i \in 1..k : s[i] \in S
  BY <1>1
<1>3. s = [i \in 1..k |-> s[i]]
  BY <1>1 DEF On
<1> HIDE DEF k, S
<1>4. s \in [1..k -> S]
  BY <1>2, <1>3
<1>5. s \in Seq(S) /\ Len(s) = k
  BY <1>1, <1>4, FunctionSeq
<1> QED BY <1>5 DEF IsSeq, k

\* A sequence of one element.
LEMMA SingleIsSeq ==
  ASSUME NEW x PROVE IsSeq(<<x>>) /\ Len(<<x>>) = 1 /\ <<x>>[1] = x
<1>1. <<x>> \in Seq({x})
  OBVIOUS
<1> QED BY <1>1 DEF IsSeq

\* The sequence of none.
LEMMA EmptyIsSeq == IsSeq(<<>>) /\ Len(<<>>) = 0
<1>1. <<>> \in Seq({})
  OBVIOUS
<1> QED BY <1>1 DEF IsSeq

\* Two sequences, one after the other.
LEMMA ConcatIsSeq ==
  ASSUME NEW a, NEW b, IsSeq(a), IsSeq(b)
  PROVE  /\ IsSeq(a \o b) /\ Len(a \o b) = Len(a) + Len(b)
         /\ \A i \in 1..Len(a) : (a \o b)[i] = a[i]
         /\ \A i \in 1..Len(b) : (a \o b)[Len(a) + i] = b[i]
<1>1. PICK A : a \in Seq(A)
  BY DEF IsSeq
<1>2. PICK B : b \in Seq(B)
  BY DEF IsSeq
<1> DEFINE S == A \cup B
<1>3. a \in Seq(S) /\ b \in Seq(S)
  <2>1. A \subseteq S /\ B \subseteq S
    OBVIOUS
  <2> HIDE DEF S
  <2> QED BY <1>1, <1>2, <2>1
<1> HIDE DEF S
<1>4. a \o b \in Seq(S)
  BY <1>3
<1> QED BY <1>3, <1>4 DEF IsSeq

\* Sequences of the same length and the same elements are the same.
LEMMA SameSeq ==
  ASSUME NEW a, NEW b, IsSeq(a), IsSeq(b), Len(a) = Len(b),
         \A i \in 1..Len(a) : a[i] = b[i]
  PROVE  a = b
<1>1. PICK A : a \in Seq(A)
  BY DEF IsSeq
<1>2. PICK B : b \in Seq(B)
  BY DEF IsSeq
<1> DEFINE S == A \cup B
<1>3. a \in Seq(S) /\ b \in Seq(S)
  <2>1. A \subseteq S /\ B \subseteq S
    OBVIOUS
  <2> HIDE DEF S
  <2> QED BY <1>1, <1>2, <2>1
<1> HIDE DEF S
<1> QED BY <1>3, SeqEqual

\* The pieces of a concatenation.
LEMMA ConcatPieces ==
  ASSUME NEW a, NEW b, IsSeq(a), IsSeq(b)
  PROVE  SubSeq(a \o b, 1, Len(a)) = a
<1>1. PICK A : a \in Seq(A)
  BY DEF IsSeq
<1>2. PICK B : b \in Seq(B)
  BY DEF IsSeq
<1> DEFINE S == A \cup B
<1>3. a \in Seq(S) /\ b \in Seq(S)
  <2>1. A \subseteq S /\ B \subseteq S
    OBVIOUS
  <2> HIDE DEF S
  <2> QED BY <1>1, <1>2, <2>1
<1> HIDE DEF S
<1> DEFINE c == a \o b
           p == SubSeq(c, 1, Len(a))
<1>4. c \in Seq(S) /\ Len(c) = Len(a) + Len(b) /\ Len(a) \in Nat /\ Len(b) \in Nat
  BY <1>3
<1>5. \A i \in 1..Len(a) : c[i] = a[i]
  BY <1>3
<1> HIDE DEF c
<1>6. p \in Seq(S) /\ Len(p) = Len(a) /\ \A i \in 1..Len(a) : p[i] = c[i]
  BY <1>4
<1> HIDE DEF p
<1>7. p = a
  BY <1>3, <1>5, <1>6, SeqEqual
<1> QED BY <1>7 DEF p, c

\* The function FlattenSeq goes through: the first i sequences of f as one.
Flattens(g, f, n) == g = [i \in 1..n |-> IF i = 1 THEN f[i] ELSE g[i - 1] \o f[i]]

\* What is known of it.
Flattening(g, f, n) ==
  /\ g[1] = f[1]
  /\ \A i \in 1..n - 1 : g[i + 1] = g[i] \o f[i + 1]
  /\ \A i \in 1..n : IsSeq(g[i])
  /\ FlattenSeq(f) = g[n]

\* FlattenSeq puts the sequences together one by one.
LEMMA FlattenIs ==
  ASSUME NEW n \in Nat, NEW f, On(f, n), \A i \in 1..n : IsSeq(f[i])
  PROVE  /\ n = 0 => FlattenSeq(f) = <<>>
         /\ n # 0 => \E g : Flattening(g, f, n)
<1>1. IsSeq(f) /\ Len(f) = n
  BY FunctionIsSeq
<1>2. CASE n = 0
  <2>1. f = <<>>
    BY <1>1, <1>2, EmptyIsSeq, SameSeq
  <2> QED BY <1>1, <1>2, <2>1 DEF FlattenSeq
<1>3. CASE n # 0
  <2> DEFINE a == CHOOSE g : Flattens(g, f, n)
  <2>1. FlattenSeq(f) = a[n]
    BY <1>1, <1>3 DEF FlattenSeq, Flattens
  <2>2. \E g : Flattens(g, f, n)
    <3> DEFINE U == UNION {{f[i][j] : j \in DOMAIN f[i]} : i \in 1..n}
    <3>1. ASSUME NEW i \in 1..n PROVE f[i] \in Seq(U)
      <4>1. PICK B : f[i] \in Seq(B)
        BY DEF IsSeq
      <4>2. \A j \in 1..Len(f[i]) : f[i][j] \in U
        BY <4>1
      <4> HIDE DEF U
      <4>3. f[i] \in [1..Len(f[i]) -> U] /\ Len(f[i]) \in Nat
        BY <4>1, <4>2
      <4> QED BY <4>3
    <3> HIDE DEF U
    <3> DEFINE S == Seq(U)
               k == n - 1
               F == [z \in S \X (1..k) |-> z[1] \o f[z[2] + 1]]
    <3>2. k \in Nat
      BY <1>3
    <3>3. \A i \in 1..k, s \in S : F[<<s, i>>] = s \o f[i + 1]
      OBVIOUS
    <3>4. \A i \in 1..k, s \in S : F[<<s, i>>] \in S
      <4> SUFFICES ASSUME NEW i \in 1..k, NEW s \in S PROVE F[<<s, i>>] \in S
        OBVIOUS
      <4>1. f[i + 1] \in Seq(U)
        BY <3>1
      <4>2. s \o f[i + 1] \in Seq(U)
        BY <4>1
      <4> QED BY <3>3, <4>2
    <3>5. f[1] \in S
      BY <1>3, <3>1
    <3> HIDE DEF S, F
    <3>6. PICK h : Goes(h, f[1], k, F) /\ \A i \in 0..k : h[i] \in S
      BY <3>2, <3>4, <3>5, Repeats
    <3> DEFINE g == [i \in 1..n |-> h[i - 1]]
    <3>7. ASSUME NEW i \in 1..n
          PROVE  g[i] = IF i = 1 THEN f[i] ELSE g[i - 1] \o f[i]
      <4>1. i - 1 \in 0..k /\ g[i] = h[i - 1]
        OBVIOUS
      <4>2. CASE i = 1
        BY <3>6, <4>1, <4>2 DEF Goes
      <4>3. CASE i # 1
        <5>1. i - 1 \in 1..k /\ i - 1 \in 1..n /\ i - 2 \in 0..k /\ i - 1 + 1 = i
              /\ i - 1 - 1 = i - 2
          BY <4>3
        <5>2. h[i - 1] = F[<<h[i - 2], i - 1>>]
          BY <3>6, <4>1, <4>3, <5>1 DEF Goes
        <5>3. h[i - 1] = h[i - 2] \o f[i]
          BY <3>3, <3>6, <5>1, <5>2
        <5>4. g[i - 1] = h[i - 2]
          BY <5>1
        <5> QED BY <4>1, <4>3, <5>3, <5>4
      <4> QED BY <4>2, <4>3
    <3>8. g = [i \in 1..n |-> IF i = 1 THEN f[i] ELSE g[i - 1] \o f[i]]
      BY <3>7
    <3> QED BY <3>8 DEF Flattens
  <2>3. Flattens(a, f, n)
    BY <2>2
  <2> HIDE DEF a
  <2>4. \A i \in 1..n : a[i] = IF i = 1 THEN f[i] ELSE a[i - 1] \o f[i]
    BY <2>3 DEF Flattens
  <2>5. a[1] = f[1]
    BY <1>3, <2>4
  <2>6. ASSUME NEW i \in 1..n - 1 PROVE a[i + 1] = a[i] \o f[i + 1]
    <3>1. PICK j \in 1..n : j = i + 1
      OBVIOUS
    <3>2. a[j] = IF j = 1 THEN f[j] ELSE a[j - 1] \o f[j]
      BY <2>4
    <3>3. j # 1 /\ j - 1 = i
      BY <3>1
    <3> QED BY <3>1, <3>2, <3>3
  <2>7. ASSUME NEW j \in 1..n PROVE IsSeq(a[j])
    <3> DEFINE T0 == {i \in 0..n - 1 : IsSeq(a[i + 1])}
    <3>1. 0 \in T0
      BY <1>3, <2>5
    <3>2. ASSUME NEW i \in 0..n - 2, i \in T0 PROVE i + 1 \in T0
      <4>1. i + 1 \in 1..n - 1 /\ i + 1 + 1 \in 1..n /\ i + 1 \in 0..n - 1
        OBVIOUS
      <4>2. IsSeq(a[i + 1]) /\ IsSeq(f[i + 1 + 1])
        BY <3>2, <4>1
      <4>3. a[i + 1 + 1] = a[i + 1] \o f[i + 1 + 1]
        BY <2>6, <4>1
      <4>4. IsSeq(a[i + 1 + 1])
        BY <4>2, <4>3, ConcatIsSeq
      <4> QED BY <4>1, <4>4
    <3>3. j - 1 \in Nat /\ 0..j - 1 - 1 \subseteq 0..n - 2
      OBVIOUS
    <3>4. j - 1 \in T0
      <4> HIDE DEF T0
      <4> QED BY <3>1, <3>2, <3>3, Climb
    <3> QED BY <3>4
  <2>8. Flattening(a, f, n)
    BY <2>1, <2>5, <2>6, <2>7 DEF Flattening
  <2> QED BY <1>3, <2>8
<1> QED BY <1>2, <1>3

\* Sequences put together are a sequence.
LEMMA FlattenIsSeq ==
  ASSUME NEW n \in Nat, NEW f, On(f, n), \A i \in 1..n : IsSeq(f[i])
  PROVE  IsSeq(FlattenSeq(f))
<1>1. CASE n = 0
  BY <1>1, FlattenIs, EmptyIsSeq
<1>2. CASE n # 0
  <2>1. PICK g : Flattening(g, f, n)
    BY <1>2, FlattenIs
  <2>2. n \in 1..n
    BY <1>2
  <2> QED BY <2>1, <2>2 DEF Flattening
<1> QED BY <1>1, <1>2

-----------------------------------------------------------------------------
(***************************************************************************)
(* TRLE: the scan of a tile.                                               *)
(***************************************************************************)

\* The palette of a tile is made pixel by pixel: a[i] is that of the first i.
PaletteSteps(a, px) ==
  /\ a[0] = <<>>
  /\ \A i \in 1..Len(px) : a[i] = T!Seen(a[i - 1], px[i])
  /\ \A i \in 0..Len(px) : a[i] \in Seq(Int)
  /\ T!PaletteOf(px) = a[Len(px)]

\* The colours of a palette are colours.
LEMMA PaletteMade ==
  ASSUME NEW px \in Seq(Int)
  PROVE  \E a : PaletteSteps(a, px)
<1> DEFINE n == Len(px)
           S == Seq(Int)
           Loop(g) == g = [i \in 0..n |-> IF i = 0 THEN <<>> ELSE T!Seen(g[i - 1], px[i])]
           a == CHOOSE g : Loop(g)
<1>1. T!PaletteOf(px) = a[n]
  BY DEF T!PaletteOf
<1>2. n \in Nat /\ <<>> \in S
  OBVIOUS
<1>3. ASSUME NEW i \in 1..n, NEW s \in S PROVE T!Seen(s, px[i]) \in S
  <2>1. px[i] \in Int
    OBVIOUS
  <2>2. Append(s, px[i]) \in S
    BY <2>1
  <2> QED BY <2>2 DEF T!Seen
<1> HIDE DEF n, S
<1>4. \E g : Loop(g) /\ \A i \in 0..n : g[i] \in S
  <2> DEFINE F == [z \in S \X (1..n) |-> T!Seen(z[1], px[z[2]])]
  <2>1. \A i \in 1..n, s \in S : F[<<s, i>>] = T!Seen(s, px[i])
    OBVIOUS
  <2>2. \A i \in 1..n, s \in S : F[<<s, i>>] \in S
    BY <1>3, <2>1
  <2> HIDE DEF F
  <2>3. PICK g : Goes(g, <<>>, n, F) /\ \A i \in 0..n : g[i] \in S
    BY <1>2, <2>2, Repeats
  <2>4. ASSUME NEW i \in 0..n, i # 0 PROVE F[<<g[i - 1], i>>] = T!Seen(g[i - 1], px[i])
    <3>1. i \in 1..n /\ g[i - 1] \in S
      BY <1>2, <2>3, <2>4
    <3> QED BY <2>1, <3>1
  <2>5. Loop(g)
    BY <2>3, <2>4 DEF Goes
  <2> QED BY <2>3, <2>5
<1>5. Loop(a)
  <2> HIDE DEF Loop
  <2> QED BY <1>4
<1> HIDE DEF a
<1>6. a[0] = <<>> /\ \A i \in 1..n : a[i] = T!Seen(a[i - 1], px[i])
  BY <1>2, <1>5
<1> HIDE DEF Loop
<1>7. ASSUME NEW k \in 0..n PROVE a[k] \in S
  <2> DEFINE T0 == {i \in 0..k : a[i] \in S}
  <2>1. 0 \in T0
    BY <1>2, <1>6
  <2>2. ASSUME NEW i \in 0..k - 1, i \in T0 PROVE i + 1 \in T0
    <3>1. PICK j \in 1..n : j = i + 1
      BY <1>2
    <3>2. a[j] = T!Seen(a[j - 1], px[j]) /\ j - 1 = i
      BY <1>6, <3>1
    <3> QED BY <1>2, <1>3, <2>2, <3>1, <3>2
  <2>3. k \in Nat
    BY <1>2
  <2>4. k \in T0
    <3> HIDE DEF T0
    <3> QED BY <2>1, <2>2, <2>3, Climb
  <2> QED BY <2>4
<1>8. PaletteSteps(a, px)
  BY <1>1, <1>6, <1>7 DEF PaletteSteps, n, S
<1> QED BY <1>8

\* So its palette is a sequence of colours.
LEMMA PaletteType ==
  ASSUME NEW px \in Seq(Int)
  PROVE  T!PaletteOf(px) \in Seq(Int)
<1>1. PICK a : PaletteSteps(a, px)
  BY PaletteMade
<1>2. Len(px) \in 0..Len(px)
  OBVIOUS
<1> QED BY <1>1, <1>2 DEF PaletteSteps

\* What Grown makes runs of.
Run == [colour : Int, length : Nat \ {0}]

\* A run that is made longer is a run.
LEMMA LongerRun ==
  ASSUME NEW x \in Run
  PROVE  [x EXCEPT !.length = @ + 1] \in Run
<1>1. x.length + 1 \in Nat \ {0}
  BY DEF Run
<1>2. PICK n \in Nat \ {0} : n = x.length + 1
  BY <1>1
<1>3. [x EXCEPT !.length = n] \in Run
  BY DEF Run
<1> QED BY <1>2, <1>3

\* A run has a colour and a length.
LEMMA GrownType ==
  ASSUME NEW runs \in Seq(Run), NEW c \in Int
  PROVE  T!Grown(runs, c) \in Seq(Run)
<1>1. CASE runs # <<>> /\ T!Last(runs).colour = c
  <2> DEFINE k == Len(runs)
             r == [runs[k] EXCEPT !.length = @ + 1]
  <2>1. k \in 1..Len(runs) /\ runs[k] \in Run
    BY <1>1
  <2>2. r \in Run
    BY <2>1, LongerRun
  <2>3. T!Grown(runs, c) = [runs EXCEPT ![k] = r]
    BY <1>1, <2>1 DEF T!Grown
  <2> HIDE DEF r
  <2>4. [runs EXCEPT ![k] = r] \in Seq(Run)
    BY <2>1, <2>2, ExceptSeq
  <2> QED BY <2>3, <2>4
<1>2. CASE ~(runs # <<>> /\ T!Last(runs).colour = c)
  <2>1. [colour |-> c, length |-> 1] \in Run
    BY DEF Run
  <2>2. T!Grown(runs, c) = Append(runs, [colour |-> c, length |-> 1])
    BY <1>2 DEF T!Grown
  <2> QED BY <2>1, <2>2
<1> QED BY <1>1, <1>2

\* The runs of a tile are made pixel by pixel: a[i] are those of the first i.
Making(a, px) ==
  /\ a[0] = <<>>
  /\ \A i \in 1..Len(px) : a[i] = T!Grown(a[i - 1], px[i])
  /\ \A i \in 0..Len(px) : a[i] \in Seq(Run)
  /\ T!Runs(px) = a[Len(px)]

\* The runs have a colour and a length each.
LEMMA RunsMade ==
  ASSUME NEW px \in Seq(Int)
  PROVE  \E a : Making(a, px)
<1> DEFINE n == Len(px)
           S == Seq(Run)
           Loop(g) == g = [i \in 0..n |-> IF i = 0 THEN <<>> ELSE T!Grown(g[i - 1], px[i])]
           a == CHOOSE g : Loop(g)
<1>1. T!Runs(px) = a[n]
  BY DEF T!Runs
<1>2. n \in Nat /\ <<>> \in S
  OBVIOUS
<1>3. ASSUME NEW i \in 1..n, NEW s \in S PROVE T!Grown(s, px[i]) \in S
  <2>1. px[i] \in Int
    OBVIOUS
  <2> QED BY <2>1, GrownType
<1> HIDE DEF n, S
<1>4. \E g : Loop(g) /\ \A i \in 0..n : g[i] \in S
  <2> DEFINE F == [z \in S \X (1..n) |-> T!Grown(z[1], px[z[2]])]
  <2>1. \A i \in 1..n, s \in S : F[<<s, i>>] = T!Grown(s, px[i])
    OBVIOUS
  <2>2. \A i \in 1..n, s \in S : F[<<s, i>>] \in S
    BY <1>3, <2>1
  <2> HIDE DEF F
  <2>3. PICK g : Goes(g, <<>>, n, F) /\ \A i \in 0..n : g[i] \in S
    BY <1>2, <2>2, Repeats
  <2>4. ASSUME NEW i \in 0..n, i # 0 PROVE F[<<g[i - 1], i>>] = T!Grown(g[i - 1], px[i])
    <3>1. i \in 1..n /\ g[i - 1] \in S
      BY <1>2, <2>3, <2>4
    <3> QED BY <2>1, <3>1
  <2>5. Loop(g)
    BY <2>3, <2>4 DEF Goes
  <2> QED BY <2>3, <2>5
<1>5. Loop(a)
  <2> HIDE DEF Loop
  <2> QED BY <1>4
<1> HIDE DEF a
<1>6. a[0] = <<>> /\ \A i \in 1..n : a[i] = T!Grown(a[i - 1], px[i])
  BY <1>2, <1>5
<1> HIDE DEF Loop
<1>7. ASSUME NEW k \in 0..n PROVE a[k] \in S
  <2> DEFINE T0 == {i \in 0..k : a[i] \in S}
  <2>1. 0 \in T0
    BY <1>2, <1>6
  <2>2. ASSUME NEW i \in 0..k - 1, i \in T0 PROVE i + 1 \in T0
    <3>1. PICK j \in 1..n : j = i + 1
      BY <1>2
    <3>2. a[j] = T!Grown(a[j - 1], px[j]) /\ j - 1 = i
      BY <1>6, <3>1
    <3> QED BY <1>2, <1>3, <2>2, <3>1, <3>2
  <2>3. k \in Nat
    BY <1>2
  <2>4. k \in T0
    <3> HIDE DEF T0
    <3> QED BY <2>1, <2>2, <2>3, Climb
  <2> QED BY <2>4
<1>8. Making(a, px)
  BY <1>1, <1>6, <1>7 DEF Making, n, S
<1> QED BY <1>8

\* So the runs of a tile are runs.
LEMMA RunsType ==
  ASSUME NEW px \in Seq(Int)
  PROVE  T!Runs(px) \in Seq(Run)
<1>1. PICK a : Making(a, px)
  BY RunsMade
<1>2. Len(px) \in 0..Len(px)
  OBVIOUS
<1> QED BY <1>1, <1>2 DEF Making

\* The runs of one pixel and the others.
LEMMA RunCounts ==
  ASSUME NEW runs \in Seq(Run)
  PROVE  T!Single(runs) \in Nat /\ T!Multi(runs) \in Nat
<1> DEFINE A == 1..Len(runs)
           B == {i \in DOMAIN runs : runs[i].length = 1}
<1>1. Len(runs) \in Nat /\ DOMAIN runs = A
  OBVIOUS
<1>2. IsFiniteSet(A) /\ Cardinality(A) = Len(runs)
  BY <1>1, FS_Interval
<1>3. B \subseteq A
  BY <1>1
<1> HIDE DEF A, B
<1>4. IsFiniteSet(B) /\ Cardinality(B) <= Cardinality(A)
  BY <1>2, <1>3, FS_Subset
<1>5. Cardinality(B) \in Nat
  BY <1>4, FS_CardinalityType
<1>6. T!Single(runs) = Cardinality(B)
  BY DEF T!Single, B, T!Cardinality, Cardinality, T!IsFiniteSet, IsFiniteSet
<1> QED BY <1>1, <1>2, <1>4, <1>5, <1>6 DEF T!Multi

-----------------------------------------------------------------------------
(***************************************************************************)
(* TRLE: the choice of a subencoding.                                      *)
(***************************************************************************)

\* A choice among n that all have a size and of which the first is possible.
IsChoice(c) == c.bytes \in Nat /\ c.possible \in BOOLEAN

\* One that is possible and not longer than the first is taken.
LEMMA BestIs ==
  ASSUME NEW n \in Nat \ {0}, NEW choices, DOMAIN choices = 1..n,
         \A i \in 1..n : IsChoice(choices[i]),
         choices[1].possible
  PROVE  \E i \in 1..n : /\ choices[i].possible /\ T!Best(choices) = choices[i].sub
                        /\ choices[i].bytes <= choices[1].bytes
<1> DEFINE Ok == {i \in 1..n : choices[i].possible}
           Sizes == {choices[i].bytes : i \in Ok}
           Good(i) == /\ choices[i].possible
                      /\ \A j \in DOMAIN choices : choices[j].possible =>
                           \/ choices[i].bytes < choices[j].bytes
                           \/ choices[i].bytes = choices[j].bytes /\ i <= j
<1>1. 1 \in Ok /\ choices[1].bytes \in Sizes
  OBVIOUS
<1>2. Sizes \subseteq Nat
  BY DEF IsChoice
<1>3. PICK b \in Sizes : \A c \in Sizes : b <= c
  <2> HIDE DEF Sizes
  <2> QED BY <1>1, <1>2, LeastElement
<1> DEFINE Least == {i \in Ok : choices[i].bytes = b}
<1>4. Least \subseteq Nat /\ Least # {}
  BY <1>3
<1>5. PICK i \in Least : \A j \in Least : i <= j
  <2> HIDE DEF Least
  <2> QED BY <1>4, LeastElement
<1>6. i \in 1..n /\ choices[i].possible /\ choices[i].bytes = b
  BY <1>5
<1>7. ASSUME NEW j \in 1..n, choices[j].possible
      PROVE  choices[i].bytes < choices[j].bytes
             \/ (choices[i].bytes = choices[j].bytes /\ i <= j)
  <2>1. j \in Ok /\ choices[j].bytes \in Sizes
    BY <1>7
  <2>2. b <= choices[j].bytes /\ b \in Nat /\ choices[j].bytes \in Nat
    BY <1>2, <1>3, <2>1
  <2>3. choices[j].bytes = b => i <= j
    BY <1>5, <2>1
  <2> QED BY <1>6, <2>2, <2>3
<1>8. Good(i)
  BY <1>6, <1>7
<1> DEFINE k == CHOOSE x \in DOMAIN choices : Good(x)
<1>9. k \in 1..n /\ Good(k)
  <2> HIDE DEF Good
  <2> QED BY <1>6, <1>8
<1>10. T!Best(choices) = choices[k].sub
  BY DEF T!Best
<1>11. choices[k].bytes <= choices[1].bytes
  <2>1. 1 \in 1..n /\ choices[1].bytes \in Nat /\ choices[k].bytes \in Nat
    BY <1>9 DEF IsChoice
  <2>2. choices[k].bytes < choices[1].bytes \/ choices[k].bytes = choices[1].bytes
    BY <1>9, <2>1
  <2> HIDE DEF k
  <2> QED BY <2>1, <2>2
<1> QED BY <1>9, <1>10, <1>11

\* The bytes that indices of the colours of a tile are packed into.
LEMMA PackedSizeType ==
  ASSUME NEW t, t.w \in Nat, t.h \in Nat, NEW colors \in Nat
  PROVE  T!PackedSize(t, colors) \in Nat
<1>1. T!PackedBits(colors) \in {1, 2, 4}
  BY DEF T!PackedBits
<1>2. T!PerByte(colors) \in {8, 4, 2}
  BY <1>1 DEF T!PerByte
<1>3. PICK p \in {8, 4, 2} : p = T!PerByte(colors)
  BY <1>2
<1>4. (t.w + p - 1) \div p \in Nat
  <2>1. t.w + p - 1 \in Nat
    BY <1>3
  <2>2. CASE p = 8
    BY <2>1, <2>2
  <2>3. CASE p = 4
    BY <2>1, <2>3
  <2>4. CASE p = 2
    BY <2>1, <2>4
  <2> QED BY <1>3, <2>2, <2>3, <2>4
<1>5. PICK r \in Nat : r = (t.w + p - 1) \div p
  BY <1>4
<1>6. T!PackedSize(t, colors) = r * t.h
  BY <1>3, <1>5 DEF T!PackedSize
<1>7. r * t.h \in Nat
  BY <1>5
<1> QED BY <1>6, <1>7

\* Estimates are numbers.
LEMMA ChoiceTypes ==
  ASSUME NEW t, t.w \in Nat, t.h \in Nat, NEW cbpp \in Nat, NEW sub, NEW colors \in Nat,
         NEW header \in Nat, NEW single \in Nat, NEW multi \in Nat
  PROVE  /\ IsChoice(T!AsRaw(t, cbpp)) /\ T!AsRaw(t, cbpp).possible
         /\ IsChoice(T!AsRuns(cbpp, single, multi))
         /\ IsChoice(T!AsPaletteRuns(sub, colors, header, single, multi))
         /\ IsChoice(T!AsPacked(t, sub, colors, header))
<1>1. T!Area(t) \in Nat
  BY DEF T!Area
<1>2. (9 * multi) \div 4 \in Nat
  OBVIOUS
<1>3. \A x \in Nat, y \in Nat : x * y \in Nat
  OBVIOUS
<1>4. IsChoice(T!AsRaw(t, cbpp)) /\ T!AsRaw(t, cbpp).possible
  <2>1. T!Area(t) * cbpp \in Nat
    BY <1>1, <1>3
  <2> QED BY <2>1 DEF IsChoice, T!AsRaw, T!Choice
<1>5. IsChoice(T!AsRuns(cbpp, single, multi))
  <2>1. (1 + cbpp) * single \in Nat /\ cbpp * multi \in Nat
    BY <1>3
  <2>2. (1 + cbpp) * single + cbpp * multi + (9 * multi) \div 4 \in Nat
    BY <1>2, <2>1
  <2> QED BY <2>2 DEF IsChoice, T!AsRuns, T!Choice
<1>6. IsChoice(T!AsPaletteRuns(sub, colors, header, single, multi))
  <2>1. header + single + (9 * multi) \div 4 \in Nat
    BY <1>2
  <2> QED BY <2>1 DEF IsChoice, T!AsPaletteRuns, T!Choice
<1>7. IsChoice(T!AsPacked(t, sub, colors, header))
  <2>1. header + T!PackedSize(t, colors) \in Nat
    BY PackedSizeType
  <2> QED BY <2>1 DEF IsChoice, T!AsPacked, T!Choice
<1> QED BY <1>4, <1>5, <1>6, <1>7

(* A subencoding is only chosen for a palette that it can number: old and  *)
(* colors are the sizes of the remembered palette and of the tile's.       *)
Numbered(sub, old, colors) ==
  \/ sub \in {T!Raw, T!Solid, T!Rle}
  \/ sub \in T!Remembering /\ old > 0
  \/ sub = T!PrleBase + colors /\ colors \in 2..MaxPalette
  \/ sub = colors /\ colors \in 2..16

\* The subencoding that is chosen says how many colours its palette has.
LEMMA SelectIs ==
  ASSUME NEW t, t.w \in Nat, t.h \in Nat, NEW cbpp \in Nat, NEW old \in Nat,
         NEW colors \in Nat, NEW single \in Nat, NEW multi \in Nat
  PROVE  Numbered(T!SelectSubencoding(t, cbpp, old, colors, single, multi), old, colors)
<1> DEFINE c1 == T!AsRaw(t, cbpp)
           c2 == T!AsPaletteRuns(T!PrleMem, old, 0, single, multi)
           c3 == T!AsPaletteRuns(T!PrleBase + colors, colors, cbpp * colors, single, multi)
           c4 == T!AsRuns(cbpp, single, multi)
           c5 == T!AsPacked(t, T!PackedMem, old, 0)
           c6 == T!AsPacked(t, colors, colors, cbpp * colors)
           c == <<c1, c2, c3, c4, c5, c6>>
           sub == T!SelectSubencoding(t, cbpp, old, colors, single, multi)
<1>1. CASE colors = 1
  BY <1>1 DEF T!SelectSubencoding, Numbered
<1>2. CASE colors # 1
  <2>1. sub = T!Best(c)
    BY <1>2 DEF T!SelectSubencoding
  <2>2. cbpp * colors \in Nat /\ 0 \in Nat
    OBVIOUS
  <2>3. IsChoice(c1) /\ c1.possible /\ IsChoice(c4)
    BY <2>2, ChoiceTypes
  <2>4. IsChoice(c2) /\ IsChoice(c5)
    BY <2>2, ChoiceTypes
  <2>5. IsChoice(c3) /\ IsChoice(c6)
    BY <2>2, ChoiceTypes
  <2>6. /\ c1.sub = T!Raw /\ c4.sub = T!Rle
        /\ c2.sub = T!PrleMem /\ (c2.possible => old > 0)
        /\ c5.sub = T!PackedMem /\ (c5.possible => old > 0)
        /\ c3.sub = T!PrleBase + colors /\ (c3.possible => colors \in 2..MaxPalette)
        /\ c6.sub = colors /\ (c6.possible => colors \in 2..16)
    <3>1. c1.sub = T!Raw /\ c4.sub = T!Rle
      BY DEF T!AsRaw, T!AsRuns, T!Choice
    <3>2. /\ c2.sub = T!PrleMem /\ c2.possible = (old \in 2..MaxPalette)
          /\ c3.sub = T!PrleBase + colors /\ c3.possible = (colors \in 2..MaxPalette)
      BY DEF T!AsPaletteRuns, T!Choice
    <3>3. /\ c5.sub = T!PackedMem /\ c5.possible = (old \in 2..16)
          /\ c6.sub = colors /\ c6.possible = (colors \in 2..16)
      BY DEF T!AsPacked, T!Choice
    <3>4. (old \in 2..MaxPalette => old > 0) /\ (old \in 2..16 => old > 0)
      BY PaletteAssumption
    <3> HIDE DEF c1, c2, c3, c4, c5, c6
    <3> QED BY <3>1, <3>2, <3>3, <3>4
  <2> HIDE DEF c1, c2, c3, c4, c5, c6
  <2>7. /\ DOMAIN c = 1..6 /\ c[1] = c1 /\ c[2] = c2 /\ c[3] = c3
        /\ c[4] = c4 /\ c[5] = c5 /\ c[6] = c6
    OBVIOUS
  <2> HIDE DEF c
  <2>8. \A i \in 1..6 : i = 1 \/ i = 2 \/ i = 3 \/ i = 4 \/ i = 5 \/ i = 6
    OBVIOUS
  <2>9. \A i \in 1..6 : IsChoice(c[i])
    BY <2>3, <2>4, <2>5, <2>7, <2>8
  <2>10. PICK i \in 1..6 : c[i].possible /\ T!Best(c) = c[i].sub
    <3>1. 6 \in Nat \ {0} /\ c[1].possible
      BY <2>3, <2>7
    <3> QED BY <2>7, <2>9, <3>1, BestIs
  <2> HIDE DEF sub
  <2>11. Numbered(sub, old, colors)
    BY <2>1, <2>6, <2>7, <2>8, <2>10 DEF Numbered, T!Remembering
  <2> QED BY <2>11 DEF sub
<1> QED BY <1>1, <1>2

-----------------------------------------------------------------------------
(***************************************************************************)
(* TRLE: the message and the palettes.                                     *)
(***************************************************************************)

\* A piece of a sequence.
LEMMA PieceIs ==
  ASSUME NEW s, IsSeq(s), NEW i \in Nat \ {0}, NEW k \in Nat, NEW e \in Nat,
         e = i + k - 1, e <= Len(s)
  PROVE  /\ IsSeq(SubSeq(s, i, e)) /\ Len(SubSeq(s, i, e)) = k
         /\ \A j \in 1..k : SubSeq(s, i, e)[j] = s[i + j - 1]
<1>1. PICK S : s \in Seq(S)
  BY DEF IsSeq
<1> DEFINE p == SubSeq(s, i, e)
<1>2. p \in Seq(S) /\ Len(p) = k /\ \A j \in 1..k : p[j] = s[i + j - 1]
  BY <1>1
<1> QED BY <1>2 DEF IsSeq

\* The pixels of a message hold the colours, in their order.
LEMMA PixelsAre ==
  ASSUME NEW b, NEW colours \in Seq(Int)
  PROVE  /\ IsSeq(T!Pixels(b, colours)) /\ Len(T!Pixels(b, colours)) = Len(colours)
         /\ \A i \in 1..Len(colours) : T!Pixels(b, colours)[i].value = colours[i]
<1> DEFINE p == T!Pixels(b, colours)
           n == Len(colours)
<1>1. n \in Nat /\ DOMAIN colours = 1..n
  OBVIOUS
<1>2. p = [i \in 1..n |-> T!Pixel(b, colours[i])]
  BY <1>1 DEF T!Pixels
<1>3. On(p, n)
  BY <1>2 DEF On
<1>4. \A i \in 1..n : p[i].value = colours[i]
  BY <1>2 DEF T!Pixel
<1> HIDE DEF p
<1>5. IsSeq(p) /\ Len(p) = n
  BY <1>1, <1>3, FunctionIsSeq
<1> QED BY <1>4, <1>5 DEF p

\* The length of a run is a sequence of bytes.
LEMMA RunLengthIsSeq ==
  ASSUME NEW n \in Nat \ {0}
  PROVE  IsSeq(T!RunLength(n))
<1> DEFINE k == (n - 1) \div MaxByte
           a == [i \in 1..k |-> T!Byte(MaxByte)]
           b == T!Byte((n - 1) % MaxByte)
<1>1. k \in Int
  BY ByteAssumption
<1> HIDE DEF k
<1>2. On(a, k)
  BY DEF On
<1>3. T!RunLength(n) = a \o <<b>>
  BY DEF T!RunLength, k
<1> HIDE DEF a, b
<1>4. IsSeq(a)
  BY <1>1, <1>2, FunctionIsSeq
<1> QED BY <1>3, <1>4, SingleIsSeq, ConcatIsSeq

\* Runs are written as a sequence, with colours or with indices.
LEMMA RunsAreSeqs ==
  ASSUME NEW runs \in Seq(Run), NEW cbpp, NEW palette
  PROVE  IsSeq(T!PlainRuns(runs, cbpp)) /\ IsSeq(T!PaletteRuns(runs, palette))
<1> DEFINE n == Len(runs)
           plain(i) == <<T!Pixel(cbpp, runs[i].colour)>> \o T!RunLength(runs[i].length)
           index(i) == T!IndexRun(T!Index(palette, runs[i].colour), runs[i].length)
           f == [i \in 1..n |-> plain(i)]
           g == [i \in 1..n |-> index(i)]
<1>1. n \in Nat /\ DOMAIN runs = 1..n
  OBVIOUS
<1>2. ASSUME NEW i \in 1..n PROVE IsSeq(plain(i)) /\ IsSeq(index(i))
  <2>0. runs[i] \in Run
    BY ElementOfSeq
  <2>1. runs[i].length \in Nat \ {0}
    BY <2>0 DEF Run
  <2>2. IsSeq(T!RunLength(runs[i].length))
    BY <2>1, RunLengthIsSeq
  <2>3. IsSeq(plain(i))
    BY <2>2, SingleIsSeq, ConcatIsSeq
  <2>4. IsSeq(index(i))
    BY <2>2, SingleIsSeq, ConcatIsSeq DEF T!IndexRun
  <2> QED BY <2>3, <2>4
<1>3. T!PlainRuns(runs, cbpp) = FlattenSeq(f)
  BY <1>1 DEF T!PlainRuns, T!FlattenSeq, FlattenSeq
<1>4. T!PaletteRuns(runs, palette) = FlattenSeq(g)
  BY <1>1 DEF T!PaletteRuns, T!FlattenSeq, FlattenSeq
<1> HIDE DEF n, plain, index
<1>5. On(f, n) /\ On(g, n)
  BY DEF On
<1>6. \A i \in 1..n : IsSeq(f[i]) /\ IsSeq(g[i])
  BY <1>2
<1> HIDE DEF f, g
<1>7. IsSeq(FlattenSeq(f)) /\ IsSeq(FlattenSeq(g))
  BY <1>1, <1>5, <1>6, FlattenIsSeq
<1> QED BY <1>3, <1>4, <1>7

\* Packed indices are a sequence of bytes.
LEMMA PackedIsSeq ==
  ASSUME NEW t \in Tiles, NEW palette \in Seq(Int)
  PROVE  IsSeq(T!PackedPalette(t, palette))
<1> DEFINE per == T!PerByte(Len(palette))
           row == (t.w + per - 1) \div per
           n == row * t.h
           p == T!PackedPalette(t, palette)
<1>1. per \in {8, 4, 2}
  BY DEF T!PerByte, T!PackedBits
<1>2. t.w \in Nat /\ t.h \in Nat
  BY TileAssumption
<1>3. row \in Int
  <2> HIDE DEF per
  <2>1. t.w + per - 1 \in Int
    BY <1>1, <1>2
  <2>2. CASE per = 8
    BY <2>1, <2>2
  <2>3. CASE per = 4
    BY <2>1, <2>3
  <2>4. CASE per = 2
    BY <2>1, <2>4
  <2> QED BY <1>1, <2>2, <2>3, <2>4
<1>4. n \in Int
  <2> HIDE DEF row
  <2> QED BY <1>2, <1>3
<1>5. On(p, n)
  BY DEF On, T!PackedPalette
<1> HIDE DEF p, n
<1>6. IsSeq(p)
  BY <1>4, <1>5, FunctionIsSeq
<1> QED BY <1>6 DEF p

\* A field in front of a sequence.
LEMMA HeadIs ==
  ASSUME NEW x, NEW w, IsSeq(w)
  PROVE  /\ IsSeq(<<x>> \o w) /\ Len(<<x>> \o w) = 1 + Len(w) /\ (<<x>> \o w)[1] = x
         /\ \A i \in 1..Len(w) : (<<x>> \o w)[1 + i] = w[i]
<1>1. PICK W : w \in Seq(W)
  BY DEF IsSeq
<1> DEFINE S == W \cup {x}
<1>2. w \in Seq(S) /\ <<x>> \in Seq(S) /\ Len(<<x>>) = 1 /\ <<x>>[1] = x
  BY <1>1
<1> HIDE DEF S
<1>3. <<x>> \o w \in Seq(S) /\ Len(<<x>> \o w) = 1 + Len(w)
  BY <1>2
<1>4. (<<x>> \o w)[1] = x
  BY <1>2
<1>5. ASSUME NEW i \in 1..Len(w) PROVE (<<x>> \o w)[1 + i] = w[i]
  BY <1>2
<1> QED BY <1>3, <1>4, <1>5 DEF IsSeq

\* After the subencoding come the pixels, the runs, or a palette and indices.
LEMMA BodyIs ==
  ASSUME NEW t \in Tiles, NEW cbpp, NEW runs \in Seq(Run), NEW sub,
         NEW palette \in Seq(Int), NEW colours \in Seq(Int)
  PROVE  /\ IsSeq(T!Body(t, cbpp, runs, sub, palette, colours))
         /\ IsSeq(T!Indices(t, runs, sub, palette))
<1>1. IsSeq(T!Pixels(cbpp, t.px)) /\ IsSeq(T!Pixels(cbpp, colours))
  BY TileAssumption, PixelsAre
<1>2. IsSeq(T!PlainRuns(runs, cbpp))
  BY RunsAreSeqs
<1>3. IsSeq(T!Indices(t, runs, sub, palette))
  BY RunsAreSeqs, PackedIsSeq, EmptyIsSeq DEF T!Indices
<1>4. IsSeq(T!Pixels(cbpp, colours) \o T!Indices(t, runs, sub, palette))
  BY <1>1, <1>3, ConcatIsSeq
<1> QED BY <1>1, <1>2, <1>3, <1>4 DEF T!Body

\* A palette that is sent is read as it was sent.
LEMMA PaletteRead ==
  ASSUME NEW x, NEW b, NEW palette \in Seq(Int), NEW r, IsSeq(r)
  PROVE  T!Values(SubSeq(<<x>> \o (T!Pixels(b, palette) \o r), 2, 1 + Len(palette)))
           = palette
<1> DEFINE p == T!Pixels(b, palette)
           k == Len(palette)
           w == p \o r
           m == <<x>> \o w
           q == SubSeq(m, 2, 1 + k)
<1>1. /\ k \in Nat /\ IsSeq(p) /\ Len(p) = k
      /\ \A i \in 1..k : p[i].value = palette[i]
  BY PixelsAre
<1> HIDE DEF p, k
<1>2. /\ IsSeq(w) /\ Len(w) = k + Len(r) /\ Len(r) \in Nat
      /\ \A i \in 1..k : w[i] = p[i]
  BY <1>1, ConcatIsSeq, SeqIs
<1> HIDE DEF w
<1>3. /\ IsSeq(m) /\ Len(m) = 1 + Len(w)
      /\ \A i \in 1..Len(w) : m[1 + i] = w[i]
  BY <1>2, HeadIs
<1> HIDE DEF m
<1>4. IsSeq(q) /\ Len(q) = k /\ \A i \in 1..k : q[i] = m[2 + i - 1]
  <2>1. 2 \in Nat \ {0} /\ 1 + k <= Len(m) /\ 1 + k = 2 + k - 1 /\ 1 + k \in Nat
    BY <1>1, <1>2, <1>3
  <2> HIDE DEF q
  <2>2. \A e \in Nat : e = 2 + k - 1 /\ e <= Len(m) =>
          /\ IsSeq(SubSeq(m, 2, e)) /\ Len(SubSeq(m, 2, e)) = k
          /\ \A j \in 1..k : SubSeq(m, 2, e)[j] = m[2 + j - 1]
    BY <1>1, <1>3, <2>1, PieceIs
  <2> QED BY <2>1, <2>2 DEF q
<1> HIDE DEF q
<1>5. ASSUME NEW i \in 1..k PROVE q[i].value = palette[i]
  <2>1. 2 + i - 1 = 1 + i /\ i \in 1..Len(w)
    BY <1>1, <1>2
  <2>2. q[i] = m[1 + i] /\ m[1 + i] = w[i] /\ w[i] = p[i]
    BY <1>2, <1>3, <1>4, <2>1
  <2> QED BY <1>1, <2>2
<1>6. DOMAIN q = 1..k
  BY <1>4, SeqIs
<1>7. T!Values(q) = [i \in 1..k |-> q[i].value]
  BY <1>6 DEF T!Values
<1>8. palette = [i \in 1..k |-> palette[i]]
  BY DEF k
<1>9. [i \in 1..k |-> q[i].value] = [i \in 1..k |-> palette[i]]
  BY <1>5
<1> QED BY <1>7, <1>8, <1>9 DEF q, m, w, p, k

\* Which messages bring a palette, and of how many colours.
LEMMA ColorsIs ==
  ASSUME NEW sub, NEW old \in Nat, NEW colors \in Nat, Numbered(sub, old, colors),
         sub \notin {T!Raw, T!Solid, T!Rle}, sub \notin T!Remembering
  PROVE  T!Colors(sub) = colors
BY PaletteAssumption
   DEF Numbered, T!Colors, T!Raw, T!Solid, T!Rle, T!Remembering, T!PrleBase, T!PrleMem, T!PackedMem

(* The encoder and the viewer remember the same palette after a tile if    *)
(* they did before: when the encoder expects it to remember one.           *)
LEMMA TrleInStep ==
  ASSUME NEW t \in Tiles, NEW cbpp \in Nat, NEW old \in Seq(Int), NEW memory,
         old # <<>> => memory = old
  PROVE  LET new == T!TrleTile(t, cbpp, old) IN
         /\ new.palette \in Seq(Int)
         /\ new.palette # <<>> => T!Kept(new.message, memory) = new.palette
<1> DEFINE palette == T!PaletteOf(t.px)
           runs == T!Runs(t.px)
           known == T!Known(old, palette)
           sub == T!SelectSubencoding(t, cbpp, Len(known), Len(palette),
                                      T!Single(runs), T!Multi(runs))
           used == IF sub \in T!Remembering THEN known ELSE palette
           body == T!Body(t, cbpp, runs, sub, used, T!Sent(sub, cbpp, used))
           m == <<T!Byte(sub)>> \o body
           new == T!TrleTile(t, cbpp, old)
<1> SUFFICES new.palette \in Seq(Int)
             /\ (new.palette # <<>> => T!Kept(new.message, memory) = new.palette)
  OBVIOUS
<1>1. new.message = m /\ new.palette = T!Left(sub, used)
  BY DEF T!TrleTile, T!Recoded, T!Scanned, T!Chosen, T!Coded
<1> HIDE DEF new
<1>2. /\ t.px \in Seq(Int) /\ t.w \in Nat /\ t.h \in Nat
  BY TileAssumption
<1>3. palette \in Seq(Int) /\ runs \in Seq(Run)
  BY <1>2, PaletteType, RunsType
<1>4. known \in {old, <<>>}
  BY DEF T!Known
<1> HIDE DEF palette, runs, known
<1>5. known \in Seq(Int)
  <2>1. <<>> \in Seq(Int)
    OBVIOUS
  <2> QED BY <1>4, <2>1
<1>6. Numbered(sub, Len(known), Len(palette))
  <2>1. Len(known) \in Nat /\ Len(palette) \in Nat
    BY <1>3, <1>5
  <2>2. T!Single(runs) \in Nat /\ T!Multi(runs) \in Nat
    BY <1>3, RunCounts
  <2> QED BY <1>2, <2>1, <2>2, SelectIs
<1> HIDE DEF sub
<1>7. used \in Seq(Int)
  BY <1>3, <1>5
<1>8. T!Sent(sub, cbpp, used) \in Seq(Int)
  BY <1>7 DEF T!Sent
<1>9. IsSeq(body)
  BY <1>3, <1>7, <1>8, BodyIs
<1>10. T!SubOf(m) = sub
  <2> HIDE DEF body
  <2>1. m[1] = T!Byte(sub)
    BY <1>9, SingleIsSeq, ConcatIsSeq
  <2> HIDE DEF m
  <2> QED BY <2>1 DEF T!SubOf, T!Byte, T!Field
<1>11. CASE sub \in {T!Raw, T!Rle, T!Solid}
  <2>1. T!Left(sub, used) = <<>>
    BY <1>11 DEF T!Left
  <2>2. <<>> \in Seq(Int)
    OBVIOUS
  <2> QED BY <1>1, <2>1, <2>2
<1>12. CASE sub \notin {T!Raw, T!Rle, T!Solid} /\ sub \in T!Remembering
  <2>1. T!Left(sub, used) = known
    BY <1>12 DEF T!Left
  <2>2. T!Kept(m, memory) = memory
    BY <1>10, <1>12 DEF T!Kept, T!Viewed
  <2>3. known # <<>> => memory = known
    BY <1>4
  <2> HIDE DEF m
  <2> QED BY <1>1, <1>5, <2>1, <2>2, <2>3
<1>13. CASE sub \notin {T!Raw, T!Rle, T!Solid} /\ sub \notin T!Remembering
  <2>1. used = palette /\ T!Left(sub, used) = palette
    BY <1>13 DEF T!Left
  <2>2. T!Sent(sub, cbpp, used) = palette
    BY <1>13, <2>1 DEF T!Sent
  <2> DEFINE r == T!Indices(t, runs, sub, palette)
  <2>3. IsSeq(r)
    BY <1>3, BodyIs
  <2>4. T!Values(SubSeq(m, 2, 1 + Len(palette))) = palette
    <3>1. body = T!Pixels(cbpp, palette) \o r
      BY <1>13, <2>1, <2>2 DEF T!Body
    <3> HIDE DEF body, r
    <3> QED BY <1>3, <2>3, <3>1, PaletteRead
  <2>5. T!Colors(sub) = Len(palette)
    <3>1. Len(known) \in Nat /\ Len(palette) \in Nat
      BY <1>3, <1>5
    <3> QED BY <1>6, <1>13, <3>1, ColorsIs
  <2> HIDE DEF m
  <2>6. T!PaletteIn(m) = palette
    BY <1>10, <2>4, <2>5 DEF T!PaletteIn
  <2>7. T!Kept(m, memory) = palette
    BY <1>10, <1>13, <2>6 DEF T!Kept, T!Viewed
  <2> QED BY <1>1, <1>3, <2>1, <2>7
<1> QED BY <1>11, <1>12, <1>13

-----------------------------------------------------------------------------
(***************************************************************************)
(* Hextile.                                                                *)
(***************************************************************************)

\* The area of a tile, by whichever module it is taken.
LEMMA AreaType ==
  ASSUME NEW t \in Tiles
  PROVE  H!Area(t) \in Nat /\ Area(t) = H!Area(t) /\ T!Area(t) = H!Area(t)
<1>1. t.w \in Nat /\ t.h \in Nat
  BY TileAssumption
<1> QED BY <1>1 DEF H!Area, Area, T!Area

\* The loop that cuts a tile into boxes: a[i] is what it has after i pixels.
RectifySteps(a, t, bg) ==
  /\ a[0] = [left |-> t, boxes |-> <<>>]
  /\ \A i \in 1..H!Area(t) :
       a[i] = H!Rectified(a[i - 1], (i - 1) % t.w, (i - 1) \div t.w, bg)
  /\ H!Rectify(t, bg) = a[H!Area(t)].boxes

\* It can be gone through.
LEMMA RectifyMade ==
  ASSUME NEW t \in Tiles, NEW bg
  PROVE  \E a : RectifySteps(a, t, bg)
<1> DEFINE n == H!Area(t)
           start == [left |-> t, boxes |-> <<>>]
           Step(s, i) == H!Rectified(s, (i - 1) % t.w, (i - 1) \div t.w, bg)
           Loop(g) == g = [i \in 0..n |-> IF i = 0 THEN start ELSE Step(g[i - 1], i)]
           Good(k, g) == g[0] = start /\ \A i \in 1..k : g[i] = Step(g[i - 1], i)
           a == CHOOSE g : Loop(g)
<1>1. H!Rectify(t, bg) = a[n].boxes
  BY DEF H!Rectify
<1>2. n \in Nat
  BY AreaType
<1> HIDE DEF n, start, Step
<1>5. \E g : Good(n, g)
  <2> DEFINE T0 == {k \in 0..n : \E g : Good(k, g)}
  <2>1. 0 \in T0
    <3>1. Good(0, [i \in 0..0 |-> start])
      OBVIOUS
    <3> HIDE DEF Good
    <3> QED BY <1>2, <3>1
  <2>2. ASSUME NEW k \in 0..n - 1, k \in T0 PROVE k + 1 \in T0
    <3>1. PICK g : Good(k, g)
      BY <2>2
    <3> DEFINE h == [i \in 0..k + 1 |-> IF i = k + 1 THEN Step(g[k], k + 1) ELSE g[i]]
    <3>2. h[0] = start
      BY <1>2, <3>1
    <3>3. ASSUME NEW i \in 1..k + 1 PROVE h[i] = Step(h[i - 1], i)
      <4>1. CASE i = k + 1
        BY <1>2, <4>1
      <4>2. CASE i # k + 1
        <5>1. i \in 1..k /\ i \in 0..k + 1 /\ i - 1 \in 0..k + 1 /\ i - 1 # k + 1
          BY <1>2, <4>2
        <5>2. g[i] = Step(g[i - 1], i)
          BY <3>1, <5>1
        <5> QED BY <4>2, <5>1, <5>2
      <4> QED BY <4>1, <4>2
    <3> HIDE DEF h
    <3>4. Good(k + 1, h)
      BY <3>2, <3>3
    <3> HIDE DEF Good
    <3> QED BY <1>2, <3>4
  <2> HIDE DEF T0
  <2>3. n \in T0
    BY <1>2, <2>1, <2>2, Climb
  <2> QED BY <2>3 DEF T0
<1>6. \E g : Loop(g)
  <2>1. PICK g : Good(n, g)
    BY <1>5
  <2> DEFINE f == [i \in 0..n |-> g[i]]
  <2>2. ASSUME NEW i \in 0..n PROVE f[i] = IF i = 0 THEN start ELSE Step(f[i - 1], i)
    BY <1>2, <2>1
  <2>3. Loop(f)
    BY <2>2
  <2> HIDE DEF Loop
  <2> QED BY <2>3
<1>7. Loop(a)
  <2> HIDE DEF Loop
  <2> QED BY <1>6
<1> HIDE DEF a
<1>8. a[0] = start /\ \A i \in 1..n : a[i] = Step(a[i - 1], i)
  BY <1>2, <1>7
<1> HIDE DEF Loop
<1>9. RectifySteps(a, t, bg)
  BY <1>1, <1>8 DEF RectifySteps, n, start, Step
<1> QED BY <1>9

\* However a tile is cut up, its boxes are a sequence.
LEMMA RectifyIsSeq ==
  ASSUME NEW t \in Tiles, NEW bg
  PROVE  IsSeq(H!Rectify(t, bg))
<1> DEFINE n == H!Area(t)
           Step(s, i) == H!Rectified(s, (i - 1) % t.w, (i - 1) \div t.w, bg)
<1>1. PICK a : RectifySteps(a, t, bg)
  BY RectifyMade
<1>2. n \in Nat
  BY AreaType
<1>3. ASSUME NEW s, NEW i, IsSeq(s.boxes) PROVE IsSeq(Step(s, i).boxes)
  <2>1. ASSUME NEW e PROVE IsSeq(Append(s.boxes, e))
    <3>1. PICK S : s.boxes \in Seq(S)
      BY <1>3 DEF IsSeq
    <3>2. Append(s.boxes, e) \in Seq(S \cup {e})
      BY <3>1
    <3> QED BY <3>2 DEF IsSeq
  <2>2. ASSUME NEW b, NEW c PROVE IsSeq(H!Cut(s, b, c, bg).boxes)
    <3>1. H!Cut(s, b, c, bg).boxes = Append(s.boxes, [box |-> b, colour |-> c])
      BY DEF H!Cut
    <3> QED BY <2>1, <3>1
  <2> QED BY <1>3, <2>2, Zenon DEF H!Rectified
<1>4. IsSeq(a[0].boxes)
  <2>1. a[0].boxes = <<>>
    BY <1>1 DEF RectifySteps
  <2> QED BY <2>1, EmptyIsSeq
<1>8. H!Rectify(t, bg) = a[n].boxes /\ \A i \in 1..n : a[i] = Step(a[i - 1], i)
  BY <1>1 DEF RectifySteps
<1> HIDE DEF n, Step
<1> DEFINE T1 == {i \in 0..n : IsSeq(a[i].boxes)}
<1>9. 0 \in T1
  BY <1>2, <1>4
<1>10. ASSUME NEW i \in 0..n - 1, i \in T1 PROVE i + 1 \in T1
  <2>1. PICK j \in 1..n : j = i + 1
    BY <1>2
  <2>2. a[j] = Step(a[j - 1], j) /\ j - 1 = i
    BY <1>8, <2>1
  <2> QED BY <1>3, <1>10, <2>1, <2>2
<1>11. n \in T1
  <2> HIDE DEF T1
  <2> QED BY <1>2, <1>9, <1>10, Climb
<1> QED BY <1>8, <1>11

\* The flags of a tile that is not sent raw.
HexFlags == {"bg", "fg", "subrects", "coloured"}

\* The flags are read from the first byte as they were put into it.
LEMMA FlagsRead ==
  ASSUME NEW flags, flags \subseteq HexFlags, NEW m, m[1] = H!FlagByte(flags)
  PROVE  /\ ~H!HasBit(m, 1)
         /\ H!HasBit(m, 2) <=> "bg" \in flags
         /\ H!HasBit(m, 4) <=> "fg" \in flags
         /\ H!HasBit(m, 8) <=> "subrects" \in flags
         /\ H!HasBit(m, 16) <=> "coloured" \in flags
<1> DEFINE a == IF "bg" \in flags THEN 1 ELSE 0
           b == IF "fg" \in flags THEN 1 ELSE 0
           c == IF "subrects" \in flags THEN 1 ELSE 0
           d == IF "coloured" \in flags THEN 1 ELSE 0
           v == 2 * a + 4 * b + 8 * c + 16 * d
<1>1. /\ a \in {0, 1} /\ (a = 1 <=> "bg" \in flags)
      /\ b \in {0, 1} /\ (b = 1 <=> "fg" \in flags)
      /\ c \in {0, 1} /\ (c = 1 <=> "subrects" \in flags)
      /\ d \in {0, 1} /\ (d = 1 <=> "coloured" \in flags)
  OBVIOUS
<1>2. "raw" \notin flags
  BY DEF HexFlags
<1>3. /\ H!Bit("raw", flags, 1) = 0 /\ H!Bit("bg", flags, 2) = 2 * a
      /\ H!Bit("fg", flags, 4) = 4 * b /\ H!Bit("subrects", flags, 8) = 8 * c
      /\ H!Bit("coloured", flags, 16) = 16 * d
  BY <1>2 DEF H!Bit
<1> HIDE DEF a, b, c, d
<1>4. 0 + 2 * a + 4 * b + 8 * c + 16 * d = v
  BY <1>1
<1>5. H!FlagByte(flags).value = v
  BY <1>3, <1>4 DEF H!FlagByte, H!Byte, H!Field
<1>6. /\ (v \div 1) % 2 = 0 /\ (v \div 2) % 2 = a /\ (v \div 4) % 2 = b
      /\ (v \div 8) % 2 = c /\ (v \div 16) % 2 = d
  BY <1>1
<1> HIDE DEF v
<1> QED BY <1>1, <1>5, <1>6 DEF H!HasBit

\* The boxes of a message.
LEMMA BoxesAreSeq ==
  ASSUME NEW boxes, IsSeq(boxes), NEW flags, NEW bpp
  PROVE  IsSeq(FlattenSeq([i \in DOMAIN boxes |-> H!BoxFields(boxes[i], flags, bpp)]))
<1> DEFINE n == Len(boxes)
           f == [i \in DOMAIN boxes |-> H!BoxFields(boxes[i], flags, bpp)]
<1>1. n \in Nat /\ DOMAIN boxes = 1..n
  BY SeqIs
<1>2. On(f, n)
  BY <1>1 DEF On
<1>3. ASSUME NEW i \in 1..n PROVE IsSeq(f[i])
  <2> DEFINE last == <<H!Byte(boxes[i].box.x * 16 + boxes[i].box.y),
                       H!Byte((boxes[i].box.w - 1) * 16 + boxes[i].box.h - 1)>>
             first == IF "coloured" \in flags THEN <<H!Pixel(bpp, boxes[i].colour)>>
                      ELSE <<>>
  <2>1. \A x, y : IsSeq(<<x, y>>)
    <3>1. \A x, y : <<x, y>> \in Seq({x, y})
      OBVIOUS
    <3> QED BY <3>1 DEF IsSeq
  <2>2. IsSeq(first)
    BY SingleIsSeq, EmptyIsSeq
  <2>3. f[i] = first \o last
    BY <1>1 DEF H!BoxFields
  <2>4. IsSeq(last)
    BY <2>1
  <2> HIDE DEF first, last, f
  <2> QED BY <2>2, <2>3, <2>4, ConcatIsSeq
<1> HIDE DEF f, n
<1>4. IsSeq(FlattenSeq(f))
  BY <1>1, <1>2, <1>3, FlattenIsSeq
<1> QED BY <1>4 DEF f

\* What comes before the boxes, and the boxes with their number.
Opening(bpp, scan, flags) ==
  <<H!FlagByte(flags)>>
  \o (IF "bg" \in flags THEN <<H!Pixel(bpp, H!Background(scan))>> ELSE <<>>)
  \o (IF "fg" \in flags THEN <<H!Pixel(bpp, H!Foreground(scan))>> ELSE <<>>)

Boxed(bpp, flags, boxes) ==
  FlattenSeq([i \in DOMAIN boxes |-> H!BoxFields(boxes[i], flags, bpp)])

Closing(bpp, flags, boxes) ==
  IF "subrects" \in flags
  THEN <<H!Byte(Len(boxes))>> \o Boxed(bpp, flags, boxes) ELSE <<>>

\* A message of Hextile is these two parts.
LEMMA FieldsSplit ==
  ASSUME NEW bpp, NEW scan, NEW flags, NEW boxes
  PROVE  H!HextileFields(bpp, scan, flags, boxes)
           = Opening(bpp, scan, flags) \o Closing(bpp, flags, boxes)
<1>1. H!FlattenSeq([i \in DOMAIN boxes |-> H!BoxFields(boxes[i], flags, bpp)])
        = Boxed(bpp, flags, boxes)
  BY DEF H!FlattenSeq, FlattenSeq, Boxed
<1> QED BY <1>1 DEF H!HextileFields, Opening, Closing

\* The fields of the first part.
LEMMA OpeningIs ==
  ASSUME NEW bpp, NEW scan, NEW flags
  PROVE  LET h == Opening(bpp, scan, flags)
             p == H!Pixel(bpp, H!Background(scan))
             q == H!Pixel(bpp, H!Foreground(scan))
             k == IF "bg" \in flags THEN 2 ELSE 1
         IN /\ IsSeq(h)
            /\ Len(h) = k + (IF "fg" \in flags THEN 1 ELSE 0)
            /\ h[1] = H!FlagByte(flags)
            /\ "bg" \in flags => h[2] = p
            /\ "fg" \in flags => h[k + 1] = q
<1> DEFINE f == <<H!FlagByte(flags)>>
           p == H!Pixel(bpp, H!Background(scan))
           q == H!Pixel(bpp, H!Foreground(scan))
           u == IF "bg" \in flags THEN <<p>> ELSE <<>>
           w == IF "fg" \in flags THEN <<q>> ELSE <<>>
           k == IF "bg" \in flags THEN 2 ELSE 1
           h == Opening(bpp, scan, flags)
<1>1. IsSeq(f) /\ Len(f) = 1 /\ f[1] = H!FlagByte(flags)
  BY SingleIsSeq
<1>2. IsSeq(u) /\ Len(u) = k - 1 /\ ("bg" \in flags => u[1] = p)
  <2> HIDE DEF p
  <2>1. CASE "bg" \in flags
    BY <2>1, SingleIsSeq
  <2>2. CASE "bg" \notin flags
    BY <2>2, EmptyIsSeq
  <2> QED BY <2>1, <2>2
<1>3. /\ IsSeq(w) /\ Len(w) = (IF "fg" \in flags THEN 1 ELSE 0)
      /\ ("fg" \in flags => w[1] = q)
  <2> HIDE DEF q
  <2>1. CASE "fg" \in flags
    BY <2>1, SingleIsSeq
  <2>2. CASE "fg" \notin flags
    BY <2>2, EmptyIsSeq
  <2> QED BY <2>1, <2>2
<1>4. h = f \o u \o w
  BY DEF Opening
<1>5. k \in {1, 2} /\ ("bg" \in flags => k = 2)
  OBVIOUS
<1> HIDE DEF f, u, w, p, q, k
<1>6. /\ IsSeq(f \o u) /\ Len(f \o u) = k
      /\ (f \o u)[1] = H!FlagByte(flags)
      /\ ("bg" \in flags => (f \o u)[2] = p)
  <2>1. /\ IsSeq(f \o u) /\ Len(f \o u) = Len(f) + Len(u)
        /\ \A i \in 1..Len(f) : (f \o u)[i] = f[i]
        /\ \A i \in 1..Len(u) : (f \o u)[Len(f) + i] = u[i]
    <3>1. IsSeq(f) /\ IsSeq(u)
      BY <1>1, <1>2
    <3> QED BY <3>1, ConcatIsSeq
  <2>2. Len(f) + Len(u) = k
    BY <1>1, <1>2, <1>5
  <2>3. (f \o u)[1] = f[1]
    BY <1>1, <2>1
  <2>4. ASSUME "bg" \in flags PROVE (f \o u)[2] = p
    <3>1. 1 \in 1..Len(u) /\ Len(f) + 1 = 2
      BY <1>1, <1>2, <1>5, <2>4
    <3> QED BY <1>2, <2>1, <2>4, <3>1
  <2> QED BY <1>1, <2>1, <2>2, <2>3, <2>4
<1> DEFINE v == f \o u
<1> HIDE DEF v
<1>7. IsSeq(v) /\ Len(v) = k /\ v[1] = H!FlagByte(flags) /\ ("bg" \in flags => v[2] = p)
  BY <1>6 DEF v
<1>8. /\ IsSeq(v \o w) /\ Len(v \o w) = k + Len(w)
      /\ \A i \in 1..k : (v \o w)[i] = v[i]
      /\ \A i \in 1..Len(w) : (v \o w)[k + i] = w[i]
  <2>1. IsSeq(v) /\ IsSeq(w) /\ Len(v) = k
    BY <1>3, <1>7
  <2>2. /\ IsSeq(v \o w) /\ Len(v \o w) = Len(v) + Len(w)
        /\ \A i \in 1..Len(v) : (v \o w)[i] = v[i]
        /\ \A i \in 1..Len(w) : (v \o w)[Len(v) + i] = w[i]
    BY <2>1, ConcatIsSeq
  <2> QED BY <2>1, <2>2
<1>9. h = v \o w
  BY <1>4 DEF v
<1> HIDE DEF h
<1>10. h[1] = H!FlagByte(flags)
  BY <1>5, <1>7, <1>8, <1>9
<1>11. "bg" \in flags => h[2] = p
  BY <1>5, <1>7, <1>8, <1>9
<1>12. "fg" \in flags => h[k + 1] = q
  <2>1. "fg" \in flags => 1 \in 1..Len(w)
    BY <1>3
  <2> QED BY <1>3, <1>8, <1>9, <2>1
<1>13. IsSeq(h) /\ Len(h) = k + (IF "fg" \in flags THEN 1 ELSE 0)
  BY <1>3, <1>8, <1>9
<1> QED BY <1>10, <1>11, <1>12, <1>13 DEF h, p, q, k

\* A tile that is not sent raw: its message begins with the flags and the colours.
LEMMA FieldsAre ==
  ASSUME NEW bpp, NEW scan, NEW flags, NEW boxes, IsSeq(boxes)
  PROVE  LET m == H!HextileFields(bpp, scan, flags, boxes)
             k == IF "bg" \in flags THEN 2 ELSE 1
         IN /\ IsSeq(m)
            /\ m[1] = H!FlagByte(flags)
            /\ "bg" \in flags => m[2].value = H!Background(scan)
            /\ "fg" \in flags => m[k + 1].value = H!Foreground(scan)
<1> DEFINE h == Opening(bpp, scan, flags)
           b == Closing(bpp, flags, boxes)
           k == IF "bg" \in flags THEN 2 ELSE 1
           p == H!Pixel(bpp, H!Background(scan))
           q == H!Pixel(bpp, H!Foreground(scan))
           m == H!HextileFields(bpp, scan, flags, boxes)
<1>1. m = h \o b
  BY FieldsSplit
<1>2. IsSeq(b)
  BY BoxesAreSeq, HeadIs, EmptyIsSeq DEF Closing, Boxed
<1>3. /\ IsSeq(h) /\ Len(h) = k + (IF "fg" \in flags THEN 1 ELSE 0)
      /\ h[1] = H!FlagByte(flags)
      /\ "bg" \in flags => h[2] = p
      /\ "fg" \in flags => h[k + 1] = q
  BY OpeningIs
<1>4. p.value = H!Background(scan) /\ q.value = H!Foreground(scan)
  BY DEF H!Pixel
<1>5. k \in {1, 2} /\ ("bg" \in flags => k = 2)
  OBVIOUS
<1> HIDE DEF m, h, b, p, q, k
<1>6. IsSeq(m) /\ \A i \in 1..Len(h) : m[i] = h[i]
  BY <1>1, <1>2, <1>3, ConcatIsSeq
<1>7. m[1] = H!FlagByte(flags)
  <2>1. 1 \in 1..Len(h)
    BY <1>3, <1>5
  <2> QED BY <1>3, <1>6, <2>1
<1>8. "bg" \in flags => m[2].value = H!Background(scan)
  <2>1. "bg" \in flags => 2 \in 1..Len(h)
    BY <1>3, <1>5
  <2> QED BY <1>3, <1>4, <1>6, <2>1
<1>9. "fg" \in flags => m[k + 1].value = H!Foreground(scan)
  <2>1. "fg" \in flags => k + 1 \in 1..Len(h)
    BY <1>3, <1>5
  <2> QED BY <1>3, <1>4, <1>6, <2>1
<1> QED BY <1>6, <1>7, <1>8, <1>9 DEF m, k

\* Coloured boxes and a foreground exclude each other.
LEMMA UnknownIs ==
  ASSUME NEW scan, NEW bg, NEW fg
  PROVE  LET flags == H!Unknown(scan, bg, fg)
         IN flags \subseteq HexFlags /\ ~("fg" \in flags /\ "coloured" \in flags)
BY DEF H!Unknown, H!Flags, HexFlags

\* A tile that is sent raw.
LEMMA RawIs ==
  ASSUME NEW t \in Tiles, NEW bpp
  PROVE  LET m == <<H!FlagByte({"raw"})>> \o H!Pixels(bpp, t.px)
         IN IsSeq(m) /\ m[1] = H!FlagByte({"raw"}) /\ H!HasBit(m, 1)
<1> DEFINE f == H!FlagByte({"raw"})
           p == H!Pixels(bpp, t.px)
           m == <<f>> \o p
<1>1. T!Pixels(bpp, t.px) = p
  BY DEF T!Pixels, H!Pixels, T!Pixel, H!Pixel
<1>2. IsSeq(p)
  BY <1>1, TileAssumption, PixelsAre
<1>3. f.value = 1
  BY DEF H!FlagByte, H!Bit, H!Byte, H!Field
<1> HIDE DEF p, f
<1>4. IsSeq(m) /\ m[1] = f
  BY <1>2, HeadIs
<1> HIDE DEF m
<1>5. H!HasBit(m, 1)
  BY <1>3, <1>4 DEF H!HasBit
<1> QED BY <1>4, <1>5 DEF m, f, p

(* What the encoder of Hextile knows of the viewer's colours after a tile  *)
(* is what the viewer then has, if it was so before.                       *)
LEMMA HextileInStep ==
  ASSUME NEW t \in Tiles, NEW bpp, NEW bg, NEW fg, NEW vbg, NEW vfg,
         bg \subseteq {vbg}, fg \subseteq {vfg}
  PROVE  LET new == H!HextileTile(t, bpp, bg, fg)
             m == new.message
         IN /\ H!HasBit(m, 1) => new.bg \subseteq {vbg} /\ new.fg \subseteq {vfg}
            /\ ~H!HasBit(m, 1) =>
                 /\ new.bg \subseteq {H!ReadBg(m, vbg)}
                 /\ \A c \in H!LastColours(m, vfg) : new.fg \subseteq {c}
<1> DEFINE scan == H!Scan(t.px)
           flags == H!Unknown(scan, bg, fg)
           boxes == H!Rectify(t, H!Background(scan))
           new == H!HextileTile(t, bpp, bg, fg)
           m == new.message
<1>1. new = H!Coded(t, bpp, bg, fg, scan, flags, boxes)
  BY DEF H!HextileTile, H!Scanned
<1>2. IsSeq(boxes)
  BY RectifyIsSeq
<1>3. flags \subseteq HexFlags /\ ~("fg" \in flags /\ "coloured" \in flags)
  BY UnknownIs
<1> HIDE DEF new, scan, flags, boxes
<1>4. CASE "subrects" \in flags /\ Len(boxes) > H!MostBoxes(t, bpp, flags)
  <2>1. /\ m = <<H!FlagByte({"raw"})>> \o H!Pixels(bpp, t.px)
        /\ new.bg = bg /\ new.fg = fg
    BY <1>1, <1>4 DEF H!Coded
  <2>2. H!HasBit(m, 1)
    BY <2>1, RawIs
  <2> QED BY <2>1, <2>2 DEF new
<1>5. CASE ~("subrects" \in flags /\ Len(boxes) > H!MostBoxes(t, bpp, flags))
  <2> DEFINE k == IF "bg" \in flags THEN 2 ELSE 1
  <2>1. /\ m = H!HextileFields(bpp, scan, flags, boxes)
        /\ new.bg = H!KnownBg(scan, flags, bg) /\ new.fg = H!KnownFg(scan, flags, fg)
    BY <1>1, <1>5 DEF H!Coded
  <2> HIDE DEF m
  <2>2. /\ m[1] = H!FlagByte(flags)
        /\ "bg" \in flags => m[2].value = H!Background(scan)
        /\ "fg" \in flags => m[k + 1].value = H!Foreground(scan)
    BY <1>2, <2>1, FieldsAre
  <2>3. /\ ~H!HasBit(m, 1)
        /\ H!HasBit(m, 2) <=> "bg" \in flags
        /\ H!HasBit(m, 4) <=> "fg" \in flags
        /\ H!HasBit(m, 16) <=> "coloured" \in flags
    BY <1>3, <2>2, FlagsRead
  <2>4. new.bg \subseteq {H!ReadBg(m, vbg)}
    BY <2>1, <2>2, <2>3 DEF H!KnownBg, H!ReadBg
  <2>5. ASSUME NEW c \in H!LastColours(m, vfg) PROVE new.fg \subseteq {c}
    <3>1. CASE "fg" \in flags
      <4>1. ~H!HasBit(m, 16)
        BY <1>3, <2>3, <3>1
      <4>2. H!ReadFg(m, vfg) = H!Foreground(scan)
        BY <2>2, <2>3, <3>1 DEF H!ReadFg
      <4> QED BY <2>1, <3>1, <4>1, <4>2 DEF H!LastColours, H!KnownFg
    <3>2. CASE "fg" \notin flags /\ "coloured" \in flags
      BY <2>1, <3>2 DEF H!KnownFg
    <3>3. CASE "fg" \notin flags /\ "coloured" \notin flags
      <4>1. H!LastColours(m, vfg) = {vfg}
        BY <2>3, <3>3 DEF H!LastColours, H!ReadFg
      <4> QED BY <2>1, <3>3, <4>1 DEF H!KnownFg
    <3> QED BY <3>1, <3>2, <3>3
  <2> QED BY <2>3, <2>4, <2>5 DEF m, new
<1> QED BY <1>4, <1>5

-----------------------------------------------------------------------------
(***************************************************************************)
(* What the encoder takes for known to the viewer is what it remembers.    *)
(***************************************************************************)

\* r has the fields of ctx and viewer.
Remembers(r) == r = [palette |-> r.palette, bg |-> r.bg, fg |-> r.fg]

\* The invariant: the two are in step, and the palette is one of colours.
MemoryInv == /\ format \in Formats
         /\ Remembers(ctx) /\ Remembers(viewer)
         /\ ctx.palette \in Seq(Int)
         /\ InStep

\* Assignments to fields of the encoder's or the viewer's memory.
LEMMA FieldsSet ==
  ASSUME NEW r, Remembers(r), NEW a, NEW b, NEW c
  PROVE  /\ [r EXCEPT !.palette = a] = [palette |-> a, bg |-> r.bg, fg |-> r.fg]
         /\ [r EXCEPT !.bg = b, !.fg = c] = [palette |-> r.palette, bg |-> b, fg |-> c]
<1>1. PICK x, y, z : r = [palette |-> x, bg |-> y, fg |-> z]
  BY DEF Remembers
<1> DEFINE p == [palette |-> a, bg |-> y, fg |-> z]
           q == [palette |-> x, bg |-> b, fg |-> c]
           e == [r EXCEPT !.palette = a]
           d == [r EXCEPT !.bg = b, !.fg = c]
<1>2. r.palette = x /\ r.bg = y /\ r.fg = z
  BY <1>1
<1>3. e = p
  BY <1>1
<1>4. d = q
  <2>1. d = [[r EXCEPT !.bg = b] EXCEPT !.fg = c]
    OBVIOUS
  <2>2. [r EXCEPT !.bg = b] = [palette |-> x, bg |-> b, fg |-> z]
    BY <1>1
  <2>3. [[palette |-> x, bg |-> b, fg |-> z] EXCEPT !.fg = c] = q
    OBVIOUS
  <2> HIDE DEF d, q
  <2> QED BY <2>1, <2>2, <2>3
<1> QED BY <1>2, <1>3, <1>4

\* At the beginning neither remembers anything.
LEMMA MemoryFirst == Init => MemoryInv
BY DEF Init, MemoryInv, InStep, Remembers

\* A new rectangle of Hextile: both forget the colours.
LEMMA StartRectKeeps ==
  ASSUME MemoryInv, StartRect PROVE MemoryInv'
<1>1. ctx' = [palette |-> ctx.palette, bg |-> {}, fg |-> {}]
  BY FieldsSet DEF MemoryInv, StartRect
<1>2. viewer' = [palette |-> viewer.palette, bg |-> 0, fg |-> 0]
  BY FieldsSet DEF MemoryInv, StartRect
<1>3. format' = format
  BY DEF StartRect
<1> QED BY <1>1, <1>2, <1>3 DEF MemoryInv, InStep, Remembers

\* A tile of TRLE.
LEMMA SendTrleKeeps ==
  ASSUME MemoryInv, NEW t \in Tiles, SendTrle(t) PROVE MemoryInv'
<1> DEFINE new == T!TrleTile(t, format.cbpp, ctx.palette)
           kept == T!Kept(new.message, viewer.palette)
<1>1. format.cbpp \in Nat
  BY FormatAssumption DEF MemoryInv
<1>2. ctx.palette \in Seq(Int) /\ (ctx.palette # <<>> => viewer.palette = ctx.palette)
  BY DEF MemoryInv, InStep
<1>3. new.palette \in Seq(Int) /\ (new.palette # <<>> => kept = new.palette)
  BY <1>1, <1>2, TrleInStep
<1>4. /\ ctx' = [ctx EXCEPT !.palette = new.palette]
      /\ viewer' = [viewer EXCEPT !.palette = kept]
      /\ format' = format
  BY DEF SendTrle
<1> HIDE DEF new, kept
<1>5. /\ ctx' = [palette |-> new.palette, bg |-> ctx.bg, fg |-> ctx.fg]
      /\ viewer' = [palette |-> kept, bg |-> viewer.bg, fg |-> viewer.fg]
  BY <1>4, FieldsSet DEF MemoryInv
<1> QED BY <1>3, <1>4, <1>5 DEF MemoryInv, InStep, Remembers

\* A tile of Hextile, whichever colour the viewer takes for its foreground.
LEMMA SendHextileKeeps ==
  ASSUME MemoryInv, NEW t \in Tiles, SendHextile(t) PROVE MemoryInv'
<1> DEFINE new == H!HextileTile(t, format.bpp, ctx.bg, ctx.fg)
           m == new.message
           raw == H!HasBit(m, 1)
           bg == IF raw THEN viewer.bg ELSE H!ReadBg(m, viewer.bg)
<1>1. ctx.bg \subseteq {viewer.bg} /\ ctx.fg \subseteq {viewer.fg}
  BY DEF MemoryInv, InStep
<1>2. /\ raw => new.bg \subseteq {viewer.bg} /\ new.fg \subseteq {viewer.fg}
      /\ ~raw => /\ new.bg \subseteq {H!ReadBg(m, viewer.bg)}
                 /\ \A c \in H!LastColours(m, viewer.fg) : new.fg \subseteq {c}
  <2> DEFINE cb == ctx.bg
             cf == ctx.fg
             vb == viewer.bg
             vf == viewer.fg
  <2>1. cb \subseteq {vb} /\ cf \subseteq {vf}
    BY <1>1
  <2> HIDE DEF cb, cf, vb, vf
  <2>2. LET n == H!HextileTile(t, format.bpp, cb, cf)
        IN /\ H!HasBit(n.message, 1) => n.bg \subseteq {vb} /\ n.fg \subseteq {vf}
           /\ ~H!HasBit(n.message, 1) =>
                /\ n.bg \subseteq {H!ReadBg(n.message, vb)}
                /\ \A c \in H!LastColours(n.message, vf) : n.fg \subseteq {c}
    BY <2>1, HextileInStep
  <2> QED BY <2>2 DEF cb, cf, vb, vf
<1>3. ctx' = [ctx EXCEPT !.bg = new.bg, !.fg = new.fg] /\ format' = format
  BY DEF SendHextile
<1>4. PICK fg \in IF raw THEN {viewer.fg} ELSE H!LastColours(m, viewer.fg) :
        viewer' = [viewer EXCEPT !.bg = bg, !.fg = fg]
  BY DEF SendHextile
<1> HIDE DEF new
<1>5. new.bg \subseteq {bg} /\ new.fg \subseteq {fg}
  BY <1>2, <1>4
<1> HIDE DEF m, raw, bg
<1>6. /\ ctx' = [palette |-> ctx.palette, bg |-> new.bg, fg |-> new.fg]
      /\ viewer' = [palette |-> viewer.palette, bg |-> bg, fg |-> fg]
  BY <1>3, <1>4, FieldsSet DEF MemoryInv
<1> QED BY <1>3, <1>5, <1>6 DEF MemoryInv, InStep, Remembers

\* No step takes them out of step.
LEMMA MemoryKept == MemoryInv /\ [Next]_vars => MemoryInv'
<1> SUFFICES ASSUME MemoryInv, [Next]_vars PROVE MemoryInv'
  OBVIOUS
<1>1. CASE UNCHANGED vars
  BY <1>1 DEF vars, MemoryInv, InStep, Remembers
<1>2. CASE StartRect
  BY <1>2, StartRectKeeps
<1>3. CASE Written
  BY <1>3 DEF Written, MemoryInv, InStep, Remembers
<1>4. ASSUME NEW t \in Tiles, Send(t) PROVE MemoryInv'
  <2>1. CASE SendTrle(t)
    BY <2>1, SendTrleKeeps
  <2>2. CASE SendHextile(t)
    BY <2>2, SendHextileKeeps
  <2>3. CASE SendFresh(t)
    BY <2>3 DEF SendFresh, MemoryInv, InStep, Remembers
  <2> QED BY <1>4, <2>1, <2>2, <2>3 DEF Send
<1> QED BY <1>1, <1>2, <1>3, <1>4 DEF Next

(* What the encoder of Hextile or TRLE leaves out of a message, the viewer *)
(* remembers as the encoder does, whatever tiles were sent before: both    *)
(* colours of Hextile's context and the palette of TRLE's.                 *)
THEOREM NothingMissing == Spec => []InStep
<1>1. MemoryInv => InStep
  BY DEF MemoryInv
<1> QED BY MemoryFirst, MemoryKept, <1>1, PTL DEF Spec

-----------------------------------------------------------------------------
(***************************************************************************)
(* The length of a message.                                                *)
(***************************************************************************)

\* A sequence of fields, none of them empty.
IsMessage(m) == IsSeq(m) /\ \A i \in 1..Len(m) : m[i].bytes \in Nat \ {0}

\* g[i] is the length of the first i fields.
Totals(g, m) == g[0] = 0 /\ \A i \in 1..Len(m) : g[i] = g[i - 1] + m[i].bytes

\* Size counts the bytes so.
LEMMA TotalsExist ==
  ASSUME NEW m, IsMessage(m)
  PROVE  \E g : Totals(g, m) /\ Size(m) = g[Len(m)] /\ \A i \in 0..Len(m) : g[i] \in Nat
<1> DEFINE n == Len(m)
           Loop(g) == g = [i \in 0..n |-> IF i = 0 THEN 0 ELSE g[i - 1] + m[i].bytes]
           a == CHOOSE g : Loop(g)
<1>1. Size(m) = a[n]
  BY DEF Size
<1>2. n \in Nat /\ \A i \in 1..n : m[i].bytes \in Nat
  BY SeqIs DEF IsMessage
<1> HIDE DEF n
<1>3. \E g : Loop(g)
  <2> DEFINE F == [z \in Nat \X (1..n) |-> z[1] + m[z[2]].bytes]
  <2>1. \A i \in 1..n, s \in Nat : F[<<s, i>>] = s + m[i].bytes
    OBVIOUS
  <2> HIDE DEF F
  <2>2. ASSUME NEW i \in 1..n, NEW s \in Nat PROVE F[<<s, i>>] \in Nat
    <3>1. m[i].bytes \in Nat
      BY <1>2
    <3>2. s + m[i].bytes \in Nat
      BY <3>1
    <3>3. F[<<s, i>>] = s + m[i].bytes
      BY <2>1
    <3> QED BY <3>2, <3>3
  <2>3. PICK g : Goes(g, 0, n, F) /\ \A i \in 0..n : g[i] \in Nat
    BY <1>2, <2>2, Repeats
  <2>4. ASSUME NEW i \in 0..n, i # 0 PROVE F[<<g[i - 1], i>>] = g[i - 1] + m[i].bytes
    <3>1. i \in 1..n /\ g[i - 1] \in Nat
      BY <1>2, <2>3, <2>4
    <3> QED BY <2>1, <3>1
  <2>5. Loop(g)
    BY <2>3, <2>4 DEF Goes
  <2> HIDE DEF Loop
  <2> QED BY <2>5
<1>4. Loop(a)
  <2> HIDE DEF Loop
  <2> QED BY <1>3
<1> HIDE DEF a
<1>5. a[0] = 0 /\ \A i \in 1..n : a[i] = a[i - 1] + m[i].bytes
  BY <1>2, <1>4
<1> HIDE DEF Loop
<1>6. ASSUME NEW k \in 0..n PROVE a[k] \in Nat
  <2> DEFINE T0 == {i \in 0..k : a[i] \in Nat}
  <2>1. 0 \in T0
    BY <1>2, <1>5
  <2>2. ASSUME NEW i \in 0..k - 1, i \in T0 PROVE i + 1 \in T0
    <3>1. PICK j \in 1..n : j = i + 1
      BY <1>2
    <3>2. a[j] = a[j - 1] + m[j].bytes /\ j - 1 = i
      BY <1>5, <3>1
    <3> QED BY <1>2, <2>2, <3>1, <3>2
  <2>3. k \in Nat
    BY <1>2
  <2>4. k \in T0
    <3> HIDE DEF T0
    <3> QED BY <2>1, <2>2, <2>3, Climb
  <2> QED BY <2>4
<1>7. Totals(a, m)
  BY <1>5 DEF Totals, n
<1> QED BY <1>1, <1>6, <1>7 DEF n

\* Whatever counts the bytes counts the same.
LEMMA SizeIs ==
  ASSUME NEW m, IsMessage(m), NEW h, Totals(h, m)
  PROVE  Size(m) = h[Len(m)] /\ \A i \in 0..Len(m) : h[i] \in Nat
<1>1. PICK g : Totals(g, m) /\ Size(m) = g[Len(m)] /\ \A i \in 0..Len(m) : g[i] \in Nat
  BY TotalsExist
<1>2. Len(m) \in Nat
  BY SeqIs DEF IsMessage
<1>3. ASSUME NEW k \in 0..Len(m) PROVE h[k] = g[k]
  <2> DEFINE T0 == {i \in 0..k : h[i] = g[i]}
  <2>1. 0 \in T0
    BY <1>1, <1>2 DEF Totals
  <2>2. ASSUME NEW i \in 0..k - 1, i \in T0 PROVE i + 1 \in T0
    <3>1. PICK j \in 1..Len(m) : j = i + 1
      BY <1>2
    <3>2. h[j] = h[j - 1] + m[j].bytes /\ g[j] = g[j - 1] + m[j].bytes /\ j - 1 = i
      BY <1>1, <3>1 DEF Totals
    <3> QED BY <2>2, <3>1, <3>2
  <2>3. k \in Nat
    BY <1>2
  <2>4. k \in T0
    <3> HIDE DEF T0
    <3> QED BY <2>1, <2>2, <2>3, Climb
  <2> QED BY <2>4
<1> QED BY <1>1, <1>2, <1>3

\* A longer part of a message has more bytes.
LEMMA TotalsGrow ==
  ASSUME NEW m, IsMessage(m), NEW h, Totals(h, m),
         NEW i \in 0..Len(m), NEW j \in 0..Len(m), i < j
  PROVE  h[i] < h[j]
<1>1. Len(m) \in Nat
  BY SeqIs DEF IsMessage
<1>2. \A k \in 0..Len(m) : h[k] \in Nat
  BY SizeIs
<1>3. \A k \in 1..Len(m) : h[k] > h[k - 1]
  <2> TAKE k \in 1..Len(m)
  <2>1. h[k] = h[k - 1] + m[k].bytes /\ m[k].bytes \in Nat \ {0}
    BY DEF Totals, IsMessage
  <2>2. h[k - 1] \in Nat
    BY <1>1, <1>2
  <2> QED BY <2>1, <2>2
<1> DEFINE T0 == {d \in 0..j - i : d = 0 \/ h[i] < h[i + d]}
<1>4. 0 \in T0
  BY <1>1
<1>5. ASSUME NEW d \in 0..(j - i) - 1, d \in T0 PROVE d + 1 \in T0
  <2>1. PICK k \in 1..Len(m) : k = i + (d + 1)
    BY <1>1
  <2>2. h[k] > h[k - 1] /\ k - 1 = i + d
    BY <1>1, <1>3, <2>1
  <2>3. h[i] \in Nat /\ h[k] \in Nat /\ h[k - 1] \in Nat
    BY <1>1, <1>2, <2>1
  <2>4. h[i] < h[k]
    BY <1>5, <2>2, <2>3
  <2> QED BY <1>1, <2>1, <2>4
<1>6. j - i \in Nat
  BY <1>1
<1>7. j - i \in T0
  <2> HIDE DEF T0
  <2> QED BY <1>4, <1>5, <1>6, Climb
<1>8. i + (j - i) = j /\ j - i # 0
  BY <1>1
<1> QED BY <1>7, <1>8

\* The length of two messages, one after the other.
LEMMA SizeOfConcat ==
  ASSUME NEW a, NEW b, IsMessage(a), IsMessage(b)
  PROVE  IsMessage(a \o b) /\ Size(a \o b) = Size(a) + Size(b) /\ Size(a) \in Nat
<1> DEFINE c == a \o b
           p == Len(a)
           q == Len(b)
<1>1. /\ IsSeq(c) /\ Len(c) = p + q
      /\ \A i \in 1..p : c[i] = a[i]
      /\ \A i \in 1..q : c[p + i] = b[i]
  BY ConcatIsSeq DEF IsMessage
<1>2. p \in Nat /\ q \in Nat
  BY SeqIs DEF IsMessage
<1> HIDE DEF c
<1>3. ASSUME NEW i \in 1..p + q, i > p
      PROVE  i - p \in 1..q /\ c[i] = b[i - p]
  <2>1. PICK j \in 1..q : j = i - p
    BY <1>2, <1>3
  <2>2. c[p + j] = b[j]
    BY <1>1
  <2>3. p + j = i
    BY <1>2, <2>1
  <2> QED BY <2>1, <2>2, <2>3
<1>4. IsMessage(c)
  <2> SUFFICES ASSUME NEW i \in 1..p + q PROVE c[i].bytes \in Nat \ {0}
    BY <1>1 DEF IsMessage
  <2>1. CASE i <= p
    BY <1>1, <1>2, <2>1 DEF IsMessage
  <2>2. CASE i > p
    BY <1>3, <2>2 DEF IsMessage
  <2> QED BY <1>2, <2>1, <2>2
<1>5. PICK ga : /\ Totals(ga, a) /\ Size(a) = ga[p] /\ \A i \in 0..p : ga[i] \in Nat
  BY TotalsExist
<1>6. PICK gb : /\ Totals(gb, b) /\ Size(b) = gb[q] /\ \A i \in 0..q : gb[i] \in Nat
  BY TotalsExist
<1> DEFINE h == [i \in 0..p + q |-> IF i <= p THEN ga[i] ELSE ga[p] + gb[i - p]]
<1>7. Totals(h, c)
  <2>1. h[0] = 0
    BY <1>2, <1>5 DEF Totals
  <2>2. ASSUME NEW i \in 1..p + q PROVE h[i] = h[i - 1] + c[i].bytes
    <3>1. CASE i <= p
      <4>1. ga[i] = ga[i - 1] + a[i].bytes /\ c[i] = a[i]
        BY <1>1, <1>2, <1>5, <3>1 DEF Totals
      <4>2. h[i] = ga[i] /\ h[i - 1] = ga[i - 1]
        BY <1>2, <3>1
      <4> QED BY <4>1, <4>2
    <3>2. CASE i > p
      <4>1. PICK j \in 1..q : j = i - p
        BY <1>3, <3>2
      <4>2. c[i] = b[j]
        BY <1>3, <3>2, <4>1
      <4>3. gb[j] = gb[j - 1] + b[j].bytes
        BY <1>6 DEF Totals
      <4>4. h[i] = ga[p] + gb[j]
        BY <1>2, <3>2, <4>1
      <4>5. h[i - 1] = ga[p] + gb[j - 1]
        <5>1. CASE i - 1 = p
          <6>1. j - 1 = 0 /\ gb[0] = 0 /\ h[i - 1] = ga[p] /\ ga[p] \in Nat
            BY <1>2, <1>5, <1>6, <4>1, <5>1 DEF Totals
          <6> QED BY <6>1
        <5>2. CASE i - 1 # p
          <6>1. i - 1 > p /\ i - 1 \in 0..p + q /\ (i - 1) - p = j - 1
            BY <1>2, <3>2, <4>1, <5>2
          <6>2. h[i - 1] = ga[p] + gb[(i - 1) - p]
            BY <1>2, <6>1
          <6> QED BY <6>1, <6>2
        <5> QED BY <5>1, <5>2
      <4>6. ga[p] \in Nat /\ gb[j - 1] \in Nat /\ b[j].bytes \in Nat
        BY <1>2, <1>5, <1>6 DEF IsMessage
      <4> HIDE DEF h
      <4> QED BY <4>2, <4>3, <4>4, <4>5, <4>6
    <3> QED BY <1>2, <3>1, <3>2
  <2> HIDE DEF h
  <2> QED BY <1>1, <2>1, <2>2 DEF Totals
<1>8. h[p + q] = ga[p] + gb[q]
  <2>1. CASE q = 0
    BY <1>2, <1>5, <1>6, <2>1 DEF Totals
  <2>2. CASE q # 0
    <3>1. p + q > p /\ p + q \in 0..p + q /\ (p + q) - p = q
      BY <1>2, <2>2
    <3> QED BY <1>2, <3>1
  <2> QED BY <2>1, <2>2
<1> HIDE DEF h
<1>9. Size(c) = h[p + q]
  BY <1>1, <1>4, <1>7, SizeIs
<1>10. ga[p] \in Nat
  BY <1>2, <1>5
<1> QED BY <1>4, <1>5, <1>6, <1>8, <1>9, <1>10 DEF c

\* The length of a field.
LEMMA SizeOfSingle ==
  ASSUME NEW x, x.bytes \in Nat \ {0}
  PROVE  IsMessage(<<x>>) /\ Size(<<x>>) = x.bytes
<1> DEFINE m == <<x>>
<1>1. IsSeq(m) /\ Len(m) = 1 /\ m[1] = x
  BY SingleIsSeq
<1> HIDE DEF m
<1>2. IsMessage(m)
  BY <1>1 DEF IsMessage
<1> DEFINE h == [i \in 0..1 |-> IF i = 0 THEN 0 ELSE x.bytes]
<1>3. h[0] = 0 /\ h[1] = x.bytes
  OBVIOUS
<1> HIDE DEF h
<1>4. Totals(h, m)
  BY <1>1, <1>3 DEF Totals
<1>5. Size(m) = h[1]
  BY <1>1, <1>2, <1>4, SizeIs
<1> QED BY <1>2, <1>3, <1>5 DEF m

\* The length of nothing.
LEMMA SizeOfEmpty == IsMessage(<<>>) /\ Size(<<>>) = 0
<1> DEFINE m == <<>>
<1>1. IsSeq(m) /\ Len(m) = 0
  BY EmptyIsSeq
<1> HIDE DEF m
<1>2. IsMessage(m)
  BY <1>1 DEF IsMessage
<1>3. Size(m) = 0
  BY <1>1, <1>2, TotalsExist DEF Totals
<1> QED BY <1>2, <1>3 DEF m

\* Fields of the same length.
LEMMA SizeOfEqual ==
  ASSUME NEW m, IsSeq(m), NEW e \in Nat \ {0}, \A i \in 1..Len(m) : m[i].bytes = e
  PROVE  IsMessage(m) /\ Size(m) = Len(m) * e
<1>1. IsMessage(m)
  BY DEF IsMessage
<1>2. Len(m) \in Nat
  BY SeqIs
<1> DEFINE h == [i \in 0..Len(m) |-> i * e]
<1>3. h[0] = 0 /\ h[Len(m)] = Len(m) * e
  BY <1>2
<1>4. ASSUME NEW i \in 1..Len(m) PROVE h[i] = h[i - 1] + m[i].bytes
  <2>1. h[i] = i * e /\ h[i - 1] = (i - 1) * e
    BY <1>2
  <2>2. i * e = (i - 1) * e + e
    BY <1>2
  <2> QED BY <2>1, <2>2
<1> HIDE DEF h
<1>5. Totals(h, m)
  BY <1>3, <1>4 DEF Totals
<1> QED BY <1>1, <1>3, <1>5, SizeIs

\* Pieces of the same length.
LEMMA SizeOfFlatten ==
  ASSUME NEW n \in Nat, NEW f, On(f, n), NEW e \in Nat,
         \A i \in 1..n : IsMessage(f[i]) /\ Size(f[i]) = e
  PROVE  IsMessage(FlattenSeq(f)) /\ Size(FlattenSeq(f)) = n * e
<1>1. \A i \in 1..n : IsSeq(f[i])
  BY DEF IsMessage
<1>2. CASE n = 0
  <2>1. FlattenSeq(f) = <<>>
    BY <1>1, <1>2, FlattenIs
  <2> QED BY <1>2, <2>1, SizeOfEmpty
<1>3. CASE n # 0
  <2>1. PICK g : Flattening(g, f, n)
    BY <1>1, <1>3, FlattenIs
  <2> DEFINE T0 == {i \in 0..n - 1 : IsMessage(g[i + 1]) /\ Size(g[i + 1]) = (i + 1) * e}
  <2>2. 0 \in T0
    <3>1. g[1] = f[1] /\ IsMessage(f[1]) /\ Size(f[1]) = e /\ 1 * e = e
      BY <1>3, <2>1 DEF Flattening
    <3>2. 0 \in 0..n - 1 /\ 0 + 1 = 1
      BY <1>3
    <3> QED BY <3>1, <3>2
  <2>3. ASSUME NEW i \in 0..(n - 1) - 1, i \in T0 PROVE i + 1 \in T0
    <3>1. PICK j \in 1..n - 1 : j = i + 1
      BY <1>3
    <3>2. j + 1 \in 1..n
      BY <1>3
    <3>3. g[j + 1] = g[j] \o f[j + 1]
      BY <2>1 DEF Flattening
    <3>4. IsMessage(g[j]) /\ Size(g[j]) = j * e
      BY <2>3, <3>1
    <3>5. IsMessage(f[j + 1]) /\ Size(f[j + 1]) = e
      BY <3>2
    <3>6. /\ IsMessage(g[j] \o f[j + 1])
          /\ Size(g[j] \o f[j + 1]) = Size(g[j]) + Size(f[j + 1])
      BY <3>4, <3>5, SizeOfConcat
    <3>7. j * e + e = (j + 1) * e
      OBVIOUS
    <3>8. IsMessage(g[j + 1]) /\ Size(g[j + 1]) = (j + 1) * e
      BY <3>3, <3>4, <3>5, <3>6, <3>7
    <3> QED BY <3>1, <3>8
  <2>4. n - 1 \in Nat
    BY <1>3
  <2>5. n - 1 \in T0
    <3> HIDE DEF T0
    <3> QED BY <2>2, <2>3, <2>4, Climb
  <2>6. (n - 1) + 1 = n
    OBVIOUS
  <2>7. IsMessage(g[n]) /\ Size(g[n]) = n * e
    BY <2>5, <2>6
  <2> QED BY <2>1, <2>7 DEF Flattening
<1> QED BY <1>2, <1>3

\* The first k elements of a sequence.
LEMMA PrefixIs ==
  ASSUME NEW s, IsSeq(s), NEW k \in 0..Len(s)
  PROVE  /\ IsSeq(SubSeq(s, 1, k)) /\ Len(SubSeq(s, 1, k)) = k
         /\ \A j \in 1..k : SubSeq(s, 1, k)[j] = s[j]
<1>1. PICK S : s \in Seq(S)
  BY DEF IsSeq
<1> DEFINE p == SubSeq(s, 1, k)
<1>2. p \in Seq(S) /\ Len(p) = k /\ \A j \in 1..k : p[j] = s[j]
  BY <1>1
<1> QED BY <1>2 DEF IsSeq

\* Size does not depend on the module it is taken from.
LEMMA SizeIsSame == \A m : H!Size(m) = Size(m)
BY DEF H!Size, Size

\* The byte after the first part of a message.
LEMMA ByteAfter ==
  ASSUME NEW a, NEW b, IsMessage(a), IsMessage(b), Len(b) # 0
  PROVE  H!ByteAt(a \o b, Size(a)) = b[1].value
<1> DEFINE m == a \o b
           k == Len(a) + 1
           Here(i) == H!Size(SubSeq(m, 1, i - 1)) = Size(a)
<1>1. IsMessage(m) /\ IsSeq(a) /\ IsSeq(b)
  BY SizeOfConcat DEF IsMessage
<1>2. /\ Len(a) \in Nat /\ Len(b) \in Nat \ {0} /\ Len(m) = Len(a) + Len(b)
      /\ m[k] = b[1] /\ SubSeq(m, 1, Len(a)) = a
  <2>1. Len(a) \in Nat /\ Len(b) \in Nat \ {0}
    BY <1>1, SeqIs
  <2>2. Len(m) = Len(a) + Len(b) /\ \A i \in 1..Len(b) : m[Len(a) + i] = b[i]
    BY <1>1, ConcatIsSeq
  <2>3. 1 \in 1..Len(b)
    BY <2>1
  <2>4. SubSeq(m, 1, Len(a)) = a
    BY <1>1, ConcatPieces
  <2> QED BY <2>1, <2>2, <2>3, <2>4
<1>3. IsSeq(m) /\ DOMAIN m = 1..Len(m)
  BY <1>1, SeqIs DEF IsMessage
<1>4. H!ByteAt(m, Size(a)) = m[CHOOSE i \in DOMAIN m : Here(i)].value
  BY DEF H!ByteAt
<1> HIDE DEF m
<1>5. PICK g : Totals(g, m) /\ \A i \in 0..Len(m) : g[i] \in Nat
  BY <1>1, TotalsExist
<1>6. ASSUME NEW i \in 0..Len(m) PROVE Size(SubSeq(m, 1, i)) = g[i]
  <2> DEFINE p == SubSeq(m, 1, i)
  <2>2. IsSeq(p) /\ Len(p) = i /\ \A j \in 1..i : p[j] = m[j]
    BY <1>3, PrefixIs
  <2> HIDE DEF p
  <2>3. ASSUME NEW j \in 1..i PROVE p[j] = m[j] /\ j \in 1..Len(m)
    BY <1>2, <2>2
  <2>4. IsMessage(p)
    BY <1>1, <2>2, <2>3 DEF IsMessage
  <2>5. Totals(g, p)
    BY <1>5, <2>2, <2>3 DEF Totals
  <2>6. Size(p) = g[i]
    BY <2>2, <2>4, <2>5, SizeIs
  <2> QED BY <2>6 DEF p
<1>7. Len(a) \in 0..Len(m) /\ k \in DOMAIN m /\ k - 1 = Len(a)
  BY <1>2, <1>3
<1>8. Size(a) = g[Len(a)]
  BY <1>2, <1>6, <1>7
<1>9. Here(k)
  BY <1>2, <1>7, SizeIsSame
<1>10. ASSUME NEW i \in DOMAIN m, Here(i) PROVE i = k
  <2>1. i - 1 \in 0..Len(m)
    BY <1>2, <1>3
  <2>2. g[i - 1] = g[Len(a)]
    BY <1>6, <1>8, <1>10, <2>1, SizeIsSame
  <2>3. ~(i - 1 < Len(a)) /\ ~(Len(a) < i - 1)
    <3>1. g[i - 1] \in Nat
      BY <1>5, <2>1
    <3>2. \A u, v \in 0..Len(m) : u < v => g[u] < g[v]
      BY <1>1, <1>5, TotalsGrow
    <3> QED BY <1>7, <2>1, <2>2, <3>1, <3>2
  <2> QED BY <1>2, <1>3, <2>1, <2>3
<1> HIDE DEF Here
<1>11. (CHOOSE i \in DOMAIN m : Here(i)) = k
  BY <1>7, <1>9, <1>10
<1> QED BY <1>2, <1>4, <1>11 DEF m

-----------------------------------------------------------------------------
(***************************************************************************)
(* Where a tile of Hextile ends.                                           *)
(***************************************************************************)

\* The lengths of fields.
LEMMA FieldBytes ==
  /\ \A v : H!Byte(v).bytes = 1 /\ H!Byte(v).value = v
  /\ \A b, c : H!Pixel(b, c).bytes = b
  /\ \A flags : H!FlagByte(flags).bytes = 1
BY DEF H!Byte, H!Field, H!Pixel, H!FlagByte

\* The flags are a byte; each colour is a pixel.
LEMMA OpeningSize ==
  ASSUME NEW bpp \in Nat \ {0}, NEW scan, NEW flags
  PROVE  /\ IsMessage(Opening(bpp, scan, flags))
         /\ Size(Opening(bpp, scan, flags)) = 1 + (IF "bg" \in flags THEN bpp ELSE 0)
                                              + (IF "fg" \in flags THEN bpp ELSE 0)
<1> DEFINE f == <<H!FlagByte(flags)>>
           p == H!Pixel(bpp, H!Background(scan))
           q == H!Pixel(bpp, H!Foreground(scan))
           u == IF "bg" \in flags THEN <<p>> ELSE <<>>
           w == IF "fg" \in flags THEN <<q>> ELSE <<>>
           nu == IF "bg" \in flags THEN bpp ELSE 0
           nw == IF "fg" \in flags THEN bpp ELSE 0
<1>1. IsMessage(f) /\ Size(f) = 1
  BY FieldBytes, SizeOfSingle
<1>2. p.bytes = bpp /\ q.bytes = bpp
  BY FieldBytes
<1> HIDE DEF p, q
<1>3. IsMessage(u) /\ Size(u) = nu
  <2>1. CASE "bg" \in flags
    BY <1>2, <2>1, SizeOfSingle
  <2>2. CASE "bg" \notin flags
    BY <2>2, SizeOfEmpty
  <2> QED BY <2>1, <2>2
<1>4. IsMessage(w) /\ Size(w) = nw
  <2>1. CASE "fg" \in flags
    BY <1>2, <2>1, SizeOfSingle
  <2>2. CASE "fg" \notin flags
    BY <2>2, SizeOfEmpty
  <2> QED BY <2>1, <2>2
<1>5. Opening(bpp, scan, flags) = f \o u \o w
  BY DEF Opening, p, q
<1> HIDE DEF f, u, w, nu, nw
<1>6. IsMessage(f \o u) /\ Size(f \o u) = 1 + nu
  BY <1>1, <1>3, SizeOfConcat
<1>7. IsMessage((f \o u) \o w) /\ Size((f \o u) \o w) = Size(f \o u) + Size(w)
  BY <1>4, <1>6, SizeOfConcat
<1> QED BY <1>4, <1>5, <1>6, <1>7 DEF nu, nw

\* The bytes of a box.
Each(flags, bpp) == 2 + (IF "coloured" \in flags THEN bpp ELSE 0)

\* A box is two bytes, and a pixel if it is coloured.
LEMMA BoxSize ==
  ASSUME NEW bpp \in Nat \ {0}, NEW flags, NEW box
  PROVE  /\ IsMessage(H!BoxFields(box, flags, bpp))
         /\ Size(H!BoxFields(box, flags, bpp)) = Each(flags, bpp)
<1> DEFINE x == H!Byte(box.box.x * 16 + box.box.y)
           y == H!Byte((box.box.w - 1) * 16 + box.box.h - 1)
           p == H!Pixel(bpp, box.colour)
           u == IF "coloured" \in flags THEN <<p>> ELSE <<>>
           w == <<x, y>>
           nu == IF "coloured" \in flags THEN bpp ELSE 0
<1>1. x.bytes = 1 /\ y.bytes = 1 /\ p.bytes = bpp
  BY FieldBytes
<1>2. H!BoxFields(box, flags, bpp) = u \o w
  BY DEF H!BoxFields
<1> HIDE DEF x, y, p
<1>3. IsMessage(u) /\ Size(u) = nu
  <2>1. CASE "coloured" \in flags
    BY <1>1, <2>1, SizeOfSingle
  <2>2. CASE "coloured" \notin flags
    BY <2>2, SizeOfEmpty
  <2> QED BY <2>1, <2>2
<1>4. IsMessage(w) /\ Size(w) = 2
  <2>1. w \in Seq({x, y}) /\ Len(w) = 2 /\ w[1] = x /\ w[2] = y
    OBVIOUS
  <2> HIDE DEF w
  <2>2. IsSeq(w) /\ \A i \in 1..Len(w) : w[i].bytes = 1
    BY <1>1, <2>1 DEF IsSeq
  <2>3. IsMessage(w) /\ Size(w) = Len(w) * 1
    BY <2>2, SizeOfEqual
  <2> QED BY <2>1, <2>3
<1>5. nu \in Nat
  OBVIOUS
<1> HIDE DEF u, w, nu
<1>6. IsMessage(u \o w) /\ Size(u \o w) = nu + 2
  BY <1>3, <1>4, SizeOfConcat
<1> QED BY <1>2, <1>5, <1>6 DEF Each, nu

\* The number of boxes is a byte in front of them.
LEMMA ClosingSize ==
  ASSUME NEW bpp \in Nat \ {0}, NEW flags, "subrects" \in flags, NEW boxes, IsSeq(boxes)
  PROVE  LET b == Closing(bpp, flags, boxes)
         IN /\ IsMessage(b) /\ Len(b) # 0 /\ b[1].value = Len(boxes)
            /\ Size(b) = 1 + Len(boxes) * Each(flags, bpp)
<1> DEFINE n == Len(boxes)
           e == Each(flags, bpp)
           f == [i \in DOMAIN boxes |-> H!BoxFields(boxes[i], flags, bpp)]
           x == H!Byte(n)
           w == Boxed(bpp, flags, boxes)
<1>1. n \in Nat /\ DOMAIN boxes = 1..n /\ e \in Nat
  BY SeqIs DEF Each
<1>2. On(f, n)
  BY <1>1 DEF On
<1>3. \A i \in 1..n : IsMessage(f[i]) /\ Size(f[i]) = e
  BY <1>1, BoxSize
<1>4. w = FlattenSeq(f)
  BY DEF Boxed
<1>5. x.bytes = 1 /\ x.value = n
  BY FieldBytes
<1>6. Closing(bpp, flags, boxes) = <<x>> \o w
  BY DEF Closing
<1> HIDE DEF f, x, w, n, e
<1>7. IsMessage(w) /\ Size(w) = n * e
  BY <1>1, <1>2, <1>3, <1>4, SizeOfFlatten
<1>8. IsMessage(<<x>>) /\ Size(<<x>>) = 1
  BY <1>5, SizeOfSingle
<1>9. IsMessage(<<x>> \o w) /\ Size(<<x>> \o w) = 1 + n * e
  BY <1>7, <1>8, SizeOfConcat
<1>10. IsSeq(w) /\ Len(w) \in Nat
  BY <1>7, SeqIs DEF IsMessage
<1>11. Len(<<x>> \o w) = 1 + Len(w) /\ (<<x>> \o w)[1] = x
  BY <1>10, HeadIs
<1>12. Len(<<x>> \o w) # 0 /\ (<<x>> \o w)[1].value = n
  BY <1>5, <1>10, <1>11
<1> QED BY <1>6, <1>9, <1>12 DEF n, e

\* The end that ZlibHex finds from a tile's message is the end of the message.
LEMMA TileSizeIs ==
  ASSUME NEW t \in Tiles, NEW bpp \in Nat \ {0}, NEW bg, NEW fg
  PROVE  LET m == H!HextileTile(t, bpp, bg, fg).message
         IN H!TileSize(t, m, bpp) = Size(m)
<1> DEFINE scan == H!Scan(t.px)
           flags == H!Unknown(scan, bg, fg)
           boxes == H!Rectify(t, H!Background(scan))
           m == H!HextileTile(t, bpp, bg, fg).message
<1>1. m = H!Coded(t, bpp, bg, fg, scan, flags, boxes).message
  BY DEF H!HextileTile, H!Scanned
<1>2. IsSeq(boxes)
  BY RectifyIsSeq
<1>3. flags \subseteq HexFlags
  BY UnknownIs
<1> HIDE DEF m, scan, flags, boxes
<1>4. CASE "subrects" \in flags /\ Len(boxes) > H!MostBoxes(t, bpp, flags)
  <2> DEFINE x == H!FlagByte({"raw"})
             p == H!Pixels(bpp, t.px)
  <2>1. m = <<x>> \o p
    BY <1>1, <1>4 DEF H!Coded
  <2>2. H!HasBit(m, 1)
    BY <2>1, RawIs
  <2>3. IsMessage(<<x>>) /\ Size(<<x>>) = 1
    BY FieldBytes, SizeOfSingle
  <2>4. IsMessage(p) /\ Size(p) = H!Area(t) * bpp
    <3>1. p = T!Pixels(bpp, t.px)
      BY DEF T!Pixels, H!Pixels, T!Pixel, H!Pixel
    <3>2. IsSeq(p) /\ Len(p) = H!Area(t)
      BY <3>1, TileAssumption, AreaType, PixelsAre
    <3>3. \A i \in 1..Len(p) : p[i].bytes = bpp
      <4>1. DOMAIN p = DOMAIN t.px /\ DOMAIN p = 1..Len(p)
        BY <3>2, SeqIs DEF H!Pixels
      <4>2. \A i \in DOMAIN t.px : p[i] = H!Pixel(bpp, t.px[i])
        BY DEF H!Pixels
      <4> HIDE DEF p
      <4> QED BY <4>1, <4>2, FieldBytes
    <3> HIDE DEF p
    <3>4. IsMessage(p) /\ Size(p) = Len(p) * bpp
      BY <3>2, <3>3, SizeOfEqual
    <3> QED BY <3>2, <3>4
  <2> HIDE DEF x, p
  <2>5. Size(<<x>> \o p) = 1 + H!Area(t) * bpp
    BY <2>3, <2>4, SizeOfConcat
  <2>6. H!TileSize(t, m, bpp) = 1 + H!Area(t) * bpp
    BY <2>2 DEF H!TileSize
  <2> QED BY <2>1, <2>5, <2>6 DEF m
<1>5. CASE ~("subrects" \in flags /\ Len(boxes) > H!MostBoxes(t, bpp, flags))
  <2> DEFINE a == Opening(bpp, scan, flags)
             b == Closing(bpp, flags, boxes)
             nu == IF "bg" \in flags THEN bpp ELSE 0
             nw == IF "fg" \in flags THEN bpp ELSE 0
             e == Each(flags, bpp)
  <2>1. m = H!HextileFields(bpp, scan, flags, boxes)
    BY <1>1, <1>5 DEF H!Coded
  <2>2. m = a \o b
    BY <2>1, FieldsSplit
  <2>3. m[1] = H!FlagByte(flags)
    BY <1>2, <2>1, FieldsAre
  <2>4. /\ ~H!HasBit(m, 1)
        /\ H!HasBit(m, 2) <=> "bg" \in flags
        /\ H!HasBit(m, 4) <=> "fg" \in flags
        /\ H!HasBit(m, 8) <=> "subrects" \in flags
        /\ H!HasBit(m, 16) <=> "coloured" \in flags
    BY <1>3, <2>3, FlagsRead
  <2>5. IsMessage(a) /\ Size(a) = 1 + nu + nw /\ Size(a) \in Nat
    <3>1. 1 + nu + nw \in Nat
      OBVIOUS
    <3> QED BY <3>1, OpeningSize
  <2>6. CASE "subrects" \notin flags
    <3>1. b = <<>>
      BY <2>6 DEF Closing
    <3> HIDE DEF a, b
    <3>2. Size(a \o b) = Size(a) + Size(b) /\ Size(b) = 0
      BY <2>5, <3>1, SizeOfEmpty, SizeOfConcat
    <3>3. H!TileSize(t, m, bpp) = 1 + nu + nw
      BY <2>4, <2>6 DEF H!TileSize
    <3> HIDE DEF nu, nw
    <3> QED BY <2>2, <2>5, <3>2, <3>3 DEF m
  <2>7. CASE "subrects" \in flags
    <3>1. /\ IsMessage(b) /\ Len(b) # 0 /\ b[1].value = Len(boxes)
          /\ Size(b) = 1 + Len(boxes) * e
      BY <1>2, <2>7, ClosingSize
    <3>2. H!TileSize(t, m, bpp) = (1 + nu + nw) + 1 + e * H!ByteAt(m, 1 + nu + nw)
      BY <2>4, <2>7 DEF H!TileSize, Each
    <3>3. e \in Nat /\ Len(boxes) \in Nat
      BY <1>2, SeqIs DEF Each
    <3> HIDE DEF a, b, nu, nw, e
    <3>4. Size(a \o b) = Size(a) + Size(b)
      BY <2>5, <3>1, SizeOfConcat
    <3>5. H!ByteAt(a \o b, Size(a)) = Len(boxes)
      BY <2>5, <3>1, ByteAfter
    <3>6. H!TileSize(t, m, bpp) = Size(a) + 1 + e * Len(boxes)
      BY <2>2, <2>5, <3>2, <3>5
    <3>7. Size(m) = Size(a) + (1 + Len(boxes) * e)
      BY <2>2, <3>1, <3>4
    <3>8. e * Len(boxes) = Len(boxes) * e /\ Len(boxes) * e \in Nat
      BY <3>3
    <3> QED BY <2>5, <3>6, <3>7, <3>8 DEF m
  <2> QED BY <2>6, <2>7
<1> QED BY <1>4, <1>5

(* ZlibHex, which compresses some tiles of a rectangle and not others, can *)
(* tell from the message of Hextile alone where each of its tiles ends:    *)
(* the size it works out from the flags and the number of boxes is the     *)
(* size of what the tile function of Hextile wrote.                        *)
THEOREM EndIsFound == Spec => []TakenApart
<1> DEFINE Inv == format \in Formats /\ TakenApart
<1>1. Init => Inv
  BY DEF Init, TakenApart
<1>2. Inv /\ [Next]_vars => Inv'
  <2> SUFFICES ASSUME Inv, [Next]_vars PROVE Inv'
    OBVIOUS
  <2>1. CASE UNCHANGED vars
    BY <2>1 DEF vars, TakenApart
  <2>2. CASE StartRect
    BY <2>2 DEF StartRect, TakenApart
  <2>3. CASE Written
    BY <2>3 DEF Written, TakenApart
  <2>4. ASSUME NEW t \in Tiles, Send(t) PROVE Inv'
    <3>1. CASE SendTrle(t)
      BY <3>1 DEF SendTrle, TakenApart
    <3>2. CASE SendHextile(t)
      <4> DEFINE m == H!HextileTile(t, format.bpp, ctx.bg, ctx.fg).message
      <4>1. sent'.tile = t /\ sent'.message = m /\ format' = format
        BY <3>2 DEF SendHextile, Showing
      <4>2. format.bpp \in Nat \ {0}
        BY FormatAssumption
      <4>3. H!TileSize(t, m, format.bpp) = Size(m)
        BY <4>2, TileSizeIs
      <4> HIDE DEF m
      <4> QED BY <4>1, <4>3 DEF TakenApart
    <3>3. CASE SendFresh(t)
      BY <3>3 DEF SendFresh, TakenApart
    <3> QED BY <2>4, <3>1, <3>2, <3>3 DEF Send
  <2> QED BY <2>1, <2>2, <2>3, <2>4 DEF Next
<1> QED BY <1>1, <1>2, PTL DEF Spec

-----------------------------------------------------------------------------
(***************************************************************************)
(* The room for a message of RRE or CoRRE.                                 *)
(***************************************************************************)

\* The loop of RRE and CoRRE.
RreSteps(a, t, bg) ==
  /\ a[0] = [done |-> [x \in 0..t.w - 1 |-> 0], boxes |-> <<>>]
  /\ \A i \in 1..H!Area(t) :
       a[i] = H!RreRectified(t, a[i - 1], (i - 1) % t.w, (i - 1) \div t.w, bg)
  /\ H!RreBoxes(t, bg) = a[H!Area(t)].boxes

\* It can be gone through.
LEMMA RreMade ==
  ASSUME NEW t \in Tiles, NEW bg
  PROVE  \E a : RreSteps(a, t, bg)
<1> DEFINE n == H!Area(t)
           start == [done |-> [x \in 0..t.w - 1 |-> 0], boxes |-> <<>>]
           Step(s, i) == H!RreRectified(t, s, (i - 1) % t.w, (i - 1) \div t.w, bg)
           Loop(g) == g = [i \in 0..n |-> IF i = 0 THEN start ELSE Step(g[i - 1], i)]
           Good(k, g) == g[0] = start /\ \A i \in 1..k : g[i] = Step(g[i - 1], i)
           a == CHOOSE g : Loop(g)
<1>1. H!RreBoxes(t, bg) = a[n].boxes
  BY DEF H!RreBoxes
<1>2. n \in Nat
  BY AreaType
<1> HIDE DEF n, start, Step
<1>5. \E g : Good(n, g)
  <2> DEFINE T0 == {k \in 0..n : \E g : Good(k, g)}
  <2>1. 0 \in T0
    <3>1. Good(0, [i \in 0..0 |-> start])
      OBVIOUS
    <3> HIDE DEF Good
    <3> QED BY <1>2, <3>1
  <2>2. ASSUME NEW k \in 0..n - 1, k \in T0 PROVE k + 1 \in T0
    <3>1. PICK g : Good(k, g)
      BY <2>2
    <3> DEFINE h == [i \in 0..k + 1 |-> IF i = k + 1 THEN Step(g[k], k + 1) ELSE g[i]]
    <3>2. h[0] = start
      BY <1>2, <3>1
    <3>3. ASSUME NEW i \in 1..k + 1 PROVE h[i] = Step(h[i - 1], i)
      <4>1. CASE i = k + 1
        BY <1>2, <4>1
      <4>2. CASE i # k + 1
        <5>1. i \in 1..k /\ i \in 0..k + 1 /\ i - 1 \in 0..k + 1 /\ i - 1 # k + 1
          BY <1>2, <4>2
        <5>2. g[i] = Step(g[i - 1], i)
          BY <3>1, <5>1
        <5> QED BY <4>2, <5>1, <5>2
      <4> QED BY <4>1, <4>2
    <3> HIDE DEF h
    <3>4. Good(k + 1, h)
      BY <3>2, <3>3
    <3> HIDE DEF Good
    <3> QED BY <1>2, <3>4
  <2> HIDE DEF T0
  <2>3. n \in T0
    BY <1>2, <2>1, <2>2, Climb
  <2> QED BY <2>3 DEF T0
<1>6. \E g : Loop(g)
  <2>1. PICK g : Good(n, g)
    BY <1>5
  <2> DEFINE f == [i \in 0..n |-> g[i]]
  <2>2. ASSUME NEW i \in 0..n PROVE f[i] = IF i = 0 THEN start ELSE Step(f[i - 1], i)
    BY <1>2, <2>1
  <2>3. Loop(f)
    BY <2>2
  <2> HIDE DEF Loop
  <2> QED BY <2>3
<1>7. Loop(a)
  <2> HIDE DEF Loop
  <2> QED BY <1>6
<1> HIDE DEF a
<1>8. a[0] = start /\ \A i \in 1..n : a[i] = Step(a[i - 1], i)
  BY <1>2, <1>7
<1> HIDE DEF Loop
<1>9. RreSteps(a, t, bg)
  BY <1>1, <1>8 DEF RreSteps, n, start, Step
<1> QED BY <1>9

\* Its boxes are a sequence too.
LEMMA RreBoxesAreSeq ==
  ASSUME NEW t \in Tiles, NEW bg
  PROVE  IsSeq(H!RreBoxes(t, bg))
<1> DEFINE n == H!Area(t)
           Step(s, i) == H!RreRectified(t, s, (i - 1) % t.w, (i - 1) \div t.w, bg)
<1>1. PICK a : RreSteps(a, t, bg)
  BY RreMade
<1>2. n \in Nat
  BY AreaType
<1>3. ASSUME NEW s, NEW i, IsSeq(s.boxes) PROVE IsSeq(Step(s, i).boxes)
  <2>1. ASSUME NEW e PROVE IsSeq(Append(s.boxes, e))
    <3>1. PICK S : s.boxes \in Seq(S)
      BY <1>3 DEF IsSeq
    <3>2. Append(s.boxes, e) \in Seq(S \cup {e})
      BY <3>1
    <3> QED BY <3>2 DEF IsSeq
  <2>2. ASSUME NEW b, NEW c PROVE IsSeq(H!RreCut(s, b, c).boxes)
    <3>1. H!RreCut(s, b, c).boxes = Append(s.boxes, [box |-> b, colour |-> c])
      BY DEF H!RreCut
    <3> QED BY <2>1, <3>1
  <2> QED BY <1>3, <2>2, Zenon DEF H!RreRectified
<1>4. IsSeq(a[0].boxes)
  <2>1. a[0].boxes = <<>>
    BY <1>1 DEF RreSteps
  <2> QED BY <2>1, EmptyIsSeq
<1>8. H!RreBoxes(t, bg) = a[n].boxes /\ \A i \in 1..n : a[i] = Step(a[i - 1], i)
  BY <1>1 DEF RreSteps
<1> HIDE DEF n, Step
<1> DEFINE T1 == {i \in 0..n : IsSeq(a[i].boxes)}
<1>9. 0 \in T1
  BY <1>2, <1>4
<1>10. ASSUME NEW i \in 0..n - 1, i \in T1 PROVE i + 1 \in T1
  <2>1. PICK j \in 1..n : j = i + 1
    BY <1>2
  <2>2. a[j] = Step(a[j - 1], j) /\ j - 1 = i
    BY <1>8, <2>1
  <2> QED BY <1>3, <1>10, <2>1, <2>2
<1>11. n \in T1
  <2> HIDE DEF T1
  <2> QED BY <1>2, <1>9, <1>10, Climb
<1> QED BY <1>8, <1>11

\* Pixels of b bytes.
LEMMA PixelsSize ==
  ASSUME NEW b \in Nat \ {0}, NEW colours \in Seq(Int)
  PROVE  /\ IsMessage(T!Pixels(b, colours))
         /\ Size(T!Pixels(b, colours)) = Len(colours) * b
         /\ H!Pixels(b, colours) = T!Pixels(b, colours)
<1> DEFINE p == T!Pixels(b, colours)
<1>1. IsSeq(p) /\ Len(p) = Len(colours)
  BY PixelsAre
<1>2. ASSUME NEW i \in 1..Len(p) PROVE p[i].bytes = b
  <2>1. i \in DOMAIN colours
    BY <1>1
  <2>2. p[i] = T!Pixel(b, colours[i])
    BY <2>1 DEF T!Pixels
  <2> HIDE DEF p
  <2> QED BY <2>2 DEF T!Pixel
<1>3. H!Pixels(b, colours) = p
  BY DEF T!Pixels, H!Pixels, T!Pixel, H!Pixel
<1> HIDE DEF p
<1>4. IsMessage(p) /\ Size(p) = Len(p) * b
  BY <1>1, <1>2, SizeOfEqual
<1> QED BY <1>1, <1>3, <1>4 DEF p

\* A box of RRE and one of CoRRE: a colour, and four numbers of two bytes or one.
LEMMA RreBoxSize ==
  ASSUME NEW bpp \in Nat \ {0}, NEW place \in Nat \ {0}, NEW box
  PROVE  /\ IsMessage(H!RreFields(box, bpp, place))
         /\ Size(H!RreFields(box, bpp, place)) = bpp + 4 * place
<1> DEFINE p == H!Pixel(bpp, box.colour)
           x == H!Field(place, box.box.x)
           y == H!Field(place, box.box.y)
           w == H!Field(place, box.box.w)
           h == H!Field(place, box.box.h)
           r == <<x, y, w, h>>
<1>1. /\ p.bytes = bpp /\ x.bytes = place /\ y.bytes = place
      /\ w.bytes = place /\ h.bytes = place
  BY DEF H!Pixel, H!Field
<1>2. H!RreFields(box, bpp, place) = <<p, x, y, w, h>>
  BY DEF H!RreFields
<1> HIDE DEF p, x, y, w, h
<1>3. <<p, x, y, w, h>> = <<p>> \o r
  OBVIOUS
<1>4. IsMessage(r) /\ Size(r) = 4 * place
  <2>1. /\ r \in Seq({x, y, w, h}) /\ Len(r) = 4
        /\ r[1] = x /\ r[2] = y /\ r[3] = w /\ r[4] = h
    OBVIOUS
  <2> HIDE DEF r
  <2>2. IsSeq(r) /\ \A i \in 1..Len(r) : r[i].bytes = place
    BY <1>1, <2>1 DEF IsSeq
  <2>3. IsMessage(r) /\ Size(r) = Len(r) * place
    BY <2>2, SizeOfEqual
  <2> QED BY <2>1, <2>3
<1>5. IsMessage(<<p>>) /\ Size(<<p>>) = bpp
  BY <1>1, SizeOfSingle
<1> HIDE DEF r
<1>6. IsMessage(<<p>> \o r) /\ Size(<<p>> \o r) = bpp + 4 * place
  BY <1>4, <1>5, SizeOfConcat
<1> QED BY <1>2, <1>3, <1>6

\* The three numbers in front of the boxes, and the boxes.
LEMMA RreSize ==
  ASSUME NEW bpp \in Nat \ {0}, NEW place \in Nat \ {0}, NEW encoding, NEW bg,
         NEW boxes, IsSeq(boxes)
  PROVE  Size(<<H!Header(encoding), H!Field(4, Len(boxes)), H!Pixel(bpp, bg)>>
              \o FlattenSeq([i \in DOMAIN boxes |-> H!RreFields(boxes[i], bpp, place)]))
           = 16 + bpp + Len(boxes) * (bpp + 4 * place)
<1> DEFINE n == Len(boxes)
           e == bpp + 4 * place
           f == [i \in DOMAIN boxes |-> H!RreFields(boxes[i], bpp, place)]
           x == H!Header(encoding)
           y == H!Field(4, Len(boxes))
           z == H!Pixel(bpp, bg)
           h == <<x, y, z>>
           w == FlattenSeq(f)
<1>1. n \in Nat /\ DOMAIN boxes = 1..n /\ e \in Nat
  BY SeqIs
<1>2. On(f, n)
  BY <1>1 DEF On
<1>3. \A i \in 1..n : IsMessage(f[i]) /\ Size(f[i]) = e
  BY <1>1, RreBoxSize
<1>4. x.bytes = 12 /\ y.bytes = 4 /\ z.bytes = bpp
  BY DEF H!Header, H!Field, H!Pixel
<1> HIDE DEF f, x, y, z, e, n
<1>5. h \in Seq({x, y, z}) /\ Len(h) = 3 /\ h[1] = x /\ h[2] = y /\ h[3] = z
  OBVIOUS
<1> HIDE DEF h
<1>6. IsSeq(h)
  BY <1>5 DEF IsSeq
<1>7. IsMessage(h)
  BY <1>4, <1>5, <1>6 DEF IsMessage
<1> DEFINE g == [i \in 0..3 |-> IF i = 0 THEN 0 ELSE IF i = 1 THEN 12
                                ELSE IF i = 2 THEN 16 ELSE 16 + bpp]
<1>8. g[0] = 0 /\ g[1] = 12 /\ g[2] = 16 /\ g[3] = 16 + bpp
  OBVIOUS
<1> HIDE DEF g
<1>9. Totals(g, h)
  BY <1>4, <1>5, <1>8 DEF Totals
<1>10. IsMessage(h) /\ Size(h) = 16 + bpp
  BY <1>5, <1>7, <1>8, <1>9, SizeIs
<1>11. IsMessage(w) /\ Size(w) = n * e
  BY <1>1, <1>2, <1>3, SizeOfFlatten
<1> HIDE DEF w
<1>12. Size(h \o w) = (16 + bpp) + n * e
  BY <1>10, <1>11, SizeOfConcat
<1> QED BY <1>12 DEF h, w, f, x, y, z, e, n

\* The greater of two numbers.
LEMMA MaxOfTwo ==
  ASSUME NEW a \in Int, NEW b \in Int
  PROVE  Max({a, b}) \in Int /\ Max({a, b}) >= a /\ Max({a, b}) >= b
<1> DEFINE S == {a, b}
           Top(x) == \A y \in S : x >= y
<1>1. \E x \in S : Top(x)
  <2>1. CASE a >= b
    BY <2>1
  <2>2. CASE b >= a
    BY <2>2
  <2> QED BY <2>1, <2>2
<1>2. Max(S) = CHOOSE x \in S : Top(x)
  BY DEF Max
<1>3. Max(S) \in S /\ Top(Max(S))
  <2> HIDE DEF Top, S
  <2> QED BY <1>1, <1>2
<1> QED BY <1>3

\* Products of numbers.
LEMMA Products ==
  /\ \A x, y \in Nat : x * y \in Nat
  /\ \A x, y, z \in Nat : x <= y => x * z <= y * z
  /\ \A x \in Nat, y \in Nat \ {0} : x <= x * y
<1>1. \A x, y \in Nat : x * y \in Nat
  OBVIOUS
<1>2. ASSUME NEW x \in Nat, NEW y \in Nat, NEW z \in Nat, x <= y PROVE x * z <= y * z
  <2>1. y - x \in Nat
    BY <1>2
  <2>2. (y - x) * z \in Nat
    BY <1>1, <2>1
  <2>3. (y - x) * z = y * z - x * z
    OBVIOUS
  <2>4. x * z \in Nat /\ y * z \in Nat
    BY <1>1
  <2> QED BY <2>2, <2>3, <2>4
<1>3. ASSUME NEW x \in Nat, NEW y \in Nat \ {0} PROVE x <= x * y
  <2>1. y - 1 \in Nat
    OBVIOUS
  <2>2. x * (y - 1) \in Nat
    BY <1>1, <2>1
  <2>3. x * (y - 1) = x * y - x /\ x * y \in Nat
    BY <1>1
  <2> QED BY <2>2, <2>3
<1> QED BY <1>1, <1>2, <1>3

\* The room of a tile of RRE or CoRRE, with the header.
RreRoom(t, bpp) == 12 + Max({Area(t) * bpp, 4 + bpp})

\* It is enough for the pixels, and for a header and the background without a box.
LEMMA RreRoomType ==
  ASSUME NEW t \in Tiles, NEW bpp \in Nat \ {0}
  PROVE  /\ Area(t) \in Nat /\ Area(t) <= Area(t) * bpp /\ Area(t) * bpp \in Nat
         /\ RreRoom(t, bpp) \in Int
         /\ RreRoom(t, bpp) >= 12 + Area(t) * bpp /\ RreRoom(t, bpp) >= 16 + bpp
<1>1. Area(t) \in Nat /\ Area(t) <= Area(t) * bpp /\ Area(t) * bpp \in Nat
  BY AreaType, Products
<1> DEFINE a == Area(t) * bpp
           b == 4 + bpp
<1>2. a \in Int /\ b \in Int
  BY <1>1
<1>3. 12 + b = 16 + bpp
  OBVIOUS
<1> HIDE DEF a, b
<1>4. Max({a, b}) \in Int /\ Max({a, b}) >= a /\ Max({a, b}) >= b
  BY <1>2, MaxOfTwo
<1>5. RreRoom(t, bpp) = 12 + Max({a, b})
  BY DEF RreRoom, a, b
<1>6. /\ RreRoom(t, bpp) \in Int
      /\ RreRoom(t, bpp) >= 12 + a /\ RreRoom(t, bpp) >= 12 + b
  BY <1>2, <1>4, <1>5
<1> QED BY <1>1, <1>3, <1>6 DEF a, b

\* With a limit on the boxes that leaves room for the numbers in front of them.
LEMMA RreCodedFits ==
  ASSUME NEW t \in Tiles, NEW bpp \in Nat \ {0}, NEW place \in Nat \ {0}, NEW encoding,
         NEW bg, NEW boxes, IsSeq(boxes), NEW most \in Int,
         most > 0 => most * (bpp + 4 * place) + 4 + bpp <= Area(t)
  PROVE  Size(H!RreCoded(t, bpp, place, encoding, bg, boxes, most)) <= RreRoom(t, bpp)
<1> DEFINE n == Len(boxes)
           e == bpp + 4 * place
           m == H!RreCoded(t, bpp, place, encoding, bg, boxes, most)
           raw == (boxes # <<>> /\ n > most) \/ (encoding = 2 /\ most <= 0)
<1>1. n \in Nat /\ e \in Nat
  BY SeqIs
<1>2. CASE raw
  <2> DEFINE x == H!Header(0)
             p == H!Pixels(bpp, t.px)
  <2>1. m = <<x>> \o p
    BY <1>2 DEF H!RreCoded
  <2>2. x.bytes = 12
    BY DEF H!Header, H!Field
  <2>3. IsMessage(p) /\ Size(p) = Area(t) * bpp
    BY TileAssumption, PixelsSize
  <2> HIDE DEF x, p, m
  <2>4. IsMessage(<<x>>) /\ Size(<<x>>) = 12
    BY <2>2, SizeOfSingle
  <2>5. Size(<<x>> \o p) = 12 + Area(t) * bpp
    BY <2>3, <2>4, SizeOfConcat
  <2>6. Size(m) <= RreRoom(t, bpp)
    BY <2>1, <2>5, RreRoomType
  <2> QED BY <2>6 DEF m
<1>3. CASE ~raw
  <2>1. Size(m) = 16 + bpp + n * e
    <3>1. m = <<H!Header(encoding), H!Field(4, n), H!Pixel(bpp, bg)>>
                \o FlattenSeq([i \in DOMAIN boxes |-> H!RreFields(boxes[i], bpp, place)])
      BY <1>3 DEF H!RreCoded, H!FlattenSeq, FlattenSeq
    <3> HIDE DEF m
    <3> QED BY <3>1, RreSize
  <2> HIDE DEF m
  <2>2. CASE n = 0
    <3>1. n * e = 0
      BY <1>1, <2>2
    <3> QED BY <2>1, <3>1, RreRoomType DEF m
  <2>3. CASE n # 0
    <3>1. boxes # <<>>
      BY <2>3, EmptyIsSeq
    <3>2. n <= most /\ most > 0 /\ most \in Nat
      BY <1>1, <1>3, <2>3, <3>1
    <3> HIDE DEF n, e
    <3>3. n * e <= most * e /\ n * e \in Nat /\ most * e \in Nat
      BY <1>1, <3>2, Products
    <3>4. most * e + 4 + bpp <= Area(t)
      BY <3>2 DEF e
    <3>5. 16 + bpp + n * e <= 12 + Area(t)
      BY <3>3, <3>4, RreRoomType
    <3>6. Size(m) <= RreRoom(t, bpp)
      BY <2>1, <3>3, <3>5, RreRoomType
    <3> QED BY <3>6 DEF m
  <2> QED BY <2>2, <2>3
<1> QED BY <1>2, <1>3

\* The limits leave that room.
LEMMA RreFits ==
  ASSUME NEW t \in Tiles, NEW bpp \in {1, 2, 4}
  PROVE  /\ Size(H!RreTile(t, bpp)) <= RreRoom(t, bpp)
         /\ Size(H!CorreTile(t, bpp)) <= RreRoom(t, bpp)
<1> DEFINE bg == H!Background(H!Scan(t.px))
           boxes == H!RreBoxes(t, bg)
           a == H!Area(t)
           rre == (a - 4 - bpp) \div (8 + bpp)
           corre == a \div (4 + bpp) - 1
<1>1. IsSeq(boxes)
  BY RreBoxesAreSeq
<1>2. a \in Nat /\ a = Area(t)
  BY AreaType
<1>3. /\ H!RreTile(t, bpp) = H!RreCoded(t, bpp, 2, 2, bg, boxes, rre)
      /\ H!CorreTile(t, bpp) = H!RreCoded(t, bpp, 1, 4, bg, boxes, corre)
  BY DEF H!RreTile, H!CorreTile, H!Rre, H!Corre
<1> HIDE DEF a, bg, boxes
<1>4. rre \in Int /\ rre * (bpp + 4 * 2) + 4 + bpp <= a
  <2>1. CASE bpp = 1
    BY <1>2, <2>1
  <2>2. CASE bpp = 2
    BY <1>2, <2>2
  <2>3. CASE bpp = 4
    BY <1>2, <2>3
  <2> QED BY <2>1, <2>2, <2>3
<1>5. corre \in Int /\ corre * (bpp + 4 * 1) + 4 + bpp <= a
  <2>1. CASE bpp = 1
    BY <1>2, <2>1
  <2>2. CASE bpp = 2
    BY <1>2, <2>2
  <2>3. CASE bpp = 4
    BY <1>2, <2>3
  <2> QED BY <2>1, <2>2, <2>3
<1> HIDE DEF rre, corre
<1>6. Size(H!RreCoded(t, bpp, 2, 2, bg, boxes, rre)) <= RreRoom(t, bpp)
  BY <1>1, <1>2, <1>4, RreCodedFits
<1>7. Size(H!RreCoded(t, bpp, 1, 4, bg, boxes, corre)) <= RreRoom(t, bpp)
  BY <1>1, <1>2, <1>5, RreCodedFits
<1> QED BY <1>3, <1>6, <1>7

-----------------------------------------------------------------------------
(***************************************************************************)
(* The room for a tile of Hextile.                                         *)
(***************************************************************************)

\* A tile has pixels.
LEMMA AreaIsPositive ==
  ASSUME NEW t \in Tiles
  PROVE  Area(t) \in Nat \ {0}
<1>1. t.w \in Nat \ {0} /\ t.h \in Nat \ {0}
  BY TileAssumption
<1>2. t.w <= t.w * t.h /\ t.w * t.h \in Nat
  BY <1>1, Products
<1> QED BY <1>1, <1>2 DEF Area

\* A foreground is only sent with boxes.
LEMMA ForegroundHasBoxes ==
  ASSUME NEW scan, NEW bg, NEW fg, "fg" \in H!Unknown(scan, bg, fg)
  PROVE  "subrects" \in H!Unknown(scan, bg, fg)
BY DEF H!Unknown, H!Flags

\* The limit leaves room for the flags, the colours and the number of boxes.
LEMMA LimitFits ==
  ASSUME NEW t \in Tiles, NEW bpp \in {1, 2, 4}, NEW flags,
         NEW n \in Nat, n <= H!MostBoxes(t, bpp, flags)
  PROVE  2 + (IF "bg" \in flags THEN bpp ELSE 0) + (IF "fg" \in flags THEN bpp ELSE 0)
           + n * Each(flags, bpp) <= 1 + Area(t)
<1> DEFINE nu == IF "bg" \in flags THEN bpp ELSE 0
           nw == IF "fg" \in flags THEN bpp ELSE 0
           e == Each(flags, bpp)
           a == H!Area(t)
           most == H!MostBoxes(t, bpp, flags)
<1>1. a \in Nat /\ a = Area(t)
  BY AreaType
<1>2. nu \in Nat /\ nw \in Nat /\ e \in {2, 3, 4, 6}
  BY DEF Each
<1>3. most = (a - 1 - nu - nw) \div e
  BY DEF H!MostBoxes, H!Bit, Each
<1> HIDE DEF nu, nw, e, a, most
<1>4. most \in Int /\ most * e <= a - 1 - nu - nw
  <2>1. CASE e = 2
    BY <1>1, <1>2, <1>3, <2>1
  <2>2. CASE e = 3
    BY <1>1, <1>2, <1>3, <2>2
  <2>3. CASE e = 4
    BY <1>1, <1>2, <1>3, <2>3
  <2>4. CASE e = 6
    BY <1>1, <1>2, <1>3, <2>4
  <2> QED BY <1>2, <2>1, <2>2, <2>3, <2>4
<1>5. n <= most /\ most \in Nat
  BY <1>4 DEF most
<1>6. n * e <= most * e /\ n * e \in Nat /\ most * e \in Nat
  BY <1>2, <1>5, Products
<1>7. 2 + nu + nw + n * e <= 1 + a
  BY <1>1, <1>2, <1>4, <1>6
<1> QED BY <1>1, <1>7 DEF nu, nw, e

\* However a tile of Hextile is sent, it takes no more than the raw one.
LEMMA HextileFits ==
  ASSUME NEW t \in Tiles, NEW bpp \in {1, 2, 4}, NEW bg, NEW fg
  PROVE  Size(H!HextileTile(t, bpp, bg, fg).message) <= 1 + Area(t) * bpp
<1> DEFINE scan == H!Scan(t.px)
           flags == H!Unknown(scan, bg, fg)
           boxes == H!Rectify(t, H!Background(scan))
           m == H!HextileTile(t, bpp, bg, fg).message
           nu == IF "bg" \in flags THEN bpp ELSE 0
           nw == IF "fg" \in flags THEN bpp ELSE 0
<1>1. m = H!Coded(t, bpp, bg, fg, scan, flags, boxes).message
  BY DEF H!HextileTile, H!Scanned
<1>2. IsSeq(boxes) /\ Len(boxes) \in Nat
  BY RectifyIsSeq, SeqIs
<1>3. "fg" \in flags => "subrects" \in flags
  BY ForegroundHasBoxes
<1>4. /\ Area(t) \in Nat \ {0} /\ bpp \in Nat \ {0} /\ Area(t) * bpp \in Nat
      /\ Area(t) <= Area(t) * bpp /\ bpp <= Area(t) * bpp
  <2>1. Area(t) \in Nat \ {0} /\ bpp \in Nat \ {0}
    BY AreaIsPositive
  <2>2. bpp <= bpp * Area(t) /\ Area(t) <= Area(t) * bpp /\ Area(t) * bpp \in Nat
    BY <2>1, Products
  <2>3. bpp * Area(t) = Area(t) * bpp
    BY <2>1
  <2> QED BY <2>1, <2>2, <2>3
<1> HIDE DEF m, scan, flags, boxes
<1>5. CASE "subrects" \in flags /\ Len(boxes) > H!MostBoxes(t, bpp, flags)
  <2> DEFINE x == H!FlagByte({"raw"})
             p == H!Pixels(bpp, t.px)
  <2>1. m = <<x>> \o p
    BY <1>1, <1>5 DEF H!Coded
  <2>2. IsMessage(<<x>>) /\ Size(<<x>>) = 1
    BY FieldBytes, SizeOfSingle
  <2>3. IsMessage(p) /\ Size(p) = Area(t) * bpp
    BY <1>4, TileAssumption, PixelsSize
  <2> HIDE DEF x, p
  <2>4. Size(<<x>> \o p) = 1 + Area(t) * bpp
    BY <2>2, <2>3, SizeOfConcat
  <2> QED BY <1>4, <2>1, <2>4 DEF m
<1>6. CASE ~("subrects" \in flags /\ Len(boxes) > H!MostBoxes(t, bpp, flags))
  <2> DEFINE a == Opening(bpp, scan, flags)
             b == Closing(bpp, flags, boxes)
             e == Each(flags, bpp)
  <2>1. m = H!HextileFields(bpp, scan, flags, boxes)
    BY <1>1, <1>6 DEF H!Coded
  <2>2. m = a \o b
    BY <2>1, FieldsSplit
  <2>3. IsMessage(a) /\ Size(a) = 1 + nu + nw
    BY <1>4, OpeningSize
  <2>4. CASE "subrects" \notin flags
    <3>1. b = <<>>
      BY <2>4 DEF Closing
    <3> HIDE DEF a, b
    <3>2. Size(a \o b) = Size(a) + Size(b) /\ Size(b) = 0
      BY <2>3, <3>1, SizeOfEmpty, SizeOfConcat
    <3>3. nw = 0 /\ nu \in Nat /\ nu <= bpp
      BY <1>3, <1>4, <2>4
    <3> HIDE DEF nu, nw
    <3>4. Size(m) <= 1 + Area(t) * bpp
      BY <1>4, <2>2, <2>3, <3>2, <3>3
    <3> QED BY <3>4 DEF m
  <2>5. CASE "subrects" \in flags
    <3>1. IsMessage(b) /\ Size(b) = 1 + Len(boxes) * e
      BY <1>2, <1>4, <2>5, ClosingSize
    <3>2. Len(boxes) <= H!MostBoxes(t, bpp, flags)
      <4>1. H!MostBoxes(t, bpp, flags) \in Int
        <5>1. H!Area(t) \in Nat
          BY AreaType
        <5>2. \A y \in Int : y \div 2 \in Int /\ y \div 3 \in Int
                             /\ y \div 4 \in Int /\ y \div 6 \in Int
          OBVIOUS
        <5>3. /\ H!Bit("bg", flags, bpp) \in Int /\ H!Bit("fg", flags, bpp) \in Int
              /\ 2 + H!Bit("coloured", flags, bpp) \in {2, 3, 4, 6}
          BY DEF H!Bit
        <5>4. H!Area(t) - 1 - H!Bit("bg", flags, bpp) - H!Bit("fg", flags, bpp) \in Int
          BY <5>1, <5>3
        <5> QED BY <5>2, <5>3, <5>4 DEF H!MostBoxes
      <4> QED BY <1>2, <1>6, <2>5, <4>1
    <3>3. 2 + nu + nw + Len(boxes) * e <= 1 + Area(t)
      BY <1>2, <3>2, LimitFits
    <3>4. Len(boxes) * e \in Nat
      <4>1. e \in Nat
        BY <1>4 DEF Each
      <4> QED BY <1>2, <4>1, Products
    <3>5. nu \in Nat /\ nw \in Nat
      BY <1>4
    <3> HIDE DEF a, b, nu, nw, e
    <3>6. Size(a \o b) = Size(a) + Size(b)
      BY <2>3, <3>1, SizeOfConcat
    <3>7. Size(m) <= 1 + Area(t) * bpp
      BY <1>4, <2>2, <2>3, <3>1, <3>3, <3>4, <3>5, <3>6
    <3> QED BY <3>7 DEF m
  <2> QED BY <2>4, <2>5
<1> QED BY <1>5, <1>6

-----------------------------------------------------------------------------
(***************************************************************************)
(* The lengths of runs.                                                    *)
(***************************************************************************)

\* g[i] is how many pixels the first i runs are.
RunSums(g, runs) ==
  /\ g[0] = 0
  /\ \A i \in 1..Len(runs) : g[i] = g[i - 1] + runs[i].length
  /\ \A i \in 0..Len(runs) : g[i] \in Nat

\* new is runs with a pixel of the colour c more, in the last run; h and g are the sums.
Grows(h, new, g, runs, c) ==
  /\ Len(new) \in Nat \ {0} /\ new[Len(new)].colour = c
  /\ \A i \in 1..Len(new) - 1 : i \in 1..Len(runs) /\ new[i].colour = runs[i].colour
  /\ \A i \in 0..Len(new) - 1 : h[i] = g[i]
  /\ \/ Len(new) = Len(runs) + 1
     \/ Len(new) = Len(runs) /\ runs[Len(runs)].colour = c

\* A pixel makes the last run longer or a new one.
LEMMA GrownSums ==
  ASSUME NEW runs \in Seq(Run), NEW c \in Int, NEW g, RunSums(g, runs)
  PROVE  \E h : /\ RunSums(h, T!Grown(runs, c))
                /\ h[Len(T!Grown(runs, c))] = g[Len(runs)] + 1
                /\ Grows(h, T!Grown(runs, c), g, runs, c)
<1> DEFINE k == Len(runs)
           new == T!Grown(runs, c)
<1>1. k \in Nat /\ \A i \in 1..k : runs[i].length \in Nat /\ runs[i] \in Run
  <2>1. \A i \in 1..k : runs[i] \in Run
    BY ElementOfSeq
  <2> QED BY <2>1 DEF Run
<1>2. g[0] = 0 /\ g[k] \in Nat
  BY <1>1 DEF RunSums
<1>3. CASE runs # <<>> /\ T!Last(runs).colour = c
  <2> DEFINE r == [runs[k] EXCEPT !.length = @ + 1]
             h == [i \in 0..k |-> IF i = k THEN g[k] + 1 ELSE g[i]]
  <2>1. k \in 1..k
    BY <1>1, <1>3
  <2>2. r.length = runs[k].length + 1
    BY <1>1, <2>1 DEF Run
  <2>3. new = [runs EXCEPT ![k] = r]
    BY <1>3, <2>1 DEF T!Grown
  <2> HIDE DEF r, new
  <2>4. Len(new) = k /\ new[k] = r /\ \A i \in 1..k : i # k => new[i] = runs[i]
    BY <2>1, <2>3
  <2>5. h[0] = 0 /\ h[k] = g[k] + 1 /\ \A i \in 0..k : h[i] \in Nat
    BY <1>1, <1>2, <2>1 DEF RunSums
  <2>6. ASSUME NEW i \in 1..k PROVE h[i] = h[i - 1] + new[i].length
    <3>1. g[i] = g[i - 1] + runs[i].length /\ g[i - 1] \in Nat
      BY <1>1 DEF RunSums
    <3>2. h[i - 1] = g[i - 1]
      BY <1>1
    <3>3. CASE i = k
      <4>1. h[i] = g[i] + 1
        BY <3>3, <2>5
      <4>2. new[i].length = runs[i].length + 1
        BY <2>2, <2>4, <3>3
      <4> HIDE DEF h
      <4> QED BY <1>1, <3>1, <3>2, <4>1, <4>2
    <3>4. CASE i # k
      <4>1. h[i] = g[i]
        BY <1>1, <3>4
      <4> HIDE DEF h
      <4> QED BY <2>4, <3>1, <3>2, <3>4, <4>1
    <3> QED BY <3>3, <3>4
  <2>7. \A i \in 0..k - 1 : h[i] = g[i]
    BY <1>1
  <2> HIDE DEF h
  <2>8. RunSums(h, new)
    BY <2>4, <2>5, <2>6 DEF RunSums
  <2>9. r.colour = runs[k].colour /\ runs[k].colour = c
    BY <1>1, <1>3, <2>1 DEF T!Last, Run, r
  <2>10. Grows(h, new, g, runs, c)
    BY <1>1, <2>1, <2>4, <2>7, <2>9 DEF Grows
  <2> QED BY <2>4, <2>5, <2>8, <2>10 DEF new
<1>4. CASE ~(runs # <<>> /\ T!Last(runs).colour = c)
  <2> DEFINE r == [colour |-> c, length |-> 1]
             h == [i \in 0..k + 1 |-> IF i = k + 1 THEN g[k] + 1 ELSE g[i]]
  <2>1. r.length = 1
    OBVIOUS
  <2>2. new = Append(runs, r)
    BY <1>4 DEF T!Grown
  <2> HIDE DEF r, new
  <2>3. Len(new) = k + 1 /\ new[k + 1] = r /\ \A i \in 1..k : new[i] = runs[i]
    BY <2>2
  <2>4. h[0] = 0 /\ h[k + 1] = g[k] + 1 /\ \A i \in 0..k + 1 : h[i] \in Nat
    BY <1>1, <1>2 DEF RunSums
  <2>5. ASSUME NEW i \in 1..k + 1 PROVE h[i] = h[i - 1] + new[i].length
    <3>1. CASE i = k + 1
      <4>1. h[i - 1] = g[k]
        BY <1>1, <3>1
      <4>2. h[i] = g[k] + 1 /\ new[i].length = 1
        BY <2>1, <2>3, <2>4, <3>1
      <4> QED BY <4>1, <4>2
    <3>2. CASE i # k + 1
      <4>1. i \in 1..k /\ h[i] = g[i] /\ h[i - 1] = g[i - 1]
        BY <1>1, <3>2
      <4> HIDE DEF h
      <4>2. g[i] = g[i - 1] + runs[i].length
        BY <4>1 DEF RunSums
      <4> QED BY <2>3, <4>1, <4>2
    <3> QED BY <3>1, <3>2
  <2>6. \A i \in 0..k : h[i] = g[i]
    BY <1>1
  <2> HIDE DEF h
  <2>7. RunSums(h, new)
    BY <2>3, <2>4, <2>5 DEF RunSums
  <2>8. r.colour = c
    BY DEF r
  <2>9. Grows(h, new, g, runs, c)
    BY <1>1, <2>3, <2>6, <2>8 DEF Grows
  <2> QED BY <2>3, <2>4, <2>7, <2>9 DEF new
<1> QED BY <1>3, <1>4

\* Together the runs are as long as the tile has pixels.
LEMMA RunsCover ==
  ASSUME NEW px \in Seq(Int)
  PROVE  \E g : RunSums(g, T!Runs(px)) /\ g[Len(T!Runs(px))] = Len(px)
<1>1. PICK a : Making(a, px)
  BY RunsMade
<1> DEFINE n == Len(px)
           Summed(i) == \E g : RunSums(g, a[i]) /\ g[Len(a[i])] = i
           T0 == {i \in 0..n : Summed(i)}
<1>2. n \in Nat
  OBVIOUS
<1>3. Summed(0)
  <2> DEFINE g == [i \in 0..0 |-> 0]
  <2>1. a[0] = <<>> /\ Len(<<>>) = 0
    BY <1>1, EmptyIsSeq DEF Making
  <2>2. RunSums(g, a[0]) /\ g[Len(a[0])] = 0
    BY <2>1 DEF RunSums
  <2> QED BY <2>2
<1>4. ASSUME NEW i \in 0..n - 1, Summed(i) PROVE Summed(i + 1)
  <2>1. PICK j \in 1..n : j = i + 1
    BY <1>2
  <2>2. a[j] = T!Grown(a[i], px[j]) /\ a[i] \in Seq(Run) /\ px[j] \in Int
    <3>1. a[j] = T!Grown(a[j - 1], px[j]) /\ j - 1 = i /\ i \in 0..n /\ px[j] \in Int
      BY <1>1, <1>2, <2>1 DEF Making
    <3> QED BY <1>1, <3>1 DEF Making
  <2>3. PICK g : RunSums(g, a[i]) /\ g[Len(a[i])] = i
    BY <1>4
  <2>4. PICK h : RunSums(h, a[j]) /\ h[Len(a[j])] = g[Len(a[i])] + 1
    BY <2>2, <2>3, GrownSums
  <2> QED BY <2>1, <2>3, <2>4
<1> HIDE DEF Summed
<1>5. 0 \in T0 /\ \A i \in 0..n - 1 : i \in T0 => i + 1 \in T0
  BY <1>2, <1>3, <1>4
<1>6. n \in T0
  <2> HIDE DEF T0
  <2> QED BY <1>2, <1>5, Climb
<1> QED BY <1>1, <1>6 DEF Making, Summed

\* Later sums are greater.
LEMMA SumsGrow ==
  ASSUME NEW runs \in Seq(Run), NEW g, RunSums(g, runs), NEW i \in 0..Len(runs),
         NEW j \in 0..Len(runs), i < j
  PROVE  g[i] < g[j]
<1> DEFINE n == Len(runs)
           m == [k \in 1..n |-> [bytes |-> runs[k].length]]
<1>1. n \in Nat /\ \A k \in 1..n : runs[k].length \in Nat \ {0}
  <2>1. \A k \in 1..n : runs[k] \in Run
    BY ElementOfSeq
  <2> QED BY <2>1 DEF Run
<1>2. \A k \in 1..n : m[k].bytes = runs[k].length
  OBVIOUS
<1>3. IsSeq(m) /\ Len(m) = n
  <2>1. On(m, n)
    BY DEF On
  <2> HIDE DEF m
  <2> QED BY <1>1, <2>1, FunctionIsSeq
<1> HIDE DEF m, n
<1>4. IsMessage(m)
  BY <1>1, <1>2, <1>3 DEF IsMessage
<1>5. Totals(g, m)
  BY <1>2, <1>3 DEF Totals, RunSums, n
<1>6. i \in 0..Len(m) /\ j \in 0..Len(m)
  BY <1>3 DEF n
<1> QED BY <1>4, <1>5, <1>6, TotalsGrow

\* No run is longer than all of them.
LEMMA RunWithin ==
  ASSUME NEW runs \in Seq(Run), NEW g, RunSums(g, runs), NEW k \in 1..Len(runs)
  PROVE  runs[k].length <= g[Len(runs)]
<1> DEFINE n == Len(runs)
<1>1. n \in Nat /\ runs[k].length \in Nat \ {0}
  <2>1. runs[k] \in Run
    BY ElementOfSeq
  <2> QED BY <2>1 DEF Run
<1>2. g[k] = g[k - 1] + runs[k].length /\ g[k - 1] \in Nat /\ g[n] \in Nat
  BY <1>1 DEF RunSums
<1>3. k = n \/ g[k] < g[n]
  <2>1. k \in 0..n /\ n \in 0..n
    BY <1>1
  <2>2. k = n \/ k < n
    BY <1>1
  <2> QED BY <2>1, <2>2, SumsGrow
<1> HIDE DEF n
<1>4. runs[k].length <= g[n]
  BY <1>1, <1>2, <1>3
<1> QED BY <1>4 DEF n

-----------------------------------------------------------------------------
(***************************************************************************)
(* The lengths of messages of pieces.                                      *)
(***************************************************************************)

\* The length of a message is a number.
LEMMA SizeIsNat ==
  ASSUME NEW m, IsMessage(m)
  PROVE  Size(m) \in Nat
<1>1. PICK g : Size(m) = g[Len(m)] /\ \A i \in 0..Len(m) : g[i] \in Nat
  BY TotalsExist
<1>2. Len(m) \in 0..Len(m)
  BY SeqIs DEF IsMessage
<1> QED BY <1>1, <1>2

\* z[i] is the length of the first i pieces.
PieceSums(z, f, n) ==
  /\ z[0] = 0
  /\ \A i \in 1..n : z[i] = z[i - 1] + Size(f[i])
  /\ \A i \in 0..n : z[i] \in Nat
  /\ Size(FlattenSeq(f)) = z[n]

\* The pieces' lengths add up to the message's.
LEMMA FlattenSums ==
  ASSUME NEW n \in Nat, NEW f, On(f, n), \A i \in 1..n : IsMessage(f[i])
  PROVE  IsMessage(FlattenSeq(f)) /\ \E z : PieceSums(z, f, n)
<1>1. \A i \in 1..n : IsSeq(f[i])
  BY DEF IsMessage
<1>2. CASE n = 0
  <2>1. FlattenSeq(f) = <<>>
    BY <1>1, <1>2, FlattenIs
  <2> DEFINE z == [i \in 0..0 |-> 0]
  <2>2. z[0] = 0
    OBVIOUS
  <2> HIDE DEF z
  <2>3. PieceSums(z, f, n)
    BY <1>2, <2>1, <2>2, SizeOfEmpty DEF PieceSums
  <2> QED BY <2>1, <2>3, SizeOfEmpty
<1>3. CASE n # 0
  <2>1. PICK g : Flattening(g, f, n)
    BY <1>1, <1>3, FlattenIs
  <2>2. ASSUME NEW k \in 0..n - 1 PROVE IsMessage(g[k + 1])
    <3> DEFINE T0 == {i \in 0..k : IsMessage(g[i + 1])}
    <3>1. 0 \in T0
      <4>1. g[1] = f[1] /\ IsMessage(f[1])
        BY <1>3, <2>1 DEF Flattening
      <4>2. 0 \in 0..k /\ 0 + 1 = 1
        OBVIOUS
      <4> QED BY <4>1, <4>2
    <3>2. ASSUME NEW i \in 0..k - 1, i \in T0 PROVE i + 1 \in T0
      <4>1. PICK j \in 1..n - 1 : j = i + 1
        BY <1>3
      <4>2. j + 1 \in 1..n /\ j \in 0..k
        BY <1>3, <4>1
      <4>3. g[j + 1] = g[j] \o f[j + 1]
        BY <2>1 DEF Flattening
      <4>4. IsMessage(g[j]) /\ IsMessage(f[j + 1])
        BY <3>2, <4>1, <4>2
      <4>5. IsMessage(g[j] \o f[j + 1])
        BY <4>4, SizeOfConcat
      <4>6. IsMessage(g[j + 1])
        BY <4>3, <4>5
      <4> QED BY <4>1, <4>2, <4>6
    <3>3. k \in Nat
      OBVIOUS
    <3>4. k \in T0
      <4> HIDE DEF T0
      <4> QED BY <3>1, <3>2, <3>3, Climb
    <3> QED BY <3>4
  <2> DEFINE z == [i \in 0..n |-> IF i = 0 THEN 0 ELSE Size(g[i])]
  <2>3. z[0] = 0 /\ z[n] = Size(g[n])
    BY <1>3
  <2>4. ASSUME NEW i \in 1..n PROVE IsMessage(g[i]) /\ z[i] = Size(g[i]) /\ z[i] \in Nat
    <3>1. PICK k \in 0..n - 1 : k + 1 = i
      <4>1. i - 1 \in 0..n - 1 /\ (i - 1) + 1 = i
        OBVIOUS
      <4> QED BY <4>1
    <3>2. IsMessage(g[i])
      BY <2>2, <3>1
    <3>3. z[i] = Size(g[i])
      OBVIOUS
    <3> HIDE DEF z
    <3> QED BY <3>2, <3>3, SizeIsNat
  <2>5. ASSUME NEW i \in 1..n PROVE z[i] = z[i - 1] + Size(f[i])
    <3>1. CASE i = 1
      <4>1. z[i] = Size(f[1]) /\ z[i - 1] = 0 /\ Size(f[1]) \in Nat
        BY <1>3, <2>1, <2>3, <2>4, <3>1, SizeIsNat DEF Flattening
      <4> QED BY <3>1, <4>1
    <3>2. CASE i # 1
      <4>1. PICK j \in 1..n - 1 : j + 1 = i
        <5>1. i - 1 \in 1..n - 1 /\ (i - 1) + 1 = i
          BY <3>2
        <5> QED BY <5>1
      <4>2. j \in 1..n /\ i - 1 = j
        BY <4>1
      <4> HIDE DEF z
      <4>3. g[j + 1] = g[j] \o f[j + 1]
        BY <2>1 DEF Flattening
      <4>4. g[i] = g[j] \o f[i]
        BY <4>1, <4>3
      <4>5. IsMessage(g[j]) /\ IsMessage(f[i]) /\ z[j] = Size(g[j]) /\ z[i] = Size(g[i])
        BY <2>4, <4>2
      <4>6. Size(g[j] \o f[i]) = Size(g[j]) + Size(f[i])
        BY <4>5, SizeOfConcat
      <4>7. z[i] = z[j] + Size(f[i])
        BY <4>4, <4>5, <4>6
      <4> QED BY <4>2, <4>7
    <3> QED BY <3>1, <3>2
  <2> HIDE DEF z
  <2>6. FlattenSeq(f) = g[n] /\ IsMessage(g[n])
    BY <1>3, <2>1, <2>4 DEF Flattening
  <2>7. PieceSums(z, f, n)
    <3>1. \A i \in 0..n : z[i] \in Nat
      BY <2>3, <2>4
    <3> QED BY <2>3, <2>5, <2>6, <3>1 DEF PieceSums
  <2> QED BY <2>6, <2>7
<1> QED BY <1>2, <1>3

-----------------------------------------------------------------------------
(***************************************************************************)
(* The lengths of messages of runs.                                        *)
(***************************************************************************)

\* The length of a run takes a byte, or two.
LEMMA RunLengthSize ==
  ASSUME MaxByte = 255, NEW n \in 1..510
  PROVE  /\ IsMessage(T!RunLength(n))
         /\ Size(T!RunLength(n)) = IF n <= 255 THEN 1 ELSE 2
<1> DEFINE k == (n - 1) \div MaxByte
           a == [i \in 1..k |-> T!Byte(MaxByte)]
           b == <<T!Byte((n - 1) % MaxByte)>>
           r == a \o b
<1>1. k = IF n <= 255 THEN 0 ELSE 1
  OBVIOUS
<1>2. T!RunLength(n) = r
  BY DEF T!RunLength
<1>3. IsSeq(b) /\ Len(b) = 1 /\ b[1].bytes = 1
  <2> DEFINE x == T!Byte((n - 1) % MaxByte)
  <2>1. x.bytes = 1
    BY DEF T!Byte, T!Field
  <2> HIDE DEF x
  <2>2. IsSeq(<<x>>) /\ Len(<<x>>) = 1 /\ <<x>>[1] = x
    BY SingleIsSeq
  <2>3. b = <<x>>
    BY DEF x
  <2> QED BY <2>1, <2>2, <2>3
<1>4. IsSeq(a) /\ Len(a) = k /\ \A i \in 1..k : a[i].bytes = 1
  <2>1. On(a, k) /\ k \in Int
    BY <1>1 DEF On
  <2>2. \A i \in 1..k : a[i].bytes = 1
    BY DEF T!Byte, T!Field
  <2> HIDE DEF a
  <2>3. IsSeq(a) /\ Len(a) = k
    BY <1>1, <2>1, FunctionIsSeq
  <2> QED BY <2>2, <2>3
<1> HIDE DEF a, b, k
<1>5. /\ IsSeq(r) /\ Len(r) = k + 1
      /\ \A i \in 1..k : r[i] = a[i]
      /\ r[k + 1] = b[1]
  <2>1. /\ IsSeq(a \o b) /\ Len(a \o b) = Len(a) + Len(b)
        /\ \A i \in 1..Len(a) : (a \o b)[i] = a[i]
        /\ \A i \in 1..Len(b) : (a \o b)[Len(a) + i] = b[i]
    <3>1. IsSeq(a) /\ IsSeq(b)
      BY <1>3, <1>4
    <3> HIDE DEF r
    <3> QED BY <3>1, ConcatIsSeq
  <2>2. 1 \in 1..Len(b)
    BY <1>3
  <2> QED BY <1>3, <1>4, <2>1, <2>2
<1> HIDE DEF r
<1>6. \A i \in 1..Len(r) : r[i].bytes = 1
  <2>1. \A i \in 1..Len(r) : i \in 1..k \/ i = k + 1
    BY <1>1, <1>5
  <2> QED BY <1>3, <1>4, <1>5, <2>1
<1>7. IsMessage(r) /\ Size(r) = Len(r) * 1
  <2>1. 1 \in Nat \ {0}
    OBVIOUS
  <2> QED BY <1>5, <1>6, <2>1, SizeOfEqual
<1> QED BY <1>1, <1>2, <1>5, <1>7

(* The bytes of a run: a for one of a single pixel, b for a longer one,    *)
(* and one more for one whose length takes two.                            *)
Cost(n, a, b) == IF n = 1 THEN a ELSE IF n <= 255 THEN b ELSE b + 1

(* What single runs of one pixel, multi longer ones, and long of those     *)
(* with two bytes of length, take at least as pixels.                      *)
Counted(bytes, pixels, a, b, single, multi, long) ==
  /\ long \in Nat /\ long <= multi
  /\ bytes = single * a + multi * b + long
  /\ pixels >= single + 2 * multi + 254 * long

\* One more run.
LEMMA OneMoreRun ==
  ASSUME NEW a \in Nat, NEW b \in Nat, NEW z \in Nat, NEW g \in Nat, NEW s \in Nat,
         NEW m \in Nat, NEW l, Counted(z, g, a, b, s, m, l), NEW n \in Nat \ {0}
  PROVE  \E k : Counted(z + Cost(n, a, b), g + n, a, b, IF n = 1 THEN s + 1 ELSE s,
                        IF n = 1 THEN m ELSE m + 1, k)
<1>1. (s + 1) * a = s * a + a /\ (m + 1) * b = m * b + b
  OBVIOUS
<1>2. s * a \in Nat /\ m * b \in Nat
  BY Products
<1>3. PICK x \in Nat, y \in Nat : x = s * a /\ y = m * b
  BY <1>2
<1>4. l \in Nat /\ l <= m /\ z = x + y + l /\ g >= s + 2 * m + 254 * l
  BY <1>3 DEF Counted
<1>5. (s + 1) * a = x + a /\ (m + 1) * b = y + b
  BY <1>1, <1>3
<1>6. CASE n = 1
  <2>1. z + a = (x + a) + y + l /\ g + n >= (s + 1) + 2 * m + 254 * l
    BY <1>4, <1>6
  <2>2. z + a = (s + 1) * a + m * b + l
    BY <1>3, <1>5, <2>1
  <2>3. Counted(z + Cost(n, a, b), g + n, a, b, s + 1, m, l)
    BY <1>4, <1>6, <2>1, <2>2 DEF Counted, Cost
  <2> QED BY <1>6, <2>3
<1>7. CASE n # 1 /\ n <= 255
  <2>1. z + b = x + (y + b) + l /\ g + n >= s + 2 * (m + 1) + 254 * l /\ l <= m + 1
    BY <1>4, <1>7
  <2>2. z + b = s * a + (m + 1) * b + l
    BY <1>3, <1>5, <2>1
  <2>3. Counted(z + Cost(n, a, b), g + n, a, b, s, m + 1, l)
    BY <1>4, <1>7, <2>1, <2>2 DEF Counted, Cost
  <2> QED BY <1>7, <2>3
<1>8. CASE ~(n <= 255)
  <2>1. /\ z + (b + 1) = x + (y + b) + (l + 1)
        /\ g + n >= s + 2 * (m + 1) + 254 * (l + 1)
        /\ l + 1 <= m + 1 /\ l + 1 \in Nat
    BY <1>4, <1>8
  <2>2. z + (b + 1) = s * a + (m + 1) * b + (l + 1)
    BY <1>3, <1>5, <2>1
  <2>3. n # 1
    BY <1>8
  <2>4. Counted(z + Cost(n, a, b), g + n, a, b, s, m + 1, l + 1)
    BY <1>8, <2>1, <2>2, <2>3 DEF Counted, Cost
  <2> QED BY <2>3, <2>4
<1> QED BY <1>6, <1>7, <1>8

\* The runs of one pixel among the first i.
Ones(runs, i) == {j \in 1..i : runs[j].length = 1}

\* The estimates count all of them, and the rest.
LEMMA OnesAre ==
  ASSUME NEW runs \in Seq(Run)
  PROVE  /\ T!Single(runs) = Cardinality(Ones(runs, Len(runs)))
         /\ T!Multi(runs) = Len(runs) - T!Single(runs)
         /\ IsFiniteSet(Ones(runs, 0)) /\ Cardinality(Ones(runs, 0)) = 0
<1>1. DOMAIN runs = 1..Len(runs)
  OBVIOUS
<1>2. T!Single(runs) = Cardinality(Ones(runs, Len(runs)))
  BY <1>1 DEF T!Single, Ones, T!Cardinality, Cardinality, T!IsFiniteSet, IsFiniteSet
<1>3. Ones(runs, 0) = {}
  BY DEF Ones
<1> QED BY <1>2, <1>3, FS_EmptySet DEF T!Multi

\* One more run is counted.
LEMMA OnesGrow ==
  ASSUME NEW runs \in Seq(Run), NEW i \in Nat, IsFiniteSet(Ones(runs, i)),
         NEW j \in Nat, j = i + 1
  PROVE  /\ IsFiniteSet(Ones(runs, j))
         /\ Cardinality(Ones(runs, j)) = IF runs[j].length = 1
                                         THEN Cardinality(Ones(runs, i)) + 1
                                         ELSE Cardinality(Ones(runs, i))
<1>1. CASE runs[j].length = 1
  <2>1. Ones(runs, j) = Ones(runs, i) \cup {j} /\ j \notin Ones(runs, i)
    BY <1>1 DEF Ones
  <2> QED BY <1>1, <2>1, FS_AddElement
<1>2. CASE runs[j].length # 1
  <2>1. Ones(runs, j) = Ones(runs, i)
    BY <1>2 DEF Ones
  <2> QED BY <1>2, <2>1
<1> QED BY <1>1, <1>2

\* All the runs are counted.
LEMMA RunsSize ==
  ASSUME NEW runs \in Seq(Run), NEW a \in Nat, NEW b \in Nat, NEW f, On(f, Len(runs)),
         \A i \in 1..Len(runs) :
           IsMessage(f[i]) /\ Size(f[i]) = Cost(runs[i].length, a, b),
         NEW g, RunSums(g, runs)
  PROVE  /\ IsMessage(FlattenSeq(f))
         /\ \E k : Counted(Size(FlattenSeq(f)), g[Len(runs)], a, b,
                           T!Single(runs), T!Multi(runs), k)
<1> DEFINE n == Len(runs)
           ones(i) == Cardinality(Ones(runs, i))
<1>1. n \in Nat
  OBVIOUS
<1>2. IsMessage(FlattenSeq(f)) /\ \E z : PieceSums(z, f, n)
  BY <1>1, FlattenSums
<1>3. PICK z : PieceSums(z, f, n)
  BY <1>2
<1> DEFINE Good(i) == /\ IsFiniteSet(Ones(runs, i)) /\ ones(i) \in 0..i
                      /\ \E k : Counted(z[i], g[i], a, b, ones(i), i - ones(i), k)
           T0 == {i \in 0..n : Good(i)}
<1>4. Good(0)
  <2>1. z[0] = 0 /\ g[0] = 0
    BY <1>3 DEF PieceSums, RunSums
  <2>2. IsFiniteSet(Ones(runs, 0)) /\ ones(0) = 0
    BY OnesAre
  <2>3. Counted(0, 0, a, b, 0, 0, 0)
    BY DEF Counted
  <2> HIDE DEF ones
  <2> QED BY <2>1, <2>2, <2>3
<1>5. ASSUME NEW i \in 0..n - 1, Good(i) PROVE Good(i + 1)
  <2>1. PICK j \in 1..n : j = i + 1
    BY <1>1
  <2>2. PICK r : r = runs[j].length
    OBVIOUS
  <2>3. r \in Nat \ {0}
    <3>1. runs[j] \in Run
      BY ElementOfSeq
    <3> QED BY <2>2, <3>1 DEF Run
  <2>4. z[j] = z[i] + Cost(r, a, b) /\ z[i] \in Nat
    <3>1. z[j] = z[j - 1] + Size(f[j]) /\ j - 1 = i /\ i \in 0..n
      BY <1>1, <1>3, <2>1 DEF PieceSums
    <3>2. Size(f[j]) = Cost(r, a, b)
      BY <2>2
    <3>3. z[i] \in Nat
      BY <1>3, <3>1 DEF PieceSums
    <3> QED BY <3>1, <3>2, <3>3
  <2>5. g[j] = g[i] + r /\ g[i] \in Nat
    <3>1. g[j] = g[j - 1] + runs[j].length /\ j - 1 = i /\ i \in 0..n
      BY <1>1, <2>1 DEF RunSums
    <3>2. g[i] \in Nat
      BY <3>1 DEF RunSums
    <3> QED BY <2>2, <3>1, <3>2
  <2>6. /\ IsFiniteSet(Ones(runs, j))
        /\ ones(j) = IF r = 1 THEN ones(i) + 1 ELSE ones(i)
    <3>1. i \in Nat /\ j \in Nat /\ IsFiniteSet(Ones(runs, i))
      BY <1>5, <2>1
    <3> QED BY <2>1, <2>2, <3>1, OnesGrow
  <2>7. PICK k : Counted(z[i], g[i], a, b, ones(i), i - ones(i), k)
    BY <1>5
  <2>8. PICK s \in Nat, m \in Nat : s = ones(i) /\ m = i - ones(i)
    <3>1. ones(i) \in 0..i
      BY <1>5
    <3>2. ones(i) \in Nat /\ i - ones(i) \in Nat
      BY <3>1
    <3> QED BY <3>2
  <2>9. PICK l : Counted(z[j], g[j], a, b, IF r = 1 THEN s + 1 ELSE s,
                         IF r = 1 THEN m ELSE m + 1, l)
    <3>1. Counted(z[i], g[i], a, b, s, m, k)
      BY <2>7, <2>8
    <3>2. \E x : Counted(z[i] + Cost(r, a, b), g[i] + r, a, b,
                         IF r = 1 THEN s + 1 ELSE s, IF r = 1 THEN m ELSE m + 1, x)
      BY <2>3, <2>4, <2>5, <3>1, OneMoreRun
    <3> QED BY <2>4, <2>5, <3>2
  <2>10. /\ ones(j) \in 0..j
         /\ ones(j) = (IF r = 1 THEN s + 1 ELSE s)
         /\ j - ones(j) = (IF r = 1 THEN m ELSE m + 1)
    <3> HIDE DEF ones
    <3> QED BY <2>1, <2>6, <2>8
  <2>11. Counted(z[j], g[j], a, b, ones(j), j - ones(j), l)
    BY <2>9, <2>10
  <2> QED BY <2>1, <2>6, <2>10, <2>11
<1> HIDE DEF Good
<1>6. 0 \in T0 /\ \A i \in 0..n - 1 : i \in T0 => i + 1 \in T0
  BY <1>1, <1>4, <1>5
<1>7. n \in T0
  <2> HIDE DEF T0
  <2> QED BY <1>1, <1>6, Climb
<1>8. Good(n)
  BY <1>7
<1>9. Size(FlattenSeq(f)) = z[n]
  BY <1>3 DEF PieceSums
<1>10. T!Single(runs) = ones(n) /\ T!Multi(runs) = n - ones(n)
  BY OnesAre
<1> QED BY <1>2, <1>8, <1>9, <1>10 DEF Good

\* No run is longer than two bytes can say.
Moderate(runs) == \A i \in 1..Len(runs) : runs[i].length <= 510

\* The length of a message of runs.
LEMMA RunMessages ==
  ASSUME MaxByte = 255, NEW runs \in Seq(Run), Moderate(runs), NEW c \in Nat \ {0},
         NEW palette, NEW g, RunSums(g, runs)
  PROVE  /\ IsMessage(T!PlainRuns(runs, c))
         /\ \E k : Counted(Size(T!PlainRuns(runs, c)), g[Len(runs)], 1 + c, 1 + c,
                           T!Single(runs), T!Multi(runs), k)
         /\ IsMessage(T!PaletteRuns(runs, palette))
         /\ \E k : Counted(Size(T!PaletteRuns(runs, palette)), g[Len(runs)], 1, 2,
                           T!Single(runs), T!Multi(runs), k)
<1> DEFINE n == Len(runs)
           plain(i) == <<T!Pixel(c, runs[i].colour)>> \o T!RunLength(runs[i].length)
           index(i) == T!IndexRun(T!Index(palette, runs[i].colour), runs[i].length)
           f == [i \in 1..n |-> plain(i)]
           h == [i \in 1..n |-> index(i)]
<1>1. n \in Nat /\ DOMAIN runs = 1..n
  OBVIOUS
<1>2. ASSUME NEW i \in 1..n
      PROVE  /\ IsMessage(plain(i)) /\ Size(plain(i)) = Cost(runs[i].length, 1 + c, 1 + c)
             /\ IsMessage(index(i)) /\ Size(index(i)) = Cost(runs[i].length, 1, 2)
  <2>1. PICK r : r = runs[i].length
    OBVIOUS
  <2>2. r \in 1..510
    <3>1. runs[i] \in Run
      BY ElementOfSeq
    <3>2. r \in Nat \ {0}
      BY <2>1, <3>1 DEF Run
    <3>3. r <= 510
      BY <2>1 DEF Moderate
    <3> QED BY <3>2, <3>3
  <2> DEFINE l == T!RunLength(r)
  <2>3. IsMessage(l) /\ Size(l) = IF r <= 255 THEN 1 ELSE 2
    BY <2>2, RunLengthSize
  <2> HIDE DEF l
  <2>4. /\ IsMessage(<<T!Pixel(c, runs[i].colour)>>)
        /\ Size(<<T!Pixel(c, runs[i].colour)>>) = c
    <3>1. T!Pixel(c, runs[i].colour).bytes = c
      BY DEF T!Pixel
    <3> HIDE DEF n
    <3> QED BY <3>1, SizeOfSingle
  <2>5. \A v : IsMessage(<<T!Byte(v)>>) /\ Size(<<T!Byte(v)>>) = 1
    <3> TAKE v
    <3>1. T!Byte(v).bytes = 1 /\ 1 \in Nat \ {0}
      BY DEF T!Byte, T!Field
    <3> QED BY <3>1, SizeOfSingle
  <2>6. IsMessage(plain(i)) /\ Size(plain(i)) = Cost(r, 1 + c, 1 + c)
    <3> DEFINE p == <<T!Pixel(c, runs[i].colour)>>
    <3>1. IsMessage(p) /\ Size(p) = c
      BY <2>4
    <3>2. plain(i) = p \o l
      BY <2>1 DEF l
    <3> HIDE DEF p, plain
    <3>3. IsMessage(p \o l) /\ Size(p \o l) = Size(p) + Size(l)
      BY <2>3, <3>1, SizeOfConcat
    <3>4. Size(p \o l) = Cost(r, 1 + c, 1 + c)
      <4>1. Size(p \o l) = c + (IF r <= 255 THEN 1 ELSE 2)
        BY <2>3, <3>1, <3>3
      <4> QED BY <2>2, <4>1 DEF Cost
    <3> QED BY <3>2, <3>3, <3>4
  <2>7. IsMessage(index(i)) /\ Size(index(i)) = Cost(r, 1, 2)
    <3> DEFINE v == T!Index(palette, runs[i].colour)
    <3>1. CASE r = 1
      <4>1. index(i) = <<T!Byte(v)>>
        BY <2>1, <3>1 DEF T!IndexRun
      <4> HIDE DEF v, index
      <4> QED BY <2>5, <3>1, <4>1 DEF Cost
    <3>2. CASE r # 1
      <4> DEFINE p == <<T!Byte(128 + v)>>
      <4>1. index(i) = p \o l
        BY <2>1, <3>2 DEF T!IndexRun, l
      <4>2. IsMessage(p) /\ Size(p) = 1
        BY <2>5
      <4> HIDE DEF p, index
      <4>3. IsMessage(p \o l) /\ Size(p \o l) = Size(p) + Size(l)
        BY <2>3, <4>2, SizeOfConcat
      <4>4. Size(p \o l) = Cost(r, 1, 2)
        <5>1. Size(p \o l) = 1 + (IF r <= 255 THEN 1 ELSE 2)
          BY <2>3, <4>2, <4>3
        <5> QED BY <2>2, <3>2, <5>1 DEF Cost
      <4> QED BY <4>1, <4>3, <4>4
    <3> QED BY <3>1, <3>2
  <2> HIDE DEF plain, index
  <2> QED BY <2>1, <2>6, <2>7
<1>3. T!PlainRuns(runs, c) = FlattenSeq(f)
  BY <1>1 DEF T!PlainRuns, T!FlattenSeq, FlattenSeq
<1>4. T!PaletteRuns(runs, palette) = FlattenSeq(h)
  BY <1>1 DEF T!PaletteRuns, T!FlattenSeq, FlattenSeq
<1> HIDE DEF plain, index
<1>5. On(f, n) /\ On(h, n)
  BY DEF On
<1>6. \A i \in 1..n : f[i] = plain(i) /\ h[i] = index(i)
  OBVIOUS
<1> HIDE DEF f, h
<1>7. \A i \in 1..n : IsMessage(f[i]) /\ Size(f[i]) = Cost(runs[i].length, 1 + c, 1 + c)
  BY <1>2, <1>6
<1>8. \A i \in 1..n : IsMessage(h[i]) /\ Size(h[i]) = Cost(runs[i].length, 1, 2)
  BY <1>2, <1>6
<1>9. /\ IsMessage(FlattenSeq(f))
      /\ \E k : Counted(Size(FlattenSeq(f)), g[n], 1 + c, 1 + c,
                        T!Single(runs), T!Multi(runs), k)
  <2>1. 1 + c \in Nat
    OBVIOUS
  <2> QED BY <1>5, <1>7, <2>1, RunsSize
<1>10. /\ IsMessage(FlattenSeq(h))
       /\ \E k : Counted(Size(FlattenSeq(h)), g[n], 1, 2, T!Single(runs), T!Multi(runs), k)
  <2>1. 1 \in Nat /\ 2 \in Nat
    OBVIOUS
  <2> QED BY <1>5, <1>8, <2>1, RunsSize
<1> QED BY <1>3, <1>4, <1>9, <1>10

\* Packed indices are as long as estimated.
LEMMA PackedFits ==
  ASSUME NEW t \in Tiles, NEW palette \in Seq(Int)
  PROVE  /\ IsMessage(T!PackedPalette(t, palette))
         /\ Size(T!PackedPalette(t, palette)) = T!PackedSize(t, Len(palette))
<1> DEFINE per == T!PerByte(Len(palette))
           row == (t.w + per - 1) \div per
           n == row * t.h
           p == T!PackedPalette(t, palette)
<1>1. n = T!PackedSize(t, Len(palette))
  BY DEF T!PackedSize
<1>2. n \in Nat
  <2>1. t.w \in Nat /\ t.h \in Nat /\ Len(palette) \in Nat
    BY TileAssumption
  <2>2. T!PackedSize(t, Len(palette)) \in Nat
    BY <2>1, PackedSizeType
  <2> HIDE DEF n
  <2> QED BY <1>1, <2>2
<1>3. On(p, n)
  BY DEF On, T!PackedPalette
<1>4. \A i \in 1..n : p[i].bytes = 1
  <2>1. \A x, y, bits : T!Packed(t, palette, x, y, bits).bytes = 1
    BY DEF T!Packed, T!Byte, T!Field
  <2>2. \A i \in 1..n : p[i] = T!Packed(t, palette, ((i - 1) % row) * per, (i - 1) \div row,
                                        T!PackedBits(Len(palette)))
    BY DEF T!PackedPalette
  <2> HIDE DEF p, n
  <2> QED BY <2>1, <2>2
<1> HIDE DEF p, n
<1>5. IsSeq(p) /\ Len(p) = n
  BY <1>2, <1>3, FunctionIsSeq
<1>6. IsMessage(p) /\ Size(p) = Len(p) * 1
  <2>1. 1 \in Nat \ {0} /\ \A i \in 1..Len(p) : p[i].bytes = 1
    BY <1>4, <1>5
  <2> QED BY <1>5, <2>1, SizeOfEqual
<1>7. IsMessage(p) /\ Size(p) = T!PackedSize(t, Len(palette))
  BY <1>1, <1>2, <1>5, <1>6
<1> QED BY <1>7 DEF p

-----------------------------------------------------------------------------
(***************************************************************************)
(* The room for a message of TRLE or ZRLE.                                 *)
(***************************************************************************)

(* What the choice of sub takes for granted: by the estimate the message   *)
(* is not longer than the pixels.  The tile has n colours and area pixels, *)
(* and old colours are remembered.                                         *)
Paid(t, c, sub, n, old, single, multi) ==
  \/ sub = T!Raw
  \/ sub = T!Solid /\ n = 1
  \/ sub = T!Rle /\ T!AsRuns(c, single, multi).bytes <= Area(t) * c
  \/ /\ sub = T!PrleBase + n /\ n \in 2..MaxPalette
     /\ T!AsPaletteRuns(sub, n, c * n, single, multi).bytes <= Area(t) * c
  \/ /\ sub = n /\ n \in 2..16
     /\ T!AsPacked(t, n, n, c * n).bytes <= Area(t) * c
  \/ /\ sub = T!PrleMem /\ old \in 2..MaxPalette
     /\ T!AsPaletteRuns(sub, old, 0, single, multi).bytes <= Area(t) * c
  \/ /\ sub = T!PackedMem /\ old \in 2..16
     /\ T!AsPacked(t, sub, old, 0).bytes <= Area(t) * c

\* A choice that is possible, and not longer than the pixels, is paid for.
LEMMA ChoicesPay ==
  ASSUME NEW t \in Tiles, NEW c \in Nat, NEW old \in Nat, NEW n \in Nat,
         NEW single \in Nat, NEW multi \in Nat,
         NEW x \in {T!AsRaw(t, c),
                    T!AsPaletteRuns(T!PrleMem, old, 0, single, multi),
                    T!AsPaletteRuns(T!PrleBase + n, n, c * n, single, multi),
                    T!AsRuns(c, single, multi),
                    T!AsPacked(t, T!PackedMem, old, 0),
                    T!AsPacked(t, n, n, c * n)},
         x.possible, x.bytes <= Area(t) * c
  PROVE  Paid(t, c, x.sub, n, old, single, multi)
<1>1. CASE x = T!AsRaw(t, c)
  BY <1>1 DEF Paid, T!AsRaw, T!Choice
<1>2. CASE x = T!AsPaletteRuns(T!PrleMem, old, 0, single, multi)
  <2>1. x.sub = T!PrleMem /\ old \in 2..MaxPalette
    BY <1>2 DEF T!AsPaletteRuns, T!Choice
  <2> QED BY <1>2, <2>1 DEF Paid
<1>3. CASE x = T!AsPaletteRuns(T!PrleBase + n, n, c * n, single, multi)
  <2>1. x.sub = T!PrleBase + n /\ n \in 2..MaxPalette
    BY <1>3 DEF T!AsPaletteRuns, T!Choice
  <2> QED BY <1>3, <2>1 DEF Paid
<1>4. CASE x = T!AsRuns(c, single, multi)
  <2>1. x.sub = T!Rle
    BY <1>4 DEF T!AsRuns, T!Choice
  <2> QED BY <1>4, <2>1 DEF Paid
<1>5. CASE x = T!AsPacked(t, T!PackedMem, old, 0)
  <2>1. x.sub = T!PackedMem /\ old \in 2..16
    BY <1>5 DEF T!AsPacked, T!Choice
  <2> QED BY <1>5, <2>1 DEF Paid
<1>6. CASE x = T!AsPacked(t, n, n, c * n)
  <2>1. x.sub = n /\ n \in 2..16
    BY <1>6 DEF T!AsPacked, T!Choice
  <2> QED BY <1>6, <2>1 DEF Paid
<1> QED BY <1>1, <1>2, <1>3, <1>4, <1>5, <1>6

\* So is the one that TRLE chooses.
LEMMA SelectPays ==
  ASSUME NEW t \in Tiles, NEW c \in Nat, NEW old \in Nat, NEW n \in Nat,
         NEW single \in Nat, NEW multi \in Nat
  PROVE  Paid(t, c, T!SelectSubencoding(t, c, old, n, single, multi), n, old, single, multi)
<1> DEFINE c1 == T!AsRaw(t, c)
           c2 == T!AsPaletteRuns(T!PrleMem, old, 0, single, multi)
           c3 == T!AsPaletteRuns(T!PrleBase + n, n, c * n, single, multi)
           c4 == T!AsRuns(c, single, multi)
           c5 == T!AsPacked(t, T!PackedMem, old, 0)
           c6 == T!AsPacked(t, n, n, c * n)
           cs == <<c1, c2, c3, c4, c5, c6>>
           sub == T!SelectSubencoding(t, c, old, n, single, multi)
<1>1. CASE n = 1
  BY <1>1 DEF T!SelectSubencoding, Paid
<1>2. CASE n # 1
  <2>1. sub = T!Best(cs)
    BY <1>2 DEF T!SelectSubencoding
  <2>2. c * n \in Nat /\ 0 \in Nat /\ t.w \in Nat /\ t.h \in Nat
    BY TileAssumption
  <2>3. IsChoice(c1) /\ c1.possible /\ IsChoice(c4)
    BY <2>2, ChoiceTypes
  <2>4. IsChoice(c2) /\ IsChoice(c5)
    BY <2>2, ChoiceTypes
  <2>5. IsChoice(c3) /\ IsChoice(c6)
    BY <2>2, ChoiceTypes
  <2>6. c1.bytes = Area(t) * c
    BY AreaType DEF T!AsRaw, T!Choice
  <2>7. \A x \in {c1, c2, c3, c4, c5, c6} :
          x.possible /\ x.bytes <= Area(t) * c => Paid(t, c, x.sub, n, old, single, multi)
    BY ChoicesPay
  <2> HIDE DEF c1, c2, c3, c4, c5, c6
  <2>8. /\ DOMAIN cs = 1..6 /\ cs[1] = c1 /\ cs[2] = c2 /\ cs[3] = c3
        /\ cs[4] = c4 /\ cs[5] = c5 /\ cs[6] = c6
    OBVIOUS
  <2> HIDE DEF cs
  <2>9. \A i \in 1..6 : i = 1 \/ i = 2 \/ i = 3 \/ i = 4 \/ i = 5 \/ i = 6
    OBVIOUS
  <2>10. \A i \in 1..6 : IsChoice(cs[i]) /\ cs[i] \in {c1, c2, c3, c4, c5, c6}
    BY <2>3, <2>4, <2>5, <2>8, <2>9
  <2>11. PICK i \in 1..6 : /\ cs[i].possible /\ T!Best(cs) = cs[i].sub
                           /\ cs[i].bytes <= cs[1].bytes
    <3>1. 6 \in Nat \ {0} /\ cs[1].possible
      BY <2>3, <2>8
    <3> QED BY <2>8, <2>10, <3>1, BestIs
  <2>12. cs[i].bytes <= Area(t) * c
    BY <2>6, <2>8, <2>11
  <2>13. Paid(t, c, cs[i].sub, n, old, single, multi)
    BY <2>7, <2>10, <2>11, <2>12
  <2> HIDE DEF sub
  <2>14. Paid(t, c, sub, n, old, single, multi)
    BY <2>1, <2>11, <2>13
  <2> QED BY <2>14 DEF sub
<1> QED BY <1>1, <1>2

\* And the one that ZRLE chooses, which remembers nothing.
LEMMA SelectFreshPays ==
  ASSUME NEW t \in Tiles, NEW c \in Nat, NEW n \in Nat, NEW single \in Nat, NEW multi \in Nat
  PROVE  Paid(t, c, T!SelectFresh(t, c, n, single, multi), n, 0, single, multi)
<1> DEFINE c1 == T!AsRaw(t, c)
           c2 == T!AsPaletteRuns(T!PrleBase + n, n, c * n, single, multi)
           c3 == T!AsRuns(c, single, multi)
           c4 == T!AsPacked(t, n, n, c * n)
           cs == <<c1, c2, c3, c4>>
           sub == T!SelectFresh(t, c, n, single, multi)
<1>1. CASE n = 1
  BY <1>1 DEF T!SelectFresh, Paid
<1>2. CASE n # 1
  <2>1. sub = T!Best(cs)
    BY <1>2 DEF T!SelectFresh
  <2>2. c * n \in Nat /\ 0 \in Nat /\ t.w \in Nat /\ t.h \in Nat
    BY TileAssumption
  <2>3. IsChoice(c1) /\ c1.possible /\ IsChoice(c3)
    BY <2>2, ChoiceTypes
  <2>4. IsChoice(c2) /\ IsChoice(c4)
    BY <2>2, ChoiceTypes
  <2>5. c1.bytes = Area(t) * c
    BY AreaType DEF T!AsRaw, T!Choice
  <2>6. \A x \in {c1, c2, c3, c4} :
          x.possible /\ x.bytes <= Area(t) * c => Paid(t, c, x.sub, n, 0, single, multi)
    BY <2>2, ChoicesPay
  <2> HIDE DEF c1, c2, c3, c4
  <2>7. /\ DOMAIN cs = 1..4 /\ cs[1] = c1 /\ cs[2] = c2 /\ cs[3] = c3 /\ cs[4] = c4
    OBVIOUS
  <2> HIDE DEF cs
  <2>8. \A i \in 1..4 : i = 1 \/ i = 2 \/ i = 3 \/ i = 4
    OBVIOUS
  <2>9. \A i \in 1..4 : IsChoice(cs[i]) /\ cs[i] \in {c1, c2, c3, c4}
    BY <2>3, <2>4, <2>7, <2>8
  <2>10. PICK i \in 1..4 : /\ cs[i].possible /\ T!Best(cs) = cs[i].sub
                           /\ cs[i].bytes <= cs[1].bytes
    <3>1. 4 \in Nat \ {0} /\ cs[1].possible
      BY <2>3, <2>7
    <3> QED BY <2>7, <2>9, <3>1, BestIs
  <2>11. cs[i].bytes <= Area(t) * c
    BY <2>5, <2>7, <2>10
  <2>12. Paid(t, c, cs[i].sub, n, 0, single, multi)
    BY <2>6, <2>9, <2>10, <2>11
  <2> HIDE DEF sub
  <2>13. Paid(t, c, sub, n, 0, single, multi)
    BY <2>1, <2>10, <2>12
  <2> QED BY <2>13 DEF sub
<1> QED BY <1>1, <1>2

\* Runs of colours are not longer than their estimate.
LEMMA PlainFits ==
  ASSUME NEW c \in 1..4, NEW single \in Nat, NEW multi \in Nat, NEW area \in Nat, NEW bytes,
         NEW k, Counted(bytes, area, 1 + c, 1 + c, single, multi, k)
  PROVE  bytes <= T!AsRuns(c, single, multi).bytes
<1>1. T!AsRuns(c, single, multi).bytes
        = (1 + c) * single + c * multi + (9 * multi) \div 4
  BY DEF T!AsRuns, T!Choice
<1>2. k \in Nat /\ k <= multi /\ bytes = single * (1 + c) + multi * (1 + c) + k
  BY DEF Counted
<1>3. PICK e \in Nat : e = (9 * multi) \div 4
  OBVIOUS
<1>4. 2 * multi <= e
  BY <1>3
<1>5. (1 + c) * single = single * (1 + c) /\ c * multi + multi = multi * (1 + c)
  OBVIOUS
<1>6. PICK x \in Nat, y \in Nat : x = (1 + c) * single /\ y = c * multi
  <2>1. (1 + c) * single \in Nat /\ c * multi \in Nat
    BY Products
  <2> QED BY <2>1
<1>7. bytes = x + (y + multi) + k /\ T!AsRuns(c, single, multi).bytes = x + y + e
  BY <1>1, <1>2, <1>3, <1>5, <1>6
<1> QED BY <1>2, <1>4, <1>7

(* Runs of indices may be longer than their estimate, when their lengths   *)
(* take two bytes; but then the pixels take more, by far.                  *)
LEMMA IndexedFits ==
  ASSUME NEW c \in 1..4, NEW single \in Nat, NEW multi \in Nat, NEW area \in Nat, NEW bytes,
         NEW k, Counted(bytes, area, 1, 2, single, multi, k),
         NEW header \in Nat, header <= 127 * c, NEW sub, NEW n,
         T!AsPaletteRuns(sub, n, header, single, multi).bytes <= area * c
  PROVE  header + bytes <= area * c
<1>1. header + single + (9 * multi) \div 4 <= area * c
  BY DEF T!AsPaletteRuns, T!Choice
<1>2. /\ k \in Nat /\ k <= multi /\ bytes = single + 2 * multi + k
      /\ area >= single + 2 * multi + 254 * k
  <2>1. single * 1 = single /\ multi * 2 = 2 * multi
    OBVIOUS
  <2> QED BY <2>1 DEF Counted
<1>3. PICK e \in Nat : e = (9 * multi) \div 4
  OBVIOUS
<1>4. 2 * multi <= e
  BY <1>3
<1>5. CASE k = 0
  BY <1>1, <1>2, <1>3, <1>4, <1>5
<1>6. CASE k # 0
  <2>1. c = 1 \/ c = 2 \/ c = 3 \/ c = 4
    OBVIOUS
  <2> QED BY <1>2, <1>6, <2>1
<1> QED BY <1>5, <1>6

\* A palette and the indices into it, one after the other.
LEMMA IndexedSize ==
  ASSUME NEW t, NEW c \in Nat \ {0}, NEW runs, NEW sub, sub \notin {T!Raw, T!Rle},
         NEW used, NEW colours \in Seq(Int), NEW r, r = T!Indices(t, runs, sub, used),
         IsMessage(r)
  PROVE  /\ IsMessage(T!Body(t, c, runs, sub, used, colours))
         /\ Size(T!Body(t, c, runs, sub, used, colours)) = Len(colours) * c + Size(r)
<1> DEFINE p == T!Pixels(c, colours)
<1>1. IsMessage(p) /\ Size(p) = Len(colours) * c
  BY PixelsSize
<1>2. T!Body(t, c, runs, sub, used, colours) = p \o r
  BY DEF T!Body
<1> HIDE DEF p
<1>3. IsMessage(p \o r) /\ Size(p \o r) = Size(p) + Size(r)
  BY <1>1, SizeOfConcat
<1> QED BY <1>1, <1>2, <1>3

(* What is sent after the subencoding is not longer than the pixels: but   *)
(* for the palette that is sent in excess with pixels of four bytes.       *)
LEMMA BodyFits ==
  ASSUME MaxByte = 255, NEW t \in Tiles, NEW c \in 1..4, NEW runs \in Seq(Run),
         Moderate(runs), NEW g, RunSums(g, runs), g[Len(runs)] = Area(t),
         NEW palette \in Seq(Int), NEW known \in Seq(Int), NEW sub, NEW used,
         used = IF sub \in T!Remembering THEN known ELSE palette,
         sub \in T!Remembering => c # 4,
         Paid(t, c, sub, Len(palette), Len(known), T!Single(runs), T!Multi(runs))
  PROVE  /\ IsMessage(T!Body(t, c, runs, sub, used, T!Sent(sub, c, used)))
         /\ Size(T!Body(t, c, runs, sub, used, T!Sent(sub, c, used))) <= Area(t) * c
<1> DEFINE n == Len(palette)
           old == Len(known)
           single == T!Single(runs)
           multi == T!Multi(runs)
           body == T!Body(t, c, runs, sub, used, T!Sent(sub, c, used))
           plain == T!PlainRuns(runs, c)
           index == T!PaletteRuns(runs, used)
           packed == T!PackedPalette(t, used)
<1>1. single \in Nat /\ multi \in Nat /\ n \in Nat /\ old \in Nat /\ c \in Nat \ {0}
  BY RunCounts
<1>2. Area(t) \in Nat \ {0} /\ t.px \in Seq(Int) /\ Len(t.px) = Area(t)
  BY AreaIsPositive, TileAssumption
<1>3. /\ IsMessage(plain)
      /\ \E k : Counted(Size(plain), Area(t), 1 + c, 1 + c, single, multi, k)
      /\ IsMessage(index)
      /\ \E k : Counted(Size(index), Area(t), 1, 2, single, multi, k)
  <2>1. /\ IsMessage(plain)
        /\ \E k : Counted(Size(plain), g[Len(runs)], 1 + c, 1 + c, single, multi, k)
        /\ IsMessage(index)
        /\ \E k : Counted(Size(index), g[Len(runs)], 1, 2, single, multi, k)
    BY <1>1, RunMessages
  <2> HIDE DEF plain, index, single, multi
  <2> QED BY <2>1
<1>4. used \in Seq(Int) /\ <<>> \in Seq(Int) /\ Len(<<>>) = 0
  OBVIOUS
<1>5. IsMessage(packed) /\ Size(packed) = T!PackedSize(t, Len(used))
  BY <1>4, PackedFits
<1>6. CASE sub = T!Raw
  <2>1. body = T!Pixels(c, t.px)
    BY <1>6 DEF T!Body
  <2>2. IsMessage(T!Pixels(c, t.px)) /\ Size(T!Pixels(c, t.px)) = Area(t) * c
    BY <1>1, <1>2, PixelsSize
  <2>3. Area(t) * c <= Area(t) * c
    BY <1>2
  <2> HIDE DEF body
  <2>4. IsMessage(body) /\ Size(body) <= Area(t) * c
    BY <2>1, <2>2, <2>3
  <2> QED BY <2>4 DEF body
<1>7. CASE sub = T!Solid /\ n = 1
  <2>1. used = palette /\ T!Sent(sub, c, used) = palette /\ sub \notin {T!Raw, T!Rle}
    BY <1>7 DEF T!Remembering, T!Solid, T!Raw, T!Rle, T!PackedMem, T!PrleMem, T!Sent
  <2>2. T!Indices(t, runs, sub, used) = <<>>
    BY <1>7 DEF T!Indices
  <2>3. IsMessage(<<>>) /\ Size(<<>>) = 0
    BY SizeOfEmpty
  <2>4. IsMessage(body) /\ Size(body) = n * c + 0
    <3> HIDE DEF n
    <3> DEFINE e == <<>>
    <3>1. e = T!Indices(t, runs, sub, used) /\ IsMessage(e) /\ Size(e) = 0
      BY <2>2, <2>3
    <3> HIDE DEF e
    <3>2. /\ IsMessage(T!Body(t, c, runs, sub, used, palette))
          /\ Size(T!Body(t, c, runs, sub, used, palette)) = Len(palette) * c + Size(e)
      BY <1>1, <2>1, <3>1, IndexedSize
    <3> QED BY <2>1, <3>1, <3>2 DEF n
  <2>5. c <= Area(t) * c
    BY <1>1, <1>2, Products
  <2> HIDE DEF body
  <2>6. IsMessage(body) /\ Size(body) <= Area(t) * c
    BY <1>7, <2>4, <2>5
  <2> QED BY <2>6 DEF body
<1>8. CASE sub = T!Rle /\ T!AsRuns(c, single, multi).bytes <= Area(t) * c
  <2>1. body = plain
    BY <1>8 DEF T!Body, T!Rle, T!Raw
  <2>2. Size(plain) <= T!AsRuns(c, single, multi).bytes
    BY <1>1, <1>2, <1>3, PlainFits
  <2>3. Size(plain) \in Nat /\ T!AsRuns(c, single, multi).bytes \in Nat /\ Area(t) * c \in Nat
    <3>1. t.w \in Nat /\ t.h \in Nat /\ c \in Nat
      BY TileAssumption
    <3>2. IsChoice(T!AsRuns(c, single, multi))
      <4> HIDE DEF single, multi
      <4> QED BY <1>1, <3>1, ChoiceTypes
    <3>3. Area(t) * c \in Nat
      BY <1>2, Products
    <3> QED BY <1>3, <3>2, <3>3, SizeIsNat DEF IsChoice
  <2> HIDE DEF body, plain
  <2>4. IsMessage(body) /\ Size(body) <= Area(t) * c
    BY <1>3, <1>8, <2>1, <2>2, <2>3
  <2> QED BY <2>4 DEF body
<1>9. CASE /\ sub = T!PrleBase + n /\ n \in 2..MaxPalette
           /\ T!AsPaletteRuns(sub, n, c * n, single, multi).bytes <= Area(t) * c
  <2>1. sub \in 130..255
    <3>1. sub = 128 + n /\ n \in 2..MaxPalette /\ MaxPalette \in 16..127
      BY <1>9, PaletteAssumption DEF T!PrleBase
    <3> HIDE DEF n
    <3> QED BY <3>1
  <2>2. /\ sub \notin T!Remembering /\ sub \notin {T!Raw, T!Rle} /\ sub # T!Solid
        /\ sub > T!Rle
    BY <2>1 DEF T!Remembering, T!Solid, T!Raw, T!Rle, T!PackedMem, T!PrleMem
  <2>3. used = palette /\ T!Sent(sub, c, used) = palette
    BY <2>2 DEF T!Sent
  <2>4. index = T!Indices(t, runs, sub, used)
    BY <2>2 DEF T!Indices
  <2>5. IsMessage(body) /\ Size(body) = n * c + Size(index)
    <3> HIDE DEF index
    <3>1. /\ IsMessage(T!Body(t, c, runs, sub, used, palette))
          /\ Size(T!Body(t, c, runs, sub, used, palette)) = Len(palette) * c + Size(index)
      BY <1>1, <1>3, <2>2, <2>4, IndexedSize
    <3> QED BY <2>3, <3>1
  <2>6. c * n + Size(index) <= Area(t) * c
    <3>1. c * n \in Nat /\ c * n <= 127 * c
      <4>1. n <= 127
        <5>1. n \in 2..MaxPalette /\ MaxPalette \in 16..127
          BY <1>9, PaletteAssumption
        <5> HIDE DEF n
        <5> QED BY <5>1
      <4> HIDE DEF n
      <4>2. n * c <= 127 * c /\ n * c = c * n /\ n * c \in Nat
        BY <1>1, <4>1, Products
      <4> QED BY <4>2
    <3> HIDE DEF index, n, single, multi
    <3> QED BY <1>1, <1>2, <1>3, <1>9, <3>1, IndexedFits
  <2>7. c * n = n * c
    BY <1>1
  <2> HIDE DEF body, index, n
  <2>8. IsMessage(body) /\ Size(body) <= Area(t) * c
    BY <2>5, <2>6, <2>7
  <2> QED BY <2>8 DEF body
<1>10. CASE sub = n /\ n \in 2..16 /\ T!AsPacked(t, n, n, c * n).bytes <= Area(t) * c
  <2>1. sub \in 2..16
    BY <1>10
  <2>2. /\ sub \notin T!Remembering /\ sub \notin {T!Raw, T!Rle} /\ sub # T!Solid
        /\ ~(sub > T!Rle)
    BY <2>1 DEF T!Remembering, T!Solid, T!Raw, T!Rle, T!PackedMem, T!PrleMem
  <2>3. used = palette /\ T!Sent(sub, c, used) = palette
    BY <2>2 DEF T!Sent
  <2>4. packed = T!Indices(t, runs, sub, used)
    BY <2>2 DEF T!Indices
  <2>5. IsMessage(body) /\ Size(body) = n * c + Size(packed)
    <3> HIDE DEF packed
    <3>1. /\ IsMessage(T!Body(t, c, runs, sub, used, palette))
          /\ Size(T!Body(t, c, runs, sub, used, palette)) = Len(palette) * c + Size(packed)
      BY <1>1, <1>5, <2>2, <2>4, IndexedSize
    <3> QED BY <2>3, <3>1
  <2>6. c * n + T!PackedSize(t, n) <= Area(t) * c
    BY <1>10 DEF T!AsPacked, T!Choice
  <2>7. c * n = n * c
    BY <1>1
  <2> HIDE DEF body, packed
  <2>8. IsMessage(body) /\ Size(body) <= Area(t) * c
    BY <1>5, <2>3, <2>5, <2>6, <2>7
  <2> QED BY <2>8 DEF body
<1>11. CASE /\ sub = T!PrleMem /\ old \in 2..MaxPalette
            /\ T!AsPaletteRuns(sub, old, 0, single, multi).bytes <= Area(t) * c
  <2>1. /\ sub \in T!Remembering /\ sub \notin {T!Raw, T!Rle} /\ sub # T!Solid
        /\ sub > T!Rle
    BY <1>11 DEF T!Remembering, T!Solid, T!Raw, T!Rle, T!PackedMem, T!PrleMem
  <2>2. T!Sent(sub, c, used) = <<>>
    BY <2>1 DEF T!Sent
  <2>3. index = T!Indices(t, runs, sub, used)
    BY <2>1 DEF T!Indices
  <2>4. IsMessage(body) /\ Size(body) = 0 * c + Size(index)
    <3> HIDE DEF index
    <3>1. PICK e \in Seq(Int) : Len(e) = 0 /\ T!Sent(sub, c, used) = e
      BY <1>4, <2>2
    <3>2. /\ IsMessage(T!Body(t, c, runs, sub, used, e))
          /\ Size(T!Body(t, c, runs, sub, used, e)) = Len(e) * c + Size(index)
      BY <1>1, <1>3, <2>1, <2>3, IndexedSize
    <3> QED BY <3>1, <3>2
  <2>5. 0 + Size(index) <= Area(t) * c
    <3>1. 0 \in Nat /\ 0 <= 127 * c
      OBVIOUS
    <3> HIDE DEF index, old, single, multi
    <3> QED BY <1>1, <1>2, <1>3, <1>11, <3>1, IndexedFits
  <2>6. 0 * c = 0
    BY <1>1
  <2> HIDE DEF body, index
  <2>7. IsMessage(body) /\ Size(body) <= Area(t) * c
    BY <2>4, <2>5, <2>6
  <2> QED BY <2>7 DEF body
<1>12. CASE sub = T!PackedMem /\ old \in 2..16 /\ T!AsPacked(t, sub, old, 0).bytes <= Area(t) * c
  <2>1. /\ sub \in T!Remembering /\ sub \notin {T!Raw, T!Rle} /\ sub # T!Solid
        /\ ~(sub > T!Rle)
    BY <1>12 DEF T!Remembering, T!Solid, T!Raw, T!Rle, T!PackedMem, T!PrleMem
  <2>2. T!Sent(sub, c, used) = <<>> /\ used = known
    BY <2>1 DEF T!Sent
  <2>3. packed = T!Indices(t, runs, sub, used)
    BY <2>1 DEF T!Indices
  <2>4. IsMessage(body) /\ Size(body) = 0 * c + Size(packed)
    <3> HIDE DEF packed
    <3>1. PICK e \in Seq(Int) : Len(e) = 0 /\ T!Sent(sub, c, used) = e
      BY <1>4, <2>2
    <3>2. /\ IsMessage(T!Body(t, c, runs, sub, used, e))
          /\ Size(T!Body(t, c, runs, sub, used, e)) = Len(e) * c + Size(packed)
      BY <1>1, <1>5, <2>1, <2>3, IndexedSize
    <3> QED BY <3>1, <3>2
  <2>5. 0 + T!PackedSize(t, old) <= Area(t) * c
    BY <1>12 DEF T!AsPacked, T!Choice
  <2>6. 0 * c = 0
    BY <1>1
  <2> HIDE DEF body, packed
  <2>7. IsMessage(body) /\ Size(body) <= Area(t) * c
    BY <1>5, <2>2, <2>4, <2>5, <2>6
  <2> QED BY <2>7 DEF body
<1>13. \/ sub = T!Raw
       \/ sub = T!Solid /\ n = 1
       \/ sub = T!Rle /\ T!AsRuns(c, single, multi).bytes <= Area(t) * c
       \/ /\ sub = T!PrleBase + n /\ n \in 2..MaxPalette
          /\ T!AsPaletteRuns(sub, n, c * n, single, multi).bytes <= Area(t) * c
       \/ sub = n /\ n \in 2..16 /\ T!AsPacked(t, n, n, c * n).bytes <= Area(t) * c
       \/ /\ sub = T!PrleMem /\ old \in 2..MaxPalette
          /\ T!AsPaletteRuns(sub, old, 0, single, multi).bytes <= Area(t) * c
       \/ /\ sub = T!PackedMem /\ old \in 2..16
          /\ T!AsPacked(t, sub, old, 0).bytes <= Area(t) * c
  BY DEF Paid
<1> HIDE DEF n, old, single, multi
<1> QED BY <1>6, <1>7, <1>8, <1>9, <1>10, <1>11, <1>12, <1>13

\* With the subencoding in front it is a byte longer.
LEMMA CodedFits ==
  ASSUME NEW sub, NEW body, IsMessage(body), NEW x \in Nat, Size(body) <= x
  PROVE  Size(<<T!Byte(sub)>> \o body) <= 1 + x
<1> DEFINE p == <<T!Byte(sub)>>
<1>1. IsMessage(p) /\ Size(p) = 1
  <2>1. T!Byte(sub).bytes = 1 /\ 1 \in Nat \ {0}
    BY DEF T!Byte, T!Field
  <2> QED BY <2>1, SizeOfSingle
<1> HIDE DEF p
<1>2. Size(p \o body) = 1 + Size(body) /\ Size(body) \in Nat
  BY <1>1, SizeOfConcat, SizeIsNat
<1>3. Size(p \o body) <= 1 + x
  BY <1>2
<1> QED BY <1>3 DEF p

\* In a small tile no run is long.
LEMMA SmallIsModerate ==
  ASSUME NEW t \in Tiles, t.w <= 16, t.h <= 16
  PROVE  Moderate(T!Runs(t.px))
<1> DEFINE runs == T!Runs(t.px)
<1>1. t.px \in Seq(Int) /\ Len(t.px) = Area(t) /\ t.w \in Nat /\ t.h \in Nat
  BY TileAssumption
<1>2. runs \in Seq(Run) /\ \E g : RunSums(g, runs) /\ g[Len(runs)] = Len(t.px)
  BY <1>1, RunsType, RunsCover
<1>3. Area(t) <= 256
  <2>1. t.w * t.h <= 16 * t.h
    BY <1>1, Products
  <2>2. t.w * t.h \in Nat /\ 16 * t.h <= 256
    BY <1>1, Products
  <2>3. t.w * t.h <= 256
    <3>1. PICK a \in Nat : a = t.w * t.h
      BY <2>2
    <3> QED BY <1>1, <2>1, <2>2, <3>1
  <2> QED BY <2>3 DEF Area
<1> HIDE DEF runs
<1>4. PICK g : RunSums(g, runs) /\ g[Len(runs)] = Area(t)
  BY <1>1, <1>2
<1>5. ASSUME NEW i \in 1..Len(runs) PROVE runs[i].length <= 510
  <2>1. runs[i].length <= g[Len(runs)]
    BY <1>2, <1>4, RunWithin
  <2>2. runs[i].length \in Nat
    <3>1. runs[i] \in Run
      BY <1>2, ElementOfSeq
    <3> QED BY <3>1 DEF Run
  <2>3. Area(t) \in Nat
    BY AreaIsPositive
  <2> QED BY <1>3, <1>4, <2>1, <2>2, <2>3
<1>6. Moderate(runs)
  BY <1>5 DEF Moderate
<1> QED BY <1>6 DEF runs

\* A tile of TRLE, but for pixels of four bytes.
LEMMA TrleFits ==
  ASSUME MaxByte = 255, NEW t \in Tiles, t.w <= 16, t.h <= 16, NEW c \in 1..3,
         NEW old \in Seq(Int)
  PROVE  Size(T!TrleTile(t, c, old).message) <= 1 + Area(t) * c
<1> DEFINE palette == T!PaletteOf(t.px)
           runs == T!Runs(t.px)
           known == T!Known(old, palette)
           sub == T!SelectSubencoding(t, c, Len(known), Len(palette),
                                      T!Single(runs), T!Multi(runs))
           used == IF sub \in T!Remembering THEN known ELSE palette
           body == T!Body(t, c, runs, sub, used, T!Sent(sub, c, used))
<1>1. T!TrleTile(t, c, old).message = <<T!Byte(sub)>> \o body
  BY DEF T!TrleTile, T!Recoded, T!Scanned, T!Chosen, T!Coded
<1>2. t.px \in Seq(Int) /\ Len(t.px) = Area(t)
  BY TileAssumption
<1>3. palette \in Seq(Int) /\ runs \in Seq(Run)
  BY <1>2, PaletteType, RunsType
<1>4. Moderate(runs)
  BY SmallIsModerate
<1>5. PICK g : RunSums(g, runs) /\ g[Len(runs)] = Area(t)
  <2>1. \E g : RunSums(g, runs) /\ g[Len(runs)] = Len(t.px)
    BY <1>2, RunsCover
  <2> HIDE DEF runs
  <2> QED BY <1>2, <2>1
<1>6. known \in {old, <<>>}
  BY DEF T!Known
<1> HIDE DEF palette, runs, known
<1>7. known \in Seq(Int)
  <2>1. <<>> \in Seq(Int)
    OBVIOUS
  <2> QED BY <1>6, <2>1
<1>8. Paid(t, c, sub, Len(palette), Len(known), T!Single(runs), T!Multi(runs))
  <2>1. Len(known) \in Nat /\ Len(palette) \in Nat /\ c \in Nat
    BY <1>3, <1>7
  <2>2. T!Single(runs) \in Nat /\ T!Multi(runs) \in Nat
    BY <1>3, RunCounts
  <2> QED BY <2>1, <2>2, SelectPays
<1> HIDE DEF sub
<1>9. IsMessage(body) /\ Size(body) <= Area(t) * c
  <2>1. c \in 1..4 /\ c # 4
    OBVIOUS
  <2>2. \E x : x = used
    OBVIOUS
  <2>3. PICK x : x = used
    BY <2>2
  <2>4. x = IF sub \in T!Remembering THEN known ELSE palette
    BY <2>3
  <2>5. /\ IsMessage(T!Body(t, c, runs, sub, x, T!Sent(sub, c, x)))
        /\ Size(T!Body(t, c, runs, sub, x, T!Sent(sub, c, x))) <= Area(t) * c
    BY <1>3, <1>4, <1>5, <1>7, <1>8, <2>1, <2>4, BodyFits
  <2> QED BY <2>3, <2>5
<1> HIDE DEF body
<1>10. Area(t) * c \in Nat
  <2>1. Area(t) \in Nat /\ c \in Nat
    BY AreaIsPositive
  <2> QED BY <2>1, Products
<1>11. Size(<<T!Byte(sub)>> \o body) <= 1 + Area(t) * c
  BY <1>9, <1>10, CodedFits
<1> QED BY <1>1, <1>11

\* A tile of ZRLE, but for a run too long.
LEMMA ZrleFits ==
  ASSUME MaxByte = 255, NEW t \in Tiles, ~LongRun(t), NEW c \in 1..4
  PROVE  Size(T!ZrleTile(t, c)) <= 1 + Area(t) * c
<1> DEFINE palette == T!PaletteOf(t.px)
           runs == T!Runs(t.px)
           sub == T!SelectFresh(t, c, Len(palette), T!Single(runs), T!Multi(runs))
           body == T!Body(t, c, runs, sub, palette, T!Sent(sub, c, palette))
<1>1. T!ZrleTile(t, c) = <<T!Byte(sub)>> \o body
  BY DEF T!ZrleTile, T!Fresh, T!Coded
<1>2. t.px \in Seq(Int) /\ Len(t.px) = Area(t)
  BY TileAssumption
<1>3. palette \in Seq(Int) /\ runs \in Seq(Run)
  BY <1>2, PaletteType, RunsType
<1>4. Moderate(runs)
  <2>1. \A i \in DOMAIN runs : ~(runs[i].length > 2 * MaxByte)
    BY DEF LongRun
  <2> HIDE DEF runs
  <2>2. ASSUME NEW i \in 1..Len(runs) PROVE runs[i].length <= 510
    <3>1. i \in DOMAIN runs
      BY <1>3
    <3>2. runs[i] \in Run
      BY <1>3, ElementOfSeq
    <3>3. runs[i].length \in Nat
      BY <3>2 DEF Run
    <3>4. ~(runs[i].length > 510)
      BY <2>1, <3>1
    <3> QED BY <3>3, <3>4
  <2> QED BY <2>2 DEF Moderate
<1>5. PICK g : RunSums(g, runs) /\ g[Len(runs)] = Area(t)
  <2>1. \E g : RunSums(g, runs) /\ g[Len(runs)] = Len(t.px)
    BY <1>2, RunsCover
  <2> HIDE DEF runs
  <2> QED BY <1>2, <2>1
<1> HIDE DEF palette, runs
<1>6. Paid(t, c, sub, Len(palette), 0, T!Single(runs), T!Multi(runs))
  <2>1. Len(palette) \in Nat /\ c \in Nat
    BY <1>3
  <2>2. T!Single(runs) \in Nat /\ T!Multi(runs) \in Nat
    BY <1>3, RunCounts
  <2> QED BY <2>1, <2>2, SelectFreshPays
<1> HIDE DEF sub
<1>7. sub \notin T!Remembering
  <2>1. 0 \notin 2..MaxPalette /\ 0 \notin 2..16
    BY PaletteAssumption
  <2>2. \/ sub \in {T!Raw, T!Solid, T!Rle}
        \/ sub = T!PrleBase + Len(palette) /\ Len(palette) \in 2..MaxPalette
        \/ sub = Len(palette) /\ Len(palette) \in 2..16
    BY <1>6, <2>1 DEF Paid
  <2>3. \/ sub \in {0, 1, 128}
        \/ \E n \in Nat : n >= 2 /\ sub = 128 + n
        \/ sub \in 2..16
    <3>1. PICK n : n = Len(palette)
      OBVIOUS
    <3>2. n \in Nat
      BY <1>3, <3>1
    <3> QED BY <2>2, <3>1, <3>2 DEF T!Raw, T!Solid, T!Rle, T!PrleBase
  <2>4. sub # 127 /\ sub # 129
    BY <2>3
  <2> QED BY <2>4 DEF T!Remembering, T!PackedMem, T!PrleMem
<1>8. IsMessage(body) /\ Size(body) <= Area(t) * c
  <2>1. PICK known \in Seq(Int) : Len(known) = 0
    <3>1. <<>> \in Seq(Int) /\ Len(<<>>) = 0
      OBVIOUS
    <3> QED BY <3>1
  <2>2. /\ palette = IF sub \in T!Remembering THEN known ELSE palette
        /\ sub \in T!Remembering => c # 4
    BY <1>7
  <2>3. Paid(t, c, sub, Len(palette), Len(known), T!Single(runs), T!Multi(runs))
    BY <1>6, <2>1
  <2> QED BY <1>3, <1>4, <1>5, <2>2, <2>3, BodyFits
<1> HIDE DEF body
<1>9. Area(t) * c \in Nat
  <2>1. Area(t) \in Nat /\ c \in Nat
    BY AreaIsPositive
  <2> QED BY <2>1, Products
<1>10. Size(<<T!Byte(sub)>> \o body) <= 1 + Area(t) * c
  BY <1>8, <1>9, CodedFits
<1> QED BY <1>1, <1>10

-----------------------------------------------------------------------------
\* Where RoomSuffices is claimed to hold, and holds.
Fitting ==
  ~(coding = "trle" /\ format.cbpp = 4) => RoomSuffices

\* A tile of TRLE, whatever palette is remembered.
LEMMA SendTrleFits ==
  ASSUME MaxByte = 255, MemoryInv, NEW t \in Tiles, Fits(t), SendTrle(t)
  PROVE  Fitting'
<1> DEFINE m == T!TrleTile(t, format.cbpp, ctx.palette).message
<1>1. coding = "trle" /\ coding' = coding /\ format' = format
  BY DEF SendTrle
<1>2. sent'.message = m /\ sent'.tile = t
  BY DEF SendTrle, Showing
<1>3. CASE format.cbpp = 4
  BY <1>1, <1>3 DEF Fitting
<1>4. CASE format.cbpp # 4
  <2>1. format \in Formats /\ ctx.palette \in Seq(Int)
    BY DEF MemoryInv
  <2>2. format.cbpp \in 1..3
    <3>1. format.bpp \in {1, 2, 4} /\ format.cbpp \in {format.bpp, 3}
      BY <2>1, FormatAssumption
    <3> QED BY <1>4, <3>1
  <2>3. t.w <= 16 /\ t.h <= 16
    BY <1>1 DEF Fits
  <2>4. Size(m) <= 1 + Area(t) * format.cbpp
    BY <2>1, <2>2, <2>3, TrleFits
  <2> HIDE DEF m
  <2>5. RoomSuffices'
    BY <1>1, <1>2, <2>4 DEF RoomSuffices, Room
  <2> QED BY <2>5 DEF Fitting
<1> QED BY <1>3, <1>4

\* A tile of Hextile, whatever colours are remembered.
LEMMA SendHextileFits ==
  ASSUME MemoryInv, NEW t \in Tiles, SendHextile(t)
  PROVE  Fitting'
<1> DEFINE m == H!HextileTile(t, format.bpp, ctx.bg, ctx.fg).message
<1>1. coding = "hextile" /\ coding' = coding /\ format' = format
  BY DEF SendHextile
<1>2. sent'.message = m /\ sent'.tile = t
  BY DEF SendHextile, Showing
<1>3. format.bpp \in {1, 2, 4}
  BY FormatAssumption DEF MemoryInv
<1>4. Size(m) <= 1 + Area(t) * format.bpp
  BY <1>3, HextileFits
<1> HIDE DEF m
<1>5. RoomSuffices'
  BY <1>1, <1>2, <1>4 DEF RoomSuffices, Room
<1> QED BY <1>5 DEF Fitting

\* A tile of an encoding that remembers nothing.
LEMMA SendFreshFits ==
  ASSUME MaxByte = 255, MemoryInv, NEW t \in Tiles, SendFresh(t)
  PROVE  Fitting'
<1> DEFINE m == Fresh(t)
<1>1. coding \in {"zrle", "rre", "corre"} /\ coding' = coding /\ format' = format
  BY DEF SendFresh
<1>2. sent'.message = m /\ sent'.tile = t
  BY DEF SendFresh, Showing
<1>3. /\ format.bpp \in {1, 2, 4} /\ format.cbpp \in {format.bpp, 3}
  BY FormatAssumption DEF MemoryInv
<1>4. CASE coding = "zrle"
  <2>1. m = T!ZrleTile(t, format.cbpp)
    BY <1>4 DEF Fresh
  <2>2. format.cbpp \in 1..4
    BY <1>3
  <2> HIDE DEF m
  <2>3. ~LongRun(t) => Size(m) <= 1 + Area(t) * format.cbpp
    BY <2>1, <2>2, ZrleFits
  <2>4. RoomSuffices'
    BY <1>1, <1>2, <1>4, <2>3 DEF RoomSuffices, Room, LongRun
  <2> QED BY <2>4 DEF Fitting
<1>5. CASE coding \in {"rre", "corre"}
  <2>1. m \in {H!RreTile(t, format.bpp), H!CorreTile(t, format.bpp)}
    BY <1>5 DEF Fresh
  <2> HIDE DEF m
  <2>2. Size(m) <= 12 + Max({Area(t) * format.bpp, 4 + format.bpp})
    BY <1>3, <2>1, RreFits DEF RreRoom
  <2>3. RoomSuffices'
    BY <1>1, <1>2, <1>5, <2>2 DEF RoomSuffices, Room
  <2> QED BY <2>3 DEF Fitting
<1> QED BY <1>1, <1>4, <1>5

(* A message is never longer than the room that was reserved before it was *)
(* known, whatever the tile and whatever is remembered: the estimates of   *)
(* TRLE and ZRLE and the limits of Hextile, RRE and CoRRE are not too low. *)
(* Left out are a run of ZRLE longer than two bytes can say, and TRLE with *)
(* pixels of four bytes, where a palette is sent that is not reckoned      *)
(* with.  255 is the highest value of a byte.                              *)
THEOREM RoomIsEnough ==
  ASSUME MaxByte = 255
  PROVE  Spec => [](~(coding = "trle" /\ format.cbpp = 4) => RoomSuffices)
<1> DEFINE Inv == MemoryInv /\ Fitting
<1>1. Init => Inv
  BY MemoryFirst DEF Init, Fitting, RoomSuffices
<1>2. Inv /\ [Next]_vars => Inv'
  <2> SUFFICES ASSUME Inv, [Next]_vars PROVE Fitting'
    BY MemoryKept
  <2>1. CASE UNCHANGED vars
    BY <2>1 DEF vars, Fitting, RoomSuffices, Room
  <2>2. CASE StartRect
    BY <2>2 DEF StartRect, Fitting, RoomSuffices
  <2>3. CASE Written
    BY <2>3 DEF Written, Fitting, RoomSuffices
  <2>4. ASSUME NEW t \in Tiles, Send(t) PROVE Fitting'
    <3>1. CASE SendTrle(t)
      BY <2>4, <3>1, SendTrleFits DEF Send
    <3>2. CASE SendHextile(t)
      BY <3>2, SendHextileFits
    <3>3. CASE SendFresh(t)
      BY <3>3, SendFreshFits
    <3> QED BY <2>4, <3>1, <3>2, <3>3 DEF Send
  <2> QED BY <2>1, <2>2, <2>3, <2>4 DEF Next
<1>3. Inv => (~(coding = "trle" /\ format.cbpp = 4) => RoomSuffices)
  BY DEF Fitting
<1> QED BY <1>1, <1>2, <1>3, PTL DEF Spec
=============================================================================
