--------------------------- MODULE Linear4_proofs ---------------------------
(***************************************************************************)
(* Proofs about Linear4, for every size of the virtual area, every set of  *)
(* frames, clipping rectangles, places and sizes: no call writes outside a *)
(* frame or a buffer, and every call does to the pixels what Canvas says.  *)
(***************************************************************************)
EXTENDS Linear4, WellFoundedInduction, TLAPS

Cell == [hi : Int, lo : Int]
Store(n) == [0..n - 1 -> Cell]

\* o is m with the colours at D replaced by those of v, all of them within n
\* bytes.
Painted(o, m, n, D, v) ==
  /\ o \in Store(n)
  /\ \A j \in 0..2 * n - 1 : Nibble(o, j) = IF j \in D THEN v[j] ELSE Nibble(m, j)

-----------------------------------------------------------------------------
(***************************************************************************)
(* Bytes and colours.                                                      *)
(***************************************************************************)

\* The colours of a store.
LEMMA NibbleType ==
  ASSUME NEW n \in Nat, NEW m \in Store(n), NEW j \in 0..2 * n - 1
  PROVE  /\ j \div 2 \in 0..n - 1 /\ Nibble(m, j) \in Int
         /\ j = 2 * (j \div 2) + (j % 2) /\ j % 2 \in {0, 1}
         /\ Odd(j) => j = 2 * (j \div 2) + 1 /\ Nibble(m, j) = m[j \div 2].lo
         /\ ~Odd(j) => j = 2 * (j \div 2) /\ Nibble(m, j) = m[j \div 2].hi
<1>1. /\ j \div 2 \in 0..n - 1
      /\ j = 2 * (j \div 2) + (j % 2) /\ j % 2 \in {0, 1}
  OBVIOUS
<1>2. m[j \div 2] \in Cell
  BY <1>1 DEF Store
<1>3. m[j \div 2].lo \in Int /\ m[j \div 2].hi \in Int
  BY <1>2 DEF Cell
<1> QED BY <1>1, <1>3 DEF Nibble, Odd

\* What is written within the store is all that changes.
LEMMA WrittenIs ==
  ASSUME NEW n \in Nat, NEW m \in Store(n), NEW new,
         DOMAIN new \subseteq 0..n - 1, \A a \in DOMAIN new : new[a] \in Cell
  PROVE  /\ Written(m, new) \in Store(n)
         /\ \A a \in 0..n - 1 :
              Written(m, new)[a] = IF a \in DOMAIN new THEN new[a] ELSE m[a]
<1>1. DOMAIN m = 0..n - 1 /\ \A a \in 0..n - 1 : m[a] \in Cell
  BY DEF Store
<1>2. DOMAIN m \cup DOMAIN new = 0..n - 1
  BY <1>1
<1>3. Written(m, new) = [a \in 0..n - 1 |-> IF a \in DOMAIN new THEN new[a] ELSE m[a]]
  BY <1>2 DEF Written
<1>4. \A a \in 0..n - 1 : (IF a \in DOMAIN new THEN new[a] ELSE m[a]) \in Cell
  BY <1>1
<1> QED BY <1>3, <1>4 DEF Store

\* One colour of a byte.
LEMMA HighPaints ==
  ASSUME NEW n \in Nat, NEW m \in Store(n), NEW a \in 0..n - 1, NEW c \in Int,
         NEW v, v[2 * a] = c
  PROVE  Painted(SetHigh(m, a, c), m, n, {2 * a}, v)
<1> DEFINE cell == [hi |-> c, lo |-> Byte(m, a).lo]
           o == SetHigh(m, a, c)
<1>1. m[a] \in Cell /\ a \in DOMAIN m
  BY DEF Store
<1>2. Byte(m, a) = m[a] /\ m[a].lo \in Int /\ m[a].hi \in Int
  BY <1>1 DEF Byte, Cell
<1>3. cell \in Cell /\ cell.hi = c /\ cell.lo = m[a].lo
  BY <1>2 DEF Cell
<1> HIDE DEF cell
<1> DEFINE new == [x \in {a} |-> cell]
<1>4. DOMAIN new \subseteq 0..n - 1 /\ DOMAIN new = {a} /\ \A x \in DOMAIN new : new[x] = cell
  OBVIOUS
<1>5. o = Written(m, new)
  BY DEF SetHigh, cell
<1> HIDE DEF new, o
<1>6. o \in Store(n) /\ \A x \in 0..n - 1 : o[x] = IF x = a THEN cell ELSE m[x]
  BY <1>3, <1>4, <1>5, WrittenIs
<1>7. ASSUME NEW j \in 0..2 * n - 1
      PROVE  Nibble(o, j) = IF j \in {2 * a} THEN v[j] ELSE Nibble(m, j)
  <2>1. j \div 2 \in 0..n - 1 /\ j = 2 * (j \div 2) + (j % 2) /\ j % 2 \in {0, 1}
    BY NibbleType
  <2>2. CASE ~Odd(j)
    <3>1. j = 2 * (j \div 2) /\ Nibble(o, j) = o[j \div 2].hi /\ Nibble(m, j) = m[j \div 2].hi
      BY <2>1, <2>2 DEF Odd, Nibble
    <3>2. CASE j \div 2 = a
      BY <1>3, <1>6, <2>1, <3>1, <3>2
    <3>3. CASE j \div 2 # a
      BY <1>6, <2>1, <3>1, <3>3
    <3> QED BY <3>2, <3>3
  <2>3. CASE Odd(j)
    <3>1. j # 2 * a /\ Nibble(o, j) = o[j \div 2].lo /\ Nibble(m, j) = m[j \div 2].lo
      BY <2>1, <2>3 DEF Odd, Nibble
    <3>2. o[j \div 2].lo = m[j \div 2].lo
      BY <1>3, <1>6, <2>1
    <3> QED BY <3>1, <3>2
  <2> QED BY <2>2, <2>3
<1> QED BY <1>6, <1>7 DEF Painted, o

LEMMA LowPaints ==
  ASSUME NEW n \in Nat, NEW m \in Store(n), NEW a \in 0..n - 1, NEW c \in Int,
         NEW v, v[2 * a + 1] = c
  PROVE  Painted(SetLow(m, a, c), m, n, {2 * a + 1}, v)
<1> DEFINE cell == [hi |-> Byte(m, a).hi, lo |-> c]
           o == SetLow(m, a, c)
<1>1. m[a] \in Cell /\ a \in DOMAIN m
  BY DEF Store
<1>2. Byte(m, a) = m[a] /\ m[a].lo \in Int /\ m[a].hi \in Int
  BY <1>1 DEF Byte, Cell
<1>3. cell \in Cell /\ cell.lo = c /\ cell.hi = m[a].hi
  BY <1>2 DEF Cell
<1> HIDE DEF cell
<1> DEFINE new == [x \in {a} |-> cell]
<1>4. DOMAIN new \subseteq 0..n - 1 /\ DOMAIN new = {a} /\ \A x \in DOMAIN new : new[x] = cell
  OBVIOUS
<1>5. o = Written(m, new)
  BY DEF SetLow, cell
<1> HIDE DEF new, o
<1>6. o \in Store(n) /\ \A x \in 0..n - 1 : o[x] = IF x = a THEN cell ELSE m[x]
  BY <1>3, <1>4, <1>5, WrittenIs
<1>7. ASSUME NEW j \in 0..2 * n - 1
      PROVE  Nibble(o, j) = IF j \in {2 * a + 1} THEN v[j] ELSE Nibble(m, j)
  <2>1. j \div 2 \in 0..n - 1 /\ j = 2 * (j \div 2) + (j % 2) /\ j % 2 \in {0, 1}
    BY NibbleType
  <2>2. CASE Odd(j)
    <3>1. j = 2 * (j \div 2) + 1 /\ Nibble(o, j) = o[j \div 2].lo /\ Nibble(m, j) = m[j \div 2].lo
      BY <2>1, <2>2 DEF Odd, Nibble
    <3>2. CASE j \div 2 = a
      BY <1>3, <1>6, <2>1, <3>1, <3>2
    <3>3. CASE j \div 2 # a
      BY <1>6, <2>1, <3>1, <3>3
    <3> QED BY <3>2, <3>3
  <2>3. CASE ~Odd(j)
    <3>1. j = 2 * (j \div 2) /\ Nibble(o, j) = o[j \div 2].hi /\ Nibble(m, j) = m[j \div 2].hi
      BY <2>1, <2>3 DEF Odd, Nibble
    <3>2. j # 2 * a + 1 /\ o[j \div 2].hi = m[j \div 2].hi
      BY <1>3, <1>6, <2>1, <3>1
    <3> QED BY <3>1, <3>2
  <2> QED BY <2>2, <2>3
<1> QED BY <1>6, <1>7 DEF Painted, o

\* The same by the number of the colour.
LEMMA NibblePaints ==
  ASSUME NEW n \in Nat, NEW m \in Store(n), NEW i \in 0..2 * n - 1, NEW c \in Int,
         NEW v, v[i] = c
  PROVE  Painted(SetNibble(m, i, c), m, n, {i}, v)
<1>1. i \div 2 \in 0..n - 1 /\ (Odd(i) => i = 2 * (i \div 2) + 1) /\ (~Odd(i) => i = 2 * (i \div 2))
  BY NibbleType
<1>2. CASE Odd(i)
  BY <1>1, <1>2, LowPaints DEF SetNibble
<1>3. CASE ~Odd(i)
  BY <1>1, <1>3, HighPaints DEF SetNibble
<1> QED BY <1>2, <1>3

\* Painting twice with the same colours.
LEMMA PaintedTwice ==
  ASSUME NEW n \in Nat, NEW m, NEW o, NEW q, NEW D, NEW E, NEW v, NEW F,
         Painted(o, m, n, D, v), Painted(q, o, n, E, v), F = D \cup E
  PROVE  Painted(q, m, n, F, v)
BY DEF Painted

\* Painting nothing.
LEMMA PaintedNot ==
  ASSUME NEW n \in Nat, NEW m \in Store(n), NEW v
  PROVE  Painted(m, m, n, {}, v)
BY DEF Painted

\* Bytes that are written whole.
LEMMA BytesPaint ==
  ASSUME NEW n \in Nat, NEW m \in Store(n), NEW a \in Nat, NEW c \in Nat, a + c <= n,
         NEW new, DOMAIN new = a..a + c - 1, \A i \in a..a + c - 1 : new[i] \in Cell,
         NEW v, \A i \in a..a + c - 1 : v[2 * i] = new[i].hi /\ v[2 * i + 1] = new[i].lo
  PROVE  Painted(Written(m, new), m, n, 2 * a..2 * (a + c) - 1, v)
<1> DEFINE o == Written(m, new)
<1>1. DOMAIN new \subseteq 0..n - 1
  OBVIOUS
<1>2. o \in Store(n) /\ \A x \in 0..n - 1 : o[x] = IF x \in a..a + c - 1 THEN new[x] ELSE m[x]
  BY <1>1, WrittenIs, SMTT(30)
<1> HIDE DEF o
<1>3. ASSUME NEW j \in 0..2 * n - 1
      PROVE  Nibble(o, j) = IF j \in 2 * a..2 * (a + c) - 1 THEN v[j] ELSE Nibble(m, j)
  <2>1. j \div 2 \in 0..n - 1
    BY NibbleType
  <2>2. j \in 2 * a..2 * (a + c) - 1 <=> j \div 2 \in a..a + c - 1
    OBVIOUS
  <2>3. CASE j \div 2 \in a..a + c - 1
    <3>1. o[j \div 2] = new[j \div 2]
      BY <1>2, <2>1, <2>3
    <3>2. v[2 * (j \div 2)] = new[j \div 2].hi /\ v[2 * (j \div 2) + 1] = new[j \div 2].lo
      BY <2>3
    <3>3. /\ Odd(j) => j = 2 * (j \div 2) + 1 /\ Nibble(o, j) = o[j \div 2].lo
          /\ ~Odd(j) => j = 2 * (j \div 2) /\ Nibble(o, j) = o[j \div 2].hi
      BY <1>2, NibbleType
    <3>4. Nibble(o, j) = v[j]
      <4>1. CASE Odd(j)
        BY <3>1, <3>2, <3>3, <4>1
      <4>2. CASE ~Odd(j)
        BY <3>1, <3>2, <3>3, <4>2
      <4> QED BY <4>1, <4>2
    <3> QED BY <2>2, <2>3, <3>4
  <2>4. CASE ~(j \div 2 \in a..a + c - 1)
    <3>1. o[j \div 2] = m[j \div 2]
      BY <1>2, <2>1, <2>4
    <3>2. Nibble(o, j) = Nibble(m, j)
      BY <3>1 DEF Nibble
    <3> QED BY <2>2, <2>4, <3>2
  <2> QED BY <2>3, <2>4
<1> QED BY <1>2, <1>3 DEF Painted, o

\* A change that says less: what v leaves alone, D need not name.
LEMMA PaintedLess ==
  ASSUME NEW n \in Nat, NEW m, NEW o, NEW D, NEW E, NEW u, NEW v,
         Painted(o, m, n, D, u), E \subseteq D,
         \A j \in 0..2 * n - 1 : j \in E => u[j] = v[j],
         \A j \in 0..2 * n - 1 : j \in D \ E => u[j] = Nibble(m, j)
  PROVE  Painted(o, m, n, E, v)
BY DEF Painted

-----------------------------------------------------------------------------
(***************************************************************************)
(* Lines of colours, at the places they have in a store.                   *)
(***************************************************************************)

\* The colours of v at the len places from lo are those of s from place from.
Taken(v, lo, len, s, from) ==
  \A j \in lo..lo + len - 1 : v[j] = Nibble(s, from + (j - lo))

\* The two colours of a byte.
LEMMA TwoColours ==
  ASSUME NEW m, NEW a \in Nat
  PROVE  Nibble(m, 2 * a) = m[a].hi /\ Nibble(m, 2 * a + 1) = m[a].lo
<1>1. (2 * a) \div 2 = a /\ (2 * a + 1) \div 2 = a /\ (2 * a) % 2 = 0 /\ (2 * a + 1) % 2 = 1
  OBVIOUS
<1> QED BY <1>1 DEF Nibble, Odd

\* Halves.
LEMMA Halves ==
  ASSUME NEW w \in Int
  PROVE  /\ w \div 2 \in Int /\ w % 2 \in {0, 1} /\ w = 2 * (w \div 2) + (w % 2)
         /\ Odd(w) => w = 2 * (w \div 2) + 1 /\ (w + 1) \div 2 = w \div 2 + 1
         /\ ~Odd(w) => w = 2 * (w \div 2) /\ (w + 1) \div 2 = w \div 2
BY DEF Odd

\* memcpy copies colours.
LEMMA CopyPaints ==
  ASSUME NEW n \in Nat, NEW m \in Store(n), NEW k \in Nat, NEW s \in Store(k),
         NEW to \in Nat, NEW from \in Nat, NEW c \in Nat, to + c <= n, from + c <= k,
         NEW v, Taken(v, 2 * to, 2 * c, s, 2 * from)
  PROVE  Painted(CopyBytes(m, to, s, from, c), m, n, 2 * to..2 * to + 2 * c - 1, v)
<1> DEFINE new == [a \in to..to + c - 1 |-> s[from + a - to]]
<1>1. DOMAIN new = to..to + c - 1 /\ \A i \in to..to + c - 1 : new[i] = s[from + i - to]
  OBVIOUS
<1>2. ASSUME NEW i \in to..to + c - 1
      PROVE  /\ new[i] \in Cell
             /\ v[2 * i] = new[i].hi /\ v[2 * i + 1] = new[i].lo
  <2>1. from + i - to \in 0..k - 1 /\ from + i - to \in Nat
    OBVIOUS
  <2>2. s[from + i - to] \in Cell
    BY <2>1 DEF Store
  <2>3. 2 * i \in 2 * to..2 * to + 2 * c - 1 /\ 2 * i + 1 \in 2 * to..2 * to + 2 * c - 1
    OBVIOUS
  <2>4. /\ v[2 * i] = Nibble(s, 2 * from + (2 * i - 2 * to))
        /\ v[2 * i + 1] = Nibble(s, 2 * from + (2 * i + 1 - 2 * to))
    BY <2>3 DEF Taken
  <2>5. /\ 2 * from + (2 * i - 2 * to) = 2 * (from + i - to)
        /\ 2 * from + (2 * i + 1 - 2 * to) = 2 * (from + i - to) + 1
    OBVIOUS
  <2>6. v[2 * i] = s[from + i - to].hi /\ v[2 * i + 1] = s[from + i - to].lo
    BY <2>1, <2>4, <2>5, TwoColours
  <2> QED BY <1>1, <2>2, <2>6
<1>3. CopyBytes(m, to, s, from, c) = Written(m, new)
  BY DEF CopyBytes
<1> HIDE DEF new
<1>4. Painted(Written(m, new), m, n, 2 * to..2 * (to + c) - 1, v)
  BY <1>1, <1>2, BytesPaint
<1>5. 2 * to..2 * (to + c) - 1 = 2 * to..2 * to + 2 * c - 1
  OBVIOUS
<1> QED BY <1>3, <1>4, <1>5

\* w colours to the start of a byte, from the start of a byte.
LEMMA AlignedPaints ==
  ASSUME NEW n \in Nat, NEW m \in Store(n), NEW k \in Nat, NEW b \in Store(k),
         NEW a \in Nat, NEW s \in Nat, NEW w \in Nat, 2 * a + w <= 2 * n, 2 * s + w <= 2 * k,
         NEW v, Taken(v, 2 * a, w, b, 2 * s)
  PROVE  Painted(PutAligned(m, a, b, s, w), m, n, 2 * a..2 * a + w - 1, v)
<1> DEFINE c == w \div 2
           copied == CopyBytes(m, a, b, s, c)
<1>1. c \in Nat /\ (Odd(w) => w = 2 * c + 1) /\ (~Odd(w) => w = 2 * c)
  BY Halves
<1> HIDE DEF c
<1>2. PutAligned(m, a, b, s, w) = IF Odd(w) THEN SetHigh(copied, a + c, b[s + c].hi) ELSE copied
  BY DEF PutAligned, c
<1>3. a + c <= n /\ s + c <= k /\ 2 * c <= w
  BY <1>1
<1>4. Taken(v, 2 * a, 2 * c, b, 2 * s)
  BY <1>1, <1>3 DEF Taken
<1>5. Painted(copied, m, n, 2 * a..2 * a + 2 * c - 1, v)
  BY <1>3, <1>4, <1>1, CopyPaints
<1> HIDE DEF copied
<1>6. CASE ~Odd(w)
  BY <1>1, <1>2, <1>5, <1>6
<1>7. CASE Odd(w)
  <2>1. a + c \in 0..n - 1 /\ s + c \in 0..k - 1 /\ s + c \in Nat
    BY <1>1, <1>7
  <2>2. b[s + c] \in Cell /\ b[s + c].hi \in Int
    BY <2>1 DEF Store, Cell
  <2>3. 2 * (a + c) \in 2 * a..2 * a + w - 1
    BY <1>1, <1>7
  <2>4. v[2 * (a + c)] = Nibble(b, 2 * s + (2 * (a + c) - 2 * a))
    BY <2>3 DEF Taken
  <2>5. 2 * s + (2 * (a + c) - 2 * a) = 2 * (s + c)
    BY <1>1
  <2>6. v[2 * (a + c)] = b[s + c].hi
    BY <2>1, <2>4, <2>5, TwoColours
  <2>7. copied \in Store(n)
    BY <1>5 DEF Painted
  <2>8. Painted(SetHigh(copied, a + c, b[s + c].hi), copied, n, {2 * (a + c)}, v)
    BY <2>1, <2>2, <2>6, <2>7, HighPaints
  <2>9. 2 * a..2 * a + w - 1 = (2 * a..2 * a + 2 * c - 1) \cup {2 * (a + c)}
    BY <1>1, <1>7
  <2> DEFINE D == 2 * a..2 * a + 2 * c - 1
             E == {2 * (a + c)}
             F == 2 * a..2 * a + w - 1
             q == SetHigh(copied, a + c, b[s + c].hi)
  <2>10. Painted(copied, m, n, D, v) /\ Painted(q, copied, n, E, v) /\ F = D \cup E
    BY <1>5, <2>8, <2>9
  <2> HIDE DEF D, E, F, q
  <2>11. Painted(q, m, n, F, v)
    BY <2>10, PaintedTwice
  <2> QED BY <1>2, <1>7, <2>11 DEF F, q
<1> QED BY <1>6, <1>7

\* w colours to the middle of a byte, from the start of a byte.
LEMMA ShiftedPaints ==
  ASSUME NEW n \in Nat, NEW m \in Store(n), NEW k \in Nat, NEW b \in Store(k),
         NEW a \in Nat, NEW s \in Nat, NEW w \in Nat,
         2 * a + 1 + w <= 2 * n, 2 * s + w <= 2 * k,
         NEW v, Taken(v, 2 * a + 1, w, b, 2 * s)
  PROVE  Painted(PutShifted(m, a, b, s, w), m, n, 2 * a + 1..2 * a + w, v)
<1>1. CASE w = 0
  <2>1. PutShifted(m, a, b, s, w) = m
    BY <1>1 DEF PutShifted
  <2>2. 2 * a + 1..2 * a + w = {}
    BY <1>1
  <2> QED BY <2>1, <2>2, PaintedNot
<1>2. CASE w # 0
  <2> DEFINE c == (w + 1) \div 2
             new == [i \in a..a + c - 1 |->
                       [hi |-> IF i = a THEN m[a].hi ELSE b[s + i - a - 1].lo,
                        lo |-> b[s + i - a].hi]]
             shifted == Written(m, new)
  <2>1. c \in Nat /\ c > 0 /\ (Odd(w) => w + 1 = 2 * c) /\ (~Odd(w) => w = 2 * c)
    BY <1>2, Halves
  <2> HIDE DEF c
  <2>2. PutShifted(m, a, b, s, w) =
          IF Odd(w) THEN shifted ELSE SetHigh(shifted, a + c, b[s + c - 1].lo)
    BY <1>2 DEF PutShifted, c
  <2>3. a + c <= n /\ s + c <= k /\ 2 * c <= w + 1 /\ a \in 0..n - 1
    BY <1>2, <2>1
  <2>4. m[a] \in Cell
    BY <2>3 DEF Store
  <2> DEFINE u == [j \in 0..2 * n - 1 |-> IF j = 2 * a THEN m[a].hi ELSE v[j]]
  <2>5. DOMAIN new = a..a + c - 1
    OBVIOUS
  <2>6. ASSUME NEW i \in a..a + c - 1
        PROVE  new[i] \in Cell /\ u[2 * i] = new[i].hi /\ u[2 * i + 1] = new[i].lo
    <3>1. s + i - a \in 0..k - 1 /\ s + i - a \in Nat /\ i \in Nat
      BY <2>1, <2>3
    <3>2. b[s + i - a] \in Cell
      BY <3>1 DEF Store
    <3>3. 2 * i \in 0..2 * n - 1 /\ 2 * i + 1 \in 0..2 * n - 1 /\ 2 * i + 1 # 2 * a
      BY <2>3, <2>1
    <3>4. 2 * i + 1 \in 2 * a + 1..2 * a + 1 + w - 1
      BY <2>1
    <3>5. v[2 * i + 1] = Nibble(b, 2 * s + (2 * i + 1 - (2 * a + 1)))
      BY <3>4 DEF Taken
    <3>6. 2 * s + (2 * i + 1 - (2 * a + 1)) = 2 * (s + i - a)
      BY <3>1
    <3>7. u[2 * i + 1] = b[s + i - a].hi
      BY <3>1, <3>3, <3>5, <3>6, TwoColours
    <3>8. CASE i = a
      <4>1. new[i] = [hi |-> m[a].hi, lo |-> b[s + i - a].hi] /\ u[2 * i] = m[a].hi
        BY <3>3, <3>8
      <4> HIDE DEF new, u
      <4> QED BY <2>4, <3>2, <3>7, <4>1 DEF Cell
    <3>9. CASE i # a
      <4>1. s + i - a - 1 \in 0..k - 1 /\ s + i - a - 1 \in Nat
        BY <2>1, <2>3, <3>9
      <4>2. b[s + i - a - 1] \in Cell
        BY <4>1 DEF Store
      <4>3. 2 * i \in 2 * a + 1..2 * a + 1 + w - 1
        BY <2>1, <3>9
      <4>4. v[2 * i] = Nibble(b, 2 * s + (2 * i - (2 * a + 1)))
        BY <4>3 DEF Taken
      <4>5. 2 * s + (2 * i - (2 * a + 1)) = 2 * (s + i - a - 1) + 1
        BY <3>1
      <4>6. v[2 * i] = b[s + i - a - 1].lo
        BY <4>1, <4>4, <4>5, TwoColours
      <4>7. u[2 * i] = v[2 * i] /\ new[i] = [hi |-> b[s + i - a - 1].lo, lo |-> b[s + i - a].hi]
        BY <3>3, <3>9
      <4> HIDE DEF new, u
      <4> QED BY <3>2, <3>7, <4>2, <4>6, <4>7 DEF Cell
    <3> QED BY <3>8, <3>9
  <2> HIDE DEF new, u
  <2>7. Painted(shifted, m, n, 2 * a..2 * (a + c) - 1, u)
    BY <2>1, <2>3, <2>5, <2>6, BytesPaint
  <2>8. \A j \in 0..2 * n - 1 : u[j] = IF j = 2 * a THEN m[a].hi ELSE v[j]
    BY DEF u
  <2>9. Nibble(m, 2 * a) = m[a].hi
    BY TwoColours
  <2> HIDE DEF shifted
  <2>10. Painted(shifted, m, n, 2 * a + 1..2 * (a + c) - 1, v)
    <3>1. 2 * a + 1..2 * (a + c) - 1 \subseteq 2 * a..2 * (a + c) - 1
      BY <2>1
    <3>2. \A j \in 0..2 * n - 1 : j \in 2 * a + 1..2 * (a + c) - 1 => u[j] = v[j]
      BY <2>1, <2>8
    <3>3. \A j \in 0..2 * n - 1 :
            j \in (2 * a..2 * (a + c) - 1) \ (2 * a + 1..2 * (a + c) - 1) => u[j] = Nibble(m, j)
      BY <2>1, <2>8, <2>9
    <3> DEFINE D == 2 * a..2 * (a + c) - 1
               E == 2 * a + 1..2 * (a + c) - 1
    <3>4. /\ Painted(shifted, m, n, D, u) /\ E \subseteq D
          /\ \A j \in 0..2 * n - 1 : j \in E => u[j] = v[j]
          /\ \A j \in 0..2 * n - 1 : j \in D \ E => u[j] = Nibble(m, j)
      BY <2>7, <3>1, <3>2, <3>3
    <3> HIDE DEF D, E
    <3>5. Painted(shifted, m, n, E, v)
      BY <3>4, PaintedLess
    <3> QED BY <3>5 DEF E
  <2>11. CASE Odd(w)
    <3>1. 2 * a + 1..2 * (a + c) - 1 = 2 * a + 1..2 * a + w
      BY <2>1, <2>11
    <3> QED BY <2>2, <2>10, <2>11, <3>1
  <2>12. CASE ~Odd(w)
    <3>1. a + c \in 0..n - 1 /\ s + c - 1 \in 0..k - 1 /\ s + c - 1 \in Nat
      BY <2>1, <2>12
    <3>2. b[s + c - 1] \in Cell /\ b[s + c - 1].lo \in Int
      BY <3>1 DEF Store, Cell
    <3>3. 2 * (a + c) \in 2 * a + 1..2 * a + 1 + w - 1
      BY <2>1, <2>12
    <3>4. v[2 * (a + c)] = Nibble(b, 2 * s + (2 * (a + c) - (2 * a + 1)))
      BY <3>3 DEF Taken
    <3>5. 2 * s + (2 * (a + c) - (2 * a + 1)) = 2 * (s + c - 1) + 1
      BY <2>1
    <3>6. v[2 * (a + c)] = b[s + c - 1].lo
      BY <3>1, <3>4, <3>5, TwoColours
    <3>7. shifted \in Store(n)
      BY <2>10 DEF Painted
    <3>8. Painted(SetHigh(shifted, a + c, b[s + c - 1].lo), shifted, n, {2 * (a + c)}, v)
      BY <3>1, <3>2, <3>6, <3>7, HighPaints
    <3>9. 2 * a + 1..2 * a + w = (2 * a + 1..2 * (a + c) - 1) \cup {2 * (a + c)}
      BY <2>1, <2>12
    <3> DEFINE D == 2 * a + 1..2 * (a + c) - 1
               E == {2 * (a + c)}
               F == 2 * a + 1..2 * a + w
               q == SetHigh(shifted, a + c, b[s + c - 1].lo)
    <3>10. Painted(shifted, m, n, D, v) /\ Painted(q, shifted, n, E, v) /\ F = D \cup E
      BY <2>10, <3>8, <3>9
    <3> HIDE DEF D, E, F, q
    <3>11. Painted(q, m, n, F, v)
      BY <3>10, PaintedTwice
    <3> QED BY <2>2, <2>12, <3>11 DEF F, q
  <2> QED BY <2>11, <2>12
<1> QED BY <1>1, <1>2

\* w colours to the start of a byte, from the middle of a byte.
LEMMA GetShiftedPaints ==
  ASSUME NEW n \in Nat, NEW b \in Store(n), NEW k \in Nat, NEW m \in Store(k),
         NEW s \in Nat, NEW a \in Nat, NEW w \in Nat,
         2 * s + w <= 2 * n, 2 * a + 1 + w <= 2 * k,
         NEW v, Taken(v, 2 * s, w, m, 2 * a + 1)
  PROVE  Painted(GetShifted(b, s, m, a, w), b, n, 2 * s..2 * s + w - 1, v)
<1> DEFINE c == w \div 2
           new == [i \in s..s + c - 1 |->
                     [hi |-> m[a + i - s].lo, lo |-> m[a + i - s + 1].hi]]
           shifted == Written(b, new)
<1>1. c \in Nat /\ (Odd(w) => w = 2 * c + 1) /\ (~Odd(w) => w = 2 * c)
  BY Halves
<1> HIDE DEF c
<1>2. GetShifted(b, s, m, a, w) =
        IF Odd(w) THEN SetHigh(shifted, s + c, m[a + c].lo) ELSE shifted
  BY DEF GetShifted, c
<1>3. s + c <= n /\ 2 * c <= w
  BY <1>1
<1>4. DOMAIN new = s..s + c - 1
  OBVIOUS
<1>5. ASSUME NEW i \in s..s + c - 1
      PROVE  new[i] \in Cell /\ v[2 * i] = new[i].hi /\ v[2 * i + 1] = new[i].lo
  <2>1. /\ a + i - s \in 0..k - 1 /\ a + i - s \in Nat
        /\ a + i - s + 1 \in 0..k - 1 /\ a + i - s + 1 \in Nat
    BY <1>1, <1>3
  <2>2. m[a + i - s] \in Cell /\ m[a + i - s + 1] \in Cell
    BY <2>1 DEF Store
  <2>3. 2 * i \in 2 * s..2 * s + w - 1 /\ 2 * i + 1 \in 2 * s..2 * s + w - 1
    BY <1>1, <1>3
  <2>4. /\ v[2 * i] = Nibble(m, 2 * a + 1 + (2 * i - 2 * s))
        /\ v[2 * i + 1] = Nibble(m, 2 * a + 1 + (2 * i + 1 - 2 * s))
    BY <2>3 DEF Taken
  <2>5. /\ 2 * a + 1 + (2 * i - 2 * s) = 2 * (a + i - s) + 1
        /\ 2 * a + 1 + (2 * i + 1 - 2 * s) = 2 * (a + i - s + 1)
    BY <2>1
  <2>6. v[2 * i] = m[a + i - s].lo /\ v[2 * i + 1] = m[a + i - s + 1].hi
    BY <2>1, <2>4, <2>5, TwoColours
  <2>7. new[i] = [hi |-> m[a + i - s].lo, lo |-> m[a + i - s + 1].hi]
    OBVIOUS
  <2> HIDE DEF new
  <2> QED BY <2>2, <2>6, <2>7 DEF Cell
<1> HIDE DEF new
<1>6. Painted(shifted, b, n, 2 * s..2 * (s + c) - 1, v)
  BY <1>1, <1>3, <1>4, <1>5, BytesPaint
<1> HIDE DEF shifted
<1>7. CASE ~Odd(w)
  <2>1. 2 * s..2 * (s + c) - 1 = 2 * s..2 * s + w - 1
    BY <1>1, <1>7
  <2> QED BY <1>2, <1>6, <1>7, <2>1
<1>8. CASE Odd(w)
  <2>1. s + c \in 0..n - 1 /\ a + c \in 0..k - 1 /\ a + c \in Nat
    BY <1>1, <1>8
  <2>2. m[a + c] \in Cell /\ m[a + c].lo \in Int
    BY <2>1 DEF Store, Cell
  <2>3. 2 * (s + c) \in 2 * s..2 * s + w - 1
    BY <1>1, <1>8
  <2>4. v[2 * (s + c)] = Nibble(m, 2 * a + 1 + (2 * (s + c) - 2 * s))
    BY <2>3 DEF Taken
  <2>5. 2 * a + 1 + (2 * (s + c) - 2 * s) = 2 * (a + c) + 1
    BY <1>1
  <2>6. v[2 * (s + c)] = m[a + c].lo
    BY <2>1, <2>4, <2>5, TwoColours
  <2>7. shifted \in Store(n)
    BY <1>6 DEF Painted
  <2> DEFINE D == 2 * s..2 * (s + c) - 1
             E == {2 * (s + c)}
             F == 2 * s..2 * s + w - 1
             q == SetHigh(shifted, s + c, m[a + c].lo)
  <2>8. Painted(q, shifted, n, E, v)
    BY <2>1, <2>2, <2>6, <2>7, HighPaints
  <2>9. Painted(shifted, b, n, D, v) /\ F = D \cup E
    BY <1>1, <1>6, <1>8
  <2> HIDE DEF D, E, F, q
  <2>10. Painted(q, b, n, F, v)
    BY <2>8, <2>9, PaintedTwice
  <2> QED BY <1>2, <1>8, <2>10 DEF F, q
<1> QED BY <1>7, <1>8

\* A line in the foreground, with its row at the colour 2 * r of the store.
LEMMA LinePaints ==
  ASSUME NEW n \in Nat, NEW m \in Store(n), NEW x \in Nat, NEW y, NEW w \in Nat \ {0},
         NEW r \in Nat, y * Stride = r, 2 * r + x + w <= 2 * n,
         NEW v, \A j \in 2 * r + x..2 * r + x + w - 1 : v[j] = Foreground
  PROVE  Painted(DrawHLineNC(m, x, y, w), m, n, 2 * r + x..2 * r + x + w - 1, v)
<1> DEFINE first == x % 2
           a == r + x \div 2 + first
           c == (w - first) \div 2
           left == IF first = 1 THEN SetLow(m, a - 1, Foreground) ELSE m
           new == [i \in a..a + c - 1 |-> [hi |-> Foreground, lo |-> Foreground]]
           middle == Written(left, new)
<1>1. /\ first \in {0, 1} /\ a \in Nat /\ 2 * a = 2 * r + x + first
      /\ c \in Nat /\ (Odd(w - first) => w - first = 2 * c + 1)
      /\ (~Odd(w - first) => w - first = 2 * c)
  <2>1. first \in {0, 1} /\ x = 2 * (x \div 2) + first /\ x \div 2 \in Int
    BY Halves
  <2>2. /\ w - first \in Nat /\ c \in Int
        /\ (Odd(w - first) => w - first = 2 * c + 1) /\ (~Odd(w - first) => w - first = 2 * c)
    <3> HIDE DEF first
    <3> QED BY <2>1, Halves
  <2> HIDE DEF first, c
  <2> QED BY <2>1, <2>2
<1>2. Address(x, y) + first = a
  BY DEF Address
<1>3. DrawHLineNC(m, x, y, w) =
        IF Odd(w - first) THEN SetHigh(middle, a + c, Foreground) ELSE middle
  BY <1>2 DEF DrawHLineNC
<1>4. Foreground \in Int
  BY DEF Foreground
<1>5. DOMAIN new = a..a + c - 1 /\ \A i \in a..a + c - 1 : new[i] = [hi |-> Foreground, lo |-> Foreground]
  OBVIOUS
<1> HIDE DEF a, c, new
<1>6. Painted(left, m, n, 2 * r + x..2 * a - 1, v)
  <2>1. CASE first = 1
    <3>1. a - 1 \in 0..n - 1 /\ 2 * (a - 1) + 1 = 2 * r + x
      BY <1>1, <2>1
    <3>2. v[2 * (a - 1) + 1] = Foreground
      BY <3>1
    <3>3. Painted(SetLow(m, a - 1, Foreground), m, n, {2 * (a - 1) + 1}, v)
      BY <1>4, <3>1, <3>2, LowPaints
    <3>4. 2 * r + x..2 * a - 1 = {2 * (a - 1) + 1}
      BY <1>1, <2>1
    <3> QED BY <2>1, <3>3, <3>4
  <2>2. CASE first = 0
    <3>1. 2 * r + x..2 * a - 1 = {} /\ left = m
      BY <1>1, <2>2
    <3> QED BY <3>1, PaintedNot
  <2> QED BY <1>1, <2>1, <2>2
<1>7. left \in Store(n)
  BY <1>6 DEF Painted
<1> HIDE DEF left, first
<1>8. Painted(middle, left, n, 2 * a..2 * (a + c) - 1, v)
  <2>1. a + c <= n
    BY <1>1
  <2>2. ASSUME NEW i \in a..a + c - 1
        PROVE  new[i] \in Cell /\ v[2 * i] = new[i].hi /\ v[2 * i + 1] = new[i].lo
    <3>1. 2 * i \in 2 * r + x..2 * r + x + w - 1 /\ 2 * i + 1 \in 2 * r + x..2 * r + x + w - 1
      BY <1>1
    <3> QED BY <1>4, <1>5, <3>1 DEF Cell
  <2> QED BY <1>1, <1>5, <1>7, <2>1, <2>2, BytesPaint
<1>9. Painted(middle, m, n, 2 * r + x..2 * (a + c) - 1, v)
  <2> DEFINE D == 2 * r + x..2 * a - 1
             E == 2 * a..2 * (a + c) - 1
             F == 2 * r + x..2 * (a + c) - 1
  <2>1. Painted(left, m, n, D, v) /\ Painted(middle, left, n, E, v) /\ F = D \cup E
    BY <1>1, <1>6, <1>8
  <2> HIDE DEF D, E, F, middle
  <2>2. Painted(middle, m, n, F, v)
    BY <2>1, PaintedTwice
  <2> QED BY <2>2 DEF F
<1> HIDE DEF middle
<1>10. CASE ~Odd(w - first)
  <2>1. 2 * r + x..2 * (a + c) - 1 = 2 * r + x..2 * r + x + w - 1
    BY <1>1, <1>10
  <2> QED BY <1>3, <1>9, <1>10, <2>1
<1>11. CASE Odd(w - first)
  <2>1. a + c \in 0..n - 1 /\ 2 * (a + c) \in 2 * r + x..2 * r + x + w - 1
    BY <1>1, <1>11
  <2>2. v[2 * (a + c)] = Foreground /\ middle \in Store(n)
    BY <1>9, <2>1 DEF Painted
  <2> DEFINE D == 2 * r + x..2 * (a + c) - 1
             E == {2 * (a + c)}
             F == 2 * r + x..2 * r + x + w - 1
             q == SetHigh(middle, a + c, Foreground)
  <2>3. Painted(q, middle, n, E, v)
    BY <1>4, <2>1, <2>2, HighPaints
  <2>4. Painted(middle, m, n, D, v) /\ F = D \cup E
    BY <1>1, <1>9, <1>11
  <2> HIDE DEF D, E, F, q
  <2>5. Painted(q, m, n, F, v)
    BY <2>3, <2>4, PaintedTwice
  <2> QED BY <1>3, <1>11, <2>5 DEF F, q
<1> QED BY <1>10, <1>11

-----------------------------------------------------------------------------
(***************************************************************************)
(* Pixels, and the places they have in a frame.                            *)
(***************************************************************************)

At(m, p) == Nibble(m, 2 * p[2] * Stride + p[1])

\* o is m with the pixels at D replaced by those of v.
Changed(o, m, D, v) ==
  /\ o \in Store(Size)
  /\ \A p \in Screen!Pixels : At(o, p) = IF p \in D THEN v[p] ELSE At(m, p)

\* The pixels of the box b inside the clipping rectangle k.
Inside(b, k) == {p \in Screen!Pixels : Screen!InBox(p, b) /\ Screen!InClip(p, k)}

\* w pixels from x, y.
Span(x, y, w) == {p \in Screen!Pixels : p[2] = y /\ x <= p[1] /\ p[1] < x + w}

\* Products.
LEMMA Products ==
  ASSUME NEW y \in Nat, NEW z \in Nat, NEW s \in Nat
  PROVE  /\ y * s \in Nat
         /\ y < z => y * s + s <= z * s
<1>1. y * s \in Nat
  OBVIOUS
<1>2. ASSUME y < z PROVE y * s + s <= z * s
  <2>1. PICK d \in Nat : z = y + 1 + d
    <3>1. z - y - 1 \in Nat /\ z = y + 1 + (z - y - 1)
      BY <1>2
    <3> QED BY <3>1
  <2>2. z * s = y * s + s + d * s /\ d * s \in Nat
    BY <2>1
  <2> QED BY <1>1, <2>2
<1> QED BY <1>1, <1>2

LEMMA Strides ==
  Stride \in Nat \ {0} /\ VirtX <= 2 * Stride /\ Size \in Nat
<1>1. VirtX \in Nat \ {0} /\ VirtY \in Nat
  BY SizeAssumption
<1>2. Stride \in Nat \ {0} /\ VirtX <= 2 * Stride
  BY <1>1 DEF Stride
<1>3. Size \in Nat
  BY <1>1, <1>2, Products DEF Size
<1> QED BY <1>2, <1>3

\* Every row has bytes of its own.
LEMMA Rows ==
  ASSUME NEW y \in 0..VirtY - 1, NEW z \in 0..VirtY - 1
  PROVE  /\ y * Stride \in Nat /\ y * Stride + Stride <= Size
         /\ 2 * y * Stride = 2 * (y * Stride)
         /\ y < z => y * Stride + Stride <= z * Stride
<1>1. VirtY \in Nat /\ y \in Nat /\ z \in Nat /\ y < VirtY /\ Stride \in Nat
  BY SizeAssumption, Strides
<1>2. y * Stride \in Nat /\ y * Stride + Stride <= VirtY * Stride
  BY <1>1, Products
<1>3. VirtY * Stride = Size /\ 2 * y * Stride = 2 * (y * Stride)
  BY <1>1 DEF Size
<1>4. y < z => y * Stride + Stride <= z * Stride
  BY <1>1, Products
<1> QED BY <1>2, <1>3, <1>4

\* The place of a pixel, and that of a line of them.
LEMMA Places ==
  ASSUME NEW p \in Screen!Pixels, NEW y \in 0..VirtY - 1, NEW r, r = y * Stride
  PROVE  /\ r \in Nat /\ r + Stride <= Size
         /\ p[1] \in 0..VirtX - 1 /\ p[2] \in 0..VirtY - 1
         /\ 2 * p[2] * Stride + p[1] \in 0..2 * Size - 1
         /\ p[2] = y => 2 * p[2] * Stride + p[1] = 2 * r + p[1]
         /\ p[2] # y => 2 * p[2] * Stride + p[1] \notin 2 * r..2 * r + 2 * Stride - 1
<1>1. p[1] \in 0..VirtX - 1 /\ p[2] \in 0..VirtY - 1
  BY DEF Screen!Pixels
<1>2. VirtX \in Nat /\ VirtY \in Nat /\ Stride \in Nat /\ VirtX <= 2 * Stride /\ Size \in Nat
  BY SizeAssumption, Strides
<1>3. PICK q : q = p[2] * Stride
  OBVIOUS
<1>4. q \in Nat /\ q + Stride <= Size /\ 2 * p[2] * Stride = 2 * q
  BY <1>1, <1>3, Rows
<1>5. r \in Nat /\ r + Stride <= Size
  BY Rows
<1>6. (p[2] < y => q + Stride <= r) /\ (y < p[2] => r + Stride <= q) /\ (p[2] = y => q = r)
  BY <1>1, <1>3, Rows
<1>7. p[2] # y => p[2] < y \/ y < p[2]
  BY <1>1, <1>2
<1> QED BY <1>1, <1>2, <1>4, <1>5, <1>6, <1>7

\* A line of colours changes a line of pixels.
LEMMA LineChanges ==
  ASSUME NEW y \in 0..VirtY - 1, NEW x \in Nat, NEW w \in Int, x + w <= VirtX,
         NEW r, r = y * Stride,
         NEW m, NEW o, NEW u, Painted(o, m, Size, 2 * r + x..2 * r + x + w - 1, u),
         NEW v, \A p \in Span(x, y, w) : v[p] = u[2 * r + p[1]]
  PROVE  Changed(o, m, Span(x, y, w), v)
<1>1. o \in Store(Size)
  BY DEF Painted
<1>2. ASSUME NEW p \in Screen!Pixels
      PROVE  At(o, p) = IF p \in Span(x, y, w) THEN v[p] ELSE At(m, p)
  <2> DEFINE j == 2 * p[2] * Stride + p[1]
  <2>1. /\ r \in Nat /\ p[1] \in 0..VirtX - 1
        /\ j \in 0..2 * Size - 1 /\ (p[2] = y => j = 2 * r + p[1])
        /\ (p[2] # y => j \notin 2 * r..2 * r + 2 * Stride - 1)
    BY Places
  <2>2. At(o, p) = Nibble(o, j) /\ At(m, p) = Nibble(m, j)
    BY DEF At
  <2> HIDE DEF j
  <2>3. Nibble(o, j) = IF j \in 2 * r + x..2 * r + x + w - 1 THEN u[j] ELSE Nibble(m, j)
    BY <2>1 DEF Painted
  <2>4. VirtX \in Nat /\ Stride \in Nat /\ VirtX <= 2 * Stride
    BY SizeAssumption, Strides
  <2>5. j \in 2 * r + x..2 * r + x + w - 1 <=> p[2] = y /\ x <= p[1] /\ p[1] < x + w
    BY <2>1, <2>4
  <2>6. p \in Span(x, y, w) <=> p[2] = y /\ x <= p[1] /\ p[1] < x + w
    BY DEF Span
  <2>7. CASE p \in Span(x, y, w)
    BY <2>1, <2>2, <2>3, <2>5, <2>6, <2>7
  <2>8. CASE p \notin Span(x, y, w)
    BY <2>2, <2>3, <2>5, <2>6, <2>8
  <2> QED BY <2>7, <2>8
<1> QED BY <1>1, <1>2 DEF Changed

\* Nothing, or the same pixels under another name.
LEMMA ChangedNot ==
  ASSUME NEW m \in Store(Size), NEW D, NEW v, D = {}
  PROVE  Changed(m, m, D, v)
BY DEF Changed

LEMMA ChangedTwice ==
  ASSUME NEW m, NEW o, NEW q, NEW D, NEW E, NEW v, NEW F,
         Changed(o, m, D, v), Changed(q, o, E, v), F = D \cup E
  PROVE  Changed(q, m, F, v)
BY DEF Changed
-----------------------------------------------------------------------------
(***************************************************************************)
(* Clipping.                                                               *)
(***************************************************************************)

\* What c leaves of the len pixels at pos is what lies in lo..hi - 1.
Leaves(c, pos, len, lo, hi) ==
  /\ c.pos \in Int /\ c.skip \in Nat /\ c.len \in Int
  /\ c.pos = pos + c.skip /\ lo <= c.pos /\ c.skip + c.len <= len
  /\ c.len > 0 => c.pos + c.len <= hi
  /\ c.skip > 0 => c.pos = lo
  /\ \A q \in Int : c.pos <= q /\ q < c.pos + c.len
                      <=> lo <= q /\ q < hi /\ pos <= q /\ q < pos + len

LEMMA ClippedIs ==
  ASSUME NEW pos \in Int, NEW len \in Nat, NEW lo \in Int, NEW hi \in Int, lo <= hi
  PROVE  Leaves(Clipped(pos, len, lo, hi), pos, len, lo, hi)
<1>0. PICK c : c = Clipped(pos, len, lo, hi)
  OBVIOUS
<1> DEFINE skip == IF pos < lo THEN lo - pos ELSE 0
           start == pos + skip
           left == len - skip
           l == IF start + left > hi THEN hi - start ELSE left
<1>1. c = [pos |-> start, skip |-> skip, len |-> l]
  BY <1>0 DEF Clipped
<1>2. /\ skip \in Nat /\ l \in Int /\ lo <= start /\ skip + l <= len
      /\ l > 0 => start + l <= hi
      /\ skip > 0 => start = lo
      /\ \A q \in Int : start <= q /\ q < start + l
                             <=> lo <= q /\ q < hi /\ pos <= q /\ q < pos + len
  OBVIOUS
<1>3. c.pos = start /\ c.skip = skip /\ c.len = l
  BY <1>1
<1> HIDE DEF l, skip
<1> QED BY <1>0, <1>2, <1>3 DEF Leaves

\* A clipping rectangle lies in the virtual area.
LEMMA ClipType ==
  ASSUME NEW k \in Clips
  PROVE  /\ k.left \in 0..VirtX /\ k.right \in 0..VirtX /\ k.left <= k.right
         /\ k.top \in 0..VirtY /\ k.bottom \in 0..VirtY /\ k.top <= k.bottom
         /\ VirtX \in Nat /\ VirtY \in Nat
BY ClipAssumption, SizeAssumption

\* A line and a column in a clipping rectangle.
LEMMA ClippedInClip ==
  ASSUME NEW k \in Clips, NEW x \in Int, NEW w \in Nat
  PROVE  /\ Leaves(Clipped(x, w, k.left, k.right), x, w, k.left, k.right)
         /\ Leaves(Clipped(x, w, k.top, k.bottom), x, w, k.top, k.bottom)
<1>1. /\ k.left \in Int /\ k.right \in Int /\ k.left <= k.right
      /\ k.top \in Int /\ k.bottom \in Int /\ k.top <= k.bottom
  BY ClipType
<1> QED BY <1>1, ClippedIs

-----------------------------------------------------------------------------
(***************************************************************************)
(* Loops.                                                                  *)
(***************************************************************************)

Below == {ss \in Nat \X Nat : ss[1] < ss[2]}

\* A set of naturals has a least element.
LEMMA LeastElement ==
  ASSUME NEW T, T \subseteq Nat, T # {}
  PROVE  \E x \in T : \A y \in T : x <= y
<1>1. IsWellFoundedOn(Below, Nat)
  BY NatLessThanWellFounded DEF OpToRel, Below
<1>2. PICK x \in T : \A y \in T : ~ (<<y, x>> \in Below)
  BY <1>1, WFMin
<1>3. \A y \in T : ~(y < x)
  BY <1>2 DEF Below
<1> QED BY <1>3

\* What holds before a loop and is kept by its steps holds after it.
LEMMA Climb ==
  ASSUME NEW n \in Nat, NEW T, 0 \in T, \A i \in 0..n - 1 : i \in T => i + 1 \in T
  PROVE  n \in T
<1> SUFFICES ASSUME n \notin T PROVE FALSE
  OBVIOUS
<1> DEFINE B == {i \in 0..n : i \notin T}
<1>1. PICK x \in B : \A y \in B : x <= y
  <2>1. B \subseteq Nat /\ B # {}
    OBVIOUS
  <2> HIDE DEF B
  <2> QED BY <2>1, LeastElement
<1>2. x \in 0..n /\ x \notin T /\ x # 0
  OBVIOUS
<1>3. x - 1 \in 0..n - 1 /\ x - 1 \in T
  BY <1>1, <1>2
<1>4. x - 1 + 1 \in T
  BY <1>3
<1> QED BY <1>2, <1>4

\* g is what Repeat(m, n, F) goes through.
Goes(g, m, n, F) == g = [i \in 0..n |-> IF i = 0 THEN m ELSE F[<<g[i - 1], i - 1>>]]

\* A step that stays in S can be repeated.
LEMMA Repeats ==
  ASSUME NEW n \in Nat, NEW S, NEW m \in S, NEW F,
         \A i \in 0..n - 1, s \in S : F[<<s, i>>] \in S
  PROVE  \E g : Goes(g, m, n, F) /\ \A i \in 0..n : g[i] \in S
<1> DEFINE Good(k, g) == g[0] = m /\ \A i \in 0..k - 1 : g[i + 1] = F[<<g[i], i>>]
           T == {k \in 0..n : \E g \in [0..k -> S] : Good(k, g)}
<1>1. 0 \in T
  <2>1. [i \in 0..0 |-> m] \in [0..0 -> S] /\ Good(0, [i \in 0..0 |-> m])
    OBVIOUS
  <2>2. \E g \in [0..0 -> S] : Good(0, g)
    <3> HIDE DEF Good
    <3> QED BY <2>1
  <2> HIDE DEF Good
  <2> QED BY <2>2
<1>2. ASSUME NEW k \in 0..n - 1, k \in T PROVE k + 1 \in T
  <2>1. PICK g \in [0..k -> S] : Good(k, g)
    BY <1>2
  <2> DEFINE h == [i \in 0..k + 1 |-> IF i = k + 1 THEN F[<<g[k], k>>] ELSE g[i]]
  <2>2. F[<<g[k], k>>] \in S
    OBVIOUS
  <2>3. h \in [0..k + 1 -> S]
    BY <2>2
  <2>4. h[0] = m
    BY <2>1
  <2>5. ASSUME NEW i \in 0..k PROVE h[i + 1] = F[<<h[i], i>>]
    <3>1. CASE i = k
      BY <3>1
    <3>2. CASE i # k
      <4>1. i \in 0..k - 1 /\ i + 1 # k + 1 /\ i + 1 \in 0..k + 1 /\ i \in 0..k + 1
        BY <3>2
      <4>2. g[i + 1] = F[<<g[i], i>>]
        BY <2>1, <4>1
      <4> QED BY <4>1, <4>2
    <3> QED BY <3>1, <3>2
  <2> HIDE DEF h
  <2>6. Good(k + 1, h)
    BY <2>4, <2>5
  <2> QED BY <2>3, <2>6
<1>3. n \in T
  <2> HIDE DEF T
  <2> QED BY <1>1, <1>2, Climb
<1>4. PICK g \in [0..n -> S] : Good(n, g)
  BY <1>3
<1>5. ASSUME NEW i \in 0..n PROVE g[i] = IF i = 0 THEN m ELSE F[<<g[i - 1], i - 1>>]
  <2>1. CASE i # 0
    <3>1. i - 1 \in 0..n - 1 /\ i - 1 + 1 = i
      BY <2>1
    <3> QED BY <1>4, <2>1, <3>1
  <2> QED BY <1>4, <2>1
<1>6. g = [i \in 0..n |-> IF i = 0 THEN m ELSE F[<<g[i - 1], i - 1>>]]
  BY <1>4, <1>5
<1> QED BY <1>4, <1>6 DEF Goes

\* w x h pixels from x, y.
Block(x, y, w, h) ==
  {p \in Screen!Pixels : x <= p[1] /\ p[1] < x + w /\ y <= p[2] /\ p[2] < y + h}

\* Each round of a loop changes a line of a block, from the top down.
Lines(a, n, x, y, w, v) ==
  \A j \in 1..n : a[j - 1] \in Store(Size) =>
                     Changed(a[j], a[j - 1], Span(x, y + (j - 1), w), v)

LEMMA BlockChanges ==
  ASSUME NEW n \in Nat, NEW m \in Store(Size), NEW x \in Int, NEW y \in Int, NEW w \in Int, NEW v,
         NEW a, a[0] = m,
         Lines(a, n, x, y, w, v)
  PROVE  Changed(a[n], m, Block(x, y, w, n), v)
<1> DEFINE T == {i \in 0..n : Changed(a[i], m, Block(x, y, w, i), v)}
<1>1. 0 \in T
  <2>1. \A p \in Screen!Pixels : p[2] \in Int
    BY SizeAssumption DEF Screen!Pixels
  <2>2. Block(x, y, w, 0) = {}
    BY <2>1 DEF Block
  <2>3. Changed(a[0], m, Block(x, y, w, 0), v)
    BY <2>2, ChangedNot
  <2> QED BY <2>3
<1>2. ASSUME NEW i \in 0..n - 1, i \in T PROVE i + 1 \in T
  <2>1. Changed(a[i], m, Block(x, y, w, i), v) /\ a[i] \in Store(Size)
    BY <1>2 DEF Changed
  <2>2. Changed(a[i + 1], a[i], Span(x, y + i, w), v)
    <3>1. i + 1 \in 1..n /\ i + 1 - 1 = i
      OBVIOUS
    <3> QED BY <2>1, <3>1 DEF Lines
  <2>3. Block(x, y, w, i + 1) = Block(x, y, w, i) \cup Span(x, y + i, w)
    <3>1. \A p \in Screen!Pixels : p[1] \in Int /\ p[2] \in Int
      BY SizeAssumption DEF Screen!Pixels
    <3> QED BY <3>1 DEF Block, Span
  <2>4. Changed(a[i + 1], m, Block(x, y, w, i + 1), v)
    BY <2>1, <2>2, <2>3, ChangedTwice
  <2> QED BY <2>4
<1>3. n \in T
  <2> HIDE DEF T
  <2> QED BY <1>1, <1>2, Climb
<1> QED BY <1>3

\* What of a box is inside the clipping rectangle is a block.
LEMMA InsideIs ==
  ASSUME NEW k \in Clips, NEW x \in Int, NEW y \in Int, NEW w \in Nat, NEW h \in Nat,
         NEW cx, cx = Clipped(x, w, k.left, k.right),
         NEW cy, cy = Clipped(y, h, k.top, k.bottom)
  PROVE  Inside(Box(x, y, w, h), k) = Block(cx.pos, cy.pos, cx.len, cy.len)
<1>1. \A q \in Int : cx.pos <= q /\ q < cx.pos + cx.len
                       <=> k.left <= q /\ q < k.right /\ x <= q /\ q < x + w
  BY ClippedInClip DEF Leaves
<1>2. \A q \in Int : cy.pos <= q /\ q < cy.pos + cy.len
                       <=> k.top <= q /\ q < k.bottom /\ y <= q /\ q < y + h
  BY ClippedInClip DEF Leaves
<1>3. \A p \in Screen!Pixels : p[1] \in Int /\ p[2] \in Int
  BY SizeAssumption DEF Screen!Pixels
<1>4. \A p \in Screen!Pixels : /\ Screen!InBox(p, Box(x, y, w, h)) <=> x <= p[1] /\ p[1] < x + w /\ y <= p[2] /\ p[2] < y + h
                               /\ Screen!InClip(p, k) <=> k.left <= p[1] /\ p[1] < k.right /\ k.top <= p[2] /\ p[2] < k.bottom
  BY DEF Screen!InBox, Screen!InClip, Box
<1> QED BY <1>1, <1>2, <1>3, <1>4 DEF Inside, Block

LEMMA BlockEmpty ==
  ASSUME NEW x \in Int, NEW y \in Int, NEW w \in Int, NEW h \in Int, w <= 0 \/ h <= 0
  PROVE  Block(x, y, w, h) = {}
<1>1. \A p \in Screen!Pixels : p[1] \in Int /\ p[2] \in Int
  BY SizeAssumption DEF Screen!Pixels
<1> QED BY <1>1 DEF Block

\* Lines of one pixel.
LEMMA BlockLines ==
  ASSUME NEW x \in Int, NEW y \in Int, NEW w \in Int
  PROVE  Block(x, y, w, 1) = Span(x, y, w)
<1>1. \A p \in Screen!Pixels : p[1] \in Int /\ p[2] \in Int
  BY SizeAssumption DEF Screen!Pixels
<1> QED BY <1>1 DEF Block, Span

\* A line or a column that is clipped by comparison.
LEMMA ClippedOne ==
  ASSUME NEW y \in Int, NEW lo \in Int, NEW hi \in Int, lo <= hi
  PROVE  /\ y < lo \/ y >= hi => Clipped(y, 1, lo, hi).len <= 0
         /\ ~(y < lo \/ y >= hi) => Clipped(y, 1, lo, hi) = [pos |-> y, skip |-> 0, len |-> 1]
<1>1. PICK c : c = Clipped(y, 1, lo, hi)
  OBVIOUS
<1>2. /\ c.pos \in Int /\ c.len \in Int
      /\ \A q \in Int : c.pos <= q /\ q < c.pos + c.len
                             <=> lo <= q /\ q < hi /\ y <= q /\ q < y + 1
  BY <1>1, ClippedIs DEF Leaves
<1>3. ASSUME y < lo \/ y >= hi PROVE c.len <= 0
  <2>1. ~(c.pos <= c.pos /\ c.pos < c.pos + c.len)
    BY <1>2, <1>3
  <2> QED BY <1>2, <2>1
<1>4. ASSUME ~(y < lo \/ y >= hi)
      PROVE  Clipped(y, 1, lo, hi) = [pos |-> y, skip |-> 0, len |-> 1]
  BY <1>4 DEF Clipped
<1> QED BY <1>1, <1>3, <1>4

-----------------------------------------------------------------------------
(***************************************************************************)
(* Drawing.                                                                *)
(***************************************************************************)

\* A pixel of the virtual area.
LEMMA PixelChanges ==
  ASSUME NEW m \in Store(Size), NEW x \in 0..VirtX - 1, NEW y \in 0..VirtY - 1, NEW c \in Int,
         NEW v, \A p \in Span(x, y, 1) : v[p] = c
  PROVE  Changed(SetNibble(m, 2 * y * Stride + x, c), m, Span(x, y, 1), v)
<1>1. PICK r : r = y * Stride
  OBVIOUS
<1>2. /\ r \in Nat /\ r + Stride <= Size /\ 2 * y * Stride = 2 * r
      /\ Stride \in Nat /\ VirtX <= 2 * Stride /\ VirtX \in Nat
  BY <1>1, Rows, Strides, SizeAssumption
<1> DEFINE u == [j \in Int |-> c]
<1>3. 2 * r + x \in 0..2 * Size - 1 /\ Size \in Nat /\ u[2 * r + x] = c
  BY <1>2, Strides
<1>4. Painted(SetNibble(m, 2 * r + x, c), m, Size, {2 * r + x}, u)
  <2> HIDE DEF u
  <2> QED BY <1>3, NibblePaints
<1>5. {2 * r + x} = 2 * r + x..2 * r + x + 1 - 1
  BY <1>2
<1>6. \A p \in Span(x, y, 1) : v[p] = u[2 * r + p[1]]
  <2>1. \A p \in Span(x, y, 1) : 2 * r + p[1] \in Int
    BY <1>2 DEF Span, Screen!Pixels
  <2> QED BY <2>1
<1> HIDE DEF u
<1>7. Changed(SetNibble(m, 2 * r + x, c), m, Span(x, y, 1), v)
  <2>1. Painted(SetNibble(m, 2 * r + x, c), m, Size, 2 * r + x..2 * r + x + 1 - 1, u)
    BY <1>4, <1>5
  <2>2. x \in Nat /\ x + 1 <= VirtX
    BY <1>2
  <2> QED BY <1>1, <1>6, <2>1, <2>2, LineChanges
<1> QED BY <1>2, <1>7

\* A line of the virtual area, in the foreground.
LEMMA DrawnLineChanges ==
  ASSUME NEW m \in Store(Size), NEW x \in Nat, NEW y \in 0..VirtY - 1, NEW w \in Nat \ {0},
         x + w <= VirtX, NEW v, \A p \in Screen!Pixels : v[p] = Foreground
  PROVE  Changed(DrawHLineNC(m, x, y, w), m, Span(x, y, w), v)
<1>1. PICK r : r = y * Stride
  OBVIOUS
<1>2. /\ r \in Nat /\ r + Stride <= Size /\ Size \in Nat
      /\ Stride \in Nat /\ VirtX <= 2 * Stride /\ VirtX \in Nat
  BY <1>1, Rows, Strides, SizeAssumption
<1> DEFINE u == [j \in Int |-> Foreground]
<1>3. \A j \in Int : u[j] = Foreground
  OBVIOUS
<1> HIDE DEF u
<1>4. Painted(DrawHLineNC(m, x, y, w), m, Size, 2 * r + x..2 * r + x + w - 1, u)
  BY <1>1, <1>2, <1>3, LinePaints
<1>5. \A p \in Span(x, y, w) : v[p] = u[2 * r + p[1]]
  <2>1. \A p \in Span(x, y, w) : p \in Screen!Pixels /\ 2 * r + p[1] \in Int
    BY <1>2 DEF Span, Screen!Pixels
  <2> QED BY <1>3, <2>1
<1> QED BY <1>1, <1>4, <1>5, LineChanges

\* Each call draws what is inside the clipping rectangle, and no more.
LEMMA DrawPixelChanges ==
  ASSUME NEW m \in Store(Size), NEW k \in Clips, NEW x \in Int, NEW y \in Int,
         NEW v, \A p \in Screen!Pixels : v[p] = Foreground
  PROVE  Changed(DrawPixel(m, k, x, y), m, Inside(Box(x, y, 1, 1), k), v)
<1>1. PICK cx : cx = Clipped(x, 1, k.left, k.right)
  OBVIOUS
<1>2. PICK cy : cy = Clipped(y, 1, k.top, k.bottom)
  OBVIOUS
<1>3. Inside(Box(x, y, 1, 1), k) = Block(cx.pos, cy.pos, cx.len, cy.len)
  BY <1>1, <1>2, InsideIs
<1>6. k.left \in Int /\ k.right \in Int /\ k.top \in Int /\ k.bottom \in Int
      /\ k.left <= k.right /\ k.top <= k.bottom
  BY ClipType
<1>7. /\ x < k.left \/ x >= k.right => cx.len <= 0
      /\ ~(x < k.left \/ x >= k.right) => cx = [pos |-> x, skip |-> 0, len |-> 1]
  BY <1>1, <1>6, ClippedOne
<1>8. /\ y < k.top \/ y >= k.bottom => cy.len <= 0
      /\ ~(y < k.top \/ y >= k.bottom) => cy = [pos |-> y, skip |-> 0, len |-> 1]
  BY <1>2, <1>6, ClippedOne
<1>4. CASE x < k.left \/ y < k.top \/ x >= k.right \/ y >= k.bottom
  <2>1. cx.len <= 0 \/ cy.len <= 0
    BY <1>4, <1>7, <1>8
  <2>2. cx.len \in Int /\ cy.len \in Int /\ cx.pos \in Int /\ cy.pos \in Int
    BY <1>1, <1>2, ClippedInClip DEF Leaves
  <2>3. Inside(Box(x, y, 1, 1), k) = {}
    BY <1>3, <2>1, <2>2, BlockEmpty
  <2> QED BY <1>4, <2>3, ChangedNot DEF DrawPixel
<1>5. CASE ~(x < k.left \/ y < k.top \/ x >= k.right \/ y >= k.bottom)
  <2>1. cx.pos = x /\ cx.len = 1 /\ cy.pos = y /\ cy.len = 1
    BY <1>5, <1>7, <1>8
  <2>2. Inside(Box(x, y, 1, 1), k) = Span(x, y, 1)
    BY <1>3, <2>1, BlockLines
  <2>3. x \in 0..VirtX - 1 /\ y \in 0..VirtY - 1
    BY <1>5, ClipType
  <2>4. \A p \in Span(x, y, 1) : v[p] = Foreground
    BY DEF Span
  <2>5. Foreground \in Int
    BY DEF Foreground
  <2>6. DrawPixel(m, k, x, y) = SetNibble(m, 2 * y * Stride + x, Foreground)
    BY <1>5 DEF DrawPixel
  <2> QED BY <2>2, <2>3, <2>4, <2>5, <2>6, PixelChanges
<1> QED BY <1>4, <1>5

LEMMA DrawHLineChanges ==
  ASSUME NEW m \in Store(Size), NEW k \in Clips, NEW x \in Int, NEW y \in Int, NEW w \in Nat,
         NEW v, \A p \in Screen!Pixels : v[p] = Foreground
  PROVE  Changed(DrawHLine(m, k, x, y, w), m, Inside(Box(x, y, w, 1), k), v)
<1>1. PICK c : c = Clipped(x, w, k.left, k.right)
  OBVIOUS
<1>2. PICK cy : cy = Clipped(y, 1, k.top, k.bottom)
  OBVIOUS
<1>3. Inside(Box(x, y, w, 1), k) = Block(c.pos, cy.pos, c.len, cy.len)
  BY <1>1, <1>2, InsideIs
<1>4. /\ c.len \in Int /\ c.pos \in Int /\ k.left <= c.pos /\ (c.len > 0 => c.pos + c.len <= k.right)
      /\ cy.len \in Int /\ cy.pos \in Int
  BY <1>1, <1>2, ClippedInClip DEF Leaves
<1>5. CASE y < k.top \/ y >= k.bottom \/ c.len <= 0
  <2>1. c.len <= 0 \/ cy.len <= 0
    BY <1>2, <1>5, ClipType, ClippedOne
  <2>2. Inside(Box(x, y, w, 1), k) = {}
    BY <1>3, <1>4, <2>1, BlockEmpty
  <2> QED BY <1>1, <1>5, <2>2, ChangedNot DEF DrawHLine
<1>6. CASE ~(y < k.top \/ y >= k.bottom \/ c.len <= 0)
  <2>1. cy.pos = y /\ cy.len = 1
    BY <1>2, <1>6, ClipType, ClippedOne
  <2>2. Inside(Box(x, y, w, 1), k) = Span(c.pos, y, c.len)
    BY <1>3, <1>4, <2>1, BlockLines
  <2>3. c.pos \in Nat /\ c.len \in Nat \ {0} /\ y \in 0..VirtY - 1 /\ c.pos + c.len <= VirtX
    BY <1>4, <1>6, ClipType
  <2>4. DrawHLine(m, k, x, y, w) = DrawHLineNC(m, c.pos, y, c.len)
    BY <1>1, <1>6 DEF DrawHLine
  <2> QED BY <2>2, <2>3, <2>4, DrawnLineChanges
<1> QED BY <1>5, <1>6

LEMMA DrawVLineChanges ==
  ASSUME NEW m \in Store(Size), NEW k \in Clips, NEW x \in Int, NEW y \in Int, NEW h \in Nat,
         NEW v, \A p \in Screen!Pixels : v[p] = Foreground
  PROVE  Changed(DrawVLine(m, k, x, y, h), m, Inside(Box(x, y, 1, h), k), v)
<1>1. PICK c : c = Clipped(y, h, k.top, k.bottom)
  OBVIOUS
<1>2. PICK cx : cx = Clipped(x, 1, k.left, k.right)
  OBVIOUS
<1>3. Inside(Box(x, y, 1, h), k) = Block(cx.pos, c.pos, cx.len, c.len)
  BY <1>1, <1>2, InsideIs
<1>4. /\ c.len \in Int /\ c.pos \in Int /\ k.top <= c.pos /\ (c.len > 0 => c.pos + c.len <= k.bottom)
      /\ cx.len \in Int /\ cx.pos \in Int
  BY <1>1, <1>2, ClippedInClip DEF Leaves
<1>5. CASE x < k.left \/ x >= k.right \/ c.len <= 0
  <2>1. c.len <= 0 \/ cx.len <= 0
    BY <1>2, <1>5, ClipType, ClippedOne
  <2>2. Inside(Box(x, y, 1, h), k) = {}
    BY <1>3, <1>4, <2>1, BlockEmpty
  <2> QED BY <1>1, <1>5, <2>2, ChangedNot DEF DrawVLine
<1>6. CASE ~(x < k.left \/ x >= k.right \/ c.len <= 0)
  <2>1. cx.pos = x /\ cx.len = 1
    BY <1>2, <1>6, ClipType, ClippedOne
  <2>2. Inside(Box(x, y, 1, h), k) = Block(x, c.pos, 1, c.len)
    BY <1>3, <2>1
  <2> DEFINE n == c.len
             S == Store(Size)
             Step(s, i) == SetNibble(s, 2 * (c.pos + i) * Stride + x, Foreground)
  <2>3. n \in Nat /\ x \in 0..VirtX - 1 /\ c.pos \in Nat /\ c.pos + n <= VirtY /\ VirtY \in Nat
    BY <1>4, <1>6, ClipType
  <2>4. ASSUME NEW s \in S, NEW i \in 0..n - 1
        PROVE  Changed(Step(s, i), s, Span(x, c.pos + i, 1), v) /\ Step(s, i) \in S
    <3>1. c.pos + i \in 0..VirtY - 1
      BY <2>3
    <3>2. \A p \in Span(x, c.pos + i, 1) : v[p] = Foreground
      BY DEF Span
    <3>3. Foreground \in Int
      BY DEF Foreground
    <3>4. Changed(Step(s, i), s, Span(x, c.pos + i, 1), v)
      BY <2>3, <3>1, <3>2, <3>3, PixelChanges
    <3> QED BY <3>4 DEF Changed
  <2> DEFINE Loop(g) == g = [i \in 0..n |-> IF i = 0 THEN m ELSE Step(g[i - 1], i - 1)]
             a == CHOOSE g : Loop(g)
  <2>5. DrawVLine(m, k, x, y, h) = a[n]
    BY <1>1, <1>6 DEF DrawVLine, Repeat
  <2> HIDE DEF n, Step
  <2>6. \E g : Loop(g)
    <3> DEFINE F == [z \in S \X (0..n - 1) |-> Step(z[1], z[2])]
    <3>1. \A i \in 0..n - 1, s \in S : F[<<s, i>>] = Step(s, i)
      OBVIOUS
    <3>2. (\A i \in 0..n - 1, s \in S : F[<<s, i>>] \in S) /\ m \in S
      BY <2>4, <3>1
    <3> HIDE DEF F, S
    <3>3. PICK g : Goes(g, m, n, F) /\ \A i \in 0..n : g[i] \in S
      BY <2>3, <3>2, Repeats
    <3>4. ASSUME NEW i \in 0..n, i # 0 PROVE F[<<g[i - 1], i - 1>>] = Step(g[i - 1], i - 1)
      <4>1. i - 1 \in 0..n - 1 /\ g[i - 1] \in S
        BY <2>3, <3>3, <3>4
      <4> QED BY <3>1, <4>1
    <3>5. Loop(g)
      BY <3>3, <3>4 DEF Goes
    <3> QED BY <3>5
  <2>7. Loop(a)
    <3> HIDE DEF Loop
    <3> QED BY <2>6
  <2> HIDE DEF a
  <2>8. \A j \in 0..n : a[j] = IF j = 0 THEN m ELSE Step(a[j - 1], j - 1)
    BY <2>7
  <2>9. ASSUME NEW j \in 1..n, a[j - 1] \in S
        PROVE  Changed(a[j], a[j - 1], Span(x, c.pos + (j - 1), 1), v)
    <3>1. j \in 0..n /\ j # 0 /\ j - 1 \in 0..n - 1
      BY <2>3
    <3>2. a[j] = Step(a[j - 1], j - 1)
      BY <2>8, <3>1
    <3> QED BY <2>4, <2>9, <3>1, <3>2
  <2>10. Changed(a[n], m, Block(x, c.pos, 1, n), v)
    <3>1. x \in Int /\ c.pos \in Int /\ a[0] = m
      BY <2>3, <2>8
    <3>2. Lines(a, n, x, c.pos, 1, v)
      BY <2>9 DEF Lines
    <3> QED BY <2>3, <3>1, <3>2, BlockChanges
  <2> QED BY <2>2, <2>5, <2>10 DEF n
<1> QED BY <1>5, <1>6

LEMMA DrawBoxChanges ==
  ASSUME NEW m \in Store(Size), NEW k \in Clips,
         NEW x \in Int, NEW y \in Int, NEW w \in Nat, NEW h \in Nat,
         NEW v, \A p \in Screen!Pixels : v[p] = Foreground
  PROVE  Changed(DrawBox(m, k, Box(x, y, w, h)), m, Inside(Box(x, y, w, h), k), v)
<1>1. PICK cy : cy = Clipped(y, h, k.top, k.bottom)
  OBVIOUS
<1>2. PICK cx : cx = Clipped(x, w, k.left, k.right)
  OBVIOUS
<1>3. Inside(Box(x, y, w, h), k) = Block(cx.pos, cy.pos, cx.len, cy.len)
  BY <1>1, <1>2, InsideIs
<1>4. /\ cy.len \in Int /\ cy.pos \in Int /\ k.top <= cy.pos /\ (cy.len > 0 => cy.pos + cy.len <= k.bottom)
      /\ cx.len \in Int /\ cx.pos \in Int /\ k.left <= cx.pos /\ (cx.len > 0 => cx.pos + cx.len <= k.right)
  BY <1>1, <1>2, ClippedInClip DEF Leaves
<1>5. CASE cx.len <= 0 \/ cy.len <= 0
  <2>1. Inside(Box(x, y, w, h), k) = {}
    BY <1>3, <1>4, <1>5, BlockEmpty
  <2> QED BY <1>1, <1>2, <1>5, <2>1, ChangedNot DEF DrawBox, Box
<1>6. CASE ~(cx.len <= 0 \/ cy.len <= 0)
  <2> DEFINE n == cy.len
             S == Store(Size)
             Step(s, i) == DrawHLineNC(s, cx.pos, cy.pos + i, cx.len)
  <2>3. /\ n \in Nat /\ cy.pos \in Nat /\ cy.pos + n <= VirtY /\ VirtY \in Nat
        /\ cx.pos \in Nat /\ cx.len \in Nat \ {0} /\ cx.pos + cx.len <= VirtX
    BY <1>4, <1>6, ClipType
  <2>4. ASSUME NEW s \in S, NEW i \in 0..n - 1
        PROVE  Changed(Step(s, i), s, Span(cx.pos, cy.pos + i, cx.len), v) /\ Step(s, i) \in S
    <3>1. cy.pos + i \in 0..VirtY - 1
      BY <2>3
    <3>2. Changed(Step(s, i), s, Span(cx.pos, cy.pos + i, cx.len), v)
      BY <2>3, <3>1, DrawnLineChanges
    <3> QED BY <3>2 DEF Changed
  <2> DEFINE Loop(g) == g = [i \in 0..n |-> IF i = 0 THEN m ELSE Step(g[i - 1], i - 1)]
             a == CHOOSE g : Loop(g)
  <2>5. DrawBox(m, k, Box(x, y, w, h)) = a[n]
    BY <1>1, <1>2, <1>6 DEF DrawBox, Repeat, Box
  <2> HIDE DEF n, Step
  <2>6. \E g : Loop(g)
    <3> DEFINE F == [z \in S \X (0..n - 1) |-> Step(z[1], z[2])]
    <3>1. \A i \in 0..n - 1, s \in S : F[<<s, i>>] = Step(s, i)
      OBVIOUS
    <3>2. (\A i \in 0..n - 1, s \in S : F[<<s, i>>] \in S) /\ m \in S
      BY <2>4, <3>1
    <3> HIDE DEF F, S
    <3>3. PICK g : Goes(g, m, n, F) /\ \A i \in 0..n : g[i] \in S
      BY <2>3, <3>2, Repeats
    <3>4. ASSUME NEW i \in 0..n, i # 0 PROVE F[<<g[i - 1], i - 1>>] = Step(g[i - 1], i - 1)
      <4>1. i - 1 \in 0..n - 1 /\ g[i - 1] \in S
        BY <2>3, <3>3, <3>4
      <4> QED BY <3>1, <4>1
    <3>5. Loop(g)
      BY <3>3, <3>4 DEF Goes
    <3> QED BY <3>5
  <2>7. Loop(a)
    <3> HIDE DEF Loop
    <3> QED BY <2>6
  <2> HIDE DEF a
  <2>8. \A j \in 0..n : a[j] = IF j = 0 THEN m ELSE Step(a[j - 1], j - 1)
    BY <2>7
  <2>9. ASSUME NEW j \in 1..n, a[j - 1] \in S
        PROVE  Changed(a[j], a[j - 1], Span(cx.pos, cy.pos + (j - 1), cx.len), v)
    <3>1. j \in 0..n /\ j # 0 /\ j - 1 \in 0..n - 1
      BY <2>3
    <3>2. a[j] = Step(a[j - 1], j - 1)
      BY <2>8, <3>1
    <3> QED BY <2>4, <2>9, <3>1, <3>2
  <2>10. Changed(a[n], m, Block(cx.pos, cy.pos, cx.len, n), v)
    <3>1. cx.pos \in Int /\ cy.pos \in Int /\ cx.len \in Int /\ a[0] = m
      BY <2>3, <2>8
    <3>2. Lines(a, n, cx.pos, cy.pos, cx.len, v)
      BY <2>9 DEF Lines
    <3> QED BY <2>3, <3>1, <3>2, BlockChanges
  <2> QED BY <1>3, <2>5, <2>10 DEF n
<1> QED BY <1>5, <1>6

-----------------------------------------------------------------------------
(***************************************************************************)
(* Putting.                                                                *)
(***************************************************************************)

\* len colours of b, from the colour 2 * start + skip, to the colour 2 * r + x.
LEMMA PutLinePaints ==
  ASSUME NEW n \in Nat, NEW m \in Store(n), NEW kb \in Nat, NEW b \in Store(kb),
         NEW x \in Nat, NEW r \in Nat, NEW start \in Nat, NEW skip \in Nat, NEW len \in Nat \ {0},
         2 * r + x + len <= 2 * n, 2 * start + skip + len <= 2 * kb,
         NEW v, Taken(v, 2 * r + x, len, b, 2 * start + skip),
         NEW a, a = r + x \div 2, NEW s, s = start + skip \div 2
  PROVE  Painted(IF Odd(skip) /\ Odd(x)
                 THEN PutAligned(SetLow(m, a, b[s].lo), a + 1, b, s + 1, len - 1)
                 ELSE IF Odd(skip)
                      THEN PutShifted(SetHigh(m, a, b[s].lo), a, b, s + 1, len - 1)
                 ELSE IF Odd(x) THEN PutShifted(m, a, b, s, len)
                 ELSE PutAligned(m, a, b, s, len),
                 m, n, 2 * r + x..2 * r + x + len - 1, v)
<1>1. /\ a \in Nat /\ (Odd(x) => 2 * a + 1 = 2 * r + x) /\ (~Odd(x) => 2 * a = 2 * r + x)
      /\ s \in Nat /\ (Odd(skip) => 2 * s + 1 = 2 * start + skip)
      /\ (~Odd(skip) => 2 * s = 2 * start + skip)
  BY Halves
<1>2. a \in 0..n - 1 /\ s \in 0..kb - 1
  BY <1>1
<1>3. b[s] \in Cell /\ b[s].lo \in Int
  BY <1>2 DEF Store, Cell
<1> DEFINE lo == 2 * r + x
           from == 2 * start + skip
           F == lo..lo + len - 1
           E == lo + 1..lo + len - 1
<1>4. /\ lo \in Nat /\ from \in Nat /\ lo \in F /\ F = {lo} \cup E
      /\ lo + len <= 2 * n /\ from + len <= 2 * kb
  OBVIOUS
<1>5. /\ v[lo] = Nibble(b, from)
      /\ Taken(v, lo + 1, len - 1, b, from + 1)
      /\ Taken(v, lo, len, b, from)
  BY DEF Taken
<1> HIDE DEF lo, from
<1>6. CASE Odd(skip) /\ Odd(x)
  <2> DEFINE q == SetLow(m, a, b[s].lo)
             o == PutAligned(q, a + 1, b, s + 1, len - 1)
  <2>1. 2 * a + 1 = lo /\ 2 * s + 1 = from /\ 2 * (a + 1) = lo + 1 /\ 2 * (s + 1) = from + 1
    BY <1>1, <1>6 DEF lo, from
  <2>2. v[2 * a + 1] = b[s].lo
    BY <1>1, <1>5, <2>1, TwoColours
  <2>3. Painted(q, m, n, {lo}, v)
    BY <1>2, <1>3, <2>1, <2>2, LowPaints
  <2>4. q \in Store(n)
    BY <2>3 DEF Painted
  <2> HIDE DEF q
  <2>5. Painted(o, q, n, 2 * (a + 1)..2 * (a + 1) + (len - 1) - 1, v)
    <3>1. /\ a + 1 \in Nat /\ s + 1 \in Nat /\ len - 1 \in Nat
          /\ 2 * (a + 1) + (len - 1) <= 2 * n /\ 2 * (s + 1) + (len - 1) <= 2 * kb
      BY <1>1, <1>4, <2>1
    <3>2. Taken(v, 2 * (a + 1), len - 1, b, 2 * (s + 1))
      BY <1>5, <2>1
    <3> QED BY <2>4, <3>1, <3>2, AlignedPaints
  <2>6. 2 * (a + 1)..2 * (a + 1) + (len - 1) - 1 = E
    BY <1>1, <1>4, <2>1
  <2>7. Painted(o, q, n, E, v)
    BY <2>5, <2>6
  <2> HIDE DEF E, F, o
  <2>8. Painted(o, m, n, F, v)
    BY <1>4, <2>3, <2>7, PaintedTwice
  <2> QED BY <1>6, <2>8 DEF o, q, F, lo
<1>7. CASE Odd(skip) /\ ~Odd(x)
  <2> DEFINE q == SetHigh(m, a, b[s].lo)
             o == PutShifted(q, a, b, s + 1, len - 1)
  <2>1. 2 * a = lo /\ 2 * s + 1 = from /\ 2 * (s + 1) = from + 1
    BY <1>1, <1>7 DEF lo, from
  <2>2. v[2 * a] = b[s].lo
    BY <1>1, <1>5, <2>1, TwoColours
  <2>3. Painted(q, m, n, {lo}, v)
    BY <1>2, <1>3, <2>1, <2>2, HighPaints
  <2>4. q \in Store(n)
    BY <2>3 DEF Painted
  <2> HIDE DEF q
  <2>5. Painted(o, q, n, 2 * a + 1..2 * a + (len - 1), v)
    <3>1. /\ s + 1 \in Nat /\ len - 1 \in Nat
          /\ 2 * a + 1 + (len - 1) <= 2 * n /\ 2 * (s + 1) + (len - 1) <= 2 * kb
      BY <1>1, <1>4, <2>1
    <3>2. Taken(v, 2 * a + 1, len - 1, b, 2 * (s + 1))
      BY <1>5, <2>1
    <3> QED BY <1>1, <2>4, <3>1, <3>2, ShiftedPaints
  <2>6. 2 * a + 1..2 * a + (len - 1) = E
    BY <1>1, <1>4, <2>1
  <2>7. Painted(o, q, n, E, v)
    BY <2>5, <2>6
  <2> HIDE DEF E, F, o
  <2>8. Painted(o, m, n, F, v)
    BY <1>4, <2>3, <2>7, PaintedTwice
  <2> QED BY <1>7, <2>8 DEF o, q, F, lo
<1>8. CASE ~Odd(skip) /\ Odd(x)
  <2>1. 2 * a + 1 = lo /\ 2 * s = from
    BY <1>1, <1>8 DEF lo, from
  <2>2. 2 * a + 1 + len <= 2 * n /\ 2 * s + len <= 2 * kb /\ Taken(v, 2 * a + 1, len, b, 2 * s)
    BY <1>4, <1>5, <2>1
  <2>3. Painted(PutShifted(m, a, b, s, len), m, n, 2 * a + 1..2 * a + len, v)
    BY <1>1, <2>2, ShiftedPaints
  <2>4. 2 * a + 1..2 * a + len = F
    BY <1>1, <1>4, <2>1
  <2>5. Painted(PutShifted(m, a, b, s, len), m, n, F, v)
    BY <2>3, <2>4
  <2> HIDE DEF F
  <2> QED BY <1>8, <2>5 DEF F, lo
<1>9. CASE ~Odd(skip) /\ ~Odd(x)
  <2>1. 2 * a = lo /\ 2 * s = from
    BY <1>1, <1>9 DEF lo, from
  <2>2. 2 * a + len <= 2 * n /\ 2 * s + len <= 2 * kb /\ Taken(v, 2 * a, len, b, 2 * s)
    BY <1>4, <1>5, <2>1
  <2>3. Painted(PutAligned(m, a, b, s, len), m, n, 2 * a..2 * a + len - 1, v)
    BY <1>1, <2>2, AlignedPaints
  <2>4. 2 * a..2 * a + len - 1 = F
    BY <1>1, <1>4, <2>1
  <2>5. Painted(PutAligned(m, a, b, s, len), m, n, F, v)
    BY <2>3, <2>4
  <2> HIDE DEF F
  <2> QED BY <1>9, <2>5 DEF F, lo
<1> QED BY <1>6, <1>7, <1>8, <1>9

LEMMA PutHLineChanges ==
  ASSUME NEW m \in Store(Size), NEW k \in Clips, NEW x \in Int, NEW y \in Int, NEW w \in Nat,
         NEW kb \in Nat, NEW b \in Store(kb), NEW start \in Nat, 2 * start + w <= 2 * kb,
         NEW v, \A p \in Inside(Box(x, y, w, 1), k) : v[p] = Nibble(b, 2 * start + (p[1] - x))
  PROVE  Changed(PutHLine(m, k, x, y, w, b, start), m, Inside(Box(x, y, w, 1), k), v)
<1>1. PICK c : c = Clipped(x, w, k.left, k.right)
  OBVIOUS
<1>2. PICK cy : cy = Clipped(y, 1, k.top, k.bottom)
  OBVIOUS
<1>3. Inside(Box(x, y, w, 1), k) = Block(c.pos, cy.pos, c.len, cy.len)
  BY <1>1, <1>2, InsideIs
<1>4. /\ c.len \in Int /\ c.pos \in Int /\ k.left <= c.pos /\ (c.len > 0 => c.pos + c.len <= k.right)
      /\ c.skip \in Nat /\ c.skip + c.len <= w /\ c.pos = x + c.skip
      /\ cy.len \in Int /\ cy.pos \in Int
  BY <1>1, <1>2, ClippedInClip DEF Leaves
<1>5. CASE y < k.top \/ y >= k.bottom \/ c.len <= 0
  <2>1. c.len <= 0 \/ cy.len <= 0
    BY <1>2, <1>5, ClipType, ClippedOne
  <2>2. Inside(Box(x, y, w, 1), k) = {}
    BY <1>3, <1>4, <2>1, BlockEmpty
  <2> QED BY <1>1, <1>5, <2>2, ChangedNot DEF PutHLine
<1>6. CASE ~(y < k.top \/ y >= k.bottom \/ c.len <= 0)
  <2>1. cy.pos = y /\ cy.len = 1
    BY <1>2, <1>6, ClipType, ClippedOne
  <2>2. Inside(Box(x, y, w, 1), k) = Span(c.pos, y, c.len)
    BY <1>3, <1>4, <2>1, BlockLines
  <2>3. /\ c.pos \in Nat /\ c.len \in Nat \ {0} /\ y \in 0..VirtY - 1 /\ c.pos + c.len <= VirtX
    BY <1>4, <1>6, ClipType
  <2>4. PICK r : r = y * Stride
    OBVIOUS
  <2>5. /\ r \in Nat /\ r + Stride <= Size /\ Size \in Nat
        /\ Stride \in Nat /\ VirtX <= 2 * Stride /\ VirtX \in Nat
    BY <2>3, <2>4, Rows, Strides, SizeAssumption
  <2> DEFINE lo == 2 * r + c.pos
             from == 2 * start + c.skip
             u == [j \in Int |-> Nibble(b, from + (j - lo))]
             a == r + c.pos \div 2
             s == start + c.skip \div 2
             o == IF Odd(c.skip) /\ Odd(c.pos)
                  THEN PutAligned(SetLow(m, a, b[s].lo), a + 1, b, s + 1, c.len - 1)
                  ELSE IF Odd(c.skip)
                       THEN PutShifted(SetHigh(m, a, b[s].lo), a, b, s + 1, c.len - 1)
                  ELSE IF Odd(c.pos) THEN PutShifted(m, a, b, s, c.len)
                  ELSE PutAligned(m, a, b, s, c.len)
  <2>6. Taken(u, lo, c.len, b, from)
    <3>1. lo \in Int /\ c.len \in Int
      BY <2>3, <2>5
    <3> HIDE DEF lo, from
    <3> QED BY <3>1 DEF Taken
  <2>7. PutHLine(m, k, x, y, w, b, start) = o
    <3>1. a = Address(c.pos, y)
      BY <2>4 DEF Address
    <3> QED BY <1>1, <1>6, <3>1 DEF PutHLine
  <2>8. Painted(o, m, Size, lo..lo + c.len - 1, u)
    <3>1. /\ 2 * r + c.pos + c.len <= 2 * Size
          /\ 2 * start + c.skip + c.len <= 2 * kb
      BY <1>4, <2>3, <2>5
    <3> HIDE DEF u
    <3> QED BY <1>4, <2>3, <2>5, <2>6, <3>1, PutLinePaints
  <2>9. ASSUME NEW p \in Span(c.pos, y, c.len) PROVE v[p] = u[2 * r + p[1]]
    <3>1. p[1] \in Int
      BY SizeAssumption DEF Span, Screen!Pixels
    <3>2. v[p] = Nibble(b, 2 * start + (p[1] - x))
      BY <2>2
    <3>4. \A j \in Int : u[j] = Nibble(b, from + (j - lo))
      OBVIOUS
    <3>5. PICK j \in Int : j = 2 * r + p[1]
      BY <2>5, <3>1
    <3> HIDE DEF u
    <3>6. u[j] = Nibble(b, from + (j - lo))
      BY <3>4
    <3>7. 2 * start + (p[1] - x) = from + (j - lo)
      BY <1>4, <2>5, <3>1, <3>5
    <3> HIDE DEF from, lo
    <3> QED BY <3>2, <3>5, <3>6, <3>7
  <2> HIDE DEF u, o
  <2>10. Changed(o, m, Span(c.pos, y, c.len), v)
    BY <2>3, <2>4, <2>8, <2>9, LineChanges
  <2> QED BY <2>2, <2>7, <2>10
<1> QED BY <1>5, <1>6

LEMMA PutVLineChanges ==
  ASSUME NEW m \in Store(Size), NEW k \in Clips, NEW x \in Int, NEW y \in Int, NEW h \in Nat,
         NEW kb \in Nat, NEW b \in Store(kb), h <= 2 * kb,
         NEW v, \A p \in Inside(Box(x, y, 1, h), k) : v[p] = Nibble(b, p[2] - y)
  PROVE  Changed(PutVLine(m, k, x, y, h, b), m, Inside(Box(x, y, 1, h), k), v)
<1>1. PICK c : c = Clipped(y, h, k.top, k.bottom)
  OBVIOUS
<1>2. PICK cx : cx = Clipped(x, 1, k.left, k.right)
  OBVIOUS
<1>3. Inside(Box(x, y, 1, h), k) = Block(cx.pos, c.pos, cx.len, c.len)
  BY <1>1, <1>2, InsideIs
<1>4. /\ c.len \in Int /\ c.pos \in Int /\ k.top <= c.pos /\ (c.len > 0 => c.pos + c.len <= k.bottom)
      /\ c.skip \in Nat /\ c.skip + c.len <= h /\ c.pos = y + c.skip
      /\ cx.len \in Int /\ cx.pos \in Int
  BY <1>1, <1>2, ClippedInClip DEF Leaves
<1>5. CASE x < k.left \/ x >= k.right \/ c.len <= 0
  <2>1. c.len <= 0 \/ cx.len <= 0
    BY <1>2, <1>5, ClipType, ClippedOne
  <2>2. Inside(Box(x, y, 1, h), k) = {}
    BY <1>3, <1>4, <2>1, BlockEmpty
  <2> QED BY <1>1, <1>5, <2>2, ChangedNot DEF PutVLine
<1>6. CASE ~(x < k.left \/ x >= k.right \/ c.len <= 0)
  <2>1. cx.pos = x /\ cx.len = 1
    BY <1>2, <1>6, ClipType, ClippedOne
  <2>2. Inside(Box(x, y, 1, h), k) = Block(x, c.pos, 1, c.len)
    BY <1>3, <2>1
  <2> DEFINE n == c.len
             S == Store(Size)
             Step(s, i) == SetNibble(s, 2 * (c.pos + i) * Stride + x, Nibble(b, c.skip + i))
  <2>3. n \in Nat /\ x \in 0..VirtX - 1 /\ c.pos \in Nat /\ c.pos + n <= VirtY /\ VirtY \in Nat
    BY <1>4, <1>6, ClipType
  <2>4. ASSUME NEW s \in S, NEW i \in 0..n - 1
        PROVE  Changed(Step(s, i), s, Span(x, c.pos + i, 1), v) /\ Step(s, i) \in S
    <3>1. c.pos + i \in 0..VirtY - 1
      BY <2>3
    <3>2. Nibble(b, c.skip + i) \in Int
      <4>1. c.skip + i \in 0..2 * kb - 1
        BY <1>4, <2>3
      <4> QED BY <4>1, NibbleType
    <3>3. ASSUME NEW p \in Span(x, c.pos + i, 1) PROVE v[p] = Nibble(b, c.skip + i)
      <4>1. p \in Screen!Pixels /\ p[2] = c.pos + i /\ x <= p[1] /\ p[1] < x + 1
        BY DEF Span
      <4>2. c.pos <= p[2] /\ p[2] < c.pos + c.len
        BY <1>4, <2>3, <4>1
      <4>3. p \in Block(x, c.pos, 1, c.len)
        BY <4>1, <4>2 DEF Block
      <4>4. v[p] = Nibble(b, p[2] - y)
        BY <2>2, <4>3
      <4>5. p[2] - y = c.skip + i
        BY <1>4, <4>1
      <4> QED BY <4>4, <4>5
    <3>4. Changed(Step(s, i), s, Span(x, c.pos + i, 1), v)
      <4>1. PICK d \in Int : d = Nibble(b, c.skip + i)
        BY <3>2
      <4>2. \A p \in Span(x, c.pos + i, 1) : v[p] = d
        BY <3>3, <4>1
      <4>3. Changed(SetNibble(s, 2 * (c.pos + i) * Stride + x, d), s, Span(x, c.pos + i, 1), v)
        BY <2>3, <3>1, <4>2, PixelChanges
      <4> QED BY <4>1, <4>3
    <3> QED BY <3>4 DEF Changed
  <2> DEFINE Loop(g) == g = [i \in 0..n |-> IF i = 0 THEN m ELSE Step(g[i - 1], i - 1)]
             a == CHOOSE g : Loop(g)
  <2>5. PutVLine(m, k, x, y, h, b) = a[n]
    BY <1>1, <1>6 DEF PutVLine, Repeat
  <2> HIDE DEF n, Step
  <2>6. \E g : Loop(g)
    <3> DEFINE F == [z \in S \X (0..n - 1) |-> Step(z[1], z[2])]
    <3>1. \A i \in 0..n - 1, s \in S : F[<<s, i>>] = Step(s, i)
      OBVIOUS
    <3>2. (\A i \in 0..n - 1, s \in S : F[<<s, i>>] \in S) /\ m \in S
      BY <2>4, <3>1
    <3> HIDE DEF F, S
    <3>3. PICK g : Goes(g, m, n, F) /\ \A i \in 0..n : g[i] \in S
      BY <2>3, <3>2, Repeats
    <3>4. ASSUME NEW i \in 0..n, i # 0 PROVE F[<<g[i - 1], i - 1>>] = Step(g[i - 1], i - 1)
      <4>1. i - 1 \in 0..n - 1 /\ g[i - 1] \in S
        BY <2>3, <3>3, <3>4
      <4> QED BY <3>1, <4>1
    <3>5. Loop(g)
      BY <3>3, <3>4 DEF Goes
    <3> QED BY <3>5
  <2>7. Loop(a)
    <3> HIDE DEF Loop
    <3> QED BY <2>6
  <2> HIDE DEF a
  <2>8. \A j \in 0..n : a[j] = IF j = 0 THEN m ELSE Step(a[j - 1], j - 1)
    BY <2>7
  <2>9. ASSUME NEW j \in 1..n, a[j - 1] \in S
        PROVE  Changed(a[j], a[j - 1], Span(x, c.pos + (j - 1), 1), v)
    <3>1. j \in 0..n /\ j # 0 /\ j - 1 \in 0..n - 1
      BY <2>3
    <3>2. a[j] = Step(a[j - 1], j - 1)
      BY <2>8, <3>1
    <3> QED BY <2>4, <2>9, <3>1, <3>2
  <2>10. Changed(a[n], m, Block(x, c.pos, 1, n), v)
    <3>1. x \in Int /\ c.pos \in Int /\ a[0] = m
      BY <2>3, <2>8
    <3>2. Lines(a, n, x, c.pos, 1, v)
      BY <2>9 DEF Lines
    <3> QED BY <2>3, <3>1, <3>2, BlockChanges
  <2> QED BY <2>2, <2>5, <2>10 DEF n
<1> QED BY <1>5, <1>6

\* The bytes of a row of a box.
LEMMA RowBytesIs ==
  ASSUME NEW w \in Nat
  PROVE  RowBytes(w) \in Nat /\ w <= 2 * RowBytes(w) /\ 2 * RowBytes(w) <= w + 1
BY DEF RowBytes

\* The ith row of a box that fits lies in the buffer.
LEMMA RowFits ==
  ASSUME NEW w \in Nat, NEW h \in Nat, NEW kb \in Nat, RowBytes(w) * h <= kb,
         NEW i \in 0..h - 1
  PROVE  i * RowBytes(w) \in Nat /\ 2 * (i * RowBytes(w)) + 2 * RowBytes(w) <= 2 * kb
<1>1. PICK r \in Nat : r = RowBytes(w)
  BY RowBytesIs
<1>2. i * r \in Nat /\ i * r + r <= h * r
  BY Products
<1>3. h * r = r * h /\ h * r \in Int
  OBVIOUS
<1>4. i * r + r <= kb
  <2>1. r * h <= kb
    BY <1>1
  <2> QED BY <1>2, <1>3, <2>1
<1> QED BY <1>1, <1>2, <1>4

LEMMA PutBoxChanges ==
  ASSUME NEW m \in Store(Size), NEW k \in Clips,
         NEW x \in Int, NEW y \in Int, NEW w \in Nat, NEW h \in Nat,
         NEW kb \in Nat, NEW b \in Store(kb), RowBytes(w) * h <= kb,
         NEW v, \A p \in Inside(Box(x, y, w, h), k) :
                  v[p] = Nibble(b, 2 * ((p[2] - y) * RowBytes(w)) + (p[1] - x))
  PROVE  Changed(PutBox(m, k, Box(x, y, w, h), b), m, Inside(Box(x, y, w, h), k), v)
<1>1. PICK c : c = Clipped(y, h, k.top, k.bottom)
  OBVIOUS
<1>2. PICK cx : cx = Clipped(x, w, k.left, k.right)
  OBVIOUS
<1>3. Inside(Box(x, y, w, h), k) = Block(cx.pos, c.pos, cx.len, c.len)
  BY <1>1, <1>2, InsideIs
<1>4. /\ c.len \in Int /\ c.pos \in Int /\ k.top <= c.pos /\ (c.len > 0 => c.pos + c.len <= k.bottom)
      /\ c.skip \in Nat /\ c.skip + c.len <= h /\ c.pos = y + c.skip
      /\ cx.len \in Int /\ cx.pos \in Int
  BY <1>1, <1>2, ClippedInClip DEF Leaves
<1>5. CASE c.len < 0 \/ x >= k.right \/ x + w <= k.left
  <2>1. Inside(Box(x, y, w, h), k) = {}
    <3>1. CASE c.len < 0
      <4>1. cx.pos \in Int /\ c.pos \in Int /\ cx.len \in Int /\ c.len \in Int /\ c.len <= 0
        BY <1>4, <3>1
      <4>2. Block(cx.pos, c.pos, cx.len, c.len) = {}
        BY <4>1, BlockEmpty
      <4> QED BY <1>3, <4>2
    <3>2. CASE x >= k.right \/ x + w <= k.left
      <4>1. k.left \in Int /\ k.right \in Int /\ \A p \in Screen!Pixels : p[1] \in Int
        BY ClipType DEF Screen!Pixels
      <4> QED BY <3>2, <4>1 DEF Inside, Screen!InBox, Screen!InClip, Box
    <3> QED BY <1>5, <3>1, <3>2
  <2> QED BY <1>1, <1>5, <2>1, ChangedNot DEF PutBox, Box
<1>6. CASE ~(c.len < 0 \/ x >= k.right \/ x + w <= k.left)
  <2> DEFINE n == c.len
             S == Store(Size)
             Step(s, i) == PutHLine(s, k, x, c.pos + i, w, b, (c.skip + i) * RowBytes(w))
  <2>3. n \in Nat /\ c.pos \in Nat /\ (n > 0 => c.pos + n <= k.bottom) /\ k.bottom \in Nat /\ k.top \in Nat
    BY <1>4, <1>6, ClipType
  <2>4. ASSUME NEW s \in S, NEW i \in 0..n - 1
        PROVE  Changed(Step(s, i), s, Span(cx.pos, c.pos + i, cx.len), v) /\ Step(s, i) \in S
    <3>1. PICK z \in Int : z = c.pos + i
      BY <2>3
    <3>2. ~(z < k.top \/ z >= k.bottom) /\ c.pos <= z /\ z < c.pos + c.len
      BY <1>4, <2>3, <3>1
    <3>3. Inside(Box(x, z, w, 1), k) = Span(cx.pos, z, cx.len)
      <4>1. PICK cz : cz = Clipped(z, 1, k.top, k.bottom)
        OBVIOUS
      <4>2. Inside(Box(x, z, w, 1), k) = Block(cx.pos, cz.pos, cx.len, cz.len)
        BY <1>2, <4>1, InsideIs
      <4>3. cz.pos = z /\ cz.len = 1
        BY <3>2, <4>1, ClipType, ClippedOne
      <4> QED BY <1>4, <4>2, <4>3, BlockLines
    <3>4. PICK start \in Nat : start = (c.skip + i) * RowBytes(w) /\ 2 * start + w <= 2 * kb
      <4>1. c.skip + i \in 0..h - 1
        BY <1>4, <2>3
      <4>2. PICK start \in Nat : start = (c.skip + i) * RowBytes(w) /\ 2 * start + 2 * RowBytes(w) <= 2 * kb
        BY <4>1, RowFits
      <4> QED BY <4>2, RowBytesIs
    <3>5. ASSUME NEW p \in Inside(Box(x, z, w, 1), k) PROVE v[p] = Nibble(b, 2 * start + (p[1] - x))
      <4>1. p \in Screen!Pixels /\ p[2] = z /\ cx.pos <= p[1] /\ p[1] < cx.pos + cx.len
        BY <3>3 DEF Span
      <4>2. p \in Inside(Box(x, y, w, h), k)
        BY <1>3, <3>2, <4>1 DEF Block
      <4>3. p[2] - y = c.skip + i
        BY <1>4, <3>1, <4>1
      <4>4. (p[2] - y) * RowBytes(w) = start
        BY <3>4, <4>3
      <4> QED BY <4>2, <4>4
    <3>6. Changed(PutHLine(s, k, x, z, w, b, start), s, Inside(Box(x, z, w, 1), k), v)
      BY <3>4, <3>5, PutHLineChanges
    <3>7. Changed(Step(s, i), s, Span(cx.pos, c.pos + i, cx.len), v)
      BY <3>1, <3>3, <3>4, <3>6
    <3> QED BY <3>7 DEF Changed
  <2> DEFINE Loop(g) == g = [i \in 0..n |-> IF i = 0 THEN m ELSE Step(g[i - 1], i - 1)]
             a == CHOOSE g : Loop(g)
  <2>5. PutBox(m, k, Box(x, y, w, h), b) = a[n]
    BY <1>1, <1>6 DEF PutBox, Box, Repeat
  <2> HIDE DEF n, Step
  <2>6. \E g : Loop(g)
    <3> DEFINE F == [z \in S \X (0..n - 1) |-> Step(z[1], z[2])]
    <3>1. \A i \in 0..n - 1, s \in S : F[<<s, i>>] = Step(s, i)
      OBVIOUS
    <3>2. (\A i \in 0..n - 1, s \in S : F[<<s, i>>] \in S) /\ m \in S
      BY <2>4, <3>1
    <3> HIDE DEF F, S
    <3>3. PICK g : Goes(g, m, n, F) /\ \A i \in 0..n : g[i] \in S
      BY <2>3, <3>2, Repeats
    <3>4. ASSUME NEW i \in 0..n, i # 0 PROVE F[<<g[i - 1], i - 1>>] = Step(g[i - 1], i - 1)
      <4>1. i - 1 \in 0..n - 1 /\ g[i - 1] \in S
        BY <2>3, <3>3, <3>4
      <4> QED BY <3>1, <4>1
    <3>5. Loop(g)
      BY <3>3, <3>4 DEF Goes
    <3> QED BY <3>5
  <2>7. Loop(a)
    <3> HIDE DEF Loop
    <3> QED BY <2>6
  <2> HIDE DEF a
  <2>8. \A j \in 0..n : a[j] = IF j = 0 THEN m ELSE Step(a[j - 1], j - 1)
    BY <2>7
  <2>9. ASSUME NEW j \in 1..n, a[j - 1] \in S
        PROVE  Changed(a[j], a[j - 1], Span(cx.pos, c.pos + (j - 1), cx.len), v)
    <3>1. j \in 0..n /\ j # 0 /\ j - 1 \in 0..n - 1
      BY <2>3
    <3>2. a[j] = Step(a[j - 1], j - 1)
      BY <2>8, <3>1
    <3> QED BY <2>4, <2>9, <3>1, <3>2
  <2>10. Changed(a[n], m, Block(cx.pos, c.pos, cx.len, n), v)
    <3>1. a[0] = m
      BY <2>3, <2>8
    <3>2. Lines(a, n, cx.pos, c.pos, cx.len, v)
      BY <2>9 DEF Lines
    <3> QED BY <1>4, <2>3, <3>1, <3>2, BlockChanges
  <2> QED BY <1>3, <2>5, <2>10 DEF n
<1> QED BY <1>5, <1>6

-----------------------------------------------------------------------------
(***************************************************************************)
(* Getting.                                                                *)
(***************************************************************************)

\* o is the buffer b, n bytes long, with the pixels of m at Q in the places ix.
Fetched(o, b, n, Q, ix, m) ==
  /\ o \in Store(n)
  /\ \A p \in Q : ix[p] \in 0..2 * n - 1 /\ Nibble(o, ix[p]) = At(m, p)
  /\ \A j \in 0..2 * n - 1 : (\A p \in Q : ix[p] # j) => Nibble(o, j) = Nibble(b, j)

LEMMA FetchedNot ==
  ASSUME NEW n \in Nat, NEW b \in Store(n), NEW Q, Q = {}, NEW ix, NEW m
  PROVE  Fetched(b, b, n, Q, ix, m)
BY DEF Fetched

LEMMA FetchedTwice ==
  ASSUME NEW n \in Nat, NEW b, NEW o, NEW q, NEW Q, NEW R, NEW ix, NEW m,
         Fetched(o, b, n, Q, ix, m), Fetched(q, o, n, R, ix, m),
         \A p \in Q, s \in R : ix[p] = ix[s] => p = s,
         NEW U, U = Q \cup R
  PROVE  Fetched(q, b, n, U, ix, m)
<1>1. ASSUME NEW p \in U PROVE ix[p] \in 0..2 * n - 1 /\ Nibble(q, ix[p]) = At(m, p)
  <2>1. CASE p \in R
    BY <2>1 DEF Fetched
  <2>2. CASE p \in Q /\ p \notin R
    <3>1. ix[p] \in 0..2 * n - 1 /\ Nibble(o, ix[p]) = At(m, p)
      BY <2>2 DEF Fetched
    <3>2. \A s \in R : ix[s] # ix[p]
      BY <2>2
    <3> QED BY <3>1, <3>2 DEF Fetched
  <2> QED BY <2>1, <2>2
<1>2. ASSUME NEW j \in 0..2 * n - 1, \A p \in U : ix[p] # j
      PROVE  Nibble(q, j) = Nibble(b, j)
  BY <1>2 DEF Fetched
<1> QED BY <1>1, <1>2 DEF Fetched

\* What of a box is on the screen is a block.
LEMMA SeenIs ==
  ASSUME NEW x \in Int, NEW y \in Int, NEW w \in Nat, NEW h \in Nat,
         NEW cx, cx = Clipped(x, w, 0, VirtX),
         NEW cy, cy = Clipped(y, h, 0, VirtY)
  PROVE  /\ Leaves(cx, x, w, 0, VirtX) /\ Leaves(cy, y, h, 0, VirtY)
         /\ Block(x, y, w, h) = Block(cx.pos, cy.pos, cx.len, cy.len)
<1>1. VirtX \in Nat /\ VirtY \in Nat
  BY SizeAssumption
<1>2. Leaves(cx, x, w, 0, VirtX) /\ Leaves(cy, y, h, 0, VirtY)
  <2>1. 0 \in Int /\ VirtX \in Int /\ 0 <= VirtX /\ VirtY \in Int /\ 0 <= VirtY
    BY <1>1
  <2> QED BY <2>1, ClippedIs
<1>3. /\ \A q \in Int : cx.pos <= q /\ q < cx.pos + cx.len
                       <=> 0 <= q /\ q < VirtX /\ x <= q /\ q < x + w
      /\ \A q \in Int : cy.pos <= q /\ q < cy.pos + cy.len
                       <=> 0 <= q /\ q < VirtY /\ y <= q /\ q < y + h
  BY <1>2 DEF Leaves
<1>4. \A p \in Screen!Pixels : p[1] \in Int /\ p[2] \in Int /\ 0 <= p[1] /\ p[1] < VirtX /\ 0 <= p[2] /\ p[2] < VirtY
  BY <1>1 DEF Screen!Pixels
<1>5. Block(x, y, w, h) = Block(cx.pos, cy.pos, cx.len, cy.len)
  BY <1>3, <1>4 DEF Block
<1> QED BY <1>2, <1>5

\* len colours of m, from the colour 2 * r + x, to the colour 2 * start + skip.
LEMMA GetLinePaints ==
  ASSUME NEW n \in Nat, NEW b \in Store(n), NEW km \in Nat, NEW m \in Store(km),
         NEW x \in Nat, NEW r \in Nat, NEW start \in Nat, NEW skip \in Nat, NEW len \in Nat \ {0},
         2 * start + skip + len <= 2 * n, 2 * r + x + len <= 2 * km, skip > 0 => x = 0,
         NEW v, Taken(v, 2 * start + skip, len, m, 2 * r + x),
         NEW a, a = r + x \div 2, NEW s, s = start + skip \div 2
  PROVE  Painted(IF Odd(skip) THEN GetShifted(SetLow(b, s, m[a].hi), s + 1, m, a, len - 1)
                 ELSE IF Odd(x) THEN GetShifted(b, s, m, a, len)
                 ELSE PutAligned(b, s, m, a, len),
                 b, n, 2 * start + skip..2 * start + skip + len - 1, v)
<1>1. /\ a \in Nat /\ (Odd(x) => 2 * a + 1 = 2 * r + x) /\ (~Odd(x) => 2 * a = 2 * r + x)
      /\ s \in Nat /\ (Odd(skip) => 2 * s + 1 = 2 * start + skip)
      /\ (~Odd(skip) => 2 * s = 2 * start + skip)
  BY Halves
<1>2. s \in 0..n - 1 /\ a \in 0..km - 1
  BY <1>1
<1>3. m[a] \in Cell /\ m[a].hi \in Int
  BY <1>2 DEF Store, Cell
<1> DEFINE lo == 2 * start + skip
           from == 2 * r + x
           F == lo..lo + len - 1
           E == lo + 1..lo + len - 1
<1>4. /\ lo \in Nat /\ from \in Nat /\ lo \in F /\ F = {lo} \cup E
      /\ lo + len <= 2 * n /\ from + len <= 2 * km
  OBVIOUS
<1>5. /\ v[lo] = Nibble(m, from)
      /\ Taken(v, lo + 1, len - 1, m, from + 1)
      /\ Taken(v, lo, len, m, from)
  BY DEF Taken
<1> HIDE DEF lo, from
<1>6. CASE Odd(skip)
  <2> DEFINE q == SetLow(b, s, m[a].hi)
             o == GetShifted(q, s + 1, m, a, len - 1)
  <2>0. x = 0 /\ ~Odd(x)
    <3>1. skip # 0
      BY <1>6 DEF Odd
    <3>2. x = 0
      BY <3>1
    <3> QED BY <3>2 DEF Odd
  <2>1. 2 * s + 1 = lo /\ 2 * a = from /\ 2 * (s + 1) = lo + 1 /\ 2 * a + 1 = from + 1
    BY <1>1, <1>6, <2>0 DEF lo, from
  <2>2. v[2 * s + 1] = m[a].hi
    BY <1>1, <1>5, <2>1, TwoColours
  <2>3. Painted(q, b, n, {lo}, v)
    BY <1>2, <1>3, <2>1, <2>2, LowPaints
  <2>4. q \in Store(n)
    BY <2>3 DEF Painted
  <2> HIDE DEF q
  <2>5. Painted(o, q, n, 2 * (s + 1)..2 * (s + 1) + (len - 1) - 1, v)
    <3>1. /\ s + 1 \in Nat /\ len - 1 \in Nat
          /\ 2 * (s + 1) + (len - 1) <= 2 * n /\ 2 * a + 1 + (len - 1) <= 2 * km
      BY <1>1, <1>4, <2>1
    <3>2. Taken(v, 2 * (s + 1), len - 1, m, 2 * a + 1)
      BY <1>5, <2>1
    <3> QED BY <1>1, <2>4, <3>1, <3>2, GetShiftedPaints
  <2>6. 2 * (s + 1)..2 * (s + 1) + (len - 1) - 1 = E
    BY <1>1, <1>4, <2>1
  <2>7. Painted(o, q, n, E, v)
    BY <2>5, <2>6
  <2> HIDE DEF E, F, o
  <2>8. Painted(o, b, n, F, v)
    BY <1>4, <2>3, <2>7, PaintedTwice
  <2> QED BY <1>6, <2>8 DEF o, q, F, lo
<1>7. CASE ~Odd(skip) /\ Odd(x)
  <2>1. 2 * s = lo /\ 2 * a + 1 = from
    BY <1>1, <1>7 DEF lo, from
  <2>2. 2 * s + len <= 2 * n /\ 2 * a + 1 + len <= 2 * km /\ Taken(v, 2 * s, len, m, 2 * a + 1)
    BY <1>4, <1>5, <2>1
  <2>3. Painted(GetShifted(b, s, m, a, len), b, n, 2 * s..2 * s + len - 1, v)
    BY <1>1, <2>2, GetShiftedPaints
  <2>4. 2 * s..2 * s + len - 1 = F
    BY <1>1, <1>4, <2>1
  <2>5. Painted(GetShifted(b, s, m, a, len), b, n, F, v)
    BY <2>3, <2>4
  <2> HIDE DEF F
  <2> QED BY <1>7, <2>5 DEF F, lo
<1>8. CASE ~Odd(skip) /\ ~Odd(x)
  <2>1. 2 * s = lo /\ 2 * a = from
    BY <1>1, <1>8 DEF lo, from
  <2>2. 2 * s + len <= 2 * n /\ 2 * a + len <= 2 * km /\ Taken(v, 2 * s, len, m, 2 * a)
    BY <1>4, <1>5, <2>1
  <2>3. Painted(PutAligned(b, s, m, a, len), b, n, 2 * s..2 * s + len - 1, v)
    BY <1>1, <2>2, AlignedPaints
  <2>4. 2 * s..2 * s + len - 1 = F
    BY <1>1, <1>4, <2>1
  <2>5. Painted(PutAligned(b, s, m, a, len), b, n, F, v)
    BY <2>3, <2>4
  <2> HIDE DEF F
  <2> QED BY <1>8, <2>5 DEF F, lo
<1> QED BY <1>6, <1>7, <1>8

\* A place in a line.
LEMMA AlongLine ==
  ASSUME NEW lo \in Nat, NEW len \in Nat, NEW x \in Nat, NEW z \in Nat, x <= z, z < x + len
  PROVE  lo + (z - x) \in lo..lo + len - 1
OBVIOUS

\* A line of colours that comes from a line of pixels.
LEMMA LineFetched ==
  ASSUME NEW n \in Nat, NEW b, NEW o, NEW m, NEW x \in Nat, NEW y \in 0..VirtY - 1,
         NEW len \in Nat, x + len <= VirtX, NEW r, r = y * Stride, NEW lo \in Nat, lo + len <= 2 * n,
         NEW u, Taken(u, lo, len, m, 2 * r + x), Painted(o, b, n, lo..lo + len - 1, u),
         NEW ix, \A p \in Span(x, y, len) : ix[p] = lo + (p[1] - x)
  PROVE  Fetched(o, b, n, Span(x, y, len), ix, m)
<1>1. VirtX \in Nat /\ r \in Nat
  BY SizeAssumption, Rows
<1>2. ASSUME NEW p \in Span(x, y, len)
      PROVE  ix[p] \in lo..lo + len - 1 /\ Nibble(o, ix[p]) = At(m, p)
  <2>1. p \in Screen!Pixels /\ p[2] = y /\ x <= p[1] /\ p[1] < x + len
    BY DEF Span
  <2>2. p[1] \in Nat
    BY <1>1, <2>1 DEF Screen!Pixels
  <2>3. PICK j : j = ix[p]
    OBVIOUS
  <2>4. j = lo + (p[1] - x) /\ j \in lo..lo + len - 1
    <3>1. PICK z \in Nat : z = p[1]
      BY <2>2
    <3>2. ix[p] = lo + (p[1] - x)
      OBVIOUS
    <3>3. x <= z /\ z < x + len /\ j = lo + (z - x)
      BY <2>1, <2>3, <3>1, <3>2
    <3>4. j \in lo..lo + len - 1
      <4>1. lo + (z - x) \in lo..lo + len - 1
        BY <3>3, AlongLine
      <4> QED BY <3>3, <4>1
    <3> QED BY <3>1, <3>3, <3>4
  <2>5. j \in 0..2 * n - 1
    BY <2>4
  <2>6. Nibble(o, j) = u[j]
    BY <2>4, <2>5 DEF Painted
  <2>7. u[j] = Nibble(m, 2 * r + x + (j - lo))
    BY <2>4 DEF Taken
  <2>8. 2 * r + x + (j - lo) = 2 * r + p[1]
    <3>1. PICK z \in Nat : z = p[1]
      BY <2>2
    <3>2. j = lo + (z - x)
      BY <2>4, <3>1
    <3>3. 2 * r + x + (j - lo) = 2 * r + z
      BY <1>1, <3>2
    <3> QED BY <3>1, <3>3
  <2>9. At(m, p) = Nibble(m, 2 * r + p[1])
    <3>1. 2 * p[2] * Stride + p[1] = 2 * r + p[1]
      BY <2>1, Places
    <3> QED BY <3>1 DEF At
  <2> QED BY <2>3, <2>4, <2>6, <2>7, <2>8, <2>9
<1>3. ASSUME NEW j \in 0..2 * n - 1, \A p \in Span(x, y, len) : ix[p] # j
      PROVE  Nibble(o, j) = Nibble(b, j)
  <2>1. j \notin lo..lo + len - 1
    <3> SUFFICES ASSUME j \in lo..lo + len - 1 PROVE FALSE
      OBVIOUS
    <3> DEFINE p == <<x + (j - lo), y>>
    <3>1. x + (j - lo) \in 0..VirtX - 1 /\ x <= x + (j - lo) /\ x + (j - lo) < x + len
      BY <1>1
    <3>2. p \in Span(x, y, len)
      BY <3>1 DEF Span, Screen!Pixels
    <3>3. ix[p] = lo + (p[1] - x) /\ p[1] = x + (j - lo)
      BY <3>2
    <3> HIDE DEF p
    <3>5. lo + (x + (j - lo) - x) = j
      OBVIOUS
    <3>4. ix[p] = j
      BY <3>3, <3>5
    <3> QED BY <1>3, <3>2, <3>4
  <2> QED BY <2>1 DEF Painted
<1>4. lo..lo + len - 1 \subseteq 0..2 * n - 1
  OBVIOUS
<1> QED BY <1>2, <1>3, <1>4 DEF Fetched, Painted

LEMMA GetHLineFetches ==
  ASSUME NEW m \in Store(Size), NEW x \in Int, NEW y \in Int, NEW w \in Nat,
         NEW n \in Nat, NEW b \in Store(n), NEW start \in Nat, 2 * start + w <= 2 * n,
         NEW ix, \A p \in Block(x, y, w, 1) : ix[p] = 2 * start + (p[1] - x)
  PROVE  Fetched(GetHLine(m, x, y, w, b, start), b, n, Block(x, y, w, 1), ix, m)
<1>1. PICK c : c = Clipped(x, w, 0, VirtX)
  OBVIOUS
<1>2. PICK cy : cy = Clipped(y, 1, 0, VirtY)
  OBVIOUS
<1>3. Block(x, y, w, 1) = Block(c.pos, cy.pos, c.len, cy.len)
  BY <1>1, <1>2, SeenIs
<1>4. /\ c.len \in Int /\ c.pos \in Int /\ 0 <= c.pos /\ (c.len > 0 => c.pos + c.len <= VirtX)
      /\ c.skip \in Nat /\ c.skip + c.len <= w /\ c.pos = x + c.skip /\ (c.skip > 0 => c.pos = 0)
      /\ cy.len \in Int /\ cy.pos \in Int
  <2>1. Leaves(c, x, w, 0, VirtX) /\ Leaves(cy, y, 1, 0, VirtY)
    BY <1>1, <1>2, SeenIs
  <2> QED BY <2>1 DEF Leaves
<1>5. CASE y < 0 \/ y >= VirtY \/ c.len <= 0
  <2>3. y < 0 \/ y >= VirtY => cy.len <= 0
    <3>1. 0 \in Int /\ VirtY \in Int /\ 0 <= VirtY
      BY SizeAssumption
    <3> QED BY <1>2, <3>1, ClippedOne
  <2>1. c.len <= 0 \/ cy.len <= 0
    BY <1>5, <2>3
  <2>2. Block(x, y, w, 1) = {}
    BY <1>3, <1>4, <2>1, BlockEmpty
  <2> QED BY <1>1, <1>5, <2>2, FetchedNot DEF GetHLine
<1>6. CASE ~(y < 0 \/ y >= VirtY \/ c.len <= 0)
  <2>1. cy.pos = y /\ cy.len = 1
    BY <1>2, <1>6, SizeAssumption, ClippedOne
  <2>2. Block(x, y, w, 1) = Span(c.pos, y, c.len)
    BY <1>3, <1>4, <2>1, BlockLines
  <2>3. /\ c.pos \in Nat /\ c.len \in Nat \ {0} /\ y \in 0..VirtY - 1 /\ c.pos + c.len <= VirtX
    BY <1>4, <1>6, SizeAssumption
  <2>4. PICK r : r = y * Stride
    OBVIOUS
  <2>5. /\ r \in Nat /\ r + Stride <= Size /\ Size \in Nat
        /\ Stride \in Nat /\ VirtX <= 2 * Stride /\ VirtX \in Nat
    BY <2>3, <2>4, Rows, Strides, SizeAssumption
  <2> DEFINE lo == 2 * start + c.skip
             from == 2 * r + c.pos
             u == [j \in Int |-> Nibble(m, from + (j - lo))]
             a == r + c.pos \div 2
             s == start + c.skip \div 2
             o == IF Odd(c.skip) THEN GetShifted(SetLow(b, s, m[a].hi), s + 1, m, a, c.len - 1)
                  ELSE IF Odd(c.pos) THEN GetShifted(b, s, m, a, c.len)
                  ELSE PutAligned(b, s, m, a, c.len)
  <2>6. Taken(u, lo, c.len, m, from)
    <3>1. lo \in Int /\ c.len \in Int
      BY <1>4, <2>3
    <3> HIDE DEF lo, from
    <3> QED BY <3>1 DEF Taken
  <2>7. GetHLine(m, x, y, w, b, start) = o
    <3>1. a = Address(c.pos, y)
      BY <2>4 DEF Address
    <3> QED BY <1>1, <1>6, <3>1 DEF GetHLine
  <2>8. /\ lo + c.len <= 2 * n /\ lo \in Nat
        /\ 2 * r + c.pos + c.len <= 2 * Size
    BY <1>4, <2>3, <2>5
  <2>9. Painted(o, b, n, lo..lo + c.len - 1, u)
    <3> HIDE DEF u
    <3> QED BY <1>4, <2>3, <2>5, <2>6, <2>8, GetLinePaints
  <2>10. \A p \in Span(c.pos, y, c.len) : ix[p] = lo + (p[1] - c.pos)
    <3>1. \A p \in Span(c.pos, y, c.len) : p[1] \in Int
      BY SizeAssumption DEF Span, Screen!Pixels
    <3> QED BY <1>4, <2>2, <3>1
  <2> HIDE DEF u, o, lo
  <2>11. Fetched(o, b, n, Span(c.pos, y, c.len), ix, m)
    BY <2>3, <2>4, <2>6, <2>8, <2>9, <2>10, LineFetched
  <2> QED BY <2>2, <2>7, <2>11
<1> QED BY <1>5, <1>6

\* Each round of a loop fetches a line of a block, from the top down.
FetchesLines(a, n, kb, x, y, w, ix, m) ==
  \A j \in 1..n : a[j - 1] \in Store(kb) =>
                     Fetched(a[j], a[j - 1], kb, Span(x, y + (j - 1), w), ix, m)

LEMMA BlockFetched ==
  ASSUME NEW n \in Nat, NEW kb \in Nat, NEW b \in Store(kb),
         NEW x \in Int, NEW y \in Int, NEW w \in Int, NEW m, NEW ix,
         \A p, q \in Block(x, y, w, n) : ix[p] = ix[q] => p = q,
         NEW a, a[0] = b, FetchesLines(a, n, kb, x, y, w, ix, m)
  PROVE  Fetched(a[n], b, kb, Block(x, y, w, n), ix, m)
<1> DEFINE T == {i \in 0..n : Fetched(a[i], b, kb, Block(x, y, w, i), ix, m)}
<1>0. \A p \in Screen!Pixels : p[1] \in Int /\ p[2] \in Int
  BY SizeAssumption DEF Screen!Pixels
<1>1. 0 \in T
  <2>2. Block(x, y, w, 0) = {}
    BY <1>0 DEF Block
  <2>3. Fetched(a[0], b, kb, Block(x, y, w, 0), ix, m)
    BY <2>2, FetchedNot
  <2> QED BY <2>3
<1>2. ASSUME NEW i \in 0..n - 1, i \in T PROVE i + 1 \in T
  <2>1. Fetched(a[i], b, kb, Block(x, y, w, i), ix, m) /\ a[i] \in Store(kb)
    BY <1>2 DEF Fetched
  <2>2. Fetched(a[i + 1], a[i], kb, Span(x, y + i, w), ix, m)
    <3>1. i + 1 \in 1..n /\ i + 1 - 1 = i
      OBVIOUS
    <3> QED BY <2>1, <3>1 DEF FetchesLines
  <2>3. Block(x, y, w, i + 1) = Block(x, y, w, i) \cup Span(x, y + i, w)
    BY <1>0 DEF Block, Span
  <2>4. Block(x, y, w, i) \subseteq Block(x, y, w, n) /\ Span(x, y + i, w) \subseteq Block(x, y, w, n)
    BY <1>0 DEF Block, Span
  <2>5. \A p \in Block(x, y, w, i), q \in Span(x, y + i, w) : ix[p] = ix[q] => p = q
    BY <2>4
  <2>6. Fetched(a[i + 1], b, kb, Block(x, y, w, i + 1), ix, m)
    BY <2>1, <2>2, <2>3, <2>5, FetchedTwice
  <2> QED BY <2>6
<1>3. n \in T
  <2> HIDE DEF T
  <2> QED BY <1>1, <1>2, Climb
<1> QED BY <1>3

\* A pixel, a line on the screen.
LEMMA SeenOne ==
  ASSUME NEW x \in Int
  PROVE  /\ x < 0 \/ x >= VirtX => Clipped(x, 1, 0, VirtX).len <= 0
         /\ ~(x < 0 \/ x >= VirtX) => Clipped(x, 1, 0, VirtX) = [pos |-> x, skip |-> 0, len |-> 1]
         /\ x < 0 \/ x >= VirtY => Clipped(x, 1, 0, VirtY).len <= 0
         /\ ~(x < 0 \/ x >= VirtY) => Clipped(x, 1, 0, VirtY) = [pos |-> x, skip |-> 0, len |-> 1]
<1>1. 0 \in Int /\ VirtX \in Int /\ 0 <= VirtX /\ VirtY \in Int /\ 0 <= VirtY
  BY SizeAssumption
<1> QED BY <1>1, ClippedOne

LEMMA SeenLine ==
  ASSUME NEW x \in Int, NEW w \in Nat, NEW z \in 0..VirtY - 1
  PROVE  Block(x, z, w, 1) =
           Span(Clipped(x, w, 0, VirtX).pos, z, Clipped(x, w, 0, VirtX).len)
<1>0. PICK cx : cx = Clipped(x, w, 0, VirtX)
  OBVIOUS
<1>1. PICK cz : cz = Clipped(z, 1, 0, VirtY)
  OBVIOUS
<1>2. z \in Int /\ ~(z < 0 \/ z >= VirtY)
  BY SizeAssumption
<1>3. Block(x, z, w, 1) = Block(cx.pos, cz.pos, cx.len, cz.len) /\ Leaves(cx, x, w, 0, VirtX)
  BY <1>0, <1>1, <1>2, SeenIs
<1>4. cz.pos = z /\ cz.len = 1
  BY <1>1, <1>2, SeenOne
<1>5. cx.pos \in Int /\ cx.len \in Int
  BY <1>3 DEF Leaves
<1> QED BY <1>0, <1>2, <1>3, <1>4, <1>5, BlockLines

LEMMA GetVLineFetches ==
  ASSUME NEW m \in Store(Size), NEW x \in Int, NEW y \in Int, NEW h \in Nat,
         NEW kb \in Nat, NEW b \in Store(kb), h <= 2 * kb,
         NEW ix, \A p \in Block(x, y, 1, h) : ix[p] = p[2] - y
  PROVE  Fetched(GetVLine(m, x, y, h, b), b, kb, Block(x, y, 1, h), ix, m)
<1>1. PICK c : c = Clipped(y, h, 0, VirtY)
  OBVIOUS
<1>2. PICK cx : cx = Clipped(x, 1, 0, VirtX)
  OBVIOUS
<1>3. Block(x, y, 1, h) = Block(cx.pos, c.pos, cx.len, c.len)
  BY <1>1, <1>2, SeenIs
<1>4. /\ c.len \in Int /\ c.pos \in Int /\ 0 <= c.pos /\ (c.len > 0 => c.pos + c.len <= VirtY)
      /\ c.skip \in Nat /\ c.skip + c.len <= h /\ c.pos = y + c.skip
      /\ cx.len \in Int /\ cx.pos \in Int
  <2>1. Leaves(c, y, h, 0, VirtY) /\ Leaves(cx, x, 1, 0, VirtX)
    BY <1>1, <1>2, SeenIs
  <2> QED BY <2>1 DEF Leaves
<1>5. CASE x < 0 \/ x >= VirtX \/ c.len <= 0
  <2>1. c.len <= 0 \/ cx.len <= 0
    BY <1>2, <1>5, SeenOne
  <2>2. Block(x, y, 1, h) = {}
    BY <1>3, <1>4, <2>1, BlockEmpty
  <2> QED BY <1>1, <1>5, <2>2, FetchedNot DEF GetVLine
<1>6. CASE ~(x < 0 \/ x >= VirtX \/ c.len <= 0)
  <2>1. cx.pos = x /\ cx.len = 1
    BY <1>2, <1>6, SeenOne
  <2>2. Block(x, y, 1, h) = Block(x, c.pos, 1, c.len)
    BY <1>3, <2>1
  <2> DEFINE n == c.len
             S == Store(kb)
             Step(s, i) == SetNibble(s, c.skip + i, Nibble(m, 2 * (c.pos + i) * Stride + x))
  <2>3. n \in Nat /\ x \in 0..VirtX - 1 /\ c.pos \in Nat /\ c.pos + n <= VirtY /\ VirtX \in Nat /\ VirtY \in Nat
    BY <1>4, <1>6, SizeAssumption
  <2>4. ASSUME NEW s \in S, NEW i \in 0..n - 1
        PROVE  Fetched(Step(s, i), s, kb, Span(x, c.pos + i, 1), ix, m) /\ Step(s, i) \in S
    <3>1. PICK z \in 0..VirtY - 1 : z = c.pos + i
      BY <2>3
    <3>2. PICK r : r = z * Stride
      OBVIOUS
    <3>3. /\ r \in Nat /\ r + Stride <= Size /\ 2 * z * Stride = 2 * r
          /\ Stride \in Nat /\ VirtX <= 2 * Stride /\ Size \in Nat
      BY <3>1, <3>2, Rows, Strides
    <3>4. PICK d \in Int : d = Nibble(m, 2 * r + x)
      <4>1. 2 * r + x \in 0..2 * Size - 1
        BY <2>3, <3>3
      <4> QED BY <3>3, <4>1, NibbleType
    <3>5. PICK lo \in Nat : lo = c.skip + i /\ lo + 1 <= 2 * kb
      BY <1>4, <2>3
    <3> DEFINE u == [j \in Int |-> d]
    <3>6. Painted(SetNibble(s, lo, d), s, kb, {lo}, u)
      <4>1. lo \in 0..2 * kb - 1 /\ u[lo] = d
        BY <3>5
      <4> HIDE DEF u
      <4> QED BY <4>1, NibblePaints
    <3>7. {lo} = lo..lo + 1 - 1
      BY <3>5
    <3>8. Taken(u, lo, 1, m, 2 * r + x)
      <4>1. ASSUME NEW j \in lo..lo + 1 - 1 PROVE u[j] = Nibble(m, 2 * r + x + (j - lo))
        <5>1. j = lo /\ u[j] = d
          BY <3>5
        <5>2. 2 * r + x + (j - lo) = 2 * r + x
          BY <2>3, <3>3, <3>5, <5>1
        <5> QED BY <3>4, <5>1, <5>2
      <4> QED BY <4>1 DEF Taken
    <3>9. \A p \in Span(x, z, 1) : ix[p] = lo + (p[1] - x)
      <4>1. ASSUME NEW p \in Span(x, z, 1) PROVE ix[p] = lo + (p[1] - x)
        <5>1. p \in Screen!Pixels /\ p[2] = z /\ p[1] = x
          <6>1. \A q \in Screen!Pixels : q[1] \in Int
            BY <2>3 DEF Screen!Pixels
          <6> QED BY <2>3, <6>1 DEF Span
        <5>2. x <= p[1] /\ p[1] < x + 1 /\ c.pos <= p[2] /\ p[2] < c.pos + c.len
          BY <2>3, <3>1, <5>1
        <5>3. p \in Block(x, y, 1, h)
          BY <2>2, <5>1, <5>2 DEF Block
        <5>4. ix[p] = p[2] - y
          BY <5>3
        <5> QED BY <1>4, <2>3, <3>1, <3>5, <5>1, <5>4
      <4> QED BY <4>1
    <3> HIDE DEF u
    <3>10. Fetched(SetNibble(s, lo, d), s, kb, Span(x, z, 1), ix, m)
      <4>1. Painted(SetNibble(s, lo, d), s, kb, lo..lo + 1 - 1, u) /\ x \in Nat /\ x + 1 <= VirtX
        <5>1. Painted(SetNibble(s, lo, d), s, kb, lo..lo + 1 - 1, u)
          BY <3>6, <3>7
        <5> QED BY <2>3, <5>1
      <4> QED BY <3>1, <3>2, <3>5, <3>8, <3>9, <4>1, LineFetched
    <3>11. Step(s, i) = SetNibble(s, lo, d)
      BY <3>1, <3>3, <3>4, <3>5
    <3> QED BY <3>1, <3>10, <3>11 DEF Fetched
  <2> DEFINE Loop(g) == g = [i \in 0..n |-> IF i = 0 THEN b ELSE Step(g[i - 1], i - 1)]
             a == CHOOSE g : Loop(g)
  <2>5. GetVLine(m, x, y, h, b) = a[n]
    BY <1>1, <1>6 DEF GetVLine, Repeat
  <2> HIDE DEF n, Step
  <2>6. \E g : Loop(g)
    <3> DEFINE F == [z \in S \X (0..n - 1) |-> Step(z[1], z[2])]
    <3>1. \A i \in 0..n - 1, s \in S : F[<<s, i>>] = Step(s, i)
      OBVIOUS
    <3>2. (\A i \in 0..n - 1, s \in S : F[<<s, i>>] \in S) /\ b \in S
      BY <2>4, <3>1
    <3> HIDE DEF F, S
    <3>3. PICK g : Goes(g, b, n, F) /\ \A i \in 0..n : g[i] \in S
      BY <2>3, <3>2, Repeats
    <3>4. ASSUME NEW i \in 0..n, i # 0 PROVE F[<<g[i - 1], i - 1>>] = Step(g[i - 1], i - 1)
      <4>1. i - 1 \in 0..n - 1 /\ g[i - 1] \in S
        BY <2>3, <3>3, <3>4
      <4> QED BY <3>1, <4>1
    <3>5. Loop(g)
      BY <3>3, <3>4 DEF Goes
    <3> QED BY <3>5
  <2>7. Loop(a)
    <3> HIDE DEF Loop
    <3> QED BY <2>6
  <2> HIDE DEF a
  <2>8. \A j \in 0..n : a[j] = IF j = 0 THEN b ELSE Step(a[j - 1], j - 1)
    BY <2>7
  <2>9. ASSUME NEW j \in 1..n, a[j - 1] \in S
        PROVE  Fetched(a[j], a[j - 1], kb, Span(x, c.pos + (j - 1), 1), ix, m)
    <3>1. j \in 0..n /\ j # 0 /\ j - 1 \in 0..n - 1
      BY <2>3
    <3>2. a[j] = Step(a[j - 1], j - 1)
      BY <2>8, <3>1
    <3> QED BY <2>4, <2>9, <3>1, <3>2
  <2>10. Fetched(a[n], b, kb, Block(x, c.pos, 1, n), ix, m)
    <3>1. c.pos \in Int /\ a[0] = b
      <4>1. 0 \in 0..n /\ c.pos \in Int
        BY <2>3
      <4> QED BY <2>8, <4>1
    <3>2. FetchesLines(a, n, kb, x, c.pos, 1, ix, m)
      BY <2>9 DEF FetchesLines
    <3>3. ASSUME NEW p \in Block(x, c.pos, 1, n), NEW q \in Block(x, c.pos, 1, n), ix[p] = ix[q]
          PROVE  p = q
      <4>1. ix[p] = p[2] - y /\ ix[q] = q[2] - y
        BY <2>2 DEF n
      <4>2. /\ p \in Screen!Pixels /\ x <= p[1] /\ p[1] < x + 1
            /\ q \in Screen!Pixels /\ x <= q[1] /\ q[1] < x + 1
        BY DEF Block
      <4>3. /\ p[1] \in Int /\ p[2] \in Int /\ p = <<p[1], p[2]>>
            /\ q[1] \in Int /\ q[2] \in Int /\ q = <<q[1], q[2]>>
        BY <2>3, <4>2 DEF Screen!Pixels
      <4>4. p[1] = q[1]
        BY <4>2, <4>3
      <4>5. p[2] = q[2]
        <5>1. PICK d \in Int : d = p[2]
          BY <4>3
        <5>2. PICK e \in Int : e = q[2]
          BY <4>3
        <5>3. d - y = e - y
          BY <3>3, <4>1, <5>1, <5>2
        <5>4. d = e
          BY <5>3
        <5> QED BY <5>1, <5>2, <5>4
      <4> QED BY <4>3, <4>4, <4>5
    <3> QED BY <2>3, <3>1, <3>2, <3>3, BlockFetched
  <2> QED BY <2>2, <2>5, <2>10 DEF n
<1> QED BY <1>5, <1>6

\* Two pixels of a box never share a place in the buffer.
LEMMA PlacesDiffer ==
  ASSUME NEW w \in Nat, NEW r \in Nat, w <= 2 * r,
         NEW d \in Nat, NEW e \in Nat, NEW f \in 0..w - 1, NEW g \in 0..w - 1,
         2 * (d * r) + f = 2 * (e * r) + g
  PROVE  d = e /\ f = g
<1>1. PICK dr \in Nat : dr = d * r
  BY Products
<1>2. PICK er \in Nat : er = e * r
  BY Products
<1>3. (d < e => dr + r <= er) /\ (e < d => er + r <= dr) /\ (d = e => dr = er)
  BY <1>1, <1>2, Products
<1>4. 2 * dr + f = 2 * er + g
  BY <1>1, <1>2
<1>5. d = e
  BY <1>3, <1>4
<1> QED BY <1>3, <1>4, <1>5

LEMMA GetBoxFetches ==
  ASSUME NEW m \in Store(Size), NEW x \in Int, NEW y \in Int, NEW w \in Nat, NEW h \in Nat,
         NEW kb \in Nat, NEW b \in Store(kb), RowBytes(w) * h <= kb,
         NEW ix, \A p \in Block(x, y, w, h) :
                   ix[p] = 2 * ((p[2] - y) * RowBytes(w)) + (p[1] - x)
  PROVE  Fetched(GetBox(m, Box(x, y, w, h), b), b, kb, Block(x, y, w, h), ix, m)
<1>1. PICK c : c = Clipped(y, h, 0, VirtY)
  OBVIOUS
<1>2. PICK cx : cx = Clipped(x, w, 0, VirtX)
  OBVIOUS
<1>3. Block(x, y, w, h) = Block(cx.pos, c.pos, cx.len, c.len)
  BY <1>1, <1>2, SeenIs
<1>4. /\ c.len \in Int /\ c.pos \in Int /\ 0 <= c.pos /\ (c.len > 0 => c.pos + c.len <= VirtY)
      /\ c.skip \in Nat /\ c.skip + c.len <= h /\ c.pos = y + c.skip
      /\ cx.len \in Int /\ cx.pos \in Int /\ VirtX \in Nat /\ VirtY \in Nat
  <2>1. Leaves(c, y, h, 0, VirtY) /\ Leaves(cx, x, w, 0, VirtX)
    BY <1>1, <1>2, SeenIs
  <2> QED BY <2>1, SizeAssumption DEF Leaves
<1>5. CASE c.len <= 0
  <2>1. Block(x, y, w, h) = {}
    BY <1>3, <1>4, <1>5, BlockEmpty
  <2> QED BY <1>1, <1>5, <2>1, FetchedNot DEF GetBox, Box
<1>6. CASE ~(c.len <= 0)
  <2> DEFINE n == c.len
             S == Store(kb)
             Step(s, i) == GetHLine(m, x, c.pos + i, w, s, (c.skip + i) * RowBytes(w))
  <2>3. n \in Nat /\ c.pos \in Nat /\ c.pos + n <= VirtY
    BY <1>4, <1>6
  <2>4. ASSUME NEW s \in S, NEW i \in 0..n - 1
        PROVE  Fetched(Step(s, i), s, kb, Span(cx.pos, c.pos + i, cx.len), ix, m) /\ Step(s, i) \in S
    <3>1. PICK z \in Int : z = c.pos + i
      BY <2>3
    <3>2. z \in 0..VirtY - 1 /\ c.pos <= z /\ z < c.pos + c.len
      BY <1>4, <2>3, <3>1
    <3>3. Block(x, z, w, 1) = Span(cx.pos, z, cx.len)
      BY <1>2, <3>2, SeenLine
    <3>4. PICK start \in Nat : start = (c.skip + i) * RowBytes(w) /\ 2 * start + w <= 2 * kb
      <4>1. c.skip + i \in 0..h - 1
        BY <1>4, <2>3
      <4>2. PICK start \in Nat : start = (c.skip + i) * RowBytes(w) /\ 2 * start + 2 * RowBytes(w) <= 2 * kb
        BY <4>1, RowFits
      <4>3. RowBytes(w) \in Nat /\ w <= 2 * RowBytes(w)
        BY RowBytesIs
      <4>4. 2 * start + w <= 2 * kb
        BY <4>2, <4>3
      <4> QED BY <4>2, <4>4
    <3>5. ASSUME NEW p \in Block(x, z, w, 1) PROVE ix[p] = 2 * start + (p[1] - x)
      <4>1. p \in Screen!Pixels /\ p[2] = z /\ cx.pos <= p[1] /\ p[1] < cx.pos + cx.len
        BY <3>3 DEF Span
      <4>2. p \in Block(x, y, w, h)
        BY <1>3, <3>2, <4>1 DEF Block
      <4>3. p[2] - y = c.skip + i
        BY <1>4, <3>1, <4>1
      <4>4. (p[2] - y) * RowBytes(w) = start
        BY <3>4, <4>3
      <4> QED BY <4>2, <4>4
    <3>6. Fetched(GetHLine(m, x, z, w, s, start), s, kb, Block(x, z, w, 1), ix, m)
      BY <3>4, <3>5, GetHLineFetches
    <3>7. Fetched(Step(s, i), s, kb, Span(cx.pos, c.pos + i, cx.len), ix, m)
      BY <3>1, <3>3, <3>4, <3>6
    <3> QED BY <3>7 DEF Fetched
  <2> DEFINE Loop(g) == g = [i \in 0..n |-> IF i = 0 THEN b ELSE Step(g[i - 1], i - 1)]
             a == CHOOSE g : Loop(g)
  <2>5. GetBox(m, Box(x, y, w, h), b) = a[n]
    BY <1>1, <1>6 DEF GetBox, Box, Repeat
  <2> HIDE DEF n, Step
  <2>6. \E g : Loop(g)
    <3> DEFINE F == [z \in S \X (0..n - 1) |-> Step(z[1], z[2])]
    <3>1. \A i \in 0..n - 1, s \in S : F[<<s, i>>] = Step(s, i)
      OBVIOUS
    <3>2. (\A i \in 0..n - 1, s \in S : F[<<s, i>>] \in S) /\ b \in S
      BY <2>4, <3>1
    <3> HIDE DEF F, S
    <3>3. PICK g : Goes(g, b, n, F) /\ \A i \in 0..n : g[i] \in S
      BY <2>3, <3>2, Repeats
    <3>4. ASSUME NEW i \in 0..n, i # 0 PROVE F[<<g[i - 1], i - 1>>] = Step(g[i - 1], i - 1)
      <4>1. i - 1 \in 0..n - 1 /\ g[i - 1] \in S
        BY <2>3, <3>3, <3>4
      <4> QED BY <3>1, <4>1
    <3>5. Loop(g)
      BY <3>3, <3>4 DEF Goes
    <3> QED BY <3>5
  <2>7. Loop(a)
    <3> HIDE DEF Loop
    <3> QED BY <2>6
  <2> HIDE DEF a
  <2>8. \A j \in 0..n : a[j] = IF j = 0 THEN b ELSE Step(a[j - 1], j - 1)
    BY <2>7
  <2>9. ASSUME NEW j \in 1..n, a[j - 1] \in S
        PROVE  Fetched(a[j], a[j - 1], kb, Span(cx.pos, c.pos + (j - 1), cx.len), ix, m)
    <3>1. j \in 0..n /\ j # 0 /\ j - 1 \in 0..n - 1
      BY <2>3
    <3>2. a[j] = Step(a[j - 1], j - 1)
      BY <2>8, <3>1
    <3> QED BY <2>4, <2>9, <3>1, <3>2
  <2>10. Fetched(a[n], b, kb, Block(cx.pos, c.pos, cx.len, n), ix, m)
    <3>1. a[0] = b
      BY <2>3, <2>8
    <3>2. FetchesLines(a, n, kb, cx.pos, c.pos, cx.len, ix, m)
      BY <2>9 DEF FetchesLines
    <3>3. ASSUME NEW p \in Block(x, y, w, h), NEW q \in Block(x, y, w, h), ix[p] = ix[q]
          PROVE  p = q
      <4>1. /\ p \in Screen!Pixels /\ x <= p[1] /\ p[1] < x + w /\ y <= p[2]
            /\ q \in Screen!Pixels /\ x <= q[1] /\ q[1] < x + w /\ y <= q[2]
        BY DEF Block
      <4>2. /\ p[1] \in Int /\ p[2] \in Int /\ p = <<p[1], p[2]>>
            /\ q[1] \in Int /\ q[2] \in Int /\ q = <<q[1], q[2]>>
        BY <1>4, <4>1 DEF Screen!Pixels
      <4>3. PICK d \in Nat : d = p[2] - y
        BY <4>1, <4>2
      <4>4. PICK e \in Nat : e = q[2] - y
        BY <4>1, <4>2
      <4>5. PICK f \in 0..w - 1 : f = p[1] - x
        BY <4>1, <4>2
      <4>6. PICK g \in 0..w - 1 : g = q[1] - x
        BY <4>1, <4>2
      <4>7. PICK r \in Nat : r = RowBytes(w) /\ w <= 2 * r
        BY RowBytesIs
      <4>8. ix[p] = 2 * (d * r) + f /\ ix[q] = 2 * (e * r) + g
        BY <4>3, <4>4, <4>5, <4>6, <4>7
      <4>9. 2 * (d * r) + f = 2 * (e * r) + g
        BY <3>3, <4>8
      <4>10. d = e /\ f = g
        BY <4>7, <4>9, PlacesDiffer
      <4>11. p[1] = q[1] /\ p[2] = q[2]
        BY <4>2, <4>3, <4>4, <4>5, <4>6, <4>10
      <4> QED BY <4>2, <4>11
    <3>4. \A p, q \in Block(cx.pos, c.pos, cx.len, n) : ix[p] = ix[q] => p = q
      BY <1>3, <3>3 DEF n
    <3> QED BY <1>4, <2>3, <3>1, <3>2, <3>4, BlockFetched
  <2> QED BY <1>3, <2>5, <2>10 DEF n
<1> QED BY <1>5, <1>6

-----------------------------------------------------------------------------
(***************************************************************************)
(* Copying.                                                                *)
(***************************************************************************)

\* What c leaves of a copy of the len pixels from src to pos is what lies in
\* lo..hi - 1 and comes from 0..size - 1.
CopyLeaves(c, src, pos, len, lo, hi, size) ==
  /\ c.pos \in Int /\ c.src \in Int /\ c.len \in Int /\ c.pos - pos = c.src - src
  /\ c.len > 0 => /\ lo <= c.pos /\ c.pos + c.len <= hi
                  /\ 0 <= c.src /\ c.src + c.len <= size
  /\ \A q \in Int : c.pos <= q /\ q < c.pos + c.len
                      <=> /\ lo <= q /\ q < hi /\ pos <= q /\ q < pos + len
                          /\ 0 <= q - pos + src /\ q - pos + src < size

LEMMA CopyClippedIs ==
  ASSUME NEW src \in Int, NEW pos \in Int, NEW len \in Nat,
         NEW lo \in Int, NEW hi \in Int, NEW size \in Nat
  PROVE  CopyLeaves(CopyClipped(src, pos, len, lo, hi, size), src, pos, len, lo, hi, size)
<1> DEFINE d == IF -src > lo - pos THEN -src ELSE lo - pos
           skip == IF d > 0 THEN d ELSE 0
           w1 == IF pos + len > hi THEN hi - (pos + skip) ELSE len - skip
           w2 == IF src + skip + w1 > size THEN size - (src + skip) ELSE w1
           c == [src |-> src + skip, pos |-> pos + skip, len |-> w2]
<1>1. CopyClipped(src, pos, len, lo, hi, size) = c
  BY DEF CopyClipped
<1>2. /\ skip \in Int /\ w2 \in Int
      /\ w2 > 0 => /\ lo <= pos + skip /\ pos + skip + w2 <= hi
                   /\ 0 <= src + skip /\ src + skip + w2 <= size
      /\ \A q \in Int : pos + skip <= q /\ q < pos + skip + w2
                      <=> /\ lo <= q /\ q < hi /\ pos <= q /\ q < pos + len
                          /\ 0 <= q - pos + src /\ q - pos + src < size
  OBVIOUS
<1> HIDE DEF skip, w2
<1>3. c.src = src + skip /\ c.pos = pos + skip /\ c.len = w2
  OBVIOUS
<1> HIDE DEF c
<1> QED BY <1>1, <1>2, <1>3 DEF CopyLeaves

\* The dangling left colour of a copied line.
LEMMA LeftPaints ==
  ASSUME NEW n \in Nat, NEW g \in Store(n), NEW a \in Nat, NEW b \in Nat, NEW d \in Nat,
         NEW first \in {0, 1}, 2 * a = d + first,
         NEW u, first = 1 => b > 0 /\ a <= n /\ b <= n /\ u[d] = Nibble(g, 2 * b - 1)
  PROVE  Painted(IF first = 1 THEN SetLow(g, a - 1, g[b - 1].lo) ELSE g, g, n, d..2 * a - 1, u)
<1>1. CASE first = 1
  <2>1. a - 1 \in 0..n - 1 /\ b - 1 \in 0..n - 1 /\ b - 1 \in Nat /\ 2 * b - 1 = 2 * (b - 1) + 1
    BY <1>1
  <2>2. g[b - 1] \in Cell /\ g[b - 1].lo \in Int
    BY <2>1 DEF Store, Cell
  <2>3. 2 * (a - 1) + 1 = d
    BY <1>1
  <2>4. u[2 * (a - 1) + 1] = g[b - 1].lo
    BY <1>1, <2>1, <2>3, TwoColours
  <2>5. Painted(SetLow(g, a - 1, g[b - 1].lo), g, n, {2 * (a - 1) + 1}, u)
    BY <2>1, <2>2, <2>4, LowPaints
  <2>6. {2 * (a - 1) + 1} = d..2 * a - 1
    BY <1>1
  <2> QED BY <1>1, <2>5, <2>6
<1>2. CASE first = 0
  <2>1. d..2 * a - 1 = {}
    BY <1>2
  <2> QED BY <1>2, <2>1, PaintedNot
<1> QED BY <1>1, <1>2

\* The dangling right one.
LEMMA RightPaints ==
  ASSUME NEW n \in Nat, NEW g \in Store(n), NEW a \in Nat, NEW b \in Nat,
         NEW last \in {0, 1},
         NEW u, last = 1 => a < n /\ b < n /\ u[2 * a] = Nibble(g, 2 * b)
  PROVE  Painted(IF last = 1 THEN SetHigh(g, a, g[b].hi) ELSE g, g, n,
                 2 * a..2 * a + last - 1, u)
<1>1. CASE last = 1
  <2>1. a \in 0..n - 1 /\ b \in 0..n - 1
    BY <1>1
  <2>2. g[b] \in Cell /\ g[b].hi \in Int
    BY <2>1 DEF Store, Cell
  <2>3. u[2 * a] = g[b].hi
    BY <1>1, TwoColours
  <2>4. Painted(SetHigh(g, a, g[b].hi), g, n, {2 * a}, u)
    BY <2>1, <2>2, <2>3, HighPaints
  <2>5. {2 * a} = 2 * a..2 * a + last - 1
    BY <1>1
  <2> QED BY <1>1, <2>4, <2>5
<1>2. CASE last = 0
  <2>1. 2 * a..2 * a + last - 1 = {}
    BY <1>2
  <2> QED BY <1>2, <2>1, PaintedNot
<1> QED BY <1>1, <1>2

\* Colours that were not written are as they were.
LEMMA StillTaken ==
  ASSUME NEW n \in Nat, NEW f, NEW g, NEW D, NEW u, Painted(g, f, n, D, u),
         NEW d \in Nat, NEW s \in Nat, NEW w \in Nat, Taken(u, d, w, f, s),
         NEW lo \in Nat, NEW len \in Nat, d <= lo, lo + len <= d + w, s + w <= 2 * n,
         \A j \in s + (lo - d)..s + (lo - d) + len - 1 : j \notin D
  PROVE  Taken(u, lo, len, g, s + (lo - d))
<1> SUFFICES ASSUME NEW j \in lo..lo + len - 1
             PROVE  u[j] = Nibble(g, s + (lo - d) + (j - lo))
  BY DEF Taken
<1>1. PICK i \in Int : i = s + (j - d)
  OBVIOUS
<1>2. s + (lo - d) + (j - lo) = i /\ i \in 0..2 * n - 1 /\ j \in d..d + w - 1
      /\ i \in s + (lo - d)..s + (lo - d) + len - 1
  BY <1>1
<1>3. u[j] = Nibble(f, s + (j - d))
  BY <1>2 DEF Taken
<1>4. Nibble(g, i) = Nibble(f, i)
  BY <1>2 DEF Painted
<1> QED BY <1>1, <1>2, <1>3, <1>4

\* The three parts of copying a line from the byte src to the byte dst.
LeftIs(left, n, first, src, dst) ==
  \A g \in Store(n) :
    left[g] = IF first = 1 THEN SetLow(g, dst - 1, g[src - 1].lo) ELSE g
MiddleIs(middle, n, src, dst, c) ==
  \A g \in Store(n) : middle[g] = CopyBytes(g, dst, g, src, c)
RightIs(right, n, last, src, dst) ==
  \A g \in Store(n) :
    right[g] = IF last = 1 THEN SetHigh(g, dst, g[src].hi) ELSE g

\* What the parts a, then b, then c do to the store f.
Outcome(c, b, a, f, n, W, u) ==
  /\ a[f] \in Store(n) /\ b[a[f]] \in Store(n)
  /\ Painted(c[b[a[f]]], f, n, W, u)

\* Three segments in a row.
LEMMA Segments ==
  ASSUME NEW d \in Nat, NEW e \in Nat, NEW g \in Nat, NEW t \in Nat,
         d <= e, e <= g, g <= t + 1
  PROVE  /\ (d..e - 1) \cup (e..g - 1) = d..g - 1
         /\ (g..t) \cup (e..g - 1) = e..t
         /\ (d..g - 1) \cup (g..t) = d..t
         /\ (e..t) \cup (d..e - 1) = d..t
<1>1. (d..e - 1) \cup (e..g - 1) = d..g - 1
  OBVIOUS
<1>2. (g..t) \cup (e..g - 1) = e..t
  OBVIOUS
<1>3. (d..g - 1) \cup (g..t) = d..t
  OBVIOUS
<1>4. (e..t) \cup (d..e - 1) = d..t
  OBVIOUS
<1> QED BY <1>1, <1>2, <1>3, <1>4

\* The numbers of such a copy, of w colours from s to d: first and last say
\* whether there is a dangling colour, c bytes are moved in between.
Parts(n, s, d, w, first, last, c, src, dst, sc, dc, W) ==
  /\ s \in Nat /\ d \in Nat /\ w \in Nat \ {0} /\ s + w <= 2 * n /\ d + w <= 2 * n
  /\ first \in {0, 1} /\ last \in {0, 1} /\ c \in Nat /\ w = first + 2 * c + last
  /\ src \in Nat /\ dst \in Nat /\ 2 * src = s + first /\ 2 * dst = d + first
  /\ sc = src + c /\ dc = dst + c /\ W = d..d + w - 1

\* A line of w colours is copied from the colour s to the colour d of a store,
\* both in the same half of a byte.
LEMMA CopiedLinePaints ==
  ASSUME NEW n \in Nat, NEW f \in Store(n),
         NEW s, NEW d, NEW w, NEW first, NEW last, NEW c, NEW src, NEW dst,
         NEW sc, NEW dc, NEW W,
         Parts(n, s, d, w, first, last, c, src, dst, sc, dc, W),
         NEW u, Taken(u, d, w, f, s),
         NEW left, LeftIs(left, n, first, src, dst),
         NEW middle, MiddleIs(middle, n, src, dst, c),
         NEW right, RightIs(right, n, last, sc, dc)
  PROVE  /\ d <= s \/ s + w <= d => Outcome(right, middle, left, f, n, W, u)
         /\ s <= d \/ d + w <= s => Outcome(left, middle, right, f, n, W, u)
<1> USE DEF Parts
<1> DEFINE L == d..2 * dst - 1
           M == 2 * dst..2 * dst + 2 * c - 1
           R == 2 * dc..2 * dc + last - 1
<1>0. dc \in Nat /\ sc \in Nat /\ dc <= n /\ sc <= n /\ dst + c <= n /\ src + c <= n
  OBVIOUS
<1>1. ASSUME NEW g, NEW D, Painted(g, f, n, D, u), s \notin D
      PROVE  Painted(left[g], g, n, L, u)
  <2>1. g \in Store(n)
    BY <1>1 DEF Painted
  <2>2. first = 1 => src > 0 /\ dst <= n /\ src <= n /\ u[d] = Nibble(g, 2 * src - 1)
    <3> SUFFICES ASSUME first = 1
                 PROVE  src > 0 /\ dst <= n /\ src <= n /\ u[d] = Nibble(g, 2 * src - 1)
      OBVIOUS
    <3>1. src > 0 /\ dst <= n /\ src <= n /\ 2 * src - 1 = s /\ s \in 0..2 * n - 1
      OBVIOUS
    <3>2. d \in d..d + w - 1 /\ s + (d - d) = s
      OBVIOUS
    <3>3. u[d] = Nibble(f, s)
      BY <3>2 DEF Taken
    <3>4. Nibble(g, s) = Nibble(f, s)
      BY <1>1, <3>1 DEF Painted
    <3> QED BY <3>1, <3>3, <3>4
  <2>3. Painted(IF first = 1 THEN SetLow(g, dst - 1, g[src - 1].lo) ELSE g, g, n, L, u)
    BY <2>1, <2>2, LeftPaints
  <2> QED BY <2>1, <2>3 DEF LeftIs
<1>2. ASSUME NEW g, NEW D, Painted(g, f, n, D, u), \A j \in 2 * src..2 * src + 2 * c - 1 : j \notin D
      PROVE  Painted(middle[g], g, n, M, u)
  <2>1. g \in Store(n)
    BY <1>2 DEF Painted
  <2>2. Taken(u, 2 * dst, 2 * c, g, 2 * src)
    <3>1. s + (2 * dst - d) = 2 * src /\ 2 * dst \in Nat /\ 2 * c \in Nat
          /\ d <= 2 * dst /\ 2 * dst + 2 * c <= d + w
      OBVIOUS
    <3>2. \A j \in s + (2 * dst - d)..s + (2 * dst - d) + 2 * c - 1 : j \notin D
      BY <1>2, <3>1
    <3>3. Taken(u, 2 * dst, 2 * c, g, s + (2 * dst - d))
      BY <1>2, <3>1, <3>2, StillTaken
    <3> QED BY <3>1, <3>3
  <2>3. Painted(CopyBytes(g, dst, g, src, c), g, n, M, u)
    BY <1>0, <2>1, <2>2, CopyPaints
  <2> QED BY <2>1, <2>3 DEF MiddleIs
<1>3. ASSUME NEW g, NEW D, Painted(g, f, n, D, u), last = 1 => s + w - 1 \notin D
      PROVE  Painted(right[g], g, n, R, u)
  <2>1. g \in Store(n)
    BY <1>3 DEF Painted
  <2>2. last = 1 => dc < n /\ sc < n /\ u[2 * dc] = Nibble(g, 2 * sc)
    <3> SUFFICES ASSUME last = 1
                 PROVE  dc < n /\ sc < n /\ u[2 * dc] = Nibble(g, 2 * sc)
      OBVIOUS
    <3>1. PICK j \in Nat : j = 2 * dc
      BY <1>0
    <3>2. PICK i \in Nat : i = 2 * sc
      BY <1>0
    <3>3. /\ dc < n /\ sc < n /\ j \in d..d + w - 1
          /\ s + (j - d) = i /\ i \in 0..2 * n - 1 /\ i = s + w - 1
      BY <3>1, <3>2
    <3>4. u[j] = Nibble(f, i)
      <4>1. u[j] = Nibble(f, s + (j - d))
        BY <3>3 DEF Taken
      <4> QED BY <3>3, <4>1
    <3>5. Nibble(g, i) = Nibble(f, i)
      BY <1>3, <3>3 DEF Painted
    <3> QED BY <3>1, <3>2, <3>3, <3>4, <3>5
  <2>3. Painted(IF last = 1 THEN SetHigh(g, dc, g[sc].hi) ELSE g, g, n, R, u)
    BY <1>0, <2>1, <2>2, RightPaints
  <2> QED BY <2>1, <2>3 DEF RightIs
<1>4. Painted(f, f, n, {}, u)
  BY PaintedNot
<1>5. /\ \A j \in L : d <= j /\ j < 2 * dst
      /\ \A j \in M : 2 * dst <= j /\ j < 2 * dc
      /\ \A j \in R : 2 * dc <= j /\ j < d + w
      /\ (L \cup M) \cup R = W
      /\ (R \cup M) \cup L = W
      /\ L \subseteq Int /\ M \subseteq Int /\ R \subseteq Int
  <2>1. 2 * dst <= 2 * dc /\ d <= 2 * dst /\ 2 * dc <= d + w /\ 2 * dc + last = d + w
        /\ 2 * dst + 2 * c = 2 * dc
    OBVIOUS
  <2>2. L = d..2 * dst - 1 /\ M = 2 * dst..2 * dc - 1 /\ R = 2 * dc..d + w - 1
    BY <2>1
  <2>3. PICK e \in Nat : e = 2 * dst
    OBVIOUS
  <2>4. PICK g \in Nat : g = 2 * dc
    BY <1>0
  <2>5. d <= e /\ e <= g /\ g <= d + w
    BY <2>1, <2>3, <2>4
  <2>7. PICK t \in Nat : t = d + w - 1
    OBVIOUS
  <2>6. L = d..e - 1 /\ M = e..g - 1 /\ R = g..t /\ W = d..t
    BY <2>2, <2>3, <2>4, <2>7
  <2>11. d \in Nat /\ d <= e /\ e <= g /\ g <= t + 1 /\ d + w = t + 1
    BY <2>5, <2>7
  <2> HIDE DEF L, M, R, Parts
  <2>8. L \cup M = d..g - 1 /\ R \cup M = e..t
    BY <2>6, <2>11, Segments
  <2>9. (L \cup M) \cup R = W
    BY <2>6, <2>8, <2>11, Segments
  <2>10. (R \cup M) \cup L = W
    BY <2>6, <2>8, <2>11, Segments
  <2> QED BY <2>3, <2>4, <2>6, <2>7, <2>9, <2>10, <2>11
<1>6. ASSUME d <= s \/ s + w <= d
      PROVE  Outcome(right, middle, left, f, n, W, u)
  <2> DEFINE g1 == left[f]
             g2 == middle[g1]
             g3 == right[g2]
  <2>1. Painted(g1, f, n, L, u)
    BY <1>1, <1>4
  <2>2. Painted(g2, g1, n, M, u)
    <3>1. \A j \in 2 * src..2 * src + 2 * c - 1 : j \notin L
      BY <1>6
    <3> HIDE DEF g1, L, M
    <3> QED BY <1>2, <2>1, <3>1
  <2>3. Painted(g2, f, n, L \cup M, u)
    <3> HIDE DEF g1, g2, L, M
    <3> QED BY <2>1, <2>2, PaintedTwice
  <2>4. Painted(g3, g2, n, R, u)
    <3>1. last = 1 => s + w - 1 \notin L \cup M
      BY <1>6
    <3> HIDE DEF g1, g2, L, M, R
    <3> QED BY <1>3, <2>3, <3>1
  <2>5. g1 \in Store(n) /\ g2 \in Store(n)
    BY <2>1, <2>3 DEF Painted
  <2> HIDE DEF g1, g2, g3, L, M, R
  <2>6. Painted(g3, f, n, W, u)
    BY <1>5, <2>3, <2>4, PaintedTwice
  <2> QED BY <2>5, <2>6 DEF g1, g2, g3, Outcome
<1>7. ASSUME s <= d \/ d + w <= s
      PROVE  Outcome(left, middle, right, f, n, W, u)
  <2> DEFINE g1 == right[f]
             g2 == middle[g1]
             g3 == left[g2]
  <2>1. Painted(g1, f, n, R, u)
    BY <1>3, <1>4
  <2>2. Painted(g2, g1, n, M, u)
    <3>1. \A j \in 2 * src..2 * src + 2 * c - 1 : j \notin R
      BY <1>7
    <3> HIDE DEF g1, R, M
    <3> QED BY <1>2, <2>1, <3>1
  <2>3. Painted(g2, f, n, R \cup M, u)
    <3> HIDE DEF g1, g2, R, M
    <3> QED BY <2>1, <2>2, PaintedTwice
  <2>6. g1 \in Store(n) /\ g2 \in Store(n)
    BY <2>1, <2>3 DEF Painted
  <2>4. CASE first = 1
    <3>1. s \notin R \cup M
      BY <1>7, <2>4
    <3> HIDE DEF g1, g2, g3, L, M, R
    <3>2. Painted(left[g2], g2, n, L, u)
      BY <1>1, <2>3, <3>1
    <3>3. Painted(g3, f, n, W, u)
      BY <1>5, <2>3, <3>2, PaintedTwice DEF g3
    <3> QED BY <2>6, <3>3 DEF g1, g2, g3, Outcome
  <2>5. CASE first = 0
    <3>1. R \cup M = W
      <4>1. L = {}
        BY <2>5
      <4> HIDE DEF L, M, R
      <4> QED BY <1>5, <4>1
    <3>2. g2 \in Store(n)
      BY <2>3 DEF Painted
    <3> HIDE DEF g1, g2, L, M, R
    <3>4. first # 1
      BY <2>5
    <3>5. left[g2] = IF first = 1 THEN SetLow(g2, dst - 1, g2[src - 1].lo) ELSE g2
      BY <3>2 DEF LeftIs
    <3>3. left[g2] = g2
      BY <3>4, <3>5
    <3> QED BY <2>3, <2>6, <3>1, <3>3 DEF g1, g2, Outcome
  <2> QED BY <2>4, <2>5
<1> QED BY <1>6, <1>7

\* A row of a copy within a frame, from the byte src to the byte dst.
CopiedRow(f, first, last, c, src, dst, x, nx) ==
  LET Left(g) == IF first = 1 THEN SetLow(g, dst - 1, g[src - 1].lo) ELSE g
      Middle(g) == CopyBytes(g, dst, g, src, c)
      Right(g) == IF last = 1 THEN SetHigh(g, dst + c, g[src + c].hi) ELSE g
  IN IF nx > x THEN Left(Middle(Right(f))) ELSE Right(Middle(Left(f)))

LEMMA CopiedRowChanges ==
  ASSUME NEW f \in Store(Size), NEW x \in Nat, NEW nx \in Nat, NEW w \in Nat \ {0},
         x + w <= VirtX, nx + w <= VirtX, x % 2 = nx % 2,
         NEW sy \in 0..VirtY - 1, NEW dy \in 0..VirtY - 1,
         NEW v, \A p \in Span(nx, dy, w) : v[p] = At(f, <<p[1] - nx + x, sy>>),
         NEW first, first = x % 2, NEW last, last = (x + w) % 2,
         NEW c, c = (w - first - last) \div 2,
         NEW src, src = Address(x, sy) + first, NEW dst, dst = Address(nx, dy) + first
  PROVE  Changed(CopiedRow(f, first, last, c, src, dst, x, nx), f, Span(nx, dy, w), v)
<1> DEFINE Left(g) == IF first = 1 THEN SetLow(g, dst - 1, g[src - 1].lo) ELSE g
           Middle(g) == CopyBytes(g, dst, g, src, c)
           Right(g) == IF last = 1 THEN SetHigh(g, dst + c, g[src + c].hi) ELSE g
<1>1. PICK rs : rs = sy * Stride
  OBVIOUS
<1>2. PICK rd : rd = dy * Stride
  OBVIOUS
<1>3. /\ rs \in Nat /\ rs + Stride <= Size /\ rd \in Nat /\ rd + Stride <= Size
      /\ (sy < dy => rs + Stride <= rd) /\ (dy < sy => rd + Stride <= rs) /\ (sy = dy => rs = rd)
      /\ Stride \in Nat /\ VirtX <= 2 * Stride /\ Size \in Nat /\ VirtX \in Nat
      /\ (sy = dy \/ sy < dy \/ dy < sy)
  <2>1. rs \in Nat /\ rs + Stride <= Size /\ (sy < dy => rs + Stride <= rd)
    BY <1>1, <1>2, Rows
  <2>2. rd \in Nat /\ rd + Stride <= Size /\ (dy < sy => rd + Stride <= rs)
    BY <1>1, <1>2, Rows
  <2>3. sy = dy => rs = rd
    BY <1>1, <1>2
  <2>4. sy = dy \/ sy < dy \/ dy < sy
    OBVIOUS
  <2> QED BY <2>1, <2>2, <2>3, <2>4, Strides, SizeAssumption
<1>4. /\ first \in {0, 1} /\ last \in {0, 1} /\ c \in Nat /\ w = first + 2 * c + last
      /\ src \in Nat /\ dst \in Nat
      /\ 2 * src = 2 * rs + x + first /\ 2 * dst = 2 * rd + nx + first
  <2>1. /\ first \in {0, 1} /\ x = 2 * (x \div 2) + first /\ x \div 2 \in Nat
        /\ nx = 2 * (nx \div 2) + first /\ nx \div 2 \in Nat
    BY Halves
  <2>2. last \in {0, 1} /\ c \in Nat /\ w = first + 2 * c + last
    BY <2>1
  <2>3. src = rs + x \div 2 + first /\ dst = rd + nx \div 2 + first
    BY <1>1, <1>2 DEF Address
  <2>4. PICK hx \in Nat : hx = x \div 2
    BY <2>1
  <2>5. PICK hn \in Nat : hn = nx \div 2
    BY <2>1
  <2>6. x = 2 * hx + first /\ nx = 2 * hn + first /\ src = rs + hx + first /\ dst = rd + hn + first
    BY <2>1, <2>3, <2>4, <2>5
  <2>7. /\ src \in Nat /\ dst \in Nat
        /\ 2 * src = 2 * rs + x + first /\ 2 * dst = 2 * rd + nx + first
    BY <1>3, <2>1, <2>6
  <2> QED BY <2>1, <2>2, <2>7
<1> DEFINE S == Store(Size)
           s == 2 * rs + x
           d == 2 * rd + nx
           u == [j \in Int |-> Nibble(f, s + (j - d))]
           left == [g \in S |-> Left(g)]
           middle == [g \in S |-> Middle(g)]
           right == [g \in S |-> Right(g)]
<1>5. /\ \A g \in S : left[g] = Left(g)
      /\ \A g \in S : middle[g] = Middle(g)
      /\ \A g \in S : right[g] = Right(g)
  OBVIOUS
<1>6. s \in Nat /\ d \in Nat /\ s + w <= 2 * Size /\ d + w <= 2 * Size
  BY <1>3
<1>7. Taken(u, d, w, f, s)
  <2> HIDE DEF s, d
  <2> QED BY <1>6 DEF Taken
<1>8. /\ nx > x => s <= d \/ d + w <= s
      /\ ~(nx > x) => d <= s \/ s + w <= d
  BY <1>3
<1>9. f \in S
  OBVIOUS
<1>10. 2 * src = s + first /\ 2 * dst = d + first
  BY <1>4
<1>16. PICK sc : sc = src + c
  OBVIOUS
<1>17. PICK dc : dc = dst + c
  OBVIOUS
<1>18. PICK W : W = d..d + w - 1
  OBVIOUS
<1>15. /\ LeftIs(left, Size, first, src, dst)
       /\ MiddleIs(middle, Size, src, dst, c)
       /\ RightIs(right, Size, last, sc, dc)
  BY <1>16, <1>17 DEF LeftIs, MiddleIs, RightIs
<1> HIDE DEF left, middle, right, u, s, d, Left, Middle, Right, S
<1>11. /\ d <= s \/ s + w <= d => Outcome(right, middle, left, f, Size, W, u)
       /\ s <= d \/ d + w <= s => Outcome(left, middle, right, f, Size, W, u)
  <2>1. Parts(Size, s, d, w, first, last, c, src, dst, sc, dc, W)
    BY <1>3, <1>4, <1>6, <1>10, <1>16, <1>17, <1>18 DEF Parts
  <2> QED BY <1>3, <1>7, <1>15, <2>1, CopiedLinePaints
<1> DEFINE o == IF nx > x THEN Left(Middle(Right(f))) ELSE Right(Middle(Left(f)))
<1>12. Painted(o, f, Size, W, u)
  <2>1. CASE nx > x
    <3>0. Outcome(left, middle, right, f, Size, W, u)
      BY <1>8, <1>11, <2>1
    <3>1. right[f] \in S /\ middle[right[f]] \in S
      BY <3>0 DEF Outcome, S
    <3>2. left[middle[right[f]]] = Left(Middle(Right(f)))
      BY <1>5, <1>9, <3>1
    <3> QED BY <2>1, <3>0, <3>2 DEF Outcome
  <2>2. CASE ~(nx > x)
    <3>0. Outcome(right, middle, left, f, Size, W, u)
      BY <1>8, <1>11, <2>2
    <3>1. left[f] \in S /\ middle[left[f]] \in S
      BY <3>0 DEF Outcome, S
    <3>2. right[middle[left[f]]] = Right(Middle(Left(f)))
      BY <1>5, <1>9, <3>1
    <3> QED BY <2>2, <3>0, <3>2 DEF Outcome
  <2> QED BY <2>1, <2>2
<1>13. ASSUME NEW p \in Span(nx, dy, w) PROVE v[p] = u[2 * rd + p[1]]
  <2>1. PICK z \in Nat : z = p[1] /\ nx <= z /\ z < nx + w
    BY <1>3 DEF Span, Screen!Pixels
  <2>2. v[p] = At(f, <<z - nx + x, sy>>)
    BY <2>1
  <2>3. At(f, <<z - nx + x, sy>>) = Nibble(f, 2 * sy * Stride + (z - nx + x))
    BY DEF At
  <2>4. 2 * sy * Stride = 2 * rs
    BY <1>1, Rows
  <2>5. PICK j \in Int : j = 2 * rd + z
    BY <1>3
  <2>6. u[j] = Nibble(f, s + (j - d))
    BY DEF u
  <2>7. s + (j - d) = 2 * rs + (z - nx + x)
    BY <1>3, <2>5 DEF s, d
  <2> QED BY <2>1, <2>2, <2>3, <2>4, <2>5, <2>6, <2>7
<1> HIDE DEF o
<1>14. Changed(o, f, Span(nx, dy, w), v)
  <2>1. Painted(o, f, Size, 2 * rd + nx..2 * rd + nx + w - 1, u)
    BY <1>12, <1>18 DEF d
  <2>2. w \in Int /\ \A p \in Span(nx, dy, w) : v[p] = u[2 * rd + p[1]]
    BY <1>13
  <2> QED BY <1>2, <2>1, <2>2, LineChanges, ZenonT(60)
<1> QED BY <1>14 DEF o, Left, Middle, Right, CopiedRow

-----------------------------------------------------------------------------
\* The row z of pixels of g is that of m.
Intact(g, m, z) == \A q \in Screen!Pixels : q[2] = z => At(g, q) = At(m, q)

\* Each round of a loop changes the row of the block that is copied then, if
\* the row it is copied from, among those from y, is still intact.
CopiesLines(a, m, n, y, w, nx, ny, v) ==
  \A j \in 1..n :
    /\ a[j - 1] \in Store(Size)
    /\ Intact(a[j - 1], m, y + Row(n, ny, y, j - 1))
    => Changed(a[j], a[j - 1], Span(nx, ny + Row(n, ny, y, j - 1), w), v)

\* In the order of Row no row is read after it was written.
LEMMA BlockCopied ==
  ASSUME NEW n \in Nat, NEW m \in Store(Size), NEW y \in Int, NEW w \in Int,
         NEW nx \in Int, NEW ny \in Int, NEW v,
         NEW a, a[0] = m, CopiesLines(a, m, n, y, w, nx, ny, v)
  PROVE  Changed(a[n], m, Block(nx, ny, w, n), v)
<1> DEFINE Top(i) == IF ny > y THEN ny + (n - i) ELSE ny
           T == {i \in 0..n : Changed(a[i], m, Block(nx, Top(i), w, i), v)}
<1>1. \A p \in Screen!Pixels : p[1] \in Int /\ p[2] \in Int
  BY SizeAssumption DEF Screen!Pixels
<1>2. 0 \in T
  <2>1. Block(nx, Top(0), w, 0) = {}
    BY <1>1 DEF Block
  <2>2. Changed(a[0], m, Block(nx, Top(0), w, 0), v)
    BY <2>1, ChangedNot
  <2> QED BY <2>2
<1>3. ASSUME NEW i \in 0..n - 1, i \in T PROVE i + 1 \in T
  <2>1. PICK r \in Int : r = Row(n, ny, y, i)
    <3> HIDE DEF T
    <3>1. Row(n, ny, y, i) \in Int
      BY DEF Row
    <3> QED BY <3>1
  <2> DEFINE D == Block(nx, Top(i), w, i)
             E == Span(nx, ny + r, w)
             F == Block(nx, Top(i + 1), w, i + 1)
  <2>2. Changed(a[i], m, D, v) /\ a[i] \in Store(Size)
    BY <1>3 DEF Changed
  <2>3. F = D \cup E
    BY <1>1, <2>1 DEF Block, Span, Row
  <2>4. Intact(a[i], m, y + r)
    <3>1. ASSUME NEW q \in D PROVE q[2] # y + r
      BY <1>1, <2>1, <3>1 DEF Block, Row
    <3> QED BY <2>2, <3>1 DEF Changed, Intact
  <2>5. Changed(a[i + 1], a[i], E, v)
    <3>1. i + 1 \in 1..n /\ i + 1 - 1 = i
      OBVIOUS
    <3> QED BY <2>1, <2>2, <2>4, <3>1 DEF CopiesLines
  <2>6. Changed(a[i + 1], m, F, v)
    <3> HIDE DEF D, E, F
    <3> QED BY <2>2, <2>3, <2>5, ChangedTwice
  <2> QED BY <2>6
<1>4. n \in T
  <2> HIDE DEF T
  <2> QED BY <1>2, <1>3, Climb
<1>5. Block(nx, Top(n), w, n) = Block(nx, ny, w, n)
  OBVIOUS
<1> QED BY <1>4, <1>5

LEMMA ChangedLike ==
  ASSUME NEW m, NEW o, NEW D, NEW u, Changed(o, m, D, u), NEW v, \A p \in D : v[p] = u[p]
  PROVE  Changed(o, m, D, v)
BY DEF Changed

\* The rows of a copy.
LEMMA RowIs ==
  ASSUME NEW h \in Nat, NEW i \in 0..h - 1, NEW y \in Nat, NEW ny \in Nat,
         y + h <= VirtY, ny + h <= VirtY
  PROVE  /\ Row(h, ny, y, i) \in 0..h - 1
         /\ y + Row(h, ny, y, i) \in 0..VirtY - 1 /\ ny + Row(h, ny, y, i) \in 0..VirtY - 1
<1>1. Row(h, ny, y, i) \in 0..h - 1
  BY DEF Row
<1> QED BY <1>1, SizeAssumption

\* A row of source pixels that is intact.
LEMMA IntactRow ==
  ASSUME NEW f, NEW g, NEW x \in Nat, NEW nx \in Nat, NEW w \in Nat, x + w <= VirtX,
         NEW sy \in 0..VirtY - 1, NEW dy, Intact(f, g, sy), NEW p \in Span(nx, dy, w)
  PROVE  At(f, <<p[1] - nx + x, sy>>) = At(g, <<p[1] - nx + x, sy>>)
<1>1. nx <= p[1] /\ p[1] < nx + w /\ p[1] \in Int
  BY SizeAssumption DEF Span, Screen!Pixels
<1>2. PICK q : q = <<p[1] - nx + x, sy>>
  OBVIOUS
<1>3. q \in Screen!Pixels /\ q[2] = sy
  BY <1>1, <1>2, SizeAssumption DEF Screen!Pixels
<1> QED BY <1>2, <1>3 DEF Intact

\* Source and destination start in the same half of a byte.
LEMMA CopyAlignedChanges ==
  ASSUME NEW m \in Store(Size), NEW x \in Nat, NEW y \in Nat, NEW w \in Nat \ {0}, NEW h \in Nat,
         NEW nx \in Nat, NEW ny \in Nat, x % 2 = nx % 2,
         x + w <= VirtX, y + h <= VirtY, nx + w <= VirtX, ny + h <= VirtY,
         NEW v, \A p \in Block(nx, ny, w, h) : v[p] = At(m, <<p[1] - nx + x, p[2] - ny + y>>)
  PROVE  Changed(CopyAligned(m, x, y, w, h, nx, ny), m, Block(nx, ny, w, h), v)
<1> DEFINE n == h
           S == Store(Size)
           first == x % 2
           last == (x + w) % 2
           c == (w - first - last) \div 2
           src(r) == Address(x, y + r) + first
           dst(r) == Address(nx, ny + r) + first
           left(f, r) == IF first = 1 THEN SetLow(f, dst(r) - 1, f[src(r) - 1].lo) ELSE f
           right(f, r) == IF last = 1 THEN SetHigh(f, dst(r) + c, f[src(r) + c].hi) ELSE f
           middle(f, r) == CopyBytes(f, dst(r), f, src(r), c)
           row(f, r) == IF nx > x THEN left(middle(right(f, r), r), r)
                                  ELSE right(middle(left(f, r), r), r)
           Step(s, i) == row(s, Row(n, ny, y, i))
<1>3. n \in Nat
  OBVIOUS
<1>4. ASSUME NEW s \in S, NEW i \in 0..n - 1
      PROVE  /\ Intact(s, m, y + Row(n, ny, y, i)) =>
                  Changed(Step(s, i), s, Span(nx, ny + Row(n, ny, y, i), w), v)
             /\ Step(s, i) \in S
  <2>1. PICK r : r = Row(n, ny, y, i)
    OBVIOUS
  <2>2. PICK sy \in 0..VirtY - 1 : sy = y + r
    BY <2>1, RowIs
  <2>3. PICK dy \in 0..VirtY - 1 : dy = ny + r
    BY <2>1, RowIs
  <2>4. PICK fi : fi = first
    OBVIOUS
  <2>5. PICK la : la = last
    OBVIOUS
  <2>6. PICK ci : ci = (w - fi - la) \div 2
    OBVIOUS
  <2>7. PICK a : a = Address(x, sy) + fi
    OBVIOUS
  <2>8. PICK b : b = Address(nx, dy) + fi
    OBVIOUS
  <2> DEFINE o == CopiedRow(s, fi, la, ci, a, b, x, nx)
             u == [p \in Screen!Pixels |-> At(s, <<p[1] - nx + x, sy>>)]
  <2>9. Step(s, i) = o
    BY <2>1, <2>2, <2>3, <2>4, <2>5, <2>6, <2>7, <2>8 DEF CopiedRow
  <2>10. \A p \in Span(nx, dy, w) : u[p] = At(s, <<p[1] - nx + x, sy>>)
    BY DEF Span
  <2> HIDE DEF u
  <2>15. fi = x % 2 /\ la = (x + w) % 2
    BY <2>4, <2>5
  <2> HIDE DEF first, last, c, src, dst, left, middle, right, row, Step
  <2>11. Changed(o, s, Span(nx, dy, w), u)
    BY <2>6, <2>7, <2>8, <2>10, <2>15, CopiedRowChanges
  <2> HIDE DEF o
  <2>12. ASSUME NEW p \in Span(nx, dy, w) PROVE v[p] = At(m, <<p[1] - nx + x, sy>>)
    <3>2. p \in Screen!Pixels /\ p[2] = dy /\ nx <= p[1] /\ p[1] < nx + w
      BY DEF Span
    <3>3. r \in 0..h - 1 /\ dy = ny + r /\ sy = y + r
      BY <2>1, <2>2, <2>3, RowIs
    <3>4. p \in Block(nx, ny, w, h)
      BY <3>2, <3>3 DEF Block
    <3>1. p \in Block(nx, ny, w, h) /\ p[2] - ny + y = sy
      BY <3>2, <3>3, <3>4
    <3> QED BY <3>1
  <2>13. ASSUME Intact(s, m, sy) PROVE Changed(o, s, Span(nx, dy, w), v)
    <3>1. ASSUME NEW p \in Span(nx, dy, w) PROVE v[p] = u[p]
      <4>0. w \in Nat /\ x + w <= VirtX
        OBVIOUS
      <4> HIDE DEF S, n
      <4>1. At(s, <<p[1] - nx + x, sy>>) = At(m, <<p[1] - nx + x, sy>>)
        BY <2>13, <4>0, IntactRow
      <4> QED BY <2>10, <2>12, <4>1
    <3> QED BY <2>11, <3>1, ChangedLike
  <2>14. o \in S
    BY <2>11 DEF Changed
  <2> QED BY <2>1, <2>2, <2>3, <2>9, <2>13, <2>14
<1> DEFINE Loop(g) == g = [i \in 0..n |-> IF i = 0 THEN m ELSE Step(g[i - 1], i - 1)]
           a == CHOOSE g : Loop(g)
<1>5. CopyAligned(m, x, y, w, h, nx, ny) = a[n]
  BY DEF CopyAligned, Repeat
<1> HIDE DEF n, Step
<1>6. \E g : Loop(g)
  <2> DEFINE F == [z \in S \X (0..n - 1) |-> Step(z[1], z[2])]
  <2>1. \A i \in 0..n - 1, s \in S : F[<<s, i>>] = Step(s, i)
    OBVIOUS
  <2>2. (\A i \in 0..n - 1, s \in S : F[<<s, i>>] \in S) /\ m \in S
    BY <1>4, <2>1
  <2> HIDE DEF F, S
  <2>3. PICK g : Goes(g, m, n, F) /\ \A i \in 0..n : g[i] \in S
    BY <1>3, <2>2, Repeats
  <2>4. ASSUME NEW i \in 0..n, i # 0 PROVE F[<<g[i - 1], i - 1>>] = Step(g[i - 1], i - 1)
    <3>1. i - 1 \in 0..n - 1 /\ g[i - 1] \in S
      BY <1>3, <2>3, <2>4
    <3> QED BY <2>1, <3>1
  <2>5. Loop(g)
    BY <2>3, <2>4 DEF Goes
  <2> QED BY <2>5
<1>7. Loop(a)
  <2> HIDE DEF Loop
  <2> QED BY <1>6
<1> HIDE DEF a
<1>8. \A j \in 0..n : a[j] = IF j = 0 THEN m ELSE Step(a[j - 1], j - 1)
  BY <1>7
<1>9. ASSUME NEW j \in 1..n, a[j - 1] \in S, Intact(a[j - 1], m, y + Row(n, ny, y, j - 1))
      PROVE  Changed(a[j], a[j - 1], Span(nx, ny + Row(n, ny, y, j - 1), w), v)
  <2>1. j \in 0..n /\ j # 0 /\ j - 1 \in 0..n - 1
    BY <1>3
  <2>2. a[j] = Step(a[j - 1], j - 1)
    BY <1>8, <2>1
  <2> QED BY <1>4, <1>9, <2>1, <2>2
<1>10. Changed(a[n], m, Block(nx, ny, w, n), v)
  <2>1. a[0] = m
    BY <1>3, <1>8
  <2>2. CopiesLines(a, m, n, y, w, nx, ny, v)
    BY <1>9 DEF CopiesLines
  <2> QED BY <1>3, <2>1, <2>2, BlockCopied
<1> QED BY <1>5, <1>10 DEF n

\* A row that is fetched into a buffer and put.
LEMMA CarriedRowChanges ==
  ASSUME NEW m \in Store(Size), NEW f \in Store(Size), NEW k \in Clips,
         NEW x \in Nat, NEW nx \in Nat, NEW w \in Nat, x + w <= VirtX,
         k.left <= nx, nx + w <= k.right,
         NEW sy \in 0..VirtY - 1, NEW dy \in Nat, k.top <= dy, dy < k.bottom,
         NEW b \in Store(RowBytes(w)),
         NEW v, \A p \in Span(nx, dy, w) : v[p] = At(f, <<p[1] - nx + x, sy>>)
  PROVE  Changed(PutHLine(m, k, nx, dy, w, GetHLine(f, x, sy, w, b, 0), 0),
                 m, Span(nx, dy, w), v)
<1>1. PICK kb \in Nat : kb = RowBytes(w) /\ w <= 2 * kb
  BY RowBytesIs
<1>8. PICK start \in Nat : start = 0
  OBVIOUS
<1> DEFINE ix == [p \in Screen!Pixels |-> p[1] - x]
           q == GetHLine(f, x, sy, w, b, start)
<1>2. \A p \in Block(x, sy, w, 1) : ix[p] = 2 * start + (p[1] - x)
  <2>1. \A p \in Block(x, sy, w, 1) : p \in Screen!Pixels /\ p[1] \in Int
    BY SizeAssumption DEF Block, Screen!Pixels
  <2> QED BY <1>8, <2>1
<1> HIDE DEF ix
<1>3. Fetched(q, b, kb, Block(x, sy, w, 1), ix, f)
  <2>1. b \in Store(kb) /\ 2 * start + w <= 2 * kb /\ sy \in Int /\ x \in Int
    BY <1>1, <1>8, SizeAssumption
  <2> QED BY <1>2, <2>1, GetHLineFetches
<1>4. q \in Store(kb)
  BY <1>3 DEF Fetched
<1> HIDE DEF q
<1>5. Inside(Box(nx, dy, w, 1), k) = Span(nx, dy, w)
  <2>1. k.left \in Int /\ k.right \in Int /\ k.top \in Int /\ k.bottom \in Int
    BY ClipType
  <2>2. \A p \in Screen!Pixels : p[1] \in Int /\ p[2] \in Int
    BY SizeAssumption DEF Screen!Pixels
  <2> QED BY <2>1, <2>2 DEF Inside, Span, Screen!InBox, Screen!InClip, Box
<1>6. ASSUME NEW p \in Span(nx, dy, w) PROVE v[p] = Nibble(q, 2 * start + (p[1] - nx))
  <2>1. PICK z \in Int : z = p[1] /\ nx <= z /\ z < nx + w
    BY SizeAssumption DEF Span, Screen!Pixels
  <2>2. PICK s : s = <<z - nx + x, sy>>
    OBVIOUS
  <2>3. s \in Block(x, sy, w, 1) /\ s[1] - x = z - nx
    BY <2>1, <2>2, SizeAssumption DEF Block, Screen!Pixels
  <2>4. ix[s] = z - nx
    BY <1>2, <1>8, <2>1, <2>3
  <2>5. Nibble(q, z - nx) = At(f, s)
    BY <1>3, <2>3, <2>4 DEF Fetched
  <2>6. 2 * start + (p[1] - nx) = z - nx
    BY <1>8, <2>1
  <2> QED BY <2>1, <2>2, <2>5, <2>6
<1>7. Changed(PutHLine(m, k, nx, dy, w, q, start), m, Inside(Box(nx, dy, w, 1), k), v)
  <2>1. /\ nx \in Int /\ dy \in Int /\ w \in Nat /\ 2 * start + w <= 2 * kb
        /\ \A p \in Inside(Box(nx, dy, w, 1), k) : v[p] = Nibble(q, 2 * start + (p[1] - nx))
    BY <1>1, <1>5, <1>6, <1>8
  <2> QED BY <1>1, <1>4, <2>1, PutHLineChanges
<1> QED BY <1>5, <1>7, <1>8 DEF q

\* Source and destination start in different halves of a byte.
LEMMA CopyByRowsChanges ==
  ASSUME NEW rd \in Frames, NEW wr \in Frames, mem[rd] \in Store(Size), mem[wr] \in Store(Size),
         NEW k \in Clips,
         NEW x \in Nat, NEW y \in Nat, NEW w \in Nat, NEW h \in Nat, NEW nx \in Nat, NEW ny \in Nat,
         x + w <= VirtX, y + h <= VirtY, ny + h <= VirtY,
         k.left <= nx, nx + w <= k.right, k.top <= ny, ny + h <= k.bottom,
         NEW v, \A p \in Block(nx, ny, w, h) : v[p] = At(mem[rd], <<p[1] - nx + x, p[2] - ny + y>>)
  PROVE  Changed(CopyByRows(rd, wr, k, x, y, w, h, nx, ny), mem[wr], Block(nx, ny, w, h), v)
<1> DEFINE n == h
           m == mem[wr]
           S == Store(Size)
           fresh == [a \in 0..RowBytes(w) - 1 |-> [hi |-> Leftover, lo |-> Leftover]]
           from(f) == IF rd = wr THEN f ELSE mem[rd]
           row(f, r) == PutHLine(f, k, nx, ny + r, w,
                                 GetHLine(from(f), x, y + r, w, fresh, 0), 0)
           Step(s, i) == row(s, Row(n, ny, y, i))
<1>3. n \in Nat
  OBVIOUS
<1>1. fresh \in Store(RowBytes(w))
  BY DEF Store, Cell, Leftover
<1>4. ASSUME NEW s \in S, NEW i \in 0..n - 1
      PROVE  /\ Intact(s, m, y + Row(n, ny, y, i)) =>
                  Changed(Step(s, i), s, Span(nx, ny + Row(n, ny, y, i), w), v)
             /\ Step(s, i) \in S
  <2>1. PICK r : r = Row(n, ny, y, i)
    OBVIOUS
  <2>2. PICK sy \in 0..VirtY - 1 : sy = y + r
    BY <2>1, RowIs
  <2>3. PICK dy \in 0..VirtY - 1 : dy = ny + r
    BY <2>1, RowIs
  <2>4. PICK f : f = from(s)
    OBVIOUS
  <2>5. PICK b : b = fresh
    OBVIOUS
  <2>6. r \in 0..h - 1 /\ k.top <= dy /\ dy < k.bottom /\ dy \in Nat
    <3>1. r \in 0..h - 1 /\ dy = ny + r
      BY <2>1, <2>3, RowIs
    <3>2. k.top \in Int /\ k.bottom \in Int
      BY ClipType
    <3> QED BY <3>1, <3>2
  <2> DEFINE o == PutHLine(s, k, nx, dy, w, GetHLine(f, x, sy, w, b, 0), 0)
             u == [p \in Screen!Pixels |-> At(f, <<p[1] - nx + x, sy>>)]
  <2>9. Step(s, i) = o
    BY <2>1, <2>2, <2>3, <2>4, <2>5
  <2>10. \A p \in Span(nx, dy, w) : u[p] = At(f, <<p[1] - nx + x, sy>>)
    BY DEF Span
  <2>7. f \in Store(Size) /\ b \in Store(RowBytes(w))
    BY <1>1, <2>4, <2>5
  <2> HIDE DEF u, fresh, from, row, Step
  <2>11. Changed(o, s, Span(nx, dy, w), u)
    BY <2>6, <2>7, <2>10, CarriedRowChanges
  <2> HIDE DEF o
  <2>15. PICK g : g = mem[rd]
    OBVIOUS
  <2>12. ASSUME NEW p \in Span(nx, dy, w) PROVE v[p] = At(g, <<p[1] - nx + x, sy>>)
    <3>2. p \in Screen!Pixels /\ p[2] = dy /\ nx <= p[1] /\ p[1] < nx + w
      BY DEF Span
    <3>4. p \in Block(nx, ny, w, h)
      BY <2>3, <2>6, <3>2 DEF Block
    <3>1. p[2] - ny + y = sy
      BY <2>2, <2>3, <2>6, <3>2
    <3> QED BY <2>15, <3>1, <3>4
  <2>8. Intact(s, m, sy) => Intact(f, g, sy)
    BY <2>4, <2>15 DEF Intact, from
  <2>13. ASSUME Intact(f, g, sy) PROVE Changed(o, s, Span(nx, dy, w), v)
    <3>1. ASSUME NEW p \in Span(nx, dy, w) PROVE v[p] = u[p]
      <4>1. At(f, <<p[1] - nx + x, sy>>) = At(g, <<p[1] - nx + x, sy>>)
        BY <2>13, IntactRow
      <4> QED BY <2>10, <2>12, <4>1
    <3> QED BY <2>11, <3>1, ChangedLike
  <2>14. o \in S
    BY <2>11 DEF Changed
  <2> QED BY <2>1, <2>2, <2>3, <2>8, <2>9, <2>13, <2>14
<1> DEFINE Loop(g) == g = [i \in 0..n |-> IF i = 0 THEN m ELSE Step(g[i - 1], i - 1)]
           a == CHOOSE g : Loop(g)
<1>5. CopyByRows(rd, wr, k, x, y, w, h, nx, ny) = a[n]
  BY DEF CopyByRows, Repeat
<1> HIDE DEF n, Step
<1>6. \E g : Loop(g)
  <2> DEFINE F == [z \in S \X (0..n - 1) |-> Step(z[1], z[2])]
  <2>1. \A i \in 0..n - 1, s \in S : F[<<s, i>>] = Step(s, i)
    OBVIOUS
  <2>2. (\A i \in 0..n - 1, s \in S : F[<<s, i>>] \in S) /\ m \in S
    BY <1>4, <2>1
  <2> HIDE DEF F, S
  <2>3. PICK g : Goes(g, m, n, F) /\ \A i \in 0..n : g[i] \in S
    BY <1>3, <2>2, Repeats
  <2>4. ASSUME NEW i \in 0..n, i # 0 PROVE F[<<g[i - 1], i - 1>>] = Step(g[i - 1], i - 1)
    <3>1. i - 1 \in 0..n - 1 /\ g[i - 1] \in S
      BY <1>3, <2>3, <2>4
    <3> QED BY <2>1, <3>1
  <2>5. Loop(g)
    BY <2>3, <2>4 DEF Goes
  <2> QED BY <2>5
<1>7. Loop(a)
  <2> HIDE DEF Loop
  <2> QED BY <1>6
<1> HIDE DEF a
<1>8. \A j \in 0..n : a[j] = IF j = 0 THEN m ELSE Step(a[j - 1], j - 1)
  BY <1>7
<1>9. ASSUME NEW j \in 1..n, a[j - 1] \in S, Intact(a[j - 1], m, y + Row(n, ny, y, j - 1))
      PROVE  Changed(a[j], a[j - 1], Span(nx, ny + Row(n, ny, y, j - 1), w), v)
  <2>1. j \in 0..n /\ j # 0 /\ j - 1 \in 0..n - 1
    BY <1>3
  <2>2. a[j] = Step(a[j - 1], j - 1)
    BY <1>8, <2>1
  <2> QED BY <1>4, <1>9, <2>1, <2>2
<1>10. Changed(a[n], m, Block(nx, ny, w, n), v)
  <2>1. a[0] = m
    BY <1>3, <1>8
  <2>2. CopiesLines(a, m, n, y, w, nx, ny, v)
    BY <1>9 DEF CopiesLines
  <2> HIDE DEF m
  <2> QED BY <1>3, <2>1, <2>2, BlockCopied DEF m
<1> QED BY <1>5, <1>10 DEF n, m

\* Where the pixel p of a box that is copied from x, y to tx, ty comes from,
\* the pixels that are copied, and the colours of the frame f they get.
Source(p, x, y, tx, ty) == <<p[1] - tx + x, p[2] - ty + y>>
Moved(x, y, w, h, tx, ty, k) ==
  {p \in Screen!Pixels :
     /\ Screen!InBox(Source(p, x, y, tx, ty), Box(x, y, w, h))
     /\ Source(p, x, y, tx, ty) \in Screen!Pixels
     /\ Screen!InClip(p, k)}
From(f, x, y, tx, ty) == [p \in Screen!Pixels |-> At(f, Source(p, x, y, tx, ty))]

\* What is copied is a block.
LEMMA MovedIs ==
  ASSUME NEW k \in Clips, NEW x \in Int, NEW y \in Int, NEW w \in Nat, NEW h \in Nat,
         NEW tx \in Int, NEW ty \in Int,
         NEW cx, CopyLeaves(cx, x, tx, w, k.left, k.right, VirtX),
         NEW cy, CopyLeaves(cy, y, ty, h, k.top, k.bottom, VirtY)
  PROVE  Moved(x, y, w, h, tx, ty, k) = Block(cx.pos, cy.pos, cx.len, cy.len)
<1>1. \A q \in Int : cx.pos <= q /\ q < cx.pos + cx.len
                       <=> /\ k.left <= q /\ q < k.right /\ tx <= q /\ q < tx + w
                           /\ 0 <= q - tx + x /\ q - tx + x < VirtX
  BY DEF CopyLeaves
<1>2. \A q \in Int : cy.pos <= q /\ q < cy.pos + cy.len
                       <=> /\ k.top <= q /\ q < k.bottom /\ ty <= q /\ q < ty + h
                           /\ 0 <= q - ty + y /\ q - ty + y < VirtY
  BY DEF CopyLeaves
<1>3. ASSUME NEW p \in Screen!Pixels
      PROVE  p \in Moved(x, y, w, h, tx, ty, k) <=> p \in Block(cx.pos, cy.pos, cx.len, cy.len)
  <2>1. p[1] \in Int /\ p[2] \in Int
    BY SizeAssumption DEF Screen!Pixels
  <2>2. PICK i \in Int : i = p[1] - tx + x
    BY <2>1
  <2>3. PICK j \in Int : j = p[2] - ty + y
    BY <2>1
  <2>4. Source(p, x, y, tx, ty) = <<i, j>>
    BY <2>2, <2>3 DEF Source
  <2>5. Screen!InBox(<<i, j>>, Box(x, y, w, h))
          <=> x <= i /\ i < x + w /\ y <= j /\ j < y + h
    BY DEF Screen!InBox, Box
  <2>6. <<i, j>> \in Screen!Pixels <=> 0 <= i /\ i < VirtX /\ 0 <= j /\ j < VirtY
    BY SizeAssumption DEF Screen!Pixels
  <2>7. Screen!InClip(p, k) <=> k.left <= p[1] /\ p[1] < k.right /\ k.top <= p[2] /\ p[2] < k.bottom
    BY DEF Screen!InClip
  <2>8. p \in Moved(x, y, w, h, tx, ty, k)
          <=> /\ x <= i /\ i < x + w /\ y <= j /\ j < y + h
              /\ 0 <= i /\ i < VirtX /\ 0 <= j /\ j < VirtY
              /\ k.left <= p[1] /\ p[1] < k.right /\ k.top <= p[2] /\ p[2] < k.bottom
    BY <2>4, <2>5, <2>6, <2>7 DEF Moved
  <2>9. cx.pos <= p[1] /\ p[1] < cx.pos + cx.len
          <=> k.left <= p[1] /\ p[1] < k.right /\ x <= i /\ i < x + w /\ 0 <= i /\ i < VirtX
    BY <1>1, <2>1, <2>2
  <2>10. cy.pos <= p[2] /\ p[2] < cy.pos + cy.len
          <=> k.top <= p[2] /\ p[2] < k.bottom /\ y <= j /\ j < y + h /\ 0 <= j /\ j < VirtY
    BY <1>2, <2>1, <2>3
  <2> QED BY <2>8, <2>9, <2>10 DEF Block
<1> QED BY <1>3 DEF Moved, Block

\* Places in the same half of a byte are an even distance apart.
LEMMA SameHalf ==
  ASSUME NEW i \in Nat, NEW j \in Nat, i % 2 = j % 2
  PROVE  ~Odd(j - i)
BY DEF Odd

\* A copy changes what it is copied to to what the box holds, of the read
\* frame unless both frames differ and the places are an even distance apart.
LEMMA CopyBoxChanges ==
  ASSUME NEW rd \in Frames, NEW wr \in Frames, mem[rd] \in Store(Size), mem[wr] \in Store(Size),
         NEW k \in Clips,
         NEW x \in Int, NEW y \in Int, NEW w \in Nat, NEW h \in Nat, NEW tx \in Int, NEW ty \in Int
  PROVE  \E f \in {rd, wr} :
           /\ rd = wr \/ Odd(tx - x) => f = rd
           /\ Changed(CopyBox(rd, wr, k, Box(x, y, w, h), [x |-> tx, y |-> ty]), mem[wr],
                      Moved(x, y, w, h, tx, ty, k), From(mem[f], x, y, tx, ty))
<1>1. PICK cx : cx = CopyClipped(x, tx, w, k.left, k.right, VirtX)
  OBVIOUS
<1>2. PICK cy : cy = CopyClipped(y, ty, h, k.top, k.bottom, VirtY)
  OBVIOUS
<1>3. /\ k.left \in 0..VirtX /\ k.right \in 0..VirtX
      /\ k.top \in 0..VirtY /\ k.bottom \in 0..VirtY
      /\ VirtX \in Nat /\ VirtY \in Nat
  BY ClipType
<1>4. /\ CopyLeaves(cx, x, tx, w, k.left, k.right, VirtX)
      /\ CopyLeaves(cy, y, ty, h, k.top, k.bottom, VirtY)
  <2>1. k.left \in Int /\ k.right \in Int /\ k.top \in Int /\ k.bottom \in Int
    BY <1>3
  <2> QED BY <1>1, <1>2, <1>3, <2>1, CopyClippedIs
<1>5. Moved(x, y, w, h, tx, ty, k) = Block(cx.pos, cy.pos, cx.len, cy.len)
  BY <1>4, MovedIs
<1>6. /\ cx.pos \in Int /\ cx.src \in Int /\ cx.len \in Int /\ cx.pos - tx = cx.src - x
      /\ cy.pos \in Int /\ cy.src \in Int /\ cy.len \in Int /\ cy.pos - ty = cy.src - y
      /\ cx.len > 0 => /\ k.left <= cx.pos /\ cx.pos + cx.len <= k.right
                       /\ 0 <= cx.src /\ cx.src + cx.len <= VirtX
      /\ cy.len > 0 => /\ k.top <= cy.pos /\ cy.pos + cy.len <= k.bottom
                       /\ 0 <= cy.src /\ cy.src + cy.len <= VirtY
  BY <1>4 DEF CopyLeaves
<1> DEFINE o == CopyBox(rd, wr, k, Box(x, y, w, h), [x |-> tx, y |-> ty])
           D == Moved(x, y, w, h, tx, ty, k)
<1>7. CASE cx.len <= 0 \/ cy.len <= 0
  <2>1. D = {}
    BY <1>5, <1>6, <1>7, BlockEmpty
  <2>2. o = mem[wr]
    BY <1>1, <1>2, <1>7 DEF CopyBox, Box
  <2>3. Changed(mem[wr], mem[wr], D, From(mem[rd], x, y, tx, ty))
    BY <2>1, ChangedNot
  <2> QED BY <2>2, <2>3
<1>8. CASE ~(cx.len <= 0 \/ cy.len <= 0)
  <2>1. PICK sx \in Nat : sx = cx.src
    BY <1>6, <1>8
  <2>2. PICK sy \in Nat : sy = cy.src
    BY <1>6, <1>8
  <2>3. PICK nx \in Nat : nx = cx.pos
    BY <1>3, <1>6, <1>8
  <2>4. PICK ny \in Nat : ny = cy.pos
    BY <1>3, <1>6, <1>8
  <2>5. PICK lx \in Nat \ {0} : lx = cx.len
    BY <1>6, <1>8
  <2>6. PICK ly \in Nat \ {0} : ly = cy.len
    BY <1>6, <1>8
  <2>7. /\ sx + lx <= VirtX /\ sy + ly <= VirtY
        /\ k.left <= nx /\ nx + lx <= k.right /\ k.top <= ny /\ ny + ly <= k.bottom
        /\ nx + lx <= VirtX /\ ny + ly <= VirtY
        /\ nx - tx = sx - x /\ ny - ty = sy - y
    BY <1>3, <1>6, <1>8, <2>1, <2>2, <2>3, <2>4, <2>5, <2>6
  <2>8. D = Block(nx, ny, lx, ly)
    BY <1>5, <2>3, <2>4, <2>5, <2>6
  <2>9. ASSUME NEW f, NEW p \in Block(nx, ny, lx, ly)
        PROVE  From(f, x, y, tx, ty)[p] = At(f, <<p[1] - nx + sx, p[2] - ny + sy>>)
    <3>1. p \in Screen!Pixels /\ p[1] \in Int /\ p[2] \in Int
      BY SizeAssumption DEF Block, Screen!Pixels
    <3>2. p[1] - nx + sx = p[1] - tx + x /\ p[2] - ny + sy = p[2] - ty + y
      BY <2>7, <3>1
    <3>3. From(f, x, y, tx, ty)[p] = At(f, <<p[1] - tx + x, p[2] - ty + y>>)
      BY <3>1 DEF From, Source
    <3> QED BY <3>2, <3>3
  <2>10. CASE cx.src % 2 = cx.pos % 2
    <3>1. sx % 2 = nx % 2
      BY <2>1, <2>3, <2>10
    <3>2. o = CopyAligned(mem[wr], sx, sy, lx, ly, nx, ny)
      BY <1>1, <1>2, <1>8, <2>1, <2>2, <2>3, <2>4, <2>5, <2>6, <2>10 DEF CopyBox, Box
    <3>3. PICK m \in Store(Size) : m = mem[wr]
      OBVIOUS
    <3>4. PICK v : v = From(m, x, y, tx, ty)
      OBVIOUS
    <3>5. \A p \in Block(nx, ny, lx, ly) : v[p] = At(m, <<p[1] - nx + sx, p[2] - ny + sy>>)
      BY <2>9, <3>4
    <3>6. Changed(CopyAligned(m, sx, sy, lx, ly, nx, ny), m, Block(nx, ny, lx, ly), v)
      <4> HIDE DEF o, D
      <4> QED BY <2>7, <3>1, <3>5, CopyAlignedChanges
    <3>7. ~Odd(tx - x)
      <4>1. tx - x = nx - sx
        BY <2>7
      <4> QED BY <3>1, <4>1, SameHalf
    <3> QED BY <2>8, <3>2, <3>3, <3>4, <3>6, <3>7
  <2>11. CASE ~(cx.src % 2 = cx.pos % 2)
    <3>2. o = CopyByRows(rd, wr, k, sx, sy, lx, ly, nx, ny)
      BY <1>1, <1>2, <1>8, <2>1, <2>2, <2>3, <2>4, <2>5, <2>6, <2>11 DEF CopyBox, Box
    <3>4. PICK v : v = From(mem[rd], x, y, tx, ty)
      OBVIOUS
    <3>5. \A p \in Block(nx, ny, lx, ly) : v[p] = At(mem[rd], <<p[1] - nx + sx, p[2] - ny + sy>>)
      BY <2>9, <3>4
    <3>6. Changed(CopyByRows(rd, wr, k, sx, sy, lx, ly, nx, ny), mem[wr], Block(nx, ny, lx, ly), v)
      <4> HIDE DEF o, D
      <4> QED BY <2>7, <3>5, CopyByRowsChanges
    <3> QED BY <2>8, <3>2, <3>4, <3>6
  <2> QED BY <2>10, <2>11
<1> QED BY <1>7, <1>8

-----------------------------------------------------------------------------
(***************************************************************************)
(* Calls: what they do to the frames and to the buffer is what Canvas says *)
(* of the pixels.                                                          *)
(***************************************************************************)

Stored == mem \in [Frames -> Store(Size)] /\ buf \in Store(Bytes)

\* The step is one of Canvas, unless the application copies across frames
\* where the code does not look at the read frame.
Follows ==
  /\ Stored' /\ calls' = calls + 1
  /\ ~AlignedAcross => Screen!Next

\* The picture with the pixels at D of the frame wr replaced by those of v.
Repainted(wr, D, v) ==
  [Picture EXCEPT ![wr] =
     [p \in Screen!Pixels |-> IF p \in D THEN v[p] ELSE Picture[wr][p]]]

\* A call that changes the pixels at D of the frame wr.
LEMMA FrameChanges ==
  ASSUME Stored, NEW wr \in Frames, NEW o, NEW D, NEW v, Changed(o, mem[wr], D, v),
         mem' = [mem EXCEPT ![wr] = o], buf' = buf
  PROVE  /\ Stored'
         /\ Picture' = Repainted(wr, D, v)
         /\ Line' = Line
<1>1. Stored'
  BY DEF Stored, Changed
<1>2. Line' = Line
  BY DEF Line
<1>3. \A p \in Screen!Pixels : Picture[wr][p] = At(mem[wr], p)
  BY DEF Picture, At, Screen!Pixels
<1> DEFINE new == [p \in Screen!Pixels |-> IF p \in D THEN v[p] ELSE Picture[wr][p]]
<1>4. [p \in Screen!Pixels |-> At(o, p)] = new
  BY <1>3 DEF Changed
<1>5. mem'[wr] = o /\ \A f \in Frames : f # wr => mem'[f] = mem[f]
  BY DEF Stored
<1>6. /\ Picture = [f \in Frames |-> [p \in Screen!Pixels |-> At(mem[f], p)]]
      /\ Picture' = [f \in Frames |-> [p \in Screen!Pixels |-> At(mem'[f], p)]]
  BY DEF Picture, At, Screen!Pixels
<1>7. Picture' = [Picture EXCEPT ![wr] = new]
  <2> HIDE DEF new
  <2> QED BY <1>4, <1>5, <1>6
<1> QED BY <1>1, <1>2, <1>7 DEF Repainted

LEMMA DrawMaps ==
  ASSUME Stored, NEW k, NEW wr \in Frames, NEW b, NEW o, Draws(k, wr, b, o),
         \A v : (\A p \in Screen!Pixels : v[p] = Foreground) =>
                   Changed(o, mem[wr], Inside(b, k), v)
  PROVE  Follows
<1> DEFINE v == [p \in Screen!Pixels |-> Foreground]
           new == [p \in Screen!Pixels |-> IF p \in Inside(b, k) THEN v[p] ELSE Picture[wr][p]]
<1>1. mem' = [mem EXCEPT ![wr] = o] /\ buf' = buf
  BY DEF Draws
<1>2. Changed(o, mem[wr], Inside(b, k), v)
  OBVIOUS
<1>3. Stored' /\ Picture' = Repainted(wr, Inside(b, k), v) /\ Line' = Line
  <2> HIDE DEF v
  <2> QED BY <1>1, <1>2, FrameChanges
<1>4. Screen!Painted(call', LAMBDA p : Screen!InBox(p, (call').box), LAMBDA p : Foreground)
        = Repainted(wr, Inside(b, k), v)
  <2>1. (call').wr = wr /\ (call').box = b /\ (call').clip = k
    BY DEF Draws, Called
  <2>3. Repainted(wr, Inside(b, k), v) = [Picture EXCEPT ![wr] = new]
    BY DEF Repainted
  <2>2. new = [p \in Screen!Pixels |->
                 IF Screen!InBox(p, b) /\ Screen!InClip(p, k) THEN Foreground ELSE Picture[wr][p]]
    BY DEF Inside
  <2> HIDE DEF new
  <2> QED BY <2>1, <2>2, <2>3 DEF Screen!Painted, Picture
<1>5. Screen!Draw(call')
  <2> HIDE DEF new
  <2>1. (call').op = "draw"
    BY DEF Draws, Called
  <2> QED BY <1>3, <1>4, <2>1 DEF Screen!Draw
<1>20. calls' = calls + 1
  BY DEF Draws, Called
<1> QED BY <1>3, <1>5, <1>20 DEF Screen!Next, Follows

LEMMA PutMaps ==
  ASSUME Stored, NEW k, NEW wr \in Frames, NEW b, NEW pitch, NEW o, Puts(k, wr, b, pitch, o),
         NEW v, \A p \in Inside(b, k) :
                  v[p] = Line[(p[2] - b.y) * pitch + (p[1] - b.x)],
         Changed(o, mem[wr], Inside(b, k), v)
  PROVE  Follows
<1> DEFINE new == [p \in Screen!Pixels |-> IF p \in Inside(b, k) THEN v[p] ELSE Picture[wr][p]]
<1>1. mem' = [mem EXCEPT ![wr] = o] /\ buf' = buf
  BY DEF Puts
<1>3. Stored' /\ Picture' = Repainted(wr, Inside(b, k), v) /\ Line' = Line
  BY <1>1, FrameChanges
<1>2. /\ (call').wr = wr /\ (call').box = b /\ (call').clip = k /\ (call').pitch = pitch
      /\ (call').op = "put"
  BY DEF Puts, Called
<1>4. Screen!Painted(call', LAMBDA p : Screen!InBox(p, (call').box),
                     LAMBDA p : Line[Screen!Index(p, call')])
        = Repainted(wr, Inside(b, k), v)
  <2>1. \A p : Screen!Index(p, call') = (p[2] - b.y) * pitch + (p[1] - b.x)
    BY <1>2 DEF Screen!Index
  <2>3. Repainted(wr, Inside(b, k), v) = [Picture EXCEPT ![wr] = new]
    BY DEF Repainted
  <2>2. new = [p \in Screen!Pixels |->
                 IF Screen!InBox(p, b) /\ Screen!InClip(p, k)
                 THEN Line[Screen!Index(p, call')] ELSE Picture[wr][p]]
    BY <2>1 DEF Inside
  <2> HIDE DEF new
  <2> QED BY <1>2, <2>2, <2>3 DEF Screen!Painted, Picture
<1>5. Screen!Put(call')
  <2> HIDE DEF new
  <2> QED BY <1>2, <1>3, <1>4 DEF Screen!Put
<1>20. calls' = calls + 1
  BY DEF Puts, Called
<1> QED BY <1>3, <1>5, <1>20 DEF Screen!Next, Follows

LEMMA CopyMaps ==
  ASSUME Stored, NEW k, NEW rd \in Frames, NEW wr \in Frames,
         NEW x, NEW y, NEW w, NEW h, NEW tx, NEW ty, NEW o,
         Called("copy", k, rd, wr, Box(x, y, w, h), [x |-> tx, y |-> ty], 0),
         mem' = [mem EXCEPT ![wr] = o], buf' = buf,
         NEW f \in {rd, wr}, AlignedAcross \/ f = rd,
         Changed(o, mem[wr], Moved(x, y, w, h, tx, ty, k), From(mem[f], x, y, tx, ty))
  PROVE  Follows
<1> DEFINE D == Moved(x, y, w, h, tx, ty, k)
           v == From(mem[f], x, y, tx, ty)
           new == [p \in Screen!Pixels |-> IF p \in D THEN v[p] ELSE Picture[wr][p]]
           source(p) == <<p[1] - (call').to.x + (call').box.x, p[2] - (call').to.y + (call').box.y>>
           on(p) == Screen!InBox(source(p), (call').box) /\ source(p) \in Screen!Pixels
<1>3. Stored' /\ Picture' = Repainted(wr, D, v) /\ Line' = Line
  <2>1. Changed(o, mem[wr], D, v)
    OBVIOUS
  <2> HIDE DEF D, v
  <2> QED BY <2>1, FrameChanges
<1>2. /\ (call').wr = wr /\ (call').rd = rd /\ (call').clip = k
      /\ (call').box = Box(x, y, w, h) /\ (call').to = [x |-> tx, y |-> ty]
      /\ (call').op = "copy"
  BY DEF Called
<1>4. \A p : source(p) = Source(p, x, y, tx, ty)
  BY <1>2 DEF Source, Box
<1>5. Screen!Painted(call', on, LAMBDA p : Picture[f][source(p)]) = Repainted(wr, D, v)
  <2>1. \A p \in Screen!Pixels : p \in D <=> on(p) /\ Screen!InClip(p, k)
    <3> HIDE DEF source
    <3> QED BY <1>2, <1>4 DEF Moved
  <2>2. ASSUME NEW p \in D PROVE v[p] = Picture[f][source(p)]
    <3>1. p \in Screen!Pixels /\ source(p) \in Screen!Pixels
      <4> HIDE DEF source
      <4> QED BY <1>4 DEF Moved
    <3>2. v[p] = At(mem[f], source(p))
      <4> HIDE DEF source
      <4> QED BY <1>4, <3>1 DEF From
    <3>3. \A q \in Screen!Pixels : Picture[f][q] = At(mem[f], q)
      BY DEF Picture, At, Screen!Pixels
    <3> HIDE DEF source, v
    <3> QED BY <3>1, <3>2, <3>3
  <2>4. Repainted(wr, D, v) = [Picture EXCEPT ![wr] = new]
    BY DEF Repainted
  <2> HIDE DEF source, on, D, v
  <2>3. new = [p \in Screen!Pixels |->
                 IF on(p) /\ Screen!InClip(p, k) THEN Picture[f][source(p)] ELSE Picture[wr][p]]
    BY <2>1, <2>2
  <2> HIDE DEF new
  <2> QED BY <1>2, <2>3, <2>4 DEF Screen!Painted, Picture, on, source
<1>6. ~AlignedAcross => Screen!Copy(call')
  <2> HIDE DEF new
  <2> SUFFICES ASSUME f = rd PROVE Screen!Copy(call')
    OBVIOUS
  <2>1. Screen!Painted(call', on, LAMBDA p : Picture[(call').rd][source(p)])
          = Screen!Painted(call', on, LAMBDA p : Picture[f][source(p)])
    <3> HIDE DEF on, source
    <3> QED BY <1>2 DEF Screen!Painted
  <2> QED BY <1>2, <1>3, <1>5, <2>1 DEF Screen!Copy
<1>20. calls' = calls + 1
  BY DEF Called
<1> QED BY <1>3, <1>6, <1>20 DEF Screen!Next, Follows

LEMMA GetMaps ==
  ASSUME Stored, NEW k, NEW rd \in Frames, NEW x, NEW y, NEW w, NEW h, NEW pitch, NEW o,
         Gets(k, rd, Box(x, y, w, h), pitch, o),
         NEW ix, \A p \in Block(x, y, w, h) : ix[p] = (p[2] - y) * pitch + (p[1] - x),
         Fetched(o, buf, Bytes, Block(x, y, w, h), ix, mem[rd])
  PROVE  Follows
<1>1. mem' = mem /\ buf' = o
  BY DEF Gets
<1>2. Stored'
  BY <1>1 DEF Stored, Fetched
<1>3. /\ (call').rd = rd /\ (call').box = Box(x, y, w, h) /\ (call').pitch = pitch
      /\ (call').op = "get"
  BY DEF Gets, Called
<1>4. Picture' = Picture
  BY <1>1 DEF Picture
<1> DEFINE seen == {p \in Screen!Pixels : Screen!InBox(p, (call').box)}
<1>5. seen = Block(x, y, w, h)
  BY <1>3 DEF Block, Screen!InBox, Box
<1>6. \A p \in seen : Screen!Index(p, call') = ix[p]
  BY <1>3, <1>5 DEF Screen!Index, Box
<1>7. \A q \in Screen!Pixels : Picture[rd][q] = At(mem[rd], q)
  BY DEF Picture, At, Screen!Pixels
<1>8. DOMAIN Line = 0..2 * Bytes - 1
  BY DEF Line
<1>9. ASSUME NEW i \in 0..2 * Bytes - 1
      PROVE  Nibble(o, i) = IF \E p \in seen : Screen!Index(p, call') = i
                            THEN Picture[rd][CHOOSE p \in seen : Screen!Index(p, call') = i]
                            ELSE Line[i]
  <2>1. CASE \E p \in seen : Screen!Index(p, call') = i
    <3> DEFINE q == CHOOSE p \in seen : Screen!Index(p, call') = i
    <3>1. q \in seen /\ Screen!Index(q, call') = i
      <4> HIDE DEF seen
      <4> QED BY <2>1
    <3>2. q \in Screen!Pixels
      BY <3>1
    <3> HIDE DEF q, seen
    <3>3. Nibble(o, i) = At(mem[rd], q)
      BY <1>5, <1>6, <3>1 DEF Fetched
    <3>4. Nibble(o, i) = Picture[rd][q]
      BY <1>7, <3>2, <3>3
    <3> QED BY <2>1, <3>4 DEF q
  <2>2. CASE ~ \E p \in seen : Screen!Index(p, call') = i
    <3> HIDE DEF seen
    <3>1. Nibble(o, i) = Nibble(buf, i)
      BY <1>5, <1>6, <2>2 DEF Fetched
    <3> QED BY <2>2, <3>1 DEF Line
  <2> QED BY <2>1, <2>2
<1>10. Line' = [i \in 0..2 * Bytes - 1 |-> Nibble(o, i)]
  BY <1>1 DEF Line
<1>11. Line' = [i \in DOMAIN Line |->
                  IF \E p \in seen : Screen!Index(p, call') = i
                  THEN Picture[(call').rd][CHOOSE p \in seen : Screen!Index(p, call') = i]
                  ELSE Line[i]]
  <2> HIDE DEF seen
  <2> QED BY <1>3, <1>8, <1>9, <1>10
<1>12. Screen!Get(call')
  <2> QED BY <1>3, <1>4, <1>11 DEF Screen!Get
<1>20. calls' = calls + 1
  BY DEF Gets, Called
<1> QED BY <1>2, <1>12, <1>20 DEF Screen!Next, Follows

\* The places in the buffer are those of its colours.
LEMMA LineIs ==
  ASSUME NEW i \in 0..2 * Bytes - 1
  PROVE  Line[i] = Nibble(buf, i)
BY DEF Line

LEMMA PixelType ==
  ASSUME NEW p \in Screen!Pixels, NEW x \in Int, NEW y \in Int, NEW w \in Nat, NEW h \in Nat
  PROVE  /\ p[1] \in Int /\ p[2] \in Int
         /\ Screen!InBox(p, Box(x, y, w, h)) =>
              p[1] - x \in 0..w - 1 /\ p[2] - y \in 0..h - 1
         /\ p \in Block(x, y, w, h) =>
              p[1] - x \in 0..w - 1 /\ p[2] - y \in 0..h - 1
<1>1. p[1] \in Int /\ p[2] \in Int
  BY SizeAssumption DEF Screen!Pixels
<1> QED BY <1>1 DEF Screen!InBox, Block, Box

\* The pitch of a box counts colours.
LEMMA Pitches ==
  ASSUME NEW w \in Nat, NEW h \in Nat, NEW kb \in Nat, RowBytes(w) * h <= kb,
         NEW i \in 0..w - 1, NEW j \in 0..h - 1
  PROVE  /\ j * (2 * RowBytes(w)) + i = 2 * (j * RowBytes(w)) + i
         /\ j * (2 * RowBytes(w)) + i \in 0..2 * kb - 1
<1>1. j * RowBytes(w) \in Nat /\ 2 * (j * RowBytes(w)) + 2 * RowBytes(w) <= 2 * kb
  BY RowFits
<1>2. RowBytes(w) \in Nat /\ w <= 2 * RowBytes(w)
  BY RowBytesIs
<1>3. PICK r \in Nat : r = RowBytes(w)
  BY <1>2
<1>4. j * (2 * r) = 2 * (j * r)
  OBVIOUS
<1> QED BY <1>1, <1>2, <1>3, <1>4

LEMMA NextMaps ==
  ASSUME Stored, Next
  PROVE  Follows
<1>1. PICK k \in Clips, f \in Frames, x \in Xs, y \in Ys :
       \/ Draws(k, f, Box(x, y, 1, 1), DrawPixel(mem[f], k, x, y))
       \/ \E w \in Ws :
            \/ Draws(k, f, Box(x, y, w, 1), DrawHLine(mem[f], k, x, y, w))
            \/ Puts(k, f, Box(x, y, w, 1), w, PutHLine(mem[f], k, x, y, w, buf, 0))
            \/ Gets(k, f, Box(x, y, w, 1), w, GetHLine(mem[f], x, y, w, buf, 0))
       \/ \E h \in Hs :
            \/ Draws(k, f, Box(x, y, 1, h), DrawVLine(mem[f], k, x, y, h))
            \/ Puts(k, f, Box(x, y, 1, h), 1, PutVLine(mem[f], k, x, y, h, buf))
            \/ Gets(k, f, Box(x, y, 1, h), 1, GetVLine(mem[f], x, y, h, buf))
       \/ \E w \in Ws, h \in Hs :
            \/ Draws(k, f, Box(x, y, w, h), DrawBox(mem[f], k, Box(x, y, w, h)))
            \/ /\ Fits(Box(x, y, w, h))
               /\ Puts(k, f, Box(x, y, w, h), 2 * RowBytes(w),
                       PutBox(mem[f], k, Box(x, y, w, h), buf))
            \/ /\ Fits(Box(x, y, w, h))
               /\ Gets(k, f, Box(x, y, w, h), 2 * RowBytes(w),
                       GetBox(mem[f], Box(x, y, w, h), buf))
            \/ \E wr \in Frames, nx \in Xs, ny \in Ys :
                 /\ f = wr \/ AlignedAcross \/ Odd(nx - x)
                 /\ Copies(k, f, wr, Box(x, y, w, h), [x |-> nx, y |-> ny])
  BY DEF Next
<1>2. x \in Int /\ y \in Int /\ Bytes \in Nat
  BY DrawAssumption
<1>3. mem[f] \in Store(Size) /\ buf \in Store(Bytes)
  BY DEF Stored
<1>4. CASE Draws(k, f, Box(x, y, 1, 1), DrawPixel(mem[f], k, x, y))
  <2>1. \A v : (\A p \in Screen!Pixels : v[p] = Foreground) =>
                  Changed(DrawPixel(mem[f], k, x, y), mem[f], Inside(Box(x, y, 1, 1), k), v)
    BY <1>2, <1>3, DrawPixelChanges
  <2> QED BY <1>4, <2>1, DrawMaps
<1>5. ASSUME NEW w \in Ws, Draws(k, f, Box(x, y, w, 1), DrawHLine(mem[f], k, x, y, w))
      PROVE  Follows
  <2>1. \A v : (\A p \in Screen!Pixels : v[p] = Foreground) =>
                  Changed(DrawHLine(mem[f], k, x, y, w), mem[f], Inside(Box(x, y, w, 1), k), v)
    BY <1>2, <1>3, DrawAssumption, DrawHLineChanges
  <2> QED BY <1>5, <2>1, DrawMaps
<1>6. ASSUME NEW w \in Ws,
             Puts(k, f, Box(x, y, w, 1), w, PutHLine(mem[f], k, x, y, w, buf, 0))
      PROVE  Follows
  <2>1. w \in Nat /\ w <= 2 * Bytes
    BY DrawAssumption
  <2>2. PICK b : b = Box(x, y, w, 1)
    OBVIOUS
  <2>3. b.x = x /\ b.y = y
    BY <2>2 DEF Box
  <2>4. PICK v : v = [p \in Screen!Pixels |-> Line[(p[2] - b.y) * w + (p[1] - b.x)]]
    OBVIOUS
  <2>5. \A p \in Inside(b, k) : v[p] = Line[(p[2] - b.y) * w + (p[1] - b.x)]
    BY <2>4 DEF Inside
  <2>6. PICK start \in Nat : start = 0
    OBVIOUS
  <2>7. ASSUME NEW p \in Inside(b, k) PROVE v[p] = Nibble(buf, 2 * start + (p[1] - x))
    <3>1. p \in Screen!Pixels /\ Screen!InBox(p, b)
      BY DEF Inside
    <3>2. p[1] - x \in 0..w - 1 /\ p[2] - y \in 0..0
      BY <1>2, <2>1, <2>2, <3>1, PixelType
    <3>3. (p[2] - y) * w + (p[1] - x) = p[1] - x /\ p[1] - x \in 0..2 * Bytes - 1
      BY <1>2, <2>1, <3>2
    <3>4. v[p] = Line[p[1] - x]
      BY <2>3, <2>5, <3>3
    <3>5. 2 * start + (p[1] - x) = p[1] - x
      BY <2>6, <3>3
    <3> QED BY <3>3, <3>4, <3>5, LineIs
  <2>8. Changed(PutHLine(mem[f], k, x, y, w, buf, start), mem[f], Inside(b, k), v)
    <3>1. 2 * start + w <= 2 * Bytes
      BY <1>2, <2>1, <2>6
    <3>2. \A p \in Inside(Box(x, y, w, 1), k) : v[p] = Nibble(buf, 2 * start + (p[1] - x))
      BY <2>2, <2>7
    <3>3. Changed(PutHLine(mem[f], k, x, y, w, buf, start), mem[f], Inside(Box(x, y, w, 1), k), v)
      BY <1>2, <1>3, <2>1, <3>1, <3>2, PutHLineChanges
    <3> QED BY <2>2, <3>3
  <2>9. Puts(k, f, b, w, PutHLine(mem[f], k, x, y, w, buf, start))
    BY <1>6, <2>2, <2>6
  <2> QED BY <2>5, <2>8, <2>9, PutMaps
<1>7. ASSUME NEW w \in Ws,
             Gets(k, f, Box(x, y, w, 1), w, GetHLine(mem[f], x, y, w, buf, 0))
      PROVE  Follows
  <2>1. w \in Nat /\ w <= 2 * Bytes
    BY DrawAssumption
  <2>2. PICK start \in Nat : start = 0
    OBVIOUS
  <2>3. PICK ix : ix = [p \in Screen!Pixels |-> (p[2] - y) * w + (p[1] - x)]
    OBVIOUS
  <2>4. \A p \in Block(x, y, w, 1) : ix[p] = (p[2] - y) * w + (p[1] - x)
    BY <2>3 DEF Block
  <2>5. ASSUME NEW p \in Block(x, y, w, 1) PROVE ix[p] = 2 * start + (p[1] - x)
    <3>1. p \in Screen!Pixels
      BY DEF Block
    <3>2. p[1] - x \in 0..w - 1 /\ p[2] - y \in 0..0
      BY <1>2, <2>1, <3>1, PixelType
    <3>3. (p[2] - y) * w + (p[1] - x) = 2 * start + (p[1] - x)
      BY <2>1, <2>2, <3>2
    <3> QED BY <2>4, <3>3
  <2>6. Fetched(GetHLine(mem[f], x, y, w, buf, start), buf, Bytes, Block(x, y, w, 1), ix, mem[f])
    <3>1. 2 * start + w <= 2 * Bytes
      BY <1>2, <2>1, <2>2
    <3> QED BY <1>2, <1>3, <2>1, <2>5, <3>1, GetHLineFetches
  <2>7. Gets(k, f, Box(x, y, w, 1), w, GetHLine(mem[f], x, y, w, buf, start))
    BY <1>7, <2>2
  <2> QED BY <2>4, <2>6, <2>7, GetMaps
<1>8. ASSUME NEW h \in Hs, Draws(k, f, Box(x, y, 1, h), DrawVLine(mem[f], k, x, y, h))
      PROVE  Follows
  <2>1. \A v : (\A p \in Screen!Pixels : v[p] = Foreground) =>
                  Changed(DrawVLine(mem[f], k, x, y, h), mem[f], Inside(Box(x, y, 1, h), k), v)
    BY <1>2, <1>3, DrawAssumption, DrawVLineChanges
  <2> QED BY <1>8, <2>1, DrawMaps
<1>9. ASSUME NEW h \in Hs,
             Puts(k, f, Box(x, y, 1, h), 1, PutVLine(mem[f], k, x, y, h, buf))
      PROVE  Follows
  <2>1. h \in Nat /\ h <= 2 * Bytes
    BY DrawAssumption
  <2>2. PICK b : b = Box(x, y, 1, h)
    OBVIOUS
  <2>3. b.x = x /\ b.y = y
    BY <2>2 DEF Box
  <2>4. PICK v : v = [p \in Screen!Pixels |-> Line[(p[2] - b.y) * 1 + (p[1] - b.x)]]
    OBVIOUS
  <2>5. \A p \in Inside(b, k) : v[p] = Line[(p[2] - b.y) * 1 + (p[1] - b.x)]
    BY <2>4 DEF Inside
  <2>6. ASSUME NEW p \in Inside(b, k) PROVE v[p] = Nibble(buf, p[2] - y)
    <3>1. p \in Screen!Pixels /\ Screen!InBox(p, b)
      BY DEF Inside
    <3>2. p[1] - x \in 0..0 /\ p[2] - y \in 0..h - 1
      BY <1>2, <2>1, <2>2, <3>1, PixelType
    <3>3. (p[2] - y) * 1 + (p[1] - x) = p[2] - y /\ p[2] - y \in 0..2 * Bytes - 1
      BY <1>2, <2>1, <3>2
    <3>4. v[p] = Line[p[2] - y]
      BY <2>3, <2>5, <3>3
    <3> QED BY <3>3, <3>4, LineIs
  <2>7. Changed(PutVLine(mem[f], k, x, y, h, buf), mem[f], Inside(b, k), v)
    <3>1. \A p \in Inside(Box(x, y, 1, h), k) : v[p] = Nibble(buf, p[2] - y)
      BY <2>2, <2>6
    <3>2. Changed(PutVLine(mem[f], k, x, y, h, buf), mem[f], Inside(Box(x, y, 1, h), k), v)
      BY <1>2, <1>3, <2>1, <3>1, PutVLineChanges
    <3> QED BY <2>2, <3>2
  <2>8. Puts(k, f, b, 1, PutVLine(mem[f], k, x, y, h, buf))
    BY <1>9, <2>2
  <2> QED BY <2>5, <2>7, <2>8, PutMaps
<1>10. ASSUME NEW h \in Hs,
              Gets(k, f, Box(x, y, 1, h), 1, GetVLine(mem[f], x, y, h, buf))
       PROVE  Follows
  <2>1. h \in Nat /\ h <= 2 * Bytes
    BY DrawAssumption
  <2>3. PICK ix : ix = [p \in Screen!Pixels |-> (p[2] - y) * 1 + (p[1] - x)]
    OBVIOUS
  <2>4. \A p \in Block(x, y, 1, h) : ix[p] = (p[2] - y) * 1 + (p[1] - x)
    BY <2>3 DEF Block
  <2>5. ASSUME NEW p \in Block(x, y, 1, h) PROVE ix[p] = p[2] - y
    <3>1. p \in Screen!Pixels
      BY DEF Block
    <3>2. p[1] - x \in 0..0 /\ p[2] - y \in 0..h - 1
      BY <1>2, <2>1, <3>1, PixelType
    <3>3. (p[2] - y) * 1 + (p[1] - x) = p[2] - y
      BY <2>1, <3>2
    <3> QED BY <2>4, <3>3
  <2>6. Fetched(GetVLine(mem[f], x, y, h, buf), buf, Bytes, Block(x, y, 1, h), ix, mem[f])
    BY <1>2, <1>3, <2>1, <2>5, GetVLineFetches
  <2> QED BY <1>10, <2>4, <2>6, GetMaps
<1>11. ASSUME NEW w \in Ws, NEW h \in Hs,
              Draws(k, f, Box(x, y, w, h), DrawBox(mem[f], k, Box(x, y, w, h)))
       PROVE  Follows
  <2>1. \A v : (\A p \in Screen!Pixels : v[p] = Foreground) =>
                  Changed(DrawBox(mem[f], k, Box(x, y, w, h)), mem[f], Inside(Box(x, y, w, h), k), v)
    BY <1>2, <1>3, DrawAssumption, DrawBoxChanges
  <2> QED BY <1>11, <2>1, DrawMaps
<1>12. ASSUME NEW w \in Ws, NEW h \in Hs, Fits(Box(x, y, w, h)),
              Puts(k, f, Box(x, y, w, h), 2 * RowBytes(w),
                   PutBox(mem[f], k, Box(x, y, w, h), buf))
       PROVE  Follows
  <2>1. w \in Nat /\ h \in Nat /\ RowBytes(w) * h <= Bytes
    BY <1>12, DrawAssumption DEF Fits, Box
  <2>2. PICK b : b = Box(x, y, w, h)
    OBVIOUS
  <2>3. b.x = x /\ b.y = y
    BY <2>2 DEF Box
  <2>4. PICK v : v = [p \in Screen!Pixels |-> Line[(p[2] - b.y) * (2 * RowBytes(w)) + (p[1] - b.x)]]
    OBVIOUS
  <2>5. \A p \in Inside(b, k) : v[p] = Line[(p[2] - b.y) * (2 * RowBytes(w)) + (p[1] - b.x)]
    BY <2>4 DEF Inside
  <2>6. ASSUME NEW p \in Inside(b, k)
        PROVE  v[p] = Nibble(buf, 2 * ((p[2] - y) * RowBytes(w)) + (p[1] - x))
    <3>1. p \in Screen!Pixels /\ Screen!InBox(p, b)
      BY DEF Inside
    <3>2. p[1] - x \in 0..w - 1 /\ p[2] - y \in 0..h - 1
      BY <1>2, <2>1, <2>2, <3>1, PixelType
    <3>3. PICK i \in 0..w - 1 : i = p[1] - x
      BY <3>2
    <3>4. PICK j \in 0..h - 1 : j = p[2] - y
      BY <3>2
    <3>5. v[p] = Line[j * (2 * RowBytes(w)) + i]
      BY <2>3, <2>5, <3>3, <3>4
    <3>6. /\ j * (2 * RowBytes(w)) + i = 2 * (j * RowBytes(w)) + i
          /\ j * (2 * RowBytes(w)) + i \in 0..2 * Bytes - 1
      BY <1>2, <2>1, Pitches
    <3>7. Line[j * (2 * RowBytes(w)) + i] = Nibble(buf, 2 * (j * RowBytes(w)) + i)
      BY <3>6, LineIs
    <3> QED BY <3>3, <3>4, <3>5, <3>7
  <2>7. Changed(PutBox(mem[f], k, b, buf), mem[f], Inside(b, k), v)
    <3>1. \A p \in Inside(Box(x, y, w, h), k) :
             v[p] = Nibble(buf, 2 * ((p[2] - y) * RowBytes(w)) + (p[1] - x))
      BY <2>2, <2>6
    <3>2. Changed(PutBox(mem[f], k, Box(x, y, w, h), buf), mem[f], Inside(Box(x, y, w, h), k), v)
      BY <1>2, <1>3, <2>1, <3>1, PutBoxChanges
    <3> QED BY <2>2, <3>2
  <2>8. PICK pitch : pitch = 2 * RowBytes(w)
    OBVIOUS
  <2>9. Puts(k, f, b, pitch, PutBox(mem[f], k, b, buf))
    BY <1>12, <2>2, <2>8
  <2>10. \A p \in Inside(b, k) : v[p] = Line[(p[2] - b.y) * pitch + (p[1] - b.x)]
    BY <2>5, <2>8
  <2> QED BY <2>7, <2>9, <2>10, PutMaps
<1>13. ASSUME NEW w \in Ws, NEW h \in Hs, Fits(Box(x, y, w, h)),
              Gets(k, f, Box(x, y, w, h), 2 * RowBytes(w),
                   GetBox(mem[f], Box(x, y, w, h), buf))
       PROVE  Follows
  <2>1. w \in Nat /\ h \in Nat /\ RowBytes(w) * h <= Bytes
    BY <1>13, DrawAssumption DEF Fits, Box
  <2>2. PICK pitch : pitch = 2 * RowBytes(w)
    OBVIOUS
  <2>3. PICK ix : ix = [p \in Screen!Pixels |-> (p[2] - y) * pitch + (p[1] - x)]
    OBVIOUS
  <2>4. \A p \in Block(x, y, w, h) : ix[p] = (p[2] - y) * pitch + (p[1] - x)
    BY <2>3 DEF Block
  <2>5. ASSUME NEW p \in Block(x, y, w, h)
        PROVE  ix[p] = 2 * ((p[2] - y) * RowBytes(w)) + (p[1] - x)
    <3>1. p \in Screen!Pixels
      BY DEF Block
    <3>2. p[1] - x \in 0..w - 1 /\ p[2] - y \in 0..h - 1
      BY <1>2, <2>1, <3>1, PixelType
    <3>3. PICK i \in 0..w - 1 : i = p[1] - x
      BY <3>2
    <3>4. PICK j \in 0..h - 1 : j = p[2] - y
      BY <3>2
    <3>5. j * (2 * RowBytes(w)) + i = 2 * (j * RowBytes(w)) + i
      BY <1>2, <2>1, Pitches
    <3> QED BY <2>2, <2>4, <3>3, <3>4, <3>5
  <2>6. Fetched(GetBox(mem[f], Box(x, y, w, h), buf), buf, Bytes, Block(x, y, w, h), ix, mem[f])
    BY <1>2, <1>3, <2>1, <2>5, GetBoxFetches
  <2>7. Gets(k, f, Box(x, y, w, h), pitch, GetBox(mem[f], Box(x, y, w, h), buf))
    BY <1>13, <2>2
  <2> QED BY <2>4, <2>6, <2>7, GetMaps
<1>14. ASSUME NEW w \in Ws, NEW h \in Hs, NEW wr \in Frames, NEW nx \in Xs, NEW ny \in Ys,
              f = wr \/ AlignedAcross \/ Odd(nx - x),
              Copies(k, f, wr, Box(x, y, w, h), [x |-> nx, y |-> ny])
       PROVE  Follows
  <2>1. w \in Nat /\ h \in Nat /\ nx \in Int /\ ny \in Int
    BY DrawAssumption
  <2>2. mem[wr] \in Store(Size)
    BY DEF Stored
  <2>3. PICK o : o = CopyBox(f, wr, k, Box(x, y, w, h), [x |-> nx, y |-> ny])
    OBVIOUS
  <2>4. PICK g \in {f, wr} :
          /\ f = wr \/ Odd(nx - x) => g = f
          /\ Changed(o, mem[wr], Moved(x, y, w, h, nx, ny, k), From(mem[g], x, y, nx, ny))
    BY <1>2, <1>3, <2>1, <2>2, <2>3, CopyBoxChanges
  <2>5. /\ Called("copy", k, f, wr, Box(x, y, w, h), [x |-> nx, y |-> ny], 0)
        /\ mem' = [mem EXCEPT ![wr] = o] /\ buf' = buf
    BY <1>14, <2>3 DEF Copies
  <2>6. AlignedAcross \/ g = f
    BY <1>14, <2>4
  <2> QED BY <2>4, <2>5, <2>6, CopyMaps
<1> QED
  BY <1>1, <1>4, <1>5, <1>6, <1>7, <1>8, <1>9, <1>10, <1>11, <1>12, <1>13, <1>14

-----------------------------------------------------------------------------
(***************************************************************************)
(* The specification.                                                      *)
(***************************************************************************)

IInv == Stored /\ calls \in 0..MaxCalls

LEMMA InitStored ==
  ASSUME Init
  PROVE  IInv /\ Screen!Init
<1>1. Size \in Nat /\ Bytes \in Nat /\ MaxCalls \in Nat
  BY Strides, DrawAssumption
<1>2. ASSUME NEW f \in Frames PROVE mem[f] \in Store(Size)
  <2>1. f \in Nat
    BY SizeAssumption
  <2>2. PICK r \in Nat : r = f * Size
    BY <1>1, <2>1
  <2>3. mem[f] = [a \in 0..Size - 1 |-> [hi |-> 2 * (r + a), lo |-> 2 * (r + a) + 1]]
    BY <2>2 DEF Init
  <2>4. \A a \in 0..Size - 1 : [hi |-> 2 * (r + a), lo |-> 2 * (r + a) + 1] \in Cell
    BY <1>1 DEF Cell
  <2> QED BY <2>3, <2>4 DEF Store
<1>3. mem \in [Frames -> Store(Size)]
  BY <1>2 DEF Init
<1>4. buf \in Store(Bytes)
  <2>1. \A a \in 0..Bytes - 1 : [hi |-> 1000 + 2 * a, lo |-> 1001 + 2 * a] \in Cell
    BY <1>1 DEF Cell
  <2> QED BY <2>1 DEF Init, Store
<1>5. calls \in 0..MaxCalls
  BY <1>1 DEF Init
<1>6. Screen!Init
  BY DEF Init, Screen!Init
<1> QED BY <1>3, <1>4, <1>5, <1>6 DEF IInv, Stored

LEMMA StepStored ==
  ASSUME IInv, [Next]_vars
  PROVE  IInv' /\ (~AlignedAcross => [Screen!Next]_<<Picture, Line, call>>)
<1>1. CASE Next
  <2>1. Follows
    BY <1>1, NextMaps DEF IInv
  <2>2. calls < MaxCalls
    BY <1>1 DEF Next
  <2>3. calls' \in 0..MaxCalls
    BY <2>1, <2>2, DrawAssumption DEF IInv, Follows
  <2> QED BY <2>1, <2>3 DEF IInv, Follows
<1>2. CASE UNCHANGED vars
  <2>1. mem' = mem /\ buf' = buf /\ call' = call /\ calls' = calls
    BY <1>2 DEF vars
  <2>2. Picture' = Picture /\ Line' = Line
    BY <2>1 DEF Picture, Line
  <2> QED BY <2>1, <2>2 DEF IInv, Stored
<1> QED BY <1>1, <1>2

\* No call ever writes outside a frame or a buffer, whatever is drawn and
\* however it is clipped.
THEOREM TypeCorrect == Spec => []TypeOK
<1>1. Init => IInv
  BY InitStored
<1>2. IInv /\ [Next]_vars => IInv'
  BY StepStored
<1>3. IInv => TypeOK
  BY DEF IInv, Stored, Store, Cell, TypeOK
<1> QED BY <1>1, <1>2, <1>3, PTL DEF Spec

\* Every call changes the pixels it should to what they should be, wherever
\* they are in their bytes and however source and destination overlap, and no
\* other (copybox.c and the other files of default/linear_4), if the
\* application copies from one frame to another only between places that
\* start in different halves of a byte.
THEOREM ImplementsScreen ==
  ASSUME ~AlignedAcross
  PROVE  Spec => ScreenSpec
<1>1. Init => IInv /\ Screen!Init
  BY InitStored
<1>2. IInv /\ [Next]_vars => IInv' /\ [Screen!Next]_<<Picture, Line, call>>
  BY StepStored
<1> QED BY <1>1, <1>2, PTL DEF Spec, ScreenSpec, Screen!Spec
=============================================================================
