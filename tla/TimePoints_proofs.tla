-------------------------- MODULE TimePoints_proofs --------------------------
(***************************************************************************)
(* Time points and the sequences of them, for every set of them, every     *)
(* base and every number of scales to an epoch.  First the digits of a     *)
(* time point: a duration added to it or advancing it is added to the      *)
(* number they denote, they are read and compared as that number, and so   *)
(* are the difference and the gap of two of them.                          *)
(* Then the partitions of a time sequence: entries keep their times,       *)
(* iterators know their partition, and searching finds the right position. *)
(***************************************************************************)
EXTENDS TimeSequence, TimePoint, TimeScale_proofs, FiniteSetTheorems, SequenceTheorems

-----------------------------------------------------------------------------
(* The digits of a time point, and the number they denote                  *)

\* What holds from a number on, if it is handed on from each to the next.
LEMMA Upwards ==
    ASSUME NEW a \in Nat, NEW S, a \in S,
           \A k \in Nat : a <= k /\ k \in S => k + 1 \in S
    PROVE  \A k \in Nat : a <= k => k \in S
<1> DEFINE R == {k \in Nat : a <= k /\ k \notin S}
<1> SUFFICES ASSUME R # {} PROVE FALSE
  OBVIOUS
<1>1. PICK n \in R : \A i \in R : n <= i
  <2>1. R \subseteq Nat
    OBVIOUS
  <2>2. QED
    BY <2>1, LeastNatural
<1>2. n \in Nat /\ a <= n /\ n \notin S /\ n # a
  OBVIOUS
<1>3. n - 1 \in Nat /\ a <= n - 1 /\ n - 1 \notin R /\ (n - 1) + 1 = n
  BY <1>1, <1>2
<1>4. n - 1 \in S
  BY <1>3
<1>5. QED
  BY <1>2, <1>3, <1>4

\* The digits while operator+= computes: the coarsest may be negative.
Written == [sign : {1, -1}, precision : Nat, digits : Seq(Int)]

LEMMA DigitAtType ==
    ASSUME NEW x \in Written
    PROVE  /\ nscales(x) \in Nat /\ Top(x) \in Nat /\ x.precision <= Top(x)
           /\ Top(x) = x.precision + nscales(x)
           /\ x.precision \in Nat /\ x.sign \in {1, -1}
           /\ \A s \in Int : DigitAt(x, s) \in Int
           /\ \A s \in Int : s < x.precision \/ Top(x) <= s => DigitAt(x, s) = 0
<1>1. x.precision \in Nat /\ x.digits \in Seq(Int) /\ x.sign \in {1, -1}
  BY DEF Written
<1>2. nscales(x) \in Nat /\ Top(x) = x.precision + nscales(x)
  BY <1>1 DEF nscales, Top
<1>3. ASSUME NEW s \in Int, x.precision <= s, s < Top(x) PROVE x.digits[s - x.precision + 1] \in Int
  <2>1. s - x.precision + 1 \in 1 .. Len(x.digits)
    BY <1>1, <1>2, <1>3 DEF nscales
  <2>2. QED
    BY <1>1, <2>1
<1>4. QED
  BY <1>1, <1>2, <1>3 DEF DigitAt

\* Digits in range make a time point of what is written.
LEMMA DigitalIs ==
    ASSUME NEW x
    PROVE  x \in Digital <=> x \in Written /\ \A s \in Int : DigitAt(x, s) \in 0 .. Base - 1
<1> DEFINE D == 0 .. Base - 1
<1>1. 0 \in D /\ D \subseteq Int
  BY BaseAssumption
<1>2. ASSUME x \in Digital PROVE x \in Written /\ \A s \in Int : DigitAt(x, s) \in D
  <2>1. x \in Written /\ x.digits \in Seq(D)
    BY <1>2, BaseAssumption DEF Digital, Written
  <2>2. ASSUME NEW s \in Int PROVE DigitAt(x, s) \in D
    <3>1. CASE x.precision <= s /\ s < Top(x)
      <4>1. s - x.precision + 1 \in 1 .. Len(x.digits)
        <5>1. x \in Written
          BY <2>1
        <5>2. Top(x) = x.precision + nscales(x) /\ x.precision \in Nat /\ nscales(x) \in Nat
          BY <5>1, DigitAtType
        <5>3. nscales(x) = Len(x.digits)
          BY DEF nscales
        <5>4. QED
          BY <3>1, <5>2, <5>3
      <4>2. x.digits[s - x.precision + 1] \in D
        <5> HIDE DEF D
        <5> QED  BY <2>1, <4>1
      <4>3. QED
        BY <3>1, <4>2 DEF DigitAt
    <3>2. CASE ~(x.precision <= s /\ s < Top(x))
      <4>1. DigitAt(x, s) = 0
        BY <3>2 DEF DigitAt
      <4>2. QED
        BY <1>1, <4>1
    <3>3. QED
      BY <3>1, <3>2
  <2>3. QED
    BY <2>1, <2>2
<1>3. ASSUME x \in Written, \A s \in Int : DigitAt(x, s) \in D PROVE x \in Digital
  <2>1. x.precision \in Nat /\ x.sign \in {1, -1} /\ x.digits \in Seq(Int)
        /\ x = [sign |-> x.sign, precision |-> x.precision, digits |-> x.digits]
    BY <1>3 DEF Written
  <2>2. ASSUME NEW i \in 1 .. Len(x.digits) PROVE x.digits[i] \in D
    <3>1. x.precision + i - 1 \in Int /\ x.precision <= x.precision + i - 1
          /\ x.precision + i - 1 < Top(x) /\ (x.precision + i - 1) - x.precision + 1 = i
      BY <2>1, <2>2 DEF Top, nscales
    <3>2. DigitAt(x, x.precision + i - 1) = x.digits[i]
      BY <3>1 DEF DigitAt
    <3>3. QED
      BY <1>3, <3>1, <3>2
  <2>3. x.digits \in Seq(D)
    <3>1. x.digits = [i \in 1 .. Len(x.digits) |-> x.digits[i]] /\ Len(x.digits) \in Nat
      BY <2>1
    <3> HIDE DEF D
    <3>2. QED
      BY <2>2, <3>1
  <2>4. QED
    BY <2>1, <2>3 DEF Digital
<1>4. QED
  BY <1>2, <1>3

\* The recursive definition of the sum of the digits does define it.
LEMMA SumOfDigits ==
    ASSUME NEW x \in Written
    PROVE  /\ TicksBelow(x)[0] = 0
           /\ \A s \in Nat :
                  /\ TicksBelow(x)[s] \in Int
                  /\ TicksBelow(x)[s + 1] = TicksBelow(x)[s] + DigitAt(x, s) * Tick(s)
<1> DEFINE V == Int
           at(i) == DigitAt(x, i) * Tick(i)
           step == [i \in Nat |-> [v \in V |-> v + at(i)]]
           Rec(g) == [i \in Nat |-> IF i = 0 THEN 0 ELSE g[i - 1] + DigitAt(x, i - 1) * Tick(i - 1)]
           h == CHOOSE g : g = Rec(g)
<1>1. \A i \in Nat : at(i) \in Int
  <2>1. ASSUME NEW i \in Nat PROVE at(i) \in Int
    <3>1. DigitAt(x, i) \in Int /\ Tick(i) \in Int
      BY DigitAtType, TickPositive
    <3>2. QED
      BY <3>1
  <2>2. QED
    BY <2>1
<1>2. \A g : \A i \in Nat : Rec(g)[i] = IF i = 0 THEN 0 ELSE g[i - 1] + at(i - 1)
  OBVIOUS
<1> HIDE DEF at
<1>3. 0 \in V /\ step \in [Nat -> [V -> V]]
  BY <1>1
<1>4. PICK f : Iterates(f, V, 0, step)
  <2> HIDE DEF V, step
  <2> QED  BY <1>3, PrimitiveRecursion
<1>5. f \in [Nat -> Int] /\ f[0] = 0 /\ \A i \in Nat : f[i + 1] = f[i] + at(i)
  BY <1>4 DEF Iterates
<1>6. f = Rec(f)
  <2>1. ASSUME NEW i \in Nat PROVE f[i] = Rec(f)[i]
    <3>1. CASE i = 0
      BY <1>2, <1>5, <3>1
    <3>2. CASE i # 0
      <4>1. i - 1 \in Nat /\ (i - 1) + 1 = i
        BY <3>2
      <4> HIDE DEF Rec
      <4>2. QED
        BY <1>2, <1>5, <3>2, <4>1
    <3>3. QED
      BY <3>1, <3>2
  <2>2. f = [i \in Nat |-> f[i]] /\ Rec(f) = [i \in Nat |-> Rec(f)[i]]
    BY <1>5
  <2> HIDE DEF Rec
  <2>3. QED
    BY <2>1, <2>2
<1>7. h = Rec(h)
  <2> HIDE DEF Rec
  <2> QED  BY <1>6
<1>8. TicksBelow(x) = h
  BY DEF TicksBelow
<1> HIDE DEF h
<1>9. h[0] = 0 /\ \A i \in Nat : h[i + 1] = h[i] + at(i)
  <2>1. \A i \in Nat : h[i] = Rec(h)[i]
    BY <1>7
  <2> HIDE DEF Rec
  <2>2. h[0] = 0
    BY <1>2, <2>1
  <2>3. ASSUME NEW i \in Nat PROVE h[i + 1] = h[i] + at(i)
    <3>1. i + 1 \in Nat /\ i + 1 # 0 /\ (i + 1) - 1 = i
      OBVIOUS
    <3>2. QED
      BY <1>2, <2>1, <3>1
  <2>4. QED
    BY <2>2, <2>3
<1>10. \A s \in Nat : h[s] \in Int
  <2> DEFINE S == {s \in Nat : h[s] \in Int}
  <2>1. 0 \in S
    BY <1>9
  <2>2. ASSUME NEW k \in Nat, k \in S PROVE k + 1 \in S
    BY <1>1, <1>9, <2>2
  <2>3. \A k \in Nat : 0 <= k => k \in S
    <3> HIDE DEF S
    <3> QED  BY <2>1, <2>2, Upwards
  <2>4. QED
    BY <2>3
<1>11. QED
  BY <1>8, <1>9, <1>10 DEF at

\* The sum up to a scale depends on the digits from some scale on only by what
\* is below that.
LEMMA SameDigits ==
    ASSUME NEW x \in Written, NEW y \in Written, NEW a \in Nat, NEW b \in Nat, NEW d \in Int,
           TicksBelow(y)[a] = TicksBelow(x)[a] + d,
           \A s \in Nat : a <= s /\ s < b => DigitAt(y, s) = DigitAt(x, s)
    PROVE  \A s \in Nat : a <= s /\ s <= b => TicksBelow(y)[s] = TicksBelow(x)[s] + d
<1> DEFINE S == {s \in Nat : s <= b => TicksBelow(y)[s] = TicksBelow(x)[s] + d}
<1>1. a \in S
  OBVIOUS
<1>2. ASSUME NEW k \in Nat, a <= k, k \in S PROVE k + 1 \in S
  <2> SUFFICES ASSUME k + 1 <= b PROVE TicksBelow(y)[k + 1] = TicksBelow(x)[k + 1] + d
    OBVIOUS
  <2>1. DigitAt(y, k) = DigitAt(x, k) /\ TicksBelow(y)[k] = TicksBelow(x)[k] + d
    BY <1>2
  <2>2. /\ TicksBelow(y)[k + 1] = TicksBelow(y)[k] + DigitAt(y, k) * Tick(k)
        /\ TicksBelow(x)[k + 1] = TicksBelow(x)[k] + DigitAt(x, k) * Tick(k)
        /\ TicksBelow(x)[k] \in Int
    BY SumOfDigits
  <2>3. DigitAt(x, k) \in Int /\ Tick(k) \in Int
    BY DigitAtType, TickPositive
  <2> DEFINE m == DigitAt(x, k) * Tick(k)
  <2>4. m \in Int
    BY <2>3
  <2> HIDE DEF m
  <2>5. TicksBelow(y)[k + 1] = (TicksBelow(x)[k] + d) + m /\ TicksBelow(x)[k + 1] = TicksBelow(x)[k] + m
    BY <2>1, <2>2 DEF m
  <2>6. QED
    BY <2>2, <2>4, <2>5
<1>3. \A k \in Nat : a <= k => k \in S
  <2> HIDE DEF S
  <2> QED  BY <1>1, <1>2, Upwards
<1>4. QED
  BY <1>3

\* Zeros add nothing.
LEMMA ZeroDigits ==
    ASSUME NEW x \in Written, NEW a \in Nat, NEW b \in Nat, a <= b,
           \A s \in Nat : a <= s /\ s < b => DigitAt(x, s) = 0
    PROVE  TicksBelow(x)[b] = TicksBelow(x)[a]
<1> DEFINE S == {s \in Nat : s <= b => TicksBelow(x)[s] = TicksBelow(x)[a]}
<1>1. a \in S
  OBVIOUS
<1>2. ASSUME NEW k \in Nat, a <= k, k \in S PROVE k + 1 \in S
  <2> SUFFICES ASSUME k + 1 <= b PROVE TicksBelow(x)[k + 1] = TicksBelow(x)[a]
    OBVIOUS
  <2>1. DigitAt(x, k) = 0 /\ TicksBelow(x)[k] = TicksBelow(x)[a]
    BY <1>2
  <2>2. TicksBelow(x)[k + 1] = TicksBelow(x)[k] + DigitAt(x, k) * Tick(k) /\ TicksBelow(x)[k] \in Int
    BY SumOfDigits
  <2>3. 0 * Tick(k) = 0
    BY TickPositive
  <2>4. QED
    BY <2>1, <2>2, <2>3
<1>3. \A k \in Nat : a <= k => k \in S
  <2> HIDE DEF S
  <2> QED  BY <1>1, <1>2, Upwards
<1>4. QED
  BY <1>3

\* Digits below a scale denote less than one tick of it.
LEMMA SumBelowTick ==
    ASSUME NEW x \in Digital, NEW s \in Nat
    PROVE  TicksBelow(x)[s] \in 0 .. Tick(s) - 1
<1> DEFINE S == {i \in Nat : TicksBelow(x)[i] \in 0 .. Tick(i) - 1}
<1>0. x \in Written /\ \A i \in Int : DigitAt(x, i) \in 0 .. Base - 1
  BY DigitalIs
<1>1. 0 \in S
  BY <1>0, SumOfDigits, TickZero
<1>2. ASSUME NEW k \in Nat, k \in S PROVE k + 1 \in S
  <2> DEFINE T == Tick(k)
             d == DigitAt(x, k)
             v == TicksBelow(x)[k]
  <2>1. T \in Nat \ {0} /\ Tick(k + 1) = Base * T /\ Base \in Nat
    BY TickPositive, TickNext, BaseAssumption
  <2>2. d \in 0 .. Base - 1
    BY <1>0
  <2>3. v \in 0 .. T - 1 /\ TicksBelow(x)[k + 1] = v + d * T
    BY <1>0, <1>2, SumOfDigits
  <2> HIDE DEF T, d, v
  <2>4. d * T \in Nat /\ d * T <= (Base - 1) * T /\ (Base - 1) * T = Base * T - T /\ Base * T \in Nat
    BY <2>1, <2>2
  <2>5. v + d * T \in 0 .. Base * T - 1
    BY <2>1, <2>3, <2>4
  <2>6. QED
    BY <2>1, <2>3, <2>5
<1>3. \A k \in Nat : 0 <= k => k \in S
  <2> HIDE DEF S
  <2> QED  BY <1>1, <1>2, Upwards
<1>4. QED
  BY <1>3

\* Digits from a scale on denote a whole number of its ticks.
LEMMA SumFromScale ==
    ASSUME NEW x \in Written, NEW a \in Nat, NEW b \in Nat, a <= b
    PROVE  \E q \in Int : TicksBelow(x)[b] = TicksBelow(x)[a] + q * Tick(a)
<1> DEFINE v(s) == TicksBelow(x)[s]
           K == Tick(a)
           S == {s \in Nat : \E q \in Int : v(s) = v(a) + q * K}
<1>1. a \in S
  <2>1. v(a) = v(a) + 0 * K
    BY SumOfDigits, TickPositive
  <2>2. QED
    BY <2>1
<1>2. ASSUME NEW k \in Nat, a <= k, k \in S PROVE k + 1 \in S
  <2>1. PICK q \in Int : v(k) = v(a) + q * K
    BY <1>2
  <2> DEFINE j == Tick(k - a)
             d == DigitAt(x, k)
  <2>2. j \in Nat /\ K \in Nat /\ Tick(k) = K * j
    BY <1>2, TickOrder, TickPositive
  <2>3. d \in Int /\ v(k + 1) = v(k) + d * Tick(k) /\ v(a) \in Int
    BY DigitAtType, SumOfDigits
  <2> HIDE DEF v, K, j, d
  <2>4. q + d * j \in Int /\ (q + d * j) * K = q * K + d * (K * j) /\ q * K \in Int /\ d * (K * j) \in Int
    BY <2>2, <2>3
  <2>5. v(k + 1) = v(a) + (q + d * j) * K
    BY <2>1, <2>2, <2>3, <2>4
  <2>6. QED
    BY <2>4, <2>5
<1>3. \A k \in Nat : a <= k => k \in S
  <2> HIDE DEF S
  <2> QED  BY <1>1, <1>2, Upwards
<1>4. QED
  BY <1>3


-----------------------------------------------------------------------------
(* Restructuring the digits                                                *)

\* The digits from a scale to another, and what they denote.
LEMMA BetweenIs ==
    ASSUME NEW x \in Written, NEW p \in Nat, NEW top \in Nat, p <= top
    PROVE  /\ Between(x, p, top) \in Written
           /\ Between(x, p, top).sign = x.sign /\ Between(x, p, top).precision = p
           /\ nscales(Between(x, p, top)) = top - p /\ Top(Between(x, p, top)) = top
           /\ \A s \in Int : DigitAt(Between(x, p, top), s) =
                                IF p <= s /\ s < top THEN DigitAt(x, s) ELSE 0
<1> DEFINE y == Between(x, p, top)
           f == [i \in 1 .. top - p |-> DigitAt(x, p + i - 1)]
<1>1. top - p \in Nat
  OBVIOUS
<1>2. \A i \in 1 .. top - p : f[i] = DigitAt(x, p + i - 1) /\ f[i] \in Int
  <2>1. ASSUME NEW i \in 1 .. top - p PROVE DigitAt(x, p + i - 1) \in Int
    <3>1. p + i - 1 \in Int
      OBVIOUS
    <3>2. QED
      BY <3>1, DigitAtType
  <2>2. QED
    BY <2>1
<1>3. f \in Seq(Int) /\ Len(f) = top - p
  BY <1>1, <1>2
<1>4. y = [x EXCEPT !.precision = p, !.digits = f]
  BY DEF Between
<1> HIDE DEF f
<1>5. y \in Written /\ y.sign = x.sign /\ y.precision = p /\ y.digits = f
  BY <1>3, <1>4 DEF Written
<1> HIDE DEF y
<1>6. nscales(y) = top - p /\ Top(y) = top
  BY <1>3, <1>5 DEF nscales, Top
<1>7. ASSUME NEW s \in Int PROVE DigitAt(y, s) = IF p <= s /\ s < top THEN DigitAt(x, s) ELSE 0
  <2>1. CASE p <= s /\ s < top
    <3>1. DigitAt(y, s) = f[s - p + 1]
      BY <1>5, <1>6, <2>1 DEF DigitAt
    <3>2. s - p + 1 \in 1 .. top - p /\ p + (s - p + 1) - 1 = s
      BY <2>1
    <3>3. f[s - p + 1] = DigitAt(x, p + (s - p + 1) - 1)
      BY <1>2, <3>2
    <3>4. QED
      BY <2>1, <3>1, <3>2, <3>3
  <2>2. CASE ~(p <= s /\ s < top)
    BY <1>5, <1>6, <2>2 DEF DigitAt
  <2>3. QED
    BY <2>1, <2>2
<1>8. QED
  BY <1>5, <1>6, <1>7 DEF y

Amount(x) == TicksBelow(x)[Top(x)]

LEMMA AmountOfBetween ==
    ASSUME NEW x \in Written, NEW p \in Nat, NEW top \in Nat, p <= top,
           \A s \in Nat : top <= s /\ s < Top(x) => DigitAt(x, s) = 0
    PROVE  Amount(Between(x, p, top)) = Amount(x) - TicksBelow(x)[p]
<1> DEFINE y == Between(x, p, top)
<1>1. /\ y \in Written /\ Top(y) = top
      /\ \A s \in Int : DigitAt(y, s) = IF p <= s /\ s < top THEN DigitAt(x, s) ELSE 0
  BY BetweenIs
<1> HIDE DEF y
<1>2. TicksBelow(y)[p] = 0
  <2>1. \A s \in Nat : 0 <= s /\ s < p => DigitAt(y, s) = 0
    BY <1>1
  <2>2. TicksBelow(y)[p] = TicksBelow(y)[0]
    BY <1>1, <2>1, ZeroDigits
  <2>3. QED
    BY <1>1, <2>2, SumOfDigits
<1> DEFINE d == -TicksBelow(x)[p]
<1>3. d \in Int /\ TicksBelow(y)[p] = TicksBelow(x)[p] + d
  BY <1>2, SumOfDigits
<1>4. TicksBelow(y)[top] = TicksBelow(x)[top] + d
  <2> HIDE DEF d
  <2>1. \A s \in Nat : p <= s /\ s < top => DigitAt(y, s) = DigitAt(x, s)
    BY <1>1
  <2>2. \A s \in Nat : p <= s /\ s <= top => TicksBelow(y)[s] = TicksBelow(x)[s] + d
    BY <1>1, <1>3, <2>1, SameDigits
  <2>3. QED
    BY <2>2
<1>5. TicksBelow(x)[top] = TicksBelow(x)[Top(x)]
  <2>1. Top(x) \in Nat /\ \A s \in Int : Top(x) <= s => DigitAt(x, s) = 0
    BY DigitAtType
  <2>2. CASE Top(x) <= top
    <3>1. \A s \in Nat : Top(x) <= s /\ s < top => DigitAt(x, s) = 0
      BY <2>1
    <3>2. QED
      BY <2>1, <2>2, <3>1, ZeroDigits
  <2>3. CASE top <= Top(x)
    <3>1. \A s \in Nat : top <= s /\ s < Top(x) => DigitAt(x, s) = 0
      OBVIOUS
    <3>2. QED
      BY <2>1, <2>3, <3>1, ZeroDigits
  <2>4. QED
    BY <2>1, <2>2, <2>3
<1>6. TicksBelow(x)[top] \in Int /\ TicksBelow(x)[p] \in Int
  BY SumOfDigits
<1>7. QED
  BY <1>1, <1>4, <1>5, <1>6 DEF Amount, y

\* The first nonzero digit at a scale or above, if there is one.
LEMMA DigitsFromIs ==
    ASSUME NEW x \in Written, NEW p \in Nat
    PROVE  \E s \in Nat :
              /\ p <= s /\ s <= Coarser(p, Top(x))
              /\ \A q \in Int : p <= q /\ q < s => DigitAt(x, q) = 0
              /\ s < Top(x) => DigitAt(x, s) # 0
              /\ DigitsFrom(x, p) = Between(x, s, Coarser(s, Top(x)))
<1> DEFINE c == Coarser(p, Top(x))
           FirstAt(s) == /\ \A q \in p .. s - 1 : DigitAt(x, q) = 0
                         /\ s < Top(x) => DigitAt(x, s) # 0
           first == CHOOSE s \in p .. c : FirstAt(s)
<1>1. Top(x) \in Nat /\ c \in Nat /\ p <= c /\ Top(x) <= c
  BY DigitAtType DEF Coarser
<1>2. \E s \in p .. c : FirstAt(s)
  <2> DEFINE S == {s \in p .. c : s < Top(x) => DigitAt(x, s) # 0}
  <2>1. c \in S
    BY <1>1
  <2>2. S \subseteq Nat
    BY <1>1
  <2>3. PICK s \in S : \A i \in S : s <= i
    <3> HIDE DEF S
    <3> QED  BY <2>1, <2>2, LeastNatural
  <2>4. ASSUME NEW q \in p .. s - 1 PROVE DigitAt(x, q) = 0
    <3>1. q \notin S /\ q \in p .. c
      <4>1. s \in p .. c /\ q < s
        BY <1>1, <2>4
      <4>2. QED
        BY <1>1, <2>3, <2>4, <4>1
    <3>2. QED
      BY <3>1
  <2>5. QED
    BY <2>3, <2>4
<1>3. first \in p .. c /\ FirstAt(first)
  <2> HIDE DEF FirstAt
  <2> QED  BY <1>2
<1>4. DigitsFrom(x, p) = Between(x, first, Coarser(first, Top(x)))
  BY DEF DigitsFrom
<1> HIDE DEF first
<1>5. first \in Nat /\ \A q \in Int : p <= q /\ q < first => q \in p .. first - 1
  BY <1>1, <1>3
<1>6. QED
  BY <1>1, <1>3, <1>4, <1>5

\* Leaving out zeros at the fine end.
LEMMA WithoutFineZerosIs ==
    ASSUME NEW x \in Written
    PROVE  LET y == WithoutFineZeros(x)
           IN  /\ y \in Written /\ y.sign = x.sign /\ Top(y) = Top(x)
               /\ Amount(y) = Amount(x)
               /\ \A s \in Int : DigitAt(y, s) = DigitAt(x, s)
               /\ nscales(y) # 0 => DigitAt(y, y.precision) # 0
<1>1. x \in Written /\ Top(x) \in Nat /\ x.precision \in Nat /\ x.precision <= Top(x)
      /\ \A s \in Int : s < x.precision \/ Top(x) <= s => DigitAt(x, s) = 0
  BY DigitAtType
<1>2. PICK s \in Nat :
          /\ x.precision <= s /\ s <= Coarser(x.precision, Top(x))
          /\ \A q \in Int : x.precision <= q /\ q < s => DigitAt(x, q) = 0
          /\ s < Top(x) => DigitAt(x, s) # 0
          /\ DigitsFrom(x, x.precision) = Between(x, s, Coarser(s, Top(x)))
  BY <1>1, DigitsFromIs
<1>3. s <= Top(x) /\ Coarser(s, Top(x)) = Top(x)
  BY <1>1, <1>2 DEF Coarser
<1> DEFINE y == Between(x, s, Top(x))
<1>4. WithoutFineZeros(x) = y
  BY <1>2, <1>3 DEF WithoutFineZeros
<1>5. /\ y \in Written /\ y.sign = x.sign /\ y.precision = s /\ nscales(y) = Top(x) - s /\ Top(y) = Top(x)
      /\ \A q \in Int : DigitAt(y, q) = IF s <= q /\ q < Top(x) THEN DigitAt(x, q) ELSE 0
  BY <1>1, <1>3, BetweenIs
<1>6. Amount(y) = Amount(x) - TicksBelow(x)[s]
  BY <1>1, <1>3, AmountOfBetween
<1> HIDE DEF y
<1>7. \A q \in Int : q < s => DigitAt(x, q) = 0
  BY <1>1, <1>2
<1>8. TicksBelow(x)[s] = 0
  <2>1. \A q \in Nat : 0 <= q /\ q < s => DigitAt(x, q) = 0
    BY <1>7
  <2>2. TicksBelow(x)[s] = TicksBelow(x)[0]
    BY <1>1, <2>1, ZeroDigits
  <2>3. QED
    BY <1>1, <2>2, SumOfDigits
<1>9. Amount(y) = Amount(x)
  <2>1. Amount(x) \in Int
    BY <1>1, SumOfDigits DEF Amount
  <2>2. QED
    BY <1>6, <1>8, <2>1
<1>10. \A q \in Int : DigitAt(y, q) = DigitAt(x, q)
  BY <1>1, <1>5, <1>7
<1>11. nscales(y) # 0 => DigitAt(y, y.precision) # 0
  BY <1>1, <1>2, <1>3, <1>5
<1>12. QED
  BY <1>4, <1>5, <1>9, <1>10, <1>11

\* Leaving out zeros at the coarse end, if the finest digit is none.
LEMMA WithoutCoarseZerosIs ==
    ASSUME NEW x \in Digital, nscales(x) # 0, DigitAt(x, x.precision) # 0
    PROVE  LET y == WithoutCoarseZeros(x)
           IN  /\ y \in Digital /\ y.sign = x.sign /\ Amount(y) = Amount(x)
               /\ nscales(y) # 0 /\ DigitAt(y, y.precision) # 0 /\ DigitAt(y, Top(y) - 1) # 0
<1>1. x \in Written /\ \A s \in Int : DigitAt(x, s) \in 0 .. Base - 1
  BY DigitalIs
<1>2. /\ Top(x) \in Nat /\ x.precision \in Nat /\ x.precision <= Top(x) /\ nscales(x) \in Nat
      /\ \A s \in Int : s < x.precision \/ Top(x) <= s => DigitAt(x, s) = 0
  BY <1>1, DigitAtType
<1>3. x.precision < Top(x)
  BY <1>2 DEF Top
<1> DEFINE p == x.precision
           c == Top(x)
           Last(s) == DigitAt(x, s - 1) # 0 /\ \A q \in s .. c : DigitAt(x, q) = 0
           top == CHOOSE s \in p + 1 .. c : Last(s)
<1>4. \E s \in p + 1 .. c : Last(s)
  <2> DEFINE S == {i \in Nat : i <= c - p - 1 /\ DigitAt(x, c - i - 1) # 0}
  <2>1. c - p - 1 \in S
    <3>1. c - p - 1 \in Nat /\ c - (c - p - 1) - 1 = p
      BY <1>2, <1>3
    <3>2. QED
      BY <3>1
  <2>2. PICK i \in S : \A j \in S : i <= j
    <3>1. S \subseteq Nat
      OBVIOUS
    <3> HIDE DEF S
    <3>2. QED
      BY <2>1, <3>1, LeastNatural
  <2>3. i \in Nat /\ i <= c - p - 1 /\ DigitAt(x, c - i - 1) # 0
    OBVIOUS
  <2>4. c - i \in p + 1 .. c
    BY <1>2, <2>3
  <2>5. ASSUME NEW q \in c - i .. c PROVE DigitAt(x, q) = 0
    <3>1. CASE q = c
      BY <1>2, <3>1
    <3>2. CASE q < c
      <4> DEFINE j == c - q - 1
      <4>1. j \in Nat /\ j < i /\ j <= c - p - 1 /\ c - j - 1 = q
        BY <1>2, <2>3, <2>5, <3>2
      <4>2. j \notin S
        <5> HIDE DEF S
        <5> QED  BY <2>2, <2>3, <4>1
      <4>3. QED
        BY <4>1, <4>2
    <3>3. QED
      BY <1>2, <3>1, <3>2
  <2>6. QED
    BY <2>3, <2>4, <2>5
<1>5. top \in p + 1 .. c /\ Last(top)
  <2> HIDE DEF Last
  <2> QED  BY <1>4
<1> DEFINE y == Between(x, p, top)
<1>6. WithoutCoarseZeros(x) = y
  BY DEF WithoutCoarseZeros
<1> HIDE DEF top
<1>7. top \in Nat /\ p < top /\ top <= c /\ DigitAt(x, top - 1) # 0
      /\ \A s \in Nat : top <= s /\ s < Top(x) => DigitAt(x, s) = 0
  BY <1>2, <1>5
<1>8. /\ y \in Written /\ y.sign = x.sign /\ y.precision = p /\ nscales(y) = top - p /\ Top(y) = top
      /\ \A q \in Int : DigitAt(y, q) = IF p <= q /\ q < top THEN DigitAt(x, q) ELSE 0
  <2>1. x \in Written /\ p \in Nat /\ top \in Nat /\ p <= top
    BY <1>1, <1>2, <1>7
  <2> HIDE DEF p
  <2>2. QED
    BY <2>1, BetweenIs
<1>9. Amount(y) = Amount(x) - TicksBelow(x)[p]
  BY <1>1, <1>2, <1>7, AmountOfBetween
<1> HIDE DEF y
<1>10. TicksBelow(x)[p] = 0
  <2>1. \A q \in Nat : 0 <= q /\ q < p => DigitAt(x, q) = 0
    BY <1>2
  <2>2. TicksBelow(x)[p] = TicksBelow(x)[0]
    BY <1>1, <1>2, <2>1, ZeroDigits
  <2>3. QED
    BY <1>1, <2>2, SumOfDigits
<1>11. Amount(y) = Amount(x)
  <2>1. Amount(x) \in Int
    BY <1>1, <1>2, SumOfDigits DEF Amount
  <2>2. QED
    BY <1>9, <1>10, <2>1
<1>12. nscales(y) # 0 /\ DigitAt(y, y.precision) # 0 /\ DigitAt(y, Top(y) - 1) # 0
  BY <1>2, <1>7, <1>8
<1>13. y \in Digital
  <2>1. \A q \in Int : DigitAt(y, q) \in 0 .. Base - 1
    BY <1>1, <1>8, BaseAssumption
  <2>2. QED
    BY <1>8, <2>1, DigitalIs
<1>14. QED
  BY <1>6, <1>8, <1>11, <1>12, <1>13


-----------------------------------------------------------------------------
(* Carrying                                                                *)

\* What is left for the next scale when n is added to the digit of x at s.
Rest(x, s, n) == Truncated(n) + Leftover(x, s, n) \div Base

LEMMA CarryStep ==
    ASSUME NEW x, NEW s \in Int, DigitAt(x, s) \in 0 .. Base - 1, NEW n \in Int
    PROVE  /\ Rest(x, s, n) \in Int /\ Leftover(x, s, n) % Base \in 0 .. Base - 1
           /\ DigitAt(x, s) + n = Base * Rest(x, s, n) + (Leftover(x, s, n) % Base)
           /\ n = 0 => Rest(x, s, n) = 0
           /\ n > 0 => 0 <= Rest(x, s, n) /\ Rest(x, s, n) <= n
           /\ n < 0 => n <= Rest(x, s, n) /\ Rest(x, s, n) <= 0
           /\ DigitAt(x, s) = 0 /\ n > 0 => Rest(x, s, n) < n
           /\ DigitAt(x, s) = 0 /\ n <= -Base => n < Rest(x, s, n)
<1> DEFINE d == DigitAt(x, s)
           t == Truncated(n)
           o == d + n - Base * t
           e == o % Base
           h == o \div Base
           r == t + h
<1>1. Base \in Nat \ {0} /\ Base >= 2 /\ d \in 0 .. Base - 1
  BY BaseAssumption
<1>2. t \in Int
  <2>1. n \div Base \in Int
    BY <1>1, Quotient
  <2>2. (-n) \div Base \in Int
    <3> DEFINE m == -n
    <3>1. m \in Int
      OBVIOUS
    <3> HIDE DEF m
    <3>2. m \div Base \in Int
      BY <1>1, <3>1, Quotient
    <3>3. QED
      BY <3>2 DEF m
  <2>3. QED
    BY <2>1, <2>2 DEF Truncated
<1>3. Rest(x, s, n) = r /\ Leftover(x, s, n) = o
  BY DEF Rest, Leftover
<1> HIDE DEF d, t
<1>4. o \in Int /\ Base * t \in Int
  BY <1>1, <1>2
<1>5. h \in Int /\ e \in 0 .. Base - 1 /\ o = h * Base + e
  <2> HIDE DEF o
  <2> QED  BY <1>1, <1>4, Quotient
<1> HIDE DEF e, h
<1>6. r \in Int /\ Base * r = Base * t + h * Base /\ h * Base \in Int
  BY <1>1, <1>2, <1>5
<1>7. d + n = Base * r + e
  BY <1>1, <1>2, <1>4, <1>5, <1>6
<1> HIDE DEF r, o
<1>8. ASSUME NEW k \in Int, r <= k PROVE Base * r <= Base * k /\ Base * k \in Int
  BY <1>1, <1>6, <1>8
<1>9. ASSUME NEW k \in Int, k <= r PROVE Base * k <= Base * r /\ Base * k \in Int
  BY <1>1, <1>6, <1>9
<1>10. /\ Base * 1 = Base /\ Base * (-1) = -Base /\ Base * 0 = 0
       /\ Base * (n + 1) = Base * n + Base /\ Base * (n - 1) = Base * n - Base
       /\ Base * n \in Int
  BY <1>1
<1>11. /\ n > 0 => Base * n >= 2 * n
       /\ n < 0 => Base * n <= 2 * n
  BY <1>1
<1>12. Base * r \in Int
  BY <1>1, <1>6
<1>13. n = 0 => r = 0
  <2> SUFFICES ASSUME n = 0 PROVE r = 0
    OBVIOUS
  <2>1. ~(r >= 1)
    BY <1>1, <1>5, <1>7, <1>9, <1>10, <1>12
  <2>2. ~(r <= -1)
    BY <1>1, <1>5, <1>7, <1>8, <1>10, <1>12
  <2>3. QED
    BY <1>6, <2>1, <2>2
<1>14. n > 0 => 0 <= r /\ r <= n
  <2> SUFFICES ASSUME n > 0 PROVE 0 <= r /\ r <= n
    OBVIOUS
  <2>1. ~(r <= -1)
    BY <1>1, <1>5, <1>7, <1>8, <1>10, <1>12
  <2>2. ~(n + 1 <= r)
    BY <1>1, <1>5, <1>7, <1>9, <1>10, <1>11, <1>12
  <2>3. QED
    BY <1>6, <2>1, <2>2
<1>15. n < 0 => n <= r /\ r <= 0
  <2> SUFFICES ASSUME n < 0 PROVE n <= r /\ r <= 0
    OBVIOUS
  <2>1. ~(1 <= r)
    BY <1>1, <1>5, <1>7, <1>9, <1>10, <1>12
  <2>2. ~(r <= n - 1)
    BY <1>1, <1>5, <1>7, <1>8, <1>10, <1>11, <1>12
  <2>3. QED
    BY <1>6, <2>1, <2>2
<1>16. d = 0 /\ n > 0 => r < n
  <2> SUFFICES ASSUME d = 0, n > 0 PROVE r < n
    OBVIOUS
  <2>1. ~(n <= r)
    BY <1>1, <1>5, <1>7, <1>9, <1>10, <1>11, <1>12
  <2>2. QED
    BY <1>6, <2>1
<1>17. d = 0 /\ n <= -Base => n < r
  <2> SUFFICES ASSUME d = 0, n <= -Base PROVE n < r
    OBVIOUS
  <2>1. (Base - 1) * n <= (Base - 1) * (-2) /\ (Base - 1) * n = Base * n - n
        /\ (Base - 1) * (-2) = 2 - 2 * Base
    BY <1>1
  <2>2. ~(r <= n)
    BY <1>1, <1>5, <1>7, <1>8, <1>10, <1>12, <2>1
  <2>3. QED
    BY <1>6, <2>2
<1>18. QED
  BY <1>3, <1>5, <1>6, <1>7, <1>13, <1>14, <1>15, <1>16, <1>17 DEF d, e, r

\* The recursive definition of what is carried does define it.
LEMMA CarryIs ==
    ASSUME NEW x \in Digital, NEW dt \in [m : Int, p : Nat]
    PROVE  /\ \A s \in Nat : CarriedTo(x, dt)[s] \in Int
           /\ \A s \in Nat : s <= dt.p => CarriedTo(x, dt)[s] = dt.m
           /\ \A s \in Nat : dt.p <= s => CarriedTo(x, dt)[s + 1] = Rest(x, s, CarriedTo(x, dt)[s])
<1> DEFINE V == Int
           next(i, v) == IF i + 1 <= dt.p THEN dt.m ELSE Rest(x, i, v)
           step == [i \in Nat |-> [v \in V |-> next(i, v)]]
           Rec(g) == [s \in Nat |->
                        IF s <= dt.p THEN dt.m
                        ELSE Truncated(g[s - 1]) + Leftover(x, s - 1, g[s - 1]) \div Base]
           h == CHOOSE g : g = Rec(g)
<1>1. dt.m \in Int /\ dt.p \in Nat
  OBVIOUS
<1>2. \A i \in Nat : DigitAt(x, i) \in 0 .. Base - 1
  BY DigitalIs
<1>3. \A i \in Nat : \A v \in Int : next(i, v) \in Int
  BY <1>1, <1>2, CarryStep
<1>4. \A g : \A s \in Nat : Rec(g)[s] = IF s <= dt.p THEN dt.m ELSE Rest(x, s - 1, g[s - 1])
  BY DEF Rest
<1> HIDE DEF next
<1>5. dt.m \in V /\ step \in [Nat -> [V -> V]]
  BY <1>1, <1>3
<1>6. PICK f : Iterates(f, V, dt.m, step)
  <2> HIDE DEF V, step
  <2> QED  BY <1>5, PrimitiveRecursion
<1>7. f \in [Nat -> Int] /\ f[0] = dt.m /\ \A i \in Nat : f[i + 1] = next(i, f[i])
  BY <1>6 DEF Iterates
<1>8. f = Rec(f)
  <2>1. ASSUME NEW s \in Nat PROVE f[s] = Rec(f)[s]
    <3>1. CASE s = 0
      BY <1>1, <1>4, <1>7, <3>1
    <3>2. CASE s # 0
      <4>1. s - 1 \in Nat /\ (s - 1) + 1 = s
        BY <3>2
      <4> HIDE DEF Rec
      <4>2. f[s] = next(s - 1, f[s - 1])
        BY <1>7, <4>1
      <4>3. QED
        BY <1>4, <4>1, <4>2 DEF next
    <3>3. QED
      BY <3>1, <3>2
  <2>2. f = [s \in Nat |-> f[s]] /\ Rec(f) = [s \in Nat |-> Rec(f)[s]]
    BY <1>7
  <2> HIDE DEF Rec
  <2>3. QED
    BY <2>1, <2>2
<1>9. h = Rec(h)
  <2> HIDE DEF Rec
  <2> QED  BY <1>8
<1>10. CarriedTo(x, dt) = h
  BY DEF CarriedTo
<1> HIDE DEF h
<1>11. \A s \in Nat : h[s] = IF s <= dt.p THEN dt.m ELSE Rest(x, s - 1, h[s - 1])
  <2>1. \A s \in Nat : h[s] = Rec(h)[s]
    BY <1>9
  <2> HIDE DEF Rec
  <2>2. QED
    BY <1>4, <2>1
<1>12. ASSUME NEW s \in Nat, dt.p <= s PROVE h[s + 1] = Rest(x, s, h[s])
  <2>1. s + 1 \in Nat /\ (s + 1) - 1 = s /\ ~(s + 1 <= dt.p)
    BY <1>1, <1>12
  <2>2. QED
    BY <1>11, <2>1
<1>13. \A s \in Nat : dt.p <= s => h[s] \in Int
  <2> DEFINE S == {s \in Nat : h[s] \in Int}
  <2>1. dt.p \in S
    BY <1>1, <1>11
  <2>2. ASSUME NEW k \in Nat, dt.p <= k, k \in S PROVE k + 1 \in S
    <3>1. h[k] \in Int /\ h[k + 1] = Rest(x, k, h[k])
      BY <1>12, <2>2
    <3>2. Rest(x, k, h[k]) \in Int
      <4>1. ASSUME NEW v \in Int PROVE Rest(x, k, v) \in Int
        BY <1>2, CarryStep
      <4>2. QED
        BY <3>1, <4>1
    <3>3. QED
      BY <3>1, <3>2
  <2>3. \A k \in Nat : dt.p <= k => k \in S
    <3> HIDE DEF S
    <3> QED  BY <1>1, <2>1, <2>2, Upwards
  <2>4. QED
    BY <2>3
<1>14. \A s \in Nat : h[s] \in Int
  <2>1. ASSUME NEW s \in Nat PROVE h[s] \in Int
    <3>1. s <= dt.p \/ dt.p <= s
      BY <1>1
    <3>2. QED
      BY <1>1, <1>11, <1>13, <3>1
  <2>2. QED
    BY <2>1
<1>15. QED
  BY <1>10, <1>11, <1>12, <1>14

\* Nothing is left to carry at a scale, or too little to be another digit.
CarryEnds(x, dt, s) ==
    \/ CarriedTo(x, dt)[s] = 0
    \/ s >= Top(x) /\ -Base < CarriedTo(x, dt)[s] /\ CarriedTo(x, dt)[s] < 0

LEMMA CarryEndsSomewhere ==
    ASSUME NEW x \in Digital, NEW dt \in [m : Int, p : Nat], dt.p < Top(x)
    PROVE  \E s \in dt.p + 1 .. Top(x) + Magnitude(dt.m) :
              CarryEnds(x, dt, s) /\ \A q \in dt.p + 1 .. s - 1 : ~CarryEnds(x, dt, q)
<1> DEFINE c == CarriedTo(x, dt)
           p == dt.p
           t == Top(x)
           M == Magnitude(dt.m)
           last == t + M
<1>1. p \in Nat /\ t \in Nat /\ M \in Nat /\ p < t /\ Base \in Nat /\ dt.m \in Int
      /\ \A s \in Nat : DigitAt(x, s) \in 0 .. Base - 1 /\ (t <= s => DigitAt(x, s) = 0)
  <2>1. x \in Written /\ \A s \in Nat : DigitAt(x, s) \in 0 .. Base - 1
    BY DigitalIs
  <2>2. QED
    BY <2>1, DigitAtType, BaseAssumption, MagnitudeIs
<1>2. /\ \A s \in Nat : c[s] \in Int
      /\ c[p] = dt.m
      /\ \A s \in Nat : p <= s => c[s + 1] = Rest(x, s, c[s])
  BY <1>1, CarryIs
<1> HIDE DEF c, p, t, M
<1>3. -M <= c[p] /\ c[p] <= M
  BY <1>2, MagnitudeIs DEF M
<1>4. \A s \in Nat : p <= s => -M <= c[s] /\ c[s] <= M
  <2> DEFINE S == {s \in Nat : -M <= c[s] /\ c[s] <= M}
  <2>1. p \in S
    BY <1>1, <1>3
  <2>2. ASSUME NEW k \in Nat, p <= k, k \in S PROVE k + 1 \in S
    <3> DEFINE n == c[k]
               r == Rest(x, k, n)
    <3>1. n \in Int /\ c[k + 1] = r /\ -M <= n /\ n <= M
      BY <1>2, <2>2
    <3> HIDE DEF n
    <3>2. r \in Int /\ (n = 0 => r = 0) /\ (n > 0 => 0 <= r /\ r <= n) /\ (n < 0 => n <= r /\ r <= 0)
      <4>1. k \in Int /\ DigitAt(x, k) \in 0 .. Base - 1
        BY <1>1
      <4>2. QED
        BY <3>1, <4>1, CarryStep
    <3> HIDE DEF r
    <3>3. -M <= r /\ r <= M
      BY <1>1, <3>1, <3>2
    <3>4. QED
      BY <3>1, <3>3
  <2>3. \A k \in Nat : p <= k => k \in S
    <3> HIDE DEF S
    <3> QED  BY <1>1, <2>1, <2>2, Upwards
  <2>4. QED
    BY <2>3
\* Beyond the digits what is carried gets smaller from scale to scale.
<1> DEFINE Ends(s) == CarryEnds(x, dt, s)
<1>5. \A s \in Nat : ~Ends(s) => c[s] # 0 /\ (t <= s => c[s] > 0 \/ c[s] <= -Base)
  BY <1>1, <1>2 DEF CarryEnds, c, t
<1>6. \E s \in p + 1 .. last : Ends(s)
  <2> SUFFICES ASSUME \A s \in p + 1 .. last : ~Ends(s) PROVE FALSE
    OBVIOUS
  <2> HIDE DEF Ends
  <2> DEFINE S == {s \in Nat : s <= last => -(last - s) <= c[s] /\ c[s] <= last - s}
  <2>1. t \in S
    <3>1. last - t = M
      BY <1>1
    <3>2. QED
      BY <1>1, <1>4, <3>1
  <2>2. ASSUME NEW k \in Nat, t <= k, k \in S PROVE k + 1 \in S
    <3> SUFFICES ASSUME k + 1 <= last
                 PROVE  -(last - (k + 1)) <= c[k + 1] /\ c[k + 1] <= last - (k + 1)
      OBVIOUS
    <3> DEFINE n == c[k]
               r == Rest(x, k, n)
    <3>1. n \in Int /\ c[k + 1] = r /\ -(last - k) <= n /\ n <= last - k
      BY <1>1, <1>2, <2>2
    <3>2. n # 0 /\ (n > 0 \/ n <= -Base) /\ DigitAt(x, k) = 0
      <4>1. k \in p + 1 .. last
        BY <1>1, <2>2
      <4>2. QED
        BY <1>1, <1>5, <2>2, <4>1
    <3> HIDE DEF n
    <3>3. /\ r \in Int
          /\ n > 0 => 0 <= r /\ r < n
          /\ n < 0 => n <= r /\ r <= 0
          /\ n <= -Base => n < r
      <4>1. k \in Int /\ DigitAt(x, k) \in 0 .. Base - 1
        BY <1>1
      <4>2. QED
        BY <3>1, <3>2, <4>1, CarryStep
    <3> HIDE DEF r
    <3>4. -(last - (k + 1)) <= r /\ r <= last - (k + 1)
      BY <1>1, <3>1, <3>2, <3>3
    <3>5. QED
      BY <3>1, <3>4
  <2>3. \A k \in Nat : t <= k => k \in S
    <3> HIDE DEF S
    <3> QED  BY <1>1, <2>1, <2>2, Upwards
  <2>4. c[last] = 0
    <3>1. last \in Nat /\ t <= last /\ last <= last /\ last - last = 0
      BY <1>1
    <3>2. last \in S
      <4> HIDE DEF S, last
      <4> QED  BY <2>3, <3>1
    <3>3. c[last] \in Int
      BY <1>2, <3>1
    <3>4. QED
      BY <3>1, <3>2, <3>3
  <2>5. last \in p + 1 .. last /\ last \in Nat
    BY <1>1
  <2>6. QED
    BY <1>5, <2>4, <2>5
<1>7. PICK s \in p + 1 .. last : Ends(s) /\ \A i \in p + 1 .. last : Ends(i) => s <= i
  <2> DEFINE S == {s \in p + 1 .. last : Ends(s)}
  <2>1. S # {}
    BY <1>6
  <2>2. S \subseteq Nat
    BY <1>1
  <2>3. PICK s \in S : \A i \in S : s <= i
    <3> HIDE DEF S
    <3> QED  BY <2>1, <2>2, LeastNatural
  <2>4. QED
    BY <2>3
<1>8. \A q \in p + 1 .. s - 1 : ~Ends(q)
  <2> HIDE DEF Ends
  <2>1. ASSUME NEW q \in p + 1 .. s - 1, Ends(q) PROVE FALSE
    <3>1. q \in p + 1 .. last /\ q < s
      BY <1>1, <1>7, <2>1
    <3>2. QED
      BY <1>1, <1>7, <2>1, <3>1
  <2>2. QED
    BY <2>1
<1>9. QED
  BY <1>7, <1>8 DEF p, t, M


\* Beyond the digits the sum stays as it is.
LEMMA AmountFrom ==
    ASSUME NEW x \in Written, NEW s \in Nat, Top(x) <= s
    PROVE  TicksBelow(x)[s] = Amount(x) /\ Amount(x) \in Int
<1>1. Top(x) \in Nat /\ \A q \in Int : Top(x) <= q => DigitAt(x, q) = 0
  BY DigitAtType
<1>2. \A q \in Nat : Top(x) <= q /\ q < s => DigitAt(x, q) = 0
  BY <1>1
<1>3. TicksBelow(x)[s] = TicksBelow(x)[Top(x)]
  BY <1>1, <1>2, ZeroDigits
<1>4. QED
  BY <1>1, <1>3, SumOfDigits DEF Amount

\* Where the carrying ends, and the digits it leaves.
LEMMA CarriedDigits ==
    ASSUME NEW x \in Digital, NEW dt \in [m : Int, p : Nat],
           x.precision <= dt.p, dt.p < Top(x)
    PROVE  LET y == Carried(x, dt)
               c == CarriedTo(x, dt)
           IN  /\ y \in Written /\ y.sign = x.sign /\ y.precision = x.precision
               /\ Top(x) <= Top(y)
               /\ \E e \in Nat :
                     /\ dt.p < e
                     /\ CarryEnds(x, dt, e)
                     /\ IF c[e] = 0 THEN e <= Top(y) ELSE Top(y) = e + 1
                     /\ \A s \in Int :
                           DigitAt(y, s) = IF s < dt.p \/ e < s THEN DigitAt(x, s)
                                           ELSE IF s = e THEN DigitAt(x, s) + c[s]
                                           ELSE Leftover(x, s, c[s]) % Base
<1> DEFINE c == CarriedTo(x, dt)
           Ends(s) == c[s] = 0 \/ (s >= Top(x) /\ -Base < c[s] /\ c[s] < 0)
           e == CHOOSE s \in dt.p + 1 .. Top(x) + Magnitude(dt.m) :
                   Ends(s) /\ \A q \in dt.p + 1 .. s - 1 : ~Ends(q)
           Digit(s) == IF s < dt.p \/ e < s THEN DigitAt(x, s)
                       ELSE IF s = e THEN DigitAt(x, s) + c[s]
                       ELSE Leftover(x, s, c[s]) % Base
           top == Coarser(Top(x), IF c[e] = 0 THEN e ELSE e + 1)
           f == [i \in 1 .. top - x.precision |-> Digit(x.precision + i - 1)]
           y == [x EXCEPT !.digits = f]
<1>1. Carried(x, dt) = y
  BY DEF Carried
<1>2. /\ x \in Written /\ x.precision \in Nat /\ Top(x) \in Nat /\ dt.p \in Nat
      /\ \A s \in Int : DigitAt(x, s) \in 0 .. Base - 1
      /\ \A s \in Int : s < x.precision \/ Top(x) <= s => DigitAt(x, s) = 0
  <2>1. x \in Written /\ \A s \in Int : DigitAt(x, s) \in 0 .. Base - 1
    BY DigitalIs
  <2>2. QED
    BY <2>1, DigitAtType
<1>3. e \in dt.p + 1 .. Top(x) + Magnitude(dt.m) /\ Ends(e)
  <2>1. \E s \in dt.p + 1 .. Top(x) + Magnitude(dt.m) : Ends(s) /\ \A q \in dt.p + 1 .. s - 1 : ~Ends(q)
    BY CarryEndsSomewhere DEF CarryEnds
  <2> HIDE DEF Ends
  <2>2. QED
    BY <2>1
<1>4. CarryEnds(x, dt, e)
  <2> HIDE DEF e
  <2> QED  BY <1>3 DEF CarryEnds
<1> HIDE DEF e
<1>5. e \in Nat /\ dt.p < e
  BY <1>2, <1>3, MagnitudeIs
<1>6. \A s \in Nat : c[s] \in Int
  BY CarryIs
<1>7. top \in Nat /\ Top(x) <= top /\ (IF c[e] = 0 THEN e <= top ELSE top = e + 1)
  <2>1. c[e] # 0 => Top(x) <= e
    BY <1>3
  <2>2. QED
    BY <1>2, <1>5, <2>1 DEF Coarser
<1>8. x.precision <= top /\ x.precision <= Top(x)
  BY <1>2, <1>5, <1>7
<1> HIDE DEF top, c
<1>9. \A s \in Int : Digit(s) \in Int
  <2>1. ASSUME NEW s \in Int, dt.p <= s, s < e PROVE Leftover(x, s, c[s]) % Base \in Int
    <3>1. s \in Nat /\ DigitAt(x, s) \in 0 .. Base - 1
      BY <1>2, <2>1
    <3>2. c[s] \in Int
      BY <1>6, <3>1
    <3>3. \A n \in Int : Leftover(x, s, n) % Base \in 0 .. Base - 1
      BY <3>1, CarryStep
    <3>4. QED
      BY <3>2, <3>3, BaseAssumption
  <2>2. DigitAt(x, e) + c[e] \in Int
    BY <1>2, <1>5, <1>6
  <2>3. QED
    BY <1>2, <1>5, <2>1, <2>2
<1>10. \A s \in Int : s < x.precision \/ top <= s => Digit(s) = 0
  <2>1. ASSUME NEW s \in Int, s < x.precision PROVE Digit(s) = 0
    BY <1>2, <2>1
  <2>2. ASSUME NEW s \in Int, top <= s PROVE Digit(s) = 0
    <3>1. Top(x) <= s /\ DigitAt(x, s) = 0 /\ e <= s
      BY <1>2, <1>5, <1>7, <2>2
    <3>2. CASE e = s
      <4>1. c[e] = 0
        BY <1>5, <1>7, <2>2, <3>2
      <4>2. QED
        BY <1>5, <3>1, <3>2, <4>1
    <3>3. CASE e < s
      BY <1>5, <3>1, <3>3
    <3>4. QED
      BY <1>5, <3>1, <3>2, <3>3
  <2>3. QED
    BY <2>1, <2>2
<1> HIDE DEF Digit
<1>11. top - x.precision \in Nat
  BY <1>2, <1>7, <1>8
<1>12. f \in Seq(Int) /\ Len(f) = top - x.precision
  <2>1. \A i \in 1 .. top - x.precision : x.precision + i - 1 \in Int
    BY <1>2, <1>11
  <2>2. f \in [1 .. top - x.precision -> Int]
    BY <1>9, <2>1
  <2> DEFINE n == top - x.precision
  <2> HIDE DEF f, n
  <2>3. n \in Nat => f \in Seq(Int) /\ Len(f) = n
    BY <2>2 DEF n
  <2>4. QED
    BY <1>11, <2>3 DEF n
<1>13. \A i \in 1 .. top - x.precision : f[i] = Digit(x.precision + i - 1)
  OBVIOUS
<1> HIDE DEF f
<1>14. y \in Written /\ y.sign = x.sign /\ y.precision = x.precision /\ y.digits = f
  BY <1>2, <1>12 DEF Written
<1> HIDE DEF y
<1>15. Top(y) = top
  <2>1. nscales(y) = top - x.precision /\ Top(y) = y.precision + nscales(y)
    BY <1>12, <1>14, DigitAtType DEF nscales
  <2>2. QED
    BY <1>2, <1>7, <1>14, <2>1
<1>16. ASSUME NEW s \in Int PROVE DigitAt(y, s) = Digit(s)
  <2>1. CASE x.precision <= s /\ s < top
    <3>1. DigitAt(y, s) = f[s - x.precision + 1]
      BY <1>14, <1>15, <2>1 DEF DigitAt
    <3>2. s - x.precision + 1 \in 1 .. top - x.precision /\ x.precision + (s - x.precision + 1) - 1 = s
      BY <1>2, <1>7, <2>1
    <3>3. f[s - x.precision + 1] = Digit(x.precision + (s - x.precision + 1) - 1)
      BY <1>13, <3>2
    <3>4. QED
      BY <3>1, <3>2, <3>3
  <2>2. CASE ~(x.precision <= s /\ s < top)
    <3>1. DigitAt(y, s) = 0
      BY <1>14, <1>15, <2>2 DEF DigitAt
    <3>2. s < x.precision \/ top <= s
      BY <1>2, <1>7, <2>2
    <3>3. QED
      BY <1>10, <3>1, <3>2
  <2>3. QED
    BY <2>1, <2>2
<1>17. \E i \in Nat :
          /\ dt.p < i
          /\ CarryEnds(x, dt, i)
          /\ IF c[i] = 0 THEN i <= Top(y) ELSE Top(y) = i + 1
          /\ \A s \in Int :
                DigitAt(y, s) = IF s < dt.p \/ i < s THEN DigitAt(x, s)
                                ELSE IF s = i THEN DigitAt(x, s) + c[s]
                                ELSE Leftover(x, s, c[s]) % Base
  <2>1. e \in Nat /\ dt.p < e
    BY <1>5
  <2>2. IF c[e] = 0 THEN e <= Top(y) ELSE Top(y) = e + 1
    BY <1>7, <1>15
  <2>3. \A s \in Int :
           DigitAt(y, s) = IF s < dt.p \/ e < s THEN DigitAt(x, s)
                           ELSE IF s = e THEN DigitAt(x, s) + c[s]
                           ELSE Leftover(x, s, c[s]) % Base
    BY <1>16, Zenon DEF Digit
  <2>4. QED
    BY <1>4, <2>1, <2>2, <2>3
<1>18. QED
  BY <1>1, <1>7, <1>14, <1>15, <1>17 DEF c, y


\* All digits are in range but the coarsest, which may be negative.
Signless(y) ==
    /\ \A s \in Int : s # Top(y) - 1 => DigitAt(y, s) \in 0 .. Base - 1
    /\ DigitAt(y, Top(y) - 1) \in 1 - Base .. Base - 1

\* The digits after the carrying denote the number with the ticks added.
LEMMA CarriedIs ==
    ASSUME NEW x \in Digital, NEW dt \in [m : Int, p : Nat],
           x.precision <= dt.p, dt.p < Top(x)
    PROVE  LET y == Carried(x, dt)
           IN  /\ y \in Written /\ y.sign = x.sign /\ Signless(y)
               /\ Amount(y) = Amount(x) + dt.m * Tick(dt.p)
<1> DEFINE y == Carried(x, dt)
           c == CarriedTo(x, dt)
           p == dt.p
<1>1. /\ x \in Written /\ x.precision \in Nat /\ Top(x) \in Nat /\ p \in Nat /\ dt.m \in Int
      /\ \A s \in Int : DigitAt(x, s) \in 0 .. Base - 1
      /\ \A s \in Int : Top(x) <= s => DigitAt(x, s) = 0
  <2>1. x \in Written /\ \A s \in Int : DigitAt(x, s) \in 0 .. Base - 1
    BY DigitalIs
  <2>2. QED
    BY <2>1, DigitAtType
<1>2. /\ y \in Written /\ y.sign = x.sign /\ y.precision = x.precision
      /\ Top(x) <= Top(y)
      /\ \E e \in Nat :
            /\ p < e
            /\ CarryEnds(x, dt, e)
            /\ IF c[e] = 0 THEN e <= Top(y) ELSE Top(y) = e + 1
            /\ \A s \in Int :
                  DigitAt(y, s) = IF s < p \/ e < s THEN DigitAt(x, s)
                                  ELSE IF s = e THEN DigitAt(x, s) + c[s]
                                  ELSE Leftover(x, s, c[s]) % Base
  BY CarriedDigits
<1>3. /\ \A s \in Nat : c[s] \in Int
      /\ c[p] = dt.m
      /\ \A s \in Nat : p <= s => c[s + 1] = Rest(x, s, c[s])
  BY <1>1, CarryIs
<1> HIDE DEF y, p
<1>4. PICK e \in Nat :
            /\ p < e
            /\ CarryEnds(x, dt, e)
            /\ IF c[e] = 0 THEN e <= Top(y) ELSE Top(y) = e + 1
            /\ \A s \in Int :
                  DigitAt(y, s) = IF s < p \/ e < s THEN DigitAt(x, s)
                                  ELSE IF s = e THEN DigitAt(x, s) + c[s]
                                  ELSE Leftover(x, s, c[s]) % Base
  BY <1>2
<1>5. c[e] = 0 \/ (Top(x) <= e /\ -Base < c[e] /\ c[e] < 0)
  BY <1>4 DEF CarryEnds
<1> HIDE DEF c
<1>6. Top(y) \in Nat /\ c[e] \in Int /\ Base \in Nat /\ Base > 1
  BY <1>2, <1>3, <1>4, DigitAtType, BaseAssumption
<1>7. ASSUME NEW s \in Int, p <= s, s < e
      PROVE  /\ DigitAt(y, s) \in 0 .. Base - 1
             /\ DigitAt(x, s) + c[s] = Base * c[s + 1] + DigitAt(y, s)
             /\ s \in Nat /\ c[s] \in Int /\ c[s + 1] \in Int
  <2>1. s \in Nat /\ DigitAt(x, s) \in 0 .. Base - 1 /\ s # e /\ ~(s < p \/ e < s)
    BY <1>1, <1>7
  <2>2. c[s] \in Int /\ c[s + 1] \in Int /\ c[s + 1] = Rest(x, s, c[s])
    BY <1>3, <1>7, <2>1
  <2>3. DigitAt(y, s) = Leftover(x, s, c[s]) % Base
    BY <1>4, <2>1
  <2>4. \A n \in Int : /\ Leftover(x, s, n) % Base \in 0 .. Base - 1
                       /\ DigitAt(x, s) + n = Base * Rest(x, s, n) + (Leftover(x, s, n) % Base)
    BY <2>1, CarryStep
  <2>5. QED
    BY <2>1, <2>2, <2>3, <2>4
<1>8. Signless(y)
  <2>1. ASSUME NEW s \in Int, s # e PROVE DigitAt(y, s) \in 0 .. Base - 1
    <3>1. CASE p <= s /\ s < e
      BY <1>7, <3>1
    <3>2. CASE ~(p <= s /\ s < e)
      <4>1. s < p \/ e < s
        BY <1>1, <1>4, <2>1, <3>2
      <4>2. DigitAt(y, s) = DigitAt(x, s)
        BY <1>4, <4>1
      <4>3. QED
        BY <1>1, <4>2
    <3>3. QED
      BY <3>1, <3>2
  <2>2. DigitAt(y, e) = DigitAt(x, e) + c[e]
    <3>1. ~(e < p \/ e < e)
      BY <1>1, <1>4
    <3>2. QED
      BY <1>4, <3>1
  <2>3. CASE c[e] = 0
    <3>1. DigitAt(x, e) \in 0 .. Base - 1
      BY <1>1
    <3>2. DigitAt(y, e) \in 0 .. Base - 1
      BY <2>2, <2>3, <3>1
    <3>3. \A s \in Int : DigitAt(y, s) \in 0 .. Base - 1
      BY <2>1, <3>2
    <3>4. Top(y) - 1 \in Int
      BY <1>6
    <3>5. DigitAt(y, Top(y) - 1) \in 0 .. Base - 1
      BY <3>3, <3>4
    <3>6. DigitAt(y, Top(y) - 1) \in 1 - Base .. Base - 1
      BY <1>6, <3>5
    <3>7. QED
      BY <3>3, <3>6 DEF Signless
  <2>4. CASE c[e] # 0
    <3>1. Top(y) - 1 = e /\ Top(x) <= e /\ -Base < c[e] /\ c[e] < 0
      BY <1>4, <1>5, <1>6, <2>4
    <3>2. DigitAt(x, e) = 0
      BY <1>1, <3>1
    <3>3. DigitAt(y, e) \in 1 - Base .. Base - 1
      BY <1>6, <2>2, <3>1, <3>2
    <3>4. QED
      BY <2>1, <3>1, <3>3 DEF Signless
  <2>5. QED
    BY <2>3, <2>4
\* Up to the scale s the ticks are there but for what is yet to carry.
<1> DEFINE d == dt.m * Tick(p)
           S == {s \in Nat : s <= e => TicksBelow(y)[s] = TicksBelow(x)[s] + d - c[s] * Tick(s)}
<1>9. d \in Int
  BY <1>1, TickPositive
<1>10. p \in S
  <2>1. \A s \in Nat : 0 <= s /\ s < p => DigitAt(y, s) = DigitAt(x, s)
    BY <1>4
  <2>2. TicksBelow(y)[0] = TicksBelow(x)[0] + 0
    BY <1>1, <1>2, SumOfDigits
  <2>3. \A s \in Nat : 0 <= s /\ s <= p => TicksBelow(y)[s] = TicksBelow(x)[s] + 0
    <3>1. x \in Written /\ y \in Written /\ p \in Nat
      BY <1>1, <1>2
    <3>2. QED
      BY <2>1, <2>2, <3>1, SameDigits
  <2>4. TicksBelow(y)[p] = TicksBelow(x)[p] + 0 /\ TicksBelow(x)[p] \in Int
    BY <1>1, <2>3, SumOfDigits
  <2>5. c[p] * Tick(p) = d
    BY <1>3
  <2> HIDE DEF d
  <2>6. QED
    BY <1>1, <1>9, <2>4, <2>5
<1>11. ASSUME NEW k \in Nat, p <= k, k \in S PROVE k + 1 \in S
  <2> SUFFICES ASSUME k + 1 <= e
               PROVE  TicksBelow(y)[k + 1] = TicksBelow(x)[k + 1] + d - c[k + 1] * Tick(k + 1)
    OBVIOUS
  <2>1. TicksBelow(y)[k] = TicksBelow(x)[k] + d - c[k] * Tick(k)
    BY <1>11
  <2>2. /\ TicksBelow(y)[k + 1] = TicksBelow(y)[k] + DigitAt(y, k) * Tick(k)
        /\ TicksBelow(x)[k + 1] = TicksBelow(x)[k] + DigitAt(x, k) * Tick(k)
        /\ TicksBelow(x)[k] \in Int /\ TicksBelow(y)[k] \in Int
    BY <1>1, <1>2, SumOfDigits
  <2>3. k \in Int /\ k < e
    OBVIOUS
  <2>4. /\ DigitAt(y, k) \in Int /\ DigitAt(x, k) \in Int /\ c[k] \in Int /\ c[k + 1] \in Int
        /\ DigitAt(x, k) + c[k] = Base * c[k + 1] + DigitAt(y, k)
    BY <1>1, <1>6, <1>7, <1>11, <2>3
  <2>5. Tick(k + 1) = Base * Tick(k) /\ Tick(k) \in Nat
    BY TickNext, TickPositive
  <2> DEFINE a == DigitAt(x, k)
             b == DigitAt(y, k)
             n == c[k]
             r == c[k + 1]
             T == Tick(k)
  <2> HIDE DEF a, b, n, r, T, d
  <2>6. a \in Int /\ b \in Int /\ n \in Int /\ r \in Int /\ T \in Nat /\ a + n = Base * r + b
    BY <2>4, <2>5 DEF a, b, n, r, T
  <2>7. b * T - n * T = a * T - r * (Base * T)
    <3>1. b = a + n - Base * r /\ Base * r \in Int
      BY <1>6, <2>6
    <3>2. (a + n - Base * r) * T = a * T + n * T - (Base * r) * T
      BY <1>6, <2>6, <3>1
    <3>3. (Base * r) * T = r * (Base * T)
      BY <1>6, <2>6
    <3>4. a * T \in Int /\ n * T \in Int /\ r * (Base * T) \in Int
      BY <1>6, <2>6
    <3>5. QED
      BY <3>1, <3>2, <3>3, <3>4
  <2>8. b * T \in Int /\ n * T \in Int /\ a * T \in Int /\ r * (Base * T) \in Int
    BY <1>6, <2>6
  <2>9. /\ TicksBelow(y)[k + 1] = (TicksBelow(x)[k] + d - n * T) + b * T
        /\ TicksBelow(x)[k + 1] = TicksBelow(x)[k] + a * T
        /\ c[k + 1] * Tick(k + 1) = r * (Base * T)
    BY <2>1, <2>2, <2>5 DEF a, b, n, r, T
  <2>10. QED
    BY <1>9, <2>2, <2>7, <2>8, <2>9
<1>12. TicksBelow(y)[e] = TicksBelow(x)[e] + d - c[e] * Tick(e)
  <2>1. \A k \in Nat : p <= k => k \in S
    <3> HIDE DEF S
    <3> QED  BY <1>1, <1>10, <1>11, Upwards
  <2>2. p <= e
    BY <1>1, <1>4
  <2>3. e \in S
    <3> HIDE DEF S
    <3> QED  BY <2>1, <2>2
  <2>4. e <= e
    OBVIOUS
  <2> HIDE DEF d
  <2>5. QED
    BY <2>3, <2>4
<1>13. TicksBelow(y)[e + 1] = TicksBelow(x)[e + 1] + d
  <2>1. DigitAt(y, e) = DigitAt(x, e) + c[e]
    <3>1. ~(e < p \/ e < e)
      BY <1>1, <1>4
    <3>2. QED
      BY <1>4, <3>1
  <2>2. /\ TicksBelow(y)[e + 1] = TicksBelow(y)[e] + DigitAt(y, e) * Tick(e)
        /\ TicksBelow(x)[e + 1] = TicksBelow(x)[e] + DigitAt(x, e) * Tick(e)
        /\ TicksBelow(x)[e] \in Int
    BY <1>1, <1>2, SumOfDigits
  <2>3. DigitAt(x, e) \in Int /\ Tick(e) \in Nat
    BY <1>1, TickPositive
  <2> DEFINE a == DigitAt(x, e)
             n == c[e]
             T == Tick(e)
  <2> HIDE DEF a, n, T, d
  <2>4. a \in Int /\ n \in Int /\ T \in Nat
    BY <1>6, <2>3 DEF a, n, T
  <2>5. (a + n) * T = a * T + n * T /\ a * T \in Int /\ n * T \in Int
    BY <2>4
  <2>6. /\ TicksBelow(y)[e + 1] = (TicksBelow(x)[e] + d - n * T) + (a + n) * T
        /\ TicksBelow(x)[e + 1] = TicksBelow(x)[e] + a * T
    BY <1>12, <2>1, <2>2 DEF a, n, T
  <2>7. QED
    BY <1>9, <2>2, <2>5, <2>6
<1>14. Amount(y) = Amount(x) + d
  <2> DEFINE b == Top(y) + e + 1
  <2>1. b \in Nat /\ e + 1 \in Nat /\ e + 1 <= b /\ Top(y) <= b /\ Top(x) <= b
    BY <1>1, <1>2, <1>6
  <2> HIDE DEF b, d
  <2>2. \A s \in Nat : e + 1 <= s /\ s < b => DigitAt(y, s) = DigitAt(x, s)
    BY <1>4
  <2>3. \A s \in Nat : e + 1 <= s /\ s <= b => TicksBelow(y)[s] = TicksBelow(x)[s] + d
    <3>1. x \in Written /\ y \in Written /\ d \in Int
      BY <1>1, <1>2, <1>9
    <3>2. QED
      BY <1>13, <2>1, <2>2, <3>1, SameDigits
  <2>4. TicksBelow(y)[b] = TicksBelow(x)[b] + d
    BY <2>1, <2>3
  <2>5. TicksBelow(y)[b] = Amount(y) /\ TicksBelow(x)[b] = Amount(x)
    BY <1>1, <1>2, <2>1, AmountFrom
  <2>6. QED
    BY <2>4, <2>5
<1>15. QED
  BY <1>2, <1>8, <1>14 DEF y, p


-----------------------------------------------------------------------------
(* Changing the sign                                                       *)

\* Complementing the digits of a number that has come out negative makes a
\* time point of them, of the other sign and of the same value.
LEMMA FlippedIs ==
    ASSUME NEW y \in Written, Signless(y), nscales(y) # 0, DigitAt(y, y.precision) # 0
    PROVE  LET z == Flipped(y)
           IN  /\ z \in Digital /\ nscales(z) # 0 /\ DigitAt(z, z.precision) # 0
               /\ z.sign * Amount(z) = y.sign * Amount(y)
<1> DEFINE n == nscales(y)
           p == y.precision
           t == Top(y)
           f == [i \in 1 .. n |-> (IF i = n THEN -y.digits[i] ELSE Base - y.digits[i])
                                  - (IF i > 1 THEN 1 ELSE 0)]
           z == [y EXCEPT !.sign = -y.sign, !.digits = f]
           at(s) == (IF s = t - 1 THEN -DigitAt(y, s) ELSE Base - DigitAt(y, s))
                    - (IF s > p THEN 1 ELSE 0)
<1>1. /\ n \in Nat \ {0} /\ t \in Nat /\ t = p + n /\ p < t /\ p \in Nat
      /\ \A s \in Int : DigitAt(y, s) \in Int
      /\ \A s \in Int : s < p \/ t <= s => DigitAt(y, s) = 0
      /\ Base \in Nat /\ Base > 1
  BY DigitAtType, BaseAssumption
<1>2. /\ \A s \in Int : s # t - 1 => DigitAt(y, s) \in 0 .. Base - 1
      /\ DigitAt(y, t - 1) \in 1 - Base .. Base - 1
      /\ DigitAt(y, p) # 0
  BY DEF Signless
<1>3. y.sign \in {1, -1} /\ y.digits \in Seq(Int) /\ Len(y.digits) = n
  BY DEF Written, nscales
<1>4. Flipped(y) = IF y.digits[n] >= 0 THEN y ELSE z
  BY DEF Flipped
<1>5. \A i \in 1 .. n : y.digits[i] \in Int /\ y.digits[i] = DigitAt(y, p + i - 1)
  <2>1. ASSUME NEW i \in 1 .. n PROVE y.digits[i] \in Int /\ y.digits[i] = DigitAt(y, p + i - 1)
    <3>1. p + i - 1 \in Int /\ p <= p + i - 1 /\ p + i - 1 < t /\ (p + i - 1) - p + 1 = i
      BY <1>1, <2>1
    <3>2. y.digits[i] \in Int
      BY <1>3, <2>1
    <3> HIDE DEF p, t
    <3>3. DigitAt(y, p + i - 1) = y.digits[(p + i - 1) - p + 1]
      BY <3>1 DEF DigitAt, p, t
    <3>4. QED
      BY <3>1, <3>2, <3>3
  <2>2. QED
    BY <2>1
<1> HIDE DEF n, p, t
<1>6. y.digits[n] = DigitAt(y, t - 1)
  <2>1. n \in 1 .. n /\ p + n - 1 = t - 1
    BY <1>1
  <2>2. QED
    BY <1>5, <2>1
<1>7. CASE y.digits[n] >= 0
  <2>1. Flipped(y) = y
    BY <1>4, <1>7
  <2>2. \A s \in Int : DigitAt(y, s) \in 0 .. Base - 1
    <3>1. DigitAt(y, t - 1) \in 0 .. Base - 1
      BY <1>1, <1>2, <1>6, <1>7
    <3>2. QED
      BY <1>2, <3>1
  <2>3. y \in Digital
    BY <2>2, DigitalIs
  <2>4. QED
    BY <2>1, <2>3
<1>8. CASE ~(y.digits[n] >= 0)
  <2>1. Flipped(y) = z
    BY <1>4, <1>8
  <2>2. f \in Seq(Int) /\ Len(f) = n
    <3>1. f \in [1 .. n -> Int]
      BY <1>1, <1>5
    <3> HIDE DEF f
    <3>2. QED
      BY <1>1, <3>1
  <2>3. \A i \in 1 .. n : f[i] = at(p + i - 1)
    <3>1. ASSUME NEW i \in 1 .. n PROVE f[i] = at(p + i - 1)
      <4>1. p + i - 1 \in Int /\ (i = n <=> p + i - 1 = t - 1) /\ (i > 1 <=> p + i - 1 > p)
        BY <1>1
      <4>2. f[i] = (IF i = n THEN -y.digits[i] ELSE Base - y.digits[i]) - (IF i > 1 THEN 1 ELSE 0)
        OBVIOUS
      <4>3. y.digits[i] = DigitAt(y, p + i - 1)
        BY <1>5
      <4> HIDE DEF f
      <4>4. QED
        BY <4>1, <4>2, <4>3
    <3>2. QED
      BY <3>1
  <2> HIDE DEF f
  <2>4. z \in Written /\ z.sign = -y.sign /\ z.precision = p /\ z.digits = f
    <3> DEFINE sign == -y.sign
    <3>1. sign \in {1, -1}
      BY <1>3
    <3>2. y.precision \in Nat
      BY <1>1 DEF p
    <3> HIDE DEF sign
    <3>3. \A a \in {1, -1} : \A b \in Seq(Int) :
             LET w == [y EXCEPT !.sign = a, !.digits = b]
             IN  w \in Written /\ w.sign = a /\ w.precision = y.precision /\ w.digits = b
      BY DEF Written
    <3>4. z = [y EXCEPT !.sign = sign, !.digits = f]
      BY DEF sign
    <3> HIDE DEF z
    <3>5. z \in Written /\ z.sign = sign /\ z.precision = y.precision /\ z.digits = f
      BY <2>2, <3>1, <3>3, <3>4
    <3>6. QED
      BY <3>5 DEF sign, p
  <2> HIDE DEF z
  <2>5. Top(z) = t /\ nscales(z) = n
    BY <1>1, <2>2, <2>4 DEF Top, nscales
  <2>6. ASSUME NEW s \in Int PROVE DigitAt(z, s) = IF p <= s /\ s < t THEN at(s) ELSE 0
    <3>1. CASE p <= s /\ s < t
      <4>1. DigitAt(z, s) = f[s - p + 1]
        BY <2>4, <2>5, <3>1 DEF DigitAt
      <4>2. s - p + 1 \in 1 .. n /\ p + (s - p + 1) - 1 = s
        BY <1>1, <3>1
      <4>3. f[s - p + 1] = at(p + (s - p + 1) - 1)
        BY <2>3, <4>2
      <4>4. QED
        BY <3>1, <4>1, <4>2, <4>3
    <3>2. CASE ~(p <= s /\ s < t)
      BY <2>4, <2>5, <3>2 DEF DigitAt
    <3>3. QED
      BY <3>1, <3>2
  <2>7. \A s \in Int : p < s /\ s < t - 1 => at(s) = Base - DigitAt(y, s) - 1
    BY <1>1
  <2>8. p < t - 1 => at(p) = Base - DigitAt(y, p) /\ at(t - 1) = -DigitAt(y, t - 1) - 1
    BY <1>1
  <2>9. p = t - 1 => at(t - 1) = -DigitAt(y, t - 1)
    BY <1>1
  <2> HIDE DEF at
  <2>10. DigitAt(y, t - 1) \in 1 - Base .. -1
    BY <1>1, <1>2, <1>6, <1>8
  <2>11. \A s \in Int : DigitAt(z, s) \in 0 .. Base - 1
    <3>1. ASSUME NEW s \in Int, p <= s, s < t PROVE at(s) \in 0 .. Base - 1
      <4>1. CASE p < s /\ s < t - 1
        <5>1. DigitAt(y, s) \in 0 .. Base - 1
          BY <1>1, <1>2, <4>1
        <5>2. QED
          BY <1>1, <2>7, <4>1, <5>1
      <4>2. CASE p = s /\ s < t - 1
        <5>1. DigitAt(y, s) \in 1 .. Base - 1
          BY <1>1, <1>2, <4>2
        <5>2. QED
          BY <1>1, <2>8, <4>2, <5>1
      <4>3. CASE p < s /\ s = t - 1
        BY <1>1, <2>8, <2>10, <4>3
      <4>4. CASE p = s /\ s = t - 1
        BY <1>1, <2>9, <2>10, <4>4
      <4>5. QED
        BY <1>1, <3>1, <4>1, <4>2, <4>3, <4>4
    <3>2. QED
      BY <1>1, <2>6, <3>1
  <2>12. DigitAt(z, p) # 0
    <3>1. DigitAt(z, p) = at(p)
      BY <1>1, <2>6
    <3>2. CASE p < t - 1
      <4>1. DigitAt(y, p) \in 0 .. Base - 1
        BY <1>1, <1>2, <3>2
      <4>2. QED
        BY <1>1, <2>8, <3>1, <3>2, <4>1
    <3>3. CASE p = t - 1
      BY <1>1, <2>9, <2>10, <3>1, <3>3
    <3>4. QED
      BY <1>1, <3>2, <3>3
  <2>13. z \in Digital
    BY <2>4, <2>11, DigitalIs
\* Both numbers below a scale within the digits make one tick of it.
  <2>14. Amount(z) = -Amount(y)
    <3>1. TicksBelow(y)[p] = 0 /\ TicksBelow(z)[p] = 0
      <4>1. \A s \in Nat : 0 <= s /\ s < p => DigitAt(y, s) = 0
        BY <1>1
      <4>2. \A s \in Nat : 0 <= s /\ s < p => DigitAt(z, s) = 0
        BY <1>1, <2>6
      <4>3. TicksBelow(y)[p] = TicksBelow(y)[0]
        BY <1>1, <4>1, ZeroDigits
      <4>4. TicksBelow(z)[p] = TicksBelow(z)[0]
        BY <1>1, <2>4, <4>2, ZeroDigits
      <4>5. QED
        BY <2>4, <4>3, <4>4, SumOfDigits
    <3>2. ASSUME NEW s \in Nat, p <= s, s < t
          PROVE  /\ TicksBelow(y)[s + 1] = TicksBelow(y)[s] + DigitAt(y, s) * Tick(s)
                 /\ TicksBelow(z)[s + 1] = TicksBelow(z)[s] + at(s) * Tick(s)
                 /\ TicksBelow(y)[s] \in Int /\ TicksBelow(z)[s] \in Int
      <4>1. DigitAt(z, s) = at(s)
        BY <2>6, <3>2
      <4>2. QED
        BY <2>4, <4>1, SumOfDigits
    <3>3. \A s \in Nat : Tick(s) \in Nat /\ Tick(s + 1) = Base * Tick(s)
      BY TickPositive, TickNext
    <3>4. ASSUME NEW s \in Nat, p < s, s < t PROVE TicksBelow(y)[s] + TicksBelow(z)[s] = Tick(s)
      <4> DEFINE S == {k \in Nat : k < t => TicksBelow(y)[k] + TicksBelow(z)[k] = Tick(k)}
      <4>1. p + 1 \in S
        <5> SUFFICES ASSUME p + 1 < t
                     PROVE  TicksBelow(y)[p + 1] + TicksBelow(z)[p + 1] = Tick(p + 1)
          BY <1>1
        <5>1. at(p) = Base - DigitAt(y, p)
          BY <1>1, <2>8
        <5>2. /\ TicksBelow(y)[p + 1] = DigitAt(y, p) * Tick(p)
              /\ TicksBelow(z)[p + 1] = (Base - DigitAt(y, p)) * Tick(p)
          <6>1. /\ TicksBelow(y)[p + 1] = 0 + DigitAt(y, p) * Tick(p)
                /\ TicksBelow(z)[p + 1] = 0 + (Base - DigitAt(y, p)) * Tick(p)
            BY <1>1, <3>1, <3>2, <5>1
          <6>2. DigitAt(y, p) * Tick(p) \in Int /\ (Base - DigitAt(y, p)) * Tick(p) \in Int
            BY <1>1, <3>3
          <6>3. QED
            BY <6>1, <6>2
        <5> DEFINE d == DigitAt(y, p)
                   T == Tick(p)
        <5>3. d \in Int /\ T \in Nat /\ Tick(p + 1) = Base * T
          BY <1>1, <3>3
        <5> HIDE DEF d, T
        <5>4. d * T + (Base - d) * T = Base * T
          BY <1>1, <5>3
        <5>5. QED
          BY <5>2, <5>3, <5>4 DEF d, T
      <4>2. ASSUME NEW k \in Nat, p + 1 <= k, k \in S PROVE k + 1 \in S
        <5> SUFFICES ASSUME k + 1 < t
                     PROVE  TicksBelow(y)[k + 1] + TicksBelow(z)[k + 1] = Tick(k + 1)
          OBVIOUS
        <5>1. k < t /\ p <= k /\ k \in Int /\ p < k /\ k < t - 1
          BY <1>1, <4>2
        <5>2. TicksBelow(y)[k] + TicksBelow(z)[k] = Tick(k)
          BY <4>2, <5>1
        <5> DEFINE d == DigitAt(y, k)
                   T == Tick(k)
                   u == TicksBelow(y)[k]
                   v == TicksBelow(z)[k]
        <5>3. /\ TicksBelow(y)[k + 1] = u + d * T /\ TicksBelow(z)[k + 1] = v + (Base - d - 1) * T
              /\ u \in Int /\ v \in Int
          BY <2>7, <3>2, <5>1
        <5>4. d \in Int /\ T \in Nat /\ Tick(k + 1) = Base * T /\ u + v = T
          BY <1>1, <3>3, <5>1, <5>2
        <5> HIDE DEF d, T, u, v
        <5>5. d * T + (Base - d - 1) * T = Base * T - T /\ d * T \in Int /\ (Base - d - 1) * T \in Int
              /\ Base * T \in Int
          BY <1>1, <5>4
        <5> DEFINE a == d * T
                   b == (Base - d - 1) * T
                   c == Base * T
        <5> HIDE DEF a, b, c
        <5>6. /\ TicksBelow(y)[k + 1] = u + a /\ TicksBelow(z)[k + 1] = v + b
              /\ Tick(k + 1) = c /\ a + b = c - T /\ a \in Int /\ b \in Int /\ c \in Int
          BY <5>3, <5>4, <5>5 DEF a, b, c
        <5>7. QED
          BY <5>3, <5>4, <5>6
      <4>3. \A k \in Nat : p + 1 <= k => k \in S
        <5>1. p + 1 \in Nat
          BY <1>1
        <5> HIDE DEF S
        <5> QED  BY <4>1, <4>2, <5>1, Upwards
      <4>4. p + 1 <= s
        BY <1>1, <3>4
      <4>5. QED
        BY <3>4, <4>3, <4>4
    <3>5. t - 1 \in Nat /\ p <= t - 1 /\ t - 1 < t /\ (t - 1) + 1 = t
      BY <1>1
    <3> DEFINE d == DigitAt(y, t - 1)
               T == Tick(t - 1)
               u == TicksBelow(y)[t - 1]
               v == TicksBelow(z)[t - 1]
    <3>6. /\ TicksBelow(y)[t] = u + d * T /\ TicksBelow(z)[t] = v + at(t - 1) * T
          /\ u \in Int /\ v \in Int /\ d \in Int /\ T \in Nat
      BY <1>1, <3>2, <3>3, <3>5
    <3>7. CASE p = t - 1
      <4>1. u = 0 /\ v = 0 /\ at(t - 1) = -d
        BY <2>9, <3>1, <3>7
      <4> HIDE DEF d, T, u, v
      <4>2. (-d) * T = -(d * T) /\ d * T \in Int
        BY <3>6
      <4>3. TicksBelow(z)[t] = -TicksBelow(y)[t]
        BY <3>6, <4>1, <4>2
      <4>4. QED
        BY <2>5, <4>3 DEF Amount, t
    <3>8. CASE p < t - 1
      <4>1. u + v = T /\ at(t - 1) = -d - 1
        BY <2>8, <3>4, <3>5, <3>8
      <4> HIDE DEF d, T, u, v
      <4>2. (-d - 1) * T = -(d * T) - T /\ d * T \in Int
        BY <3>6
      <4> DEFINE a == d * T
                 b == (-d - 1) * T
      <4> HIDE DEF a, b
      <4>3. TicksBelow(y)[t] = u + a /\ TicksBelow(z)[t] = v + b /\ b = -a - T /\ a \in Int
        BY <3>6, <4>1, <4>2 DEF a, b
      <4>4. TicksBelow(z)[t] = -TicksBelow(y)[t]
        BY <3>6, <4>1, <4>3
      <4>5. QED
        BY <2>5, <4>4 DEF Amount, t
    <3>9. QED
      BY <1>1, <3>7, <3>8
  <2>15. (-y.sign) * (-Amount(y)) = y.sign * Amount(y)
    <3>1. Amount(y) \in Int
      BY <1>1, SumOfDigits DEF Amount, t
    <3>2. QED
      BY <1>3, <3>1
  <2>16. QED
    BY <1>1, <2>1, <2>4, <2>5, <2>12, <2>13, <2>14, <2>15
<1>9. QED
  BY <1>7, <1>8


-----------------------------------------------------------------------------
(* Adding a duration                                                       *)

\* No digits denote nothing.
LEMMA NoDigits ==
    ASSUME NEW x \in Written, nscales(x) = 0
    PROVE  Amount(x) = 0
<1>1. Top(x) \in Nat /\ Top(x) = x.precision
  BY DigitAtType
<1>2. \A s \in Nat : 0 <= s /\ s < Top(x) => DigitAt(x, s) = 0
  BY <1>1, DigitAtType
<1>3. TicksBelow(x)[Top(x)] = TicksBelow(x)[0]
  BY <1>1, <1>2, ZeroDigits
<1>4. QED
  BY <1>3, SumOfDigits DEF Amount

LEMMA ZeroIs == Zero \in Digital /\ Normal(Zero) /\ Value(Zero) = 0
<1>1. Zero \in Digital
  BY UnitAssumption, MaxScaleAssumption DEF Zero, Digital
<1>2. nscales(Zero) = 0 /\ Zero.sign = 1
  BY DEF Zero, nscales
<1>3. Normal(Zero)
  BY DEF Zero, Normal
<1>4. Zero \in Written
  BY <1>1, DigitalIs
<1>5. Amount(Zero) = 0
  BY <1>2, <1>4, NoDigits
<1>6. QED
  BY <1>1, <1>2, <1>3, <1>5 DEF Value, Amount

\* A duration of a coarser precision stands for the same number of ticks.
LEMMA CoarsenedIs ==
    ASSUME NEW m \in Int, m # 0, NEW p \in Nat
    PROVE  /\ coarsened(Duration(m, p)) \in [m : Int, p : Nat]
           /\ coarsened(Duration(m, p)).m * Tick(coarsened(Duration(m, p)).p) = m * Tick(p)
<1> DEFINE k == precision(m)
           q == m \div Tick(k)
           K == Tick(k)
           T == Tick(p)
<1>1. k \in Nat /\ m % Tick(k) = 0
  BY PrecisionIs
<1> HIDE DEF k
<1>2. Tick(k) \in Nat \ {0} /\ T \in Nat \ {0} /\ Tick(p + k) = T * K
  BY <1>1, TickPositive, TickSum
<1>3. q \in Int /\ m = q * Tick(k)
  <2>1. q \in Int /\ q * Tick(k) \in Int /\ m = q * Tick(k) + (m % Tick(k))
    BY <1>2, Quotient
  <2> HIDE DEF q
  <2>2. QED
    BY <1>1, <2>1
<1>4. coarsened(Duration(m, p)) = Duration(q, p + k)
  BY DEF coarsened, Duration, k
<1> HIDE DEF q, K, T
<1>5. q * (T * K) = (q * K) * T
  BY <1>2, <1>3 DEF K
<1>6. Duration(q, p + k) \in [m : Int, p : Nat] /\ Duration(q, p + k).m = q /\ Duration(q, p + k).p = p + k
  BY <1>1, <1>3 DEF Duration
<1>7. q * Tick(p + k) = m * Tick(p)
  BY <1>2, <1>3, <1>5 DEF K, T
<1>8. QED
  BY <1>4, <1>6, <1>7

\* The digits extended to the scale of a duration denote what they did.
LEMMA ExtendedIs ==
    ASSUME NEW x \in Digital, NEW dt \in [m : Int, p : Nat]
    PROVE  LET y == Extended(x, dt)
           IN  /\ y \in Digital /\ y.sign = x.sign
               /\ y.precision <= dt.p /\ dt.p < Top(y)
               /\ Amount(y) = Amount(x)
<1> DEFINE y == Extended(x, dt)
<1>1. /\ x \in Written /\ x.precision \in Nat /\ Top(x) \in Nat /\ dt.p \in Nat
      /\ nscales(x) \in Nat /\ Top(x) = x.precision + nscales(x)
      /\ \A s \in Int : DigitAt(x, s) \in 0 .. Base - 1
      /\ \A s \in Int : s < x.precision \/ Top(x) <= s => DigitAt(x, s) = 0
  <2>1. x \in Written /\ \A s \in Int : DigitAt(x, s) \in 0 .. Base - 1
    BY DigitalIs
  <2>2. QED
    BY <2>1, DigitAtType
<1>2. \E p \in Nat : \E top \in Nat :
         /\ p <= dt.p /\ dt.p < top
         /\ y = Between(x, p, top)
         /\ nscales(x) # 0 => p <= x.precision /\ Top(x) <= top
  <2>1. CASE x.digits = <<>>
    <3>1. y = Between(x, dt.p, dt.p + 1) /\ nscales(x) = 0
      BY <2>1 DEF Extended, nscales
    <3> HIDE DEF y
    <3>2. dt.p + 1 \in Nat /\ dt.p <= dt.p /\ dt.p < dt.p + 1
      BY <1>1
    <3>3. QED
      BY <1>1, <3>1, <3>2
  <2>2. CASE x.digits # <<>>
    <3> DEFINE p == Finer(x.precision, dt.p)
               top == Coarser(Top(x), dt.p + 1)
    <3>1. y = Between(x, p, top)
      BY <2>2 DEF Extended
    <3> HIDE DEF y
    <3>2. p \in Nat /\ top \in Nat /\ p <= dt.p /\ dt.p < top /\ p <= x.precision /\ Top(x) <= top
      BY <1>1 DEF Finer, Coarser
    <3> HIDE DEF p, top
    <3>3. QED
      BY <3>1, <3>2
  <2>3. QED
    BY <2>1, <2>2
<1> HIDE DEF y
<1>3. PICK p \in Nat, top \in Nat :
         /\ p <= dt.p /\ dt.p < top
         /\ y = Between(x, p, top)
         /\ nscales(x) # 0 => p <= x.precision /\ Top(x) <= top
  BY <1>2
<1>4. p <= top
  BY <1>1, <1>3
<1>5. /\ y \in Written /\ y.sign = x.sign /\ y.precision = p /\ Top(y) = top
      /\ \A s \in Int : DigitAt(y, s) = IF p <= s /\ s < top THEN DigitAt(x, s) ELSE 0
  <2>1. x \in Written
    BY <1>1
  <2>2. QED
    BY <1>3, <1>4, <2>1, BetweenIs
<1>6. y \in Digital
  <2>1. \A s \in Int : DigitAt(y, s) \in 0 .. Base - 1
    BY <1>1, <1>5, BaseAssumption
  <2>2. QED
    BY <1>5, <2>1, DigitalIs
<1>7. (\A s \in Nat : s < p => DigitAt(x, s) = 0) /\ (\A s \in Nat : top <= s /\ s < Top(x) => DigitAt(x, s) = 0)
  <2>1. CASE nscales(x) = 0
    BY <1>1, <2>1
  <2>2. CASE nscales(x) # 0
    <3>1. p <= x.precision /\ Top(x) <= top
      BY <1>3, <2>2
    <3>2. QED
      BY <1>1, <3>1
  <2>3. QED
    BY <2>1, <2>2
<1>8. Amount(y) = Amount(x)
  <2>1. x \in Written
    BY <1>1
  <2>2. Amount(Between(x, p, top)) = Amount(x) - TicksBelow(x)[p]
    BY <1>4, <1>7, <2>1, AmountOfBetween
  <2>3. TicksBelow(x)[p] = TicksBelow(x)[0]
    <3>1. \A s \in Nat : 0 <= s /\ s < p => DigitAt(x, s) = 0
      BY <1>7
    <3>2. 0 <= p
      OBVIOUS
    <3>3. QED
      BY <2>1, <3>1, <3>2, ZeroDigits
  <2>4. TicksBelow(x)[0] = 0 /\ Amount(x) \in Int
    BY <1>1, SumOfDigits DEF Amount
  <2>5. QED
    BY <1>3, <2>2, <2>3, <2>4
<1>9. QED
  BY <1>3, <1>5, <1>6, <1>8 DEF y

\* operator+=, on digits and on the number they denote.
LEMMA PlusIs ==
    ASSUME NEW x \in Digital, NEW rhs \in [m : Int, p : Nat], rhs.m # 0
    PROVE  /\ Plus(x, rhs) \in Digital /\ Normal(Plus(x, rhs))
           /\ Value(Plus(x, rhs)) = Value(x) + rhs.m * Tick(rhs.p)
<1> DEFINE k == x.sign * rhs.m
           d == k * Tick(rhs.p)
           dt == coarsened(Duration(k, rhs.p))
           u == Extended(x, dt)
           v == Carried(u, dt)
           y == WithoutFineZeros(v)
           z == Flipped(y)
           r == WithoutCoarseZeros(z)
<1>1. Plus(x, rhs) = IF y.digits = <<>> THEN Zero ELSE r
  BY DEF Plus
<1>2. x \in Written /\ x.sign \in {1, -1} /\ rhs.m \in Int /\ rhs.p \in Nat /\ Tick(rhs.p) \in Nat
  <2>1. x \in Written
    BY DigitalIs
  <2>2. rhs.m \in Int /\ rhs.p \in Nat
    OBVIOUS
  <2>3. QED
    BY <2>1, <2>2, DigitAtType, TickPositive
<1>3. k \in Int /\ k # 0 /\ x.sign * d = rhs.m * Tick(rhs.p) /\ d \in Int
  <2> DEFINE T == Tick(rhs.p)
             m == rhs.m
  <2>1. m \in Int /\ T \in Nat /\ m # 0
    BY <1>2
  <2> HIDE DEF T, m
  <2>2. CASE x.sign = 1
    <3>1. (1 * m) * T \in Int /\ 1 * ((1 * m) * T) = m * T
      BY <2>1
    <3>2. QED
      BY <2>1, <2>2, <3>1 DEF T, m
  <2>3. CASE x.sign = -1
    <3>1. ((-1) * m) * T \in Int /\ (-1) * (((-1) * m) * T) = m * T
      BY <2>1
    <3>2. QED
      BY <2>1, <2>3, <3>1 DEF T, m
  <2>4. QED
    BY <1>2, <2>2, <2>3
<1> HIDE DEF k
<1>4. dt \in [m : Int, p : Nat] /\ dt.m * Tick(dt.p) = d
  BY <1>2, <1>3, CoarsenedIs
<1> HIDE DEF dt, d
<1>5. u \in Digital /\ u.sign = x.sign /\ u.precision <= dt.p /\ dt.p < Top(u) /\ Amount(u) = Amount(x)
  BY <1>4, ExtendedIs
<1> HIDE DEF u
<1>6. v \in Written /\ v.sign = x.sign /\ Signless(v) /\ Amount(v) = Amount(x) + d
  BY <1>4, <1>5, CarriedIs
<1> HIDE DEF v
<1>7. /\ y \in Written /\ y.sign = x.sign /\ Top(y) = Top(v) /\ Amount(y) = Amount(x) + d
      /\ \A s \in Int : DigitAt(y, s) = DigitAt(v, s)
      /\ nscales(y) # 0 => DigitAt(y, y.precision) # 0
  BY <1>6, WithoutFineZerosIs
<1>8. Signless(y)
  <2>1. Top(v) - 1 \in Int
    BY <1>6, DigitAtType
  <2>2. QED
    BY <1>6, <1>7, <2>1 DEF Signless
<1> HIDE DEF y
<1>9. Amount(x) \in Int /\ Value(x) = x.sign * Amount(x)
  BY <1>2, DigitAtType, SumOfDigits DEF Amount, Value
<1>10. x.sign * Amount(y) = Value(x) + rhs.m * Tick(rhs.p)
  <2>1. x.sign * (Amount(x) + d) = x.sign * Amount(x) + x.sign * d
    <3>1. CASE x.sign = 1
      BY <1>3, <1>9, <3>1
    <3>2. CASE x.sign = -1
      BY <1>3, <1>9, <3>2
    <3>3. QED
      BY <1>2, <3>1, <3>2
  <2>2. QED
    BY <1>3, <1>7, <1>9, <2>1
<1>11. CASE y.digits = <<>>
  <2>1. nscales(y) = 0
    BY <1>11 DEF nscales
  <2>2. Amount(y) = 0
    BY <1>7, <2>1, NoDigits
  <2>3. x.sign * 0 = 0
    BY <1>2
  <2>4. Plus(x, rhs) = Zero
    BY <1>1, <1>11
  <2>5. Value(Plus(x, rhs)) = Value(x) + rhs.m * Tick(rhs.p)
    BY <1>10, <2>2, <2>3, <2>4, ZeroIs
  <2>6. QED
    BY <2>4, <2>5, ZeroIs
<1>12. CASE y.digits # <<>>
  <2>1. nscales(y) # 0
    <3>1. y.digits \in Seq(Int)
      BY <1>7 DEF Written
    <3>2. QED
      BY <1>12, <3>1 DEF nscales
  <2>2. /\ z \in Digital /\ nscales(z) # 0 /\ DigitAt(z, z.precision) # 0
        /\ z.sign * Amount(z) = x.sign * Amount(y)
    BY <1>7, <1>8, <2>1, FlippedIs
  <2> HIDE DEF z
  <2>3. /\ r \in Digital /\ r.sign = z.sign /\ Amount(r) = Amount(z)
        /\ nscales(r) # 0 /\ DigitAt(r, r.precision) # 0 /\ DigitAt(r, Top(r) - 1) # 0
    BY <2>2, WithoutCoarseZerosIs
  <2>4. Plus(x, rhs) = r
    BY <1>1, <1>12
  <2> HIDE DEF r
  <2>5. Normal(r)
    <3>1. r \in Written
      BY <2>3, DigitalIs
    <3>2. nscales(r) \in Nat /\ r.precision \in Nat /\ Top(r) = r.precision + nscales(r)
      BY <3>1, DigitAtType
    <3>3. DigitAt(r, r.precision) = r.digits[1]
      <4>1. r.precision <= r.precision /\ r.precision < Top(r) /\ r.precision - r.precision + 1 = 1
        BY <2>3, <3>2
      <4>2. QED
        BY <4>1 DEF DigitAt
    <3>4. DigitAt(r, Top(r) - 1) = r.digits[nscales(r)]
      <4>1. r.precision <= Top(r) - 1 /\ Top(r) - 1 < Top(r) /\ (Top(r) - 1) - r.precision + 1 = nscales(r)
        BY <2>3, <3>2
      <4>2. QED
        BY <4>1 DEF DigitAt
    <3>5. r.digits # <<>>
      BY <2>3 DEF nscales
    <3>6. QED
      BY <2>3, <3>3, <3>4, <3>5 DEF Normal
  <2>6. Value(r) = Value(x) + rhs.m * Tick(rhs.p)
    <3>1. Value(r) = r.sign * Amount(r)
      BY DEF Value, Amount
    <3>2. QED
      BY <1>10, <2>2, <2>3, <3>1
  <2>7. QED
    BY <2>3, <2>4, <2>5, <2>6
<1>13. QED
  BY <1>11, <1>12


-----------------------------------------------------------------------------
(* Dropping digits                                                         *)

\* The digits finer than a scale are what the number exceeds its ticks by.
LEMMA DigitsBelow ==
    ASSUME NEW x \in Digital, NEW p \in Nat
    PROVE  /\ Amount(x) \in Nat /\ TicksBelow(x)[p] \in 0 .. Tick(p) - 1
           /\ \E q \in Nat : Amount(x) = q * Tick(p) + TicksBelow(x)[p]
<1>1. x \in Written /\ Top(x) \in Nat
  <2>1. x \in Written
    BY DigitalIs
  <2>2. QED
    BY <2>1, DigitAtType
<1>2. Amount(x) \in Nat
  <2>1. TicksBelow(x)[Top(x)] \in 0 .. Tick(Top(x)) - 1 /\ Tick(Top(x)) \in Nat
    BY <1>1, SumBelowTick, TickPositive
  <2>2. QED
    BY <2>1 DEF Amount
<1>3. TicksBelow(x)[p] \in 0 .. Tick(p) - 1
  BY SumBelowTick
<1>4. \E q \in Int : Amount(x) = TicksBelow(x)[p] + q * Tick(p)
  <2>1. CASE p <= Top(x)
    BY <1>1, <2>1, SumFromScale DEF Amount
  <2>2. CASE Top(x) <= p
    <3>1. TicksBelow(x)[p] = Amount(x)
      BY <1>1, <2>2, AmountFrom
    <3>2. Amount(x) = TicksBelow(x)[p] + 0 * Tick(p)
      BY <1>2, <3>1, TickPositive
    <3>3. QED
      BY <3>2
  <2>3. QED
    BY <1>1, <2>1, <2>2
<1>5. PICK q \in Int : Amount(x) = TicksBelow(x)[p] + q * Tick(p)
  BY <1>4
<1> DEFINE A == Amount(x)
           b == TicksBelow(x)[p]
           T == Tick(p)
<1>6. A \in Nat /\ T \in Nat \ {0} /\ b \in 0 .. T - 1 /\ A = b + q * T
  BY <1>2, <1>3, <1>5, TickPositive
<1> HIDE DEF A, b, T
<1>7. q * T \in Int
  BY <1>6
<1>8. q >= 0
  <2> SUFFICES ASSUME q <= -1 PROVE FALSE
    OBVIOUS
  <2>1. q * T <= (-1) * T /\ (-1) * T = -T
    BY <1>6
  <2>2. QED
    BY <1>6, <1>7, <2>1
<1>9. q \in Nat /\ A = q * T + b
  BY <1>6, <1>7, <1>8
<1>10. QED
  BY <1>2, <1>3, <1>9 DEF A, b, T

\* Those of the digits that are left, and what they denote.
LEMMA CutIs ==
    ASSUME NEW x \in Digital, NEW p \in Nat
    PROVE  /\ Cut(x, p) \in Digital /\ Cut(x, p).sign = x.sign
           /\ Amount(Cut(x, p)) = Amount(x) - TicksBelow(x)[p]
           /\ p <= x.precision => TicksBelow(x)[p] = 0
<1>1. /\ x \in Written /\ x.precision \in Nat /\ Top(x) \in Nat
      /\ \A s \in Int : DigitAt(x, s) \in 0 .. Base - 1
      /\ \A s \in Int : s < x.precision \/ Top(x) <= s => DigitAt(x, s) = 0
  <2>1. x \in Written /\ \A s \in Int : DigitAt(x, s) \in 0 .. Base - 1
    BY DigitalIs
  <2>2. QED
    BY <2>1, DigitAtType
<1>2. Amount(x) \in Nat
  BY DigitsBelow
<1>3. CASE p <= x.precision
  <2>1. Cut(x, p) = x
    BY <1>3 DEF Cut
  <2>2. \A s \in Nat : 0 <= s /\ s < p => DigitAt(x, s) = 0
    BY <1>1, <1>3
  <2>3. x \in Written /\ 0 <= p
    BY <1>1
  <2>4. TicksBelow(x)[p] = TicksBelow(x)[0]
    BY <2>2, <2>3, ZeroDigits
  <2>5. TicksBelow(x)[p] = 0
    BY <2>3, <2>4, SumOfDigits
  <2>6. QED
    BY <1>2, <2>1, <2>5
<1>4. CASE ~(p <= x.precision)
  <2>1. x \in Written
    BY <1>1
  <2>2. PICK s \in Nat :
           /\ p <= s /\ s <= Coarser(p, Top(x))
           /\ \A q \in Int : p <= q /\ q < s => DigitAt(x, q) = 0
           /\ s < Top(x) => DigitAt(x, s) # 0
           /\ DigitsFrom(x, p) = Between(x, s, Coarser(s, Top(x)))
    BY <2>1, DigitsFromIs
  <2> DEFINE top == Coarser(s, Top(x))
             y == Between(x, s, top)
  <2>3. Cut(x, p) = y
    BY <1>4, <2>2 DEF Cut
  <2>4. top \in Nat /\ s <= top /\ Top(x) <= top
    BY <1>1 DEF Coarser
  <2> HIDE DEF top
  <2>5. /\ y \in Written /\ y.sign = x.sign
        /\ \A q \in Int : DigitAt(y, q) = IF s <= q /\ q < top THEN DigitAt(x, q) ELSE 0
    BY <2>1, <2>4, BetweenIs
  <2>6. Amount(y) = Amount(x) - TicksBelow(x)[s]
    <3>1. \A q \in Nat : top <= q /\ q < Top(x) => DigitAt(x, q) = 0
      BY <1>1, <2>4
    <3>2. QED
      BY <2>1, <2>4, <3>1, AmountOfBetween
  <2> HIDE DEF y
  <2>7. TicksBelow(x)[s] = TicksBelow(x)[p]
    <3>1. \A q \in Nat : p <= q /\ q < s => DigitAt(x, q) = 0
      BY <2>2
    <3>2. p <= s
      BY <2>2
    <3>3. QED
      BY <2>1, <3>1, <3>2, ZeroDigits
  <2>8. y \in Digital
    <3>1. \A q \in Int : DigitAt(y, q) \in 0 .. Base - 1
      BY <1>1, <2>5, BaseAssumption
    <3>2. QED
      BY <2>5, <3>1, DigitalIs
  <2>9. QED
    BY <1>4, <2>3, <2>5, <2>6, <2>7, <2>8
<1>5. QED
  BY <1>3, <1>4

\* A digit that is not zero counts.
LEMMA FineDigits ==
    ASSUME NEW x \in Digital, Normal(x), x.sign = -1, NEW p \in Nat, x.precision < p
    PROVE  TicksBelow(x)[p] > 0
<1> DEFINE a == x.precision
<1>1. /\ x \in Written /\ a \in Nat /\ nscales(x) \in Nat /\ Top(x) = a + nscales(x)
      /\ \A s \in Int : DigitAt(x, s) \in 0 .. Base - 1
  <2>1. x \in Written /\ \A s \in Int : DigitAt(x, s) \in 0 .. Base - 1
    BY DigitalIs
  <2>2. QED
    BY <2>1, DigitAtType
<1>2. x.digits # <<>> /\ x.digits[1] # 0
  BY DEF Normal, Zero
<1>3. nscales(x) # 0
  <2>1. x.digits \in Seq(Int)
    BY <1>1 DEF Written
  <2>2. QED
    BY <1>2, <2>1 DEF nscales
<1>4. DigitAt(x, a) # 0
  <2>1. a <= a /\ a < Top(x) /\ a - a + 1 = 1
    BY <1>1, <1>3
  <2>2. DigitAt(x, a) = x.digits[1]
    BY <2>1 DEF DigitAt
  <2>3. QED
    BY <1>2, <2>2
<1> HIDE DEF a
<1> DEFINE S == {s \in Nat : TicksBelow(x)[s] > 0}
<1>5. ASSUME NEW s \in Nat
      PROVE  /\ TicksBelow(x)[s] \in Nat
             /\ TicksBelow(x)[s + 1] = TicksBelow(x)[s] + DigitAt(x, s) * Tick(s)
             /\ DigitAt(x, s) \in Nat /\ Tick(s) \in Nat \ {0}
  <2>1. TicksBelow(x)[s] \in 0 .. Tick(s) - 1 /\ Tick(s) \in Nat \ {0}
    BY SumBelowTick, TickPositive
  <2>2. TicksBelow(x)[s + 1] = TicksBelow(x)[s] + DigitAt(x, s) * Tick(s)
    BY <1>1, SumOfDigits
  <2>3. DigitAt(x, s) \in Nat
    BY <1>1, BaseAssumption
  <2>4. QED
    BY <2>1, <2>2, <2>3
<1>6. a + 1 \in S
  <2> DEFINE d == DigitAt(x, a)
             T == Tick(a)
             v == TicksBelow(x)[a]
  <2>1. v \in Nat /\ TicksBelow(x)[a + 1] = v + d * T /\ d \in Nat \ {0} /\ T \in Nat \ {0}
    BY <1>1, <1>4, <1>5
  <2> HIDE DEF d, T, v
  <2>2. d * T \in Nat \ {0}
    BY <2>1
  <2>3. TicksBelow(x)[a + 1] > 0
    BY <2>1, <2>2
  <2>4. QED
    BY <1>1, <2>3
<1>7. ASSUME NEW k \in Nat, a + 1 <= k, k \in S PROVE k + 1 \in S
  <2> DEFINE d == DigitAt(x, k)
             T == Tick(k)
             v == TicksBelow(x)[k]
  <2>1. v \in Nat /\ v > 0 /\ TicksBelow(x)[k + 1] = v + d * T /\ d \in Nat /\ T \in Nat
    BY <1>5, <1>7
  <2> HIDE DEF d, T, v
  <2>2. d * T \in Nat
    BY <2>1
  <2>3. TicksBelow(x)[k + 1] > 0
    BY <2>1, <2>2
  <2>4. QED
    BY <2>3
<1>8. \A k \in Nat : a + 1 <= k => k \in S
  <2>1. a + 1 \in Nat
    BY <1>1
  <2> HIDE DEF S
  <2> QED  BY <1>6, <1>7, <2>1, Upwards
<1>9. a + 1 <= p
  BY <1>1 DEF a
<1>10. QED
  BY <1>8, <1>9

\* time_point::advance, on digits and on the number they denote.
LEMMA AdvancedPointIs ==
    ASSUME NEW x \in Digital, Normal(x), NEW dt \in [m : Nat, p : Nat]
    PROVE  /\ AdvancedPoint(x, dt) \in Digital /\ Normal(AdvancedPoint(x, dt))
           /\ Value(AdvancedPoint(x, dt)) = advance(Value(x), dt)
<1> DEFINE p == dt.p
           T == Tick(p)
           A == Amount(x)
           b == TicksBelow(x)[p]
           v == Value(x)
           past == IF x.sign = -1 /\ x.precision < dt.p THEN Plus(x, Duration(-1, dt.p)) ELSE x
           c == Cut(past, p)
<1>1. AdvancedPoint(x, dt) = IF dt.m = 0 THEN x ELSE Plus(c, dt)
  BY DEF AdvancedPoint
<1>2. dt.m \in Nat /\ p \in Nat /\ T \in Nat \ {0} /\ x.sign \in {1, -1} /\ x.precision \in Nat
  <2>1. x \in Written
    BY DigitalIs
  <2>2. QED
    BY <2>1, DigitAtType, TickPositive
<1>3. CASE dt.m = 0
  <2>1. AdvancedPoint(x, dt) = x /\ advance(v, dt) = v
    BY <1>1, <1>3 DEF advance
  <2>2. QED
    BY <2>1
<1>4. CASE dt.m # 0
  <2>1. A \in Nat /\ b \in 0 .. T - 1 /\ \E q \in Nat : A = q * T + b
    BY <1>2, DigitsBelow
  <2>2. PICK q \in Nat : A = q * T + b
    BY <2>1
  <2>3. v = x.sign * A
    BY DEF Value, Amount
  <2>4. c \in Digital /\ Value(c) = Floor(v, p)
    <3>1. CASE x.sign = 1
      <4>1. c = Cut(x, p)
        BY <3>1
      <4> HIDE DEF c
      <4>2. c \in Digital /\ c.sign = 1 /\ Amount(c) = A - b
        <5>1. Cut(x, p) \in Digital /\ Cut(x, p).sign = x.sign /\ Amount(Cut(x, p)) = A - b
          BY <1>2, CutIs
        <5>2. QED
          BY <3>1, <4>1, <5>1
      <4>3. Value(c) = 1 * Amount(c)
        BY <4>2 DEF Value, Amount
      <4> HIDE DEF A, b, T, v
      <4>4. v = A
        BY <2>1, <2>3, <3>1
      <4>5. q * T \in Int /\ q * T <= A /\ A < q * T + T
        BY <1>2, <2>1, <2>2
      <4>6. A \div T = q
        <5>1. A \in Int /\ T \in Nat \ {0} /\ q \in Int
          BY <1>2, <2>1
        <5>2. QED
          BY <4>5, <5>1, QuotientIs
      <4>7. Floor(v, p) = q * T
        BY <4>4, <4>6 DEF Floor, T
      <4>8. Value(c) = q * T
        BY <2>1, <2>2, <4>2, <4>3, <4>5
      <4>9. QED
        BY <4>2, <4>7, <4>8
    <3>2. CASE x.sign = -1 /\ p <= x.precision
      <4>1. c = Cut(x, p)
        BY <1>2, <3>2
      <4>2. c \in Digital /\ c.sign = -1 /\ Amount(c) = A - b /\ b = 0
        BY <1>2, <3>2, <4>1, CutIs
      <4> HIDE DEF c
      <4>3. Value(c) = (-1) * Amount(c)
        BY <4>2 DEF Value, Amount
      <4> HIDE DEF A, b, T, v
      <4>4. q * T \in Int /\ A = q * T
        BY <1>2, <2>2, <4>2
      <4>5. v = (-q) * T /\ -q \in Int
        BY <1>2, <2>3, <3>2, <4>4
      <4>6. Value(c) = (-q) * T
        BY <1>2, <4>2, <4>3, <4>4
      <4> DEFINE n == -q
      <4>7. n \in Int /\ v = n * T
        BY <4>5
      <4> HIDE DEF n
      <4>8. (n * T) \div T = n
        BY <1>2, <4>7, QuotientOfMultiple
      <4>9. Floor(v, p) = n * T
        BY <4>7, <4>8 DEF Floor, T
      <4>10. QED
        BY <4>2, <4>6, <4>9 DEF n
    <3>3. CASE x.sign = -1 /\ ~(p <= x.precision)
      <4> DEFINE y == Plus(x, Duration(-1, p))
      <4>1. c = Cut(y, p)
        BY <1>2, <3>3
      <4>2. b > 0
        BY <1>2, <3>3, FineDigits
      <4>3. y \in Digital /\ Value(y) = v + (-1) * T
        <5>1. Duration(-1, p) \in [m : Int, p : Nat] /\ Duration(-1, p).m = -1 /\ Duration(-1, p).p = p
          BY <1>2 DEF Duration
        <5> DEFINE d == Duration(-1, p)
        <5>2. d \in [m : Int, p : Nat] /\ d.m = -1 /\ d.p = p /\ d.m # 0
          BY <5>1
        <5> HIDE DEF d
        <5>3. Plus(x, d) \in Digital /\ Value(Plus(x, d)) = Value(x) + d.m * Tick(d.p)
          BY <5>2, PlusIs
        <5>4. QED
          BY <5>2, <5>3 DEF d
      <4> HIDE DEF y, c
      <4>4. c \in Digital /\ c.sign = y.sign /\ Amount(c) = Amount(y) - TicksBelow(y)[p]
        BY <1>2, <4>1, <4>3, CutIs
      <4> DEFINE B == Amount(y)
                 e == TicksBelow(y)[p]
      <4>5. B \in Nat /\ e \in 0 .. T - 1 /\ \E r \in Nat : B = r * T + e
        BY <1>2, <4>3, DigitsBelow
      <4>6. PICK r \in Nat : B = r * T + e
        BY <4>5
      <4>7. Value(y) = y.sign * B /\ Value(c) = c.sign * Amount(c) /\ y.sign \in {1, -1}
        BY <4>3 DEF Value, Amount, Digital
      <4> HIDE DEF A, b, T, v, B, e
      <4>8. v = -A
        BY <2>1, <2>3, <3>3
      <4>9. y.sign = -1 /\ B = A + T
        BY <1>2, <2>1, <4>3, <4>5, <4>7, <4>8
      <4>10. r = q + 1 /\ e = b
        <5>1. B \div T = r
          <6>1. r * T \in Int /\ r * T <= B /\ B < r * T + T
            BY <1>2, <4>5, <4>6
          <6>2. B \in Int /\ T \in Nat \ {0} /\ r \in Int
            BY <1>2, <4>5
          <6>3. QED
            BY <6>1, <6>2, QuotientIs
        <5>2. B \div T = q + 1 /\ (q + 1) * T = q * T + T /\ q * T \in Int
          <6>1. (q + 1) * T = q * T + T /\ q * T \in Int /\ q + 1 \in Int
            BY <1>2
          <6>2. (q + 1) * T <= B /\ B < (q + 1) * T + T
            BY <1>2, <2>1, <2>2, <4>9, <6>1
          <6>3. B \in Int /\ T \in Nat \ {0}
            BY <1>2, <4>5
          <6> DEFINE n == q + 1
          <6>4. n \in Int /\ n * T <= B /\ B < n * T + T
            BY <6>1, <6>2
          <6> HIDE DEF n
          <6>5. B \div T = n
            BY <6>3, <6>4, QuotientIs
          <6>6. QED
            BY <6>1, <6>5 DEF n
        <5>3. r = q + 1
          BY <5>1, <5>2
        <5>4. QED
          BY <1>2, <2>1, <2>2, <4>5, <4>6, <4>9, <5>2, <5>3
      <4>11. Value(c) = -(q * T + T)
        <5>1. Amount(c) = (A + T) - b
          BY <4>4, <4>9, <4>10 DEF B, e
        <5>2. q * T \in Int
          BY <1>2
        <5>3. Amount(c) = q * T + T
          BY <1>2, <2>1, <2>2, <5>1, <5>2
        <5>4. Value(c) = (-1) * Amount(c)
          BY <4>4, <4>7, <4>9
        <5>5. QED
          BY <1>2, <5>2, <5>3, <5>4
      <4>12. Floor(v, p) = -(q * T + T)
        <5> DEFINE n == -(q + 1)
        <5>1. n \in Int /\ n * T = -(q * T + T) /\ q * T \in Int
          BY <1>2
        <5> HIDE DEF n
        <5>2. v \in Int /\ n * T <= v /\ v < n * T + T
          BY <1>2, <2>1, <2>2, <4>2, <4>8, <5>1
        <5>3. v \div T = n
          BY <1>2, <5>1, <5>2, QuotientIs
        <5>4. QED
          BY <5>1, <5>3 DEF Floor, T
      <4>13. QED
        BY <4>4, <4>11, <4>12
    <3>4. QED
      BY <1>2, <3>1, <3>2, <3>3
  <2>5. dt \in [m : Int, p : Nat]
    OBVIOUS
  <2> HIDE DEF c
  <2>6. /\ Plus(c, dt) \in Digital /\ Normal(Plus(c, dt))
        /\ Value(Plus(c, dt)) = Value(c) + dt.m * Tick(dt.p)
    BY <1>4, <2>4, <2>5, PlusIs
  <2>7. AdvancedPoint(x, dt) = Plus(c, dt) /\ advance(v, dt) = Floor(v, p) + dt.m * Tick(dt.p)
    BY <1>1, <1>4 DEF advance
  <2>8. QED
    BY <2>4, <2>6, <2>7
<1>5. QED
  BY <1>2, <1>3, <1>4


-----------------------------------------------------------------------------
(* Every behaviour of the digits is one of the numbers they denote         *)

LEMMA ScalesNatural == Scales \subseteq Nat
BY MaxScaleAssumption DEF Scales

LEMMA PointInitType == PointInit => PointTypeOK
<1> SUFFICES ASSUME PointInit PROVE PointTypeOK
  OBVIOUS
<1>1. tp = [n \in Names |-> Zero]
  BY DEF PointInit
<1>2. tp \in [Names -> Digital] /\ \A n \in Names : tp[n] = Zero
  BY <1>1, ZeroIs
<1>3. QED
  BY <1>2, ZeroIs DEF PointTypeOK

\* Constructing, adding and advancing: what becomes of the time point and of
\* the number.
LEMMA ConstructedIs ==
    ASSUME NEW dt \in Initials
    PROVE  /\ Plus(Zero, dt) \in Digital /\ Normal(Plus(Zero, dt))
           /\ Value(Plus(Zero, dt)) = dt.m * Tick(dt.p)
<1>1. dt \in [m : Int, p : Nat]
  BY AdjustmentsAssumption, ScalesNatural
<1>2. dt.m \in Int /\ Tick(dt.p) \in Nat
  BY <1>1, TickPositive
<1>3. CASE dt.m = 0
  <2>1. Plus(Zero, dt) = Zero
    BY <1>3 DEF Plus
  <2>2. dt.m * Tick(dt.p) = 0
    BY <1>2, <1>3
  <2>3. QED
    BY <2>1, <2>2, ZeroIs
<1>4. CASE dt.m # 0
  <2>1. /\ Plus(Zero, dt) \in Digital /\ Normal(Plus(Zero, dt))
        /\ Value(Plus(Zero, dt)) = 0 + dt.m * Tick(dt.p)
    BY <1>1, <1>4, ZeroIs, PlusIs
  <2>2. dt.m * Tick(dt.p) \in Int
    BY <1>2
  <2>3. QED
    BY <2>1, <2>2
<1>5. QED
  BY <1>3, <1>4

LEMMA AddedIs ==
    ASSUME NEW x \in Digital, Normal(x), NEW dt \in Offsets
    PROVE  /\ Plus(x, dt) \in Digital /\ Normal(Plus(x, dt))
           /\ Value(Plus(x, dt)) = Value(x) + dt.m * Tick(dt.p)
<1>1. dt \in [m : Int, p : Nat]
  BY AdjustmentsAssumption, ScalesNatural
<1>2. dt.m \in Int /\ Tick(dt.p) \in Nat
  BY <1>1, TickPositive
<1>3. CASE dt.m = 0
  <2>1. Plus(x, dt) = x
    BY <1>3 DEF Plus
  <2>2. dt.m * Tick(dt.p) = 0
    BY <1>2, <1>3
  <2>3. Value(x) \in Int
    <3>1. Amount(x) \in Nat /\ Value(x) = x.sign * Amount(x) /\ x.sign \in {1, -1}
      <4>1. 0 \in Nat
        OBVIOUS
      <4>2. Amount(x) \in Nat
        BY <4>1, DigitsBelow
      <4>3. QED
        BY <4>2 DEF Value, Amount, Digital
    <3>2. QED
      BY <3>1
  <2>4. QED
    BY <2>1, <2>2, <2>3
<1>4. CASE dt.m # 0
  BY <1>1, <1>4, PlusIs
<1>5. QED
  BY <1>3, <1>4

LEMMA AdvancesIs ==
    ASSUME NEW x \in Digital, Normal(x), NEW dt \in Advances
    PROVE  /\ AdvancedPoint(x, dt) \in Digital /\ Normal(AdvancedPoint(x, dt))
           /\ Value(AdvancedPoint(x, dt)) = advance(Value(x), dt)
<1>1. dt \in [m : Nat, p : Nat]
  BY AdjustmentsAssumption, ScalesNatural
<1>2. QED
  BY <1>1, AdvancedPointIs

\* One time point is replaced by one in normal form.
LEMMA ReplacedIs ==
    ASSUME PointTypeOK, NEW n \in Names, NEW x \in Digital, Normal(x),
           tp' = [tp EXCEPT ![n] = x]
    PROVE  /\ PointTypeOK'
           /\ [k \in Names |-> Value(tp[k])]' = [[k \in Names |-> Value(tp[k])] EXCEPT ![n] = Value(x)]
<1>1. tp \in [Names -> Digital] /\ \A k \in Names : Normal(tp[k])
  BY DEF PointTypeOK
<1>2. tp' \in [Names -> Digital] /\ \A k \in Names : tp'[k] = IF k = n THEN x ELSE tp[k]
  BY <1>1
<1>3. \A k \in Names : Normal(tp'[k])
  BY <1>1, <1>2
<1>4. PointTypeOK'
  BY <1>2, <1>3 DEF PointTypeOK
<1> DEFINE at == [k \in Names |-> Value(tp[k])]
           then == [k \in Names |-> Value(tp'[k])]
<1>5. then = [at EXCEPT ![n] = Value(x)]
  BY <1>2, Zenon
<1>6. [k \in Names |-> Value(tp[k])]' = then
  OBVIOUS
<1>7. QED
  BY <1>4, <1>5, <1>6

\* The numbers' operators are those of durations.
LEMMA MeaningIs ==
    /\ \A s : Meaning!Tick(s) = Tick(s)
    /\ \A t, dt : Meaning!advance(t, dt) = advance(t, dt)
<1>1. ASSUME NEW s PROVE Meaning!Tick(s) = Tick(s)
  BY Zenon DEF Meaning!Tick, Meaning!power, Tick, power
<1>2. ASSUME NEW t, NEW dt PROVE Meaning!advance(t, dt) = advance(t, dt)
  BY <1>1, Zenon DEF Meaning!advance, Meaning!Floor, advance, Floor
<1>3. QED
  BY <1>1, <1>2

\* Each operation on the digits is the one on numbers.
LEMMA PointStep ==
    PointTypeOK /\ [PointNext]_tp =>
        /\ PointTypeOK'
        /\ [Meaning!Next]_([n \in Names |-> Value(tp[n])])
<1> DEFINE at == [k \in Names |-> Value(tp[k])]
<1> SUFFICES ASSUME PointTypeOK, [PointNext]_tp
             PROVE  PointTypeOK' /\ (Meaning!Next \/ at' = at)
  OBVIOUS
<1>1. CASE UNCHANGED tp
  BY <1>1 DEF PointTypeOK
<1>2. ASSUME NEW n \in Names, NEW dt \in Initials, ConstructPoint(n, dt)
      PROVE  PointTypeOK' /\ Meaning!Construct(n, dt)
  <2> DEFINE x == Plus(Zero, dt)
  <2>1. tp' = [tp EXCEPT ![n] = x]
    BY <1>2 DEF ConstructPoint
  <2>2. x \in Digital /\ Normal(x) /\ Value(x) = dt.m * Tick(dt.p)
    BY ConstructedIs
  <2> HIDE DEF x
  <2>3. PointTypeOK' /\ at' = [at EXCEPT ![n] = Value(x)]
    BY <2>1, <2>2, ReplacedIs
  <2>4. QED
    BY <2>2, <2>3, MeaningIs, Zenon DEF Meaning!Construct
<1>3. ASSUME NEW n \in Names, NEW dt \in Offsets, AddToPoint(n, dt)
      PROVE  PointTypeOK' /\ Meaning!Add(n, dt)
  <2> DEFINE x == Plus(tp[n], dt)
  <2>1. tp' = [tp EXCEPT ![n] = x]
    BY <1>3 DEF AddToPoint
  <2>2. tp[n] \in Digital /\ Normal(tp[n])
    BY DEF PointTypeOK
  <2>3. x \in Digital /\ Normal(x) /\ Value(x) = Value(tp[n]) + dt.m * Tick(dt.p)
    BY <2>2, AddedIs
  <2> HIDE DEF x
  <2>4. PointTypeOK' /\ at' = [at EXCEPT ![n] = Value(x)]
    BY <2>1, <2>3, ReplacedIs
  <2>5. Value(tp[n]) = at[n]
    OBVIOUS
  <2>6. QED
    BY <2>3, <2>4, <2>5, MeaningIs, Zenon DEF Meaning!Add
<1>4. ASSUME NEW n \in Names, NEW dt \in Advances, AdvancePoint(n, dt)
      PROVE  PointTypeOK' /\ Meaning!Advance(n, dt)
  <2> DEFINE x == AdvancedPoint(tp[n], dt)
  <2>1. tp' = [tp EXCEPT ![n] = x]
    BY <1>4 DEF AdvancePoint
  <2>2. tp[n] \in Digital /\ Normal(tp[n])
    BY DEF PointTypeOK
  <2>3. x \in Digital /\ Normal(x) /\ Value(x) = advance(Value(tp[n]), dt)
    BY <2>2, AdvancesIs
  <2> HIDE DEF x
  <2>4. PointTypeOK' /\ at' = [at EXCEPT ![n] = Value(x)]
    BY <2>1, <2>3, ReplacedIs
  <2>5. Value(tp[n]) = at[n]
    OBVIOUS
  <2>6. QED
    BY <2>3, <2>4, <2>5, MeaningIs, Zenon DEF Meaning!Advance
<1>5. QED
  BY <1>1, <1>2, <1>3, <1>4 DEF PointNext, Meaning!Next

LEMMA PointInitMeans == PointInit => Meaning!Init
<1> SUFFICES ASSUME PointInit PROVE [n \in Names |-> Value(tp[n])] = [n \in Names |-> 0]
  BY DEF Meaning!Init
<1>1. \A n \in Names : Value(tp[n]) = 0
  BY ZeroIs DEF PointInit
<1>2. QED
  BY <1>1

\* time_point.cpp: whatever is added and however a time point is advanced, its
\* digits are in range, and its representation is the only one of its time.
THEOREM PointsStayNormal == PointSpec => []PointTypeOK
<1>1. PointInit => PointTypeOK
  BY PointInitType
<1>2. PointTypeOK /\ [PointNext]_tp => PointTypeOK'
  BY PointStep
<1>3. QED
  BY <1>1, <1>2, PTL DEF PointSpec

\* time_point.cpp: the constructor, operator+=, operator-= and advance, digit
\* by digit with carries, borrows and changes of sign, compute the integer that
\* time_point.h promises.
THEOREM PointsImplementInstants == PointSpec => ImplementsInstants
<1>1. PointInit => PointTypeOK /\ Meaning!Init
  BY PointInitType, PointInitMeans
<1>2. PointTypeOK /\ [PointNext]_tp =>
          PointTypeOK' /\ [Meaning!Next]_([n \in Names |-> Value(tp[n])])
  BY PointStep
<1>3. QED
  BY <1>1, <1>2, PTL DEF PointSpec, ImplementsInstants, Meaning!Spec


-----------------------------------------------------------------------------
(* Reading the digits                                                      *)

\* A digit is what the next scale cuts off the number.
LEMMA DigitIs ==
    ASSUME NEW x \in Digital, NEW s \in Nat
    PROVE  /\ Amount(x) \in Nat /\ Tick(s) \in Nat \ {0} /\ Amount(x) \div Tick(s) \in Nat
           /\ TicksBelow(x)[s] \in 0 .. Tick(s) - 1
           /\ Amount(x) = (Amount(x) \div Tick(s)) * Tick(s) + TicksBelow(x)[s]
           /\ DigitAt(x, s) = scale_phase(Amount(x), s)
<1> DEFINE A == Amount(x)
<1>1. ASSUME NEW k \in Nat
      PROVE  /\ A \in Nat /\ Tick(k) \in Nat \ {0} /\ A \div Tick(k) \in Nat
             /\ TicksBelow(x)[k] \in 0 .. Tick(k) - 1
             /\ A = (A \div Tick(k)) * Tick(k) + TicksBelow(x)[k]
  <2> DEFINE T == Tick(k)
             b == TicksBelow(x)[k]
  <2>1. A \in Nat /\ b \in 0 .. T - 1 /\ \E q \in Nat : A = q * T + b
    BY DigitsBelow
  <2>2. PICK q \in Nat : A = q * T + b
    BY <2>1
  <2>3. T \in Nat \ {0}
    BY TickPositive
  <2> HIDE DEF A, T, b
  <2>4. q * T \in Int /\ q * T <= A /\ A < q * T + T
    BY <2>1, <2>2, <2>3
  <2>5. A \in Int /\ q \in Int
    BY <2>1
  <2>6. A \div T = q
    BY <2>3, <2>4, <2>5, QuotientIs
  <2>7. QED
    BY <2>1, <2>2, <2>3, <2>6 DEF T, b
<1>2. x \in Written /\ DigitAt(x, s) \in 0 .. Base - 1 /\ Base \in Nat
  BY DigitalIs, BaseAssumption
<1>3. TicksBelow(x)[s + 1] = TicksBelow(x)[s] + DigitAt(x, s) * Tick(s) /\ Tick(s + 1) = Base * Tick(s)
  BY <1>2, SumOfDigits, TickNext
<1>4. A \div Tick(s) = Base * (A \div Tick(s + 1)) + scale_phase(A, s) /\ scale_phase(A, s) \in 0 .. Base - 1
  <2>1. A \in Int
    BY <1>1
  <2> HIDE DEF A
  <2>2. QED
    BY <2>1, ScalePhase
<1> DEFINE q == A \div Tick(s)
           r == A \div Tick(s + 1)
           T == Tick(s)
           b == TicksBelow(x)[s]
           d == DigitAt(x, s)
           e == scale_phase(A, s)
<1>5. /\ A \in Nat /\ T \in Nat \ {0} /\ q \in Nat /\ b \in Int /\ A = q * T + b
  BY <1>1
<1>6. r \in Nat /\ A = r * (Base * T) + (b + d * T)
  <2>1. s + 1 \in Nat
    OBVIOUS
  <2>2. r \in Nat /\ A = r * Tick(s + 1) + TicksBelow(x)[s + 1]
    BY <1>1, <2>1
  <2> HIDE DEF A, r
  <2>3. QED
    BY <1>3, <2>2
<1>7. q = Base * r + e /\ e \in Int /\ d \in Int
  BY <1>2, <1>4
<1> HIDE DEF A, q, r, T, b, d, e
<1>8. q * T = (Base * r + e) * T /\ (Base * r + e) * T = r * (Base * T) + e * T
      /\ r * (Base * T) \in Int /\ e * T \in Int /\ d * T \in Int
  BY <1>2, <1>5, <1>6, <1>7
<1>9. e * T = d * T
  <2> DEFINE u == r * (Base * T)
             v == e * T
             w == d * T
  <2>1. A = (u + v) + b /\ A = u + (b + w) /\ u \in Int /\ v \in Int /\ w \in Int
    BY <1>5, <1>6, <1>8
  <2> HIDE DEF u, v, w
  <2>2. v = w
    BY <1>5, <2>1
  <2>3. QED
    BY <2>2 DEF v, w
<1>10. e = d
  BY <1>5, <1>7, <1>9
<1>11. QED
  BY <1>1, <1>10 DEF A, d, e

\* The complement of a negative number's phase is measured from the left.
LEMMA ComplementIs ==
    ASSUME NEW x \in Digital, Normal(x), NEW s \in Nat, NEW K \in Nat \ {0}
    PROVE  Complement(x, (Amount(x) \div Tick(s)) % K, K, s) = (Value(x) \div Tick(s)) % K
<1> DEFINE A == Amount(x)
           T == Tick(s)
           b == TicksBelow(x)[s]
           q == A \div T
           h == q \div K
           e == q % K
<1>1. A \in Nat /\ T \in Nat \ {0} /\ q \in Nat /\ b \in 0 .. T - 1 /\ A = q * T + b
  BY DigitIs
<1>2. x.sign \in {1, -1} /\ x.precision \in Nat /\ Value(x) = x.sign * A
  BY DEF Digital, Value, Amount
<1>3. h \in Int /\ e \in 0 .. K - 1 /\ q = h * K + e
  <2> HIDE DEF q
  <2> QED  BY <1>1, Quotient
<1>4. CASE x.sign = 1
  <2>1. Value(x) = A
    BY <1>1, <1>2, <1>4
  <2>2. QED
    BY <1>4, <2>1 DEF Complement
<1>5. CASE x.sign = -1
  <2>1. Value(x) = -A
    BY <1>1, <1>2, <1>5
  <2>2. CASE x.precision < s
    <3>1. b > 0
      BY <1>5, <2>2, FineDigits
    <3>2. Complement(x, e, K, s) = K - e - 1
      BY <1>5, <2>2 DEF Complement
    <3> DEFINE n == -q - 1
    <3> HIDE DEF A, T, b, q, h, e
    <3>3. n \in Int /\ n * T = -(q * T) - T /\ q * T \in Int
      BY <1>1
    <3>4. -A \in Int /\ n * T <= -A /\ -A < n * T + T
      BY <1>1, <3>1, <3>3
    <3> HIDE DEF n
    <3>5. (-A) \div T = n
      BY <1>1, <3>3, <3>4, QuotientIs
    <3> DEFINE c == -h - 1
    <3>6. c \in Int /\ c * K = -(h * K) - K /\ h * K \in Int
      BY <1>3
    <3>7. c * K <= n /\ n < c * K + K /\ n - c * K = K - e - 1
      BY <1>3, <3>6 DEF n
    <3> HIDE DEF c
    <3>8. n % K = n - c * K
      BY <3>3, <3>6, <3>7, QuotientIs
    <3>9. QED
      BY <2>1, <3>2, <3>5, <3>7, <3>8 DEF T, e, q, A
  <2>3. CASE ~(x.precision < s)
    <3>1. b = 0
      BY <1>2, <2>3, CutIs
    <3>2. Complement(x, e, K, s) = IF e = 0 THEN 0 ELSE K - e
      BY <1>5, <2>3 DEF Complement
    <3> DEFINE n == -q
    <3> HIDE DEF A, T, b, q, h, e
    <3>3. n \in Int /\ n * T = -(q * T) /\ q * T \in Int
      BY <1>1
    <3>4. -A = n * T
      BY <1>1, <3>1, <3>3
    <3> HIDE DEF n
    <3>5. (-A) \div T = n
      BY <1>1, <3>3, <3>4, QuotientOfMultiple
    <3>6. CASE e = 0
      <4> DEFINE c == -h
      <4>1. c \in Int /\ c * K = -(h * K) /\ h * K \in Int
        BY <1>3
      <4>2. n = c * K
        BY <1>3, <3>6, <4>1 DEF n
      <4> HIDE DEF c
      <4>3. n % K = 0
        BY <4>1, <4>2, QuotientOfMultiple
      <4>4. QED
        BY <2>1, <3>2, <3>5, <3>6, <4>3 DEF T, e, q, A
    <3>7. CASE e # 0
      <4> DEFINE c == -h - 1
      <4>1. c \in Int /\ c * K = -(h * K) - K /\ h * K \in Int
        BY <1>3
      <4>2. c * K <= n /\ n < c * K + K /\ n - c * K = K - e
        BY <1>3, <3>7, <4>1 DEF n
      <4> HIDE DEF c
      <4>3. n % K = n - c * K
        BY <3>3, <4>1, <4>2, QuotientIs
      <4>4. QED
        BY <2>1, <3>2, <3>5, <3>7, <4>2, <4>3 DEF T, e, q, A
    <3>8. QED
      BY <3>6, <3>7
  <2>4. QED
    BY <2>2, <2>3
<1>6. QED
  BY <1>2, <1>4, <1>5

\* scale_phase of the digits is that of the number.
LEMMA PhaseAtIs ==
    ASSUME NEW x \in Digital, Normal(x), NEW s \in Nat
    PROVE  PhaseAt(x, s) = scale_phase(Value(x), s)
<1>1. Base \in Nat \ {0}
  BY BaseAssumption
<1>2. DigitAt(x, s) = (Amount(x) \div Tick(s)) % Base
  BY DigitIs DEF scale_phase
<1>3. Complement(x, (Amount(x) \div Tick(s)) % Base, Base, s) = (Value(x) \div Tick(s)) % Base
  BY <1>1, ComplementIs
<1>4. QED
  BY <1>2, <1>3 DEF PhaseAt, scale_phase

\* So is epoch_phase, put together from EpochScales digits.
LEMMA EpochAtIs ==
    ASSUME NEW x \in Digital, Normal(x), NEW s \in Nat
    PROVE  EpochAt(x, s) = epoch_phase(Value(x), s)
<1> DEFINE E == EpochScales
           A == Amount(x)
           Rec(g) == [k \in 0 .. E |-> IF k = 0 THEN 0 ELSE Base * g[k - 1] + DigitAt(x, s + E - k)]
           h == CHOOSE g : g = Rec(g)
           f == [k \in 0 .. E |-> (A \div Tick(s + E - k)) % Tick(k)]
<1>1. E \in Nat \ {0} /\ A \in Nat /\ Base \in Nat \ {0}
  BY EpochScalesAssumption, BaseAssumption, DigitIs
<1>2. EpochAt(x, s) = Complement(x, h[E], quantity_limit, s)
  BY DEF EpochAt
<1>3. f[0] = 0
  <2>1. A \div Tick(s + E - 0) \in Int
    <3>1. s + E - 0 \in Nat
      BY <1>1
    <3>2. Tick(s + E - 0) \in Nat \ {0} /\ A \in Int
      BY <1>1, <3>1, TickPositive
    <3> HIDE DEF A
    <3>3. QED
      BY <3>2, Quotient
  <2>2. \A n \in Int : n % 1 = 0
    OBVIOUS
  <2>3. QED
    BY <1>1, <2>1, <2>2, TickZero
<1>4. ASSUME NEW k \in 1 .. E PROVE f[k] = Base * f[k - 1] + DigitAt(x, s + E - k)
  <2> DEFINE j == s + E - k
             u == A \div Tick(j + 1)
             K == Tick(k - 1)
             d == DigitAt(x, j)
  <2>1. j \in Nat /\ k - 1 \in Nat /\ k - 1 \in 0 .. E /\ k \in 0 .. E /\ s + E - (k - 1) = j + 1 /\ (k - 1) + 1 = k
    BY <1>1
  <2>2. f[k] = (A \div Tick(j)) % Tick(k) /\ f[k - 1] = u % K
    BY <2>1
  <2> HIDE DEF f, j
  <2>3. d \in 0 .. Base - 1 /\ A \div Tick(j) = Base * u + d
    <3>1. A \in Int
      BY <1>1
    <3> HIDE DEF A
    <3>2. A \div Tick(j) = Base * u + scale_phase(A, j) /\ scale_phase(A, j) \in 0 .. Base - 1
      BY <2>1, <3>1, ScalePhase
    <3>3. d = scale_phase(A, j)
      BY <2>1, DigitIs DEF A
    <3>4. QED
      BY <3>2, <3>3
  <2>4. u \in Int
    <3>1. Tick(j + 1) \in Nat \ {0} /\ A \in Int
      BY <1>1, <2>1, TickPositive
    <3> HIDE DEF A
    <3>2. QED
      BY <3>1, Quotient
  <2>5. K \in Nat \ {0} /\ Tick(k) = Base * K
    BY <2>1, TickPositive, TickNext
  <2> DEFINE c == u \div K
             e == u % K
  <2> HIDE DEF u, K, d
  <2>6. c \in Int /\ e \in 0 .. K - 1 /\ u = c * K + e
    BY <2>4, <2>5, Quotient
  <2> HIDE DEF c, e
  <2> DEFINE n == Base * u + d
             L == Base * K
  <2>7. n \in Int /\ L \in Nat \ {0} /\ c * L \in Int /\ n = c * L + (Base * e + d)
    <3>1. Base * (c * K + e) = c * (Base * K) + Base * e /\ c * (Base * K) \in Int
      BY <1>1, <2>5, <2>6
    <3>2. Base * e \in Int /\ Base * u \in Int /\ d \in Int
      BY <1>1, <2>3, <2>4, <2>6
    <3>3. Base * K \in Nat \ {0}
      BY <1>1, <2>5
    <3>4. QED
      BY <2>6, <3>1, <3>2, <3>3
  <2>8. Base * e + d \in 0 .. L - 1
    <3>1. Base * e <= Base * (K - 1) /\ Base * (K - 1) = Base * K - Base /\ Base * e \in Nat
      BY <1>1, <2>5, <2>6
    <3>2. Base * K \in Int
      BY <1>1, <2>5
    <3>3. QED
      BY <1>1, <2>3, <3>1, <3>2
  <2> HIDE DEF n, L
  <2>9. c * L <= n /\ n < c * L + L /\ n - c * L = Base * e + d
    <3> DEFINE w == Base * e + d
    <3>1. w \in 0 .. L - 1 /\ n = c * L + w
      BY <2>7, <2>8
    <3> HIDE DEF w
    <3>2. c * L <= n /\ n < c * L + L /\ n - c * L = w
      BY <2>7, <3>1
    <3>3. QED
      BY <3>2 DEF w
  <2>10. n % L = n - c * L
    BY <2>6, <2>7, <2>9, QuotientIs
  <2>11. QED
    BY <2>2, <2>3, <2>5, <2>9, <2>10 DEF n, L, e, d, j
<1>5. f = Rec(f)
  <2>1. \A k \in 0 .. E : f[k] = Rec(f)[k]
    <3>1. ASSUME NEW k \in 0 .. E PROVE f[k] = Rec(f)[k]
      <4>1. CASE k = 0
        <5> HIDE DEF f
        <5> QED  BY <1>3, <4>1
      <4>2. CASE k # 0
        <5>1. k \in 1 .. E
          BY <1>1, <4>2
        <5>2. f[k] = Base * f[k - 1] + DigitAt(x, s + E - k)
          BY <1>4, <5>1
        <5> HIDE DEF f
        <5>3. QED
          BY <4>2, <5>2
      <4>3. QED
        BY <4>1, <4>2
    <3>2. QED
      BY <3>1
  <2>2. Rec(f) = [k \in 0 .. E |-> Rec(f)[k]]
    <3> HIDE DEF f
    <3> QED  OBVIOUS
  <2>3. f = [k \in 0 .. E |-> f[k]]
    OBVIOUS
  <2> HIDE DEF Rec, f
  <2>4. QED
    BY <2>1, <2>2, <2>3
<1>6. h = Rec(h)
  <2> HIDE DEF Rec, f
  <2> QED  BY <1>5
<1> HIDE DEF h
<1>7. h[0] = 0 /\ \A k \in 1 .. E : h[k] = Base * h[k - 1] + DigitAt(x, s + E - k)
  <2>1. \A k \in 0 .. E : h[k] = Rec(h)[k]
    BY <1>6
  <2>2. \A k \in 0 .. E : Rec(h)[k] = IF k = 0 THEN 0 ELSE Base * h[k - 1] + DigitAt(x, s + E - k)
    OBVIOUS
  <2> HIDE DEF Rec
  <2>3. QED
    BY <1>1, <2>1, <2>2
<1>8. \A k \in Nat : 0 <= k /\ k <= E => h[k] = f[k]
  <2> DEFINE S == {k \in Nat : k <= E => h[k] = f[k]}
  <2> HIDE DEF f
  <2>1. 0 \in S
    BY <1>3, <1>7
  <2>2. ASSUME NEW k \in Nat, 0 <= k, k \in S PROVE k + 1 \in S
    <3> SUFFICES ASSUME k + 1 <= E PROVE h[k + 1] = f[k + 1]
      OBVIOUS
    <3>1. k + 1 \in 1 .. E /\ (k + 1) - 1 = k /\ k <= E
      BY <1>1
    <3>2. h[k] = f[k]
      BY <2>2, <3>1
    <3>3. h[k + 1] = Base * h[k] + DigitAt(x, s + E - (k + 1))
      BY <1>7, <3>1
    <3>4. f[k + 1] = Base * f[k] + DigitAt(x, s + E - (k + 1))
      BY <1>4, <3>1
    <3>5. QED
      BY <3>2, <3>3, <3>4
  <2>3. \A k \in Nat : 0 <= k => k \in S
    <3> HIDE DEF S
    <3> QED  BY <2>1, <2>2, Upwards
  <2>4. QED
    BY <2>3
<1>9. h[E] = (A \div Tick(s)) % quantity_limit
  <2>1. h[E] = f[E]
    BY <1>1, <1>8
  <2>2. f[E] = (A \div Tick(s + E - E)) % Tick(E)
    BY <1>1
  <2>3. s + E - E = s
    BY <1>1
  <2>4. QED
    BY <2>1, <2>2, <2>3 DEF quantity_limit, Tick
<1>10. Complement(x, (A \div Tick(s)) % quantity_limit, quantity_limit, s)
       = (Value(x) \div Tick(s)) % quantity_limit
  BY LimitPhases, ComplementIs
<1>11. QED
  BY <1>2, <1>9, <1>10 DEF epoch_phase


LEMMA ReadFromTheLeft == PointTypeOK => PhasesFromTheLeft
<1> SUFFICES ASSUME PointTypeOK, NEW n \in Names, NEW s \in 0 .. Top(tp[n]) + 1
             PROVE  /\ PhaseAt(tp[n], s) = scale_phase(Value(tp[n]), s)
                    /\ EpochAt(tp[n], s) = epoch_phase(Value(tp[n]), s)
  BY DEF PhasesFromTheLeft
<1>1. tp[n] \in Digital /\ Normal(tp[n])
  BY DEF PointTypeOK
<1>2. s \in Nat
  OBVIOUS
<1>3. QED
  BY <1>1, <1>2, PhaseAtIs, EpochAtIs

-----------------------------------------------------------------------------
(* Comparing digits                                                        *)

\* The difference of two numbers is that of their digits below a scale from
\* which on they agree.
LEMMA SignedSums ==
    ASSUME NEW x \in Digital, NEW y \in Digital, NEW a \in Nat,
           \A s \in Nat : a <= s => x.sign * DigitAt(x, s) = y.sign * DigitAt(y, s)
    PROVE  /\ Value(x) \in Int /\ Value(y) \in Int
           /\ Value(x) - Value(y) = x.sign * TicksBelow(x)[a] - y.sign * TicksBelow(y)[a]
<1> DEFINE u(s) == x.sign * TicksBelow(x)[s]
           v(s) == y.sign * TicksBelow(y)[s]
           S == {s \in Nat : u(s) - v(s) = u(a) - v(a)}
           c == a + Top(x) + Top(y)
<1>1. /\ x.sign \in {1, -1} /\ y.sign \in {1, -1} /\ x \in Written /\ y \in Written
      /\ Top(x) \in Nat /\ Top(y) \in Nat
  <2>1. x \in Written /\ y \in Written
    BY DigitalIs
  <2>2. QED
    BY <2>1, DigitAtType
<1>2. ASSUME NEW s \in Nat
      PROVE  /\ u(s) \in Int /\ v(s) \in Int
             /\ u(s + 1) = u(s) + (x.sign * DigitAt(x, s)) * Tick(s)
             /\ v(s + 1) = v(s) + (y.sign * DigitAt(y, s)) * Tick(s)
             /\ (x.sign * DigitAt(x, s)) * Tick(s) \in Int
  <2> DEFINE d == DigitAt(x, s)
             e == DigitAt(y, s)
             T == Tick(s)
             m == TicksBelow(x)[s]
             n == TicksBelow(y)[s]
  <2>1. /\ d \in Int /\ e \in Int /\ T \in Int /\ m \in Int /\ n \in Int
        /\ TicksBelow(x)[s + 1] = m + d * T /\ TicksBelow(y)[s + 1] = n + e * T
    <3>1. d \in Int /\ e \in Int
      BY <1>1, DigitAtType
    <3>2. T \in Int
      BY TickPositive
    <3>3. m \in Int /\ TicksBelow(x)[s + 1] = m + d * T
      BY <1>1, SumOfDigits
    <3>4. n \in Int /\ TicksBelow(y)[s + 1] = n + e * T
      BY <1>1, SumOfDigits
    <3>5. QED
      BY <3>1, <3>2, <3>3, <3>4
  <2> HIDE DEF d, e, T, m, n
  <2>2. ASSUME NEW g \in {1, -1}, NEW k \in Int, NEW i \in Int
        PROVE  g * k \in Int /\ (g * i) * T \in Int /\ g * (k + i * T) = g * k + (g * i) * T
    <3>1. i * T \in Int
      BY <2>1
    <3> DEFINE w == i * T
    <3>2. CASE g = 1
      <4>1. (1 * i) * T = i * T
        OBVIOUS
      <4> HIDE DEF w
      <4>2. 1 * (k + w) = 1 * k + w
        BY <3>1 DEF w
      <4>3. QED
        BY <3>1, <3>2, <4>1, <4>2 DEF w
    <3>3. CASE g = -1
      <4>1. ((-1) * i) * T = -(i * T)
        BY <2>1
      <4> HIDE DEF w
      <4>2. (-1) * (k + w) = (-1) * k + (-w)
        BY <3>1 DEF w
      <4>3. QED
        BY <3>1, <3>3, <4>1, <4>2 DEF w
    <3>4. QED
      BY <3>2, <3>3
  <2>3. x.sign * m \in Int /\ (x.sign * d) * T \in Int /\ x.sign * (m + d * T) = x.sign * m + (x.sign * d) * T
    BY <1>1, <2>1, <2>2
  <2>4. y.sign * n \in Int /\ y.sign * (n + e * T) = y.sign * n + (y.sign * e) * T
    BY <1>1, <2>1, <2>2
  <2>5. QED
    BY <2>1, <2>3, <2>4 DEF d, e, T, m, n
<1> HIDE DEF u, v
<1>3. a \in S
  OBVIOUS
<1>4. ASSUME NEW k \in Nat, a <= k, k \in S PROVE k + 1 \in S
  <2> DEFINE w == (x.sign * DigitAt(x, k)) * Tick(k)
  <2>1. u(k) - v(k) = u(a) - v(a)
    BY <1>4
  <2>2. u(k) \in Int /\ v(k) \in Int /\ w \in Int /\ u(k + 1) = u(k) + w /\ v(k + 1) = v(k) + w
    BY <1>2, <1>4
  <2> HIDE DEF w
  <2>3. u(k + 1) - v(k + 1) = u(k) - v(k)
    BY <2>2
  <2>4. QED
    BY <2>1, <2>3
<1>5. \A k \in Nat : a <= k => k \in S
  <2> HIDE DEF S
  <2> QED  BY <1>3, <1>4, Upwards
<1>6. c \in Nat /\ a <= c /\ Top(x) <= c /\ Top(y) <= c
  BY <1>1
<1> HIDE DEF c
<1>7. u(c) = Value(x) /\ v(c) = Value(y)
  <2>1. TicksBelow(x)[c] = Amount(x) /\ TicksBelow(y)[c] = Amount(y)
    BY <1>1, <1>6, AmountFrom
  <2>2. QED
    BY <2>1 DEF Value, Amount, u, v
<1>8. u(c) - v(c) = u(a) - v(a)
  BY <1>5, <1>6
<1>9. u(c) \in Int /\ v(c) \in Int
  BY <1>2, <1>6
<1>10. QED
  BY <1>7, <1>8, <1>9 DEF u, v

\* Of two numbers of one sign, the greater has the greater digit at the
\* coarsest scale where they differ; of two signs, the positive is greater.
LEMMA ComparedAt ==
    ASSUME NEW x \in Digital, NEW y \in Digital, NEW r \in Nat,
           \A s \in Nat : r < s => x.sign * DigitAt(x, s) = y.sign * DigitAt(y, s),
           x.sign * DigitAt(x, r) < y.sign * DigitAt(y, r)
    PROVE  Value(x) < Value(y)
<1> DEFINE T == Tick(r)
           P == Tick(r + 1)
           a == TicksBelow(x)[r]
           b == TicksBelow(y)[r]
           A == Amount(x)
           B == Amount(y)
           d == DigitAt(x, r)
           e == DigitAt(y, r)
<1>1. /\ x.sign \in {1, -1} /\ y.sign \in {1, -1} /\ x \in Written /\ y \in Written
      /\ \A s \in Int : DigitAt(x, s) \in 0 .. Base - 1
      /\ \A s \in Int : DigitAt(y, s) \in 0 .. Base - 1
  BY DigitalIs DEF Digital
<1>2. T \in Nat \ {0} /\ a \in 0 .. T - 1 /\ b \in 0 .. T - 1 /\ A \in Nat /\ B \in Nat
  BY DigitIs
<1>3. d \in Nat /\ e \in Nat /\ Base \in Nat
  BY <1>1, BaseAssumption
<1>4. Value(x) \in Int /\ Value(y) \in Int
      /\ Value(x) - Value(y) = x.sign * TicksBelow(x)[r + 1] - y.sign * TicksBelow(y)[r + 1]
  <2>1. r + 1 \in Nat /\ \A s \in Nat : r + 1 <= s => r < s
    OBVIOUS
  <2>2. \A s \in Nat : r + 1 <= s => x.sign * DigitAt(x, s) = y.sign * DigitAt(y, s)
    BY <2>1
  <2>3. QED
    BY <2>1, <2>2, SignedSums
<1>5. TicksBelow(x)[r + 1] = a + d * T /\ TicksBelow(y)[r + 1] = b + e * T
  BY <1>1, SumOfDigits
<1>6. x.sign * d < y.sign * e
  OBVIOUS
<1> HIDE DEF T, P, a, b, A, B, d, e
<1> DEFINE f == d * T
           g == e * T
<1>7. f \in Nat /\ g \in Nat
  BY <1>2, <1>3
<1>8. ASSUME NEW i \in Nat, NEW j \in Nat, i < j PROVE i * T + T <= j * T
  <2>1. (i + 1) * T <= j * T /\ (i + 1) * T = i * T + T
    BY <1>2, <1>8
  <2>2. QED
    BY <2>1
<1>9. d < e => f + T <= g
  BY <1>3, <1>8
<1>10. e < d => g + T <= f
  BY <1>3, <1>8
<1>11. 0 < d => T <= f
  <2>1. 0 < d => 0 * T + T <= d * T /\ 0 * T = 0
    BY <1>2, <1>3, <1>8
  <2>2. QED
    BY <1>2, <2>1
<1>12. 0 < e => T <= g
  <2>1. 0 < e => 0 * T + T <= e * T /\ 0 * T = 0
    BY <1>2, <1>3, <1>8
  <2>2. QED
    BY <1>2, <2>1
<1>13. Value(x) - Value(y) = x.sign * (a + f) - y.sign * (b + g)
  BY <1>4, <1>5
<1> HIDE DEF f, g
<1>14. CASE x.sign = 1 /\ y.sign = 1
  BY <1>2, <1>3, <1>4, <1>6, <1>7, <1>9, <1>13, <1>14
<1>15. CASE x.sign = -1 /\ y.sign = -1
  BY <1>2, <1>3, <1>4, <1>6, <1>7, <1>10, <1>13, <1>15
<1>16. CASE x.sign = 1 /\ y.sign = -1
  BY <1>3, <1>6, <1>16
<1>17. CASE x.sign = -1 /\ y.sign = 1
  BY <1>2, <1>3, <1>4, <1>6, <1>7, <1>11, <1>12, <1>13, <1>17
<1>18. QED
  BY <1>1, <1>14, <1>15, <1>16, <1>17

\* Where the search from the coarsest digit on stops: it has passed the scales
\* where the digits agree.
Discrepant(x, y, s) == x.sign * DigitAt(x, s) # y.sign * DigitAt(y, s)
StopsAt(x, y, s, r) ==
    /\ r \in Int /\ Finer(x.precision, y.precision) - 1 <= r /\ r <= s
    /\ r < Finer(x.precision, y.precision) \/ Discrepant(x, y, r)
    /\ \A q \in Int : r < q /\ q <= s => ~Discrepant(x, y, q)

LEMMA SearchIs ==
    ASSUME NEW x \in Digital, NEW y \in Digital
    PROVE  StopsAt(x, y, Coarser(Top(x), Top(y)) - 1, upper_discrepant_precision(x, y))
<1> DEFINE finest == Finer(x.precision, y.precision)
           top == Coarser(Top(x), Top(y)) - 1
           On(s) == s >= finest /\ x.sign * DigitAt(x, s) = y.sign * DigitAt(y, s)
           Rec(g) == [s \in Int |-> IF On(s) THEN g[s - 1] ELSE s]
           h == CHOOSE g : g = Rec(g)
           Stop(s, r) == r \in Int /\ r <= s /\ ~On(r) /\ \A q \in Int : r < q /\ q <= s => On(q)
           f == [s \in Int |-> CHOOSE r \in Int : Stop(s, r)]
<1>1. finest \in Nat /\ top \in Int /\ finest - 1 <= top
  <2>1. x \in Written /\ y \in Written
    BY DigitalIs
  <2>2. /\ x.precision \in Nat /\ Top(x) \in Nat /\ x.precision <= Top(x)
        /\ y.precision \in Nat /\ Top(y) \in Nat /\ y.precision <= Top(y)
    BY <2>1, DigitAtType
  <2>3. QED
    BY <2>2 DEF Finer, Coarser
<1>2. upper_discrepant_precision(x, y) = h[top]
  BY DEF upper_discrepant_precision
<1>3. \A s \in Int : On(s) => finest <= s
  OBVIOUS
<1> HIDE DEF On, finest, top
<1>4. ASSUME NEW s \in Int PROVE \E r \in Int : Stop(s, r)
  <2> DEFINE S == {i \in Nat : ~On(s - i)}
  <2>1. \E i \in Nat : i \in S
    <3>1. CASE s < finest
      <4>1. s - 0 = s /\ ~On(s)
        BY <1>1, <1>3, <3>1
      <4>2. 0 \in S
        BY <4>1
      <4>3. QED
        BY <4>2
    <3>2. CASE finest <= s
      <4>1. s - finest + 1 \in Nat /\ s - (s - finest + 1) = finest - 1
        BY <1>1, <3>2
      <4>2. ~On(finest - 1)
        BY <1>1, <1>3
      <4>3. s - finest + 1 \in S
        BY <4>1, <4>2
      <4>4. QED
        BY <4>1, <4>3
    <3>3. QED
      BY <1>1, <3>1, <3>2
  <2>2. PICK i \in S : \A j \in S : i <= j
    <3>1. S \subseteq Nat /\ S # {}
      BY <2>1
    <3> HIDE DEF S
    <3>2. QED
      BY <3>1, LeastNatural
  <2>3. i \in Nat /\ ~On(s - i)
    OBVIOUS
  <2>4. ASSUME NEW q \in Int, s - i < q, q <= s PROVE On(q)
    <3>1. s - q \in Nat /\ s - (s - q) = q /\ s - q < i
      BY <2>3, <2>4
    <3>2. s - q \notin S
      <4> HIDE DEF S
      <4> QED  BY <2>2, <2>3, <3>1
    <3>3. QED
      BY <3>1, <3>2
  <2>5. Stop(s, s - i)
    BY <2>3, <2>4
  <2>6. s - i \in Int
    BY <2>3
  <2> HIDE DEF Stop
  <2>7. QED
    BY <2>5, <2>6
<1>5. ASSUME NEW s \in Int, NEW r \in Int, NEW t \in Int, Stop(s, r), Stop(s, t) PROVE r = t
  <2>1. ~(r < t)
    BY <1>5
  <2>2. ~(t < r)
    BY <1>5
  <2>3. QED
    BY <2>1, <2>2
<1>6. \A s \in Int : f[s] \in Int /\ Stop(s, f[s])
  <2> HIDE DEF Stop
  <2> QED  BY <1>4
<1>7. f = Rec(f)
  <2>1. ASSUME NEW s \in Int PROVE f[s] = Rec(f)[s]
    <3>1. CASE On(s)
      <4>1. s - 1 \in Int /\ Rec(f)[s] = f[s - 1]
        <5> HIDE DEF f
        <5> QED  BY <3>1
      <4> HIDE DEF f, Rec
      <4>2. f[s - 1] \in Int /\ Stop(s - 1, f[s - 1])
        BY <1>6, <4>1
      <4>3. Stop(s, f[s - 1])
        <5> DEFINE r == f[s - 1]
        <5>1. r \in Int /\ r <= s - 1 /\ ~On(r) /\ \A q \in Int : r < q /\ q <= s - 1 => On(q)
          BY <4>2
        <5> HIDE DEF r
        <5>2. r <= s
          BY <5>1
        <5>3. ASSUME NEW q \in Int, r < q, q <= s PROVE On(q)
          <6>1. q = s \/ q <= s - 1
            BY <5>3
          <6>2. QED
            BY <3>1, <5>1, <5>3, <6>1
        <5>4. Stop(s, r)
          BY <5>1, <5>2, <5>3
        <5>5. QED
          BY <5>4 DEF r
      <4> HIDE DEF Stop
      <4>4. f[s] \in Int /\ Stop(s, f[s])
        BY <1>6
      <4>5. f[s] = f[s - 1]
        BY <1>5, <4>2, <4>3, <4>4
      <4>6. QED
        BY <4>1, <4>5
    <3>2. CASE ~On(s)
      <4>1. Rec(f)[s] = s
        <5> HIDE DEF f
        <5> QED  BY <3>2
      <4> HIDE DEF f, Rec
      <4>2. Stop(s, s)
        BY <3>2
      <4> HIDE DEF Stop
      <4>3. f[s] \in Int /\ Stop(s, f[s])
        BY <1>6
      <4>4. f[s] = s
        BY <1>5, <4>2, <4>3
      <4>5. QED
        BY <4>1, <4>4
    <3>3. QED
      BY <3>1, <3>2
  <2>2. Rec(f) = [s \in Int |-> Rec(f)[s]]
    <3> HIDE DEF f
    <3> QED  OBVIOUS
  <2>3. f = [s \in Int |-> f[s]]
    OBVIOUS
  <2> HIDE DEF Rec, f
  <2>4. QED
    BY <2>1, <2>2, <2>3
<1>8. h = Rec(h)
  <2> HIDE DEF Rec, f
  <2> QED  BY <1>7
<1> HIDE DEF h
<1>9. \A s \in Int : h[s] = IF On(s) THEN h[s - 1] ELSE s
  <2>1. \A s \in Int : h[s] = Rec(h)[s]
    BY <1>8
  <2>2. \A s \in Int : Rec(h)[s] = IF On(s) THEN h[s - 1] ELSE s
    OBVIOUS
  <2> HIDE DEF Rec
  <2>3. QED
    BY <2>1, <2>2
\* What the search from a scale on finds, by induction on the scale.
<1>10. \A i \in Nat : 0 <= i => Stop(finest - 1 + i, h[finest - 1 + i]) /\ finest - 1 <= h[finest - 1 + i]
  <2> DEFINE S == {i \in Nat : Stop(finest - 1 + i, h[finest - 1 + i]) /\ finest - 1 <= h[finest - 1 + i]}
  <2>1. 0 \in S
    <3>1. finest - 1 + 0 = finest - 1 /\ finest - 1 \in Int /\ ~On(finest - 1)
      BY <1>1, <1>3
    <3>2. h[finest - 1] = finest - 1
      BY <1>9, <3>1
    <3>3. QED
      BY <1>1, <3>1, <3>2
  <2>2. ASSUME NEW k \in Nat, 0 <= k, k \in S PROVE k + 1 \in S
    <3> DEFINE s == finest - 1 + (k + 1)
               r == h[s - 1]
    <3>1. s \in Int /\ s - 1 = finest - 1 + k /\ finest - 1 <= s
      BY <1>1
    <3>2. Stop(s - 1, r) /\ finest - 1 <= r
      BY <2>2, <3>1
    <3> HIDE DEF s
    <3>3. CASE On(s)
      <4>1. h[s] = r
        BY <1>9, <3>1, <3>3
      <4>2. r \in Int /\ r <= s - 1 /\ ~On(r) /\ \A q \in Int : r < q /\ q <= s - 1 => On(q)
        BY <3>2
      <4> HIDE DEF r
      <4>3. r <= s
        BY <3>1, <4>2
      <4>4. ASSUME NEW q \in Int, r < q, q <= s PROVE On(q)
        <5>1. q = s \/ q <= s - 1
          BY <3>1, <4>4
        <5>2. QED
          BY <3>3, <4>2, <4>4, <5>1
      <4>5. Stop(s, r)
        BY <4>2, <4>3, <4>4
      <4> HIDE DEF Stop
      <4>6. Stop(s, h[s]) /\ finest - 1 <= h[s]
        BY <3>2, <4>1, <4>5
      <4>7. QED
        BY <4>6 DEF s
    <3>4. CASE ~On(s)
      <4>1. h[s] = s
        BY <1>9, <3>1, <3>4
      <4>2. Stop(s, s)
        BY <3>1, <3>4
      <4> HIDE DEF Stop
      <4>3. Stop(s, h[s]) /\ finest - 1 <= h[s]
        BY <3>1, <4>1, <4>2
      <4>4. QED
        BY <4>3 DEF s
    <3>5. QED
      BY <3>3, <3>4
  <2>3. \A k \in Nat : 0 <= k => k \in S
    <3> HIDE DEF S
    <3> QED  BY <2>1, <2>2, Upwards
  <2>4. QED
    BY <2>3
<1>11. Stop(top, h[top]) /\ finest - 1 <= h[top]
  <2>1. top - (finest - 1) \in Nat /\ 0 <= top - (finest - 1) /\ finest - 1 + (top - (finest - 1)) = top
    BY <1>1
  <2> HIDE DEF Stop
  <2>2. QED
    BY <1>10, <2>1
<1> DEFINE r == h[top]
<1>12. r \in Int /\ finest - 1 <= r /\ r <= top /\ ~On(r) /\ \A q \in Int : r < q /\ q <= top => On(q)
  BY <1>11
<1> HIDE DEF r
<1>13. r < finest \/ Discrepant(x, y, r)
  BY <1>1, <1>12 DEF On, Discrepant, finest
<1>14. \A q \in Int : r < q /\ q <= top => ~Discrepant(x, y, q)
  BY <1>12 DEF On, Discrepant
<1>15. StopsAt(x, y, top, r)
  BY <1>12, <1>13, <1>14 DEF StopsAt, finest
<1>16. QED
  BY <1>2, <1>15 DEF r, top

\* Comparing the digits compares the numbers.
LEMMA ComparedIs ==
    ASSUME NEW x \in Digital, NEW y \in Digital
    PROVE  /\ Less(x, y) <=> Value(x) < Value(y)
           /\ Equal(x, y) <=> Value(x) = Value(y)
<1> DEFINE r == upper_discrepant_precision(x, y)
           top == Coarser(Top(x), Top(y)) - 1
           finest == Finer(x.precision, y.precision)
<1>1. /\ x \in Written /\ y \in Written /\ x.sign \in {1, -1} /\ y.sign \in {1, -1}
      /\ x.precision \in Nat /\ Top(x) \in Nat
      /\ y.precision \in Nat /\ Top(y) \in Nat
      /\ \A s \in Int : DigitAt(x, s) \in Int /\ DigitAt(y, s) \in Int
      /\ \A s \in Int : s < x.precision \/ Top(x) <= s => DigitAt(x, s) = 0
      /\ \A s \in Int : s < y.precision \/ Top(y) <= s => DigitAt(y, s) = 0
  <2>1. x \in Written /\ y \in Written
    BY DigitalIs
  <2>2. QED
    BY <2>1, DigitAtType
<1>2. StopsAt(x, y, top, r)
  BY SearchIs
<1>3. finest \in Nat /\ finest <= x.precision /\ finest <= y.precision
      /\ top \in Int /\ Top(x) <= top + 1 /\ Top(y) <= top + 1
  BY <1>1 DEF Finer, Coarser
<1>4. Equal(x, y) <=> r < finest
  BY DEF Equal
<1>5. Less(x, y) <=> x.sign * DigitAt(x, r) < y.sign * DigitAt(y, r)
  BY DEF Less
<1>6. /\ r \in Int /\ finest - 1 <= r /\ r <= top
      /\ r < finest \/ Discrepant(x, y, r)
      /\ \A q \in Int : r < q /\ q <= top => ~Discrepant(x, y, q)
  BY <1>2 DEF StopsAt
<1> HIDE DEF r, top, finest
<1>7. x.sign * 0 = 0 /\ y.sign * 0 = 0
  BY <1>1
<1>8. \A q \in Int : r < q => x.sign * DigitAt(x, q) = y.sign * DigitAt(y, q)
  <2>1. ASSUME NEW q \in Int, r < q PROVE x.sign * DigitAt(x, q) = y.sign * DigitAt(y, q)
    <3>1. CASE q <= top
      BY <1>6, <2>1, <3>1 DEF Discrepant
    <3>2. CASE top < q
      <4>1. DigitAt(x, q) = 0 /\ DigitAt(y, q) = 0
        BY <1>1, <1>3, <3>2
      <4>2. QED
        BY <1>7, <4>1
    <3>3. QED
      BY <1>3, <3>1, <3>2
  <2>2. QED
    BY <2>1
<1>9. CASE r < finest
  <2>1. DigitAt(x, r) = 0 /\ DigitAt(y, r) = 0
    BY <1>1, <1>3, <1>6, <1>9
  <2>2. ASSUME NEW s \in Nat, 0 <= s PROVE x.sign * DigitAt(x, s) = y.sign * DigitAt(y, s)
    <3>1. CASE r < s
      BY <1>8, <3>1
    <3>2. CASE s <= r
      <4>1. s < x.precision /\ s < y.precision
        BY <1>1, <1>3, <1>6, <1>9, <3>2
      <4>2. DigitAt(x, s) = 0 /\ DigitAt(y, s) = 0
        BY <1>1, <4>1
      <4>3. QED
        BY <1>7, <4>2
    <3>3. QED
      BY <1>6, <3>1, <3>2
  <2>3. /\ Value(x) \in Int /\ Value(y) \in Int
        /\ Value(x) - Value(y) = x.sign * TicksBelow(x)[0] - y.sign * TicksBelow(y)[0]
    BY <2>2, SignedSums
  <2>4. TicksBelow(x)[0] = 0 /\ TicksBelow(y)[0] = 0
    BY <1>1, SumOfDigits
  <2>5. Value(x) = Value(y)
    BY <1>7, <2>3, <2>4
  <2>6. ~(0 < 0)
    OBVIOUS
  <2>7. ~Less(x, y)
    BY <1>5, <1>7, <2>1, <2>6
  <2>8. QED
    BY <1>4, <1>9, <2>3, <2>5, <2>7
<1>10. CASE ~(r < finest)
  <2>1. r \in Nat /\ Discrepant(x, y, r)
    BY <1>3, <1>6, <1>10
  <2>2. \A s \in Nat : r < s => x.sign * DigitAt(x, s) = y.sign * DigitAt(y, s)
    BY <1>8
  <2> DEFINE a == x.sign * DigitAt(x, r)
             b == y.sign * DigitAt(y, r)
  <2>3. a # b /\ a \in Int /\ b \in Int
    <3>1. DigitAt(x, r) \in Int /\ DigitAt(y, r) \in Int
      BY <1>1, <1>6
    <3>2. QED
      BY <1>1, <2>1, <3>1 DEF Discrepant
  <2>4. a < b => Value(x) < Value(y)
    BY <2>1, <2>2, ComparedAt
  <2>5. b < a => Value(y) < Value(x)
    <3>1. \A s \in Nat : r < s => y.sign * DigitAt(y, s) = x.sign * DigitAt(x, s)
      BY <2>2
    <3>2. QED
      BY <2>1, <3>1, ComparedAt
  <2>6. Value(x) \in Int /\ Value(y) \in Int
    <3>1. ASSUME NEW z \in Digital PROVE Value(z) \in Int
      <4>1. 0 \in Nat
        OBVIOUS
      <4>2. Amount(z) \in Nat /\ z.sign \in {1, -1}
        BY <4>1, DigitIs DEF Digital
      <4>3. QED
        BY <4>2 DEF Value, Amount
    <3>2. QED
      BY <3>1
  <2>7. Less(x, y) <=> a < b
    BY <1>5
  <2> HIDE DEF a, b
  <2>8. QED
    BY <1>4, <1>10, <2>3, <2>4, <2>5, <2>6, <2>7
<1>11. QED
  BY <1>9, <1>10

LEMMA ComparedByValue == PointTypeOK => OrderedByValue
<1> SUFFICES ASSUME PointTypeOK, NEW j \in Names, NEW k \in Names
             PROVE  /\ Less(tp[j], tp[k]) <=> Value(tp[j]) < Value(tp[k])
                    /\ Equal(tp[j], tp[k]) <=> Value(tp[j]) = Value(tp[k])
  BY DEF OrderedByValue
<1>1. tp[j] \in Digital /\ tp[k] \in Digital
  BY DEF PointTypeOK
<1>2. QED
  BY <1>1, ComparedIs

-----------------------------------------------------------------------------
(* The difference of two time points, for any base and any digits          *)

\* At the scale s a duration holds n, after rounding.
Fits(n, s) == 2 * Magnitude(n) + Tick(s) < 2 * quantity_limit * Tick(s)

\* From the scale p on a duration holds n as it is.
HeldFrom(n, p) ==
    \E q \in Nat : p <= q /\ n % Tick(q) = 0 /\ Magnitude(n) < quantity_limit * Tick(q)

\* What a coarser scale is too short for, a finer one is too.
LEMMA FitsCoarser ==
    ASSUME NEW n \in Int, NEW p \in Nat, NEW q \in Nat, p <= q, Fits(n, p)
    PROVE  Fits(n, q)
<1> DEFINE T == Tick(p)
           K == Tick(q)
           L == quantity_limit
           M == Magnitude(n)
<1>1. T \in Nat \ {0} /\ K \in Nat \ {0} /\ T <= K /\ L \in Nat /\ L >= 1 /\ M \in Nat
  <2>1. T \in Nat \ {0} /\ K \in Nat \ {0} /\ T <= K
    BY TickPositive, TickOrder
  <2>2. L \in Nat \ {0}
    BY LimitPhases
  <2>3. M \in Nat
    BY MagnitudeIs
  <2> HIDE DEF L
  <2>4. QED
    BY <2>1, <2>2, <2>3
<1>2. 2 * M + T < 2 * L * T
  BY DEF Fits
<1> HIDE DEF T, K, L, M
<1>3. (2 * L - 1) * T <= (2 * L - 1) * K
  <2> DEFINE k == 2 * L - 1
  <2>1. k \in Nat
    BY <1>1
  <2> HIDE DEF k
  <2>2. QED
    BY <1>1, <2>1 DEF k
<1>4. (2 * L - 1) * T = 2 * L * T - T /\ (2 * L - 1) * K = 2 * L * K - K
      /\ 2 * L * T \in Int /\ 2 * L * K \in Int
  BY <1>1
<1>5. 2 * M + K < 2 * L * K
  BY <1>1, <1>2, <1>3, <1>4
<1>6. QED
  BY <1>5 DEF Fits, K, L, M

\* The scale of a duration is the first that holds the number.
LEMMA AutoscaledIs ==
    ASSUME NEW n \in Int, NEW p \in Nat
    PROVE  \E q \in Nat :
              /\ p <= q /\ Fits(n, q) /\ (q # p => ~Fits(n, q - 1))
              /\ Rounded(n, q) \in Int
              /\ autoscaled(n, p) = Duration(Rounded(n, q), q)
<1> DEFINE M == Magnitude(n)
           q == CHOOSE s \in p .. p + M : Fits(n, s) /\ (s = p \/ ~Fits(n, s - 1))
<1>1. autoscaled(n, p) = Duration(Rounded(n, q), q)
  BY DEF autoscaled, Fits
<1>2. M \in Nat
  BY MagnitudeIs
<1>3. Fits(n, p + M)
  <2> DEFINE k == Tick(p + M)
             L == quantity_limit
  <2>1. M < Tick(M) /\ Tick(M) <= k /\ Tick(M) \in Nat /\ k \in Nat
    <3>1. p + M \in Nat /\ M <= p + M
      BY <1>2
    <3>2. QED
      BY <1>2, <3>1, TickGrows, TickOrder, TickPositive
  <2>2. L \in Nat /\ 4 <= 2 * L
    BY LimitPhases, BaseAssumption
  <2>3. 2 * M + k < 2 * L * k
    <3> HIDE DEF k, L, M
    <3>1. 4 * k <= (2 * L) * k
      BY <2>1, <2>2
    <3>2. QED
      BY <1>2, <2>1, <2>2, <3>1
  <2>4. QED
    BY <2>3 DEF Fits
<1>4. \E s \in p .. p + M : Fits(n, s) /\ (s = p \/ ~Fits(n, s - 1))
  <2> DEFINE S == {s \in p .. p + M : Fits(n, s)}
  <2> HIDE DEF M
  <2>1. p + M \in S
    BY <1>2, <1>3
  <2>2. S \subseteq Nat
    BY <1>2
  <2>3. PICK s \in S : \A i \in S : s <= i
    <3> HIDE DEF S
    <3> QED  BY <2>1, <2>2, LeastNatural
  <2>4. s \in p .. p + M /\ Fits(n, s)
    OBVIOUS
  <2>5. s = p \/ ~Fits(n, s - 1)
    <3>1. SUFFICES ASSUME s # p, Fits(n, s - 1) PROVE FALSE
      OBVIOUS
    <3>2. s - 1 \in S
      BY <1>2, <2>4, <3>1
    <3>3. ~(s <= s - 1)
      BY <1>2, <2>4
    <3>4. QED
      BY <2>3, <3>2, <3>3
  <2>6. QED
    BY <2>4, <2>5
<1>5. q \in p .. p + M /\ Fits(n, q) /\ (q = p \/ ~Fits(n, q - 1))
  <2> HIDE DEF M
  <2> QED  BY <1>4
<1> HIDE DEF q, M
<1>6. q \in Nat /\ p <= q
  BY <1>2, <1>5
<1>7. Rounded(n, q) \in Int
  <2>1. 0 \in Int
    OBVIOUS
  <2>2. QED
    BY <1>6, <2>1, RoundedBounds
<1>8. QED
  BY <1>1, <1>5, <1>6, <1>7

\* A multiple is what it is a multiple of.
LEMMA MultipleIs ==
    ASSUME NEW n \in Int, NEW p \in Nat, n % Tick(p) = 0
    PROVE  /\ n \div Tick(p) \in Int /\ n = (n \div Tick(p)) * Tick(p)
           /\ Rounded(n, p) = n \div Tick(p)
<1> DEFINE k == Tick(p)
           q == n \div k
<1>1. q \in Int /\ n = q * k /\ q * k \in Int
  <2>1. k \in Nat \ {0}
    BY TickPositive
  <2>2. q \in Int /\ q * k \in Int /\ n = q * k + (n % k)
    <3> HIDE DEF k
    <3> QED  BY <2>1, Quotient
  <2> HIDE DEF q
  <2>3. QED
    BY <2>2
<1>2. n <= q * k /\ q * k <= n
  <2> HIDE DEF q
  <2> QED  BY <1>1
<1>3. Rounded(n, p) \in Int /\ Rounded(n, p) <= q /\ q <= Rounded(n, p)
  <2> HIDE DEF q
  <2> QED  BY <1>1, <1>2, RoundedBounds
<1>4. Rounded(n, p) = q
  <2> HIDE DEF q
  <2> QED  BY <1>1, <1>3
<1>5. QED
  BY <1>1, <1>4

LEMMA MultiplesMeet ==
    ASSUME NEW a \in Int, NEW b \in Int, NEW k \in Nat \ {0}, a % k = 0, b % k = 0
    PROVE  (a + b) % k = 0 /\ (a - b) % k = 0
<1> DEFINE i == a \div k
           j == b \div k
<1>1. i \in Int /\ j \in Int /\ a = i * k /\ b = j * k
  <2>1. i \in Int /\ i * k \in Int /\ a = i * k + (a % k)
    BY Quotient
  <2>2. j \in Int /\ j * k \in Int /\ b = j * k + (b % k)
    BY Quotient
  <2> HIDE DEF i, j
  <2>3. QED
    BY <2>1, <2>2
<1> HIDE DEF i, j
<1>2. a + b = (i + j) * k /\ a - b = (i - j) * k
  BY <1>1
<1>3. ((i + j) * k) % k = 0 /\ ((i - j) * k) % k = 0
  <2>1. i + j \in Int /\ i - j \in Int
    BY <1>1
  <2>2. QED
    BY <2>1, QuotientOfMultiple
<1>4. QED
  BY <1>2, <1>3

\* What a duration counts is a multiple of every finer tick.
LEMMA TicksMultiple ==
    ASSUME NEW dt \in [m : Int, p : Nat], NEW s \in Nat, s <= dt.p
    PROVE  Ticks(dt) \in Int /\ Ticks(dt) % Tick(s) = 0
<1>1. dt.m \in Int /\ dt.p \in Nat /\ Tick(dt.p) \in Nat \ {0}
  BY TickPositive
<1>2. Ticks(dt) \in Int /\ Ticks(dt) % Tick(dt.p) = 0
  BY <1>1, QuotientOfMultiple DEF Ticks
<1>3. QED
  BY <1>1, <1>2, MultipleOfFiner

\* Of a multiple of its tick a scale holds what is less than an epoch.
LEMMA FitsMultiple ==
    ASSUME NEW n \in Int, NEW p \in Nat, n % Tick(p) = 0
    PROVE  /\ Fits(n, p) <=> Magnitude(n) < quantity_limit * Tick(p)
           /\ Fits(n, p) <=> Magnitude(n \div Tick(p)) < quantity_limit
<1> DEFINE k == Tick(p)
           q == n \div k
           M == Magnitude(n)
           j == Magnitude(q)
           L == quantity_limit
<1>1. q \in Int /\ n = q * k
  BY MultipleIs
<1>2. k \in Nat \ {0} /\ L \in Nat /\ M \in Nat
  BY TickPositive, LimitPhases, MagnitudeIs
<1>3. j \in Nat /\ M = j * k
  <2> HIDE DEF q, k
  <2>1. CASE q >= 0
    <3>1. q * k >= 0
      BY <1>1, <1>2, <2>1
    <3>2. QED
      BY <1>1, <1>2, <2>1, <3>1 DEF Magnitude
  <2>2. CASE q < 0
    <3>1. q * k < 0 /\ (-q) * k = -(q * k)
      BY <1>1, <1>2, <2>2
    <3>2. QED
      BY <1>1, <1>2, <2>2, <3>1 DEF Magnitude
  <2>3. QED
    BY <1>1, <2>1, <2>2
<1>4. Fits(n, p) <=> 2 * M + k < 2 * L * k
  BY DEF Fits
<1> HIDE DEF q, k, M, j, L
<1>5. j < L => j * k < L * k /\ (2 * j + 1) * k < (2 * L) * k
  <2>1. SUFFICES ASSUME j < L PROVE j * k < L * k /\ (2 * j + 1) * k < (2 * L) * k
    OBVIOUS
  <2>2. j * k < L * k
    BY <1>2, <1>3, <2>1
  <2> DEFINE a == 2 * j + 1
             b == 2 * L
  <2>3. a \in Nat /\ b \in Nat /\ a < b
    BY <1>2, <1>3, <2>1
  <2>4. a * k < b * k
    <3> HIDE DEF a, b
    <3> QED  BY <1>2, <2>3
  <2>5. QED
    BY <2>2, <2>4
<1>6. ~(j < L) => L * k <= j * k /\ (2 * L) * k <= (2 * j + 1) * k
  <2>1. SUFFICES ASSUME L <= j PROVE L * k <= j * k /\ (2 * L) * k <= (2 * j + 1) * k
    BY <1>2, <1>3
  <2>2. L * k <= j * k
    BY <1>2, <1>3, <2>1
  <2> DEFINE a == 2 * j + 1
             b == 2 * L
  <2>3. a \in Nat /\ b \in Nat /\ b <= a
    BY <1>2, <1>3, <2>1
  <2>4. b * k <= a * k
    <3> HIDE DEF a, b
    <3> QED  BY <1>2, <2>3
  <2>5. QED
    BY <2>2, <2>4
<1>7. (2 * j + 1) * k = 2 * M + k /\ (2 * L) * k = 2 * L * k /\ L * k \in Int
  BY <1>2, <1>3
<1>8. (2 * M + k < 2 * L * k <=> j < L) /\ (M < L * k <=> j < L)
  <2> DEFINE a == (2 * j + 1) * k
             b == (2 * L) * k
             c == L * k
             d == j * k
  <2>1. a \in Int /\ b \in Int /\ c \in Int /\ d \in Int
    BY <1>2, <1>3
  <2>2. (j < L => d < c /\ a < b) /\ (~(j < L) => c <= d /\ b <= a)
    BY <1>5, <1>6
  <2>3. a = 2 * M + k /\ b = 2 * L * k /\ M = d
    BY <1>3, <1>7
  <2> HIDE DEF a, b, c, d
  <2>4. (j < L <=> a < b) /\ (j < L <=> d < c)
    BY <2>1, <2>2
  <2>5. QED
    BY <2>3, <2>4 DEF c
<1>9. QED
  BY <1>4, <1>8 DEF q, k, M, j, L

\* So the number is kept where some scale holds it as it is, and only there.
LEMMA AutoscaledExact ==
    ASSUME NEW n \in Int, NEW p \in Nat, n % Tick(p) = 0
    PROVE  /\ autoscaled(n, p) \in [m : Int, p : Nat] /\ p <= autoscaled(n, p).p
           /\ Ticks(autoscaled(n, p)) = n <=> HeldFrom(n, p)
           /\ HeldFrom(n, p) => Magnitude(n) < quantity_limit * Tick(autoscaled(n, p).p)
           /\ autoscaled(n, p).p = p => Ticks(autoscaled(n, p)) = n
<1>1. PICK q \in Nat :
         /\ p <= q /\ Fits(n, q) /\ (q # p => ~Fits(n, q - 1))
         /\ Rounded(n, q) \in Int
         /\ autoscaled(n, p) = Duration(Rounded(n, q), q)
  BY AutoscaledIs
<1> DEFINE a == autoscaled(n, p)
<1>2. a \in [m : Int, p : Nat] /\ a.p = q /\ Ticks(a) = Rounded(n, q) * Tick(q)
  BY <1>1 DEF Duration, Ticks
<1>3. n % Tick(q) = 0 => Ticks(a) = n /\ Magnitude(n) < quantity_limit * Tick(q)
  BY <1>1, <1>2, MultipleIs, FitsMultiple
<1>4. Ticks(a) = n => n % Tick(q) = 0
  <2>1. Tick(q) \in Nat \ {0}
    BY TickPositive
  <2>2. (Rounded(n, q) * Tick(q)) % Tick(q) = 0
    BY <1>1, <2>1, QuotientOfMultiple
  <2>3. QED
    BY <1>2, <2>2
<1>5. HeldFrom(n, p) => n % Tick(q) = 0
  <2>1. SUFFICES ASSUME NEW r \in Nat, p <= r, n % Tick(r) = 0,
                        Magnitude(n) < quantity_limit * Tick(r)
                 PROVE  n % Tick(q) = 0
    BY DEF HeldFrom
  <2>2. Fits(n, r)
    BY <2>1, FitsMultiple
  <2>3. q <= r
    <3>1. SUFFICES ASSUME ~(q <= r) PROVE FALSE
      OBVIOUS
    <3>2. q - 1 \in Nat /\ r <= q - 1 /\ q # p
      BY <1>1, <2>1, <3>1
    <3>3. Fits(n, q - 1)
      BY <2>2, <3>2, FitsCoarser
    <3>4. QED
      BY <1>1, <3>2, <3>3
  <2>4. QED
    BY <2>1, <2>3, MultipleOfFiner
<1>6. n % Tick(q) = 0 => HeldFrom(n, p)
  BY <1>1, <1>3 DEF HeldFrom
<1> HIDE DEF a
<1>7. QED
  BY <1>1, <1>2, <1>3, <1>4, <1>5, <1>6, MultipleIs DEF a

\* A duration that holds what it counts, at no finer scale than s.
Holds(dt, s) ==
    /\ dt \in [m : Int, p : Nat] /\ s <= dt.p
    /\ Magnitude(Ticks(dt)) < quantity_limit * Tick(dt.p)

\* The test of the loop, whether subtracting again gives undone what was added:
\* that is so if the sum is one a duration holds.
LEMMA SumStep ==
    ASSUME NEW s \in Nat, NEW dt, Holds(dt, s + 1), NEW d \in Int, -Base < d, d < Base
    PROVE  LET next == Sum(dt, Duration(d, s))
               n == Ticks(dt) + d * Tick(s)
           IN  /\ n \in Int /\ n % Tick(s) = 0 /\ next = autoscaled(n, s)
               /\ Ticks(Sum(next, Negated(dt))) = Ticks(Duration(d, s)) <=> HeldFrom(n, s)
               /\ HeldFrom(n, s) => Holds(next, s) /\ Ticks(next) = n
<1> DEFINE T == Tick(s)
           K == Tick(s + 1)
           M == Ticks(dt)
           D == d * T
           n == M + D
           next == Sum(dt, Duration(d, s))
           min == Finer(next.p, dt.p)
           undone == Sum(next, Negated(dt))
           L == quantity_limit
<1>1. /\ T \in Nat \ {0} /\ K = Base * T /\ K \in Nat \ {0} /\ Base \in Nat /\ Base > 1
      /\ L \in Nat /\ L >= Base
  BY TickPositive, TickNext, LimitPhases, BaseAssumption
<1>2. dt \in [m : Int, p : Nat] /\ s + 1 <= dt.p /\ s <= dt.p /\ dt.p \in Nat
  BY DEF Holds
<1>3. M \in Int /\ M % T = 0 /\ M % K = 0 /\ M % Tick(dt.p) = 0
  BY <1>2, TicksMultiple
<1>4. D \in Int /\ D % T = 0 /\ Ticks(Duration(d, s)) = D
  BY <1>1, QuotientOfMultiple DEF Ticks, Duration
<1>5. n \in Int /\ n % T = 0
  <2> HIDE DEF T, M, D
  <2>1. T \in Nat \ {0} /\ M \in Int /\ D \in Int /\ M % T = 0 /\ D % T = 0
    BY <1>1, <1>3, <1>4
  <2>2. (M + D) % T = 0
    BY <2>1, MultiplesMeet
  <2>3. QED
    BY <2>1, <2>2
<1>6. next = autoscaled(n, s)
  <2>1. Finer(dt.p, s) = s
    BY <1>2 DEF Finer
  <2>2. Duration(d, s).p = s
    BY DEF Duration
  <2>3. QED
    BY <1>4, <2>1, <2>2 DEF Sum
<1>7. /\ next \in [m : Int, p : Nat] /\ s <= next.p /\ next.p \in Nat
      /\ Ticks(next) = n <=> HeldFrom(n, s)
      /\ HeldFrom(n, s) => Magnitude(n) < L * Tick(next.p)
      /\ next.p = s => Ticks(next) = n
  <2> HIDE DEF n, next
  <2>1. n % Tick(s) = 0
    BY <1>5 DEF T
  <2>2. QED
    BY <1>5, <1>6, <2>1, AutoscaledExact
<1>8. min \in Nat /\ min <= next.p /\ min <= dt.p /\ s <= min /\ (next.p # s => s + 1 <= min)
  <2> HIDE DEF next
  <2> QED  BY <1>2, <1>7 DEF Finer
<1>9. Ticks(next) \in Int /\ Ticks(next) % Tick(min) = 0 /\ M % Tick(min) = 0
  <2> HIDE DEF next, min
  <2> QED  BY <1>2, <1>7, <1>8, TicksMultiple
<1>10. (Ticks(next) - M) \in Int /\ (Ticks(next) - M) % Tick(min) = 0
  <2> DEFINE a == Ticks(next)
             k == Tick(min)
  <2>1. a \in Int /\ a % k = 0 /\ M % k = 0 /\ k \in Nat \ {0}
    BY <1>8, <1>9, TickPositive
  <2> HIDE DEF a, k, M
  <2>2. QED
    BY <1>3, <2>1, MultiplesMeet DEF a, k
<1>11. undone = autoscaled(Ticks(next) - M, min)
  <2>1. Negated(dt).p = dt.p /\ Ticks(Negated(dt)) = -M
    <3>1. dt.m \in Int /\ Tick(dt.p) \in Int
      BY <1>2, TickPositive
    <3>2. (-dt.m) * Tick(dt.p) = -(dt.m * Tick(dt.p))
      BY <3>1
    <3>3. QED
      BY <3>2 DEF Negated, Duration, Ticks
  <2>2. Ticks(next) + (-M) = Ticks(next) - M
    <3> HIDE DEF next, M
    <3> QED  BY <1>3, <1>9
  <2>3. QED
    BY <2>1, <2>2 DEF Sum
<1>12. ASSUME HeldFrom(n, s) PROVE Ticks(undone) = D
  <2>1. Ticks(next) - M = D
    <3> HIDE DEF next, M, D
    <3>1. Ticks(next) = M + D
      BY <1>7, <1>12
    <3>2. QED
      BY <1>3, <1>4, <3>1
  <2>2. Magnitude(D) < L * Tick(min)
    <3>1. Magnitude(D) < Base * T
      <4>1. (1 - Base) * T <= d * T /\ d * T <= (Base - 1) * T
        <5> HIDE DEF T
        <5>1. 1 - Base <= d /\ d <= Base - 1 /\ 1 - Base \in Int /\ Base - 1 \in Int
          BY <1>1
        <5>2. QED
          BY <1>1, <5>1
      <4>2. (1 - Base) * T = T - Base * T /\ (Base - 1) * T = Base * T - T /\ Base * T \in Int
        <5> HIDE DEF T
        <5> QED  BY <1>1
      <4> HIDE DEF T
      <4>3. QED
        BY <1>1, <1>4, <4>1, <4>2 DEF Magnitude
    <3>2. Base * T <= L * Tick(min)
      <4>1. T <= Tick(min) /\ Tick(min) \in Nat
        BY <1>8, TickOrder, TickPositive
      <4> DEFINE k == Tick(min)
      <4> HIDE DEF T, L, k
      <4>2. T <= k /\ k \in Nat
        BY <4>1 DEF k
      <4>3. Base * T <= Base * k /\ Base * k <= L * k
        BY <1>1, <4>2
      <4>4. Base * T \in Int /\ Base * k \in Int /\ L * k \in Int
        BY <1>1, <4>2
      <4>5. Base * T <= L * k
        BY <4>3, <4>4
      <4>6. QED
        BY <4>5 DEF k
    <3>3. Magnitude(D) \in Nat /\ Base * T \in Int /\ L * Tick(min) \in Int
      BY <1>1, <1>4, <1>8, MagnitudeIs, TickPositive
    <3> HIDE DEF D, T, L, min
    <3>4. QED
      BY <3>1, <3>2, <3>3
  <2>3. D % Tick(min) = 0
    BY <1>10, <2>1
  <2>4. HeldFrom(D, min)
    <3> HIDE DEF D, min
    <3> QED  BY <1>8, <2>2, <2>3 DEF HeldFrom, L
  <2>5. undone = autoscaled(D, min)
    BY <1>11, <2>1
  <2> HIDE DEF D, min, undone
  <2>6. QED
    BY <1>4, <1>8, <2>3, <2>4, <2>5, AutoscaledExact
<1>13. ASSUME ~HeldFrom(n, s) PROVE Ticks(undone) # D
  <2>1. s + 1 <= min
    BY <1>7, <1>8, <1>13
  <2>2. Ticks(undone) % K = 0
    <3>1. undone \in [m : Int, p : Nat] /\ min <= undone.p /\ undone.p \in Nat
      <4> DEFINE e == Ticks(next) - M
      <4>1. e \in Int /\ e % Tick(min) = 0 /\ undone = autoscaled(e, min)
        BY <1>10, <1>11
      <4> HIDE DEF e, min, undone
      <4>2. QED
        BY <1>8, <4>1, AutoscaledExact
    <3>2. s + 1 <= undone.p
      <4> HIDE DEF min, undone
      <4> QED  BY <1>8, <2>1, <3>1
    <3> HIDE DEF undone
    <3>3. QED
      BY <3>1, <3>2, TicksMultiple
  <2>3. SUFFICES ASSUME D % K = 0 PROVE FALSE
    BY <2>2
  <2>4. d = 0
    <3> DEFINE q == D \div K
    <3>1. q \in Int /\ q * K \in Int /\ D = q * K + (D % K)
      <4> HIDE DEF D, K
      <4>1. K \in Nat \ {0} /\ D \in Int
        BY <1>1, <1>4
      <4>2. QED
        BY <4>1, Quotient
    <3> HIDE DEF q, K
    <3>2. d * T = (q * Base) * T
      <4>1. D = q * K
        BY <2>3, <3>1
      <4>2. q * (Base * T) = (q * Base) * T
        <5> HIDE DEF T
        <5> QED  BY <1>1, <3>1
      <4>3. QED
        BY <1>1, <4>1, <4>2
    <3>3. d = q * Base
      <4> DEFINE e == q * Base
      <4>1. e \in Int
        BY <1>1, <3>1
      <4>2. (d * T) \div T = d /\ (e * T) \div T = e
        <5> HIDE DEF T, e
        <5> QED  BY <1>1, <4>1, QuotientOfMultiple
      <4>3. QED
        BY <3>2, <4>2
    <3>4. q >= 1 => q * Base >= 1 * Base
      BY <1>1, <3>1
    <3>5. q <= -1 => q * Base <= (-1) * Base
      BY <1>1, <3>1
    <3>6. q = 0 \/ q >= 1 \/ q <= -1
      BY <3>1
    <3>7. QED
      BY <1>1, <3>1, <3>3, <3>4, <3>5, <3>6
  <2>5. n = M
    <3>1. D = 0
      BY <1>1, <2>4
    <3> HIDE DEF D, M
    <3>2. QED
      BY <1>3, <3>1
  <2>6. HeldFrom(M, s)
    <3>1. Magnitude(M) < L * Tick(dt.p)
      BY DEF Holds
    <3> HIDE DEF M, L
    <3>2. QED
      BY <1>2, <1>3, <3>1 DEF HeldFrom, L
  <2>7. QED
    BY <1>13, <2>5, <2>6
<1>14. HeldFrom(n, s) => Holds(next, s) /\ Ticks(next) = n
  <2> HIDE DEF n, next
  <2> QED  BY <1>7 DEF Holds, L
<1> HIDE DEF undone, D, next
<1>15. QED
  BY <1>4, <1>5, <1>6, <1>12, <1>13, <1>14 DEF n, undone, D, next, T

\* The number has a multiple of the tick of its finest digit, and is less than
\* one tick above its coarsest.
LEMMA ValueIs ==
    ASSUME NEW x \in Digital, Normal(x)
    PROVE  /\ x.precision \in Nat /\ Top(x) \in Nat /\ x.precision <= Top(x)
           /\ x.sign \in {1, -1} /\ Value(x) \in Int
           /\ Value(x) % Tick(x.precision) = 0
           /\ Magnitude(Value(x)) < Tick(Top(x))
           /\ x.sign = 1 => Value(x) >= 0
           /\ x.sign = -1 => Value(x) < 0
<1> DEFINE p == x.precision
           A == Amount(x)
<1>1. x \in Written /\ p \in Nat /\ Top(x) \in Nat /\ p <= Top(x) /\ x.sign \in {1, -1}
      /\ Top(x) = p + nscales(x)
  BY DigitalIs, DigitAtType
<1>2. A \in Nat /\ A < Tick(Top(x)) /\ Tick(Top(x)) \in Nat
  BY <1>1, SumBelowTick, TickPositive DEF Amount
<1>3. Value(x) = x.sign * A
  BY DEF Value, Amount
<1>4. A % Tick(p) = 0 /\ (-A) % Tick(p) = 0
  <2> DEFINE q == A \div Tick(p)
             k == Tick(p)
  <2>1. q \in Nat /\ k \in Nat \ {0} /\ A = q * k + TicksBelow(x)[p]
    BY <1>1, DigitIs
  <2>2. TicksBelow(x)[p] = 0
    <3>1. x.precision <= x.precision
      BY <1>1
    <3>2. QED
      BY <1>1, <3>1, CutIs
  <2> HIDE DEF q, k, A
  <2>3. A = q * k /\ -A = (-q) * k /\ -q \in Int
    BY <1>2, <2>1, <2>2
  <2>4. (q * k) % k = 0 /\ ((-q) * k) % k = 0
    <3>1. q \in Int /\ k \in Nat \ {0}
      BY <2>1
    <3>2. \A i \in Int : (i * k) % k = 0
      BY <3>1, QuotientOfMultiple
    <3>3. QED
      BY <2>3, <3>1, <3>2
  <2>5. QED
    BY <2>3, <2>4 DEF k
<1>5. x.sign = -1 => A > 0
  <2>1. SUFFICES ASSUME x.sign = -1 PROVE A > 0
    OBVIOUS
  <2>2. x.digits # <<>>
    <3>1. x.digits = <<>> => x.sign = 1
      BY DEF Normal, Zero
    <3>2. QED
      BY <2>1, <3>1
  <2>3. nscales(x) > 0
    <3>1. x.digits \in Seq(Int)
      BY <1>1 DEF Written
    <3>2. QED
      BY <2>2, <3>1 DEF nscales
  <2>4. p < Top(x)
    <3>1. nscales(x) \in Nat
      BY <1>1, DigitAtType
    <3>2. QED
      BY <1>1, <2>3, <3>1
  <2>5. TicksBelow(x)[Top(x)] > 0
    BY <1>1, <2>1, <2>4, FineDigits
  <2>6. QED
    BY <2>5 DEF Amount
<1>6. (x.sign = 1 => Value(x) = A) /\ (x.sign = -1 => Value(x) = -A)
  <2> HIDE DEF A
  <2> QED  BY <1>2, <1>3
<1> HIDE DEF A
<1>7. Value(x) \in Int /\ Magnitude(Value(x)) = A
  BY <1>1, <1>2, <1>5, <1>6 DEF Magnitude
<1>8. QED
  BY <1>1, <1>2, <1>4, <1>5, <1>6, <1>7

\* How many ticks of the scale s the two numbers are apart, as far as their
\* digits from s on tell.
AboveTicks(x, y, s) == Apart(Value(x), Value(y), s) * Tick(s)

\* A digit more: the phases are what is added.
LEMMA ApartStep ==
    ASSUME NEW x \in Digital, Normal(x), NEW y \in Digital, Normal(y), NEW s \in Nat
    PROVE  LET d == PhaseAt(x, s) - PhaseAt(y, s)
           IN  /\ d \in Int /\ -Base < d /\ d < Base
               /\ Apart(Value(x), Value(y), s) \in Int
               /\ Apart(Value(x), Value(y), s) = Base * Apart(Value(x), Value(y), s + 1) + d
               /\ AboveTicks(x, y, s) = AboveTicks(x, y, s + 1) + d * Tick(s)
<1> DEFINE t == Value(x)
           r == Value(y)
           a == scale_phase(t, s)
           b == scale_phase(r, s)
           d == a - b
           u == Apart(t, r, s)
           v == Apart(t, r, s + 1)
           T == Tick(s)
           K == Tick(s + 1)
<1>1. t \in Int /\ r \in Int
  BY ValueIs
<1>2. PhaseAt(x, s) = a /\ PhaseAt(y, s) = b
  BY PhaseAtIs
<1>3. /\ a \in 0 .. Base - 1 /\ t \div T = Base * (t \div K) + a
      /\ b \in 0 .. Base - 1 /\ r \div T = Base * (r \div K) + b
  BY <1>1, ScalePhase
<1>4. T \in Nat \ {0} /\ K \in Nat \ {0} /\ K = Base * T /\ Base \in Nat
  BY TickPositive, TickNext, BaseAssumption
<1>5. t \div T \in Int /\ t \div K \in Int /\ r \div T \in Int /\ r \div K \in Int
  <2> HIDE DEF t, r, T, K
  <2> QED  BY <1>1, <1>4, Quotient
<1>6. u = (t \div T) - (r \div T) /\ v = (t \div K) - (r \div K)
  BY DEF Apart
<1>7. /\ d \in Int /\ -Base < d /\ d < Base /\ u \in Int /\ v \in Int
      /\ u = Base * v + d
  <2> DEFINE i == t \div T
             j == r \div T
             m == t \div K
             n == r \div K
  <2>1. i = Base * m + a /\ j = Base * n + b /\ i \in Int /\ j \in Int /\ m \in Int /\ n \in Int
        /\ u = i - j /\ v = m - n
    BY <1>3, <1>5, <1>6
  <2> HIDE DEF i, j, m, n, u, v, a, b
  <2>2. Base * (m - n) = Base * m - Base * n
    BY <1>4, <2>1
  <2>3. QED
    BY <1>3, <1>4, <2>1, <2>2
<1>8. u * T = v * K + d * T
  <2> HIDE DEF u, v, d, T, K
  <2>1. (Base * v + d) * T = v * (Base * T) + d * T
    BY <1>4, <1>7
  <2>2. QED
    BY <1>4, <1>7, <2>1
<1>9. AboveTicks(x, y, s) = u * T /\ AboveTicks(x, y, s + 1) = v * K
  BY DEF AboveTicks
<1> HIDE DEF a, b, u, v, T, K
<1>10. QED
  BY <1>2, <1>7, <1>8, <1>9 DEF u, v, T, K, t, r

\* A multiple that the scale holds keeps it.
LEMMA AutoscaledFits ==
    ASSUME NEW n \in Int, NEW p \in Nat, n % Tick(p) = 0, Fits(n, p)
    PROVE  autoscaled(n, p) = Duration(n \div Tick(p), p)
<1>1. PICK q \in Nat :
         /\ p <= q /\ (q # p => ~Fits(n, q - 1))
         /\ autoscaled(n, p) = Duration(Rounded(n, q), q)
  BY AutoscaledIs
<1>2. q = p
  <2>1. SUFFICES ASSUME q # p PROVE FALSE
    OBVIOUS
  <2>2. q - 1 \in Nat /\ p <= q - 1
    BY <1>1, <2>1
  <2>3. Fits(n, q - 1)
    BY <2>2, FitsCoarser
  <2>4. QED
    BY <1>1, <2>1, <2>3
<1>3. QED
  BY <1>1, <1>2, MultipleIs

\* Above their coarsest digits two time points differ by their signs.
LEMMA ApartTop ==
    ASSUME NEW x \in Digital, Normal(x), NEW y \in Digital, Normal(y)
    PROVE  LET c == Coarser(Top(x), Top(y))
               a == (x.sign - y.sign) \div 2
           IN  /\ c \in Nat /\ a \in -1 .. 1 /\ Apart(Value(x), Value(y), c) = a
               /\ AboveTicks(x, y, c) = a * Tick(c)
<1> DEFINE c == Coarser(Top(x), Top(y))
           a == (x.sign - y.sign) \div 2
<1>1. c \in Nat /\ Top(x) <= c /\ Top(y) <= c
  BY ValueIs DEF Coarser
<1>2. ASSUME NEW z \in {x, y}
      PROVE  z.sign \in {1, -1} /\ Value(z) \div Tick(c) = IF z.sign = 1 THEN 0 ELSE -1
  <2>1. z \in Digital /\ Normal(z) /\ Top(z) <= c
    BY <1>1
  <2>2. /\ Top(z) \in Nat /\ z.sign \in {1, -1} /\ Value(z) \in Int
        /\ Magnitude(Value(z)) < Tick(Top(z))
        /\ z.sign = 1 => Value(z) >= 0
        /\ z.sign = -1 => Value(z) < 0
    BY <2>1, ValueIs
  <2>3. Tick(Top(z)) <= Tick(c) /\ Tick(Top(z)) \in Nat /\ Tick(c) \in Nat
    BY <1>1, <2>1, <2>2, TickOrder, TickPositive
  <2>4. Magnitude(Value(z)) < Tick(c)
    <3>1. Magnitude(Value(z)) \in Nat
      BY <2>2, MagnitudeIs
    <3>2. QED
      BY <2>2, <2>3, <3>1
  <2>5. Value(z) \div Tick(c) = IF Value(z) >= 0 THEN 0 ELSE -1
    <3> HIDE DEF c
    <3> QED  BY <1>1, <2>2, <2>4, ShorterThanTick
  <2>6. QED
    BY <2>2, <2>5
<1>3. /\ x.sign \in {1, -1} /\ Value(x) \div Tick(c) = IF x.sign = 1 THEN 0 ELSE -1
      /\ y.sign \in {1, -1} /\ Value(y) \div Tick(c) = IF y.sign = 1 THEN 0 ELSE -1
  BY <1>2
<1>4. Apart(Value(x), Value(y), c) = (Value(x) \div Tick(c)) - (Value(y) \div Tick(c))
  BY DEF Apart
<1> HIDE DEF c
<1>5. a \in -1 .. 1 /\ Apart(Value(x), Value(y), c) = a
  BY <1>3, <1>4
<1>6. QED
  BY <1>1, <1>5 DEF AboveTicks, c

\* What the loop has added up when it is about to add the digits of the scale
\* below cut.
Summed(x, y, cut, dt) ==
    /\ Holds(dt, cut) /\ Ticks(dt) = AboveTicks(x, y, cut)
    /\ dt = autoscaled(AboveTicks(x, y, cut), cut)

\* A duration holds the difference of the digits from s on.
HeldAbove(x, y, s) == HeldFrom(AboveTicks(x, y, s), s)

\* It begins with the sign, which stands above all digits.
LEMMA SummedTop ==
    ASSUME NEW x \in Digital, Normal(x), NEW y \in Digital, Normal(y)
    PROVE  Summed(x, y, Coarser(Top(x), Top(y)),
                  Duration((x.sign - y.sign) \div 2, Coarser(Top(x), Top(y))))
<1> DEFINE c == Coarser(Top(x), Top(y))
           a == (x.sign - y.sign) \div 2
           n == a * Tick(c)
<1>1. c \in Nat /\ a \in -1 .. 1 /\ AboveTicks(x, y, c) = n
  BY ApartTop
<1>2. Tick(c) \in Nat \ {0} /\ quantity_limit \in Nat /\ quantity_limit > 1
  BY <1>1, TickPositive, LimitPhases, BaseAssumption
<1> HIDE DEF a, c
<1>3. n \in Int /\ n % Tick(c) = 0 /\ n \div Tick(c) = a
  BY <1>1, <1>2, QuotientOfMultiple
<1>4. Magnitude(a) < quantity_limit
  BY <1>1, <1>2 DEF Magnitude
<1>5. Fits(n, c) /\ Magnitude(n) < quantity_limit * Tick(c)
  <2> HIDE DEF n
  <2> QED  BY <1>1, <1>3, <1>4, FitsMultiple
<1>6. Duration(a, c) = autoscaled(n, c)
  <2> HIDE DEF n
  <2> QED  BY <1>1, <1>3, <1>5, AutoscaledFits
<1>7. Duration(a, c) \in [m : Int, p : Nat] /\ Duration(a, c).p = c /\ Ticks(Duration(a, c)) = n
  BY <1>1 DEF Duration, Ticks
<1>8. Holds(Duration(a, c), c)
  <2> HIDE DEF n
  <2> QED  BY <1>1, <1>5, <1>7 DEF Holds
<1>9. QED
  BY <1>1, <1>6, <1>7, <1>8 DEF Summed, a, c

\* The loop stops or goes on as the difference of the digits is held or not.
LEMMA SummedStep ==
    ASSUME NEW x \in Digital, Normal(x), NEW y \in Digital, Normal(y),
           NEW s \in Nat, NEW dt, Summed(x, y, s + 1, dt)
    PROVE  LET scale_dt == Duration(PhaseAt(x, s) - PhaseAt(y, s), s)
               next == Sum(dt, scale_dt)
           IN  /\ Ticks(Sum(next, Negated(dt))) = Ticks(scale_dt) <=> HeldAbove(x, y, s)
               /\ HeldAbove(x, y, s) => Summed(x, y, s, next)
<1> DEFINE d == PhaseAt(x, s) - PhaseAt(y, s)
           next == Sum(dt, Duration(d, s))
           n == AboveTicks(x, y, s)
<1>1. d \in Int /\ -Base < d /\ d < Base /\ n = AboveTicks(x, y, s + 1) + d * Tick(s)
  BY ApartStep
<1>2. Holds(dt, s + 1) /\ Ticks(dt) = AboveTicks(x, y, s + 1)
  BY DEF Summed
<1>3. n = Ticks(dt) + d * Tick(s)
  BY <1>1, <1>2
<1> HIDE DEF d, n
<1>4. /\ next = autoscaled(n, s)
      /\ Ticks(Sum(next, Negated(dt))) = Ticks(Duration(d, s)) <=> HeldFrom(n, s)
      /\ HeldFrom(n, s) => Holds(next, s) /\ Ticks(next) = n
  BY <1>1, <1>2, <1>3, SumStep
<1> HIDE DEF next
<1>5. QED
  BY <1>4 DEF Summed, HeldAbove, d, n, next

\* Where the loop of operator- and gap stops: the digits above are the most
\* whose difference a duration holds.
LEMMA DifferencesIs ==
    ASSUME NEW x \in Digital, Normal(x), NEW y \in Digital, Normal(y)
    PROVE  LET finest == Finer(x.precision, y.precision)
               coarsest == Coarser(Top(x), Top(y))
               sum == Differences(x, y)
               cut == sum.scale + 1
           IN  /\ finest \in Nat /\ coarsest \in Nat /\ cut \in finest .. coarsest
               /\ sum.scale \in Int /\ Summed(x, y, cut, sum.dt)
               /\ \A s \in Nat : cut <= s /\ s < coarsest => HeldAbove(x, y, s)
               /\ cut # finest => ~HeldAbove(x, y, cut - 1)
<1> DEFINE finest == Finer(x.precision, y.precision)
           coarsest == Coarser(Top(x), Top(y))
           V == [dt : [m : Int, p : Nat], scale : Int]
           a == (x.sign - y.sign) \div 2
           scale_dt(v) == Duration(PhaseAt(x, v.scale) - PhaseAt(y, v.scale), v.scale)
           next_dt(v) == Sum(v.dt, scale_dt(v))
           exact(v) == Ticks(Sum(next_dt(v), Negated(v.dt))) = Ticks(scale_dt(v))
           Added(v) == IF v.scale >= finest /\ exact(v)
                       THEN [dt |-> next_dt(v), scale |-> v.scale - 1] ELSE v
           v0 == [dt |-> Duration(a, coarsest), scale |-> coarsest - 1]
           step == [i \in Nat |-> [v \in V |-> Added(v)]]
           Rec(g) == [n \in Nat |-> IF n = 0 THEN v0 ELSE Added(g[n - 1])]
           h == CHOOSE g : g = Rec(g)
<1>1. /\ finest \in Nat /\ coarsest \in Nat /\ finest <= coarsest /\ coarsest - finest \in Nat
  BY ValueIs DEF Finer, Coarser
<1>2. Differences(x, y) = h[coarsest - finest]
  BY DEF Differences
<1>3. a \in Int /\ v0 \in V
  <2>1. a \in Int
    BY ApartTop
  <2> HIDE DEF a, coarsest
  <2>2. QED
    BY <1>1, <2>1 DEF Duration
<1>4. ASSUME NEW v \in V PROVE Added(v) \in V
  <2>1. v.dt \in [m : Int, p : Nat] /\ v.scale \in Int
    OBVIOUS
  <2>2. ASSUME v.scale >= finest PROVE next_dt(v) \in [m : Int, p : Nat]
    <3> DEFINE s == v.scale
               d == PhaseAt(x, s) - PhaseAt(y, s)
    <3>1. s \in Nat
      BY <1>1, <2>1, <2>2
    <3>2. d \in Int
      <4> HIDE DEF s
      <4> QED  BY <3>1, ApartStep
    <3>3. Ticks(v.dt) \in Int /\ Ticks(Duration(d, s)) \in Int
      <4>1. v.dt.m \in Int /\ v.dt.p \in Nat /\ Tick(v.dt.p) \in Int /\ Tick(s) \in Int
        BY <2>1, <3>1, TickPositive
      <4> HIDE DEF s, d
      <4>2. QED
        BY <3>2, <4>1 DEF Ticks, Duration
    <3> DEFINE n == Ticks(v.dt) + Ticks(Duration(d, s))
               p == Finer(v.dt.p, s)
    <3>4. n \in Int /\ p \in Nat
      BY <2>1, <3>1, <3>3 DEF Finer
    <3>5. next_dt(v) = autoscaled(n, p)
      BY DEF Sum, Duration
    <3> HIDE DEF n, p
    <3>6. autoscaled(n, p) \in [m : Int, p : Nat]
      <4>1. PICK q \in Nat : Rounded(n, q) \in Int /\ autoscaled(n, p) = Duration(Rounded(n, q), q)
        BY <3>4, AutoscaledIs
      <4>2. QED
        BY <4>1 DEF Duration
    <3>7. QED
      BY <3>5, <3>6
  <2> HIDE DEF next_dt, exact, finest
  <2>3. QED
    BY <2>1, <2>2
<1> HIDE DEF v0
<1>5. step \in [Nat -> [V -> V]]
  <2> HIDE DEF Added, V
  <2> QED  BY <1>4
<1>6. PICK f : Iterates(f, V, v0, step)
  <2> HIDE DEF V, step
  <2> QED  BY <1>3, <1>5, PrimitiveRecursion
<1>7. f \in [Nat -> V] /\ f[0] = v0 /\ \A i \in Nat : f[i + 1] = Added(f[i])
  <2> HIDE DEF Added, V
  <2>1. f \in [Nat -> V] /\ f[0] = v0 /\ \A i \in Nat : f[i + 1] = step[i][f[i]]
    BY <1>6 DEF Iterates
  <2>2. \A i \in Nat : f[i] \in V
    BY <2>1
  <2>3. QED
    BY <2>1, <2>2
<1> HIDE DEF Added
<1>8. f = Rec(f)
  <2>1. ASSUME NEW n \in Nat PROVE f[n] = Rec(f)[n]
    <3>1. CASE n = 0
      BY <1>7, <3>1
    <3>2. CASE n # 0
      <4>1. n - 1 \in Nat /\ (n - 1) + 1 = n
        BY <3>2
      <4>2. f[n] = Added(f[n - 1])
        BY <1>7, <4>1
      <4>3. QED
        BY <3>2, <4>2
    <3>3. QED
      BY <3>1, <3>2
  <2>2. f = [n \in Nat |-> f[n]] /\ Rec(f) = [n \in Nat |-> Rec(f)[n]]
    BY <1>7
  <2> HIDE DEF Rec
  <2>3. QED
    BY <2>1, <2>2
<1>9. h = Rec(h)
  <2> HIDE DEF Rec
  <2> QED  BY <1>8
<1>10. h[0] = v0 /\ \A n \in Nat : h[n + 1] = Added(h[n])
  <2>1. \A n \in Nat : Rec(h)[n] = IF n = 0 THEN v0 ELSE Added(h[n - 1])
    OBVIOUS
  <2>2. \A n \in Nat : h[n] = Rec(h)[n]
    BY <1>9
  <2> HIDE DEF Rec, h
  <2>3. \A n \in Nat : h[n] = IF n = 0 THEN v0 ELSE Added(h[n - 1])
    BY <2>1, <2>2
  <2>4. \A n \in Nat : n + 1 \in Nat /\ n + 1 # 0 /\ (n + 1) - 1 = n
    OBVIOUS
  <2>5. 0 \in Nat
    OBVIOUS
  <2>6. QED
    BY <2>3, <2>4, <2>5
<1> HIDE DEF h, Rec
\* After n scales the sum is that of the digits above, or it has stopped.
<1> DEFINE Now(n, v) ==
             /\ v.scale \in Int /\ v.scale + 1 <= coarsest /\ coarsest - n <= v.scale + 1
             /\ Summed(x, y, v.scale + 1, v.dt)
             /\ \A s \in Nat : v.scale + 1 <= s /\ s < coarsest => HeldAbove(x, y, s)
             /\ v.scale + 1 # coarsest - n => v.scale + 1 > finest /\ ~HeldAbove(x, y, v.scale)
<1>11. Now(0, v0)
  <2>1. v0.scale = coarsest - 1 /\ v0.dt = Duration(a, coarsest)
    BY DEF v0
  <2>2. v0.scale \in Int /\ v0.scale + 1 = coarsest
    BY <1>1, <2>1
  <2>3. Summed(x, y, coarsest, Duration(a, coarsest))
    BY SummedTop
  <2> HIDE DEF a, coarsest, finest
  <2>4. coarsest - 0 = coarsest /\ \A s \in Nat : ~(coarsest <= s /\ s < coarsest)
    BY <1>1
  <2>5. QED
    BY <1>1, <2>1, <2>2, <2>3, <2>4
<1>12. ASSUME NEW n \in Nat, n < coarsest - finest, NEW v, Now(n, v)
       PROVE  Now(n + 1, Added(v))
  <2> DEFINE s == v.scale
             w == [dt |-> next_dt(v), scale |-> s - 1]
  <2>1. s \in Int /\ s + 1 <= coarsest /\ coarsest - n <= s + 1 /\ Summed(x, y, s + 1, v.dt)
    BY <1>12
  <2>2. \A q \in Nat : s + 1 <= q /\ q < coarsest => HeldAbove(x, y, q)
    BY <1>12
  <2>3. s + 1 # coarsest - n => s + 1 > finest /\ ~HeldAbove(x, y, s)
    BY <1>12
  <2>4. s \in Nat /\ s >= finest
    <3> HIDE DEF s, coarsest, finest
    <3> QED  BY <1>1, <1>12, <2>1
  <2>5. exact(v) <=> HeldAbove(x, y, s)
    <3> HIDE DEF s
    <3>1. Ticks(Sum(Sum(v.dt, Duration(PhaseAt(x, s) - PhaseAt(y, s), s)), Negated(v.dt)))
             = Ticks(Duration(PhaseAt(x, s) - PhaseAt(y, s), s)) <=> HeldAbove(x, y, s)
      BY <2>1, <2>4, SummedStep
    <3>2. QED
      BY <3>1 DEF s
  <2>6. HeldAbove(x, y, s) => Summed(x, y, s, next_dt(v))
    <3> HIDE DEF s
    <3>1. HeldAbove(x, y, s) => Summed(x, y, s, Sum(v.dt, Duration(PhaseAt(x, s) - PhaseAt(y, s), s)))
      BY <2>1, <2>4, SummedStep
    <3>2. QED
      BY <3>1 DEF s
  <2>7. Added(v) = IF HeldAbove(x, y, s) THEN w ELSE v
    <3> HIDE DEF exact, next_dt
    <3> QED  BY <2>4, <2>5 DEF Added
  <2>8. CASE HeldAbove(x, y, s)
    <3>1. Added(v) = w /\ w.dt = next_dt(v) /\ w.scale = s - 1
      BY <2>7, <2>8
    <3>2. s + 1 = coarsest - n
      BY <2>3, <2>8
    <3> HIDE DEF w, next_dt
    <3>3. w.scale \in Int /\ w.scale + 1 = s /\ s = coarsest - (n + 1) /\ s <= coarsest
      <4> HIDE DEF s, coarsest
      <4> QED  BY <1>1, <2>1, <3>1, <3>2
    <3>4. Summed(x, y, s, w.dt)
      BY <2>6, <2>8, <3>1
    <3>5. ASSUME NEW q \in Nat, s <= q, q < coarsest PROVE HeldAbove(x, y, q)
      <4>1. CASE q = s
        BY <2>8, <4>1
      <4>2. CASE q # s
        <5>1. s + 1 <= q
          <6> HIDE DEF s
          <6> QED  BY <2>4, <3>5, <4>2
        <5>2. QED
          BY <2>2, <3>5, <5>1
      <4>3. QED
        BY <4>1, <4>2
    <3> HIDE DEF s, coarsest, finest
    <3>6. Now(n + 1, w)
      <4>1. w.scale + 1 <= coarsest /\ coarsest - (n + 1) <= w.scale + 1
        BY <1>1, <2>1, <3>3
      <4>2. \A q \in Nat : w.scale + 1 <= q /\ q < coarsest => HeldAbove(x, y, q)
        BY <3>3, <3>5
      <4>3. Summed(x, y, w.scale + 1, w.dt)
        BY <3>3, <3>4
      <4>4. w.scale + 1 = coarsest - (n + 1)
        BY <3>3
      <4>5. QED
        BY <3>3, <4>1, <4>2, <4>3, <4>4
    <3> HIDE DEF Now
    <3>7. QED
      BY <3>1, <3>6
  <2>9. CASE ~HeldAbove(x, y, s)
    <3>1. Added(v) = v
      BY <2>7, <2>9
    <3> HIDE DEF w, next_dt
    <3>2. coarsest - (n + 1) <= s + 1 /\ s + 1 > finest
      <4> HIDE DEF s, coarsest, finest
      <4> QED  BY <1>1, <2>1, <2>4
    <3>3. Now(n + 1, v)
      <4> HIDE DEF coarsest, finest
      <4> QED  BY <2>1, <2>2, <2>9, <3>2
    <3> HIDE DEF Now
    <3>4. QED
      BY <3>1, <3>3
  <2>10. QED
    BY <2>8, <2>9
<1>13. \A n \in Nat : 0 <= n => n \in {i \in Nat : i <= coarsest - finest => Now(i, h[i])}
  <2> DEFINE K == coarsest - finest
             S == {i \in Nat : i <= K => Now(i, h[i])}
  <2> HIDE DEF Now
  <2>1. 0 \in S
    BY <1>10, <1>11
  <2>2. ASSUME NEW k \in Nat, 0 <= k, k \in S PROVE k + 1 \in S
    <3>1. SUFFICES ASSUME k + 1 <= K PROVE Now(k + 1, h[k + 1])
      OBVIOUS
    <3>2. k < K /\ k <= K
      <4> HIDE DEF K
      <4> QED  BY <1>1, <3>1 DEF K
    <3>3. Now(k, h[k])
      BY <2>2, <3>2
    <3>4. Now(k + 1, Added(h[k]))
      BY <1>12, <3>2, <3>3
    <3>5. QED
      BY <1>10, <3>4
  <2>3. \A k \in Nat : 0 <= k => k \in S
    <3> HIDE DEF S
    <3> QED  BY <2>1, <2>2, Upwards
  <2>4. QED
    BY <2>3
<1>14. Now(coarsest - finest, Differences(x, y))
  <2> HIDE DEF Now
  <2>1. coarsest - finest \in Nat /\ 0 <= coarsest - finest /\ coarsest - finest <= coarsest - finest
    <3> HIDE DEF coarsest, finest
    <3> QED  BY <1>1
  <2>2. QED
    BY <1>2, <1>13, <2>1
<1> DEFINE sum == Differences(x, y)
<1>15. coarsest - (coarsest - finest) = finest
  <2> HIDE DEF coarsest, finest
  <2> QED  BY <1>1
<1>16. sum.scale \in Int /\ (sum.scale + 1) - 1 = sum.scale /\ sum.scale + 1 \in finest .. coarsest
  <2>1. sum.scale \in Int /\ sum.scale + 1 <= coarsest /\ finest <= sum.scale + 1
    BY <1>14, <1>15
  <2> HIDE DEF coarsest, finest, sum
  <2>2. QED
    BY <1>1, <2>1
<1>17. QED
  BY <1>1, <1>14, <1>15, <1>16

\* The digits above a scale tell the difference but for less than a tick of it.
LEMMA AboveNear ==
    ASSUME NEW t \in Int, NEW r \in Int, NEW s \in Nat
    PROVE  /\ Apart(t, r, s) \in Int /\ Apart(t, r, s) * Tick(s) \in Int
           /\ (Apart(t, r, s) * Tick(s)) % Tick(s) = 0
           /\ Apart(t, r, s) * Tick(s) - Tick(s) < t - r
           /\ t - r < Apart(t, r, s) * Tick(s) + Tick(s)
<1> DEFINE k == Tick(s)
           i == t \div k
           j == r \div k
           a == Apart(t, r, s)
<1>1. k \in Nat \ {0}
  BY TickPositive
<1>2. i \in Int /\ j \in Int /\ t = i * k + (t % k) /\ r = j * k + (r % k)
      /\ t % k \in 0 .. k - 1 /\ r % k \in 0 .. k - 1 /\ i * k \in Int /\ j * k \in Int
  <2> HIDE DEF k
  <2> QED  BY <1>1, Quotient
<1>3. a = i - j
  BY DEF Apart
<1> HIDE DEF k, i, j, a
<1>4. a \in Int /\ a * k = i * k - j * k /\ a * k \in Int
  BY <1>1, <1>2, <1>3
<1>5. (a * k) % k = 0
  BY <1>1, <1>4, QuotientOfMultiple
<1>6. a * k - k < t - r /\ t - r < a * k + k
  <2> DEFINE u == i * k
             v == j * k
             w == a * k
             g == t % k
             h == r % k
  <2>1. u \in Int /\ v \in Int /\ w = u - v /\ g \in 0 .. k - 1 /\ h \in 0 .. k - 1
        /\ t = u + g /\ r = v + h
    BY <1>2, <1>4
  <2> HIDE DEF u, v, w, g, h
  <2>2. w - k < t - r /\ t - r < w + k
    BY <1>1, <2>1
  <2>3. QED
    BY <2>2 DEF w
<1>7. QED
  BY <1>4, <1>5, <1>6 DEF a, k

\* A whole number of ticks they tell exactly.
LEMMA AboveExact ==
    ASSUME NEW t \in Int, NEW r \in Int, NEW s \in Nat, (t - r) % Tick(s) = 0
    PROVE  Apart(t, r, s) * Tick(s) = t - r
<1> DEFINE k == Tick(s)
           a == Apart(t, r, s)
           q == (t - r) \div k
<1>1. k \in Nat \ {0} /\ a \in Int /\ a * k - k < t - r /\ t - r < a * k + k
  BY TickPositive, AboveNear
<1>2. q \in Int /\ t - r = q * k
  BY MultipleIs
<1> HIDE DEF k, a, q
<1>3. (a - 1) * k < q * k /\ q * k < (a + 1) * k
  <2>1. (a - 1) * k = a * k - k /\ (a + 1) * k = a * k + k /\ a * k \in Int
    BY <1>1
  <2>2. QED
    BY <1>1, <1>2, <2>1
<1>4. a - 1 < q /\ q < a + 1
  <2>1. q <= a - 1 => q * k <= (a - 1) * k
    BY <1>1, <1>2
  <2>2. a + 1 <= q => (a + 1) * k <= q * k
    BY <1>1, <1>2
  <2>3. (a - 1) * k \in Int /\ (a + 1) * k \in Int /\ q * k \in Int
    BY <1>1, <1>2
  <2> DEFINE u == (a - 1) * k
             v == (a + 1) * k
             w == q * k
  <2>4. (q <= a - 1 => w <= u) /\ (a + 1 <= q => v <= w) /\ u < w /\ w < v
        /\ u \in Int /\ v \in Int /\ w \in Int
    BY <1>3, <2>1, <2>2, <2>3
  <2> HIDE DEF u, v, w
  <2>5. QED
    BY <1>1, <1>2, <2>4
<1>5. a = q
  BY <1>1, <1>2, <1>4
<1>6. QED
  BY <1>2, <1>5 DEF a, k

\* If a duration holds the difference, then also that of the digits above.
LEMMA HeldThroughout ==
    ASSUME NEW t \in Int, NEW r \in Int, NEW p \in Nat, NEW s \in Nat,
           (t - r) % Tick(p) = 0, Magnitude(t - r) < quantity_limit * Tick(p)
    PROVE  HeldFrom(Apart(t, r, s) * Tick(s), s)
<1> DEFINE n == t - r
           u == Apart(t, r, s) * Tick(s)
<1>1. n \in Int /\ u \in Int /\ u % Tick(s) = 0
  <2>1. u \in Int /\ u % Tick(s) = 0
    BY AboveNear
  <2> HIDE DEF u
  <2>2. QED
    BY <2>1
<1>2. CASE s <= p
  <2>1. n % Tick(s) = 0
    <3> HIDE DEF n
    <3>1. n % Tick(p) = 0
      BY DEF n
    <3>2. QED
      BY <1>1, <1>2, <3>1, MultipleOfFiner
  <2>2. u = n
    BY <2>1, AboveExact
  <2> HIDE DEF n, u
  <2>3. QED
    BY <1>2, <2>2 DEF HeldFrom, n, u
<1>3. CASE p < s
  <2> DEFINE T == Tick(p)
             K == Tick(s)
             L == quantity_limit
             l == L \div Base
  <2>1. /\ T \in Nat \ {0} /\ K \in Nat \ {0} /\ L \in Nat /\ l \in Nat \ {0} /\ L = Base * l
        /\ Base \in Nat /\ Base >= 2
    BY TickPositive, LimitPhases, BaseAssumption
  <2>2. Base * T <= K
    <3>1. p + 1 \in Nat /\ p + 1 <= s /\ Tick(p + 1) = Base * T
      BY <1>3, TickNext
    <3>2. QED
      BY <3>1, TickOrder
  <2>3. u - K < n /\ n < u + K
    BY AboveNear
  <2>4. -(L * T) < n /\ n < L * T
    <3>1. Magnitude(n) \in Nat /\ -Magnitude(n) <= n /\ n <= Magnitude(n)
      <4> HIDE DEF n
      <4> QED  BY <1>1, MagnitudeIs
    <3>2. Magnitude(n) < L * T /\ L * T \in Int
      BY <2>1
    <3> HIDE DEF n, L, T
    <3>3. QED
      BY <1>1, <3>1, <3>2
  <2> HIDE DEF T, K, L, l, n, u
  <2>5. L * T <= l * K
    <3>1. l * (Base * T) <= l * K
      BY <2>1, <2>2
    <3>2. l * (Base * T) = L * T
      BY <2>1
    <3>3. QED
      BY <3>1, <3>2
  <2>6. (l + 1) * K <= L * K /\ (l + 1) * K = l * K + K /\ l * K \in Int /\ L * K \in Int /\ L * T \in Int
    <3>1. l + 1 <= L
      <4>1. 2 * l <= Base * l
        BY <2>1
      <4>2. QED
        BY <2>1, <4>1
    <3>2. (l + 1) * K <= L * K
      BY <2>1, <3>1
    <3>3. QED
      BY <2>1, <3>2
  <2>7. -(L * K) < u /\ u < L * K
    BY <1>1, <2>1, <2>3, <2>4, <2>5, <2>6
  <2>8. Magnitude(u) < L * K
    BY <1>1, <2>6, <2>7 DEF Magnitude
  <2>9. HeldFrom(u, s)
    BY <1>1, <2>8 DEF HeldFrom, L, K
  <2>10. QED
    BY <2>9 DEF u
<1>4. QED
  BY <1>2, <1>3

\* From the finest digit on there is nothing else.
LEMMA AboveFinest ==
    ASSUME NEW x \in Digital, Normal(x), NEW y \in Digital, Normal(y)
    PROVE  LET finest == Finer(x.precision, y.precision)
               coarsest == Coarser(Top(x), Top(y))
               n == Value(x) - Value(y)
           IN  /\ n \in Int /\ finest \in Nat /\ n % Tick(finest) = 0
               /\ AboveTicks(x, y, finest) = n
               /\ coarsest \in Nat /\ finest <= coarsest /\ Magnitude(n) < Tick(coarsest + 1)
<1> DEFINE f == Finer(x.precision, y.precision)
           c == Coarser(Top(x), Top(y))
           t == Value(x)
           r == Value(y)
<1>1. /\ x.precision \in Nat /\ Top(x) \in Nat /\ x.precision <= Top(x) /\ t \in Int
      /\ t % Tick(x.precision) = 0 /\ Magnitude(t) < Tick(Top(x))
      /\ y.precision \in Nat /\ Top(y) \in Nat /\ y.precision <= Top(y) /\ r \in Int
      /\ r % Tick(y.precision) = 0 /\ Magnitude(r) < Tick(Top(y))
  BY ValueIs
<1>2. f \in Nat /\ c \in Nat /\ f <= x.precision /\ f <= y.precision /\ f <= c
      /\ Top(x) <= c /\ Top(y) <= c
  BY <1>1 DEF Finer, Coarser
<1> HIDE DEF f, c, t, r
<1>3. t % Tick(f) = 0 /\ r % Tick(f) = 0
  BY <1>1, <1>2, MultipleOfFiner
<1>4. t - r \in Int /\ (t - r) % Tick(f) = 0
  <2>1. Tick(f) \in Nat \ {0}
    BY <1>2, TickPositive
  <2>2. QED
    BY <1>1, <1>3, <2>1, MultiplesMeet
<1>5. Apart(t, r, f) * Tick(f) = t - r
  BY <1>1, <1>2, <1>4, AboveExact
<1>6. Magnitude(t - r) < Tick(c + 1)
  <2>1. Tick(Top(x)) <= Tick(c) /\ Tick(Top(y)) <= Tick(c)
    BY <1>1, <1>2, TickOrder
  <2>2. Tick(c + 1) = Base * Tick(c) /\ Tick(c) \in Nat /\ Tick(Top(x)) \in Nat /\ Tick(Top(y)) \in Nat
        /\ Base \in Nat /\ Base >= 2
    BY <1>1, <1>2, TickNext, TickPositive, BaseAssumption
  <2> DEFINE k == Tick(c)
             i == Magnitude(t)
             j == Magnitude(r)
  <2>3. i \in Nat /\ -i <= t /\ t <= i /\ j \in Nat /\ -j <= r /\ r <= j
    BY <1>1, MagnitudeIs
  <2>4. i < k /\ j < k
    BY <1>1, <2>1, <2>2, <2>3
  <2>5. 2 * k <= Base * k
    <3> HIDE DEF k
    <3>1. k \in Nat
      BY <2>2 DEF k
    <3>2. QED
      BY <2>2, <3>1
  <2>6. Base * k \in Int /\ k \in Nat
    BY <2>2
  <2> HIDE DEF k, i, j
  <2>7. Magnitude(t - r) < Base * k
    BY <1>1, <2>3, <2>4, <2>5, <2>6 DEF Magnitude
  <2>8. QED
    BY <2>2, <2>7 DEF k
<1>7. QED
  BY <1>2, <1>4, <1>5, <1>6 DEF AboveTicks, f, c, t, r

\* Where the loop stops for lack of room, the digits above have the sign of the
\* difference.
LEMMA SignAbove ==
    ASSUME NEW x \in Digital, Normal(x), NEW y \in Digital, Normal(y), NEW s \in Nat,
           ~HeldAbove(x, y, s)
    PROVE  LET n == Value(x) - Value(y)
           IN  \/ n > 0 /\ AboveTicks(x, y, s + 1) > 0 /\ Apart(Value(x), Value(y), s) >= quantity_limit
               \/ n < 0 /\ AboveTicks(x, y, s + 1) < 0 /\ Apart(Value(x), Value(y), s) <= -quantity_limit
<1> DEFINE t == Value(x)
           r == Value(y)
           n == t - r
           a == Apart(t, r, s)
           b == Apart(t, r, s + 1)
           d == PhaseAt(x, s) - PhaseAt(y, s)
           T == Tick(s)
           K == Tick(s + 1)
           L == quantity_limit
<1>1. t \in Int /\ r \in Int /\ n \in Int
  BY ValueIs
<1>2. T \in Nat \ {0} /\ K \in Nat \ {0} /\ L \in Nat /\ L >= Base /\ Base \in Nat /\ Base >= 2
  BY TickPositive, LimitPhases, BaseAssumption
<1>3. a \in Int /\ d \in Int /\ -Base < d /\ d < Base /\ a = Base * b + d
  BY ApartStep
<1>4. b \in Int
  <2> HIDE DEF t, r
  <2> QED  BY <1>1, AboveNear
<1>5. a * T \in Int /\ (a * T) % T = 0 /\ a * T - T < n /\ n < a * T + T
  <2> HIDE DEF t, r
  <2> QED  BY <1>1, AboveNear
<1>6. ~(Magnitude(a * T) < L * T)
  <2>1. ~HeldFrom(a * T, s)
    BY DEF HeldAbove, AboveTicks
  <2> HIDE DEF a
  <2>2. s <= s
    OBVIOUS
  <2>3. QED
    BY <1>5, <2>1, <2>2 DEF HeldFrom
<1>7. AboveTicks(x, y, s + 1) = b * K
  BY DEF AboveTicks
<1> HIDE DEF t, r, n, a, b, d, T, K, L
<1>8. a >= L \/ a <= -L
  <2>1. a < L => a * T < L * T
    BY <1>2, <1>3
  <2>2. -L < a => (-L) * T < a * T
    BY <1>2, <1>3
  <2>3. (-L) * T = -(L * T) /\ L * T \in Int
    BY <1>2
  <2>4. -(L * T) < a * T /\ a * T < L * T => Magnitude(a * T) < L * T
    <3> DEFINE u == a * T
               v == L * T
    <3>1. u \in Int /\ v \in Int
      BY <1>5, <2>3
    <3> HIDE DEF u, v
    <3>2. -v < u /\ u < v => Magnitude(u) < v
      BY <3>1 DEF Magnitude
    <3>3. QED
      BY <3>2 DEF u, v
  <2>5. QED
    BY <1>2, <1>3, <1>6, <2>1, <2>2, <2>3, <2>4
<1>9. CASE a >= L
  <2>1. 2 * T <= a * T
    BY <1>2, <1>3, <1>9
  <2>2. n > 0
    BY <1>1, <1>2, <1>5, <2>1
  <2>3. b > 0
    <3>1. b <= 0 => Base * b <= 0
      BY <1>2, <1>4
    <3>2. QED
      BY <1>2, <1>3, <1>4, <1>9, <3>1
  <2>4. b * K > 0
    BY <1>2, <1>4, <2>3
  <2>5. QED
    BY <1>7, <1>9, <2>2, <2>4 DEF n, t, r, a, L
<1>10. CASE a <= -L
  <2>1. a * T <= -2 * T
    <3>1. a <= -2
      BY <1>2, <1>3, <1>10
    <3>2. a * T <= (-2) * T
      BY <1>2, <1>3, <3>1
    <3>3. QED
      BY <1>2, <3>2
  <2>2. n < 0
    BY <1>1, <1>2, <1>5, <2>1
  <2>3. b < 0
    <3>1. b >= 0 => Base * b >= 0
      BY <1>2, <1>4
    <3>2. QED
      BY <1>2, <1>3, <1>4, <1>10, <3>1
  <2>4. b * K < 0
    BY <1>2, <1>4, <2>3
  <2>5. QED
    BY <1>7, <1>10, <2>2, <2>4 DEF n, t, r, a, L
<1>11. QED
  BY <1>8, <1>9, <1>10

\* operator- is exact if any duration is, and otherwise infinite on the side of
\* the difference.
LEMMA MinusIs ==
    ASSUME NEW x \in Digital, Normal(x), NEW y \in Digital, Normal(y)
    PROVE  LET n == Value(x) - Value(y)
               dt == Minus(x, y)
               Held == \E p \in 0 .. Coarser(Top(x), Top(y)) :
                           n % Tick(p) = 0 /\ Magnitude(n) < quantity_limit * Tick(p)
           IN  IF Held THEN Ticks(dt) = n
               ELSE dt = Duration(Signed(n, quantity_limit), Unit)
<1> DEFINE t == Value(x)
           r == Value(y)
           n == t - r
           c == Coarser(Top(x), Top(y))
           f == Finer(x.precision, y.precision)
           L == quantity_limit
           sum == Differences(x, y)
           cut == sum.scale + 1
           dt == sum.dt
           Fine(p) == n % Tick(p) = 0 /\ Magnitude(n) < L * Tick(p)
<1>1. /\ f \in Nat /\ c \in Nat /\ cut \in f .. c /\ sum.scale \in Int
      /\ Summed(x, y, cut, dt)
      /\ cut # f => ~HeldAbove(x, y, cut - 1)
  BY DifferencesIs
<1>2. n \in Int /\ AboveTicks(x, y, f) = n /\ Magnitude(n) < Tick(c + 1) /\ L \in Nat \ {0}
  BY AboveFinest, LimitPhases
<1>3. t \in Int /\ r \in Int
  BY ValueIs
<1>4. Holds(dt, cut) /\ Ticks(dt) = AboveTicks(x, y, cut)
  BY <1>1 DEF Summed
<1>5. dt.m \in Int /\ dt.p \in Nat /\ cut <= dt.p /\ Ticks(dt) = dt.m * Tick(dt.p)
      /\ Tick(dt.p) \in Nat \ {0} /\ Magnitude(Ticks(dt)) < L * Tick(dt.p)
  <2>1. dt \in [m : Int, p : Nat] /\ cut <= dt.p /\ Magnitude(Ticks(dt)) < L * Tick(dt.p)
    BY <1>4 DEF Holds
  <2> HIDE DEF dt, cut
  <2>2. dt.m \in Int /\ dt.p \in Nat
    BY <2>1
  <2>3. QED
    BY <2>1, <2>2, TickPositive DEF Ticks
<1>6. Minus(x, y) = IF sum.scale < f THEN dt ELSE Duration(IF dt.m > 0 THEN L ELSE -L, Unit)
  BY DEF Minus
<1>7. CASE cut = f
  <2>1. sum.scale < f
    <3> HIDE DEF f, sum
    <3> QED  BY <1>1, <1>7
  <2>2. Ticks(dt) = n
    BY <1>2, <1>4, <1>7
  <2>3. \E p \in 0 .. c : Fine(p)
    <3>1. Fine(dt.p)
      <4>1. (dt.m * Tick(dt.p)) % Tick(dt.p) = 0
        <5> HIDE DEF dt
        <5> QED  BY <1>5, QuotientOfMultiple
      <4> HIDE DEF dt, n, L
      <4>2. QED
        BY <1>5, <2>2, <4>1 DEF Fine
    <3>2. CASE dt.p <= c
      <4> HIDE DEF dt, c, Fine
      <4> QED  BY <1>1, <1>5, <3>1, <3>2
    <3>3. CASE c + 1 <= dt.p
      <4> DEFINE p == dt.p
      <4>1. p \in Nat /\ c + 1 \in Nat /\ c + 1 <= p /\ n % Tick(p) = 0
        BY <1>1, <1>5, <3>1, <3>3
      <4> HIDE DEF n, c, p
      <4>2. n % Tick(c + 1) = 0
        BY <1>2, <4>1, MultipleOfFiner
      <4>3. n = 0
        BY <1>2, <4>1, <4>2, ShorterThanTick
      <4>4. n % Tick(0) = 0 /\ Magnitude(n) < L * Tick(0)
        <5>1. 0 % 1 = 0
          OBVIOUS
        <5>2. L * 1 = L /\ L > 0
          BY <1>2
        <5> HIDE DEF L
        <5>3. Tick(0) = 1
          BY TickZero
        <5>4. QED
          BY <4>3, <5>1, <5>2, <5>3 DEF Magnitude
      <4>5. Fine(0) /\ 0 \in 0 .. c
        BY <1>1, <4>4 DEF Fine
      <4> HIDE DEF Fine
      <4>6. QED
        BY <4>5
    <3>4. dt.p <= c \/ c + 1 <= dt.p
      <4> HIDE DEF dt, c
      <4> QED  BY <1>1, <1>5
    <3>5. QED
      BY <3>2, <3>3, <3>4
  <2>4. Minus(x, y) = dt
    BY <1>6, <2>1
  <2> HIDE DEF dt, n, c, L
  <2>5. QED
    BY <2>2, <2>3, <2>4 DEF Fine, n, c, L, t, r
<1>8. CASE cut # f
  <2> DEFINE s == cut - 1
  <2>1. s \in Nat /\ s + 1 = cut /\ ~(sum.scale < f)
    <3> HIDE DEF f, c, sum
    <3> QED  BY <1>1, <1>8
  <2>2. ~HeldAbove(x, y, s)
    BY <1>1, <1>8
  <2>3. ~\E p \in 0 .. c : Fine(p)
    <3>1. SUFFICES ASSUME NEW p \in 0 .. c, Fine(p) PROVE FALSE
      OBVIOUS
    <3>2. p \in Nat
      <4> HIDE DEF c
      <4> QED  BY <1>1
    <3> HIDE DEF s
    <3>3. (t - r) % Tick(p) = 0 /\ Magnitude(t - r) < quantity_limit * Tick(p)
      BY <3>1
    <3> HIDE DEF t, r
    <3>4. HeldFrom(Apart(t, r, s) * Tick(s), s)
      BY <1>3, <2>1, <3>2, <3>3, HeldThroughout
    <3>5. QED
      BY <2>2, <3>4 DEF HeldAbove, AboveTicks, t, r
  <2>4. (n > 0 /\ Ticks(dt) > 0) \/ (n < 0 /\ Ticks(dt) < 0)
    <3>1. \/ n > 0 /\ AboveTicks(x, y, s + 1) > 0
          \/ n < 0 /\ AboveTicks(x, y, s + 1) < 0
      <4> HIDE DEF s
      <4> QED  BY <2>1, <2>2, SignAbove
    <3> HIDE DEF s, n, dt, cut
    <3>2. QED
      BY <1>4, <2>1, <3>1
  <2>5. Ticks(dt) > 0 <=> dt.m > 0
    <3> DEFINE m == dt.m
               k == Tick(dt.p)
    <3>1. m \in Int /\ k \in Nat \ {0} /\ Ticks(dt) = m * k
      BY <1>5
    <3> HIDE DEF m, k
    <3>2. m > 0 => m * k > 0
      BY <3>1
    <3>3. m <= 0 => m * k <= 0
      BY <3>1
    <3>4. QED
      BY <3>1, <3>2, <3>3 DEF m
  <2>6. (IF dt.m > 0 THEN L ELSE -L) = Signed(n, L)
    <3>1. Ticks(dt) \in Int
      <4> HIDE DEF dt
      <4> QED  BY <1>5
    <3> HIDE DEF n, dt, L
    <3>2. QED
      BY <1>2, <2>4, <2>5, <3>1 DEF Signed
  <2>7. Minus(x, y) = Duration(Signed(n, L), Unit)
    BY <1>6, <2>1, <2>6
  <2> HIDE DEF n, c, L
  <2>8. QED
    BY <2>3, <2>7 DEF Fine, n, c, L, t, r
<1>9. QED
  BY <1>7, <1>8

\* Of any two time points, the difference is exact or none.
LEMMA DifferencesExact == PointTypeOK => DifferenceExact
<1> SUFFICES ASSUME PointTypeOK, NEW j \in Names, NEW k \in Names
             PROVE  LET n == Value(tp[j]) - Value(tp[k])
                        dt == Minus(tp[j], tp[k])
                        Held == \E p \in 0 .. Coarser(Top(tp[j]), Top(tp[k])) :
                                    n % Tick(p) = 0 /\ Magnitude(n) < quantity_limit * Tick(p)
                    IN  IF Held THEN Ticks(dt) = n
                        ELSE dt = Duration(Signed(n, quantity_limit), Unit)
  BY DEF DifferenceExact
<1>1. tp[j] \in Digital /\ Normal(tp[j]) /\ tp[k] \in Digital /\ Normal(tp[k])
  BY DEF PointTypeOK
<1>2. QED
  BY <1>1, MinusIs

-----------------------------------------------------------------------------
(* The gap of two time points                                              *)

\* Rounding gives the nearest whole number of ticks, on either side of zero.
LEMMA RoundedNear ==
    ASSUME NEW n \in Nat, NEW p \in Nat, NEW b \in Nat,
           (2 * b - 1) * Tick(p) <= 2 * n, 2 * n < (2 * b + 1) * Tick(p)
    PROVE  Rounded(n, p) = b /\ Rounded(-n, p) = -b
<1> DEFINE T == Tick(p)
           k == 2 * T
           u == 2 * n + T
           q == u \div k
<1>1. T \in Nat \ {0} /\ k \in Nat \ {0} /\ u \in Int
  BY TickPositive
<1>2. b * k <= u /\ u < b * k + k
  <2> HIDE DEF T
  <2>1. (2 * b - 1) * T <= 2 * n /\ 2 * n < (2 * b + 1) * T
    BY DEF T
  <2>2. (2 * b - 1) * T = b * (2 * T) - T /\ (2 * b + 1) * T = b * (2 * T) + T /\ b * (2 * T) \in Int
    BY <1>1
  <2>3. QED
    BY <1>1, <2>1, <2>2
<1>3. q = b
  <2> HIDE DEF k, u
  <2>1. k \in Nat \ {0} /\ u \in Int /\ b \in Int
    BY <1>1
  <2>2. u \div k = b
    BY <1>2, <2>1, QuotientIs
  <2>3. QED
    BY <2>2
<1>4. Magnitude(n) = n /\ Magnitude(-n) = n
  BY DEF Magnitude
<1>5. Rounded(n, p) = Signed(n, q) /\ Rounded(-n, p) = Signed(-n, q)
  BY <1>4 DEF Rounded
<1>6. n = 0 => b = 0
  <2>1. SUFFICES ASSUME n = 0, b # 0 PROVE FALSE
    OBVIOUS
  <2>2. 1 * T <= (2 * b - 1) * T
    <3> DEFINE c == 2 * b - 1
    <3>1. c \in Nat /\ 1 <= c
      BY <2>1
    <3> HIDE DEF c, T
    <3>2. QED
      BY <1>1, <3>1 DEF c
  <2> DEFINE w == (2 * b - 1) * T
  <2>3. w <= 0 /\ T <= w /\ w \in Int
    BY <1>1, <2>1, <2>2
  <2> HIDE DEF w, T
  <2>4. QED
    BY <1>1, <2>3
<1> HIDE DEF q
<1>7. Signed(n, q) = b /\ Signed(-n, q) = -b
  BY <1>3, <1>6 DEF Signed
<1>8. QED
  BY <1>5, <1>7

\* An epoch is EpochScales scales, of which the first is one.
LEMMA EpochTicks ==
    ASSUME NEW s \in Nat
    PROVE  /\ EpochScales \in Nat \ {0}
           /\ EpochScales <= s => s - EpochScales \in Nat /\ Tick(s) = quantity_limit * Tick(s - EpochScales)
           /\ s < EpochScales => Tick(s) < quantity_limit
<1>1. EpochScales \in Nat \ {0}
  BY EpochScalesAssumption
<1>2. ASSUME EpochScales <= s
      PROVE  s - EpochScales \in Nat /\ Tick(s) = quantity_limit * Tick(s - EpochScales)
  <2>1. s - EpochScales \in Nat /\ (s - EpochScales) + EpochScales = s
    BY <1>1, <1>2
  <2>2. Tick(s) = Tick(s - EpochScales) * Tick(EpochScales)
    BY <1>1, <2>1, TickSum
  <2>3. Tick(EpochScales) = quantity_limit
    BY DEF Tick, quantity_limit
  <2>4. quantity_limit \in Nat /\ Tick(s - EpochScales) \in Nat
    BY <2>1, LimitPhases, TickPositive
  <2>5. QED
    BY <2>1, <2>2, <2>3, <2>4
<1>3. ASSUME s < EpochScales PROVE Tick(s) < quantity_limit
  <2>1. s + 1 \in Nat /\ s + 1 <= EpochScales
    BY <1>1, <1>3
  <2>2. Tick(s + 1) <= Tick(EpochScales) /\ Tick(s + 1) = Base * Tick(s)
    BY <1>1, <2>1, TickOrder, TickNext
  <2>3. Tick(s) \in Nat \ {0} /\ Base \in Nat /\ Base >= 2 /\ quantity_limit \in Nat
        /\ Tick(EpochScales) = quantity_limit
    BY TickPositive, BaseAssumption, LimitPhases DEF Tick, quantity_limit
  <2> DEFINE k == Tick(s)
  <2>4. 2 * k <= Base * k
    <3> HIDE DEF k
    <3>1. k \in Nat
      BY <2>3 DEF k
    <3>2. QED
      BY <2>3, <3>1
  <2>5. QED
    BY <2>2, <2>3, <2>4
<1>4. QED
  BY <1>1, <1>2, <1>3

\* Rounding what has grown to a whole epoch of the scale p: a duration has it at
\* the next scale, and it is the same.
LEMMA RoundedUp ==
    ASSUME NEW n \in Int, NEW p \in Nat, Magnitude(n) <= quantity_limit * Tick(p), ~Fits(n, p)
    PROVE  /\ Fits(n, p + 1)
           /\ Rounded(n, p + 1) \in Int
           /\ Rounded(n, p + 1) * Tick(p + 1) = Rounded(n, p) * Tick(p)
<1> DEFINE T == Tick(p)
           K == Tick(p + 1)
           L == quantity_limit
           l == L \div Base
           M == Magnitude(n)
<1>1. /\ T \in Nat \ {0} /\ K \in Nat \ {0} /\ K = Base * T /\ L \in Nat \ {0} /\ l \in Nat \ {0}
      /\ L = Base * l /\ Base \in Nat /\ Base >= 2 /\ M \in Nat
  <2>1. T \in Nat \ {0} /\ K \in Nat \ {0} /\ K = Base * T
    BY TickPositive, TickNext
  <2>2. L \in Nat \ {0} /\ l \in Nat \ {0} /\ L = Base * l
    BY LimitPhases
  <2>3. M \in Nat /\ Base \in Nat /\ Base >= 2
    BY MagnitudeIs, BaseAssumption
  <2> HIDE DEF T, K, L, l, M
  <2>4. QED
    BY <2>1, <2>2, <2>3
<1>2. M <= L * T /\ ~(2 * M + T < 2 * L * T)
  BY DEF Fits
<1> HIDE DEF T, K, L, l, M
<1>3. L * T = l * K /\ L * T \in Int /\ (2 * L - 1) * T = 2 * (L * T) - T /\ (2 * L + 1) * T = 2 * (L * T) + T
      /\ 2 * L * T = 2 * (L * T) /\ (2 * l - 1) * K = 2 * (l * K) - K /\ (2 * l + 1) * K = 2 * (l * K) + K
  BY <1>1
<1>4. T <= K
  <2>1. 2 * T <= Base * T
    BY <1>1
  <2>2. QED
    BY <1>1, <2>1
<1> DEFINE e == L * T
<1>5. M <= e /\ 2 * e - T <= 2 * M /\ e \in Int
  BY <1>1, <1>2, <1>3
<1>6. (2 * L - 1) * T <= 2 * M /\ 2 * M < (2 * L + 1) * T
  BY <1>1, <1>3, <1>5
<1>7. (2 * l - 1) * K <= 2 * M /\ 2 * M < (2 * l + 1) * K
  BY <1>1, <1>3, <1>4, <1>5
<1>8. 2 * M + K < 2 * L * K
  <2>1. 2 * L * K = Base * (2 * e)
    BY <1>1
  <2>2. 2 * (2 * e) <= Base * (2 * e)
    <3> DEFINE g == 2 * e
    <3>1. g \in Nat
      BY <1>1
    <3> HIDE DEF g
    <3>2. QED
      BY <1>1, <3>1 DEF g
  <2>3. K <= e
    <3>1. 1 * K <= l * K
      BY <1>1
    <3>2. QED
      BY <1>1, <1>3, <3>1
  <2>4. Base * (2 * e) \in Int
    BY <1>1, <1>5
  <2> HIDE DEF e
  <2>5. QED
    BY <1>1, <1>5, <2>1, <2>2, <2>3, <2>4
<1>9. Fits(n, p + 1)
  BY <1>8 DEF Fits, M, K, L
<1>10. (n = M \/ n = -M)
  BY DEF M, Magnitude
<1>11. Rounded(M, p) = L /\ Rounded(-M, p) = -L
  <2>1. (2 * L - 1) * Tick(p) <= 2 * M /\ 2 * M < (2 * L + 1) * Tick(p)
    BY <1>6 DEF T
  <2>2. QED
    BY <1>1, <2>1, RoundedNear
<1>12. Rounded(M, p + 1) = l /\ Rounded(-M, p + 1) = -l
  <2>1. (2 * l - 1) * Tick(p + 1) <= 2 * M /\ 2 * M < (2 * l + 1) * Tick(p + 1)
    BY <1>7 DEF K
  <2>2. p + 1 \in Nat
    OBVIOUS
  <2>3. QED
    BY <1>1, <2>1, <2>2, RoundedNear
<1>13. l * K = L * T /\ (-l) * K = (-L) * T /\ l \in Int /\ -l \in Int
  BY <1>1, <1>3
<1>14. Rounded(n, p + 1) \in Int /\ Rounded(n, p + 1) * K = Rounded(n, p) * T
  BY <1>10, <1>11, <1>12, <1>13
<1>15. QED
  BY <1>9, <1>14 DEF K, T

\* The fine digits are kept to EpochScales scales below.
LEMMA SmallMultiple ==
    ASSUME NEW t \in Int, NEW r \in Int, NEW s \in Nat, EpochScales <= s
    PROVE  s - EpochScales \in Nat /\ small_part(t, r, s) % Tick(s - EpochScales) = 0
<1> DEFINE p == s - EpochScales
           v == small_part(t, r, s)
<1>1. EpochScales \in Nat \ {0} /\ p \in Nat /\ s - 1 \in Nat /\ (s - 1) + 1 = s
  BY EpochScalesAssumption
<1>2. v \in Int
  BY SmallPart
<1>3. CASE p = 0
  <2>1. Tick(p) = 1
    BY <1>3, TickZero
  <2> HIDE DEF v, p
  <2>2. v % 1 = 0
    BY <1>2
  <2>3. QED
    BY <1>1, <2>1, <2>2 DEF v, p
<1>4. CASE p # 0
  <2> DEFINE n == small_part(t, r, s - 1)
                     + (scale_phase(t, s - 1) - scale_phase(r, s - 1)) * Tick(s - 1)
  <2>1. v = KeptTicks(n, s)
    <3>1. small_part(t, r, (s - 1) + 1) = KeptTicks(n, (s - 1) + 1)
      BY <1>1, SmallPart
    <3>2. QED
      BY <1>1, <3>1
  <2>2. n \in Int
    <3>1. small_part(t, r, s - 1) \in Int
      BY <1>1, SmallPart
    <3>2. scale_phase(t, s - 1) \in Int /\ scale_phase(r, s - 1) \in Int
      <4>1. scale_phase(t, s - 1) \in 0 .. Base - 1 /\ scale_phase(r, s - 1) \in 0 .. Base - 1
        BY <1>1, ScalePhase
      <4>2. Base \in Int
        BY BaseAssumption
      <4>3. QED
        BY <4>1, <4>2
    <3>3. Tick(s - 1) \in Int
      BY <1>1, TickPositive
    <3>4. QED
      BY <3>1, <3>2, <3>3
  <2> HIDE DEF n
  <2>3. v = Rounded(n, p) * Tick(p)
    <3>1. ~(s - EpochScales <= 0)
      BY <1>1, <1>4
    <3>2. QED
      BY <2>1, <3>1 DEF KeptTicks
  <2>4. Rounded(n, p) \in Int
    <3>1. 0 \in Int
      OBVIOUS
    <3> HIDE DEF p
    <3>2. QED
      BY <1>1, <2>2, <3>1, RoundedBounds
  <2>5. Tick(p) \in Nat \ {0}
    BY <1>1, TickPositive
  <2> HIDE DEF p, v
  <2>6. (Rounded(n, p) * Tick(p)) % Tick(p) = 0
    BY <2>4, <2>5, QuotientOfMultiple
  <2>7. QED
    BY <1>1, <2>3, <2>6 DEF p, v
<1>5. QED
  BY <1>3, <1>4

\* With the digit of a scale the sum of the finer ones is at most the next one.
LEMMA SmallSum ==
    ASSUME NEW t \in Int, NEW r \in Int, NEW s \in Nat
    PROVE  LET d == scale_phase(t, s) - scale_phase(r, s)
               n == small_part(t, r, s) + d * Tick(s)
           IN  /\ d \in Int /\ n \in Int
               /\ Magnitude(n) <= Tick(s + 1)
               /\ \A p \in Nat : p + EpochScales = s => n % Tick(p) = 0
<1> DEFINE a == scale_phase(t, s)
           b == scale_phase(r, s)
           d == a - b
           v == small_part(t, r, s)
           T == Tick(s)
           n == v + d * T
<1>1. a \in 0 .. Base - 1 /\ b \in 0 .. Base - 1 /\ Base \in Nat /\ Base >= 2
  BY ScalePhase, BaseAssumption
<1>2. T \in Nat \ {0} /\ Tick(s + 1) = Base * T
  BY TickPositive, TickNext
<1>3. v \in -T .. T
  BY SmallBounds DEF SmallSound
<1> HIDE DEF a, b, v, T
<1>4. d \in Int /\ 1 - Base <= d /\ d <= Base - 1
  BY <1>1
<1> HIDE DEF d
<1>5. (1 - Base) * T <= d * T /\ d * T <= (Base - 1) * T /\ d * T \in Int
  BY <1>1, <1>2, <1>4
<1>6. (1 - Base) * T = T - Base * T /\ (Base - 1) * T = Base * T - T /\ Base * T \in Int
  BY <1>1, <1>2
<1>7. n \in Int /\ Magnitude(n) <= Base * T
  BY <1>2, <1>3, <1>5, <1>6 DEF Magnitude
<1>8. ASSUME NEW p \in Nat, p + EpochScales = s PROVE n % Tick(p) = 0
  <2>1. EpochScales <= s /\ s - EpochScales = p /\ p <= s
    BY <1>8, EpochScalesAssumption
  <2>2. v % Tick(p) = 0
    BY <2>1, SmallMultiple DEF v
  <2>3. (d * T) % Tick(p) = 0
    <3> DEFINE e == d * T
    <3>1. e \in Int /\ e % Tick(s) = 0
      <4>1. (d * T) % T = 0
        BY <1>2, <1>4, QuotientOfMultiple
      <4>2. QED
        BY <1>5, <4>1 DEF T
    <3> HIDE DEF e
    <3>2. e % Tick(p) = 0
      BY <2>1, <3>1, MultipleOfFiner
    <3>3. QED
      BY <3>2 DEF e
  <2> DEFINE e == d * T
             k == Tick(p)
  <2>4. v \in Int /\ e \in Int /\ k \in Nat \ {0} /\ v % k = 0 /\ e % k = 0
    BY <1>2, <1>3, <1>5, <2>2, <2>3, TickPositive
  <2> HIDE DEF e, k
  <2>5. (v + e) % k = 0
    BY <2>4, MultiplesMeet
  <2>6. QED
    BY <2>5 DEF e, k
<1>9. QED
  BY <1>2, <1>4, <1>7, <1>8 DEF n, d, a, b, v, T

\* Adding as durations do and rounding to EpochScales scales rounds once: what
\* the sum itself rounds would be rounded to the same.
LEMMA RoundedSum ==
    ASSUME NEW n \in Int, NEW o \in Nat, NEW s \in Nat, n % Tick(o) = 0,
           Magnitude(n) <= Tick(s),
           \A p \in Nat : p + EpochScales + 1 = s => n % Tick(p) = 0
    PROVE  /\ RoundedTo(autoscaled(n, o), s - EpochScales) \in [m : Int, p : Nat]
           /\ Ticks(RoundedTo(autoscaled(n, o), s - EpochScales)) = KeptTicks(n, s)
<1> DEFINE E == EpochScales
           p == s - E
           a == autoscaled(n, o)
           L == quantity_limit
<1>1. E \in Nat \ {0} /\ p \in Int
  BY EpochScalesAssumption
<1>2. PICK q \in Nat :
         /\ o <= q /\ Fits(n, q) /\ (q # o => ~Fits(n, q - 1))
         /\ Rounded(n, q) \in Int
         /\ a = Duration(Rounded(n, q), q)
  BY AutoscaledIs
<1>3. a \in [m : Int, p : Nat] /\ a.p = q /\ Ticks(a) = Rounded(n, q) * Tick(q)
  BY <1>2 DEF Duration, Ticks
<1>4. RoundedTo(a, p) = IF p < q THEN a ELSE Duration(Rounded(Ticks(a), p), p)
  BY <1>3 DEF RoundedTo
<1>5. KeptTicks(n, s) = IF p <= 0 THEN n ELSE Rounded(n, p) * Tick(p)
  BY DEF KeptTicks
<1>6. L \in Nat \ {0} /\ Tick(o) \in Nat \ {0} /\ Magnitude(n) \in Nat
  BY LimitPhases, TickPositive, MagnitudeIs
<1> HIDE DEF a
<1>7. CASE p < o
  <2>1. p < q
    BY <1>1, <1>2, <1>7
  <2>2. Magnitude(n) < L * Tick(o)
    <3>1. CASE p < 0
      <4>1. Tick(s) < L /\ Tick(s) \in Nat
        BY <1>1, <3>1, EpochTicks, TickPositive
      <4>2. L * 1 <= L * Tick(o) /\ L * 1 = L /\ L * Tick(o) \in Int
        <5> DEFINE k == Tick(o)
        <5>1. k \in Nat \ {0}
          BY <1>6
        <5> HIDE DEF k, L
        <5>2. L * 1 <= L * k
          BY <1>6, <5>1
        <5>3. QED
          BY <1>6, <5>1, <5>2 DEF k
      <4> HIDE DEF L
      <4>3. QED
        BY <1>6, <4>1, <4>2
    <3>2. CASE p >= 0
      <4>1. p \in Nat /\ Tick(s) = L * Tick(p)
        BY <1>1, <3>2, EpochTicks
      <4>2. p + 1 \in Nat /\ p + 1 <= o
        BY <1>1, <1>7, <4>1
      <4>3. Tick(p + 1) <= Tick(o) /\ Tick(p + 1) = Base * Tick(p) /\ Tick(p) \in Nat \ {0}
            /\ Base \in Nat /\ Base >= 2
        <5> HIDE DEF p
        <5> QED  BY <4>1, <4>2, TickOrder, TickNext, TickPositive, BaseAssumption
      <4> DEFINE k == Tick(p)
                 l == Tick(o)
      <4> HIDE DEF p, L, k, l
      <4>4. k \in Nat \ {0} /\ l \in Nat \ {0} /\ Base * k <= l
        BY <1>6, <4>3 DEF k, l
      <4>5. k < l
        <5>1. 2 * k <= Base * k
          BY <4>3, <4>4
        <5>2. QED
          BY <4>3, <4>4, <5>1
      <4>6. L * k < L * l /\ L * k \in Int /\ L * l \in Int
        BY <1>6, <4>4, <4>5
      <4>7. QED
        BY <1>6, <4>1, <4>6 DEF k, l
    <3>3. QED
      BY <1>1, <3>1, <3>2
  <2>3. HeldFrom(n, o)
    <3>1. o <= o
      OBVIOUS
    <3>2. QED
      BY <2>2, <3>1 DEF HeldFrom, L
  <2>4. Ticks(a) = n
    BY <2>3, AutoscaledExact DEF a
  <2>5. KeptTicks(n, s) = n
    <3>1. CASE p <= 0
      BY <1>5, <3>1
    <3>2. CASE ~(p <= 0)
      <4>1. p \in Nat /\ p <= o
        BY <1>1, <1>7, <3>2
      <4>2. n % Tick(p) = 0
        <5> HIDE DEF p
        <5> QED  BY <4>1, MultipleOfFiner
      <4>3. Rounded(n, p) = n \div Tick(p) /\ n = (n \div Tick(p)) * Tick(p)
        <5> HIDE DEF p
        <5> QED  BY <4>1, <4>2, MultipleIs
      <4> HIDE DEF p
      <4>4. QED
        BY <1>5, <3>2, <4>3
    <3>3. QED
      BY <3>1, <3>2
  <2>6. QED
    BY <1>3, <1>4, <2>1, <2>4, <2>5 DEF a
<1>8. CASE ~(p < o)
  <2>1. p \in Nat /\ o <= p /\ Tick(s) = L * Tick(p) /\ Tick(p) \in Nat \ {0}
    <3>1. p \in Nat /\ o <= p
      BY <1>1, <1>8
    <3>2. E <= s
      BY <1>1, <3>1
    <3>3. QED
      BY <3>1, <3>2, EpochTicks, TickPositive
  <2>2. KeptTicks(n, s) = Rounded(n, p) * Tick(p)
    <3>1. CASE p = 0
      <4>1. o = p
        BY <2>1, <3>1
      <4>2. Rounded(n, p) = n \div Tick(p) /\ n = (n \div Tick(p)) * Tick(p)
        <5> HIDE DEF p
        <5> QED  BY <2>1, <4>1, MultipleIs
      <4> HIDE DEF p
      <4>3. QED
        BY <1>5, <3>1, <4>2
    <3>2. CASE p # 0
      <4>1. ~(p <= 0)
        BY <2>1, <3>2
      <4>2. QED
        BY <1>5, <4>1
    <3>3. QED
      BY <3>1, <3>2
  <2>3. Rounded(n, p) \in Int
    <3>1. 0 \in Int
      OBVIOUS
    <3> HIDE DEF p
    <3>2. QED
      BY <2>1, <3>1, RoundedBounds
  <2>4. CASE Fits(n, p)
    <3>1. q <= p
      <4>1. SUFFICES ASSUME ~(q <= p) PROVE FALSE
        OBVIOUS
      <4>2. q - 1 \in Nat /\ p <= q - 1 /\ q # o
        BY <1>2, <2>1, <4>1
      <4> HIDE DEF p
      <4>3. Fits(n, q - 1)
        BY <2>1, <2>4, <4>2, FitsCoarser
      <4>4. QED
        BY <1>2, <4>2, <4>3
    <3>2. ~(p < q)
      BY <1>2, <2>1, <3>1
    <3>3. Rounded(Ticks(a), p) = Rounded(n, p)
      <4>1. CASE q = p
        <5> DEFINE j == Rounded(n, p)
                   k == Tick(p)
        <5>1. j \in Int /\ k \in Nat \ {0} /\ Ticks(a) = j * k
          BY <1>3, <2>1, <2>3, <4>1
        <5>2. (j * k) % k = 0 /\ (j * k) \div k = j /\ j * k \in Int
          <6> HIDE DEF j, k
          <6> QED  BY <5>1, QuotientOfMultiple
        <5> DEFINE e == j * k
        <5>3. e \in Int /\ e % Tick(p) = 0 /\ e \div Tick(p) = j /\ Ticks(a) = e
          BY <5>1, <5>2
        <5> HIDE DEF e, j, k, p
        <5>4. Rounded(e, p) = e \div Tick(p)
          BY <2>1, <5>3, MultipleIs
        <5>5. QED
          BY <5>3, <5>4 DEF j
      <4>2. CASE q # p
        <5>1. p - 1 \in Nat /\ q <= p - 1 /\ (p - 1) + E + 1 = s
          BY <1>1, <1>2, <2>1, <3>1, <4>2
        <5>2. n % Tick(p - 1) = 0
          BY <5>1
        <5>3. n % Tick(q) = 0
          <6> DEFINE i == p - 1
          <6>1. i \in Nat /\ q <= i /\ n % Tick(i) = 0
            BY <5>1, <5>2
          <6> HIDE DEF i
          <6>2. QED
            BY <1>2, <6>1, MultipleOfFiner
        <5>4. Rounded(n, q) = n \div Tick(q) /\ n = (n \div Tick(q)) * Tick(q)
          BY <1>2, <5>3, MultipleIs
        <5>5. Ticks(a) = n
          BY <1>3, <5>4
        <5>6. QED
          BY <5>5
      <4>3. QED
        BY <4>1, <4>2
    <3>4. RoundedTo(a, p) = Duration(Rounded(n, p), p)
      BY <1>4, <3>2, <3>3
    <3> HIDE DEF p
    <3>5. RoundedTo(a, p) \in [m : Int, p : Nat] /\ Ticks(RoundedTo(a, p)) = Rounded(n, p) * Tick(p)
      BY <2>1, <2>3, <3>4 DEF Duration, Ticks
    <3>6. QED
      BY <2>2, <3>5 DEF p, a
  <2>5. CASE ~Fits(n, p)
    <3>1. /\ Fits(n, p + 1) /\ Rounded(n, p + 1) \in Int
          /\ Rounded(n, p + 1) * Tick(p + 1) = Rounded(n, p) * Tick(p)
      <4>1. Magnitude(n) <= quantity_limit * Tick(p)
        BY <2>1
      <4> HIDE DEF p
      <4>2. QED
        BY <2>1, <2>5, <4>1, RoundedUp
    <3>2. q = p + 1
      <4>1. p < q
        <5>1. SUFFICES ASSUME ~(p < q) PROVE FALSE
          OBVIOUS
        <5>2. q <= p
          BY <1>2, <2>1, <5>1
        <5> HIDE DEF p
        <5>3. Fits(n, p)
          BY <1>2, <2>1, <5>2, FitsCoarser
        <5>4. QED
          BY <2>5, <5>3
      <4>2. ~(p + 1 < q)
        <5>1. SUFFICES ASSUME p + 1 < q PROVE FALSE
          OBVIOUS
        <5>2. q - 1 \in Nat /\ p + 1 \in Nat /\ p + 1 <= q - 1 /\ q # o
          BY <1>2, <2>1, <5>1
        <5> HIDE DEF p
        <5>3. Fits(n, q - 1)
          BY <3>1, <5>2, FitsCoarser
        <5>4. QED
          BY <1>2, <5>2, <5>3
      <4>3. QED
        BY <1>2, <2>1, <4>1, <4>2
    <3>3. p < q
      BY <2>1, <3>2
    <3>4. RoundedTo(a, p) = a
      BY <1>4, <3>3
    <3>5. Ticks(a) = Rounded(n, p) * Tick(p)
      BY <1>3, <3>1, <3>2
    <3> HIDE DEF p
    <3>6. QED
      BY <1>3, <2>2, <3>4, <3>5 DEF p, a
  <2>6. QED
    BY <2>4, <2>5
<1>9. QED
  BY <1>7, <1>8

\* The loop of gap over the finer digits adds up the same as in numbers.
LEMMA SmallDifferencesIs ==
    ASSUME NEW x \in Digital, Normal(x), NEW y \in Digital, Normal(y), NEW s \in Nat
    PROVE  /\ SmallDifferences(x, y)[s] \in [m : Int, p : Nat]
           /\ Finer(x.precision, y.precision) <= s =>
                 Ticks(SmallDifferences(x, y)[s]) = small_part(Value(x), Value(y), s)
<1> DEFINE finest == Finer(x.precision, y.precision)
           t == Value(x)
           r == Value(y)
           V == [m : Int, p : Nat]
           none == Duration(0, Unit)
           Term(i) == Duration(PhaseAt(x, i) - PhaseAt(y, i), i)
           Next1(v, i) == IF i + 1 <= finest THEN none
                          ELSE RoundedTo(Sum(v, Term(i)), (i + 1) - EpochScales)
           step == [i \in Nat |-> [v \in V |-> Next1(v, i)]]
           Rec(g) == [i \in Nat |->
                        IF i <= finest THEN none
                        ELSE RoundedTo(Sum(g[i - 1], Term(i - 1)), i - EpochScales)]
           h == CHOOSE g : g = Rec(g)
<1>1. finest \in Nat /\ t \in Int /\ r \in Int /\ t % Tick(finest) = 0 /\ r % Tick(finest) = 0
  <2>1. /\ x.precision \in Nat /\ y.precision \in Nat /\ t \in Int /\ r \in Int
        /\ t % Tick(x.precision) = 0 /\ r % Tick(y.precision) = 0
    BY ValueIs
  <2>2. finest \in Nat /\ finest <= x.precision /\ finest <= y.precision
    BY <2>1 DEF Finer
  <2> HIDE DEF finest, t, r
  <2>3. QED
    BY <2>1, <2>2, MultipleOfFiner
<1>2. SmallDifferences(x, y) = h
  BY DEF SmallDifferences
<1>3. none \in V /\ Ticks(none) = 0
  <2>1. Unit \in Nat
    BY UnitAssumption, MaxScaleAssumption
  <2>2. Tick(Unit) \in Int
    BY <2>1, TickPositive
  <2>3. QED
    BY <2>1, <2>2 DEF Duration, Ticks
<1> HIDE DEF t, r, finest, none
<1>4. ASSUME NEW v \in V, NEW i \in Nat
      PROVE  /\ Sum(v, Term(i)) \in V
             /\ Ticks(v) = small_part(t, r, i) =>
                   /\ RoundedTo(Sum(v, Term(i)), (i + 1) - EpochScales) \in V
                   /\ Ticks(RoundedTo(Sum(v, Term(i)), (i + 1) - EpochScales)) = small_part(t, r, i + 1)
             /\ RoundedTo(Sum(v, Term(i)), (i + 1) - EpochScales) \in V
  <2> DEFINE d == PhaseAt(x, i) - PhaseAt(y, i)
             D == d * Tick(i)
             o == Finer(v.p, i)
             n == Ticks(v) + D
  <2>1. d = scale_phase(t, i) - scale_phase(r, i) /\ d \in Int
    <3>1. PhaseAt(x, i) = scale_phase(t, i) /\ PhaseAt(y, i) = scale_phase(r, i)
      BY PhaseAtIs DEF t, r
    <3>2. d \in Int
      BY ApartStep
    <3>3. QED
      BY <3>1, <3>2
  <2> HIDE DEF d
  <2>2. o \in Nat /\ o <= v.p /\ o <= i
    BY DEF Finer
  <2>3. D \in Int /\ D % Tick(i) = 0 /\ Tick(i) \in Nat \ {0}
    <3> DEFINE k == Tick(i)
    <3>1. k \in Nat \ {0}
      BY TickPositive
    <3> HIDE DEF k
    <3>2. d * k \in Int /\ (d * k) % k = 0
      BY <2>1, <3>1, QuotientOfMultiple
    <3>3. QED
      BY <3>1, <3>2 DEF k
  <2>4. Ticks(v) \in Int /\ Ticks(v) % Tick(o) = 0
    <3> HIDE DEF o
    <3> QED  BY <2>2, TicksMultiple
  <2> HIDE DEF o, D
  <2>5. D % Tick(o) = 0 /\ Tick(o) \in Nat \ {0}
    BY <2>2, <2>3, MultipleOfFiner, TickPositive
  <2>6. n \in Int /\ n % Tick(o) = 0
    <3> DEFINE k == Tick(o)
               a == Ticks(v)
    <3>1. a \in Int /\ a % k = 0 /\ D \in Int /\ D % k = 0 /\ k \in Nat \ {0}
      BY <2>3, <2>4, <2>5
    <3> HIDE DEF k, a
    <3>2. (a + D) % k = 0 /\ a + D \in Int
      BY <3>1, MultiplesMeet
    <3>3. QED
      BY <3>2 DEF k, a
  <2>7. Sum(v, Term(i)) = autoscaled(n, o)
    BY DEF Sum, Duration, o, D, d, Ticks
  <2> HIDE DEF n
  <2>8. autoscaled(n, o) \in V
    BY <2>2, <2>6, AutoscaledExact
  <2>9. RoundedTo(Sum(v, Term(i)), (i + 1) - EpochScales) \in V
    <3> DEFINE a == autoscaled(n, o)
               p == (i + 1) - EpochScales
    <3>1. a \in V /\ p \in Int
      BY <2>8, EpochScalesAssumption
    <3>2. Ticks(a) \in Int
      <4> HIDE DEF a
      <4>1. a.p <= a.p
        BY <3>1
      <4>2. QED
        BY <3>1, <4>1, TicksMultiple
    <3> HIDE DEF a, p
    <3>3. RoundedTo(a, p) \in V
      <4>1. CASE p < a.p
        BY <3>1, <4>1 DEF RoundedTo
      <4>2. CASE ~(p < a.p)
        <5>1. p \in Nat
          BY <3>1, <4>2
        <5>2. 0 \in Int
          OBVIOUS
        <5>3. Rounded(Ticks(a), p) \in Int
          BY <3>2, <5>1, <5>2, RoundedBounds
        <5>4. QED
          BY <4>2, <5>1, <5>3 DEF RoundedTo, Duration
      <4>3. QED
        BY <4>1, <4>2
    <3>4. QED
      BY <2>7, <3>3 DEF a, p
  <2>10. ASSUME Ticks(v) = small_part(t, r, i)
         PROVE  Ticks(RoundedTo(Sum(v, Term(i)), (i + 1) - EpochScales)) = small_part(t, r, i + 1)
    <3>1. n = small_part(t, r, i) + (scale_phase(t, i) - scale_phase(r, i)) * Tick(i)
      BY <2>1, <2>10 DEF n, D
    <3>2. /\ Magnitude(n) <= Tick(i + 1)
          /\ \A p \in Nat : p + EpochScales = i => n % Tick(p) = 0
      BY <1>1, <3>1, SmallSum
    <3>3. \A p \in Nat : p + EpochScales + 1 = i + 1 => n % Tick(p) = 0
      BY <3>2, EpochScalesAssumption
    <3>4. i + 1 \in Nat
      OBVIOUS
    <3>5. Ticks(RoundedTo(autoscaled(n, o), (i + 1) - EpochScales)) = KeptTicks(n, i + 1)
      <4> DEFINE j == i + 1
      <4>1. j \in Nat /\ Magnitude(n) <= Tick(j) /\ \A p \in Nat : p + EpochScales + 1 = j => n % Tick(p) = 0
        BY <3>2, <3>3, <3>4
      <4> HIDE DEF j
      <4>2. Ticks(RoundedTo(autoscaled(n, o), j - EpochScales)) = KeptTicks(n, j)
        BY <2>2, <2>6, <4>1, RoundedSum
      <4>3. QED
        BY <4>2 DEF j
    <3>6. small_part(t, r, i + 1) = KeptTicks(n, i + 1)
      BY <1>1, <3>1, SmallPart
    <3>7. QED
      BY <2>7, <3>5, <3>6
  <2>11. QED
    BY <2>7, <2>8, <2>9, <2>10
<1>5. step \in [Nat -> [V -> V]]
  <2>1. ASSUME NEW i \in Nat, NEW v \in V PROVE Next1(v, i) \in V
    <3>1. RoundedTo(Sum(v, Term(i)), (i + 1) - EpochScales) \in V
      BY <1>4
    <3> HIDE DEF Term, V
    <3>2. QED
      BY <1>3, <3>1
  <2> HIDE DEF Next1, V
  <2>2. QED
    BY <2>1
<1> HIDE DEF Term
<1>6. PICK f : Iterates(f, V, none, step)
  <2> HIDE DEF V, step
  <2> QED  BY <1>3, <1>5, PrimitiveRecursion
<1>7. f \in [Nat -> V] /\ f[0] = none /\ \A i \in Nat : f[i + 1] = Next1(f[i], i)
  <2> HIDE DEF Next1, V
  <2>1. f \in [Nat -> V] /\ f[0] = none /\ \A i \in Nat : f[i + 1] = step[i][f[i]]
    BY <1>6 DEF Iterates
  <2>2. \A i \in Nat : f[i] \in V
    BY <2>1
  <2>3. QED
    BY <2>1, <2>2
<1>8. f = Rec(f)
  <2>1. ASSUME NEW i \in Nat PROVE f[i] = Rec(f)[i]
    <3>1. CASE i = 0
      BY <1>1, <1>7, <3>1
    <3>2. CASE i # 0
      <4>1. PICK j \in Nat : i = j + 1
        <5>1. i - 1 \in Nat /\ i = (i - 1) + 1
          BY <3>2
        <5>2. QED
          BY <5>1
      <4>2. f[j + 1] = Next1(f[j], j)
        BY <1>7
      <4>3. (j + 1) - 1 = j /\ j + 1 \in Nat
        OBVIOUS
      <4>4. Rec(f)[j + 1] = IF j + 1 <= finest THEN none
                            ELSE RoundedTo(Sum(f[j], Term(j)), (j + 1) - EpochScales)
        BY <4>3, Zenon
      <4> HIDE DEF Rec
      <4>5. QED
        BY <4>1, <4>2, <4>4
    <3>3. QED
      BY <3>1, <3>2
  <2>2. f = [i \in Nat |-> f[i]] /\ Rec(f) = [i \in Nat |-> Rec(f)[i]]
    BY <1>7
  <2> HIDE DEF Rec
  <2>3. QED
    BY <2>1, <2>2
<1>9. h = Rec(h)
  <2> HIDE DEF Rec
  <2> QED  BY <1>8
<1>10. \A i \in Nat : h[i] = IF i <= finest THEN none
                             ELSE RoundedTo(Sum(h[i - 1], Term(i - 1)), i - EpochScales)
  <2>1. \A i \in Nat : Rec(h)[i] = IF i <= finest THEN none
                             ELSE RoundedTo(Sum(h[i - 1], Term(i - 1)), i - EpochScales)
    OBVIOUS
  <2>2. \A i \in Nat : h[i] = Rec(h)[i]
    BY <1>9
  <2> HIDE DEF Rec, h
  <2>3. QED
    BY <2>1, <2>2
<1> HIDE DEF h, Rec, step, Next1
<1> DEFINE Right(i) == h[i] \in V /\ (finest <= i => Ticks(h[i]) = small_part(t, r, i))
           S == {i \in Nat : Right(i)}
<1>11. ASSUME NEW i \in Nat, i <= finest PROVE Right(i)
  <2>1. h[i] = none
    BY <1>10, <1>11
  <2>2. ASSUME finest <= i PROVE small_part(t, r, i) = 0
    <3>1. i = finest
      BY <1>1, <1>11, <2>2
    <3>2. t % Tick(i) = 0 /\ r % Tick(i) = 0 /\ small_part(t, r, i) \in Int
      BY <1>1, <3>1, SmallPart
    <3>3. SmallSound(t, r, i)
      BY <1>1, SmallBounds
    <3>4. small_part(t, r, i) <= 0 /\ small_part(t, r, i) >= 0
      BY <3>2, <3>3 DEF SmallSound
    <3>5. QED
      BY <3>2, <3>4
  <2> HIDE DEF V
  <2>3. QED
    BY <1>3, <2>1, <2>2
<1>12. 0 \in S
  <2> HIDE DEF Right
  <2> QED  BY <1>1, <1>11
<1>13. ASSUME NEW i \in Nat, 0 <= i, i \in S PROVE i + 1 \in S
  <2>1. Right(i) /\ i + 1 \in Nat
    BY <1>13
  <2>2. CASE i + 1 <= finest
    <3> HIDE DEF Right
    <3> QED  BY <1>11, <2>1, <2>2
  <2>3. CASE ~(i + 1 <= finest)
    <3>1. finest <= i /\ (i + 1) - 1 = i
      BY <1>1, <2>3
    <3>2. h[i + 1] = RoundedTo(Sum(h[i], Term(i)), (i + 1) - EpochScales)
      <4>1. h[i + 1] = IF i + 1 <= finest THEN none
                       ELSE RoundedTo(Sum(h[(i + 1) - 1], Term((i + 1) - 1)), (i + 1) - EpochScales)
        BY <1>10, <2>1, Zenon
      <4>2. QED
        BY <2>3, <3>1, <4>1
    <3>3. h[i] \in V /\ Ticks(h[i]) = small_part(t, r, i)
      BY <2>1, <3>1
    <3> HIDE DEF V
    <3>4. h[i + 1] \in V /\ Ticks(h[i + 1]) = small_part(t, r, i + 1)
      BY <1>4, <3>2, <3>3
    <3>5. QED
      BY <2>1, <3>4
  <2>4. QED
    BY <2>2, <2>3
<1>14. \A i \in Nat : 0 <= i => i \in S
  <2> HIDE DEF S
  <2> QED  BY <1>12, <1>13, Upwards
<1>15. Right(s)
  BY <1>14
<1>16. QED
  BY <1>2, <1>15 DEF t, r, finest

\* Rounding is off by at most half a unit.
LEMMA RoundedOff ==
    ASSUME NEW n \in Int, NEW p \in Nat
    PROVE  /\ Rounded(n, p) \in Int /\ Rounded(n, p) * Tick(p) \in Int
           /\ 2 * Magnitude(Rounded(n, p) * Tick(p) - n) <= Tick(p)
<1> DEFINE T == Tick(p)
           M == Magnitude(n)
           u == 2 * M + T
           q == u \div (2 * T)
<1>1. T \in Nat \ {0} /\ M \in Nat /\ M = (IF n < 0 THEN -n ELSE n)
  BY TickPositive, MagnitudeIs DEF Magnitude
<1>2. Rounded(n, p) = IF n < 0 THEN -q ELSE q
  BY DEF Rounded, Signed
<1> HIDE DEF T, M
<1>3. u \in Int /\ 2 * T \in Nat \ {0}
  BY <1>1
<1>4. q \in Int /\ q * (2 * T) \in Int /\ q * (2 * T) <= u /\ u < q * (2 * T) + 2 * T
  <2> DEFINE k == 2 * T
  <2> HIDE DEF u, k
  <2>1. u \div k \in Int /\ (u \div k) * k \in Int /\ (u \div k) * k <= u /\ u < (u \div k) * k + k
    BY <1>3, Quotient DEF k
  <2>2. QED
    BY <2>1 DEF k
<1> HIDE DEF q
<1>5. q * (2 * T) = 2 * (q * T) /\ q * T \in Int /\ (-q) * T = -(q * T)
  BY <1>1, <1>4
<1> DEFINE e == q * T
<1>6. 2 * (e - M) <= T /\ 2 * (M - e) <= T /\ e \in Int
  BY <1>1, <1>4, <1>5
<1>7. Rounded(n, p) \in Int /\ Rounded(n, p) * T = IF n < 0 THEN -e ELSE e
  BY <1>2, <1>4, <1>5
<1> HIDE DEF e
<1>8. QED
  BY <1>1, <1>6, <1>7 DEF Magnitude, T

\* A start among the scales that do not hold n is as good as another.
LEMMA AutoscaledSame ==
    ASSUME NEW n \in Int, NEW p \in Nat, NEW o \in Nat, p <= o, o <= autoscaled(n, p).p
    PROVE  autoscaled(n, o) = autoscaled(n, p)
<1>1. PICK q \in Nat :
         /\ p <= q /\ Fits(n, q) /\ (q # p => ~Fits(n, q - 1))
         /\ autoscaled(n, p) = Duration(Rounded(n, q), q)
  BY AutoscaledIs
<1>2. PICK i \in Nat :
         /\ o <= i /\ Fits(n, i) /\ (i # o => ~Fits(n, i - 1))
         /\ autoscaled(n, o) = Duration(Rounded(n, i), i)
  BY AutoscaledIs
<1>3. o <= q
  BY <1>1 DEF Duration
<1>4. ASSUME i < q PROVE FALSE
  <2>1. q - 1 \in Nat /\ i <= q - 1 /\ q # p
    BY <1>2, <1>4
  <2>2. Fits(n, q - 1)
    BY <1>2, <2>1, FitsCoarser
  <2>3. QED
    BY <1>1, <2>1, <2>2
<1>5. ASSUME q < i PROVE FALSE
  <2>1. i - 1 \in Nat /\ q <= i - 1 /\ i # o
    BY <1>3, <1>5
  <2>2. Fits(n, i - 1)
    BY <1>1, <2>1, FitsCoarser
  <2>3. QED
    BY <1>2, <2>1, <2>2
<1>6. i = q
  BY <1>4, <1>5
<1>7. QED
  BY <1>1, <1>2, <1>6

\* What gap makes of the digits below the scale cut: a unit more or less, or
\* nothing.
RoundedDigits(x, y, cut) ==
    LET v == small_part(Value(x), Value(y), cut)
        half == (Base \div 2) * Tick(cut - 1)
    IN  IF cut > Finer(x.precision, y.precision) /\ v \in {half, -half}
        THEN IF Signed(v, 1) * Apart(Value(x), Value(y), cut) > 0 THEN Signed(v, 1) ELSE 0
        ELSE Rounded(v, cut)

\* Less than half a unit is nothing, and no more than one is at most one.
LEMMA RoundedSmall ==
    ASSUME NEW v \in Int, NEW p \in Nat, -Tick(p) <= v, v <= Tick(p)
    PROVE  /\ Rounded(v, p) \in {-1, 0, 1}
           /\ Rounded(v, p) = 1 <=> v > 0 /\ 2 * v >= Tick(p)
           /\ Rounded(v, p) = -1 <=> v < 0 /\ -2 * v >= Tick(p)
<1> DEFINE T == Tick(p)
           M == Magnitude(v)
<1>1. T \in Nat \ {0} /\ M \in Nat /\ M = (IF v < 0 THEN -v ELSE v)
  BY TickPositive, MagnitudeIs DEF Magnitude
<1>2. v = (IF v < 0 THEN -M ELSE M)
  BY <1>1
<1>3. CASE 2 * M < T
  <2>1. (2 * 0 - 1) * T <= 2 * M /\ 2 * M < (2 * 0 + 1) * T
    <3> HIDE DEF T, M
    <3> QED  BY <1>1, <1>3
  <2>2. Rounded(M, p) = 0 /\ Rounded(-M, p) = -0
    <3>1. 0 \in Nat
      OBVIOUS
    <3> HIDE DEF M
    <3>2. QED
      BY <1>1, <2>1, <3>1, RoundedNear
  <2> HIDE DEF M, T
  <2>3. Rounded(v, p) = 0
    BY <1>1, <1>2, <2>2
  <2>4. QED
    BY <1>1, <1>3, <2>3 DEF T
<1>4. CASE ~(2 * M < T)
  <2>1. (2 * 1 - 1) * T <= 2 * M /\ 2 * M < (2 * 1 + 1) * T
    <3>1. M <= T
      BY <1>1
    <3> HIDE DEF T, M
    <3>2. QED
      BY <1>1, <1>4, <3>1
  <2>2. Rounded(M, p) = 1 /\ Rounded(-M, p) = -1
    <3>1. 1 \in Nat
      OBVIOUS
    <3> HIDE DEF M
    <3>2. QED
      BY <1>1, <2>1, <3>1, RoundedNear
  <2> HIDE DEF M, T
  <2>3. Rounded(v, p) = IF v < 0 THEN -1 ELSE 1
    BY <1>1, <1>2, <2>2
  <2>4. QED
    BY <1>1, <1>4, <2>3 DEF T
<1>5. QED
  BY <1>3, <1>4

\* It goes the way of the digits it stands for.
LEMMA RoundedDigitsIs ==
    ASSUME NEW x \in Digital, Normal(x), NEW y \in Digital, Normal(y), NEW cut \in Nat,
           Finer(x.precision, y.precision) <= cut
    PROVE  /\ RoundedDigits(x, y, cut) \in {-1, 0, 1}
           /\ RoundedDigits(x, y, cut) = 1 => small_part(Value(x), Value(y), cut) > 0
           /\ RoundedDigits(x, y, cut) = -1 => small_part(Value(x), Value(y), cut) < 0
<1> DEFINE v == small_part(Value(x), Value(y), cut)
           half == (Base \div 2) * Tick(cut - 1)
           F == Finer(x.precision, y.precision)
           j == RoundedDigits(x, y, cut)
           A == Apart(Value(x), Value(y), cut)
<1>1. Value(x) \in Int /\ Value(y) \in Int /\ F \in Nat
  BY ValueIs DEF Finer
<1>2. v \in Int /\ -Tick(cut) <= v /\ v <= Tick(cut)
  <2>1. SmallSound(Value(x), Value(y), cut) /\ Tick(cut) \in Nat
    BY <1>1, SmallBounds, TickPositive
  <2>2. QED
    BY <2>1 DEF SmallSound
<1>3. j = IF cut > F /\ v \in {half, -half}
          THEN IF Signed(v, 1) * A > 0 THEN Signed(v, 1) ELSE 0
          ELSE Rounded(v, cut)
  BY DEF RoundedDigits
<1> HIDE DEF v, F, j, A
<1>4. CASE cut > F /\ v \in {half, -half}
  <2>1. cut - 1 \in Nat
    BY <1>1, <1>4
  <2>2. Base \div 2 \in Nat \ {0} /\ Tick(cut - 1) \in Nat \ {0}
    BY <2>1, BaseAssumption, TickPositive
  <2>3. half \in Nat /\ half > 0
    <3> DEFINE b == Base \div 2
               k == Tick(cut - 1)
    <3>1. b \in Nat \ {0} /\ k \in Nat \ {0}
      BY <2>2
    <3> HIDE DEF b, k
    <3>2. b * k \in Nat /\ b * k > 0
      BY <3>1
    <3>3. QED
      BY <3>2 DEF b, k
  <2> HIDE DEF half
  <2>4. v # 0 /\ Signed(v, 1) = IF v < 0 THEN -1 ELSE 1
    BY <1>4, <2>3 DEF Signed
  <2>5. j \in {0, Signed(v, 1)}
    BY <1>3, <1>4
  <2>6. QED
    BY <1>2, <2>4, <2>5 DEF j, v
<1>5. CASE ~(cut > F /\ v \in {half, -half})
  <2>1. j = Rounded(v, cut)
    BY <1>3, <1>5
  <2>2. /\ Rounded(v, cut) \in {-1, 0, 1}
        /\ Rounded(v, cut) = 1 => v > 0
        /\ Rounded(v, cut) = -1 => v < 0
    BY <1>2, RoundedSmall
  <2>3. QED
    BY <2>1, <2>2 DEF j, v
<1>6. QED
  BY <1>4, <1>5

\* time_point::gap: the digits from a scale cut on are as many as a duration
\* holds the difference of, the others add a unit or take one away.
LEMMA GapIs ==
    ASSUME NEW x \in Digital, Normal(x), NEW y \in Digital, Normal(y)
    PROVE  LET cut == Differences(x, y).scale + 1
           IN  Gap(x, y) =
                 autoscaled((Apart(Value(x), Value(y), cut) + RoundedDigits(x, y, cut)) * Tick(cut), cut)
<1> DEFINE t == Value(x)
           r == Value(y)
           F == Finer(x.precision, y.precision)
           sum == Differences(x, y)
           cut == sum.scale + 1
           big == sum.dt
           T == Tick(cut)
           A == Apart(t, r, cut)
           v == small_part(t, r, cut)
           small == SmallDifferences(x, y)[cut]
           half == (Base \div 2) * Tick(cut - 1)
           j == RoundedDigits(x, y, cut)
<1>1. F \in Nat /\ t \in Int /\ r \in Int
  BY ValueIs DEF Finer
<1>2. cut \in Nat /\ F <= cut /\ Summed(x, y, cut, big)
  <2>1. F \in Nat /\ cut \in F .. Coarser(Top(x), Top(y)) /\ Summed(x, y, cut, big)
    BY DifferencesIs
  <2> HIDE DEF F, cut
  <2>2. QED
    BY <2>1
<1>3. Gap(x, y) =
        IF cut > F /\ Ticks(small) \in {half, -half}
        THEN IF Signed(small.m, 1) * big.m > 0
             THEN Sum(big, Duration(Signed(small.m, 1), cut)) ELSE big
        ELSE Sum(big, RoundedTo(small, cut))
  BY Zenon DEF Gap
<1> HIDE DEF cut, F, t, r
<1>4. small \in [m : Int, p : Nat] /\ Ticks(small) = v
  BY <1>2, SmallDifferencesIs DEF t, r, F
<1>5. /\ big \in [m : Int, p : Nat] /\ cut <= big.p /\ Ticks(big) = A * T
      /\ big = autoscaled(A * T, cut)
  BY <1>2 DEF Summed, Holds, AboveTicks, t, r
<1>6. T \in Nat \ {0} /\ v \in Int /\ A \in Int /\ -T <= v /\ v <= T /\ A * T \in Int
  <2>1. SmallSound(t, r, cut) /\ T \in Nat \ {0} /\ v \in Int
    BY <1>1, <1>2, SmallBounds, SmallPart, TickPositive
  <2>2. A \in Int /\ A * T \in Int
    BY <1>1, <1>2, AboveNear
  <2>3. QED
    BY <2>1, <2>2 DEF SmallSound
<1>7. j = IF cut > F /\ v \in {half, -half}
          THEN IF Signed(v, 1) * A > 0 THEN Signed(v, 1) ELSE 0
          ELSE Rounded(v, cut)
  BY DEF RoundedDigits, t, r, F
<1>8. Signed(small.m, 1) = Signed(v, 1) /\ (big.m > 0 <=> A > 0) /\ (big.m < 0 <=> A < 0)
  <2>1. ASSUME NEW m \in Int, NEW k \in Nat \ {0}
        PROVE  (m * k > 0 <=> m > 0) /\ (m * k < 0 <=> m < 0)
    <3>1. m > 0 => m * k > 0
      BY <2>1
    <3>2. m < 0 => m * k < 0
      BY <2>1
    <3>3. m = 0 => m * k = 0
      BY <2>1
    <3>4. QED
      BY <2>1, <3>1, <3>2, <3>3
  <2>2. small.m \in Int /\ small.p \in Nat /\ Tick(small.p) \in Nat \ {0} /\ v = small.m * Tick(small.p)
    BY <1>4, TickPositive DEF Ticks
  <2>3. big.m \in Int /\ big.p \in Nat /\ Tick(big.p) \in Nat \ {0} /\ A * T = big.m * Tick(big.p)
    BY <1>5, TickPositive DEF Ticks
  <2> HIDE DEF small, big, T, A, v
  <2>4. v < 0 <=> small.m < 0
    BY <2>1, <2>2
  <2>5. (A * T > 0 <=> big.m > 0) /\ (A * T < 0 <=> big.m < 0)
    BY <2>1, <2>3
  <2>6. (A * T > 0 <=> A > 0) /\ (A * T < 0 <=> A < 0)
    BY <1>6, <2>1
  <2>7. QED
    BY <2>4, <2>5, <2>6 DEF Signed
<1> HIDE DEF small, big, T, A, v, half, j
<1>9. CASE cut > F /\ v \in {half, -half}
  <2>1. Signed(v, 1) \in {-1, 1} /\ Signed(v, 1) \in Int
    BY DEF Signed
  <2>2. Signed(small.m, 1) * big.m > 0 <=> Signed(v, 1) * A > 0
    BY <1>4, <1>5, <1>6, <1>8, <2>1
  <2>3. CASE Signed(v, 1) * A > 0
    <3>1. Gap(x, y) = Sum(big, Duration(Signed(v, 1), cut)) /\ j = Signed(v, 1)
      BY <1>3, <1>4, <1>7, <1>8, <1>9, <2>2, <2>3
    <3>2. Sum(big, Duration(Signed(v, 1), cut)) = autoscaled(Ticks(big) + Signed(v, 1) * T, Finer(big.p, cut))
      BY DEF Sum, Duration, Ticks, T
    <3>3. Finer(big.p, cut) = cut
      BY <1>2, <1>5 DEF Finer
    <3>4. Ticks(big) + Signed(v, 1) * T = (A + j) * T
      BY <1>5, <1>6, <2>1, <3>1
    <3>5. QED
      BY <3>1, <3>2, <3>3, <3>4 DEF T, A, j, cut, t, r
  <2>4. CASE ~(Signed(v, 1) * A > 0)
    <3>1. Gap(x, y) = big /\ j = 0
      BY <1>3, <1>4, <1>7, <1>9, <2>2, <2>4
    <3>2. (A + j) * T = A * T
      BY <1>6, <3>1
    <3>3. QED
      BY <1>5, <3>1, <3>2 DEF T, A, j, cut, t, r
  <2>5. QED
    BY <2>3, <2>4
<1>10. CASE ~(cut > F /\ v \in {half, -half})
  <2>1. Gap(x, y) = Sum(big, RoundedTo(small, cut)) /\ j = Rounded(v, cut)
    BY <1>3, <1>4, <1>7, <1>10
  <2>2. CASE cut < small.p
    <3>1. RoundedTo(small, cut) = small
      BY <2>2 DEF RoundedTo
    <3>2. v = 0
      <4> DEFINE k == Tick(small.p)
      <4>1. v % k = 0 /\ k \in Nat \ {0}
        BY <1>4, TicksMultiple, TickPositive
      <4>2. T < k
        <5>1. cut + 1 \in Nat /\ cut + 1 <= small.p /\ small.p \in Nat
          BY <1>2, <1>4, <2>2
        <5>2. Tick(cut + 1) <= k /\ Tick(cut + 1) = Base * T
          BY <1>2, <5>1, TickOrder, TickNext DEF T
        <5>3. Base \in Nat /\ Base >= 2
          BY BaseAssumption
        <5> HIDE DEF k
        <5>4. 2 * T <= Base * T
          BY <1>6, <5>3
        <5>5. QED
          BY <1>6, <4>1, <5>2, <5>3, <5>4
      <4>3. Magnitude(v) < k
        <5> HIDE DEF k
        <5> QED  BY <1>6, <4>1, <4>2 DEF Magnitude
      <4>4. QED
        BY <1>4, <1>6, <4>1, <4>3, ShorterThanTick
    <3>3. j = 0
      <4>1. -Tick(cut) <= v /\ v <= Tick(cut)
        BY <1>6 DEF T
      <4>2. /\ Rounded(v, cut) \in {-1, 0, 1}
            /\ Rounded(v, cut) = 1 => v > 0
            /\ Rounded(v, cut) = -1 => v < 0
        BY <1>2, <1>6, <4>1, RoundedSmall
      <4>3. QED
        BY <2>1, <3>2, <4>2
    <3> DEFINE o == Finer(big.p, small.p)
    <3>4. o \in Nat /\ cut <= o /\ o <= big.p
      BY <1>2, <1>4, <1>5, <2>2 DEF Finer
    <3>5. Gap(x, y) = autoscaled(A * T, o)
      <4>1. Sum(big, small) = autoscaled(Ticks(big) + Ticks(small), o)
        BY DEF Sum
      <4>2. Ticks(big) + Ticks(small) = A * T
        BY <1>4, <1>5, <1>6, <3>2
      <4>3. QED
        BY <2>1, <3>1, <4>1, <4>2
    <3> HIDE DEF o
    <3>6. autoscaled(A * T, o) = autoscaled(A * T, cut)
      <4> DEFINE n == A * T
      <4>1. n \in Int /\ o <= autoscaled(n, cut).p
        BY <1>5, <1>6, <3>4
      <4> HIDE DEF n
      <4>2. autoscaled(n, o) = autoscaled(n, cut)
        BY <1>2, <3>4, <4>1, AutoscaledSame
      <4>3. QED
        BY <4>2 DEF n
    <3>7. (A + j) * T = A * T
      BY <1>6, <3>3
    <3>8. QED
      BY <3>5, <3>6, <3>7 DEF T, A, j, cut, t, r
  <2>3. CASE ~(cut < small.p)
    <3>1. RoundedTo(small, cut) = Duration(j, cut)
      BY <1>4, <2>1, <2>3 DEF RoundedTo
    <3>2. j \in Int
      <4>1. -Tick(cut) <= v /\ v <= Tick(cut)
        BY <1>6 DEF T
      <4>2. Rounded(v, cut) \in {-1, 0, 1}
        BY <1>2, <1>6, <4>1, RoundedSmall
      <4>3. QED
        BY <2>1, <4>2
    <3>3. Sum(big, Duration(j, cut)) = autoscaled(Ticks(big) + j * T, Finer(big.p, cut))
      BY DEF Sum, Duration, Ticks, T
    <3>4. Finer(big.p, cut) = cut
      BY <1>2, <1>5 DEF Finer
    <3>5. Ticks(big) + j * T = (A + j) * T
      BY <1>5, <1>6, <3>2
    <3>6. QED
      BY <2>1, <3>1, <3>3, <3>4, <3>5 DEF T, A, j, cut, t, r
  <2>4. QED
    BY <2>2, <2>3
<1>11. QED
  BY <1>9, <1>10

\* The digits that are cut off make less than a unit, and so does what is added
\* for them: together they are less than a unit away, too.
LEMMA GapUnits ==
    ASSUME NEW x \in Digital, Normal(x), NEW y \in Digital, Normal(y), NEW cut \in Nat,
           Finer(x.precision, y.precision) <= cut
    PROVE  LET a == Apart(Value(x), Value(y), cut) + RoundedDigits(x, y, cut)
           IN  /\ a \in Int /\ a * Tick(cut) \in Int
               /\ Magnitude(a * Tick(cut) - (Value(x) - Value(y))) < Tick(cut)
<1> DEFINE t == Value(x)
           r == Value(y)
           T == Tick(cut)
           A == Apart(t, r, cut)
           v == small_part(t, r, cut)
           j == RoundedDigits(x, y, cut)
           c == t % T
           d == r % T
           f == t \div T
           g == r \div T
<1>1. t \in Int /\ r \in Int /\ T \in Nat \ {0}
  BY ValueIs, TickPositive
<1>2. j \in {-1, 0, 1} /\ (j = 1 => v > 0) /\ (j = -1 => v < 0)
  BY RoundedDigitsIs
<1> HIDE DEF t, r, j
<1>3. v \in Int /\ (c <= d => v <= 0) /\ (d <= c => v >= 0)
  <2>1. SmallSound(t, r, cut) /\ v \in Int
    BY <1>1, SmallBounds, SmallPart
  <2>2. QED
    BY <2>1, Zenon DEF SmallSound
<1>4. /\ c \in 0 .. T - 1 /\ d \in 0 .. T - 1 /\ f \in Int /\ g \in Int
      /\ t = f * T + c /\ r = g * T + d /\ A = f - g
  <2>1. A = f - g
    BY DEF Apart
  <2> HIDE DEF T, A
  <2>2. QED
    BY <1>1, <2>1, Quotient
<1> HIDE DEF T, A, v, c, d, f, g
<1>5. (A + j) * T = (f * T - g * T) + j * T /\ f * T \in Int /\ g * T \in Int /\ j \in Int
  BY <1>1, <1>2, <1>4
<1>6. j * T = IF j = 1 THEN T ELSE IF j = -1 THEN -T ELSE 0
  BY <1>1, <1>2
<1>7. (A + j) * T - (t - r) = j * T - (c - d)
  BY <1>1, <1>2, <1>4, <1>5, <1>6
<1>8. Magnitude(j * T - (c - d)) < T
  BY <1>1, <1>2, <1>3, <1>4, <1>6 DEF Magnitude
<1>9. A + j \in Int /\ (A + j) * T \in Int
  BY <1>1, <1>2, <1>4, <1>5, <1>6
<1>10. QED
  BY <1>7, <1>8, <1>9 DEF A, j, T, t, r

\* time_point::gap, "within one precision of the returned duration".
LEMMA GapNear ==
    ASSUME NEW x \in Digital, Normal(x), NEW y \in Digital, Normal(y)
    PROVE  LET dt == Gap(x, y)
           IN  Magnitude(Ticks(dt) - (Value(x) - Value(y))) <= Tick(dt.p)
<1> DEFINE n == Value(x) - Value(y)
           cut == Differences(x, y).scale + 1
           a == Apart(Value(x), Value(y), cut) + RoundedDigits(x, y, cut)
           u == a * Tick(cut)
<1>1. cut \in Nat /\ Finer(x.precision, y.precision) <= cut
  <2> DEFINE F == Finer(x.precision, y.precision)
  <2>1. F \in Nat /\ cut \in F .. Coarser(Top(x), Top(y))
    BY DifferencesIs
  <2> HIDE DEF F, cut
  <2>2. QED
    BY <2>1 DEF F
<1>2. Gap(x, y) = autoscaled(u, cut)
  BY GapIs
<1> HIDE DEF cut
<1>3. a \in Int /\ u \in Int /\ Magnitude(u - n) < Tick(cut)
  BY <1>1, GapUnits
<1>4. n \in Int
  BY ValueIs
<1> HIDE DEF n, a
<1>5. PICK q \in Nat :
         /\ cut <= q /\ Fits(u, q) /\ (q # cut => ~Fits(u, q - 1))
         /\ Rounded(u, q) \in Int
         /\ autoscaled(u, cut) = Duration(Rounded(u, q), q)
  <2> HIDE DEF u
  <2> QED  BY <1>1, <1>3, AutoscaledIs
<1> DEFINE w == Rounded(u, q) * Tick(q)
<1>6. Ticks(Gap(x, y)) = w /\ Gap(x, y).p = q
  BY <1>2, <1>5 DEF Ticks, Duration
<1>7. w \in Int /\ 2 * Magnitude(w - u) <= Tick(q)
  <2> HIDE DEF u
  <2> QED  BY <1>3, <1>5, RoundedOff
<1>8. Tick(q) \in Nat \ {0} /\ Tick(cut) \in Nat \ {0}
  BY <1>1, <1>5, TickPositive
<1>9. CASE q = cut
  <2>1. u % Tick(cut) = 0 /\ u \div Tick(cut) = a
    <3> DEFINE k == Tick(cut)
    <3> HIDE DEF k
    <3>1. k \in Nat \ {0} /\ u = a * k
      BY <1>8 DEF k
    <3> HIDE DEF u
    <3>2. (a * k) % k = 0 /\ (a * k) \div k = a
      BY <1>3, <3>1, QuotientOfMultiple
    <3>3. QED
      BY <3>1, <3>2 DEF k
  <2>2. Rounded(u, cut) = a
    <3> HIDE DEF u
    <3> QED  BY <1>1, <1>3, <2>1, MultipleIs
  <2>3. w = u
    BY <1>9, <2>2
  <2> HIDE DEF u, w
  <2>4. Magnitude(w - n) <= Tick(q)
    <3>1. Magnitude(u - n) \in Nat
      BY <1>3, <1>4, MagnitudeIs
    <3>2. QED
      BY <1>3, <1>8, <1>9, <2>3, <3>1
  <2>5. QED
    BY <1>6, <2>4 DEF n
<1>10. CASE q # cut
  <2>1. 2 * Tick(cut) <= Tick(q)
    <3>1. cut + 1 \in Nat /\ cut + 1 <= q
      BY <1>1, <1>5, <1>10
    <3>2. Tick(cut + 1) <= Tick(q) /\ Tick(cut + 1) = Base * Tick(cut)
      BY <1>1, <1>5, <3>1, TickOrder, TickNext
    <3>3. Base \in Nat /\ Base >= 2
      BY BaseAssumption
    <3> DEFINE k == Tick(cut)
    <3>4. k \in Nat \ {0}
      BY <1>8
    <3> HIDE DEF k
    <3>5. 2 * k <= Base * k
      BY <3>3, <3>4
    <3>6. QED
      BY <1>8, <3>2, <3>3, <3>4, <3>5 DEF k
  <2> HIDE DEF u, w
  <2>2. Magnitude(w - n) <= Tick(q)
    BY <1>3, <1>4, <1>7, <1>8, <2>1 DEF Magnitude
  <2>3. QED
    BY <1>6, <2>2 DEF n
<1>11. QED
  BY <1>9, <1>10

\* And the gap is at most a unit off.
LEMMA GapsNear == PointTypeOK => GapWithinOnePrecision
<1> SUFFICES ASSUME PointTypeOK, NEW i \in Names, NEW k \in Names
             PROVE  LET dt == Gap(tp[i], tp[k])
                    IN  Magnitude(Ticks(dt) - (Value(tp[i]) - Value(tp[k]))) <= Tick(dt.p)
  BY DEF GapWithinOnePrecision
<1>1. tp[i] \in Digital /\ Normal(tp[i]) /\ tp[k] \in Digital /\ Normal(tp[k])
  BY DEF PointTypeOK
<1> DEFINE x == tp[i]
           y == tp[k]
<1> HIDE DEF x, y
<1>2. LET dt == Gap(x, y)
      IN  Magnitude(Ticks(dt) - (Value(x) - Value(y))) <= Tick(dt.p)
  BY <1>1, GapNear DEF x, y
<1>3. QED
  BY <1>2 DEF x, y

-----------------------------------------------------------------------------
(* Where the digits are cut is where the numbers are, for an even base      *)

\* What is read off a time point of the number it denotes: where its digits
\* begin and end.
LEMMA DigitsOfValue ==
    ASSUME NEW x \in Digital, Normal(x)
    PROVE  precision(Value(x)) = x.precision /\ scale_above(Value(x)) = Top(x)
<1> DEFINE t == Value(x)
           p == x.precision
           a == Amount(x)
<1>1. /\ p \in Nat /\ Top(x) \in Nat /\ p <= Top(x) /\ x.sign \in {1, -1} /\ t \in Int
      /\ t % Tick(p) = 0 /\ Magnitude(t) < Tick(Top(x))
  BY ValueIs
<1>2. nscales(x) \in Nat /\ Top(x) = p + nscales(x) /\ x \in Written
  BY DigitalIs, DigitAtType
<1>3. CASE nscales(x) = 0
  <2>1. x = Zero
    <3>1. x.digits = <<>>
      BY <1>3 DEF Digital, nscales
    <3>2. QED
      BY <3>1 DEF Normal
  <2>2. Value(x) = 0
    BY <2>1, ZeroIs
  <2>3. x.precision = Unit /\ Top(x) = Unit
    BY <2>1, UnitAssumption, MaxScaleAssumption DEF Zero, Top, nscales
  <2>4. QED
    BY <2>2, <2>3 DEF precision, scale_above
<1>4. CASE nscales(x) # 0
  <2>1. p \in Nat /\ Top(x) - 1 \in Nat /\ p <= Top(x) - 1 /\ (Top(x) - 1) + 1 = Top(x)
    BY <1>1, <1>2, <1>4
  <2>2. DigitAt(x, p) # 0 /\ DigitAt(x, Top(x) - 1) # 0
    <3>1. x.digits # <<>>
      BY <1>4 DEF nscales
    <3>2. x.digits[1] # 0 /\ x.digits[nscales(x)] # 0
      BY <3>1 DEF Normal
    <3>3. p <= p /\ p < Top(x) /\ p - x.precision + 1 = 1
      BY <1>1, <2>1
    <3>4. p <= Top(x) - 1 /\ Top(x) - 1 < Top(x) /\ (Top(x) - 1) - x.precision + 1 = nscales(x)
      BY <1>2, <2>1
    <3>5. QED
      BY <3>2, <3>3, <3>4 DEF DigitAt
  <2>3. \A s \in Nat : /\ DigitAt(x, s) = scale_phase(a, s) /\ DigitAt(x, s) \in 0 .. Base - 1
                       /\ a \in Nat
    <3>1. ASSUME NEW s \in Nat
          PROVE  DigitAt(x, s) = scale_phase(a, s) /\ DigitAt(x, s) \in 0 .. Base - 1 /\ a \in Nat
      <4>1. s \in Int
        OBVIOUS
      <4>2. QED
        BY <4>1, DigitIs, DigitalIs
    <3>2. QED
      BY <3>1
  <2>4. t = x.sign * a /\ a \in Nat /\ Magnitude(t) = a
    <3>1. t = x.sign * a
      BY DEF Value, Amount
    <3>2. a \in Nat
      BY <2>1, <2>3
    <3> HIDE DEF t, a
    <3>3. QED
      BY <1>1, <3>1, <3>2 DEF Magnitude
  <2> HIDE DEF t, a, p
  <2>5. Base \in Nat /\ Base >= 2
    BY BaseAssumption
  <2>6. ASSUME t % Tick(p + 1) = 0 PROVE FALSE
    <3>1. a % Tick(p + 1) = 0
      <4> DEFINE k == Tick(p + 1)
                 i == t \div k
      <4>1. k \in Nat \ {0}
        BY <2>1, TickPositive
      <4> HIDE DEF k
      <4>2. i \in Int /\ i * k \in Int /\ t = i * k
        <5>1. t = (t \div k) * k + (t % k) /\ t \div k \in Int /\ (t \div k) * k \in Int /\ t % k = 0
          BY <1>1, <2>6, <4>1, Quotient DEF k
        <5> HIDE DEF i
        <5>2. QED
          BY <5>1 DEF i
      <4> HIDE DEF i
      <4>3. a = i * k \/ a = (-i) * k
        BY <1>1, <2>4, <4>1, <4>2
      <4>4. (i * k) % k = 0 /\ ((-i) * k) % k = 0
        BY <4>1, <4>2, QuotientOfMultiple
      <4>5. QED
        BY <4>3, <4>4 DEF k
    <3> DEFINE k == Tick(p)
               i == a \div Tick(p + 1)
    <3>2. Tick(p + 1) = Base * k /\ k \in Nat \ {0} /\ Tick(p + 1) \in Nat \ {0}
      BY <2>1, TickNext, TickPositive
    <3>3. i \in Int /\ a = i * (Base * k)
      <4> DEFINE l == Tick(p + 1)
      <4>1. a = (a \div l) * l + (a % l) /\ a \div l \in Int /\ (a \div l) * l \in Int
        <5>1. l \in Nat \ {0} /\ a \in Int
          BY <2>4, <3>2
        <5> HIDE DEF l
        <5>2. QED
          BY <5>1, Quotient
      <4>2. QED
        BY <3>1, <3>2, <4>1
    <3> HIDE DEF k, i
    <3>4. a = (i * Base) * k /\ i * Base \in Int
      BY <2>5, <3>2, <3>3
    <3>5. a \div k = i * Base
      <4> DEFINE e == i * Base
      <4> HIDE DEF e
      <4>1. e \in Int /\ a = e * k
        BY <3>4 DEF e
      <4>2. (e * k) \div k = e
        BY <3>2, <4>1, QuotientOfMultiple
      <4>3. QED
        BY <4>1, <4>2 DEF e
    <3>6. (i * Base) % Base = 0
      <4>1. Base \in Nat \ {0}
        BY <2>5
      <4>2. QED
        BY <3>3, <4>1, QuotientOfMultiple
    <3>7. scale_phase(a, p) = 0
      BY <3>5, <3>6 DEF scale_phase, k
    <3>8. QED
      BY <2>1, <2>2, <2>3, <3>7
  <2>7. t # 0 /\ precision(t) = p
    <3>1. t # 0
      <4>1. ASSUME t = 0 PROVE FALSE
        <5> DEFINE k == Tick(p + 1)
        <5>1. k \in Nat \ {0}
          BY <2>1, TickPositive
        <5> HIDE DEF k
        <5>2. (0 * k) % k = 0 /\ 0 * k = 0
          BY <5>1, QuotientOfMultiple
        <5>3. QED
          BY <2>6, <4>1, <5>2 DEF k
      <4>2. QED
        BY <4>1
    <3>2. precision(t) \in Nat /\ \A s \in Nat : t % Tick(s) = 0 <=> s <= precision(t)
      BY <1>1, <3>1, PrecisionIs
    <3>3. p <= precision(t)
      BY <1>1, <2>1, <3>2 DEF p
    <3>4. p + 1 \in Nat /\ ~(p + 1 <= precision(t))
      BY <2>1, <2>6, <3>2
    <3>5. QED
      BY <2>1, <3>1, <3>2, <3>3, <3>4
  <2> DEFINE top == Top(x)
             l == Tick(top - 1)
  <2>8. l \in Nat \ {0} /\ l <= a
    <3>1. l \in Nat \ {0}
      BY <2>1, TickPositive
    <3>2. SUFFICES ASSUME a < l PROVE FALSE
      BY <2>4, <3>1
    <3>3. scale_phase(a, top - 1) # 0
      BY <2>1, <2>2, <2>3
    <3>4. a \div l = 0
      <4>1. Magnitude(a) = a
        BY <2>4 DEF Magnitude
      <4>2. a \div Tick(top - 1) = 0
        BY <2>1, <2>4, <3>2, <4>1, ShorterThanTick
      <4>3. QED
        BY <4>2
    <3>5. 0 % Base = 0
      BY <2>5
    <3>6. QED
      BY <3>3, <3>4, <3>5 DEF scale_phase
  <2>9. top \in 1 .. Magnitude(t) /\ Tick(top - 1) <= Magnitude(t) /\ Magnitude(t) < Tick(top)
    <3>1. top - 1 < l
      BY <2>1, TickGrows
    <3> HIDE DEF top, l
    <3>2. top \in 1 .. a
      BY <2>1, <2>4, <2>8, <3>1 DEF top
    <3>3. QED
      BY <1>1, <2>4, <2>8, <3>2 DEF l, top
  <2>10. ASSUME NEW s \in 1 .. Magnitude(t), Tick(s - 1) <= Magnitude(t), Magnitude(t) < Tick(s)
         PROVE  s = top
    <3>1. s \in Nat /\ s - 1 \in Nat /\ top \in Nat /\ top - 1 \in Nat
      BY <1>1, <2>1, <2>4
    <3> HIDE DEF top
    <3>2. ASSUME s < top PROVE FALSE
      <4>1. s <= top - 1
        BY <3>1, <3>2
      <4>2. Tick(s) <= Tick(top - 1)
        BY <3>1, <4>1, TickOrder
      <4>3. Tick(s) \in Nat /\ Tick(top - 1) \in Nat
        BY <3>1, TickPositive
      <4>4. QED
        BY <2>4, <2>9, <2>10, <4>2, <4>3
    <3>3. ASSUME top < s PROVE FALSE
      <4>1. top <= s - 1
        BY <3>1, <3>3
      <4>2. Tick(top) <= Tick(s - 1)
        BY <3>1, <4>1, TickOrder
      <4>3. Tick(top) \in Nat /\ Tick(s - 1) \in Nat
        BY <3>1, TickPositive
      <4>4. QED
        BY <2>4, <2>9, <2>10, <4>2, <4>3
    <3>4. QED
      BY <3>1, <3>2, <3>3
  <2>11. scale_above(t) = top
    <3> DEFINE Q(s) == Tick(s - 1) <= Magnitude(t) /\ Magnitude(t) < Tick(s)
               S == 1 .. Magnitude(t)
    <3>1. scale_above(t) = CHOOSE s \in S : Q(s)
      BY <2>7 DEF scale_above
    <3>2. top \in S /\ Q(top) /\ \A s \in S : Q(s) => s = top
      BY <2>9, <2>10
    <3> HIDE DEF S, Q, top
    <3>3. QED
      BY <3>1, <3>2
  <2>12. QED
    BY <2>7, <2>11 DEF t, p
<1>5. QED
  BY <1>3, <1>4

\* The digits from the scale s on do not reach further than one scale above the
\* coarsest.
LEMMA ApartBelow ==
    ASSUME NEW t \in Int, NEW r \in Int, NEW c \in Nat, NEW s \in Nat, s <= c,
           Magnitude(t) < Tick(c), Magnitude(r) < Tick(c)
    PROVE  Apart(t, r, s) < Tick(c - s + 1)
<1> DEFINE T == Tick(s)
           K == Tick(c - s)
           f == t \div T
           g == r \div T
<1>1. c - s \in Nat /\ T \in Nat \ {0} /\ K \in Nat \ {0} /\ Tick(c) = T * K /\ Tick((c - s) + 1) = Base * K
  <2>1. c - s \in Nat /\ Tick(c) = T * K
    BY TickOrder
  <2> DEFINE i == c - s
  <2>2. i \in Nat
    BY <2>1
  <2> HIDE DEF i
  <2>3. Tick(i) \in Nat \ {0} /\ Tick(i + 1) = Base * Tick(i) /\ T \in Nat \ {0}
    BY <2>2, TickPositive, TickNext
  <2>4. QED
    BY <2>1, <2>3 DEF i
<1>2. Apart(t, r, s) = f - g
  BY DEF Apart
<1>3. f \in Int /\ g \in Int /\ f * T <= t /\ r < g * T + T /\ g * T \in Int /\ f * T \in Int
  <2> HIDE DEF T
  <2> QED  BY <1>1, Quotient
<1>4. t < T * K /\ -(T * K) < r /\ T * K \in Int
  <2>1. Magnitude(t) < T * K /\ Magnitude(r) < T * K
    BY <1>1
  <2>2. T * K \in Int /\ t <= Magnitude(t) /\ -Magnitude(r) <= r /\ Magnitude(t) \in Nat /\ Magnitude(r) \in Nat
    BY <1>1, MagnitudeIs
  <2> HIDE DEF T, K
  <2>3. QED
    BY <2>1, <2>2
<1> HIDE DEF T, K, f, g
<1>5. f < K
  <2>1. SUFFICES ASSUME f >= K PROVE FALSE
    BY <1>1, <1>3
  <2>2. f * T >= K * T /\ K * T = T * K
    BY <1>1, <1>3, <2>1
  <2>3. QED
    BY <1>1, <1>3, <1>4, <2>2
<1>6. -K <= g
  <2>1. SUFFICES ASSUME g + 1 <= -K PROVE FALSE
    BY <1>1, <1>3
  <2>2. (g + 1) * T <= (-K) * T /\ (-K) * T = -(T * K) /\ (g + 1) * T = g * T + T
    BY <1>1, <1>3, <2>1
  <2>3. QED
    BY <1>1, <1>3, <1>4, <2>2
<1>7. 2 * K <= Base * K /\ Base * K \in Int
  <2>1. Base \in Nat /\ Base >= 2
    BY BaseAssumption
  <2>2. QED
    BY <1>1, <2>1
<1>8. f - g < Base * K
  BY <1>1, <1>3, <1>5, <1>6, <1>7
<1>9. Apart(t, r, s) < Tick((c - s) + 1)
  BY <1>1, <1>2, <1>8
<1>10. QED
  BY <1>9

\* Whether a duration holds the digits is asked in the same way of both.
LEMMA HeldIs ==
    ASSUME NEW x \in Digital, Normal(x), NEW y \in Digital, Normal(y), Value(y) < Value(x),
           NEW s \in Nat, s <= Coarser(Top(x), Top(y))
    PROVE  LET above == Apart(Value(x), Value(y), s)
           IN  (\E k \in 0 .. Coarser(Top(x), Top(y)) - s :
                   above % Tick(k) = 0 /\ above \div Tick(k) < quantity_limit) <=> HeldAbove(x, y, s)
<1> DEFINE t == Value(x)
           r == Value(y)
           c == Coarser(Top(x), Top(y))
           A == Apart(t, r, s)
           T == Tick(s)
           L == quantity_limit
           N == A * T
<1>1. t \in Int /\ r \in Int /\ c \in Nat /\ Magnitude(t) < Tick(c) /\ Magnitude(r) < Tick(c)
  <2>1. /\ t \in Int /\ r \in Int /\ Top(x) \in Nat /\ Top(y) \in Nat
        /\ Magnitude(t) < Tick(Top(x)) /\ Magnitude(r) < Tick(Top(y))
    BY ValueIs
  <2>2. c \in Nat /\ Top(x) <= c /\ Top(y) <= c
    BY <2>1 DEF Coarser
  <2> HIDE DEF c, t, r
  <2>3. Tick(Top(x)) <= Tick(c) /\ Tick(Top(y)) <= Tick(c) /\ Tick(Top(x)) \in Nat /\ Tick(Top(y)) \in Nat
        /\ Tick(c) \in Nat /\ Magnitude(t) \in Nat /\ Magnitude(r) \in Nat
    BY <2>1, <2>2, TickOrder, TickPositive, MagnitudeIs
  <2>4. QED
    BY <2>1, <2>2, <2>3
<1>2. r <= t /\ s <= c
  BY <1>1
<1>3. HeldAbove(x, y, s) <=> HeldFrom(N, s)
  BY DEF HeldAbove, AboveTicks
<1> HIDE DEF t, r, c
<1>4. A \in Nat
  BY <1>1, <1>2, ApartLater
<1>5. A < Tick((c - s) + 1)
  <2>1. A < Tick(c - s + 1)
    BY <1>1, <1>2, ApartBelow
  <2>2. QED
    BY <2>1
<1>6. T \in Nat \ {0} /\ L \in Nat \ {0}
  BY TickPositive, LimitPhases
<1>7. N \in Nat /\ Magnitude(N) = N
  <2>1. N \in Nat
    <3> HIDE DEF A, T
    <3> QED  BY <1>4, <1>6
  <2> HIDE DEF N
  <2>2. QED
    BY <2>1 DEF Magnitude
<1> HIDE DEF A
<1>8. ASSUME NEW k \in 0 .. c - s, A % Tick(k) = 0, A \div Tick(k) < L
      PROVE  HeldFrom(N, s)
  <2> DEFINE K == Tick(k)
             q == s + k
             m == A \div K
  <2>1. k \in Nat /\ q \in Nat /\ s <= q /\ Tick(q) = T * K /\ K \in Nat \ {0}
    <3>1. k \in Nat
      BY <1>1, <1>8
    <3>2. QED
      BY <3>1, TickSum, TickPositive
  <2>2. m \in Int /\ A = m * K /\ m < L
    <3>1. m \in Int /\ A = m * K
      BY <1>4, <1>8, <2>1, MultipleIs
    <3>2. QED
      BY <1>8, <3>1
  <2> HIDE DEF m, K, T, L, q
  <2>3. N = m * Tick(q) /\ Tick(q) \in Nat \ {0}
    <3>1. (m * K) * T = m * (T * K) /\ T * K \in Nat \ {0}
      BY <1>6, <2>1, <2>2
    <3>2. QED
      BY <2>1, <2>2, <3>1
  <2>4. N % Tick(q) = 0 /\ N \div Tick(q) = m
    <3> DEFINE e == Tick(q)
    <3>1. e \in Nat \ {0}
      BY <2>3
    <3> HIDE DEF e
    <3>2. (m * e) % e = 0 /\ (m * e) \div e = m
      BY <2>2, <3>1, QuotientOfMultiple
    <3>3. QED
      BY <2>3, <3>2 DEF e
  <2>5. N < L * Tick(q)
    <3> DEFINE e == Tick(q)
    <3>1. e \in Nat \ {0}
      BY <2>3
    <3> HIDE DEF e
    <3>2. m * e < L * e
      BY <1>6, <2>2, <3>1
    <3>3. QED
      BY <2>3, <3>2 DEF e
  <2> HIDE DEF N
  <2>6. QED
    BY <1>7, <2>1, <2>4, <2>5 DEF HeldFrom, L
<1>9. ASSUME NEW q \in Nat, s <= q, N % Tick(q) = 0, Magnitude(N) < quantity_limit * Tick(q)
      PROVE  \E k \in 0 .. c - s : A % Tick(k) = 0 /\ A \div Tick(k) < L
  <2>1. CASE A = 0
    <3>1. 0 \in 0 .. c - s
      BY <1>1, <1>2
    <3>2. A % Tick(0) = 0 /\ A \div Tick(0) = 0
      <4>1. 0 % 1 = 0 /\ 0 \div 1 = 0
        OBVIOUS
      <4>2. QED
        BY <2>1, <4>1, TickZero
    <3> HIDE DEF L
    <3>3. A % Tick(0) = 0 /\ A \div Tick(0) < L
      BY <1>6, <3>2
    <3>4. QED
      BY <3>1, <3>3
  <2>2. CASE A # 0
    <3> DEFINE k == q - s
               K == Tick(k)
               m == N \div Tick(q)
    <3>1. k \in Nat /\ Tick(q) = T * K /\ K \in Nat \ {0} /\ Tick(q) \in Nat \ {0}
      <4>1. k \in Nat /\ Tick(q) = T * K
        BY <1>9, TickOrder
      <4>2. QED
        BY <4>1, TickPositive
    <3>2. m \in Int /\ N = m * Tick(q)
      <4> HIDE DEF N
      <4> QED  BY <1>7, <1>9, MultipleIs
    <3>3. N < L * Tick(q)
      BY <1>7, <1>9
    <3> HIDE DEF m, K, T, L, k
    <3>4. A = m * K
      <4>1. N = (m * K) * T /\ m * K \in Int
        BY <1>6, <3>1, <3>2
      <4> DEFINE e == m * K
      <4> HIDE DEF e
      <4>2. e \in Int /\ A * T = e * T
        BY <4>1 DEF e
      <4>3. A = e
        BY <1>4, <1>6, <4>2
      <4>4. QED
        BY <4>3 DEF e
    <3>5. m < L
      <4> DEFINE e == Tick(q)
      <4>1. e \in Nat \ {0} /\ m * e < L * e
        BY <3>1, <3>2, <3>3
      <4> HIDE DEF e
      <4>2. SUFFICES ASSUME m >= L PROVE FALSE
        BY <1>6, <3>2
      <4>3. m * e >= L * e
        BY <1>6, <3>2, <4>1, <4>2
      <4>4. QED
        BY <1>6, <3>2, <4>1, <4>3
    <3>6. K <= A
      <4>1. m > 0
        <5>1. SUFFICES ASSUME m <= 0 PROVE FALSE
          BY <3>2
        <5>2. m * K <= 0
          BY <3>1, <3>2, <5>1
        <5>3. QED
          BY <1>4, <2>2, <3>4, <5>2
      <4>2. 1 * K <= m * K
        BY <3>1, <3>2, <4>1
      <4>3. QED
        BY <3>1, <3>4, <4>2
    <3>7. k <= c - s
      <4>1. SUFFICES ASSUME (c - s) + 1 <= k PROVE FALSE
        BY <1>1, <3>1
      <4>2. (c - s) + 1 \in Nat
        BY <1>1, <1>2
      <4>3. Tick((c - s) + 1) <= Tick(k) /\ Tick((c - s) + 1) \in Nat
        <5> DEFINE i == (c - s) + 1
        <5>1. i \in Nat /\ i <= k
          BY <4>1, <4>2
        <5> HIDE DEF i
        <5>2. Tick(i) <= Tick(k) /\ Tick(i) \in Nat
          BY <3>1, <5>1, TickOrder, TickPositive
        <5>3. QED
          BY <5>2 DEF i
      <4>4. QED
        BY <1>4, <1>5, <3>1, <3>6, <4>3 DEF K
    <3>8. k \in 0 .. c - s
      BY <1>1, <1>2, <3>1, <3>7
    <3>9. A % K = 0 /\ A \div K = m
      BY <3>1, <3>2, <3>4, QuotientOfMultiple
    <3>10. QED
      BY <3>5, <3>8, <3>9 DEF K
  <2>3. QED
    BY <2>1, <2>2
<1>10. (\E k \in 0 .. c - s : A % Tick(k) = 0 /\ A \div Tick(k) < L) <=> HeldFrom(N, s)
  <2> HIDE DEF N, L
  <2>1. HeldFrom(N, s) => \E k \in 0 .. c - s : A % Tick(k) = 0 /\ A \div Tick(k) < L
    BY <1>9 DEF HeldFrom, L
  <2>2. QED
    BY <1>8, <2>1
<1>11. QED
  BY <1>3, <1>10 DEF A, c, t, r

\* Half a unit is a whole number of ticks if the base is even; then rounding the
\* digits that are cut off and rounding the whole are the same.
LEMMA RoundedWhole ==
    ASSUME Base % 2 = 0,
           NEW x \in Digital, Normal(x), NEW y \in Digital, Normal(y), NEW cut \in Nat,
           Finer(x.precision, y.precision) < cut, Apart(Value(x), Value(y), cut) \in Nat \ {0}
    PROVE  Rounded(Nearly(Value(x), Value(y), cut), cut)
             = Apart(Value(x), Value(y), cut) + RoundedDigits(x, y, cut)
<1> DEFINE A == Apart(Value(x), Value(y), cut)
           v == small_part(Value(x), Value(y), cut)
           T == Tick(cut)
           half == (Base \div 2) * Tick(cut - 1)
           j == RoundedDigits(x, y, cut)
           F == Finer(x.precision, y.precision)
           n == A * T + v
           b == A + j
<1>1. Value(x) \in Int /\ Value(y) \in Int /\ F \in Nat
  BY ValueIs DEF Finer
<1>2. v \in Int /\ -T <= v /\ v <= T /\ T \in Nat \ {0}
  <2>1. SmallSound(Value(x), Value(y), cut) /\ T \in Nat \ {0}
    BY <1>1, SmallBounds, TickPositive
  <2>2. QED
    BY <2>1 DEF SmallSound
<1>3. Nearly(Value(x), Value(y), cut) = n
  BY DEF Nearly
<1>4. j = IF v \in {half, -half}
          THEN IF Signed(v, 1) * A > 0 THEN Signed(v, 1) ELSE 0
          ELSE Rounded(v, cut)
  BY <1>1 DEF RoundedDigits
<1>5. T = 2 * half /\ half \in Nat \ {0}
  <2>1. cut - 1 \in Nat /\ (cut - 1) + 1 = cut
    BY <1>1
  <2>2. Tick((cut - 1) + 1) = Base * Tick(cut - 1) /\ Tick(cut - 1) \in Nat \ {0}
    BY <2>1, TickNext, TickPositive
  <2>3. Base = 2 * (Base \div 2) /\ Base \div 2 \in Nat \ {0}
    BY BaseAssumption
  <2> DEFINE k == Tick(cut - 1)
             h == Base \div 2
  <2>4. k \in Nat \ {0} /\ h \in Nat \ {0} /\ T = (2 * h) * k
    BY <2>1, <2>2, <2>3
  <2> HIDE DEF k, h, T
  <2>5. (2 * h) * k = 2 * (h * k) /\ h * k \in Nat \ {0}
    BY <2>4
  <2>6. QED
    BY <2>4, <2>5 DEF k, h
<1>6. A \in Nat \ {0}
  OBVIOUS
<1>7. -T <= v /\ v <= T /\ v \in Int =>
        /\ Rounded(v, cut) \in {-1, 0, 1}
        /\ Rounded(v, cut) = 1 <=> v > 0 /\ 2 * v >= T
        /\ Rounded(v, cut) = -1 <=> v < 0 /\ -2 * v >= T
  <2> HIDE DEF v
  <2> QED  BY RoundedSmall
<1> HIDE DEF A, v, half, j, F, n
<1>8. A * T \in Nat /\ A * T >= T
  <2> HIDE DEF T
  <2>1. A * T >= 1 * T
    BY <1>2, <1>6
  <2>2. QED
    BY <1>2, <1>6, <2>1
<1>9. n = A * T + v
  BY DEF n
<1>10. j \in {-1, 0, 1} /\ -T <= 2 * (v - j * T) /\ 2 * (v - j * T) < T
  <2>1. CASE v = half
    <3>1. Signed(v, 1) = 1
      BY <1>5, <2>1 DEF Signed
    <3>2. j = 1
      BY <1>4, <1>6, <2>1, <3>1
    <3> HIDE DEF T
    <3>3. QED
      BY <1>5, <2>1, <3>2
  <2>2. CASE v = -half
    <3>1. Signed(v, 1) = -1
      BY <1>5, <2>2 DEF Signed
    <3>2. j = 0
      BY <1>4, <1>6, <2>2, <3>1
    <3> HIDE DEF T
    <3>3. QED
      BY <1>5, <2>2, <3>2
  <2>3. CASE v # half /\ v # -half
    <3>1. j = Rounded(v, cut)
      BY <1>4, <2>3
    <3> HIDE DEF T
    <3>2. j \in {-1, 0, 1} /\ (j = 1 <=> v > 0 /\ 2 * v >= T) /\ (j = -1 <=> v < 0 /\ -2 * v >= T)
      BY <1>2, <1>7, <3>1
    <3>3. j * T = IF j = 1 THEN T ELSE IF j = -1 THEN -T ELSE 0
      BY <1>2, <3>2
    <3>4. QED
      BY <1>2, <1>5, <2>3, <3>2, <3>3
  <2>4. QED
    BY <2>1, <2>2, <2>3
<1>11. b \in Nat /\ n \in Nat
  BY <1>2, <1>6, <1>8, <1>9, <1>10
<1>12. (2 * b - 1) * T <= 2 * n /\ 2 * n < (2 * b + 1) * T
  <2> HIDE DEF T
  <2>1. (2 * b - 1) * T = 2 * (A * T) + 2 * (j * T) - T /\ (2 * b + 1) * T = 2 * (A * T) + 2 * (j * T) + T
    BY <1>2, <1>6, <1>10
  <2>2. A * T \in Int /\ j * T \in Int
    BY <1>2, <1>6, <1>10
  <2>3. QED
    BY <1>2, <1>9, <1>10, <2>1, <2>2
<1> HIDE DEF b
<1>13. Rounded(n, cut) = b
  BY <1>11, <1>12, RoundedNear
<1>14. QED
  BY <1>3, <1>13 DEF b, A, j

\* time_point::gap of the digits is the gap of the numbers.
LEMMA GapOfDigits ==
    ASSUME Base % 2 = 0,
           NEW x \in Digital, Normal(x), NEW y \in Digital, Normal(y), Value(y) < Value(x)
    PROVE  Gap(x, y) = gap(Value(x), Value(y))
<1> DEFINE t == Value(x)
           r == Value(y)
           f == IF precision(t) < precision(r) THEN precision(t) ELSE precision(r)
           c == IF scale_above(t) < scale_above(r) THEN scale_above(r) ELSE scale_above(t)
           Above(s) == Apart(t, r, s)
           Held(s) == \E k \in 0 .. c - s :
                         Above(s) % Tick(k) = 0 /\ Above(s) \div Tick(k) < quantity_limit
           FirstCut(s) == (\A q \in s .. c : Held(q)) /\ (s = f \/ ~Held(s - 1))
           cut == CHOOSE s \in f .. c : FirstCut(s)
           here == Differences(x, y).scale + 1
<1>1. gap(t, r) = autoscaled(Rounded(Nearly(t, r, cut), cut) * Tick(cut), cut)
  BY DEF gap, Nearly, Apart
<1>2. /\ f = Finer(x.precision, y.precision) /\ c = Coarser(Top(x), Top(y))
      /\ f \in Nat /\ c \in Nat /\ f <= c
  <2>1. /\ precision(t) = x.precision /\ scale_above(t) = Top(x)
        /\ precision(r) = y.precision /\ scale_above(r) = Top(y)
    BY DigitsOfValue
  <2>2. /\ x.precision \in Nat /\ Top(x) \in Nat /\ x.precision <= Top(x)
        /\ y.precision \in Nat /\ Top(y) \in Nat /\ y.precision <= Top(y)
    BY ValueIs
  <2> HIDE DEF t, r
  <2>3. QED
    BY <2>1, <2>2 DEF Finer, Coarser
<1>3. /\ here \in f .. c
      /\ \A s \in Nat : here <= s /\ s < c => HeldAbove(x, y, s)
      /\ here # f => ~HeldAbove(x, y, here - 1)
      /\ Summed(x, y, here, Differences(x, y).dt)
  BY <1>2, DifferencesIs
<1>4. ASSUME NEW s \in Nat, s <= c PROVE Held(s) <=> HeldAbove(x, y, s)
  <2>1. s <= Coarser(Top(x), Top(y))
    BY <1>2, <1>4
  <2>2. (\E k \in 0 .. Coarser(Top(x), Top(y)) - s :
            Above(s) % Tick(k) = 0 /\ Above(s) \div Tick(k) < quantity_limit) <=> HeldAbove(x, y, s)
    BY <2>1, HeldIs
  <2> HIDE DEF c, Above
  <2>3. QED
    BY <1>2, <2>2
<1>5. HeldAbove(x, y, c)
  <2>1. Summed(x, y, c, Duration((x.sign - y.sign) \div 2, c))
    BY <1>2, SummedTop
  <2> DEFINE dt == Duration((x.sign - y.sign) \div 2, c)
  <2> HIDE DEF dt
  <2>2. /\ dt \in [m : Int, p : Nat] /\ c <= dt.p /\ Ticks(dt) = AboveTicks(x, y, c)
        /\ Magnitude(Ticks(dt)) < quantity_limit * Tick(dt.p)
    BY <2>1 DEF Summed, Holds, dt
  <2>3. Ticks(dt) % Tick(dt.p) = 0 /\ dt.p \in Nat
    BY <2>2, TicksMultiple
  <2> HIDE DEF c
  <2>4. QED
    BY <2>2, <2>3 DEF HeldAbove, HeldFrom
<1> HIDE DEF Held, here, c, f
<1>6. FirstCut(here)
  <2>1. ASSUME NEW q \in here .. c PROVE Held(q)
    <3>1. q \in Nat /\ q <= c /\ here <= q
      BY <1>2, <1>3, <2>1
    <3>2. HeldAbove(x, y, q)
      <4>1. CASE q = c
        BY <1>5, <4>1
      <4>2. CASE q # c
        BY <1>2, <1>3, <3>1, <4>2
      <4>3. QED
        BY <4>1, <4>2
    <3>3. QED
      BY <1>4, <3>1, <3>2
  <2>2. ASSUME here # f PROVE ~Held(here - 1)
    <3>1. here - 1 \in Nat /\ here - 1 <= c
      BY <1>2, <1>3, <2>2
    <3>2. QED
      BY <1>3, <1>4, <2>2, <3>1
  <2>3. QED
    BY <2>1, <2>2
<1>7. ASSUME NEW s \in f .. c, FirstCut(s), NEW i \in f .. c, FirstCut(i), s < i PROVE FALSE
  <2>1. i # f /\ i - 1 \in s .. c
    BY <1>2, <1>7
  <2>2. QED
    BY <1>7, <2>1
<1>8. cut = here
  <2>1. here \in f .. c /\ FirstCut(here)
    BY <1>3, <1>6
  <2> HIDE DEF FirstCut
  <2>2. cut \in f .. c /\ FirstCut(cut)
    BY <2>1
  <2> HIDE DEF cut
  <2>3. ~(cut < here) /\ ~(here < cut)
    BY <1>7, <2>1, <2>2
  <2>4. QED
    BY <1>2, <2>1, <2>2, <2>3
<1> HIDE DEF FirstCut, cut
<1> DEFINE A == Apart(t, r, here)
           j == RoundedDigits(x, y, here)
<1>9. Gap(x, y) = autoscaled((A + j) * Tick(here), here)
  BY GapIs DEF here
<1>10. here \in Nat /\ f <= here
  BY <1>2, <1>3
<1>11. Rounded(Nearly(t, r, here), here) = A + j
  <2>1. CASE here = f
    <3> DEFINE T == Tick(here)
               v == small_part(t, r, here)
    <3>1. t \in Int /\ r \in Int /\ t % T = 0 /\ r % T = 0
      <4>1. /\ x.precision \in Nat /\ y.precision \in Nat /\ t \in Int /\ r \in Int
            /\ t % Tick(x.precision) = 0 /\ r % Tick(y.precision) = 0
        BY ValueIs
      <4>2. here <= x.precision /\ here <= y.precision
        BY <1>2, <2>1, <4>1 DEF Finer
      <4> HIDE DEF t, r
      <4>3. QED
        BY <1>10, <4>1, <4>2, MultipleOfFiner
    <3>2. T \in Nat \ {0} /\ A \in Int /\ A * T \in Int /\ (A * T) % T = 0 /\ (A * T) \div T = A
      <4>1. T \in Nat \ {0} /\ A \in Int
        BY <1>10, <3>1, AboveNear, TickPositive
      <4> HIDE DEF T, A
      <4>2. QED
        BY <4>1, QuotientOfMultiple
    <3>3. v = 0
      <4>1. SmallSound(t, r, here) /\ v \in Int
        BY <1>10, <3>1, SmallBounds, SmallPart
      <4>2. v <= 0 /\ v >= 0
        BY <3>1, <3>2, <4>1 DEF SmallSound
      <4> HIDE DEF v
      <4>3. QED
        BY <4>1, <4>2
    <3>4. j = 0
      <4>1. j \in {-1, 0, 1} /\ (j = 1 => v > 0) /\ (j = -1 => v < 0)
        BY <1>2, <1>10, RoundedDigitsIs
      <4> HIDE DEF v, j
      <4>2. QED
        BY <3>3, <4>1
    <3>5. Nearly(t, r, here) = A * T
      <4>1. Nearly(t, r, here) = A * T + v
        BY DEF Nearly
      <4> HIDE DEF v, A, T
      <4>2. QED
        BY <3>2, <3>3, <4>1
    <3>6. Rounded(A * T, here) = A
      <4> DEFINE n == A * T
      <4>1. n \in Int /\ n % Tick(here) = 0 /\ n \div Tick(here) = A
        BY <3>2
      <4> HIDE DEF n
      <4>2. Rounded(n, here) = n \div Tick(here)
        BY <1>10, <4>1, MultipleIs
      <4>3. QED
        BY <4>1, <4>2 DEF n
    <3> HIDE DEF A, j, T
    <3>7. QED
      BY <3>2, <3>4, <3>5, <3>6
  <2>2. CASE here # f
    <3>1. here - 1 \in Nat /\ (here - 1) + 1 = here /\ f < here
      BY <1>2, <1>10, <2>2
    <3>2. ~HeldAbove(x, y, here - 1)
      BY <1>3, <2>2
    <3>3. AboveTicks(x, y, here) > 0
      <4> DEFINE s == here - 1
      <4>1. s \in Nat /\ s + 1 = here /\ ~HeldAbove(x, y, s)
        BY <3>1, <3>2
      <4> HIDE DEF s
      <4>2. \/ Value(x) - Value(y) > 0 /\ AboveTicks(x, y, s + 1) > 0
            \/ Value(x) - Value(y) < 0
        BY <4>1, SignAbove
      <4>3. Value(x) \in Int /\ Value(y) \in Int
        BY ValueIs
      <4>4. ~(Value(x) - Value(y) < 0)
        BY <4>3
      <4>5. QED
        BY <4>1, <4>2, <4>4
    <3>4. A \in Nat \ {0}
      <4>1. A \in Int /\ Tick(here) \in Nat \ {0}
        BY <1>10, ValueIs, AboveNear, TickPositive
      <4>2. A * Tick(here) > 0
        BY <3>3 DEF AboveTicks
      <4> DEFINE k == Tick(here)
      <4>3. k \in Nat \ {0} /\ A * k > 0
        BY <4>1, <4>2
      <4> HIDE DEF A, k
      <4>4. A > 0
        <5>1. SUFFICES ASSUME A <= 0 PROVE FALSE
          BY <4>1
        <5>2. A * k <= 0
          BY <4>1, <4>3, <5>1
        <5>3. QED
          BY <4>1, <4>3, <5>2
      <4>5. QED
        BY <4>1, <4>4
    <3>5. QED
      BY <1>2, <1>10, <3>1, <3>4, RoundedWhole
  <2>3. QED
    BY <2>1, <2>2
<1>12. QED
  BY <1>1, <1>8, <1>9, <1>11

\* For any two time points, one later than the other.
LEMMA GapsOfNumbers == Base % 2 = 0 /\ PointTypeOK => GapIsThatOfNumbers
<1> SUFFICES ASSUME Base % 2 = 0, PointTypeOK, NEW i \in Names, NEW k \in Names,
                    Value(tp[k]) < Value(tp[i])
             PROVE  Gap(tp[i], tp[k]) = gap(Value(tp[i]), Value(tp[k]))
  BY DEF GapIsThatOfNumbers
<1>1. tp[i] \in Digital /\ Normal(tp[i]) /\ tp[k] \in Digital /\ Normal(tp[k])
  BY DEF PointTypeOK
<1> DEFINE x == tp[i]
           y == tp[k]
<1>2. Value(y) < Value(x)
  OBVIOUS
<1> HIDE DEF x, y
<1>3. Gap(x, y) = gap(Value(x), Value(y))
  BY <1>1, <1>2, GapOfDigits DEF x, y
<1>4. QED
  BY <1>3 DEF x, y

-----------------------------------------------------------------------------
(* At every moment                                                         *)

\* time_point.cpp: at every moment the digits of a time point are those of the
\* number it denotes, read from the left on both sides of zero in phases and in
\* epochs alike; two time points compare as the numbers they denote, their
\* difference is exact, or none if no duration holds it, and their gap is within
\* one unit of its precision of what they are apart.
THEOREM PointsReadAndCompare ==
    PointSpec => [](/\ PhasesFromTheLeft /\ OrderedByValue
                    /\ DifferenceExact /\ GapWithinOnePrecision)
<1>1. PointTypeOK => /\ PhasesFromTheLeft /\ OrderedByValue
                     /\ DifferenceExact /\ GapWithinOnePrecision
  BY ReadFromTheLeft, ComparedByValue, DifferencesExact, GapsNear
<1>2. QED
  BY <1>1, PointsStayNormal, PTL

\* time_point.cpp, whose base is 1000: with a base that can be halved, the gap of
\* two time points is that of the numbers too, on which the time queue relies.
THEOREM PointsAreExact ==
    ASSUME Base % 2 = 0
    PROVE  PointSpec => []PointsExact
<1>1. PointTypeOK => PointsExact
  BY ReadFromTheLeft, ComparedByValue, DifferencesExact, GapsNear, GapsOfNumbers DEF PointsExact
<1>2. QED
  BY <1>1, PointsStayNormal, PTL

-----------------------------------------------------------------------------
(* Partitions, of any lists of partitions and offsets                      *)

PartitionSet == [first : Nat, second : Int]

\* Entry i belongs to partition q.
Located(ps, os, q, i) ==
    /\ q \in 0 .. Len(ps) - 1 /\ ps[q + 1].first <= i
    /\ i < IF q + 1 < Len(ps) THEN ps[q + 2].first ELSE Len(os)

\* The partitions are not empty and follow each other, and every offset is one
\* that a duration holds, 0 where a partition begins.
Kept(ps, os) ==
    /\ ps \in Seq(PartitionSet) /\ os \in Seq(Int)
    /\ Len(ps) = 0 <=> Len(os) = 0
    /\ Len(ps) # 0 => ps[1].first = 0
    /\ \A j \in 1 .. Len(ps) : ps[j].first < Len(os) /\ os[ps[j].first + 1] = 0
    /\ \A j, k \in 1 .. Len(ps) : j < k => ps[j].first < ps[k].first
    /\ \A k \in 1 .. Len(os) : Exact(os[k])

PartOf(ps, os, i) ==
    CHOOSE q \in 0 .. Len(ps) - 1 :
        ps[q + 1].first <= i /\ i < IF q + 1 < Len(ps) THEN ps[q + 1 + 1].first ELSE Len(os)
Time(ps, os, i) == ps[PartOf(ps, os, i) + 1].second + os[i + 1]

\* What the lists hold.
LEMMA KeptTypes ==
    ASSUME NEW ps, NEW os, Kept(ps, os)
    PROVE  /\ Len(ps) \in Nat /\ Len(os) \in Nat /\ (Len(ps) = 0 <=> Len(os) = 0)
           /\ \A j \in 1 .. Len(ps) : /\ ps[j] \in PartitionSet
                                     /\ ps[j].first \in Nat /\ ps[j].second \in Int
                                     /\ ps[j].first < Len(os) /\ os[ps[j].first + 1] = 0
           /\ \A k \in 1 .. Len(os) : os[k] \in Int
<1>1. ps \in Seq(PartitionSet) /\ os \in Seq(Int)
  BY DEF Kept
<1>2. \A j \in 1 .. Len(ps) : ps[j] \in PartitionSet
  BY <1>1
<1>3. \A j \in 1 .. Len(ps) : ps[j].first \in Nat /\ ps[j].second \in Int
  BY <1>2 DEF PartitionSet
<1>4. \A k \in 1 .. Len(os) : os[k] \in Int
  BY <1>1
<1>5. Len(ps) \in Nat /\ Len(os) \in Nat
  BY <1>1
<1>6. QED
  BY <1>2, <1>3, <1>4, <1>5 DEF Kept

\* Partitions follow each other.
LEMMA KeptOrder ==
    ASSUME NEW ps, NEW os, Kept(ps, os)
    PROVE  /\ \A j, k \in 1 .. Len(ps) : j < k => ps[j].first < ps[k].first
           /\ Len(ps) # 0 => ps[1].first = 0
BY DEF Kept

\* A search of an interval ends at its first member in S, or at its end.
LEMMA FirstExists ==
    ASSUME NEW lo \in Int, NEW hi \in Int, lo <= hi, NEW S
    PROVE  \E i \in lo .. hi : (i < hi => i \in S) /\ \A j \in lo .. i - 1 : j \notin S
<1> DEFINE D == {n \in Nat : lo + n = hi \/ lo + n \in S}
<1>1. hi - lo \in Nat /\ lo + (hi - lo) = hi
  OBVIOUS
<1>2. hi - lo \in D /\ D \subseteq Nat
  BY <1>1
<1>3. PICK n \in D : \A m \in D : n <= m
  <2> HIDE DEF D
  <2> QED  BY <1>2, LeastNatural
<1>4. n \in Nat /\ (lo + n = hi \/ lo + n \in S) /\ n <= hi - lo
  BY <1>2, <1>3
<1>5. ASSUME NEW j \in lo .. lo + n - 1
      PROVE  j \notin S
  <2>1. j - lo \in Nat /\ j - lo < n /\ lo + (j - lo) = j
    BY <1>4
  <2>2. j - lo \notin D
    BY <1>3, <1>4, <2>1
  <2>3. QED
    BY <2>1, <2>2
<1>6. lo + n \in lo .. hi
  BY <1>4
<1>7. QED
  BY <1>4, <1>5, <1>6

\* An entry belongs to one partition only.
LEMMA LocatedOnce ==
    ASSUME NEW ps, NEW os, Kept(ps, os), NEW i \in Int,
           NEW q, Located(ps, os, q, i), NEW r, Located(ps, os, r, i)
    PROVE  q = r
<1>1. /\ q \in 0 .. Len(ps) - 1 /\ r \in 0 .. Len(ps) - 1 /\ Len(ps) \in Nat
      /\ \A j \in 1 .. Len(ps) : ps[j].first \in Nat
      /\ \A j, k \in 1 .. Len(ps) : j < k => ps[j].first < ps[k].first
  BY KeptTypes, KeptOrder DEF Located
<1>2. ASSUME NEW a, NEW b, Located(ps, os, a, i), Located(ps, os, b, i), a < b
      PROVE  FALSE
  <2>1. a \in 0 .. Len(ps) - 1 /\ b \in 0 .. Len(ps) - 1 /\ ps[b + 1].first <= i
    BY <1>2 DEF Located
  <2>2. a + 1 < Len(ps) /\ a + 2 \in 1 .. Len(ps) /\ b + 1 \in 1 .. Len(ps)
    BY <1>1, <1>2, <2>1
  <2>3. i < ps[a + 2].first
    BY <1>2, <2>2 DEF Located
  <2>4. a + 2 = b + 1 \/ ps[a + 2].first < ps[b + 1].first
    BY <1>1, <1>2, <2>1, <2>2
  <2>5. ps[a + 2].first \in Nat /\ ps[b + 1].first \in Nat
    BY <1>1, <2>2
  <2>6. QED
    BY <2>1, <2>3, <2>4, <2>5
<1>3. ~(q < r) /\ ~(r < q)
  BY <1>2
<1>4. q \in Int /\ r \in Int
  BY <1>1
<1>5. QED
  BY <1>3, <1>4

\* And to one at least.
LEMMA LocatedSome ==
    ASSUME NEW ps, NEW os, Kept(ps, os), NEW i \in 0 .. Len(os) - 1
    PROVE  \E q : Located(ps, os, q, i)
<1> DEFINE n == Len(ps)
           S == {q \in Int : ps[q + 1].first > i}
<1>1. /\ n \in Nat /\ Len(os) \in Nat /\ n # 0 /\ ps[1].first = 0
      /\ \A j \in 1 .. n : ps[j].first \in Nat
  BY KeptTypes, KeptOrder
<1> HIDE DEF n
<1>2. PICK p \in 0 .. n : (p < n => p \in S) /\ \A j \in 0 .. p - 1 : j \notin S
  <2> HIDE DEF S
  <2>1. 0 \in Int /\ n \in Int /\ 0 <= n
    BY <1>1
  <2>2. QED
    BY <2>1, FirstExists
<1>3. p # 0
  <2>1. 0 \notin S
    BY <1>1
  <2>2. QED
    BY <1>1, <1>2, <2>1
<1>4. p - 1 \in 0 .. n - 1 /\ p - 1 \in 0 .. p - 1 /\ (p - 1) + 1 = p /\ (p - 1) + 2 = p + 1
  BY <1>1, <1>2, <1>3
<1>5. ps[p].first <= i
  <2>1. p - 1 \notin S /\ p - 1 \in Int
    BY <1>2, <1>4
  <2>2. ~(ps[p].first > i)
    BY <2>1, <1>4
  <2>3. p \in 1 .. n
    BY <1>1, <1>4
  <2>4. QED
    BY <1>1, <2>2, <2>3
<1>6. p < n => i < ps[p + 1].first
  BY <1>1, <1>2
<1>7. Located(ps, os, p - 1, i)
  BY <1>1, <1>2, <1>4, <1>5, <1>6 DEF Located, n
<1>8. QED
  BY <1>7

\* So its partition is the one it is located in.
LEMMA PartOfIs ==
    ASSUME NEW ps, NEW os, Kept(ps, os), NEW i \in Int, NEW q, Located(ps, os, q, i)
    PROVE  PartOf(ps, os, i) = q /\ Time(ps, os, i) = ps[q + 1].second + os[i + 1]
<1> DEFINE r == PartOf(ps, os, i)
<1>1. r = CHOOSE p \in 0 .. Len(ps) - 1 : Located(ps, os, p, i)
  <2>1. ASSUME NEW p \in 0 .. Len(ps) - 1
        PROVE  Located(ps, os, p, i)
               <=> /\ ps[p + 1].first <= i
                   /\ i < IF p + 1 < Len(ps) THEN ps[p + 1 + 1].first ELSE Len(os)
    <3>1. p + 1 + 1 = p + 2
      OBVIOUS
    <3>2. QED
      BY <3>1 DEF Located
  <2>2. QED
    BY <2>1 DEF PartOf
<1>2. q \in 0 .. Len(ps) - 1
  BY DEF Located
<1> HIDE DEF r
<1>3. Located(ps, os, r, i)
  BY <1>1, <1>2
<1>4. r = q
  BY <1>3, LocatedOnce
<1>5. QED
  BY <1>4 DEF Time, r

LEMMA PartOfLocates ==
    ASSUME NEW ps, NEW os, Kept(ps, os), NEW i \in 0 .. Len(os) - 1
    PROVE  Located(ps, os, PartOf(ps, os, i), i)
<1>1. PICK q : Located(ps, os, q, i)
  BY LocatedSome
<1>2. i \in Int
  BY DEF Kept
<1>3. QED
  BY <1>1, <1>2, PartOfIs

\* The first entry of a partition is at its start.
LEMMA StartIs ==
    ASSUME NEW ps, NEW os, Kept(ps, os), NEW q \in 0 .. Len(ps) - 1
    PROVE  /\ ps[q + 1].first \in 0 .. Len(os) - 1
           /\ Located(ps, os, q, ps[q + 1].first)
           /\ ps[q + 1].second \in Int
           /\ Time(ps, os, ps[q + 1].first) = ps[q + 1].second
<1> DEFINE i == ps[q + 1].first
<1>1. /\ Len(ps) \in Nat /\ Len(os) \in Nat /\ q + 1 \in 1 .. Len(ps)
      /\ i \in Nat /\ ps[q + 1].second \in Int /\ i < Len(os) /\ os[i + 1] = 0
  BY KeptTypes
<1>2. q + 1 < Len(ps) => q + 2 \in 1 .. Len(ps) /\ i < ps[q + 2].first
  BY <1>1 DEF Kept
<1>3. Located(ps, os, q, i)
  BY <1>1, <1>2 DEF Located
<1> HIDE DEF i
<1>4. Time(ps, os, i) = ps[q + 1].second + 0
  BY <1>1, <1>3, PartOfIs
<1>5. QED
  BY <1>1, <1>3, <1>4 DEF i

LEMMA TimeIs ==
    ASSUME NEW ps, NEW os, Kept(ps, os), NEW i \in 0 .. Len(os) - 1
    PROVE  Time(ps, os, i) \in Int
<1>1. Located(ps, os, PartOf(ps, os, i), i)
  BY PartOfLocates
<1>2. ps[PartOf(ps, os, i) + 1].second \in Int /\ os[i + 1] \in Int
  <2>1. PartOf(ps, os, i) + 1 \in 1 .. Len(ps) /\ i + 1 \in 1 .. Len(os)
    BY <1>1, KeptTypes DEF Located
  <2>2. QED
    BY <2>1, KeptTypes
<1>3. QED
  BY <1>2 DEF Time

-----------------------------------------------------------------------------
(* Iterators                                                               *)

\* An iterator stands one before the first entry, at an entry, or at the end.
Stands(ps, os, x) ==
    /\ x.first = -1 => x.qi = 0
    /\ x.first = Len(os) => x.qi = IF Len(ps) = 0 THEN 0 ELSE Len(ps) - 1
    /\ x.first \in 0 .. Len(os) - 1 =>
          Located(ps, os, x.qi, x.first) /\ x.second = Time(ps, os, x.first)

\* The iterator knows its partition as long as it is warranted to.
IteratorHeld(ps, os, x, alive) ==
    /\ x.first \in -1 .. Len(os)
    /\ alive => Stands(ps, os, x)

IInv == Kept(partitions_, offsets_) /\ IteratorHeld(partitions_, offsets_, it, live)

LEMMA TimeAtIs ==
    ASSUME NEW i
    PROVE  /\ PartitionOf(i) = PartOf(partitions_, offsets_, i)
           /\ TimeAt(i) = Time(partitions_, offsets_, i)
BY DEF PartitionOf, PartOf, EndOf, Partition, size, TimeAt, Time, Offset

LEMMA TimeAtIsThen ==
    ASSUME NEW i
    PROVE  TimeAt(i)' = Time(partitions_', offsets_', i)
BY DEF PartitionOf, PartOf, EndOf, Partition, size, TimeAt, Time, Offset

LEMMA EntryStands ==
    ASSUME Kept(partitions_, offsets_), NEW i \in -1 .. size, NEW qi, NEW o,
           i = -1 => qi = 0,
           i = size => qi = IF Len(partitions_) = 0 THEN 0 ELSE Len(partitions_) - 1,
           i \in 0 .. size - 1 => Located(partitions_, offsets_, qi, i)
    PROVE  /\ Entry(qi, i, o).first = i
           /\ Stands(partitions_, offsets_, Entry(qi, i, o))
<1> DEFINE x == Entry(qi, i, o)
<1>1. x.first = i /\ x.qi = qi
  BY DEF Entry
<1>2. size \in Nat /\ size = Len(offsets_) /\ i \in Int
  BY KeptTypes DEF size
<1>3. ASSUME i \in 0 .. size - 1
      PROVE  x.second = Time(partitions_, offsets_, i)
  <2>1. x.second = Partition(qi).second + Offset(i)
    BY <1>2, <1>3 DEF Entry
  <2>2. QED
    BY <1>2, <1>3, <2>1, PartOfIs DEF Partition, Offset
<1> HIDE DEF x
<1>4. Stands(partitions_, offsets_, x)
  BY <1>1, <1>2, <1>3 DEF Stands
<1>5. QED
  BY <1>1, <1>4 DEF x

\* operator+= finds the partition whatever the distance.
LEMMA MovedStands ==
    ASSUME Kept(partitions_, offsets_), NEW from, NEW n, from.first + n \in -1 .. size
    PROVE  /\ Moved(from, n).first = from.first + n
           /\ Stands(partitions_, offsets_, Moved(from, n))
<1> DEFINE i == from.first + n
           k == Len(partitions_)
           S == {q \in Int : Partition(q).first >= i}
           Right(p) == (p < k => Partition(p).first >= i) /\ \A j \in 0 .. p - 1 : ~(Partition(j).first >= i)
           p == CHOOSE j \in 0 .. k : Right(j)
           found == p < k /\ Partition(p).first = i
           qi == IF found \/ p = 0 THEN p ELSE p - 1
<1>1. Moved(from, n) = Entry(qi, i, 0)
  BY DEF Moved, First
<1>2. k \in Nat /\ size \in Nat /\ size = Len(offsets_) /\ i \in -1 .. size /\ (k = 0 <=> size = 0)
  BY KeptTypes DEF size
<1>3. \A q \in 0 .. k - 1 : Partition(q).first \in 0 .. size - 1
  <2>1. \A q \in 0 .. k - 1 : q + 1 \in 1 .. k
    BY <1>2
  <2>2. QED
    BY <1>2, <2>1, KeptTypes DEF Partition
<1>4. \A q, r \in 0 .. k - 1 : q < r => Partition(q).first < Partition(r).first
  <2>1. \A q \in 0 .. k - 1 : q + 1 \in 1 .. k
    BY <1>2
  <2>2. QED
    BY <1>2, <2>1, KeptOrder DEF Partition
<1>5. k # 0 => Partition(0).first = 0
  BY KeptOrder DEF Partition
<1> HIDE DEF i, k
<1>6. PICK p0 \in 0 .. k : (p0 < k => p0 \in S) /\ \A j \in 0 .. p0 - 1 : j \notin S
  <2> HIDE DEF S
  <2>1. 0 \in Int /\ k \in Int /\ 0 <= k
    BY <1>2
  <2>2. QED
    BY <2>1, FirstExists
<1>7. Right(p0)
  BY <1>2, <1>6
<1>8. p \in 0 .. k /\ Right(p)
  <2> HIDE DEF Right
  <2> QED  BY <1>7
<1> HIDE DEF p
<1>9. i = -1 => qi = 0
  BY <1>2, <1>3, <1>5, <1>8
<1>10. ASSUME i = size
       PROVE  qi = IF k = 0 THEN 0 ELSE k - 1
  <2>1. p = k
    BY <1>2, <1>3, <1>8, <1>10
  <2>2. QED
    BY <1>2, <2>1
<1>11. ASSUME i \in 0 .. size - 1
       PROVE  Located(partitions_, offsets_, qi, i)
  <2>1. k # 0 /\ Partition(0).first = 0
    BY <1>2, <1>5, <1>11
  <2>2. CASE found
    <3>1. p \in 0 .. k - 1 /\ qi = p
      BY <1>2, <1>8, <2>2
    <3>2. QED
      BY <2>2, <3>1, StartIs DEF Partition, k
  <2>3. CASE ~found
    <3>1. p # 0
      BY <1>2, <1>8, <2>1, <2>3, <1>11
    <3>2. p - 1 \in 0 .. p - 1 /\ p - 1 \in 0 .. k - 1 /\ qi = p - 1 /\ (p - 1) + 1 = p /\ (p - 1) + 2 = p + 1
      BY <1>2, <1>8, <2>3, <3>1
    <3>3. Partition(p - 1).first <= i
      BY <1>2, <1>3, <1>8, <3>2
    <3>4. p < k => i < Partition(p).first
      <4>1. ASSUME p < k PROVE Partition(p).first \in Int /\ Partition(p).first >= i
        BY <1>2, <1>3, <1>8, <4>1
      <4>2. QED
        BY <1>2, <2>3, <4>1
    <3>5. QED
      BY <1>2, <1>11, <3>2, <3>3, <3>4 DEF Located, Partition, k
  <2>4. QED
    BY <2>2, <2>3
<1> HIDE DEF qi
<1>12. Entry(qi, i, 0).first = i /\ Stands(partitions_, offsets_, Entry(qi, i, 0))
  BY <1>2, <1>9, <1>10, <1>11, EntryStands DEF k
<1>13. QED
  BY <1>1, <1>12 DEF i

\* operator++ and operator-- need to look at the neighbouring partition only.
LEMMA IncrementedStands ==
    ASSUME IInv, live, it.first + 1 <= size
    PROVE  /\ Incremented.first = it.first + 1
           /\ Stands(partitions_, offsets_, Incremented)
<1> DEFINE i == it.first + 1
           k == Len(partitions_)
           next == it.qi + 1 < k /\ Partition(it.qi + 1).first = i
           qi == IF next THEN it.qi + 1 ELSE it.qi
<1>1. Incremented = Entry(qi, i, it.second)
  BY DEF Incremented
<1>2. /\ Kept(partitions_, offsets_) /\ Stands(partitions_, offsets_, it)
      /\ it.first \in -1 .. size /\ size = Len(offsets_)
  BY DEF IInv, IteratorHeld, size
<1>3. k \in Nat /\ size \in Nat /\ (k = 0 <=> size = 0)
  BY <1>2, KeptTypes
<1>4. ASSUME NEW q \in 0 .. k - 1
      PROVE  Partition(q).first \in 0 .. size - 1 /\ Located(partitions_, offsets_, q, Partition(q).first)
  BY <1>2, StartIs DEF Partition
<1>5. \A q, r \in 0 .. k - 1 : q < r => Partition(q).first < Partition(r).first
  <2>1. \A q \in 0 .. k - 1 : q + 1 \in 1 .. k
    BY <1>3
  <2>2. QED
    BY <1>2, <2>1, KeptOrder DEF Partition
<1>6. k # 0 => Partition(0).first = 0
  BY <1>2, KeptOrder DEF Partition
<1>7. i \in 0 .. size /\ i - 1 = it.first
  BY <1>2
<1>8. CASE it.first = -1
  <2>1. it.qi = 0
    BY <1>2, <1>8 DEF Stands
  <2>2. i = 0
    BY <1>8
  <2>3. ~next
    <3>1. ASSUME 1 < k PROVE Partition(1).first # 0
      BY <1>3, <1>4, <1>5, <1>6, <3>1
    <3>2. QED
      BY <2>1, <2>2, <3>1
  <2>4. qi = 0
    BY <2>1, <2>3
  <2> HIDE DEF qi
  <2>5. i \in 0 .. size - 1 => Located(partitions_, offsets_, qi, i)
    BY <1>3, <1>4, <1>6, <2>2, <2>4
  <2>6. i = size => qi = IF k = 0 THEN 0 ELSE k - 1
    BY <1>3, <2>2, <2>4
  <2> HIDE DEF i
  <2>7. i \in -1 .. size /\ (i = -1 => qi = 0)
    BY <1>3, <2>2
  <2>8. Entry(qi, i, it.second).first = i /\ Stands(partitions_, offsets_, Entry(qi, i, it.second))
    BY <1>2, <2>5, <2>6, <2>7, EntryStands DEF k
  <2>9. QED
    BY <1>1, <2>8 DEF qi, i
<1>9. CASE it.first \in 0 .. size - 1
  <2>1. Located(partitions_, offsets_, it.qi, i - 1)
    BY <1>2, <1>7, <1>9 DEF Stands
  <2>2. it.qi \in 0 .. k - 1 /\ Partition(it.qi).first <= i - 1
        /\ (it.qi + 1 < k => i - 1 < Partition(it.qi + 1).first)
    BY <1>3, <2>1 DEF Located, Partition
  <2> HIDE DEF i
  <2>3. CASE next
    <3>1. qi = it.qi + 1 /\ qi \in 0 .. k - 1 /\ Partition(qi).first = i
      BY <1>3, <2>2, <2>3
    <3>2. Located(partitions_, offsets_, qi, i) /\ i \in 0 .. size - 1
      BY <1>4, <3>1
    <3> HIDE DEF qi
    <3>3. i \in -1 .. size /\ i # -1 /\ i # size
      BY <1>3, <3>2
    <3>4. Entry(qi, i, it.second).first = i /\ Stands(partitions_, offsets_, Entry(qi, i, it.second))
      BY <1>2, <3>2, <3>3, EntryStands
    <3>5. QED
      BY <1>1, <3>4 DEF qi, i
  <2>4. CASE ~next
    <3>1. qi = it.qi
      BY <2>4
    <3>2. ASSUME it.qi + 1 < k
          PROVE  i < Partition(it.qi + 1).first /\ Partition(it.qi + 1).first < size
      <4>1. it.qi + 1 \in 0 .. k - 1
        BY <1>3, <2>2, <3>2
      <4>2. Partition(it.qi + 1).first \in 0 .. size - 1
        BY <1>4, <4>1
      <4>3. i - 1 < Partition(it.qi + 1).first /\ Partition(it.qi + 1).first # i
        BY <2>2, <2>4, <3>2
      <4>4. QED
        BY <1>3, <1>7, <4>2, <4>3
    <3>3. Partition(qi).first <= i
      BY <1>4, <1>7, <2>2, <3>1
    <3>4. i = size => qi = IF k = 0 THEN 0 ELSE k - 1
      <4>1. ASSUME i = size PROVE ~(it.qi + 1 < k)
        <5>1. ASSUME it.qi + 1 < k PROVE FALSE
          <6>1. it.qi + 1 \in 0 .. k - 1
            BY <1>3, <2>2, <5>1
          <6>2. Partition(it.qi + 1).first \in 0 .. size - 1
            BY <1>4, <6>1
          <6>3. QED
            BY <1>3, <3>2, <4>1, <5>1, <6>2
        <5>2. QED
          BY <5>1
      <4>2. it.qi \in 0 .. k - 1 /\ qi = it.qi
        BY <2>2, <3>1
      <4> HIDE DEF qi
      <4>3. QED
        BY <1>3, <4>1, <4>2
    <3>5. ASSUME i \in 0 .. size - 1 PROVE Located(partitions_, offsets_, qi, i)
      <4>1. partitions_[qi + 1].first <= i /\ qi \in 0 .. k - 1
        BY <2>2, <3>1, <3>3 DEF Partition
      <4>2. qi + 1 < k => i < partitions_[qi + 2].first
        BY <2>2, <3>1, <3>2 DEF Partition
      <4>3. i < Len(offsets_)
        BY <1>2, <1>3, <3>5
      <4>4. QED
        BY <4>1, <4>2, <4>3 DEF Located
    <3> HIDE DEF qi
    <3>6. i \in -1 .. size /\ i # -1
      BY <1>3, <1>7
    <3>7. Entry(qi, i, it.second).first = i /\ Stands(partitions_, offsets_, Entry(qi, i, it.second))
      BY <1>2, <3>4, <3>5, <3>6, EntryStands
    <3>8. QED
      BY <1>1, <3>7 DEF qi, i
  <2>5. QED
    BY <2>3, <2>4
<1>10. it.first = -1 \/ it.first \in 0 .. size - 1
  BY <1>2, <1>3
<1>11. QED
  BY <1>8, <1>9, <1>10

LEMMA DecrementedStands ==
    ASSUME IInv, live, 0 <= it.first
    PROVE  /\ Decremented.first = it.first - 1
           /\ Stands(partitions_, offsets_, Decremented)
<1> DEFINE i == it.first - 1
           k == Len(partitions_)
           previous == it.qi > 0 /\ i < Partition(it.qi).first
           qi == IF previous THEN it.qi - 1 ELSE it.qi
<1>1. Decremented = Entry(qi, i, it.second)
  BY DEF Decremented
<1>2. /\ Kept(partitions_, offsets_) /\ Stands(partitions_, offsets_, it)
      /\ it.first \in -1 .. size /\ size = Len(offsets_)
  BY DEF IInv, IteratorHeld, size
<1>3. k \in Nat /\ size \in Nat /\ (k = 0 <=> size = 0)
  BY <1>2, KeptTypes
<1>4. ASSUME NEW q \in 0 .. k - 1
      PROVE  Partition(q).first \in 0 .. size - 1 /\ Located(partitions_, offsets_, q, Partition(q).first)
  BY <1>2, StartIs DEF Partition
<1>5. \A q, r \in 0 .. k - 1 : q < r => Partition(q).first < Partition(r).first
  <2>1. \A q \in 0 .. k - 1 : q + 1 \in 1 .. k
    BY <1>3
  <2>2. QED
    BY <1>2, <2>1, KeptOrder DEF Partition
<1>6. k # 0 => Partition(0).first = 0
  BY <1>2, KeptOrder DEF Partition
<1>7. i \in -1 .. size - 1 /\ i + 1 = it.first
  BY <1>2, <1>3
<1>8. CASE size = 0
  <2>1. i = -1 /\ it.qi = 0
    BY <1>2, <1>3, <1>7, <1>8 DEF Stands
  <2>2. qi = 0
    BY <2>1
  <2> HIDE DEF qi, i
  <2>3. i \in -1 .. size /\ i # size /\ i \notin 0 .. size - 1
    BY <1>3, <2>1
  <2>4. Entry(qi, i, it.second).first = i /\ Stands(partitions_, offsets_, Entry(qi, i, it.second))
    BY <1>2, <2>2, <2>3, EntryStands
  <2>5. QED
    BY <1>1, <2>4 DEF qi, i
<1>9. CASE size # 0
  <2>1. /\ it.qi \in 0 .. k - 1 /\ Partition(it.qi).first <= i + 1
        /\ (it.qi + 1 < k => i + 1 < Partition(it.qi + 1).first)
        /\ (i + 1 = size => it.qi = k - 1)
    <3>1. CASE i + 1 = size
      <4>1. it.qi = k - 1 /\ k # 0
        BY <1>2, <1>3, <1>7, <1>9, <3>1 DEF Stands
      <4>2. it.qi \in 0 .. k - 1 /\ ~(it.qi + 1 < k)
        BY <1>3, <4>1
      <4>3. Partition(it.qi).first \in 0 .. size - 1
        BY <1>4, <4>2
      <4>4. QED
        BY <1>3, <3>1, <4>1, <4>2, <4>3
    <3>2. CASE i + 1 # size
      <4>1. it.first \in 0 .. size - 1
        BY <1>2, <1>3, <1>7, <3>2
      <4>2. Located(partitions_, offsets_, it.qi, i + 1)
        BY <1>2, <1>7, <4>1 DEF Stands
      <4>3. QED
        BY <1>3, <3>2, <4>2 DEF Located, Partition
    <3>3. QED
      BY <3>1, <3>2
  <2> HIDE DEF i
  <2>2. CASE previous
    <3>1. qi = it.qi - 1 /\ qi \in 0 .. k - 1 /\ qi + 1 = it.qi
      BY <1>3, <2>1, <2>2
    <3>2. Partition(it.qi).first \in Int /\ Partition(qi).first \in 0 .. size - 1
          /\ Partition(qi).first < Partition(it.qi).first
      BY <1>4, <1>5, <2>1, <3>1
    <3>3. Partition(it.qi).first = i + 1 /\ Partition(qi).first <= i
      BY <1>7, <2>1, <2>2, <3>2
    <3>4. i \in 0 .. size - 1
      BY <1>7, <3>2, <3>3
    <3>5. Located(partitions_, offsets_, qi, i)
      <4>1. partitions_[qi + 1].first <= i
        BY <3>3 DEF Partition
      <4>2. qi + 1 < k /\ qi + 2 = it.qi + 1
        BY <1>3, <2>1, <3>1
      <4>3. i < partitions_[qi + 2].first
        BY <3>3, <3>4, <4>2 DEF Partition
      <4>4. QED
        BY <3>1, <4>1, <4>2, <4>3 DEF Located
    <3> HIDE DEF qi
    <3>6. i \in -1 .. size /\ i # size /\ i # -1
      BY <1>3, <3>4
    <3>7. Entry(qi, i, it.second).first = i /\ Stands(partitions_, offsets_, Entry(qi, i, it.second))
      BY <1>2, <3>5, <3>6, EntryStands
    <3>8. QED
      BY <1>1, <3>7 DEF qi, i
  <2>3. CASE ~previous
    <3>1. qi = it.qi /\ qi \in 0 .. k - 1 /\ Partition(qi).first \in 0 .. size - 1
      BY <1>4, <2>1, <2>3
    <3>2. i = -1 => qi = 0
      BY <1>3, <2>3, <3>1
    <3>3. ASSUME i \in 0 .. size - 1 PROVE Located(partitions_, offsets_, qi, i)
      <4>1. partitions_[qi + 1].first <= i
        BY <1>6, <2>3, <3>1, <3>3 DEF Partition
      <4>2. qi + 1 < k => i < partitions_[qi + 2].first
        <5>1. ASSUME qi + 1 < k PROVE qi + 1 \in 0 .. k - 1 /\ (qi + 1) + 1 = qi + 2
          BY <1>3, <3>1, <5>1
        <5>2. ASSUME qi + 1 < k PROVE i + 1 < Partition(qi + 1).first /\ Partition(qi + 1).first \in Int
          BY <1>4, <2>1, <3>1, <5>1, <5>2
        <5>3. QED
          BY <3>3, <5>1, <5>2 DEF Partition
      <4>3. i < Len(offsets_)
        BY <1>2, <1>3, <3>3
      <4>4. QED
        BY <3>1, <4>1, <4>2, <4>3 DEF Located
    <3> HIDE DEF qi
    <3>4. i \in -1 .. size /\ i # size
      BY <1>3, <1>7
    <3>5. Entry(qi, i, it.second).first = i /\ Stands(partitions_, offsets_, Entry(qi, i, it.second))
      BY <1>2, <3>2, <3>3, <3>4, EntryStands
    <3>6. QED
      BY <1>1, <3>5 DEF qi, i
  <2>4. QED
    BY <2>2, <2>3
<1>10. QED
  BY <1>8, <1>9

-----------------------------------------------------------------------------
(* Searching                                                               *)

\* Position k splits the entries into those before t and the others.
Splits(k, t) ==
    /\ k \in 0 .. size
    /\ k > 0 => TimeAt(k - 1) < t
    /\ k < size => t <= TimeAt(k)

\* The position that splits an increasing sequence is a number of entries.
LEMMA SplitCounts ==
    ASSUME Kept(partitions_, offsets_), Increasing, NEW t \in Int, NEW k, Splits(k, t)
    PROVE  k = Cardinality({i \in 0 .. size - 1 : TimeAt(i) < t})
<1>1. size \in Nat /\ size = Len(offsets_) /\ k \in 0 .. size
  BY KeptTypes DEF size, Splits
<1>2. \A i \in 0 .. size - 1 : TimeAt(i) \in Int
  BY <1>1, TimeIs, TimeAtIs
<1>3. ASSUME NEW i \in 0 .. size - 1, i < k PROVE TimeAt(i) < t
  <2>1. k - 1 \in 0 .. size - 1 /\ TimeAt(k - 1) < t
    BY <1>1, <1>3 DEF Splits
  <2>2. i = k - 1 \/ TimeAt(i) < TimeAt(k - 1)
    BY <1>1, <1>3, <2>1 DEF Increasing
  <2>3. QED
    BY <1>2, <2>1, <2>2
<1>4. ASSUME NEW i \in 0 .. size - 1, k <= i PROVE ~(TimeAt(i) < t)
  <2>1. k \in 0 .. size - 1 /\ t <= TimeAt(k)
    BY <1>1, <1>4 DEF Splits
  <2>2. i = k \/ TimeAt(k) < TimeAt(i)
    BY <1>1, <1>4, <2>1 DEF Increasing
  <2>3. QED
    BY <1>2, <2>1, <2>2
<1>5. {i \in 0 .. size - 1 : TimeAt(i) < t} = 0 .. k - 1
  <2>1. \A i \in 0 .. size - 1 : TimeAt(i) < t <=> i < k
    BY <1>1, <1>3, <1>4
  <2>2. \A i : i \in 0 .. k - 1 <=> i \in 0 .. size - 1 /\ i < k
    BY <1>1
  <2>3. QED
    BY <2>1, <2>2
<1>6. Cardinality(0 .. k - 1) = k
  <2>1. Cardinality(0 .. k - 1) = IF 0 > k - 1 THEN 0 ELSE (k - 1) - 0 + 1
    BY <1>1, FS_Interval
  <2>2. QED
    BY <1>1, <2>1
<1>7. QED
  BY <1>5, <1>6

\* Partitions are in the order of their times if the entries are.
LEMMA PartitionTimes ==
    ASSUME Kept(partitions_, offsets_), NEW q \in 0 .. Len(partitions_) - 1
    PROVE  /\ Partition(q).first \in 0 .. size - 1 /\ Partition(q).second \in Int
           /\ TimeAt(Partition(q).first) = Partition(q).second
           /\ EndOf(q) \in Partition(q).first + 1 .. size
           /\ \A i \in Partition(q).first .. EndOf(q) - 1 :
                 /\ Located(partitions_, offsets_, q, i)
                 /\ TimeAt(i) = Partition(q).second + Offset(i)
<1> DEFINE k == Len(partitions_)
           a == Partition(q).first
           b == EndOf(q)
<1>1. k \in Nat /\ size \in Nat /\ size = Len(offsets_) /\ q + 1 \in 1 .. k
  BY KeptTypes DEF size
<1>2. a \in 0 .. size - 1 /\ Partition(q).second \in Int /\ TimeAt(a) = Partition(q).second
  BY <1>1, StartIs, TimeAtIs DEF Partition
<1>3. b \in a + 1 .. size /\ b = IF q + 1 < k THEN partitions_[q + 2].first ELSE size
  <2>1. CASE q + 1 < k
    <3>1. q + 2 \in 1 .. k /\ q + 1 < q + 2 /\ (q + 1) + 1 = q + 2
      BY <1>1, <2>1
    <3>2. b = partitions_[q + 2].first
      BY <2>1, <3>1 DEF EndOf, Partition
    <3>3. partitions_[q + 2].first \in Nat /\ partitions_[q + 2].first < size
      BY <1>1, <3>1, KeptTypes
    <3>4. a < partitions_[q + 2].first
      BY <1>1, <3>1, KeptOrder DEF Partition
    <3>5. QED
      BY <1>1, <1>2, <2>1, <3>2, <3>3, <3>4
  <2>2. CASE ~(q + 1 < k)
    <3>1. b = size
      BY <2>2 DEF EndOf
    <3>2. QED
      BY <1>1, <1>2, <2>2, <3>1
  <2>3. QED
    BY <2>1, <2>2
<1>4. ASSUME NEW i \in a .. b - 1
      PROVE  Located(partitions_, offsets_, q, i) /\ TimeAt(i) = Partition(q).second + Offset(i)
  <2>1. i \in Int /\ a <= i /\ i < b
    BY <1>2, <1>3
  <2> HIDE DEF b
  <2>2. Located(partitions_, offsets_, q, i)
    BY <1>1, <1>3, <2>1 DEF Located, Partition
  <2>3. QED
    BY <2>1, <2>2, PartOfIs, TimeAtIs DEF Partition, Offset
<1>5. QED
  BY <1>2, <1>3, <1>4

\* Where the search within partition q ends splits the entries.
LEMMA WithinSplits ==
    ASSUME Kept(partitions_, offsets_), Increasing, NEW t \in Int,
           NEW q \in 0 .. Len(partitions_) - 1, Partition(q).second < t,
           q + 1 < Len(partitions_) => t <= Partition(q + 1).second,
           NEW k \in Partition(q).first + 1 .. EndOf(q),
           k < EndOf(q) => t <= Partition(q).second + Offset(k),
           \A j \in Partition(q).first + 1 .. k - 1 : Partition(q).second + Offset(j) < t
    PROVE  Splits(k, t)
<1> DEFINE a == Partition(q).first
           b == EndOf(q)
           N == Len(partitions_)
<1>1. /\ a \in 0 .. size - 1 /\ TimeAt(a) = Partition(q).second /\ b \in a + 1 .. size
      /\ \A i \in a .. b - 1 : TimeAt(i) = Partition(q).second + Offset(i)
      /\ N \in Nat /\ size \in Nat
  BY PartitionTimes, KeptTypes DEF size
<1>2. k \in a + 1 .. b
  OBVIOUS
<1>3. TimeAt(k - 1) < t
  <2>1. CASE k - 1 = a
    BY <1>1, <2>1
  <2>2. CASE k - 1 # a
    <3> HIDE DEF a, b
    <3>1. k - 1 \in a + 1 .. k - 1 /\ k - 1 \in a .. b - 1
      BY <1>1, <1>2, <2>2
    <3>2. Partition(q).second + Offset(k - 1) < t
      BY <3>1 DEF a
    <3>3. QED
      BY <1>1, <3>1, <3>2
  <2>3. QED
    BY <2>1, <2>2
<1>4. ASSUME k < size PROVE t <= TimeAt(k)
  <2>1. CASE k < b
    <3>1. k \in a .. b - 1
      BY <1>1, <1>2, <2>1
    <3>2. QED
      BY <1>1, <2>1, <3>1
  <2>2. CASE ~(k < b)
    <3>1. k = b
      BY <1>1, <1>2, <2>2
    <3>2. b # size
      BY <1>4, <3>1, <1>1
    <3>3. q + 1 < N /\ b = Partition(q + 1).first
      BY <3>2 DEF EndOf
    <3>4. q + 1 \in 0 .. N - 1
      BY <1>1, <3>3
    <3>5. TimeAt(Partition(q + 1).first) = Partition(q + 1).second
      BY <3>4, PartitionTimes
    <3>6. QED
      BY <3>1, <3>3, <3>5
  <2>3. QED
    BY <2>1, <2>2
<1>5. k \in 0 .. size
  BY <1>1, <1>2
<1>6. QED
  BY <1>3, <1>4, <1>5 DEF Splits

\* Both searches have a result.
LEMMA SearchesEnd ==
    ASSUME Kept(partitions_, offsets_), NEW t \in Int
    PROVE  /\ \E p \in 0 .. Len(partitions_) :
                 /\ p < Len(partitions_) => t <= Partition(p).second
                 /\ \A j \in 0 .. p - 1 : Partition(j).second < t
           /\ \A q \in 0 .. Len(partitions_) - 1 :
                 \E i \in Partition(q).first + 1 .. EndOf(q) :
                    /\ i < EndOf(q) => t <= Partition(q).second + Offset(i)
                    /\ \A j \in Partition(q).first + 1 .. i - 1 : Partition(q).second + Offset(j) < t
<1> DEFINE k == Len(partitions_)
<1>1. k \in Nat /\ size \in Nat /\ size = Len(offsets_)
  BY KeptTypes DEF size
<1>2. \A q \in 0 .. k - 1 : Partition(q).second \in Int
  BY PartitionTimes
<1>3. \A i \in 0 .. size - 1 : Offset(i) \in Int
  <2>1. \A i \in 0 .. size - 1 : i + 1 \in 1 .. Len(offsets_)
    BY <1>1
  <2>2. QED
    BY <2>1, KeptTypes DEF Offset
<1> HIDE DEF k
<1>4. \E p \in 0 .. k :
         (p < k => t <= Partition(p).second) /\ \A j \in 0 .. p - 1 : Partition(j).second < t
  <2> DEFINE S == {q \in Int : t <= Partition(q).second}
  <2>1. PICK p \in 0 .. k : (p < k => p \in S) /\ \A j \in 0 .. p - 1 : j \notin S
    <3> HIDE DEF S
    <3>1. 0 \in Int /\ k \in Int /\ 0 <= k
      BY <1>1
    <3>2. QED
      BY <3>1, FirstExists
  <2>2. \A j \in 0 .. p - 1 : Partition(j).second < t
    <3>1. ASSUME NEW j \in 0 .. p - 1 PROVE Partition(j).second < t
      <4>1. j \in 0 .. k - 1 /\ ~(t <= Partition(j).second)
        BY <1>1, <2>1
      <4>2. QED
        BY <1>2, <4>1
    <3>2. QED
      BY <3>1
  <2>3. QED
    BY <2>1, <2>2
<1>5. ASSUME NEW q \in 0 .. k - 1
      PROVE  \E i \in Partition(q).first + 1 .. EndOf(q) :
                /\ i < EndOf(q) => t <= Partition(q).second + Offset(i)
                /\ \A j \in Partition(q).first + 1 .. i - 1 : Partition(q).second + Offset(j) < t
  <2> DEFINE lo == Partition(q).first + 1
             hi == EndOf(q)
             S == {i \in Int : t <= Partition(q).second + Offset(i)}
  <2>1. lo \in 1 .. size /\ hi \in lo .. size /\ Partition(q).second \in Int
    BY <1>1, <1>5, PartitionTimes DEF k
  <2> HIDE DEF lo, hi
  <2>2. PICK i \in lo .. hi : (i < hi => i \in S) /\ \A j \in lo .. i - 1 : j \notin S
    <3> HIDE DEF S
    <3>1. lo \in Int /\ hi \in Int /\ lo <= hi
      BY <1>1, <2>1
    <3>2. QED
      BY <3>1, FirstExists
  <2>3. \A j \in lo .. i - 1 : Partition(q).second + Offset(j) < t
    <3>1. ASSUME NEW j \in lo .. i - 1 PROVE Partition(q).second + Offset(j) < t
      <4>1. j \in 0 .. size - 1 /\ ~(t <= Partition(q).second + Offset(j))
        BY <1>1, <2>1, <2>2
      <4>2. QED
        BY <1>3, <2>1, <4>1
    <3>2. QED
      BY <3>1
  <2>4. QED
    BY <2>2, <2>3 DEF lo, hi
<1>6. QED
  BY <1>4, <1>5 DEF k

\* What is found at position r[2] of partition r[1].
Found(r, t) ==
    /\ Splits(r[2], t)
    /\ Len(partitions_) # 0 =>
          /\ r[1] \in 0 .. Len(partitions_) - 1 /\ r[2] <= EndOf(r[1])
          /\ r[2] < EndOf(r[1]) => Located(partitions_, offsets_, r[1], r[2])

\* The search within the partition before the first one that is not before t.
LEMMA FoundWithin ==
    ASSUME Kept(partitions_, offsets_), Increasing, NEW t \in Int,
           NEW p \in 1 .. Len(partitions_),
           p < Len(partitions_) => t <= Partition(p).second,
           Partition(p - 1).second < t,
           NEW k \in Partition(p - 1).first + 1 .. EndOf(p - 1),
           k < EndOf(p - 1) => t <= Partition(p - 1).second + Offset(k),
           \A j \in Partition(p - 1).first + 1 .. k - 1 : Partition(p - 1).second + Offset(j) < t
    PROVE  Found(<<p - 1, k>>, t)
<1> DEFINE q == p - 1
           N == Len(partitions_)
<1>1. N \in Nat /\ q \in 0 .. N - 1 /\ q + 1 = p
  BY KeptTypes
<1>2. /\ Partition(q).first \in 0 .. size - 1 /\ EndOf(q) \in Partition(q).first + 1 .. size
      /\ \A i \in Partition(q).first .. EndOf(q) - 1 : Located(partitions_, offsets_, q, i)
      /\ size \in Nat
  BY <1>1, PartitionTimes, KeptTypes DEF size
<1>3. /\ Partition(q).second < t
      /\ q + 1 < N => t <= Partition(q + 1).second
      /\ k \in Partition(q).first + 1 .. EndOf(q)
      /\ k < EndOf(q) => t <= Partition(q).second + Offset(k)
      /\ \A j \in Partition(q).first + 1 .. k - 1 : Partition(q).second + Offset(j) < t
  BY <1>1
<1> HIDE DEF q
<1>4. Splits(k, t)
  BY <1>1, <1>3, WithinSplits
<1>5. k < EndOf(q) => Located(partitions_, offsets_, q, k)
  BY <1>2, <1>3
<1>6. k <= EndOf(q)
  BY <1>2, <1>3
<1>7. Found(<<q, k>>, t)
  BY <1>1, <1>4, <1>5, <1>6 DEF Found
<1>8. QED
  BY <1>7 DEF q

\* Nothing is before t.
LEMMA FoundFirst ==
    ASSUME Kept(partitions_, offsets_), Increasing, NEW t \in Int,
           Len(partitions_) # 0 => t <= Partition(0).second
    PROVE  Found(<<0, 0>>, t)
<1> DEFINE N == Len(partitions_)
<1>1. N \in Nat /\ size \in Nat /\ (N = 0 <=> size = 0)
  BY KeptTypes DEF size
<1>2. CASE N = 0
  BY <1>1, <1>2 DEF Found, Splits
<1>3. CASE N # 0
  <2>1. 0 \in 0 .. N - 1
    BY <1>1, <1>3
  <2>2. Partition(0).first = 0
    BY <1>3, KeptOrder DEF Partition
  <2>3. TimeAt(0) = Partition(0).second /\ EndOf(0) \in 1 .. size
        /\ \A i \in 0 .. EndOf(0) - 1 : Located(partitions_, offsets_, 0, i)
    BY <2>1, <2>2, PartitionTimes
  <2>4. Located(partitions_, offsets_, 0, 0)
    BY <1>1, <2>3
  <2>5. Splits(0, t)
    BY <1>1, <1>3, <2>3 DEF Splits
  <2>6. 0 <= EndOf(0)
    BY <2>3
  <2>7. QED
    BY <2>1, <2>4, <2>5, <2>6 DEF Found
<1>4. QED
  BY <1>2, <1>3

LEMMA LowerBoundFound ==
    ASSUME Kept(partitions_, offsets_), Increasing, NEW t \in Int
    PROVE  Found(lower_bound(t), t)
<1> DEFINE N == Len(partitions_)
           Right(i) == (i < N => Partition(i).second >= t) /\ \A j \in 0 .. i - 1 : ~(Partition(j).second >= t)
           p == CHOOSE i \in 0 .. N : Right(i)
           lo == Partition(p - 1).first + 1
           hi == EndOf(p - 1)
           Here(i) == /\ i < hi => Partition(p - 1).second + Offset(i) >= t
                      /\ \A j \in lo .. i - 1 : ~(Partition(p - 1).second + Offset(j) >= t)
           w == CHOOSE i \in lo .. hi : Here(i)
<1>1. N \in Nat /\ partitions_ \in Seq(PartitionSet)
  BY KeptTypes DEF Kept
<1>2. empty <=> N = 0
  BY <1>1, EmptySeq DEF empty
<1>3. lower_bound(t) =
          CASE empty -> <<0, 0>>
            [] ~empty /\ p < N /\ Partition(p).second = t -> <<p, Partition(p).first>>
            [] ~empty /\ p = 0 /\ Partition(0).second # t -> <<0, 0>>
            [] OTHER -> <<p - 1, w>>
  BY DEF lower_bound, First, Within
<1>4. \A q \in 0 .. N - 1 : Partition(q).second \in Int
  BY PartitionTimes
<1>5. p \in 0 .. N /\ Right(p)
  <2>1. PICK i \in 0 .. N : /\ i < N => t <= Partition(i).second
                            /\ \A j \in 0 .. i - 1 : Partition(j).second < t
    BY SearchesEnd
  <2>2. Right(i)
    <3>1. i < N => Partition(i).second >= t
      BY <1>1, <1>4, <2>1
    <3>2. \A j \in 0 .. i - 1 : Partition(j).second \in Int
      BY <1>1, <1>4
    <3>3. QED
      BY <2>1, <3>1, <3>2
  <2> HIDE DEF Right
  <2>3. QED
    BY <2>2
<1> HIDE DEF p
<1>6. CASE empty
  BY <1>2, <1>3, <1>6, FoundFirst
<1>7. CASE ~empty /\ p < N /\ Partition(p).second = t
  <2>1. lower_bound(t) = <<p, Partition(p).first>> /\ p \in 0 .. N - 1
    BY <1>1, <1>3, <1>5, <1>7
  <2> DEFINE k == Partition(p).first
  <2>2. /\ k \in 0 .. size - 1 /\ TimeAt(k) = t
        /\ EndOf(p) \in k + 1 .. size
        /\ \A i \in k .. EndOf(p) - 1 : Located(partitions_, offsets_, p, i)
    BY <1>7, <2>1, PartitionTimes
  <2>3. size \in Nat /\ size = Len(offsets_)
    BY KeptTypes DEF size
  <2>4. k > 0 => TimeAt(k - 1) < t
    BY <2>2, <2>3 DEF Increasing
  <2>5. Located(partitions_, offsets_, p, k) /\ k <= EndOf(p)
    BY <2>2, <2>3
  <2> HIDE DEF k
  <2>6. Splits(k, t)
    BY <2>2, <2>3, <2>4 DEF Splits
  <2>7. QED
    BY <2>1, <2>5, <2>6 DEF Found, k
<1>8. CASE ~empty /\ ~(p < N /\ Partition(p).second = t) /\ p = 0
  <2>1. 0 < N /\ Partition(0).second # t /\ Partition(0).second >= t /\ Partition(0).second \in Int
    BY <1>1, <1>2, <1>4, <1>5, <1>8
  <2>2. lower_bound(t) = <<0, 0>>
    BY <1>3, <1>8, <2>1
  <2>3. t <= Partition(0).second
    BY <2>1
  <2>4. QED
    BY <2>2, <2>3, FoundFirst
<1>9. CASE ~empty /\ ~(p < N /\ Partition(p).second = t) /\ p # 0
  <2>1. lower_bound(t) = <<p - 1, w>>
    BY <1>3, <1>9
  <2>2. p \in 1 .. N /\ p - 1 \in 0 .. N - 1 /\ p - 1 \in 0 .. p - 1
    BY <1>1, <1>5, <1>9
  <2>3. Partition(p - 1).second < t /\ (p < N => t <= Partition(p).second)
    <3>1. Partition(p - 1).second \in Int /\ ~(Partition(p - 1).second >= t)
      BY <1>4, <1>5, <2>2
    <3>2. ASSUME p < N PROVE t <= Partition(p).second
      <4>1. p \in 0 .. N - 1 /\ Partition(p).second >= t
        BY <1>1, <1>5, <2>2, <3>2
      <4>2. QED
        BY <1>4, <4>1
    <3>3. QED
      BY <3>1, <3>2
  <2>4. Partition(p - 1).second \in Int /\ lo \in 1 .. size /\ hi \in lo .. size
        /\ size \in Nat /\ size = Len(offsets_)
    BY <2>2, PartitionTimes, KeptTypes DEF size
  <2>5. \A i \in 0 .. size - 1 : Offset(i) \in Int
    <3>1. \A i \in 0 .. size - 1 : i + 1 \in 1 .. Len(offsets_)
      BY <2>4
    <3>2. QED
      BY <3>1, KeptTypes DEF Offset
  <2>6. PICK i0 \in lo .. hi : /\ i0 < hi => t <= Partition(p - 1).second + Offset(i0)
                               /\ \A j \in lo .. i0 - 1 : Partition(p - 1).second + Offset(j) < t
    BY <2>2, SearchesEnd
  <2> HIDE DEF lo, hi
  <2>7. Here(i0)
    <3>1. ASSUME i0 < hi PROVE Partition(p - 1).second + Offset(i0) >= t
      <4>1. i0 \in 0 .. size - 1
        BY <2>4, <3>1
      <4>2. Partition(p - 1).second + Offset(i0) \in Int
        BY <2>4, <2>5, <4>1
      <4>3. QED
        BY <2>6, <3>1, <4>2
    <3>2. ASSUME NEW j \in lo .. i0 - 1 PROVE ~(Partition(p - 1).second + Offset(j) >= t)
      <4>1. j \in 0 .. size - 1
        BY <2>4, <3>2
      <4>2. Partition(p - 1).second + Offset(j) \in Int
        BY <2>4, <2>5, <4>1
      <4>3. Partition(p - 1).second + Offset(j) < t
        BY <2>6
      <4>4. QED
        BY <4>2, <4>3
    <3>3. QED
      BY <3>1, <3>2
  <2>8. w \in lo .. hi /\ Here(w)
    <3> HIDE DEF Here
    <3> QED  BY <2>7
  <2> HIDE DEF w
  <2>9. w < hi => t <= Partition(p - 1).second + Offset(w)
    <3>1. ASSUME w < hi PROVE t <= Partition(p - 1).second + Offset(w)
      <4>1. w \in 0 .. size - 1
        BY <2>4, <2>8, <3>1
      <4>2. Partition(p - 1).second + Offset(w) \in Int /\ Partition(p - 1).second + Offset(w) >= t
        BY <2>4, <2>5, <2>8, <3>1, <4>1
      <4>3. QED
        BY <4>2
    <3>2. QED
      BY <3>1
  <2>10. \A j \in lo .. w - 1 : Partition(p - 1).second + Offset(j) < t
    <3>1. ASSUME NEW j \in lo .. w - 1 PROVE Partition(p - 1).second + Offset(j) < t
      <4>1. j \in 0 .. size - 1
        BY <2>4, <2>8
      <4>2. Partition(p - 1).second + Offset(j) \in Int
        BY <2>4, <2>5, <4>1
      <4>3. ~(Partition(p - 1).second + Offset(j) >= t)
        BY <2>8
      <4>4. QED
        BY <4>2, <4>3
    <3>2. QED
      BY <3>1
  <2>11. Found(<<p - 1, w>>, t)
    BY <2>2, <2>3, <2>8, <2>9, <2>10, FoundWithin DEF lo, hi
  <2>12. QED
    BY <2>1, <2>11
<1>10. QED
  BY <1>6, <1>7, <1>8, <1>9

\* The upper bound of t is the lower bound of the next number.
LEMMA UpperBoundFound ==
    ASSUME Kept(partitions_, offsets_), Increasing, NEW t \in Int
    PROVE  Found(upper_bound(t), t + 1)
<1> DEFINE N == Len(partitions_)
           u == t + 1
           Right(i) == (i < N => Partition(i).second > t) /\ \A j \in 0 .. i - 1 : ~(Partition(j).second > t)
           p == CHOOSE i \in 0 .. N : Right(i)
           lo == Partition(p - 1).first + 1
           hi == EndOf(p - 1)
           Here(i) == /\ i < hi => Partition(p - 1).second + Offset(i) > t
                      /\ \A j \in lo .. i - 1 : ~(Partition(p - 1).second + Offset(j) > t)
           w == CHOOSE i \in lo .. hi : Here(i)
<1>1. N \in Nat /\ partitions_ \in Seq(PartitionSet) /\ u \in Int /\ \A s \in Int : s > t <=> u <= s
  BY KeptTypes DEF Kept
<1>2. empty <=> N = 0
  BY <1>1, EmptySeq DEF empty
<1>3. upper_bound(t) = IF empty \/ p = 0 THEN <<0, 0>> ELSE <<p - 1, w>>
  BY DEF upper_bound, First, Within
<1>4. \A q \in 0 .. N - 1 : Partition(q).second \in Int
  BY PartitionTimes
<1> HIDE DEF u
<1>5. p \in 0 .. N /\ Right(p)
  <2>1. PICK i \in 0 .. N : /\ i < N => u <= Partition(i).second
                            /\ \A j \in 0 .. i - 1 : Partition(j).second < u
    BY <1>1, SearchesEnd
  <2>2. Right(i)
    <3>1. ASSUME i < N PROVE Partition(i).second > t
      <4>1. Partition(i).second \in Int /\ u <= Partition(i).second
        BY <1>1, <1>4, <2>1, <3>1
      <4>2. QED
        BY <1>1, <4>1
    <3>2. ASSUME NEW j \in 0 .. i - 1 PROVE ~(Partition(j).second > t)
      <4>1. Partition(j).second \in Int /\ Partition(j).second < u
        BY <1>1, <1>4, <2>1
      <4>2. ~(u <= Partition(j).second)
        BY <1>1, <4>1
      <4>3. QED
        BY <1>1, <4>1, <4>2
    <3>3. QED
      BY <3>1, <3>2
  <2> HIDE DEF Right
  <2>3. QED
    BY <2>2
<1> HIDE DEF p
<1>6. CASE empty
  BY <1>1, <1>2, <1>3, <1>6, FoundFirst DEF u
<1>7. CASE ~empty /\ p = 0
  <2>1. 0 < N /\ Partition(0).second > t /\ Partition(0).second \in Int
    BY <1>1, <1>2, <1>4, <1>5, <1>7
  <2>2. u <= Partition(0).second
    BY <1>1, <2>1
  <2>3. Found(<<0, 0>>, u)
    BY <1>1, <2>2, FoundFirst
  <2>4. QED
    BY <1>3, <1>7, <2>3 DEF u
<1>8. CASE ~empty /\ p # 0
  <2>1. upper_bound(t) = <<p - 1, w>>
    BY <1>3, <1>8
  <2>2. p \in 1 .. N /\ p - 1 \in 0 .. N - 1 /\ p - 1 \in 0 .. p - 1
    BY <1>1, <1>5, <1>8
  <2>3. Partition(p - 1).second < u /\ (p < N => u <= Partition(p).second)
    <3>1. Partition(p - 1).second \in Int /\ ~(Partition(p - 1).second > t)
      BY <1>4, <1>5, <2>2
    <3>2. ASSUME p < N PROVE u <= Partition(p).second
      <4>1. p \in 0 .. N - 1 /\ Partition(p).second > t
        BY <1>1, <1>5, <2>2, <3>2
      <4>2. QED
        BY <1>1, <1>4, <4>1
    <3>3. QED
      BY <1>1, <3>1, <3>2
  <2>4. Partition(p - 1).second \in Int /\ lo \in 1 .. size /\ hi \in lo .. size
        /\ size \in Nat /\ size = Len(offsets_)
    BY <2>2, PartitionTimes, KeptTypes DEF size
  <2>5. \A i \in 0 .. size - 1 : Partition(p - 1).second + Offset(i) \in Int
    <3>1. \A i \in 0 .. size - 1 : i + 1 \in 1 .. Len(offsets_)
      BY <2>4
    <3>2. \A i \in 0 .. size - 1 : Offset(i) \in Int
      BY <3>1, KeptTypes DEF Offset
    <3>3. QED
      BY <2>4, <3>2
  <2>6. PICK i0 \in lo .. hi : /\ i0 < hi => u <= Partition(p - 1).second + Offset(i0)
                               /\ \A j \in lo .. i0 - 1 : Partition(p - 1).second + Offset(j) < u
    BY <1>1, <2>2, SearchesEnd
  <2> HIDE DEF lo, hi
  <2>7. Here(i0)
    <3>1. ASSUME i0 < hi PROVE Partition(p - 1).second + Offset(i0) > t
      <4>1. i0 \in 0 .. size - 1
        BY <2>4, <3>1
      <4>2. Partition(p - 1).second + Offset(i0) \in Int /\ u <= Partition(p - 1).second + Offset(i0)
        BY <2>5, <2>6, <3>1, <4>1
      <4>3. QED
        BY <1>1, <4>2
    <3>2. ASSUME NEW j \in lo .. i0 - 1 PROVE ~(Partition(p - 1).second + Offset(j) > t)
      <4>1. j \in 0 .. size - 1
        BY <2>4, <3>2
      <4>2. Partition(p - 1).second + Offset(j) \in Int /\ Partition(p - 1).second + Offset(j) < u
        BY <2>5, <2>6, <4>1
      <4>3. ~(u <= Partition(p - 1).second + Offset(j))
        BY <1>1, <4>2
      <4>4. QED
        BY <1>1, <4>2, <4>3
    <3>3. QED
      BY <3>1, <3>2
  <2>8. w \in lo .. hi /\ Here(w)
    <3> HIDE DEF Here
    <3> QED  BY <2>7
  <2> HIDE DEF w
  <2>9. w < hi => u <= Partition(p - 1).second + Offset(w)
    <3>1. ASSUME w < hi PROVE u <= Partition(p - 1).second + Offset(w)
      <4>1. w \in 0 .. size - 1
        BY <2>4, <2>8, <3>1
      <4>2. Partition(p - 1).second + Offset(w) \in Int /\ Partition(p - 1).second + Offset(w) > t
        BY <2>5, <2>8, <3>1, <4>1
      <4>3. QED
        BY <1>1, <4>2
    <3>2. QED
      BY <3>1
  <2>10. \A j \in lo .. w - 1 : Partition(p - 1).second + Offset(j) < u
    <3>1. ASSUME NEW j \in lo .. w - 1 PROVE Partition(p - 1).second + Offset(j) < u
      <4>1. j \in 0 .. size - 1
        BY <2>4, <2>8
      <4>2. Partition(p - 1).second + Offset(j) \in Int
        BY <2>5, <4>1
      <4>3. ~(Partition(p - 1).second + Offset(j) > t)
        BY <2>8
      <4>4. ~(u <= Partition(p - 1).second + Offset(j))
        BY <1>1, <4>2, <4>3
      <4>5. QED
        BY <1>1, <4>2, <4>4
    <3>2. QED
      BY <3>1
  <2>11. Found(<<p - 1, w>>, u)
    BY <1>1, <2>2, <2>3, <2>8, <2>9, <2>10, FoundWithin DEF lo, hi
  <2>12. QED
    BY <2>1, <2>11 DEF u
<1>9. QED
  BY <1>6, <1>7, <1>8

-----------------------------------------------------------------------------
(* Appending                                                               *)

\* One entry more, and at most one partition more, that begins with it.
Grown(ps, os, ps2, os2) ==
    /\ Kept(ps2, os2)
    /\ Len(os2) = Len(os) + 1
    /\ \A k \in 1 .. Len(os) : os2[k] = os[k]
    /\ \A j \in 1 .. Len(ps) : ps2[j] = ps[j]
    /\ \/ Len(ps2) = Len(ps)
       \/ Len(ps2) = Len(ps) + 1 /\ ps2[Len(ps) + 1].first = Len(os)

\* The entries there were stay in their partitions, at their times.
LEMMA GrownKeeps ==
    ASSUME NEW ps, NEW os, Kept(ps, os), NEW ps2, NEW os2, Grown(ps, os, ps2, os2),
           NEW i \in 0 .. Len(os) - 1, NEW q, Located(ps, os, q, i)
    PROVE  Located(ps2, os2, q, i) /\ Time(ps2, os2, i) = Time(ps, os, i)
<1> DEFINE n == Len(ps)
<1>1. /\ n \in Nat /\ Len(os) \in Nat /\ i \in Int /\ q \in 0 .. n - 1
      /\ \A j \in 1 .. n : ps[j].first \in Nat
  BY KeptTypes DEF Located
<1>2. /\ Kept(ps2, os2) /\ Len(os2) = Len(os) + 1
      /\ \A k \in 1 .. Len(os) : os2[k] = os[k]
      /\ \A j \in 1 .. n : ps2[j] = ps[j]
      /\ \/ Len(ps2) = n
         \/ Len(ps2) = n + 1 /\ ps2[n + 1].first = Len(os)
  BY DEF Grown
<1>3. ps[q + 1].first <= i /\ i < IF q + 1 < n THEN ps[q + 2].first ELSE Len(os)
  BY DEF Located
<1> HIDE DEF n
<1>4. q + 1 \in 1 .. n /\ i + 1 \in 1 .. Len(os) /\ (q + 1 < n => q + 2 \in 1 .. n)
  BY <1>1
<1>5. ps2[q + 1] = ps[q + 1] /\ os2[i + 1] = os[i + 1] /\ (q + 1 < n => ps2[q + 2] = ps[q + 2])
  BY <1>2, <1>4
<1>6. q \in 0 .. Len(ps2) - 1
  BY <1>1, <1>2
<1>7. i < IF q + 1 < Len(ps2) THEN ps2[q + 2].first ELSE Len(os2)
  <2>1. CASE q + 1 < n
    <3>1. q + 1 < Len(ps2)
      BY <1>1, <1>2, <2>1
    <3>2. QED
      BY <1>3, <1>5, <2>1, <3>1
  <2>2. CASE ~(q + 1 < n)
    <3>1. q + 1 = n /\ q + 2 = n + 1 /\ i < Len(os)
      BY <1>1, <1>3, <2>2
    <3>2. CASE Len(ps2) = n
      BY <1>1, <1>2, <3>1, <3>2
    <3>3. CASE Len(ps2) = n + 1 /\ ps2[n + 1].first = Len(os)
      BY <1>1, <3>1, <3>3
    <3>4. QED
      BY <1>2, <3>2, <3>3
  <2>3. QED
    BY <2>1, <2>2
<1>8. Located(ps2, os2, q, i)
  BY <1>3, <1>5, <1>6, <1>7 DEF Located
<1>9. Time(ps, os, i) = ps[q + 1].second + os[i + 1]
  BY <1>1, PartOfIs
<1>10. Time(ps2, os2, i) = ps2[q + 1].second + os2[i + 1]
  BY <1>1, <1>2, <1>8, PartOfIs
<1>11. QED
  BY <1>5, <1>8, <1>9, <1>10

\* The new entry is in the last partition.
LEMMA GrownEntry ==
    ASSUME NEW ps, NEW os, Kept(ps, os), NEW ps2, NEW os2, Grown(ps, os, ps2, os2)
    PROVE  Time(ps2, os2, Len(os)) = ps2[Len(ps2)].second + os2[Len(os) + 1]
<1> DEFINE q == Len(ps2) - 1
           i == Len(os)
<1>1. Kept(ps2, os2) /\ Len(os2) = i + 1 /\ i \in Nat
  BY KeptTypes DEF Grown
<1>2. Len(ps2) \in Nat /\ Len(ps2) # 0
  BY <1>1, KeptTypes
<1>3. Len(ps2) \in 1 .. Len(ps2) /\ q + 1 = Len(ps2) /\ q \in 0 .. Len(ps2) - 1
  BY <1>2
<1>4. ps2[q + 1].first \in Nat /\ ps2[q + 1].first < i + 1
  BY <1>1, <1>3, KeptTypes
<1>5. Located(ps2, os2, q, i)
  BY <1>1, <1>3, <1>4 DEF Located
<1>6. i \in Int
  BY <1>1
<1> HIDE DEF q, i
<1>7. Time(ps2, os2, i) = ps2[q + 1].second + os2[i + 1]
  BY <1>1, <1>5, <1>6, PartOfIs
<1>8. QED
  BY <1>3, <1>7 DEF i

\* An iterator that did not stand at the end still stands where it stood.
LEMMA GrownIterator ==
    ASSUME NEW ps, NEW os, Kept(ps, os), NEW ps2, NEW os2, Grown(ps, os, ps2, os2),
           NEW x, x.first \in -1 .. Len(os)
    PROVE  /\ x.first \in -1 .. Len(os2)
           /\ Stands(ps, os, x) /\ x.first < Len(os) => Stands(ps2, os2, x)
<1>1. Len(os) \in Nat /\ Len(os2) = Len(os) + 1
  BY KeptTypes DEF Grown
<1>2. x.first \in -1 .. Len(os2)
  BY <1>1
<1>3. ASSUME Stands(ps, os, x), x.first < Len(os)
      PROVE  Stands(ps2, os2, x)
  <2>1. (x.first = -1 => x.qi = 0) /\ x.first # Len(os2)
    BY <1>1, <1>3 DEF Stands
  <2>2. ASSUME x.first \in 0 .. Len(os2) - 1
        PROVE  Located(ps2, os2, x.qi, x.first) /\ x.second = Time(ps2, os2, x.first)
    <3>1. x.first \in 0 .. Len(os) - 1
      BY <1>1, <1>3, <2>2
    <3>2. Located(ps, os, x.qi, x.first) /\ x.second = Time(ps, os, x.first)
      BY <1>3, <3>1 DEF Stands
    <3>3. QED
      BY <3>1, <3>2, GrownKeeps
  <2>3. QED
    BY <2>1, <2>2 DEF Stands
<1>4. QED
  BY <1>2, <1>3

\* An entry joins the last partition ...
LEMMA GrowsByEntry ==
    ASSUME NEW ps, NEW os, Kept(ps, os), Len(ps) # 0, NEW d \in Int, Exact(d)
    PROVE  Grown(ps, os, ps, Append(os, d)) /\ Append(os, d)[Len(os) + 1] = d
<1> DEFINE os2 == Append(os, d)
<1>1. /\ Len(ps) \in Nat /\ Len(os) \in Nat /\ Len(os) # 0
      /\ \A j \in 1 .. Len(ps) : /\ ps[j].first \in Nat
                                 /\ ps[j].first < Len(os) /\ os[ps[j].first + 1] = 0
  BY KeptTypes
<1>2. ps \in Seq(PartitionSet) /\ os \in Seq(Int)
  BY DEF Kept
<1>3. /\ os2 \in Seq(Int) /\ Len(os2) = Len(os) + 1 /\ os2[Len(os) + 1] = d
      /\ \A k \in 1 .. Len(os) : os2[k] = os[k]
  BY <1>2, AppendProperties
<1> HIDE DEF os2
<1>4. ASSUME NEW j \in 1 .. Len(ps) PROVE ps[j].first < Len(os2) /\ os2[ps[j].first + 1] = 0
  <2>1. ps[j].first \in Nat /\ ps[j].first < Len(os) /\ os[ps[j].first + 1] = 0
    BY <1>1
  <2>2. ps[j].first + 1 \in 1 .. Len(os) /\ ps[j].first < Len(os) + 1
    BY <1>1, <2>1
  <2>3. os2[ps[j].first + 1] = os[ps[j].first + 1]
    BY <1>3, <2>2
  <2>4. QED
    BY <1>3, <2>1, <2>2, <2>3
<1>5. ASSUME NEW k \in 1 .. Len(os2) PROVE Exact(os2[k])
  <2>1. k = Len(os) + 1 \/ k \in 1 .. Len(os)
    BY <1>1, <1>3
  <2>2. QED
    BY <1>3, <2>1 DEF Kept
<1>6. Kept(ps, os2)
  BY <1>1, <1>2, <1>3, <1>4, <1>5, KeptOrder DEF Kept
<1>7. QED
  BY <1>3, <1>6 DEF Grown, os2

LEMMA ExactZero == Exact(0)
<1>1. 0 \in 0 .. MaxScale /\ Tick(0) = 1 /\ quantity_limit \in Nat \ {0}
  BY TickZero, LimitPhases, MaxScaleAssumption
<1>2. 0 % Tick(0) = 0 /\ Magnitude(0) < quantity_limit * Tick(0)
  BY <1>1 DEF Magnitude
<1>3. QED
  BY <1>1, <1>2 DEF Exact

\* ... or begins a partition.
LEMMA GrowsByPartition ==
    ASSUME NEW ps, NEW os, Kept(ps, os), NEW t \in Int
    PROVE  LET ps2 == Append(ps, [first |-> Len(os), second |-> t])
               os2 == Append(os, 0)
           IN  /\ Grown(ps, os, ps2, os2)
               /\ Len(ps2) = Len(ps) + 1 /\ ps2[Len(ps) + 1].second = t
               /\ os2[Len(os) + 1] = 0
<1> DEFINE x == [first |-> Len(os), second |-> t]
           ps2 == Append(ps, x)
           os2 == Append(os, 0)
<1>1. /\ Len(ps) \in Nat /\ Len(os) \in Nat /\ (Len(ps) = 0 <=> Len(os) = 0)
      /\ \A j \in 1 .. Len(ps) : /\ ps[j].first \in Nat
                                 /\ ps[j].first < Len(os) /\ os[ps[j].first + 1] = 0
  BY KeptTypes
<1>2. ps \in Seq(PartitionSet) /\ os \in Seq(Int) /\ x \in PartitionSet
      /\ x.first = Len(os) /\ x.second = t
  BY <1>1 DEF Kept, PartitionSet
<1> HIDE DEF x
<1>3. /\ os2 \in Seq(Int) /\ Len(os2) = Len(os) + 1 /\ os2[Len(os) + 1] = 0
      /\ \A k \in 1 .. Len(os) : os2[k] = os[k]
  BY <1>2, AppendProperties
<1>4. /\ ps2 \in Seq(PartitionSet) /\ Len(ps2) = Len(ps) + 1 /\ ps2[Len(ps) + 1] = x
      /\ \A j \in 1 .. Len(ps) : ps2[j] = ps[j]
  BY <1>2, AppendProperties
<1> HIDE DEF os2, ps2
<1>5. ASSUME NEW j \in 1 .. Len(ps2) PROVE ps2[j].first < Len(os2) /\ os2[ps2[j].first + 1] = 0
  <2>1. CASE j = Len(ps) + 1
    <3>1. ps2[j].first = Len(os) /\ Len(os) < Len(os2)
      BY <1>1, <1>2, <1>3, <1>4, <2>1
    <3>2. QED
      BY <1>3, <3>1
  <2>2. CASE j \in 1 .. Len(ps)
    <3>1. ps2[j] = ps[j] /\ ps[j].first \in Nat /\ ps[j].first < Len(os) /\ os[ps[j].first + 1] = 0
      BY <1>1, <1>4, <2>2
    <3>2. ps[j].first + 1 \in 1 .. Len(os) /\ ps[j].first < Len(os) + 1
      BY <1>1, <3>1
    <3>3. os2[ps[j].first + 1] = os[ps[j].first + 1]
      BY <1>3, <3>2
    <3>4. QED
      BY <1>3, <3>1, <3>2, <3>3
  <2>3. QED
    BY <1>1, <1>4, <2>1, <2>2
<1>6. ASSUME NEW j \in 1 .. Len(ps2), NEW k \in 1 .. Len(ps2), j < k
      PROVE  ps2[j].first < ps2[k].first
  <2>1. j \in 1 .. Len(ps) /\ ps2[j] = ps[j]
    BY <1>1, <1>4, <1>6
  <2>2. CASE k = Len(ps) + 1
    BY <1>1, <1>2, <1>4, <2>1, <2>2
  <2>3. CASE k \in 1 .. Len(ps)
    BY <1>4, <1>6, <2>1, <2>3, KeptOrder
  <2>4. QED
    BY <1>1, <1>4, <2>2, <2>3
<1>7. ps2[1].first = 0
  <2>1. CASE Len(ps) = 0
    BY <1>1, <1>2, <1>4, <2>1
  <2>2. CASE Len(ps) # 0
    <3>1. 1 \in 1 .. Len(ps)
      BY <1>1, <2>2
    <3>2. QED
      BY <1>4, <2>2, <3>1, KeptOrder
  <2>3. QED
    BY <2>1, <2>2
<1>8. ASSUME NEW k \in 1 .. Len(os2) PROVE Exact(os2[k])
  <2>1. k = Len(os) + 1 \/ k \in 1 .. Len(os)
    BY <1>1, <1>3
  <2>2. QED
    BY <1>3, <2>1, ExactZero DEF Kept
<1>9. Len(ps2) = 0 <=> Len(os2) = 0
  BY <1>1, <1>3, <1>4
<1>10. Kept(ps2, os2)
  BY <1>3, <1>4, <1>5, <1>6, <1>7, <1>8, <1>9 DEF Kept
<1>11. Grown(ps, os, ps2, os2) /\ ps2[Len(ps) + 1].second = t
  BY <1>2, <1>3, <1>4, <1>10 DEF Grown
<1>12. QED
  BY <1>3, <1>4, <1>11 DEF x, ps2, os2

\* What append does to the lists, the time it adds, and when it accepts it.
LEMMA AppendGrows ==
    ASSUME Kept(partitions_, offsets_), NEW t \in TimePoints, append(t)
    PROVE  /\ Grown(partitions_, offsets_, partitions_', offsets_')
           /\ Time(partitions_', offsets_', size) = t
           /\ it' = it /\ (live' => live /\ it.first < size)
           /\ \/ empty \/ TimeAt(size - 1) < t
              \/ ~Exact(t - partitions_[Len(partitions_)].second)
<1> DEFINE n == Len(partitions_)
           d == t - partitions_[n].second
<1>1. /\ n \in Nat /\ size \in Nat /\ size = Len(offsets_) /\ (n = 0 <=> size = 0)
      /\ \A j \in 1 .. n : partitions_[j].second \in Int /\ partitions_[j].first \in Nat
                          /\ partitions_[j].first < size
      /\ \A k \in 1 .. size : offsets_[k] \in Int
  BY KeptTypes DEF size
<1>2. t \in Int
  BY TimeSequenceAssumption
<1>3. empty <=> n = 0
  <2>1. partitions_ \in Seq(PartitionSet)
    BY DEF Kept
  <2>2. QED
    BY <2>1, EmptySeq DEF empty
<1>4. /\ ~Rejected(t)
      /\ IF ~empty /\ Exact(d)
         THEN offsets_' = Append(offsets_, d) /\ UNCHANGED partitions_
         ELSE /\ partitions_' = Append(partitions_, [first |-> size, second |-> t])
              /\ offsets_' = Append(offsets_, 0)
      /\ it' = it /\ (live' => live /\ it.first < size)
  BY DEF append
<1>5. ~empty => n \in 1 .. n /\ partitions_[n].second \in Int /\ d \in Int
                /\ partitions_[n].second + d = t
  BY <1>1, <1>2, <1>3
<1> HIDE DEF n, d
<1>6. CASE ~empty /\ Exact(d)
  <2>1. offsets_' = Append(offsets_, d) /\ partitions_' = partitions_
    BY <1>4, <1>6
  <2>2. Grown(partitions_, offsets_, partitions_', offsets_') /\ offsets_'[size + 1] = d
    <3>1. Len(partitions_) # 0 /\ d \in Int /\ Exact(d)
      BY <1>3, <1>5, <1>6 DEF n
    <3>2. /\ Grown(partitions_, offsets_, partitions_, Append(offsets_, d))
          /\ Append(offsets_, d)[Len(offsets_) + 1] = d
      BY <3>1, GrowsByEntry
    <3>3. Grown(partitions_, offsets_, partitions_', offsets_')
      BY <2>1, <3>2
    <3>4. offsets_'[size + 1] = d
      BY <1>1, <2>1, <3>2
    <3>5. QED
      BY <3>3, <3>4
  <2>3. Time(partitions_', offsets_', size) = t
    <3>1. Time(partitions_', offsets_', Len(offsets_))
              = partitions_'[Len(partitions_')].second + offsets_'[Len(offsets_) + 1]
      BY <2>2, GrownEntry
    <3>2. Time(partitions_', offsets_', size) = partitions_[n].second + d
      BY <1>1, <2>1, <2>2, <3>1 DEF n
    <3>3. QED
      BY <1>5, <1>6, <3>2
  <2>4. TimeAt(size - 1) < t
    <3>1. n # 0 /\ size - 1 \in 0 .. size - 1 /\ (size - 1) + 1 = size /\ (n - 1) + 1 = n
          /\ n - 1 \in 0 .. n - 1 /\ size \in 1 .. size
      BY <1>1, <1>3, <1>6
    <3>2. Located(partitions_, offsets_, n - 1, size - 1)
      <4>1. partitions_[(n - 1) + 1].first <= size - 1
        BY <1>1, <1>5, <1>6, <3>1
      <4>2. ~((n - 1) + 1 < n) /\ size - 1 < Len(offsets_)
        BY <1>1, <3>1
      <4>3. QED
        BY <3>1, <4>1, <4>2 DEF Located, n
    <3>3. Time(partitions_, offsets_, size - 1) = partitions_[(n - 1) + 1].second + offsets_[(size - 1) + 1]
      <4>1. size - 1 \in Int
        BY <1>1
      <4>2. QED
        BY <3>2, <4>1, PartOfIs
    <3>4. TimeAt(size - 1) = partitions_[n].second + offsets_[size]
      BY <3>1, <3>3, TimeAtIs
    <3>5. ~(d <= offsets_[size])
      BY <1>4, <1>6 DEF Rejected, d, n
    <3>6. QED
      BY <1>1, <1>2, <1>5, <1>6, <3>1, <3>4, <3>5
  <2>5. QED
    BY <1>4, <2>2, <2>3, <2>4
<1>7. CASE ~(~empty /\ Exact(d))
  <2>1. /\ partitions_' = Append(partitions_, [first |-> Len(offsets_), second |-> t])
        /\ offsets_' = Append(offsets_, 0)
    BY <1>1, <1>4, <1>7
  <2>2. /\ Grown(partitions_, offsets_, partitions_', offsets_')
        /\ Len(partitions_') = n + 1 /\ partitions_'[n + 1].second = t
        /\ offsets_'[size + 1] = 0
    BY <1>1, <1>2, <2>1, GrowsByPartition DEF n
  <2>3. Time(partitions_', offsets_', size) = t
    <3>1. Time(partitions_', offsets_', size) = t + 0
      BY <1>1, <2>2, GrownEntry
    <3>2. QED
      BY <1>2, <3>1
  <2>4. empty \/ ~Exact(t - partitions_[Len(partitions_)].second)
    BY <1>7 DEF d, n
  <2>5. QED
    BY <1>4, <2>2, <2>3, <2>4
<1>8. QED
  BY <1>6, <1>7

\* The times recorded are those there were and the one appended.
LEMMA GrownTimes ==
    ASSUME Kept(partitions_, offsets_), NEW t \in Int,
           Grown(partitions_, offsets_, partitions_', offsets_'),
           Time(partitions_', offsets_', size) = t
    PROVE  Times' = Append(Times, t)
<1>1. /\ size \in Nat /\ size = Len(offsets_)
      /\ size' = Len(offsets_') /\ size' = size + 1
  BY KeptTypes DEF size, Grown
<1>2. \A k \in 1 .. size : k - 1 \in 0 .. size - 1
  BY <1>1
<1>3. Times \in Seq(Int) /\ Len(Times) = size /\ \A k \in 1 .. size : Times[k] = TimeAt(k - 1)
  <2>1. \A k \in 1 .. size : TimeAt(k - 1) \in Int
    BY <1>1, <1>2, TimeIs, TimeAtIs
  <2>2. Times = [k \in 1 .. size |-> TimeAt(k - 1)]
    BY DEF Times
  <2>3. Times \in Seq(Int)
    BY <1>1, <2>1, <2>2, IsASeq
  <2>4. QED
    BY <1>1, <2>2, <2>3
<1>4. Times' = [k \in 1 .. size + 1 |-> Time(partitions_', offsets_', k - 1)]
  <2>1. Times' = [k \in 1 .. size' |-> TimeAt(k - 1)']
    BY DEF Times
  <2>2. QED
    BY <1>1, <2>1, TimeAtIsThen
<1>5. \A k \in 1 .. size : Times'[k] = Times[k]
  <2>1. ASSUME NEW k \in 1 .. size PROVE Times'[k] = Times[k]
    <3>1. k - 1 \in 0 .. Len(offsets_) - 1 /\ k \in 1 .. size + 1
      BY <1>1
    <3>2. PICK q : Located(partitions_, offsets_, q, k - 1)
      BY <3>1, LocatedSome
    <3>3. Time(partitions_', offsets_', k - 1) = Time(partitions_, offsets_, k - 1)
      BY <3>1, <3>2, GrownKeeps
    <3>4. QED
      BY <1>3, <1>4, <3>1, <3>3, TimeAtIs
  <2>2. QED
    BY <2>1
<1>6. Times'[size + 1] = t
  <2>1. size + 1 \in 1 .. size + 1 /\ (size + 1) - 1 = size
    BY <1>1
  <2>2. QED
    BY <1>4, <2>1
<1>7. /\ Append(Times, t) \in Seq(Int) /\ Len(Append(Times, t)) = size + 1
      /\ \A k \in 1 .. size : Append(Times, t)[k] = Times[k]
      /\ Append(Times, t)[size + 1] = t
  BY <1>3, AppendProperties
<1>8. Times' \in Seq(Int) /\ Len(Times') = size + 1
  <2>1. \A k \in 1 .. size + 1 : Time(partitions_', offsets_', k - 1) \in Int
    <3>1. ASSUME NEW k \in 1 .. size + 1 PROVE Time(partitions_', offsets_', k - 1) \in Int
      <4>1. k - 1 \in 0 .. Len(offsets_') - 1 /\ Kept(partitions_', offsets_')
        BY <1>1 DEF Grown
      <4>2. QED
        BY <4>1, TimeIs
    <3>2. QED
      BY <3>1
  <2>2. size + 1 \in Nat
    BY <1>1
  <2>3. Times' \in Seq(Int)
    BY <1>4, <2>1, <2>2, IsASeq
  <2>4. QED
    BY <1>4, <2>2, <2>3
<1>9. ASSUME NEW k \in 1 .. size + 1 PROVE Times'[k] = Append(Times, t)[k]
  <2>1. k = size + 1 \/ k \in 1 .. size
    BY <1>1
  <2>2. QED
    BY <1>5, <1>6, <1>7, <2>1
<1>10. QED
  BY <1>7, <1>8, <1>9, SeqEqual

-----------------------------------------------------------------------------
(* The invariant                                                           *)

LEMMA EmptyIs ==
    ASSUME Kept(partitions_, offsets_)
    PROVE  empty <=> Len(partitions_) = 0
<1>1. partitions_ \in Seq(PartitionSet)
  BY DEF Kept
<1>2. QED
  BY <1>1, EmptySeq DEF empty

\* begin() and end() stand where they say.
LEMMA ObtainedStands ==
    ASSUME Kept(partitions_, offsets_), NEW x \in {begin, end}
    PROVE  x.first \in 0 .. size /\ Stands(partitions_, offsets_, x)
<1> DEFINE n == Len(partitions_)
<1>1. n \in Nat /\ size \in Nat /\ size = Len(offsets_) /\ (n = 0 <=> size = 0) /\ (empty <=> n = 0)
  BY KeptTypes, EmptyIs DEF size
<1> HIDE DEF n
<1>2. begin.first = 0 /\ Stands(partitions_, offsets_, begin)
  <2>1. 0 \in 0 .. size - 1 => Located(partitions_, offsets_, 0, 0)
    <3>1. ASSUME 0 \in 0 .. size - 1 PROVE Located(partitions_, offsets_, 0, 0)
      <4>1. 0 \in 0 .. n - 1 /\ partitions_[0 + 1].first = 0
        BY <1>1, <3>1, KeptOrder DEF n
      <4>2. Located(partitions_, offsets_, 0, partitions_[0 + 1].first)
        BY <4>1, StartIs DEF n
      <4>3. QED
        BY <4>1, <4>2
    <3>2. QED
      BY <3>1
  <2>2. 0 = size => 0 = IF Len(partitions_) = 0 THEN 0 ELSE Len(partitions_) - 1
    BY <1>1 DEF n
  <2>3. 0 \in -1 .. size
    BY <1>1
  <2>4. Entry(0, 0, 0).first = 0 /\ Stands(partitions_, offsets_, Entry(0, 0, 0))
    BY <2>1, <2>2, <2>3, EntryStands
  <2>5. QED
    BY <2>4 DEF begin, const_iterator
<1>3. end.first = size /\ Stands(partitions_, offsets_, end)
  <2> DEFINE qi == IF Len(partitions_) = 0 THEN 0 ELSE Len(partitions_) - 1
  <2>1. end = Entry(qi, size, 0)
    BY <1>1 DEF end, const_iterator, n
  <2>2. size \in -1 .. size /\ ~(size \in 0 .. size - 1) /\ size # -1
    BY <1>1
  <2>3. size = size => qi = IF Len(partitions_) = 0 THEN 0 ELSE Len(partitions_) - 1
    OBVIOUS
  <2> HIDE DEF qi
  <2>4. Entry(qi, size, 0).first = size /\ Stands(partitions_, offsets_, Entry(qi, size, 0))
    BY <2>2, <2>3, EntryStands
  <2>5. QED
    BY <2>1, <2>4
<1>4. 0 \in 0 .. size /\ size \in 0 .. size
  BY <1>1
<1>5. QED
  BY <1>2, <1>3, <1>4

\* So does what a search returns, before the end of the partition searched or at
\* that of the sequence.
LEMMA FoundStands ==
    ASSUME Kept(partitions_, offsets_), ~empty, NEW t \in Int, NEW r, Found(r, t)
    PROVE  /\ r[2] \in 0 .. size /\ const_iterator(r[1], r[2]).first = r[2]
           /\ r[2] < EndOf(r[1]) \/ r[2] = size => Stands(partitions_, offsets_, const_iterator(r[1], r[2]))
<1> DEFINE i == r[2]
           qi == r[1]
<1>1. size \in Nat /\ Len(partitions_) # 0
  BY KeptTypes, EmptyIs DEF size
<1>2. i \in 0 .. size /\ const_iterator(qi, i) = Entry(qi, i, 0) /\ Entry(qi, i, 0).first = i
  BY DEF Found, Splits, const_iterator, Entry
<1>3. ASSUME i < EndOf(qi)
      PROVE  Stands(partitions_, offsets_, const_iterator(qi, i))
  <2>1. qi \in 0 .. Len(partitions_) - 1 /\ Located(partitions_, offsets_, qi, i)
    BY <1>1, <1>3 DEF Found
  <2>2. EndOf(qi) \in Partition(qi).first + 1 .. size /\ Partition(qi).first \in 0 .. size - 1
    BY <2>1, PartitionTimes
  <2> HIDE DEF i, qi
  <2>3. i \in -1 .. size /\ i # -1 /\ i # size
    BY <1>1, <1>2, <1>3, <2>2
  <2>4. Stands(partitions_, offsets_, Entry(qi, i, 0))
    BY <2>1, <2>3, EntryStands
  <2>5. QED
    BY <1>2, <2>4
<1>4. ASSUME i = size
      PROVE  Stands(partitions_, offsets_, const_iterator(qi, i))
  <2>1. qi \in 0 .. Len(partitions_) - 1 /\ size <= EndOf(qi) /\ Len(partitions_) \in Nat
    BY <1>1, <1>4, KeptTypes DEF Found
  <2> HIDE DEF i, qi
  <2>2. qi = Len(partitions_) - 1
    <3>1. ASSUME qi + 1 < Len(partitions_) PROVE FALSE
      <4>1. qi + 1 \in 0 .. Len(partitions_) - 1
        BY <2>1, <3>1
      <4>2. EndOf(qi) = Partition(qi + 1).first
        BY <3>1 DEF EndOf
      <4>3. EndOf(qi) \in 0 .. size - 1
        BY <4>1, <4>2, PartitionTimes
      <4>4. QED
        BY <1>1, <2>1, <4>3
    <3>2. QED
      BY <2>1, <3>1
  <2>3. i \in -1 .. size /\ i # -1 /\ ~(i \in 0 .. size - 1)
    BY <1>1, <1>4
  <2>4. Stands(partitions_, offsets_, Entry(qi, i, 0))
    BY <1>1, <2>2, <2>3, EntryStands
  <2>5. QED
    BY <1>2, <2>4
<1>5. QED
  BY <1>2, <1>3, <1>4

\* Elsewhere, where the search stopped at the end of a partition before the last,
\* it reads the start of that partition for the start of the next.
LEMMA FoundReads ==
    ASSUME Kept(partitions_, offsets_), Increasing, ~empty, NEW t \in Int, NEW r,
           Found(r, t), r[2] < size
    PROVE  const_iterator(r[1], r[2]).second = TimeAt(r[2]) <=> r[2] < EndOf(r[1])
<1> DEFINE i == r[2]
           q == r[1]
           x == const_iterator(q, i)
<1>1. /\ size \in Nat /\ size = Len(offsets_) /\ i \in 0 .. size - 1 /\ x.first = i
      /\ Len(partitions_) \in Nat
  BY FoundStands, KeptTypes DEF size
<1>2. ASSUME i < EndOf(q) PROVE x.second = TimeAt(i)
  <2>1. Stands(partitions_, offsets_, x)
    BY <1>2, FoundStands
  <2> HIDE DEF x, i, q
  <2>2. QED
    BY <1>1, <2>1, TimeAtIs DEF Stands
<1>3. ASSUME ~(i < EndOf(q)) PROVE x.second # TimeAt(i)
  <2>1. q \in 0 .. Len(partitions_) - 1 /\ i <= EndOf(q)
    BY EmptyIs DEF Found
  <2>2. x.second = Partition(q).second + Offset(i)
    BY <1>1 DEF const_iterator, Entry
  <2> HIDE DEF x, i, q
  <2>3. /\ Partition(q).first \in 0 .. size - 1 /\ Partition(q).second \in Int
        /\ TimeAt(Partition(q).first) = Partition(q).second
        /\ EndOf(q) \in Partition(q).first + 1 .. size
    BY <2>1, PartitionTimes
  <2>4. i = EndOf(q)
    BY <1>1, <1>3, <2>1, <2>3
  <2>5. q + 1 \in 0 .. Len(partitions_) - 1 /\ i = Partition(q + 1).first
    BY <1>1, <2>1, <2>4 DEF EndOf
  <2>6. Offset(i) = 0
    <3>1. (q + 1) + 1 \in 1 .. Len(partitions_)
      BY <1>1, <2>5
    <3>2. QED
      BY <2>5, <3>1, KeptTypes DEF Partition, Offset
  <2>7. Partition(q).second < TimeAt(i)
    <3>1. Partition(q).first < i
      BY <1>1, <2>3, <2>4
    <3>2. QED
      BY <1>1, <2>3, <3>1 DEF Increasing
  <2>8. TimeAt(i) \in Int
    BY <2>5, PartitionTimes
  <2>9. QED
    BY <2>2, <2>3, <2>6, <2>7, <2>8
<1>4. QED
  BY <1>2, <1>3

LEMMA Initially == SequenceInit => IInv
<1> SUFFICES ASSUME SequenceInit PROVE IInv
  OBVIOUS
<1>1. partitions_ = <<>> /\ offsets_ = <<>> /\ it = begin
  BY DEF SequenceInit
<1>2. <<>> \in Seq(PartitionSet) /\ <<>> \in Seq(Int) /\ Len(<<>>) = 0
  BY EmptySeq
<1>3. Kept(partitions_, offsets_)
  BY <1>1, <1>2 DEF Kept
<1>4. it.first \in 0 .. size /\ Stands(partitions_, offsets_, it)
  BY <1>1, <1>3, ObtainedStands
<1>5. QED
  <2>1. it.first \in -1 .. Len(offsets_)
    BY <1>1, <1>2, <1>4 DEF size
  <2>2. QED
    BY <1>3, <1>4, <2>1 DEF IInv, IteratorHeld

\* The iterator is moved, the lists stay.
LEMMA IteratorStep ==
    ASSUME IInv, UNCHANGED <<partitions_, offsets_>>, it'.first \in -1 .. size,
           live' => Stands(partitions_, offsets_, it')
    PROVE  IInv'
BY DEF IInv, IteratorHeld, size

LEMMA AppendStep ==
    ASSUME IInv, NEW t \in TimePoints, append(t)
    PROVE  IInv'
<1>1. Kept(partitions_, offsets_) /\ IteratorHeld(partitions_, offsets_, it, live)
  BY DEF IInv
<1>2. /\ Grown(partitions_, offsets_, partitions_', offsets_')
      /\ it' = it /\ (live' => live /\ it.first < size)
  BY <1>1, AppendGrows
<1>3. it.first \in -1 .. Len(offsets_) /\ (live => Stands(partitions_, offsets_, it))
  BY <1>1 DEF IteratorHeld
<1>4. /\ it.first \in -1 .. Len(offsets_')
      /\ Stands(partitions_, offsets_, it) /\ it.first < Len(offsets_)
            => Stands(partitions_', offsets_', it)
  BY <1>1, <1>2, <1>3, GrownIterator
<1>5. Kept(partitions_', offsets_')
  BY <1>2 DEF Grown
<1>6. IteratorHeld(partitions_', offsets_', it', live')
  <2>1. live' => Stands(partitions_', offsets_', it)
    BY <1>2, <1>3, <1>4 DEF size
  <2>2. QED
    BY <1>2, <1>4, <2>1 DEF IteratorHeld
<1>7. QED
  BY <1>5, <1>6 DEF IInv

LEMMA ObtainStep ==
    ASSUME IInv, Obtain
    PROVE  IInv'
<1>1. Kept(partitions_, offsets_) /\ it' \in {begin, end} /\ UNCHANGED <<partitions_, offsets_>>
  BY DEF IInv, Obtain
<1>2. it'.first \in 0 .. size /\ Stands(partitions_, offsets_, it') /\ size \in Nat
  BY <1>1, ObtainedStands, KeptTypes DEF size
<1>3. it'.first \in -1 .. size
  BY <1>2
<1>4. QED
  BY <1>1, <1>2, <1>3, IteratorStep

LEMMA SearchStep ==
    ASSUME IInv, Search
    PROVE  IInv'
<1>1. Kept(partitions_, offsets_) /\ Increasing /\ ~empty /\ UNCHANGED <<partitions_, offsets_>>
  BY DEF IInv, Search
<1>2. PICK t \in TimePoints : \E r \in {lower_bound(t), upper_bound(t)} :
          it' = const_iterator(r[1], r[2]) /\ live' = (r[2] < EndOf(r[1]) \/ r[2] = size)
  BY DEF Search
<1> PICK r \in {lower_bound(t), upper_bound(t)} :
          it' = const_iterator(r[1], r[2]) /\ live' = (r[2] < EndOf(r[1]) \/ r[2] = size)
  BY <1>2
<1>3. t \in Int
  BY TimeSequenceAssumption
<1>4. PICK u \in Int : Found(r, u)
  <2>1. Found(lower_bound(t), t) /\ Found(upper_bound(t), t + 1) /\ t + 1 \in Int
    BY <1>1, <1>3, LowerBoundFound, UpperBoundFound
  <2>2. QED
    BY <1>2, <1>3, <2>1
<1>5. /\ r[2] \in 0 .. size /\ it'.first = r[2]
      /\ r[2] < EndOf(r[1]) \/ r[2] = size => Stands(partitions_, offsets_, it')
  BY <1>1, <1>4, FoundStands
<1>6. it'.first \in -1 .. size
  <2>1. size \in Nat
    BY <1>1, KeptTypes DEF size
  <2>2. QED
    BY <1>5, <2>1
<1>7. live' => Stands(partitions_, offsets_, it')
  BY <1>5
<1>8. QED
  BY <1>1, <1>6, <1>7, IteratorStep

LEMMA MoveStep ==
    ASSUME IInv, Move
    PROVE  IInv'
<1>1. /\ Kept(partitions_, offsets_) /\ UNCHANGED <<partitions_, offsets_>>
      /\ size \in Nat /\ size = Len(offsets_)
      /\ it.first \in -1 .. size
      /\ -1 <= it'.first /\ it'.first <= size
  BY KeptTypes DEF IInv, IteratorHeld, Move, size
<1>2. CASE it' = Incremented /\ live' = live
  <2>1. it'.first = it.first + 1
    BY <1>2 DEF Incremented, Entry
  <2>2. it'.first \in -1 .. size /\ it.first + 1 <= size
    BY <1>1, <2>1
  <2>3. live' => Stands(partitions_, offsets_, it')
    BY <1>2, <2>2, IncrementedStands
  <2>4. QED
    BY <1>1, <2>2, <2>3, IteratorStep
<1>3. CASE it' = Decremented /\ live' = live
  <2>1. it'.first = it.first - 1
    BY <1>3 DEF Decremented, Entry
  <2>2. it'.first \in -1 .. size /\ 0 <= it.first
    BY <1>1, <2>1
  <2>3. live' => Stands(partitions_, offsets_, it')
    BY <1>3, <2>2, DecrementedStands
  <2>4. QED
    BY <1>1, <2>2, <2>3, IteratorStep
<1>4. CASE \E n \in Jumps : it' = Moved(it, n) /\ live' = TRUE
  <2>1. PICK n \in Jumps : it' = Moved(it, n)
    BY <1>4
  <2>2. n \in Int /\ it.first \in Int
    BY <1>1, TimeSequenceAssumption
  <2>3. it'.first = it.first + n
    BY <2>1 DEF Moved, Entry
  <2>4. it'.first \in -1 .. size /\ it.first + n \in -1 .. size
    BY <1>1, <2>2, <2>3
  <2>5. Stands(partitions_, offsets_, it')
    BY <1>1, <2>1, <2>4, MovedStands
  <2>6. QED
    BY <1>1, <2>4, <2>5, IteratorStep
<1>5. QED
  BY <1>2, <1>3, <1>4 DEF Move

LEMMA Inductive == IInv /\ [SequenceNext]_sequenceVars => IInv'
<1> SUFFICES ASSUME IInv, [SequenceNext]_sequenceVars PROVE IInv'
  OBVIOUS
<1>1. CASE \E t \in TimePoints : append(t)
  BY <1>1, AppendStep
<1>2. CASE Obtain
  BY <1>2, ObtainStep
<1>3. CASE Search
  BY <1>3, SearchStep
<1>4. CASE Move
  BY <1>4, MoveStep
<1>5. CASE UNCHANGED sequenceVars
  BY <1>5 DEF sequenceVars, IInv
<1>6. QED
  BY <1>1, <1>2, <1>3, <1>4, <1>5 DEF SequenceNext

THEOREM Invariant == SequenceSpec => []IInv
BY Initially, Inductive, PTL DEF SequenceSpec

-----------------------------------------------------------------------------
(* What follows from the invariant                                         *)

LEMMA InvariantMeets == IInv => PartitionsMeet
<1> SUFFICES ASSUME IInv PROVE PartitionsMeet
  OBVIOUS
<1> DEFINE n == Len(partitions_)
<1>1. Kept(partitions_, offsets_)
  BY DEF IInv
<1>2. /\ n \in Nat /\ size \in Nat /\ size = Len(offsets_)
      /\ (n = 0 <=> size = 0) /\ (empty <=> n = 0)
  BY <1>1, KeptTypes, EmptyIs DEF size
<1>3. ~empty => Partition(0).first = 0
  BY <1>1, <1>2, KeptOrder DEF Partition
<1>4. ASSUME NEW q \in 0 .. n - 1
      PROVE  /\ Partition(q).first < EndOf(q) /\ Offset(Partition(q).first) = 0
             /\ \A i \in Partition(q).first .. EndOf(q) - 1 : Exact(Offset(i))
  <2>1. /\ Partition(q).first \in 0 .. size - 1
        /\ EndOf(q) \in Partition(q).first + 1 .. size
    BY <1>1, PartitionTimes
  <2>2. Partition(q).first < EndOf(q)
    BY <1>2, <2>1
  <2>3. Offset(Partition(q).first) = 0
    <3>1. q + 1 \in 1 .. Len(partitions_)
      BY <1>2
    <3>2. QED
      BY <1>1, <3>1, KeptTypes DEF Partition, Offset
  <2>4. ASSUME NEW i \in Partition(q).first .. EndOf(q) - 1
        PROVE  Exact(Offset(i))
    <3>1. i + 1 \in 1 .. Len(offsets_)
      BY <1>2, <2>1
    <3>2. QED
      BY <1>1, <3>1 DEF Kept, Offset
  <2>5. QED
    BY <2>2, <2>3, <2>4
<1>5. QED
  BY <1>2, <1>3, <1>4 DEF PartitionsMeet

LEMMA InvariantIterates == IInv => IteratorsExact
<1> SUFFICES ASSUME IInv PROVE IteratorsExact
  OBVIOUS
<1> DEFINE n == Len(partitions_)
<1>1. Kept(partitions_, offsets_) /\ IteratorHeld(partitions_, offsets_, it, live)
  BY DEF IInv
<1>2. /\ n \in Nat /\ size \in Nat /\ size = Len(offsets_)
      /\ (n = 0 <=> size = 0) /\ (empty <=> n = 0)
  BY <1>1, KeptTypes, EmptyIs DEF size
<1>3. ASSUME NEW x, Stands(partitions_, offsets_, x), x.first \in 0 .. size - 1
      PROVE  x.second = TimeAt(x.first)
  BY <1>2, <1>3, TimeAtIs DEF Stands
<1>4. begin.first = 0 /\ end.first = size
      /\ Stands(partitions_, offsets_, begin) /\ Stands(partitions_, offsets_, end)
  BY <1>1, ObtainedStands DEF begin, end, const_iterator, Entry
<1>5. ASSUME live, 0 <= it.first, it.first < size
      PROVE  it.second = TimeAt(it.first)
  <2>1. it.first \in 0 .. size - 1 /\ Stands(partitions_, offsets_, it)
    BY <1>1, <1>2, <1>5 DEF IteratorHeld
  <2>2. QED
    BY <1>3, <2>1
<1>6. ASSUME ~empty
      PROVE  front = TimeAt(0) /\ back = TimeAt(size - 1)
  <2>1. 0 \in 0 .. size - 1 /\ size - 1 \in 0 .. size - 1 /\ size - 1 \in -1 .. size
        /\ size + (-1) = size - 1
    BY <1>2, <1>6
  <2>2. front = TimeAt(0)
    BY <1>3, <1>4, <2>1 DEF front
  <2>3. end.first + (-1) \in -1 .. size
    BY <1>4, <2>1
  <2>4. Moved(end, -1).first = size - 1 /\ Stands(partitions_, offsets_, Moved(end, -1))
    BY <1>1, <1>4, <2>1, <2>3, MovedStands
  <2>5. back = TimeAt(size - 1)
    BY <1>3, <2>1, <2>4 DEF back
  <2>6. QED
    BY <2>2, <2>5
<1>7. ASSUME NEW i \in 0 .. size - 1
      PROVE  At(i) = TimeAt(i)
  <2>1. begin.first + i = i /\ i \in -1 .. size
    BY <1>2, <1>4
  <2>2. Moved(begin, i).first = i /\ Stands(partitions_, offsets_, Moved(begin, i))
    BY <1>1, <2>1, MovedStands
  <2>3. QED
    BY <1>3, <2>2 DEF At
<1>8. QED
  BY <1>5, <1>6, <1>7 DEF IteratorsExact

LEMMA InvariantFinds == IInv => BoundsFound
<1> SUFFICES ASSUME IInv, Increasing, NEW t \in TimePoints
             PROVE  /\ lower_bound(t)[2] = Cardinality({i \in 0 .. size - 1 : TimeAt(i) < t})
                    /\ upper_bound(t)[2] = Cardinality({i \in 0 .. size - 1 : TimeAt(i) <= t})
  BY DEF BoundsFound
<1>1. Kept(partitions_, offsets_) /\ t \in Int /\ t + 1 \in Int
  BY TimeSequenceAssumption DEF IInv
<1>2. Splits(lower_bound(t)[2], t) /\ Splits(upper_bound(t)[2], t + 1)
  BY <1>1, LowerBoundFound, UpperBoundFound DEF Found
<1>3. lower_bound(t)[2] = Cardinality({i \in 0 .. size - 1 : TimeAt(i) < t})
  BY <1>1, <1>2, SplitCounts
<1>4. upper_bound(t)[2] = Cardinality({i \in 0 .. size - 1 : TimeAt(i) < t + 1})
  BY <1>1, <1>2, SplitCounts
<1>5. {i \in 0 .. size - 1 : TimeAt(i) < t + 1} = {i \in 0 .. size - 1 : TimeAt(i) <= t}
  <2>1. \A i \in 0 .. size - 1 : TimeAt(i) \in Int
    BY <1>1, TimeIs, TimeAtIs DEF size
  <2>2. \A i \in 0 .. size - 1 : TimeAt(i) < t + 1 <=> TimeAt(i) <= t
    BY <1>1, <2>1
  <2>3. QED
    BY <2>2
<1>6. QED
  BY <1>3, <1>4, <1>5

LEMMA InvariantReads == IInv => FoundReadWithin
<1> SUFFICES ASSUME IInv, Increasing, NEW t \in TimePoints,
                    NEW r \in {lower_bound(t), upper_bound(t)}, r[2] < size
             PROVE  const_iterator(r[1], r[2]).second = TimeAt(r[2]) <=> r[2] < EndOf(r[1])
  BY DEF FoundReadWithin
<1>1. Kept(partitions_, offsets_) /\ t \in Int /\ t + 1 \in Int
  BY TimeSequenceAssumption DEF IInv
<1>2. Found(lower_bound(t), t) /\ Found(upper_bound(t), t + 1)
  BY <1>1, LowerBoundFound, UpperBoundFound
<1>3. PICK u \in Int : Found(r, u)
  BY <1>1, <1>2
<1>4. ~empty
  <2>1. r[2] \in 0 .. size /\ size \in Nat
    BY <1>1, <1>3, KeptTypes DEF Found, Splits, size
  <2>2. size # 0
    BY <2>1
  <2>3. QED
    BY <1>1, <2>2, KeptTypes, EmptyIs DEF size
<1>5. QED
  BY <1>1, <1>3, <1>4, FoundReads

\* A step that is no append leaves the recorded times as they are.
LEMMA OnlyAppendsRecord ==
    ASSUME IInv, SequenceNext
    PROVE  (\E t \in TimePoints :
               /\ Times' = Append(Times, t)
               /\ \/ empty \/ Times[size] < t
                  \/ ~Exact(t - partitions_[Len(partitions_)].second))
           \/ Times' = Times
<1>1. Kept(partitions_, offsets_)
  BY DEF IInv
<1>2. CASE \E t \in TimePoints : append(t)
  <2>1. PICK t \in TimePoints : append(t)
    BY <1>2
  <2>2. t \in Int
    BY TimeSequenceAssumption
  <2>3. /\ Grown(partitions_, offsets_, partitions_', offsets_')
        /\ Time(partitions_', offsets_', size) = t
        /\ \/ empty \/ TimeAt(size - 1) < t
           \/ ~Exact(t - partitions_[Len(partitions_)].second)
    BY <1>1, <2>1, AppendGrows
  <2>4. Times' = Append(Times, t)
    BY <1>1, <2>2, <2>3, GrownTimes
  <2>5. ASSUME ~empty PROVE Times[size] = TimeAt(size - 1)
    <3>1. size \in Nat /\ size # 0
      BY <1>1, <2>5, KeptTypes, EmptyIs DEF size
    <3>2. size \in 1 .. size
      BY <3>1
    <3>3. QED
      BY <3>2 DEF Times
  <2>6. QED
    BY <2>3, <2>4, <2>5
<1>3. CASE Obtain \/ Search \/ Move
  <2>1. UNCHANGED <<partitions_, offsets_>>
    BY <1>3 DEF Obtain, Search, Move
  <2>2. Times' = [k \in 1 .. size' |-> TimeAt(k - 1)'] /\ size' = size
    BY <2>1 DEF Times, size
  <2>3. \A k \in 1 .. size : TimeAt(k - 1)' = TimeAt(k - 1)
    BY <2>1, TimeAtIs, TimeAtIsThen
  <2>4. QED
    BY <2>2, <2>3 DEF Times
<1>4. QED
  BY <1>2, <1>3 DEF SequenceNext

-----------------------------------------------------------------------------
(* The theorems                                                            *)

\* time_sequence.cpp: partitions meet, and searching finds the index of the first
\* and of the last position a time point could be inserted at.  front(), back()
\* and [] read the time of their index, and so does an iterator from begin(),
\* end() or operator+=, whatever was moved or, unless it stood at the end,
\* appended since.  One from lower_bound or upper_bound does if the search
\* stopped within a partition, and before the end of the sequence only then.
THEOREM SequenceIsExact == SequenceSpec => []SequenceExact
<1>1. IInv => SequenceExact
  BY InvariantMeets, InvariantIterates, InvariantFinds, InvariantReads DEF SequenceExact
<1>2. QED
  BY <1>1, Invariant, PTL

\* append keeps what it is given, exactly, in whatever partition, as the last
\* of the recorded times; it is later than the one before unless no duration
\* holds its distance from the start of the last partition.
THEOREM AppendedIsKept == SequenceSpec => KeepsWhatItIsGiven
<1> DEFINE Kept_(t) == /\ Times' = Append(Times, t)
                       /\ \/ empty \/ Times[size] < t
                          \/ ~Exact(t - partitions_[Len(partitions_)].second)
           Step == [\E t \in TimePoints : Kept_(t)]_Times
<1>1. IInv /\ [SequenceNext]_sequenceVars => Step
  <2> SUFFICES ASSUME IInv, [SequenceNext]_sequenceVars PROVE Step
    OBVIOUS
  <2>1. CASE SequenceNext
    BY <2>1, OnlyAppendsRecord
  <2>2. CASE UNCHANGED sequenceVars
    <3>1. partitions_' = partitions_ /\ offsets_' = offsets_
      BY <2>2 DEF sequenceVars
    <3>2. Times' = [k \in 1 .. size' |-> TimeAt(k - 1)'] /\ size' = size
      BY <3>1 DEF Times, size
    <3>3. \A k \in 1 .. size : TimeAt(k - 1)' = TimeAt(k - 1)
      BY <3>1, TimeAtIs, TimeAtIsThen
    <3>4. Times' = Times
      BY <3>2, <3>3 DEF Times
    <3>5. QED
      BY <3>4
  <2>3. QED
    BY <2>1, <2>2
<1>2. SequenceSpec => [][\E t \in TimePoints : Kept_(t)]_Times
  <2> HIDE DEF Kept_
  <2> QED  BY <1>1, Invariant, PTL DEF SequenceSpec
<1>3. QED
  BY <1>2 DEF KeepsWhatItIsGiven
=============================================================================
