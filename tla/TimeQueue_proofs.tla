--------------------------- MODULE TimeQueue_proofs ---------------------------
(***************************************************************************)
(* The phases of a time queue stand for times, for every choice of the     *)
(* scales, every start and every plan.                                     *)
(***************************************************************************)
EXTENDS TimeQueue, TimeScale_proofs, FiniteSetTheorems

-----------------------------------------------------------------------------
(* Refining a duration                                                     *)

Cut(t, s) == t \div Tick(s)

\* The time dt ahead of ct, counted from ct cut to the precision of dt.
Ahead(ct, dt) == Floor(ct, dt.p) + dt.m * Tick(dt.p)

LEMMA CutType ==
    ASSUME NEW t \in Int, NEW s \in Nat
    PROVE  Cut(t, s) \in Int
BY TickPositive, Quotient DEF Cut

LEMMA AheadIs ==
    ASSUME NEW ct \in Int, NEW dt \in [m : Nat, p : Nat]
    PROVE  /\ Ahead(ct, dt) = (Cut(ct, dt.p) + dt.m) * Tick(dt.p)
           /\ Ahead(ct, dt) \in Int
<1> DEFINE k == Tick(dt.p)
           x == ct \div k
<1>1. k \in Nat \ {0} /\ x \in Int /\ dt.m \in Nat
  BY TickPositive, Quotient
<1>2. Ahead(ct, dt) = x * k + dt.m * k /\ Cut(ct, dt.p) = x
  BY DEF Ahead, Floor, Cut
<1> HIDE DEF k, x
<1>3. x * k + dt.m * k = (x + dt.m) * k /\ (x + dt.m) * k \in Int
  BY <1>1
<1>4. QED
  BY <1>2, <1>3 DEF k

\* What the recursive function of refined_duration satisfies; there is one.
IsRefine(r, ct, p) ==
    r = [s \in Nat |->
            [m \in Int |-> IF m >= quantity_limit \/ s <= p THEN m
                           ELSE r[s - 1][Base * m - scale_phase(ct, s - 1)]]]

LEMMA RefineExists ==
    ASSUME NEW ct \in Int, NEW p \in Nat
    PROVE  \E r : IsRefine(r, ct, p)
<1> DEFINE V == [Int -> Int]
           next(n, m) == Base * m - scale_phase(ct, n)
           body(n, h) == [m \in Int |-> IF m >= quantity_limit \/ n + 1 <= p THEN m ELSE h[next(n, m)]]
           v0 == [m \in Int |-> m]
           step == [n \in Nat |-> [h \in V |-> body(n, h)]]
<1>1. \A n \in Nat, m \in Int : next(n, m) \in Int
  <2>1. \A n \in Nat : scale_phase(ct, n) \in Int
    BY ScalePhase, BaseAssumption
  <2>2. QED
    BY <2>1, BaseAssumption
<1> HIDE DEF next
<1>2. v0 \in V /\ step \in [Nat -> [V -> V]]
  <2>1. \A n \in Nat, h \in V : body(n, h) \in V
    BY <1>1
  <2> HIDE DEF body, V
  <2>2. step \in [Nat -> [V -> V]]
    BY <2>1
  <2>3. QED
    BY <2>2 DEF V
<1>3. PICK r : Iterates(r, V, v0, step)
  <2> HIDE DEF V, v0, step
  <2> QED  BY <1>2, PrimitiveRecursion
<1>4. r \in [Nat -> V] /\ r[0] = v0 /\ \A n \in Nat : r[n + 1] = body(n, r[n])
  <2>1. r \in [Nat -> V] /\ r[0] = v0 /\ \A n \in Nat : r[n + 1] = step[n][r[n]]
    BY <1>3 DEF Iterates
  <2> HIDE DEF V, body
  <2>2. \A n \in Nat : step[n][r[n]] = body(n, r[n])
    BY <2>1
  <2>3. QED
    BY <2>1, <2>2
<1> DEFINE Rec(s) == [m \in Int |-> IF m >= quantity_limit \/ s <= p THEN m
                                    ELSE r[s - 1][Base * m - scale_phase(ct, s - 1)]]
<1>5. ASSUME NEW s \in Nat PROVE r[s] = Rec(s)
  <2>1. CASE s = 0
    BY <1>4, <2>1
  <2>2. CASE s > 0
    <3>1. s - 1 \in Nat /\ (s - 1) + 1 = s
      BY <2>2
    <3>2. r[s] = body(s - 1, r[s - 1])
      BY <1>4, <3>1, Zenon
    <3>3. body(s - 1, r[s - 1]) = Rec(s)
      BY <3>1 DEF next
    <3>4. QED
      BY <3>2, <3>3
  <2>3. QED
    BY <2>1, <2>2
<1>6. r = [s \in Nat |-> r[s]]
  <2> HIDE DEF V
  <2> QED  BY <1>4
<1>7. r = [s \in Nat |-> Rec(s)]
  <2> HIDE DEF Rec
  <2> QED  BY <1>5, <1>6
<1>8. IsRefine(r, ct, p)
  BY <1>7 DEF IsRefine
<1>9. QED
  BY <1>8

\* Refining a duration of m at scale s to precision p tells how many ticks of
\* p the same time is ahead, unless that is out of range.
LEMMA Refining ==
    ASSUME NEW ct \in Int, NEW p \in Nat, NEW r, IsRefine(r, ct, p),
           NEW s \in Nat, p <= s, NEW m \in Nat \ {0}
    PROVE  LET far == (Cut(ct, s) + m) * Tick(s - p) - Cut(ct, p)
           IN  /\ far \in Nat \ {0} /\ r[s][m] \in Nat \ {0}
               /\ far < quantity_limit => r[s][m] = far
               /\ far >= quantity_limit => r[s][m] >= quantity_limit
<1> DEFINE l == quantity_limit
           far(i, n) == (Cut(ct, i) + n) * Tick(i - p) - Cut(ct, p)
           Good(i, n) == /\ far(i, n) \in Nat \ {0} /\ r[i][n] \in Nat \ {0}
                         /\ far(i, n) < l => r[i][n] = far(i, n)
                         /\ far(i, n) >= l => r[i][n] >= l
           S == {i \in Nat : p <= i /\ \E n \in Nat \ {0} : ~Good(i, n)}
<1>1. \A i \in Nat, n \in Int :
         r[i][n] = IF n >= l \/ i <= p THEN n ELSE r[i - 1][Base * n - scale_phase(ct, i - 1)]
  <2> DEFINE Rec(i) == [n \in Int |-> IF n >= l \/ i <= p THEN n
                                      ELSE r[i - 1][Base * n - scale_phase(ct, i - 1)]]
  <2>1. r = [i \in Nat |-> Rec(i)]
    BY DEF IsRefine
  <2>2. ASSUME NEW i \in Nat, NEW n \in Int
        PROVE  r[i][n] = IF n >= l \/ i <= p THEN n ELSE r[i - 1][Base * n - scale_phase(ct, i - 1)]
    <3>1. r[i] = Rec(i)
      <4> HIDE DEF Rec
      <4> QED  BY <2>1
    <3>2. Rec(i)[n] = IF n >= l \/ i <= p THEN n ELSE r[i - 1][Base * n - scale_phase(ct, i - 1)]
      OBVIOUS
    <3>3. QED
      BY <3>1, <3>2, Zenon
  <2>3. QED
    BY <2>2
<1>2. l \in Nat
  BY LimitPhases
<1> HIDE DEF l
<1>3. ASSUME NEW i \in Nat, p <= i, NEW n \in Nat \ {0}
      PROVE  far(i, n) \in Nat /\ far(i, n) >= n
  <2> DEFINE a == Tick(i - p)
             x == Cut(ct, i)
             y == Cut(ct, p)
  <2>1. i - p \in Nat /\ a \in Nat \ {0} /\ x \in Int /\ y \in Int
    <3>1. i - p \in Nat
      BY <1>3
    <3>2. QED
      BY <3>1, TickPositive, CutType
  <2>2. y < x * a + a /\ x * a \in Int
    <3>1. x = y \div a
      BY <1>3, CutCoarser DEF Cut
    <3>2. (y \div a) * a \in Int /\ y < (y \div a) * a + a
      <4> HIDE DEF a, y
      <4> QED  BY <2>1, Quotient
    <3>3. QED
      BY <3>1, <3>2
  <2> HIDE DEF a, x, y
  <2>3. (x + n) * a = x * a + n * a /\ n * a \in Int
    BY <2>1
  <2>4. (n - 1) * a >= n - 1 /\ (n - 1) * a = n * a - a
    BY <2>1
  <2>5. (x + n) * a - y >= n /\ (x + n) * a - y \in Int
    BY <2>1, <2>2, <2>3, <2>4
  <2>6. QED
    BY <2>5 DEF a, x, y
<1>4. S = {}
  <2> SUFFICES ASSUME S # {} PROVE FALSE
    OBVIOUS
  <2>1. PICK i \in S : \A j \in S : i <= j
    <3>1. S \subseteq Nat
      OBVIOUS
    <3> HIDE DEF S
    <3>2. QED
      BY <3>1, LeastNatural
  <2>2. i \in Nat /\ p <= i /\ \E n \in Nat \ {0} : ~Good(i, n)
    OBVIOUS
  <2>3. PICK n \in Nat \ {0} : ~Good(i, n)
    BY <2>2
  <2>4. far(i, n) \in Nat /\ far(i, n) >= n /\ n \in Int
    BY <1>3, <2>2
  <2> HIDE DEF far
  <2>5. n < l
    <3>1. ASSUME n >= l PROVE FALSE
      <4>1. r[i][n] = n
        BY <1>1, <2>2, <2>4, <3>1
      <4>2. Good(i, n)
        BY <1>2, <2>4, <3>1, <4>1
      <4>3. QED
        BY <2>3, <4>2
    <3>2. QED
      BY <1>2, <2>4, <3>1
  <2>6. i # p
    <3>1. ASSUME i = p PROVE FALSE
      <4>1. r[i][n] = n
        BY <1>1, <2>2, <2>4, <3>1
      <4>2. far(i, n) = n
        <5>1. Tick(i - p) = 1 /\ Cut(ct, p) \in Int
          <6>1. i - p = 0
            BY <2>2, <3>1
          <6>2. QED
            BY <6>1, TickZero, CutType
        <5>2. QED
          BY <2>4, <3>1, <5>1 DEF far
      <4>3. QED
        BY <2>3, <2>4, <4>1, <4>2
    <3>2. QED
      BY <3>1
  <2> DEFINE d == scale_phase(ct, i - 1)
             n1 == Base * n - d
  <2>7. i - 1 \in Nat /\ p <= i - 1 /\ (i - 1) + 1 = i /\ i - 1 \notin S
    BY <2>1, <2>2, <2>6
  <2>8. /\ d \in 0 .. Base - 1
        /\ Cut(ct, i - 1) = Base * Cut(ct, i) + d
    <3>1. d \in 0 .. Base - 1 /\ ct \div Tick(i - 1) = Base * (ct \div Tick((i - 1) + 1)) + d
      BY <2>7, ScalePhase
    <3>2. QED
      BY <2>7, <3>1 DEF Cut
  <2>9. n1 \in Nat \ {0}
    <3> HIDE DEF d
    <3>1. Base * n >= Base /\ Base * n \in Nat
      BY BaseAssumption
    <3>2. QED
      BY <2>8, <3>1, BaseAssumption
  <2>10. Good(i - 1, n1)
    BY <2>7, <2>9
  <2>11. far(i - 1, n1) = far(i, n)
    <3> DEFINE x == Cut(ct, i)
               a == Tick(i - 1 - p)
               y == Cut(ct, p)
    <3>1. x \in Int /\ a \in Nat /\ y \in Int /\ d \in Int /\ Base \in Nat
      <4>1. i - 1 - p \in Nat
        BY <2>7
      <4>2. x \in Int /\ y \in Int
        BY <2>2, CutType
      <4>3. a \in Nat
        BY <4>1, TickPositive
      <4>4. QED
        BY <2>8, <4>2, <4>3, BaseAssumption
    <3>2. Tick(i - p) = Base * a
      <4>1. i - 1 - p \in Nat /\ (i - 1 - p) + 1 = i - p
        BY <2>7
      <4>2. Tick((i - 1 - p) + 1) = Base * a
        BY <4>1, TickNext
      <4>3. QED
        BY <4>1, <4>2
    <3>3. far(i - 1, n1) = ((Base * x + d) + (Base * n - d)) * a - y
      BY <2>8 DEF far
    <3>4. far(i, n) = (x + n) * (Base * a) - y
      BY <3>2 DEF far
    <3> HIDE DEF x, a, y, d
    <3>5. (Base * x + d) + (Base * n - d) = Base * (x + n)
      BY <3>1
    <3>6. (Base * (x + n)) * a = (x + n) * (Base * a)
      BY <3>1
    <3>7. QED
      BY <3>3, <3>4, <3>5, <3>6
  <2>12. r[i][n] = r[i - 1][n1]
    BY <1>1, <1>2, <2>2, <2>4, <2>5, <2>6
  <2>13. Good(i, n)
    <3> HIDE DEF n1
    <3> QED  BY <2>10, <2>11, <2>12
  <2>14. QED
    BY <2>3, <2>13
<1>5. Good(s, m)
  BY <1>4
<1>6. QED
  BY <1>5 DEF l

\* Cutting a multiple of a coarser scale.
LEMMA CutOfMultiple ==
    ASSUME NEW n \in Int, NEW s \in Nat, NEW p \in Nat, p <= s
    PROVE  /\ n * Tick(s) \in Int
           /\ Cut(n * Tick(s), p) = n * Tick(s - p)
           /\ Cut(n * Tick(s), s) = n
           /\ (n * Tick(s)) % Tick(p) = 0
<1> DEFINE a == Tick(p)
           b == Tick(s - p)
<1>1. s - p \in Nat /\ Tick(s) = a * b
  BY TickOrder
<1>2. a \in Nat \ {0} /\ b \in Nat \ {0}
  BY <1>1, TickPositive
<1>3. Tick(s) \in Nat \ {0}
  BY TickPositive
<1>4. n * Tick(s) = (n * b) * a /\ n * b \in Int
  <2> HIDE DEF a, b
  <2> QED  BY <1>1, <1>2
<1>5. (n * b) * a \in Int /\ ((n * b) * a) \div a = n * b /\ ((n * b) * a) % a = 0
  <2> HIDE DEF a, b
  <2> QED  BY <1>2, <1>4, QuotientOfMultiple
<1>6. (n * Tick(s)) \div Tick(s) = n
  BY <1>3, QuotientOfMultiple
<1>7. QED
  BY <1>4, <1>5, <1>6 DEF Cut

\* The code's refined_duration, as the difference of two cuts.
LEMMA RefinedDuration ==
    ASSUME NEW ct \in Int, NEW dt \in [m : Nat, p : Nat], NEW p \in Nat, p <= dt.p
    PROVE  /\ dt.m = 0 => refined_duration(ct, dt, p) = Duration(0, p)
           /\ dt.m # 0 =>
                /\ Cut(Ahead(ct, dt), p) - Cut(ct, p) \in Nat \ {0}
                /\ refined_duration(ct, dt, p)
                      = quantity(Cut(Ahead(ct, dt), p) - Cut(ct, p), p)
<1>1. dt.m \in Nat /\ dt.p \in Nat
  OBVIOUS
<1>2. CASE dt.m = 0
  BY <1>2 DEF refined_duration
<1>3. CASE dt.m # 0
  <2> DEFINE f == CHOOSE r : IsRefine(r, ct, p)
             s == dt.p
             m == dt.m
             far == (Cut(ct, s) + m) * Tick(s - p) - Cut(ct, p)
  <2>1. refined_duration(ct, dt, p) = quantity(f[dt.p][dt.m], p)
    BY <1>3 DEF refined_duration, IsRefine
  <2>2. IsRefine(f, ct, p)
    BY RefineExists
  <2> HIDE DEF f
  <2>3. /\ far \in Nat \ {0} /\ f[s][m] \in Nat \ {0}
        /\ far < quantity_limit => f[s][m] = far
        /\ far >= quantity_limit => f[s][m] >= quantity_limit
    BY <1>1, <1>3, <2>2, Refining
  <2>4. Cut(Ahead(ct, dt), p) = (Cut(ct, s) + m) * Tick(s - p)
    <3>1. Cut(ct, s) + m \in Int
      BY <1>1, CutType
    <3>2. Ahead(ct, dt) = (Cut(ct, s) + m) * Tick(s)
      BY AheadIs
    <3> DEFINE n == Cut(ct, s) + m
    <3> HIDE DEF n
    <3>3. QED
      BY <1>1, <3>1, <3>2, CutOfMultiple DEF n
  <2>5. quantity(f[s][m], p) = quantity(far, p)
    <3>1. quantity_limit \in Nat
      BY LimitPhases
    <3> HIDE DEF far, s, m
    <3>2. QED
      BY <2>3, <3>1 DEF quantity
  <2>6. QED
    BY <1>3, <2>1, <2>3, <2>4, <2>5
<1>4. QED
  BY <1>2, <1>3

-----------------------------------------------------------------------------
(* The phase of a time                                                     *)

\* The phase the queue keeps for an event at time t: it depends on nothing else.
PhaseOf(dp, t) ==
    IF t = 0 THEN Duration(0, dp) ELSE Duration(epoch_phase(t, precision(t)), precision(t))

\* The steps of phase_from_duration: at each precision, the phase counted from
\* the epoch of ct and the phase it goes on with.
Carry(phase) == IF phase >= quantity_limit THEN 1 ELSE 0
Rest(phase) == phase - Carry(phase) * quantity_limit
NextPhase(ct, q, phase) ==
    Rest(phase) \div Base
        + (quantity_limit \div Base) * (scale_phase(ct, q + EpochScales) + Carry(phase))
Unbounded(ct, q, phase) ==
    /\ Rest(phase) = 0
    /\ q + EpochScales >= scale_above(ct)
    /\ Carry(phase) = IF ct >= 0 THEN 0 ELSE 1

Phases == 0 .. 2 * quantity_limit - 1
IsCoarsen(f, ct, dp) ==
    f = [q \in Nat |->
            [phase \in Phases |->
                IF Rest(phase) % Base # 0 THEN Duration(Rest(phase), q)
                ELSE IF Unbounded(ct, q, phase) THEN Duration(Rest(phase), dp)
                ELSE f[q + 1][NextPhase(ct, q, phase)]]]

\* The time that a phase at precision q denotes, counted in ticks of q.
Count(ct, q, phase) == quantity_limit * Cut(ct, q + EpochScales) + phase
Total(ct, q, phase) == Count(ct, q, phase) * Tick(q)

LEMMA PhaseParts ==
    ASSUME NEW ct \in Int, NEW q \in Nat, NEW phase \in Phases
    PROVE  /\ Carry(phase) \in 0 .. 1 /\ Rest(phase) \in 0 .. quantity_limit - 1
           /\ phase = Carry(phase) * quantity_limit + Rest(phase)
           /\ q + EpochScales \in Nat
           /\ Cut(ct, q + EpochScales) \in Int
           /\ Count(ct, q, phase)
                 = quantity_limit * (Cut(ct, q + EpochScales) + Carry(phase)) + Rest(phase)
           /\ Count(ct, q, phase) \in Int
           /\ Total(ct, q, phase) \in Int
           /\ Total(ct, q, phase) = 0 <=>
                 Rest(phase) = 0 /\ Cut(ct, q + EpochScales) + Carry(phase) = 0
<1> DEFINE l == quantity_limit
           k == Cut(ct, q + EpochScales)
           c == Carry(phase)
           r == Rest(phase)
<1>1. l \in Nat \ {0}
  BY LimitPhases
<1>2. q + EpochScales \in Nat
  BY EpochScalesAssumption
<1>3. k \in Int
  BY <1>2, CutType
<1>4. c \in 0 .. 1 /\ r \in 0 .. l - 1 /\ phase = c * l + r /\ phase \in Nat
  BY <1>1 DEF Phases, Carry, Rest
<1>5. Tick(q) \in Nat \ {0}
  BY TickPositive
<1> DEFINE n == Count(ct, q, phase)
           a == Tick(q)
<1>6. n = l * k + phase
  BY DEF Count
<1>7. Total(ct, q, phase) = n * a
  BY DEF Total
<1> HIDE DEF l, k, c, r, n, a
<1>8. l * k \in Int /\ c * l \in Int
  BY <1>1, <1>3, <1>4
<1>9. l * (k + c) = l * k + c * l
  BY <1>1, <1>3, <1>4
<1>10. n = l * (k + c) + r /\ n \in Int
  BY <1>4, <1>6, <1>8, <1>9
<1>11. n * a \in Int /\ (n * a = 0 <=> n = 0)
  BY <1>5, <1>10 DEF a
<1>12. n = 0 <=> r = 0 /\ k + c = 0
  <2>1. ASSUME k + c >= 1 PROVE l * (k + c) >= l
    BY <1>1, <1>3, <1>4, <2>1
  <2>2. ASSUME k + c <= -1 PROVE l * (k + c) <= -l
    BY <1>1, <1>3, <1>4, <2>2
  <2>3. ASSUME k + c = 0 PROVE l * (k + c) = 0
    BY <1>1, <2>3
  <2>4. l * (k + c) \in Int
    BY <1>1, <1>3, <1>4
  <2>5. QED
    BY <1>1, <1>3, <1>4, <1>10, <2>1, <2>2, <2>3, <2>4
<1>13. QED
  BY <1>2, <1>3, <1>4, <1>7, <1>10, <1>11, <1>12 DEF l, k, c, r, n

LEMMA NextPhaseSame ==
    ASSUME NEW ct \in Int, NEW q \in Nat, NEW phase \in Phases, Rest(phase) % Base = 0
    PROVE  /\ NextPhase(ct, q, phase) \in Phases
           /\ Total(ct, q + 1, NextPhase(ct, q, phase)) = Total(ct, q, phase)
<1> DEFINE l == quantity_limit
           b == l \div Base
           k == Cut(ct, q + EpochScales)
           k1 == Cut(ct, q + 1 + EpochScales)
           d == scale_phase(ct, q + EpochScales)
           c == Carry(phase)
           r == Rest(phase)
           x == r \div Base
           n == Count(ct, q, phase)
           n1 == Count(ct, q + 1, NextPhase(ct, q, phase))
           a == Tick(q)
<1>1. l \in Nat \ {0} /\ b \in Nat \ {0} /\ l = Base * b
  BY LimitPhases
<1>2. /\ q + EpochScales \in Nat /\ q + 1 + EpochScales \in Nat
      /\ q + 1 + EpochScales = (q + EpochScales) + 1
  BY EpochScalesAssumption
<1>3. k \in Int /\ k1 \in Int
  BY <1>2, CutType
<1>4. d \in 0 .. Base - 1 /\ k = Base * k1 + d
  BY <1>2, ScalePhase DEF Cut
<1>5. c \in 0 .. 1 /\ r \in 0 .. l - 1 /\ n = l * (k + c) + r /\ n \in Int
  BY PhaseParts
<1>6. x \in Int /\ r = x * Base
  <2>1. Base \in Nat \ {0} /\ r \in Int /\ r % Base = 0
    BY <1>5, BaseAssumption
  <2> HIDE DEF r
  <2>2. QED
    BY <2>1, Quotient
<1>7. NextPhase(ct, q, phase) = x + b * (d + c)
  BY DEF NextPhase
<1>8. n1 = l * k1 + (x + b * (d + c))
  BY <1>7 DEF Count
<1>9. Base \in Nat /\ Base > 1
  BY BaseAssumption
<1>10. a \in Nat \ {0} /\ Tick(q + 1) = Base * a
  BY TickPositive, TickNext
<1> DEFINE next == NextPhase(ct, q, phase)
           tot == Total(ct, q, phase)
           tot1 == Total(ct, q + 1, next)
<1>11. tot = n * a /\ tot1 = n1 * (Base * a)
  BY <1>10 DEF Total
<1>12. Phases = 0 .. 2 * l - 1
  BY DEF Phases
<1> HIDE DEF l, b, k, k1, d, c, r, x, n, n1, a, next, tot, tot1
<1>13. x \in 0 .. b - 1
  <2>1. x >= b => x * Base >= b * Base
    BY <1>1, <1>6, <1>9
  <2>2. x <= -1 => x * Base <= -1
    BY <1>6, <1>9
  <2>3. b * Base = l
    BY <1>1, <1>9
  <2>4. QED
    BY <1>1, <1>5, <1>6, <2>1, <2>2, <2>3
<1>14. next \in Phases
  <2>1. d + c \in 0 .. Base
    BY <1>4, <1>5, <1>9
  <2>2. b * (d + c) >= 0 /\ b * (d + c) <= l /\ b * (d + c) \in Int
    <3> DEFINE e == d + c
    <3>1. b * e <= b * Base /\ b * e >= 0 /\ b * e \in Int
      <4> HIDE DEF e
      <4>1. e \in 0 .. Base
        BY <2>1 DEF e
      <4>2. QED
        BY <1>1, <1>9, <4>1
    <3>2. b * Base = l
      BY <1>1, <1>9
    <3>3. QED
      BY <3>1, <3>2
  <2>3. b <= l
    <3>1. Base * b >= b
      BY <1>1, <1>9
    <3>2. QED
      BY <1>1, <3>1
  <2>4. next = x + b * (d + c)
    BY <1>7 DEF next
  <2>5. next >= 0 /\ next <= 2 * l - 1 /\ next \in Int
    BY <1>1, <1>13, <2>2, <2>3, <2>4
  <2>6. QED
    BY <1>1, <1>12, <2>5
<1>15. n = Base * n1
  <2>1. n1 \in Int /\ b * (d + c) \in Int /\ b * d \in Int /\ b * c \in Int /\ b * k1 \in Int
    BY <1>1, <1>3, <1>4, <1>5, <1>6, <1>8
  <2>2. b * (d + c) = b * d + b * c
    BY <1>1, <1>4, <1>5
  <2>3. l * k1 = Base * (b * k1)
    BY <1>1, <1>3, <1>9
  <2>4. n1 = Base * (b * k1) + (x + b * d + b * c)
    BY <1>8, <2>1, <2>2, <2>3, <1>6
  <2>5. k + c = Base * k1 + (d + c)
    BY <1>3, <1>4, <1>5, <1>9
  <2>6. l * (k + c) = Base * (b * (Base * k1 + (d + c)))
    BY <1>1, <1>3, <1>4, <1>5, <1>9, <2>5
  <2>7. b * (Base * k1 + (d + c)) = Base * (b * k1) + b * d + b * c
    BY <1>1, <1>3, <1>4, <1>5, <1>9
  <2>8. n = Base * (Base * (b * k1) + b * d + b * c) + Base * x
    BY <1>5, <1>6, <1>9, <2>6, <2>7
  <2>9. Base * (b * k1) \in Int
    BY <2>1, <1>9
  <2>10. QED
    BY <1>6, <1>9, <2>1, <2>4, <2>8, <2>9
<1>16. n1 \in Int
  BY <1>1, <1>3, <1>4, <1>5, <1>6, <1>8
<1>17. n * a = n1 * (Base * a)
  BY <1>9, <1>10, <1>15, <1>16
<1>18. QED
  BY <1>11, <1>14, <1>17 DEF next, tot, tot1

\* A phase with a digit at its own precision is the phase of its time.
LEMMA FinestPhase ==
    ASSUME NEW ct \in Int, NEW q \in Nat, NEW phase \in Phases, NEW dp,
           Rest(phase) % Base # 0
    PROVE  /\ Total(ct, q, phase) # 0
           /\ PhaseOf(dp, Total(ct, q, phase)) = Duration(Rest(phase), q)
<1> DEFINE l == quantity_limit
           k == Cut(ct, q + EpochScales) + Carry(phase)
           r == Rest(phase)
           n == Count(ct, q, phase)
           a == Tick(q)
           t == Total(ct, q, phase)
<1>1. /\ k \in Int /\ r \in 0 .. l - 1 /\ n = l * k + r /\ n \in Int /\ t \in Int
      /\ t = 0 <=> r = 0 /\ k = 0
  <2> DEFINE z == Cut(ct, q + EpochScales)
             c == Carry(phase)
  <2>1. /\ z \in Int /\ c \in 0 .. 1 /\ r \in 0 .. l - 1 /\ n = l * (z + c) + r
        /\ n \in Int /\ t \in Int
        /\ t = 0 <=> r = 0 /\ z + c = 0
    BY PhaseParts
  <2> HIDE DEF z, c, r, l, n, t
  <2>2. z + c \in Int
    BY <2>1
  <2>3. QED
    BY <2>1, <2>2 DEF z, c
<1>2. t = n * a
  BY DEF Total
<1>3. a \in Nat \ {0} /\ Tick(q + 1) = a * Base
  <2>1. a \in Nat \ {0} /\ Tick(q + 1) = Base * a
    BY TickPositive, TickNext
  <2> HIDE DEF a
  <2>2. QED
    BY <2>1, BaseAssumption
<1>4. Base \in Nat \ {0}
  BY BaseAssumption
<1>5. r # 0
  <2>1. 0 % Base = 0
    BY <1>4
  <2>2. QED
    BY <2>1
<1>6. t # 0
  BY <1>1, <1>5
<1>7. t % a = 0 /\ t \div a = n
  <2> HIDE DEF n, a, t
  <2> QED  BY <1>1, <1>2, <1>3, QuotientOfMultiple
<1>8. n % l = r
  <2>1. l \in Nat \ {0}
    BY LimitPhases
  <2> HIDE DEF n, l, k, r
  <2>2. k * l = l * k /\ k * l \in Int
    BY <1>1, <2>1
  <2>3. k * l <= n /\ n < k * l + l
    BY <1>1, <2>1, <2>2
  <2>4. n % l = n - k * l
    BY <1>1, <2>1, <2>3, QuotientIs
  <2>5. QED
    BY <1>1, <2>1, <2>2, <2>4
<1>9. n % Base = r % Base
  <2> DEFINE b == l \div Base
             x == r \div Base
  <2>1. b \in Nat \ {0} /\ l = Base * b
    BY LimitPhases
  <2>2. r \in Int
    BY <1>1, LimitPhases
  <2>3. x \in Int /\ r % Base \in 0 .. Base - 1 /\ r = x * Base + (r % Base)
    <3> HIDE DEF r
    <3> QED  BY <1>4, <2>2, Quotient
  <2> HIDE DEF b, x, r, l, k, n
  <2> DEFINE e == r % Base
             y == b * k + x
  <2>4. y \in Int /\ e \in 0 .. Base - 1 /\ r = x * Base + e
    BY <1>1, <2>1, <2>3
  <2> HIDE DEF e
  <2>5. l * k = Base * (b * k) /\ b * k \in Int
    BY <1>1, <1>4, <2>1
  <2>6. y * Base = Base * (b * k) + x * Base
    BY <1>1, <1>4, <2>3, <2>5
  <2>7. n = y * Base + e /\ y * Base \in Int
    BY <1>1, <1>4, <2>3, <2>4, <2>5, <2>6
  <2> HIDE DEF y
  <2>8. y * Base <= n /\ n < y * Base + Base
    BY <1>1, <1>4, <2>4, <2>7
  <2>9. n % Base = n - y * Base
    BY <1>1, <1>4, <2>4, <2>8, QuotientIs
  <2>10. QED
    BY <1>1, <1>4, <2>4, <2>7, <2>9 DEF e
<1>10. t % Tick(q + 1) # 0
  <2>1. ASSUME t % Tick(q + 1) = 0 PROVE FALSE
    <3> DEFINE y == t \div (a * Base)
    <3>1. a * Base \in Nat \ {0}
      <4> HIDE DEF a
      <4> QED  BY <1>3, <1>4
    <3>2. y \in Int /\ t = y * (a * Base)
      <4>1. t % (a * Base) = 0
        BY <1>3, <2>1
      <4> HIDE DEF a, t
      <4>2. /\ t \div (a * Base) \in Int
            /\ t = (t \div (a * Base)) * (a * Base) + (t % (a * Base))
        BY <1>1, <3>1, Quotient
      <4>3. (t \div (a * Base)) * (a * Base) \in Int
        BY <3>1, <4>2
      <4>4. QED
        BY <4>1, <4>2, <4>3
    <3> HIDE DEF y, a, n, t
    <3>3. y * (a * Base) = (y * Base) * a /\ y * Base \in Int
      BY <1>3, <1>4, <3>2
    <3>4. ((y * Base) * a) \div a = y * Base
      BY <1>3, <3>3, QuotientOfMultiple
    <3>5. n = y * Base
      BY <1>7, <3>2, <3>3, <3>4
    <3>6. (y * Base) % Base = 0
      BY <1>4, <3>2, QuotientOfMultiple
    <3>7. QED
      BY <1>9, <3>5, <3>6
  <2>2. QED
    BY <2>1
<1>11. precision(t) = q
  <2>1. /\ precision(t) \in Nat /\ t % Tick(precision(t) + 1) # 0
        /\ \A s \in Nat : t % Tick(s) = 0 <=> s <= precision(t)
    BY <1>1, <1>6, PrecisionIs
  <2>2. q <= precision(t)
    BY <1>7, <2>1
  <2>3. ~(q + 1 <= precision(t))
    BY <1>10, <2>1
  <2>4. QED
    BY <2>1, <2>2, <2>3
<1>12. epoch_phase(t, q) = r
  BY <1>7, <1>8 DEF epoch_phase
<1>13. QED
  BY <1>6, <1>11, <1>12 DEF PhaseOf

\* The coarseness is unbounded when what is left is time zero.
LEMMA UnboundedIs ==
    ASSUME NEW ct \in Int, NEW q \in Nat, NEW phase \in Phases
    PROVE  Unbounded(ct, q, phase) <=>
              Total(ct, q, phase) = 0 /\ q + EpochScales >= scale_above(ct)
<1> DEFINE z == q + EpochScales
<1>1. /\ z \in Nat /\ Cut(ct, z) \in Int /\ Carry(phase) \in 0 .. 1
      /\ Total(ct, q, phase) = 0 <=> Rest(phase) = 0 /\ Cut(ct, z) + Carry(phase) = 0
  BY PhaseParts
<1>2. scale_above(ct) \in Nat
  BY ScaleAbove
<1>3. ASSUME z >= scale_above(ct) PROVE Cut(ct, z) = IF ct >= 0 THEN 0 ELSE -1
  <2>1. Magnitude(ct) < Tick(z)
    BY <1>1, <1>2, <1>3, ScaleAbove
  <2>2. QED
    BY <1>1, <2>1, ShorterThanTick DEF Cut
<1>4. QED
  <2> HIDE DEF z
  <2>1. CASE z >= scale_above(ct)
    BY <1>1, <1>3, <2>1 DEF Unbounded, z
  <2>2. CASE ~(z >= scale_above(ct))
    BY <2>2 DEF Unbounded, z
  <2>3. QED
    BY <2>1, <2>2

LEMMA CoarsenExists ==
    ASSUME NEW ct \in Int, NEW dp
    PROVE  \E f : IsCoarsen(f, ct, dp)
<1> DEFINE F == [q \in Nat |-> [phase \in Phases |-> PhaseOf(dp, Total(ct, q, phase))]]
           Rec(q, phase) == IF Rest(phase) % Base # 0 THEN Duration(Rest(phase), q)
                            ELSE IF Unbounded(ct, q, phase) THEN Duration(Rest(phase), dp)
                            ELSE F[q + 1][NextPhase(ct, q, phase)]
<1>1. ASSUME NEW q \in Nat, NEW phase \in Phases
      PROVE  PhaseOf(dp, Total(ct, q, phase)) = Rec(q, phase)
  <2>1. CASE Rest(phase) % Base # 0
    BY <2>1, FinestPhase
  <2>2. CASE Rest(phase) % Base = 0 /\ Unbounded(ct, q, phase)
    <3>1. Total(ct, q, phase) = 0 /\ Rest(phase) = 0
      BY <2>2, UnboundedIs DEF Unbounded
    <3>2. QED
      BY <2>2, <3>1 DEF PhaseOf
  <2>3. CASE Rest(phase) % Base = 0 /\ ~Unbounded(ct, q, phase)
    <3>1. /\ NextPhase(ct, q, phase) \in Phases
          /\ Total(ct, q + 1, NextPhase(ct, q, phase)) = Total(ct, q, phase)
      BY <2>3, NextPhaseSame
    <3>2. F[q + 1][NextPhase(ct, q, phase)] = PhaseOf(dp, Total(ct, q + 1, NextPhase(ct, q, phase)))
      BY <3>1
    <3>3. Rec(q, phase) = F[q + 1][NextPhase(ct, q, phase)]
      BY <2>3
    <3>4. QED
      BY <3>1, <3>2, <3>3, Zenon
  <2>4. QED
    BY <2>1, <2>2, <2>3
<1>2. F = [q \in Nat |-> [phase \in Phases |-> Rec(q, phase)]]
  <2> HIDE DEF Rec
  <2>1. \A q \in Nat : [phase \in Phases |-> PhaseOf(dp, Total(ct, q, phase))]
                          = [phase \in Phases |-> Rec(q, phase)]
    BY <1>1, Zenon
  <2>2. QED
    BY <2>1, Zenon
<1> HIDE DEF F
<1>3. IsCoarsen(F, ct, dp)
  BY <1>2 DEF IsCoarsen
<1>4. QED
  BY <1>3

\* What phase_from_duration computes from a phase is the phase of its time: a
\* recursion that ends at the time's precision or, for time zero, once it is
\* past the digits of the current time.
LEMMA CoarsenIs ==
    ASSUME NEW ct \in Int, NEW dp, NEW f, IsCoarsen(f, ct, dp),
           NEW q \in Nat, NEW phase \in Phases
    PROVE  f[q][phase] = PhaseOf(dp, Total(ct, q, phase))
<1> DEFINE a == scale_above(ct)
           Left(i, ph) == IF Total(ct, i, ph) = 0
                          THEN IF i + EpochScales >= a THEN 0 ELSE a - (i + EpochScales)
                          ELSE precision(Total(ct, i, ph)) - i
           Good(i, ph) == f[i][ph] = PhaseOf(dp, Total(ct, i, ph))
           Bad(n) == \E i \in Nat, ph \in Phases : Left(i, ph) = n /\ ~Good(i, ph)
           S == {n \in Nat : Bad(n)}
<1>1. a \in Nat /\ EpochScales \in Nat
  BY ScaleAbove, EpochScalesAssumption
<1>2. ASSUME NEW i \in Nat, NEW ph \in Phases PROVE Left(i, ph) \in Nat
  <2> DEFINE t == Total(ct, i, ph)
             n == Count(ct, i, ph)
  <2>1. t \in Int /\ n \in Int /\ t = n * Tick(i)
    BY PhaseParts DEF Total
  <2>2. t % Tick(i) = 0
    <3>1. Tick(i) \in Nat \ {0}
      BY TickPositive
    <3> HIDE DEF t, n
    <3>2. QED
      BY <2>1, <3>1, QuotientOfMultiple
  <2>3. t # 0 => precision(t) \in Nat /\ i <= precision(t)
    <3> HIDE DEF t, n
    <3> QED  BY <2>1, <2>2, PrecisionIs
  <2> HIDE DEF t, a
  <2>4. QED
    BY <1>1, <2>3 DEF t
<1>3. ASSUME NEW i \in Nat, NEW ph \in Phases
      PROVE  f[i][ph] = IF Rest(ph) % Base # 0 THEN Duration(Rest(ph), i)
                        ELSE IF Unbounded(ct, i, ph) THEN Duration(Rest(ph), dp)
                        ELSE f[i + 1][NextPhase(ct, i, ph)]
  <2> DEFINE Rec(j) == [x \in Phases |->
                          IF Rest(x) % Base # 0 THEN Duration(Rest(x), j)
                          ELSE IF Unbounded(ct, j, x) THEN Duration(Rest(x), dp)
                          ELSE f[j + 1][NextPhase(ct, j, x)]]
  <2>1. f = [j \in Nat |-> Rec(j)]
    BY DEF IsCoarsen
  <2>2. f[i] = Rec(i)
    <3> HIDE DEF Rec
    <3> QED  BY <2>1
  <2>3. QED
    BY <2>2, Zenon
<1>4. ASSUME NEW i \in Nat, NEW ph \in Phases,
             Rest(ph) % Base # 0 \/ Unbounded(ct, i, ph)
      PROVE  Good(i, ph)
  <2>1. CASE Rest(ph) % Base # 0
    BY <1>3, <2>1, FinestPhase
  <2>2. CASE Rest(ph) % Base = 0 /\ Unbounded(ct, i, ph)
    <3>1. Total(ct, i, ph) = 0 /\ Rest(ph) = 0
      BY <2>2, UnboundedIs DEF Unbounded
    <3>2. f[i][ph] = Duration(Rest(ph), dp)
      BY <1>3, <2>2
    <3>3. QED
      BY <3>1, <3>2 DEF PhaseOf
  <2>3. QED
    BY <1>4, <2>1, <2>2
<1>5. ASSUME NEW i \in Nat, NEW ph \in Phases,
             Rest(ph) % Base = 0, ~Unbounded(ct, i, ph)
      PROVE  /\ NextPhase(ct, i, ph) \in Phases
             /\ Left(i, ph) = Left(i + 1, NextPhase(ct, i, ph)) + 1
             /\ Good(i + 1, NextPhase(ct, i, ph)) => Good(i, ph)
  <2> DEFINE next == NextPhase(ct, i, ph)
             t == Total(ct, i, ph)
  <2>1. next \in Phases /\ Total(ct, i + 1, next) = t
    BY <1>5, NextPhaseSame
  <2>2. f[i][ph] = f[i + 1][next]
    BY <1>3, <1>5
  <2>3. i + 1 \in Nat
    OBVIOUS
  <2>4. Left(i, ph) \in Nat /\ Left(i + 1, next) \in Nat
    <3> HIDE DEF Left, next
    <3> QED  BY <1>2, <2>1, <2>3
  <2>5. t = 0 => ~(i + EpochScales >= a)
    BY <1>5, UnboundedIs
  <2>6. t # 0 => precision(t) \in Nat
    <3>1. t \in Int
      BY PhaseParts
    <3> HIDE DEF t
    <3>2. QED
      BY <3>1, PrecisionIs
  <2>7. Left(i, ph) = Left(i + 1, next) + 1
    <3>1. Left(i, ph) = IF t = 0
                        THEN IF i + EpochScales >= a THEN 0 ELSE a - (i + EpochScales)
                        ELSE precision(t) - i
      OBVIOUS
    <3>2. Left(i + 1, next) = IF t = 0
                              THEN IF i + 1 + EpochScales >= a THEN 0 ELSE a - (i + 1 + EpochScales)
                              ELSE precision(t) - (i + 1)
      BY <2>1
    <3> HIDE DEF Left, t, a, next
    <3>3. QED
      BY <1>1, <2>5, <2>6, <3>1, <3>2
  <2>8. QED
    BY <2>1, <2>2, <2>7
<1>6. S = {}
  <2> SUFFICES ASSUME S # {} PROVE FALSE
    OBVIOUS
  <2>1. PICK n \in S : \A m \in S : n <= m
    <3>1. S \subseteq Nat
      OBVIOUS
    <3> HIDE DEF S
    <3>2. QED
      BY <3>1, LeastNatural
  <2>2. n \in Nat /\ Bad(n)
    <3> HIDE DEF Bad
    <3> QED  OBVIOUS
  <2> HIDE DEF Left, Good
  <2>3. PICK i \in Nat, ph \in Phases : Left(i, ph) = n /\ ~Good(i, ph)
    BY <2>2
  <2>4. Rest(ph) % Base = 0 /\ ~Unbounded(ct, i, ph)
    BY <1>4, <2>3
  <2> DEFINE next == NextPhase(ct, i, ph)
  <2>5. next \in Phases /\ n = Left(i + 1, next) + 1 /\ ~Good(i + 1, next)
    BY <1>5, <2>3, <2>4
  <2> HIDE DEF next
  <2>6. i + 1 \in Nat /\ Left(i + 1, next) \in Nat
    BY <1>2, <2>5
  <2>7. Bad(Left(i + 1, next))
    BY <2>5, <2>6
  <2> HIDE DEF Bad
  <2>8. Left(i + 1, next) \in S
    BY <2>6, <2>7
  <2> HIDE DEF S
  <2>9. QED
    BY <2>1, <2>2, <2>5, <2>6, <2>8
<1>7. Good(q, phase)
  <2>1. Left(q, phase) \in Nat
    BY <1>2
  <2> HIDE DEF Left, Good
  <2>2. QED
    BY <1>6, <2>1
<1>8. QED
  BY <1>7

\* Time points: what lies a multiple of a tick ahead, and nothing ahead.
LEMMA CutExact ==
    ASSUME NEW t \in Int, NEW p \in Nat
    PROVE  /\ Floor(t, p) = Cut(t, p) * Tick(p)
           /\ t % Tick(p) = 0 => t = Cut(t, p) * Tick(p)
<1> DEFINE k == Tick(p)
<1>1. k \in Nat \ {0}
  BY TickPositive
<1>2. Floor(t, p) = Cut(t, p) * k
  BY DEF Floor, Cut
<1>3. t = (t \div k) * k + (t % k) /\ (t \div k) * k \in Int
  <2> HIDE DEF k
  <2> QED  BY <1>1, Quotient
<1>4. QED
  BY <1>2, <1>3 DEF Cut

LEMMA PhaseFromDuration ==
    ASSUME NEW ct \in Int, NEW dt \in [m : Nat, p : Nat], finite(dt)
    PROVE  phase_from_duration(ct, dt) = PhaseOf(default_precision_, advance(ct, dt))
<1> DEFINE dp == default_precision_
           first == IF dt.m = 0 THEN precision(ct) ELSE dt.p
           f == CHOOSE r : IsCoarsen(r, ct, dp)
           l == quantity_limit
           phase == epoch_phase(ct, first) + dt.m
<1>1. phase_from_duration(ct, dt) = f[first][phase]
  BY DEF phase_from_duration, IsCoarsen, Phases, Carry, Rest, NextPhase, Unbounded
<1>2. IsCoarsen(f, ct, dp)
  BY CoarsenExists
<1>3. first \in Nat /\ dt.m \in Nat /\ dt.p \in Nat
  BY PrecisionBelow
<1> HIDE DEF f
<1>4. phase \in Phases
  <2>1. epoch_phase(ct, first) \in 0 .. l - 1
    <3> HIDE DEF first
    <3> QED  BY <1>3, EpochPhase
  <2>2. l \in Nat /\ dt.m < l
    BY LimitPhases DEF finite
  <2> HIDE DEF first, l
  <2>3. QED
    BY <1>3, <2>1, <2>2 DEF Phases, l
<1>5. f[first][phase] = PhaseOf(dp, Total(ct, first, phase))
  <2> HIDE DEF first, phase
  <2> QED  BY <1>2, <1>3, <1>4, CoarsenIs
<1>6. Total(ct, first, phase) = (Cut(ct, first) + dt.m) * Tick(first)
  <2> DEFINE z == Cut(ct, first + EpochScales)
             e == epoch_phase(ct, first)
  <2>1. e \in 0 .. l - 1 /\ Cut(ct, first) = l * z + e
    <3> HIDE DEF first
    <3> QED  BY <1>3, EpochPhase DEF Cut
  <2>2. z \in Int /\ l \in Nat
    <3>1. first + EpochScales \in Nat
      <4> HIDE DEF first
      <4> QED  BY <1>3, EpochScalesAssumption
    <3> HIDE DEF first
    <3>2. QED
      BY <3>1, CutType, LimitPhases
  <2>3. Total(ct, first, phase) = (l * z + (e + dt.m)) * Tick(first)
    BY DEF Total, Count
  <2> HIDE DEF z, e, l, first
  <2>4. l * z + (e + dt.m) = (l * z + e) + dt.m
    <3>1. l * z \in Int /\ e \in Int
      BY <2>1, <2>2
    <3>2. QED
      BY <1>3, <3>1
  <2>5. QED
    BY <2>1, <2>3, <2>4
<1>7. Total(ct, first, phase) = advance(ct, dt)
  <2>1. CASE dt.m = 0
    <3>1. ct % Tick(first) = 0 /\ first = precision(ct)
      BY <2>1, PrecisionBelow
    <3> HIDE DEF first
    <3>2. ct = Cut(ct, first) * Tick(first)
      BY <1>3, <3>1, CutExact
    <3>3. Cut(ct, first) + dt.m = Cut(ct, first)
      BY <1>3, <2>1, CutType
    <3>4. advance(ct, dt) = ct
      BY <2>1 DEF advance
    <3>5. QED
      BY <1>6, <3>2, <3>3, <3>4
  <2>2. CASE dt.m # 0
    <3>1. advance(ct, dt) = Ahead(ct, dt)
      BY <2>2 DEF advance, Ahead
    <3>2. QED
      BY <1>6, <2>2, <3>1, AheadIs
  <2>3. QED
    BY <2>1, <2>2
<1>8. QED
  BY <1>1, <1>5, <1>7

-----------------------------------------------------------------------------
(* A phase stands for a time                                               *)

\* Seen from time c, the phase pdt stands for the event time t.
Stands(dp, c, pdt, t) ==
    /\ t \in Int /\ pdt = PhaseOf(dp, t) /\ c <= t
    /\ Cut(t, pdt.p) - Cut(c, pdt.p) < quantity_limit

LEMMA PhaseParse ==
    ASSUME NEW dp \in Nat, NEW t \in Int
    PROVE  LET pdt == PhaseOf(dp, t)
           IN  /\ pdt \in [m : Nat, p : Nat]
               /\ pdt.m = epoch_phase(t, pdt.p)
               /\ t % Tick(pdt.p) = 0
<1> DEFINE pdt == PhaseOf(dp, t)
<1>1. CASE t = 0
  <2>1. pdt = [m |-> 0, p |-> dp]
    BY <1>1 DEF PhaseOf, Duration
  <2>2. Tick(dp) \in Nat \ {0} /\ quantity_limit \in Nat \ {0}
    BY TickPositive, LimitPhases
  <2>3. 0 % Tick(dp) = 0 /\ 0 \div Tick(dp) = 0
    <3>1. 0 * Tick(dp) = 0
      BY <2>2
    <3>2. QED
      BY <2>2, <3>1, QuotientOfMultiple
  <2>4. 0 % quantity_limit = 0
    <3> DEFINE l == quantity_limit
    <3> HIDE DEF l
    <3>1. l \in Nat \ {0}
      BY <2>2 DEF l
    <3>2. 0 * l = 0 /\ (0 * l) % l = 0
      BY <3>1, QuotientOfMultiple
    <3>3. QED
      BY <3>2 DEF l
  <2>5. epoch_phase(t, dp) = 0
    BY <1>1, <2>3, <2>4 DEF epoch_phase
  <2>6. QED
    BY <1>1, <2>1, <2>3, <2>5
<1>2. CASE t # 0
  <2> DEFINE s == precision(t)
  <2>1. s \in Nat /\ t % Tick(s) = 0
    BY <1>2, PrecisionIs
  <2>2. epoch_phase(t, s) \in Nat
    <3>1. epoch_phase(t, s) \in 0 .. quantity_limit - 1
      <4> HIDE DEF s
      <4> QED  BY <2>1, EpochPhase
    <3>2. QED
      BY <3>1
  <2>3. pdt = [m |-> epoch_phase(t, s), p |-> s]
    BY <1>2 DEF PhaseOf, Duration
  <2> HIDE DEF pdt, s
  <2>4. pdt \in [m : Nat, p : Nat] /\ pdt.p = s /\ pdt.m = epoch_phase(t, s)
    BY <2>1, <2>2, <2>3
  <2>5. QED
    BY <2>1, <2>4 DEF pdt
<1>3. QED
  BY <1>1, <1>2

\* Time passing up to the event does not change what a phase stands for.
LEMMA StandsLater ==
    ASSUME NEW dp \in Nat, NEW c \in Int, NEW pdt, NEW t, Stands(dp, c, pdt, t),
           NEW d \in Int, c <= d, d <= t
    PROVE  Stands(dp, d, pdt, t)
<1> DEFINE p == pdt.p
<1>1. t \in Int /\ pdt = PhaseOf(dp, t) /\ Cut(t, p) - Cut(c, p) < quantity_limit
  BY DEF Stands
<1>2. p \in Nat
  BY <1>1, PhaseParse
<1>3. Cut(c, p) <= Cut(d, p)
  <2>1. Tick(p) \in Nat \ {0}
    BY <1>2, TickPositive
  <2> HIDE DEF p
  <2>2. QED
    BY <2>1, QuotientMonotone DEF Cut
<1>4. Cut(t, p) \in Int /\ Cut(c, p) \in Int /\ Cut(d, p) \in Int /\ quantity_limit \in Int
  <2>1. quantity_limit \in Int
    BY LimitPhases
  <2> HIDE DEF p
  <2>2. QED
    BY <1>1, <1>2, <2>1, CutType
<1>5. Cut(t, p) - Cut(d, p) < quantity_limit
  BY <1>1, <1>3, <1>4
<1>6. QED
  BY <1>1, <1>5 DEF Stands

LEMMA DurationFromPhase ==
    ASSUME NEW dp \in Nat, NEW c \in Int, NEW pdt, NEW t, Stands(dp, c, pdt, t)
    PROVE  LET dt == duration_from_phase(c, pdt)
           IN  /\ pdt \in [m : Nat, p : Nat]
               /\ dt = Duration(Cut(t, pdt.p) - Cut(c, pdt.p), pdt.p)
               /\ dt \in [m : Nat, p : Nat] /\ finite(dt)
               /\ Ahead(c, dt) = t
               /\ dt.m = 0 => t = c
               /\ advance(c, dt) = t
<1> DEFINE q == pdt.p
           l == quantity_limit
           x == Cut(t, q)
           y == Cut(c, q)
           ex == epoch_phase(t, q)
           ey == epoch_phase(c, q)
           kx == Cut(t, q + EpochScales)
           ky == Cut(c, q + EpochScales)
           n == pdt.m - ey
           dt == duration_from_phase(c, pdt)
<1>1. t \in Int /\ pdt = PhaseOf(dp, t) /\ c <= t /\ x - y < l
  BY DEF Stands
<1>2. pdt \in [m : Nat, p : Nat] /\ q \in Nat /\ pdt.m = ex /\ t % Tick(q) = 0
  BY <1>1, PhaseParse
<1>3. l \in Nat \ {0}
  BY LimitPhases
<1>4. ex \in 0 .. l - 1 /\ ey \in 0 .. l - 1 /\ x = l * kx + ex /\ y = l * ky + ey
  BY <1>1, <1>2, EpochPhase DEF Cut
<1>5. x \in Int /\ y \in Int /\ kx \in Int /\ ky \in Int
  <2>1. q + EpochScales \in Nat
    BY <1>2, EpochScalesAssumption
  <2>2. QED
    BY <1>1, <1>2, <2>1, CutType
<1>6. y <= x
  <2>1. Tick(q) \in Nat \ {0}
    BY <1>2, TickPositive
  <2> HIDE DEF q
  <2>2. QED
    BY <1>1, <2>1, QuotientMonotone DEF Cut
<1>7. dt = Duration(IF n < 0 THEN n + l ELSE n, q)
  BY DEF duration_from_phase
<1>8. (IF n < 0 THEN n + l ELSE n) = x - y
  <2>1. n = ex - ey
    BY <1>2
  <2> HIDE DEF l, x, y, ex, ey, kx, ky, n
  <2> DEFINE k == kx - ky
  <2>2. x - y = l * k + (ex - ey) /\ l * k \in Int /\ k \in Int
    <3>1. l * (kx - ky) = l * kx - l * ky /\ l * kx \in Int /\ l * ky \in Int
      BY <1>3, <1>5
    <3>2. QED
      BY <1>3, <1>4, <1>5, <3>1
  <2> HIDE DEF k
  <2>3. k = 0 \/ k = 1
    <3>1. k >= 2 => l * k >= 2 * l
      BY <1>3, <2>2
    <3>2. k <= -1 => l * k <= -l
      BY <1>3, <2>2
    <3>3. QED
      BY <1>1, <1>3, <1>4, <1>5, <1>6, <2>2, <3>1, <3>2
  <2>4. CASE k = 0
    <3>1. l * k = 0
      BY <1>3, <2>4
    <3>2. QED
      BY <1>1, <1>3, <1>4, <1>5, <1>6, <2>1, <2>2, <3>1
  <2>5. CASE k = 1
    <3>1. l * k = l
      BY <1>3, <2>5
    <3>2. QED
      BY <1>1, <1>3, <1>4, <1>5, <1>6, <2>1, <2>2, <3>1
  <2>6. QED
    BY <2>3, <2>4, <2>5
<1>9. dt = Duration(x - y, q)
  <2> HIDE DEF n, x, y, l, dt, q
  <2> QED  BY <1>7, <1>8
<1>10. x - y \in Nat
  <2> HIDE DEF x, y
  <2> QED  BY <1>5, <1>6
<1>11. dt \in [m : Nat, p : Nat] /\ dt.m = x - y /\ dt.p = q
  <2> HIDE DEF dt, x, y, q
  <2> QED  BY <1>2, <1>9, <1>10 DEF Duration
<1>12. t = x * Tick(q)
  BY <1>1, <1>2, CutExact
<1>13. Ahead(c, dt) = t
  <2>1. Ahead(c, dt) = (y + (x - y)) * Tick(q)
    <3> HIDE DEF dt, x
    <3>1. Ahead(c, dt) = (Cut(c, dt.p) + dt.m) * Tick(dt.p)
      BY <1>11, AheadIs
    <3>2. QED
      BY <1>11, <3>1
  <2> HIDE DEF dt, x, y
  <2>2. y + (x - y) = x
    BY <1>5
  <2>3. QED
    BY <1>12, <2>1, <2>2
<1>14. dt.m = 0 => t = c
  <2>1. ASSUME x - y = 0 PROVE t = c
    <3>1. c <= t /\ Floor(c, q) <= c /\ Floor(c, q) = y * Tick(q)
      BY <1>1, <1>2, FloorBounds, CutExact
    <3> HIDE DEF x, y
    <3>2. x = y
      BY <1>5, <2>1
    <3>3. QED
      BY <1>1, <1>12, <3>1, <3>2
  <2>2. QED
    BY <1>11, <2>1
<1>15. advance(c, dt) = t
  <2>1. dt.m # 0 => advance(c, dt) = Ahead(c, dt)
    BY DEF advance, Ahead
  <2>2. dt.m = 0 => advance(c, dt) = c
    BY DEF advance
  <2>3. QED
    BY <1>13, <1>14, <2>1, <2>2
<1>16. finite(dt)
  <2> HIDE DEF dt, x, y
  <2> QED  BY <1>1, <1>11 DEF finite
<1>17. QED
  BY <1>2, <1>9, <1>11, <1>13, <1>14, <1>15, <1>16

\* Refining the duration until an event, to a precision its time is whole at.
LEMMA RefinedUntil ==
    ASSUME NEW dp \in Nat, NEW c \in Int, NEW pdt, NEW t, Stands(dp, c, pdt, t),
           NEW p \in Nat, p <= pdt.p
    PROVE  LET n == Cut(t, p) - Cut(c, p)
           IN  /\ n \in Nat
               /\ refined_duration(c, duration_from_phase(c, pdt), p) = quantity(n, p)
               /\ t = Cut(t, p) * Tick(p)
               /\ p = pdt.p => n < quantity_limit
<1> DEFINE dt == duration_from_phase(c, pdt)
           n == Cut(t, p) - Cut(c, p)
<1>1. /\ pdt \in [m : Nat, p : Nat]
      /\ dt = Duration(Cut(t, pdt.p) - Cut(c, pdt.p), pdt.p)
      /\ dt \in [m : Nat, p : Nat] /\ finite(dt)
      /\ Ahead(c, dt) = t
      /\ dt.m = 0 => t = c
  BY DurationFromPhase
<1>2. t \in Int
  BY DEF Stands
<1>3. dt.p = pdt.p
  BY <1>1 DEF Duration
<1>4. refined_duration(c, dt, p) = quantity(n, p) /\ n \in Nat
  <2> HIDE DEF dt
  <2>1. CASE dt.m = 0
    <3>1. refined_duration(c, dt, p) = Duration(0, p)
      BY <1>1, <1>3, <2>1, RefinedDuration
    <3>2. Cut(t, p) \in Int
      BY <1>2, CutType
    <3>3. n = 0
      BY <1>1, <2>1, <3>2
    <3>4. quantity_limit \in Nat \ {0}
      BY LimitPhases
    <3>5. QED
      BY <3>1, <3>3, <3>4 DEF quantity
  <2>2. CASE dt.m # 0
    <3>1. /\ Cut(Ahead(c, dt), p) - Cut(c, p) \in Nat \ {0}
          /\ refined_duration(c, dt, p) = quantity(Cut(Ahead(c, dt), p) - Cut(c, p), p)
      BY <1>1, <1>3, <2>2, RefinedDuration
    <3>2. QED
      BY <1>1, <3>1
  <2>3. QED
    BY <2>1, <2>2
<1>5. t % Tick(p) = 0
  <2>1. t % Tick(pdt.p) = 0
    BY <1>2, PhaseParse DEF Stands
  <2>2. pdt.p \in Nat
    BY <1>1
  <2>3. QED
    BY <1>2, <2>1, <2>2, MultipleOfFiner
<1>6. t = Cut(t, p) * Tick(p)
  BY <1>2, <1>5, CutExact
<1>7. p = pdt.p => n < quantity_limit
  BY DEF Stands
<1>8. QED
  BY <1>4, <1>6, <1>7

LEMMA TimesByCut ==
    ASSUME NEW s \in Int, NEW t \in Int, NEW p \in Nat,
           s = Cut(s, p) * Tick(p), t = Cut(t, p) * Tick(p)
    PROVE  /\ s < t <=> Cut(s, p) < Cut(t, p)
           /\ s <= t <=> Cut(s, p) <= Cut(t, p)
<1> DEFINE k == Tick(p)
           x == Cut(s, p)
           y == Cut(t, p)
<1>1. k \in Nat \ {0} /\ x \in Int /\ y \in Int
  BY TickPositive, CutType
<1>2. s = x * k /\ t = y * k
  OBVIOUS
<1> HIDE DEF k, x, y
<1>3. x < y => x * k < y * k
  <2>1. ASSUME x < y PROVE x * k < y * k
    <3>1. x * k + k = (x + 1) * k
      BY <1>1
    <3>2. (x + 1) * k <= y * k
      BY <1>1, <2>1
    <3>3. x * k \in Int /\ y * k \in Int
      BY <1>1
    <3>4. QED
      BY <1>1, <3>1, <3>2, <3>3
  <2>2. QED
    BY <2>1
<1>4. y < x => y * k < x * k
  <2>1. ASSUME y < x PROVE y * k < x * k
    <3>1. y * k + k = (y + 1) * k
      BY <1>1
    <3>2. (y + 1) * k <= x * k
      BY <1>1, <2>1
    <3>3. x * k \in Int /\ y * k \in Int
      BY <1>1
    <3>4. QED
      BY <1>1, <3>1, <3>2, <3>3
  <2>2. QED
    BY <2>1
<1>5. QED
  BY <1>1, <1>2, <1>3, <1>4 DEF x, y

\* How durations at one precision compare, in and out of range.
LEMMA LessEqAtOne ==
    ASSUME NEW m \in Nat, NEW n \in Nat, NEW p \in Nat
    PROVE  LessEq(quantity(m, p), quantity(n, p))
               <=> n >= quantity_limit \/ (m < quantity_limit /\ m <= n)
<1> DEFINE l == quantity_limit
           k == Tick(p)
<1>1. l \in Nat \ {0} /\ k \in Nat \ {0}
  BY LimitPhases, TickPositive
<1>2. \A x \in Nat : finite(quantity(x, p)) <=> x < l
  <2> DEFINE lim == quantity_limit
  <2>1. \A x \in Nat : x < lim => quantity(x, p).m = x
    BY DEF quantity, Duration
  <2>2. \A x \in Nat : ~(x < lim) => quantity(x, p).m = lim
    BY DEF quantity, Duration, inf
  <2> HIDE DEF lim, l
  <2>3. lim = l /\ \A x \in Nat : finite(quantity(x, p)) <=> quantity(x, p).m < lim
    BY DEF finite, lim, l
  <2>4. QED
    BY <1>1, <2>1, <2>2, <2>3
<1>3. \A x \in Nat : x < l => quantity(x, p).m = x /\ quantity(x, p).p = p
  BY DEF quantity, Duration
<1>4. m * k <= n * k <=> m <= n
  <2> HIDE DEF k
  <2>1. m <= n => m * k <= n * k
    BY <1>1
  <2>2. n < m => (n + 1) * k <= m * k /\ (n + 1) * k = n * k + k
    BY <1>1
  <2>3. n * k \in Int /\ m * k \in Int
    BY <1>1
  <2>4. QED
    BY <1>1, <2>1, <2>2, <2>3
<1> HIDE DEF l
<1>5. CASE n >= l
  BY <1>1, <1>2, <1>5 DEF LessEq, l
<1>6. CASE n < l /\ m >= l
  BY <1>1, <1>2, <1>6 DEF LessEq, l
<1>7. CASE n < l /\ m < l
  BY <1>1, <1>2, <1>3, <1>4, <1>7 DEF LessEq, l
<1>8. QED
  BY <1>1, <1>5, <1>6, <1>7

\* The comparison the queue is searched with compares the times.
LEMMA SoonerIs ==
    ASSUME NEW dp \in Nat, ct_ \in Int, NEW entry, NEW value, NEW s, NEW t,
           Stands(dp, ct_, entry, s), Stands(dp, ct_, value, t)
    PROVE  Sooner(entry, value) <=> s < t
<1> DEFINE p == IF entry.p < value.p THEN entry.p ELSE value.p
           m == Cut(s, p) - Cut(ct_, p)
           n == Cut(t, p) - Cut(ct_, p)
<1>1. entry \in [m : Nat, p : Nat] /\ value \in [m : Nat, p : Nat]
  BY DurationFromPhase
<1>2. p \in Nat /\ p <= entry.p /\ p <= value.p /\ (p = entry.p \/ p = value.p)
  BY <1>1
<1>3. Sooner(entry, value) <=>
          ~LessEq(refined_duration(ct_, duration_from_phase(ct_, value), p),
                  refined_duration(ct_, duration_from_phase(ct_, entry), p))
  BY DEF Sooner
<1> HIDE DEF p
<1>4. /\ m \in Nat /\ s = Cut(s, p) * Tick(p)
      /\ p = entry.p => m < quantity_limit
      /\ refined_duration(ct_, duration_from_phase(ct_, entry), p) = quantity(m, p)
  BY <1>2, RefinedUntil
<1>5. /\ n \in Nat /\ t = Cut(t, p) * Tick(p)
      /\ p = value.p => n < quantity_limit
      /\ refined_duration(ct_, duration_from_phase(ct_, value), p) = quantity(n, p)
  BY <1>2, RefinedUntil
<1>6. s \in Int /\ t \in Int
  BY DEF Stands
<1>7. Cut(s, p) \in Int /\ Cut(t, p) \in Int /\ Cut(ct_, p) \in Int /\ quantity_limit \in Nat
  BY <1>2, <1>6, CutType, LimitPhases
<1>8. s < t <=> m < n
  <2>1. s < t <=> Cut(s, p) < Cut(t, p)
    BY <1>2, <1>4, <1>5, <1>6, TimesByCut
  <2>2. QED
    BY <1>7, <2>1
<1> HIDE DEF m, n
<1>9. LessEq(quantity(n, p), quantity(m, p))
          <=> m >= quantity_limit \/ (n < quantity_limit /\ n <= m)
  BY <1>2, <1>4, <1>5, LessEqAtOne
<1>10. Sooner(entry, value) <=> ~(m >= quantity_limit \/ (n < quantity_limit /\ n <= m))
  BY <1>3, <1>4, <1>5, <1>9
<1>11. QED
  BY <1>2, <1>4, <1>5, <1>7, <1>8, <1>10

\* The advances that can_advance_by allows are those that do not pass the event.
LEMMA NotBeyondIs ==
    ASSUME NEW dp \in Nat, NEW c \in Int, NEW pdt, NEW t, Stands(dp, c, pdt, t),
           NEW dt \in [m : Nat, p : Nat], finite(dt)
    PROVE  NotBeyond(c, dt, duration_from_phase(c, pdt)) <=> advance(c, dt) <= t
<1> DEFINE idt == duration_from_phase(c, pdt)
           p == IF dt.p < idt.p THEN dt.p ELSE idt.p
           a == Ahead(c, dt)
           m == Cut(a, p) - Cut(c, p)
           n == Cut(t, p) - Cut(c, p)
<1>1. /\ pdt \in [m : Nat, p : Nat] /\ idt \in [m : Nat, p : Nat]
      /\ finite(idt) /\ idt.p = pdt.p
  BY DurationFromPhase DEF Duration
<1>2. t \in Int /\ c <= t
  BY DEF Stands
<1>3. CASE dt.m = 0
  BY <1>2, <1>3 DEF advance, NotBeyond
<1>4. CASE dt.m # 0
  <2>1. advance(c, dt) = a
    BY <1>4 DEF advance, Ahead
  <2>2. NotBeyond(c, dt, idt)
            <=> LessEq(refined_duration(c, dt, p), refined_duration(c, idt, p))
    BY <1>1, <1>4 DEF NotBeyond
  <2>3. p \in Nat /\ p <= dt.p /\ p <= pdt.p /\ (p = dt.p \/ p = pdt.p)
    <3> HIDE DEF idt
    <3> QED  BY <1>1
  <2> HIDE DEF p
  <2>4. refined_duration(c, dt, p) = quantity(m, p) /\ m \in Nat
    BY <1>4, <2>3, RefinedDuration
  <2>5. /\ n \in Nat /\ refined_duration(c, idt, p) = quantity(n, p)
        /\ t = Cut(t, p) * Tick(p)
        /\ p = pdt.p => n < quantity_limit
    BY <2>3, RefinedUntil
  <2>6. a \in Int /\ Cut(a, p) \in Int /\ Cut(t, p) \in Int /\ Cut(c, p) \in Int
    <3>1. a \in Int
      BY AheadIs
    <3> HIDE DEF a
    <3>2. QED
      BY <1>2, <2>3, <3>1, CutType
  <2>7. /\ a = Cut(a, p) * Tick(p)
        /\ p = dt.p => m = dt.m
    <3> DEFINE k == Cut(c, dt.p) + dt.m
    <3>1. a = k * Tick(dt.p) /\ k \in Int
      <4>1. dt.p \in Nat /\ dt.m \in Nat
        OBVIOUS
      <4>2. Cut(c, dt.p) \in Int
        BY <4>1, CutType
      <4>3. a = k * Tick(dt.p)
        BY AheadIs
      <4>4. QED
        BY <4>1, <4>2, <4>3
    <3>2. dt.p \in Nat /\ dt.m \in Nat /\ Cut(c, dt.p) \in Int
      BY CutType
    <3> HIDE DEF k, a
    <3>3. a % Tick(p) = 0 /\ Cut(a, dt.p) = k
      BY <2>3, <3>1, <3>2, CutOfMultiple
    <3>4. a = Cut(a, p) * Tick(p)
      BY <2>3, <2>6, <3>3, CutExact
    <3>5. p = dt.p => m = dt.m
      BY <3>2, <3>3 DEF k
    <3>6. QED
      BY <3>4, <3>5
  <2> HIDE DEF m, n, a, idt
  <2>8. NotBeyond(c, dt, idt) <=> n >= quantity_limit \/ (m < quantity_limit /\ m <= n)
    <3>1. NotBeyond(c, dt, idt) <=> LessEq(quantity(m, p), quantity(n, p))
      BY <2>2, <2>4, <2>5
    <3>2. QED
      BY <2>3, <2>4, <2>5, <3>1, LessEqAtOne
  <2>9. NotBeyond(c, dt, idt) <=> m <= n
    <3>1. dt.m < quantity_limit
      BY DEF finite
    <3>2. quantity_limit \in Nat /\ dt.m \in Nat
      BY LimitPhases
    <3>3. QED
      BY <2>3, <2>4, <2>5, <2>7, <2>8, <3>1, <3>2
  <2>10. m <= n <=> Cut(a, p) <= Cut(t, p)
    BY <2>6 DEF m, n
  <2>11. a <= t <=> Cut(a, p) <= Cut(t, p)
    BY <1>2, <2>3, <2>5, <2>6, <2>7, TimesByCut
  <2>12. NotBeyond(c, dt, idt) <=> advance(c, dt) <= t
    BY <2>1, <2>9, <2>10, <2>11
  <2>13. QED
    BY <2>12 DEF idt
<1>5. QED
  BY <1>3, <1>4

\* The duration until t can be told at precision p.
Exact(c, p, t) == c = t \/ (t % Tick(p) = 0 /\ Cut(t, p) - Cut(c, p) < quantity_limit)

LEMMA ExactLater ==
    ASSUME NEW c \in Int, NEW t \in Int, NEW p \in Nat, Exact(c, p, t),
           NEW d \in Int, c <= d, d <= t
    PROVE  Exact(d, p, t)
<1>1. CASE c = t
  BY <1>1 DEF Exact
<1>2. CASE c # t
  <2>1. t % Tick(p) = 0 /\ Cut(t, p) - Cut(c, p) < quantity_limit
    BY <1>2 DEF Exact
  <2>2. Tick(p) \in Nat \ {0}
    BY TickPositive
  <2>3. Cut(c, p) <= Cut(d, p)
    BY <2>2, QuotientMonotone DEF Cut
  <2>4. Cut(c, p) \in Int /\ Cut(d, p) \in Int /\ Cut(t, p) \in Int /\ quantity_limit \in Int
    BY CutType, LimitPhases
  <2>5. Cut(t, p) - Cut(d, p) < quantity_limit
    BY <2>1, <2>3, <2>4
  <2>6. QED
    BY <2>1, <2>5 DEF Exact
<1>3. QED
  BY <1>1, <1>2

\* An epoch before zero at most: the queue's precision for time zero is coarse
\* enough to tell it from the current time.
LEMMA CutNearZero ==
    ASSUME NEW c \in Int, NEW q \in Nat, NEW p \in Nat, q <= p, -Tick(q) <= c, c < 0
    PROVE  Cut(c, p) = -1
<1> DEFINE k == Tick(p)
<1>1. k \in Nat \ {0} /\ Tick(q) \in Nat /\ Tick(q) <= k
  BY TickPositive, TickOrder
<1> HIDE DEF k
<1>2. (-1) * k = -k
  BY <1>1
<1>3. (-1) * k <= c /\ c < (-1) * k + k
  BY <1>1, <1>2
<1>4. c \div k = -1
  <2>1. -1 \in Int
    OBVIOUS
  <2>2. QED
    BY <1>1, <1>3, <2>1, QuotientIs
<1>5. QED
  BY <1>4 DEF Cut, k

LEMMA CutOfZero ==
    ASSUME NEW p \in Nat
    PROVE  Cut(0, p) = 0
<1>1. Tick(p) \in Nat \ {0}
  BY TickPositive
<1>2. 0 * Tick(p) = 0 /\ (0 * Tick(p)) \div Tick(p) = 0
  BY <1>1, QuotientOfMultiple
<1>3. QED
  BY <1>2 DEF Cut

\* A newly planned event: its phase stands for the time it is planned at.
LEMMA PlannedStands ==
    ASSUME NEW dp \in Nat, NEW c \in Int, -Tick(dp) <= c,
           NEW dt \in [m : Nat, p : Nat], finite(dt)
    PROVE  LET t == advance(c, dt)
           IN  Stands(dp, c, PhaseOf(dp, t), t) /\ Exact(c, dt.p, t)
<1> DEFINE t == advance(c, dt)
           pdt == PhaseOf(dp, t)
           q == pdt.p
           s == dt.p
           l == quantity_limit
<1>1. t \in Int /\ c <= t /\ s \in Nat /\ dt.m \in Nat /\ dt.m < l
  BY AdvanceForward DEF finite
<1>2. l \in Nat /\ l > 1
  BY LimitPhases, BaseAssumption
<1>3. q \in Nat
  <2> HIDE DEF t
  <2> QED  BY <1>1, PhaseParse
<1>4. CASE dt.m = 0
  <2>1. t = c
    BY <1>4 DEF advance
  <2>2. Cut(t, q) - Cut(c, q) = 0
    <3>1. Cut(c, q) \in Int
      <4> HIDE DEF q
      <4> QED  BY <1>3, CutType
    <3>2. QED
      BY <2>1, <3>1
  <2> HIDE DEF t, l
  <2>3. QED
    BY <1>1, <1>2, <2>1, <2>2 DEF Stands, Exact, l, t
<1>5. CASE dt.m # 0
  <2> DEFINE n == Cut(c, s) + dt.m
  <2>1. t = n * Tick(s)
    <3>1. t = Ahead(c, dt)
      BY <1>5 DEF advance, Ahead
    <3>2. QED
      BY <3>1, AheadIs
  <2>2. n \in Int /\ Cut(c, s) \in Int
    <3>1. Cut(c, s) \in Int
      BY <1>1, CutType
    <3>2. QED
      BY <1>1, <3>1
  <2>3. t % Tick(s) = 0 /\ Cut(t, s) = n
    <3> HIDE DEF t, n, s
    <3> QED  BY <1>1, <2>1, <2>2, CutOfMultiple
  <2>4. Cut(t, s) - Cut(c, s) < l
    <3> HIDE DEF t, l
    <3> QED  BY <1>1, <2>2, <2>3
  <2>5. Exact(c, s, t)
    <3> HIDE DEF t, s
    <3> QED  BY <2>3, <2>4 DEF Exact
  <2>6. Cut(t, q) - Cut(c, q) < l
    <3>1. CASE t = 0
      <4>1. q = dp
        <5> HIDE DEF t
        <5> QED  BY <3>1 DEF PhaseOf, Duration
      <4>2. Cut(t, q) = 0
        BY <1>3, <3>1, <4>1, CutOfZero
      <4>3. c < 0 => Cut(c, q) = -1
        BY <1>3, <4>1, CutNearZero
      <4>4. ~(c < 0) => c = 0
        <5> HIDE DEF t
        <5> QED  BY <1>1, <3>1
      <4>5. Cut(c, q) = 0 \/ Cut(c, q) = -1
        BY <4>2, <4>3, <4>4, <3>1
      <4> HIDE DEF q, t, l
      <4>6. QED
        BY <1>2, <4>2, <4>5
    <3>2. CASE t # 0
      <4>1. q = precision(t)
        <5> HIDE DEF t
        <5> QED  BY <3>2 DEF PhaseOf, Duration
      <4>2. s <= q
        <5> HIDE DEF t, s
        <5> QED  BY <1>1, <2>3, <3>2, <4>1, PrecisionIs
      <4> DEFINE k == Tick(q - s)
                 x == Cut(c, s)
      <4>3. q - s \in Nat /\ k \in Nat \ {0}
        <5>1. q - s \in Nat
          <6> HIDE DEF q, s
          <6> QED  BY <1>1, <1>3, <4>2
        <5>2. QED
          BY <5>1, TickPositive
      <4>4. Cut(t, q) = (x + dt.m) \div k /\ Cut(c, q) = x \div k
        <5>1. Cut(t, q) = Cut(t, s) \div k /\ Cut(c, q) = Cut(c, s) \div k
          <6> HIDE DEF t, q, s
          <6> QED  BY <1>1, <1>3, <4>2, CutCoarser DEF Cut
        <5>2. QED
          BY <2>3, <5>1
      <4> HIDE DEF x, k, q, t, l, s
      <4>5. x \in Int /\ x \div k \in Int /\ (x + dt.m) \div k \in Int
        <5>1. x \in Int
          BY <2>2 DEF x
        <5>2. x + dt.m \in Int
          BY <1>1, <5>1
        <5>3. QED
          BY <4>3, <5>1, <5>2, Quotient
      <4>6. (x + dt.m) \div k <= x \div k + dt.m
        BY <1>1, <4>3, <4>5, QuotientSlow
      <4>7. QED
        BY <1>1, <1>2, <4>4, <4>5, <4>6
    <3>3. QED
      BY <3>1, <3>2
  <2>7. Stands(dp, c, pdt, t)
    <3> HIDE DEF t
    <3> QED  BY <1>1, <2>6 DEF Stands
  <2>8. QED
    BY <2>5, <2>7
<1>6. QED
  BY <1>4, <1>5

\* The duration reported until an event, advanced by, leads to its time.
LEMMA RescaledExact ==
    ASSUME NEW dp \in Nat, NEW c \in Int, -Tick(dp) <= c, NEW pdt, NEW t, NEW p \in Nat,
           Stands(dp, c, pdt, t), Exact(c, p, t)
    PROVE  LET dt == rescaled_duration_from_phase(c, pdt, p)
           IN  /\ dt \in [m : Nat, p : {p}] /\ finite(dt)
               /\ advance(c, dt) = t
<1> DEFINE dt == duration_from_phase(c, pdt)
           r == rescaled_duration_from_phase(c, pdt, p)
           q == pdt.p
           l == quantity_limit
<1>1. /\ pdt \in [m : Nat, p : Nat] /\ q \in Nat
      /\ dt = Duration(Cut(t, q) - Cut(c, q), q)
      /\ dt \in [m : Nat, p : Nat] /\ finite(dt)
      /\ dt.m = 0 => t = c
  BY DurationFromPhase
<1>2. t \in Int /\ pdt = PhaseOf(dp, t) /\ c <= t
  BY DEF Stands
<1>3. dt.p = q /\ dt.m = Cut(t, q) - Cut(c, q) /\ dt.m \in Nat
  <2> HIDE DEF q
  <2> QED  BY <1>1 DEF Duration
<1>4. l \in Nat \ {0}
  BY LimitPhases
<1>5. CASE p <= q
  <2> DEFINE n == Cut(t, p) - Cut(c, p)
  <2>1. r = refined_duration(c, dt, p)
    BY <1>3, <1>5 DEF rescaled_duration_from_phase
  <2>2. n \in Nat /\ refined_duration(c, dt, p) = quantity(n, p) /\ t = Cut(t, p) * Tick(p)
    BY <1>5, RefinedUntil
  <2>3. Cut(t, p) \in Int /\ Cut(c, p) \in Int /\ Tick(p) \in Nat
    BY <1>2, CutType, TickPositive
  <2>4. n < l
    <3>1. c = t => n = 0
      BY <2>3
    <3>2. QED
      BY <1>4, <3>1 DEF Exact
  <2>5. r = Duration(n, p)
    BY <2>1, <2>2, <2>4 DEF quantity
  <2>6. Floor(c, p) = Cut(c, p) * Tick(p) /\ Floor(c, p) <= c
    BY CutExact, FloorBounds
  <2>7. advance(c, r) = t
    <3>1. CASE n = 0
      <4>1. advance(c, r) = c
        BY <2>5, <3>1 DEF advance, Duration
      <4>2. Cut(t, p) = Cut(c, p)
        BY <2>3, <3>1
      <4>3. t <= c
        BY <2>2, <2>6, <4>2
      <4>4. QED
        BY <1>2, <4>1, <4>3
    <3>2. CASE n # 0
      <4> DEFINE x == Cut(c, p)
                 y == Cut(t, p)
                 k == Tick(p)
      <4>1. advance(c, r) = x * k + (y - x) * k
        BY <2>5, <2>6, <3>2 DEF advance, Duration
      <4>2. t = y * k
        BY <2>2
      <4>3. x \in Int /\ y \in Int /\ k \in Nat
        BY <2>3
      <4> HIDE DEF x, y, k
      <4>4. x * k + (y - x) * k = y * k
        BY <4>3
      <4>5. QED
        BY <4>1, <4>2, <4>4
    <3>3. QED
      BY <3>1, <3>2
  <2>8. r \in [m : Nat, p : {p}] /\ finite(r)
    BY <2>2, <2>4, <2>5 DEF finite, Duration
  <2>9. QED
    BY <2>7, <2>8
<1>6. CASE ~(p <= q)
  <2>1. r = Duration(dt.m, p)
    BY <1>3, <1>6 DEF rescaled_duration_from_phase
  <2>2. r \in [m : Nat, p : {p}] /\ finite(r)
    BY <1>1, <1>3, <2>1 DEF finite, Duration
  <2>3. CASE dt.m = 0
    BY <1>1, <2>1, <2>2, <2>3 DEF advance, Duration
  <2>4. CASE dt.m # 0
    <3>1. c # t
      <4>1. c = t => Cut(t, q) - Cut(c, q) = 0
        <5>1. Cut(c, q) \in Int
          <6> HIDE DEF q
          <6> QED  BY <1>1, CutType
        <5>2. QED
          BY <5>1
      <4>2. QED
        BY <1>3, <2>4, <4>1
    <3>2. t % Tick(p) = 0
      BY <3>1 DEF Exact
    <3>3. t = 0
      <4>1. ASSUME t # 0 PROVE FALSE
        <5>1. q = precision(t)
          BY <1>2, <4>1 DEF PhaseOf, Duration
        <5>2. p <= precision(t)
          BY <1>2, <3>2, <4>1, PrecisionIs
        <5>3. QED
          BY <1>6, <5>1, <5>2
      <4>2. QED
        BY <4>1
    <3>4. q = dp
      BY <1>2, <3>3 DEF PhaseOf, Duration
    <3>5. c < 0
      BY <1>2, <3>1, <3>3
    <3>6. Cut(c, q) = -1 /\ Cut(c, p) = -1
      <4>1. q <= p
        <5> HIDE DEF q
        <5> QED  BY <1>1, <1>6
      <4>2. q <= q
        <5> HIDE DEF q
        <5> QED  BY <1>1
      <4>3. -Tick(q) <= c
        BY <3>4
      <4> HIDE DEF q
      <4>4. QED
        BY <1>1, <3>5, <4>1, <4>2, <4>3, CutNearZero
    <3>7. dt.m = 1
      <4>1. Cut(t, q) = 0
        <5> HIDE DEF q
        <5> QED  BY <1>1, <3>3, CutOfZero
      <4>2. QED
        BY <1>3, <3>6, <4>1
    <3>8. advance(c, r) = Floor(c, p) + 1 * Tick(p) /\ Floor(c, p) = (-1) * Tick(p)
      BY <2>1, <3>6, <3>7, CutExact DEF advance, Duration
    <3>9. Tick(p) \in Nat
      BY TickPositive
    <3> DEFINE k == Tick(p)
    <3> HIDE DEF k
    <3>10. (-1) * k + 1 * k = 0
      BY <3>9 DEF k
    <3>11. QED
      BY <2>2, <3>3, <3>8, <3>10 DEF k
  <2>5. QED
    BY <2>3, <2>4
<1>7. QED
  BY <1>5, <1>6

-----------------------------------------------------------------------------
(* The loop of advance_time(t)                                             *)

\* What the recursive function of LoopEnd satisfies; there is one.
IsLoop(f, t) ==
    f = [c \in Int |->
            IF c < t /\ can_advance_by(c, gap(t, c)) THEN f[advance(c, gap(t, c))] ELSE c]

LEMMA LoopExists ==
    ASSUME NEW t \in Int
    PROVE  \E f : IsLoop(f, t)
<1> DEFINE goes == [c \in Int |-> c < t /\ can_advance_by(c, gap(t, c))]
           to == [c \in Int |-> advance(c, gap(t, c))]
           base == [c \in Int |-> c]
           left == [c \in Int |-> IF c < t THEN t - c ELSE 0]
<1>1. base \in [Int -> Int] /\ left \in [Int -> Nat]
  OBVIOUS
<1>2. ASSUME NEW c \in Int, goes[c] PROVE to[c] \in Int /\ left[to[c]] < left[c]
  <2>1. c < t /\ to[c] \in Int /\ c < to[c]
    BY <1>2, GapStep
  <2> HIDE DEF to
  <2>2. QED
    BY <2>1
<1>3. PICK f : LooksAhead(f, Int, goes, to, base)
  <2> HIDE DEF goes, to, base, left
  <2> QED  BY <1>1, <1>2, TailRecursion
<1>4. f = [c \in Int |-> IF goes[c] THEN f[to[c]] ELSE base[c]]
  BY <1>3 DEF LooksAhead
<1>5. IsLoop(f, t)
  BY <1>4, Zenon DEF IsLoop
<1>6. QED
  BY <1>5

\* The loop only moves time forward and never past the first event, and it
\* stops short of the target only where the gap leads past that event.
LEMMA LoopSafe ==
    ASSUME NEW t \in Int, ct_ \in Int, NEW dp \in Nat, NEW t1 \in Int,
           ~queue_empty => Stands(dp, ct_, queue_[1], t1)
    PROVE  /\ LoopEnd(t) \in Int /\ ct_ <= LoopEnd(t)
           /\ ~queue_empty => LoopEnd(t) <= t1
           /\ LoopEnd(t) < t => ~can_advance_by(LoopEnd(t), gap(t, LoopEnd(t)))
<1> DEFINE f == CHOOSE r : IsLoop(r, t)
           Goes(c) == c < t /\ can_advance_by(c, gap(t, c))
           to(c) == advance(c, gap(t, c))
           Open(c) == c \in Int /\ ct_ <= c /\ (~queue_empty => c <= t1)
           Left(c) == IF c < t THEN t - c ELSE 0
           Good(c) == Open(f[c]) /\ ~Goes(f[c])
           Bad(n) == \E c \in Int : Open(c) /\ Left(c) = n /\ ~Good(c)
           S == {n \in Nat : Bad(n)}
<1>1. LoopEnd(t) = f[ct_]
  BY DEF LoopEnd, IsLoop
<1>2. IsLoop(f, t)
  BY LoopExists
<1> HIDE DEF f
<1>3. ASSUME NEW c \in Int PROVE f[c] = IF Goes(c) THEN f[to(c)] ELSE c
  <2>1. f = [x \in Int |-> IF Goes(x) THEN f[to(x)] ELSE x]
    BY <1>2 DEF IsLoop
  <2> HIDE DEF Goes, to
  <2>2. [x \in Int |-> IF Goes(x) THEN f[to(x)] ELSE x][c] = IF Goes(c) THEN f[to(c)] ELSE c
    OBVIOUS
  <2>3. QED
    BY <2>1, <2>2, Zenon
<1>4. ASSUME NEW c \in Int, Open(c), Goes(c)
      PROVE  to(c) \in Int /\ Open(to(c)) /\ Left(to(c)) \in Nat /\ Left(to(c)) < Left(c)
  <2>1. /\ gap(t, c) \in [m : Nat, p : Nat] /\ finite(gap(t, c))
        /\ to(c) \in Int /\ c < to(c)
    BY <1>4, GapStep
  <2>2. ASSUME ~queue_empty PROVE to(c) <= t1
    <3>1. Stands(dp, c, queue_[1], t1)
      BY <1>4, <2>2, StandsLater
    <3>2. NotBeyond(c, gap(t, c), duration_from_phase(c, queue_[1]))
      BY <1>4, <2>2 DEF can_advance_by, imminent_duration
    <3>3. QED
      BY <2>1, <3>1, <3>2, NotBeyondIs
  <2> DEFINE d == to(c)
  <2>3. d \in Int /\ c < d /\ (~queue_empty => d <= t1) /\ c < t
    BY <1>4, <2>1, <2>2
  <2> HIDE DEF d
  <2>4. Open(d) /\ Left(d) \in Nat /\ Left(d) < Left(c)
    BY <1>4, <2>3
  <2>5. QED
    BY <2>3, <2>4 DEF d
<1>5. ASSUME NEW c \in Int PROVE Left(c) \in Nat
  OBVIOUS
<1> HIDE DEF Goes, to, Open, Left
<1>6. S = {}
  <2> SUFFICES ASSUME S # {} PROVE FALSE
    OBVIOUS
  <2>1. PICK n \in S : \A m \in S : n <= m
    <3>1. S \subseteq Nat
      OBVIOUS
    <3> HIDE DEF S
    <3>2. QED
      BY <3>1, LeastNatural
  <2>2. n \in Nat /\ Bad(n)
    <3> HIDE DEF Bad
    <3> QED  OBVIOUS
  <2>3. PICK c \in Int : Open(c) /\ Left(c) = n /\ ~Good(c)
    BY <2>2
  <2>4. Goes(c) /\ f[c] = f[to(c)]
    BY <1>3, <2>3
  <2>5. to(c) \in Int /\ Open(to(c)) /\ Left(to(c)) \in Nat /\ Left(to(c)) < n
    BY <1>4, <2>3, <2>4
  <2>6. ~Good(to(c))
    BY <2>3, <2>4
  <2>7. Bad(Left(to(c)))
    BY <2>5, <2>6
  <2> HIDE DEF Bad
  <2>8. Left(to(c)) \in S
    BY <2>5, <2>7
  <2> HIDE DEF S
  <2>9. QED
    BY <2>1, <2>2, <2>5, <2>8
<1>7. Open(ct_)
  <2>1. ~queue_empty => ct_ <= t1
    BY DEF Stands
  <2>2. QED
    BY <2>1 DEF Open
<1>8. Good(ct_)
  <2>1. Left(ct_) \in Nat
    BY <1>5
  <2> HIDE DEF Good
  <2>2. QED
    BY <1>6, <1>7, <2>1
<1>9. QED
  BY <1>1, <1>8 DEF Open, Goes
-----------------------------------------------------------------------------
(* The queue of phases, in the order of time                               *)

PhaseSet == [m : Nat, p : Nat]

\* The time a phase denotes seen from c, and that it is a phase of that time.
TimeAt(c, pdt) == Ahead(c, duration_from_phase(c, pdt))
IsPhase(dp, c, pdt) == Stands(dp, c, pdt, TimeAt(c, pdt))

LEMMA TimeAtIs ==
    ASSUME NEW dp \in Nat, NEW c \in Int, NEW pdt, NEW t, Stands(dp, c, pdt, t)
    PROVE  TimeAt(c, pdt) = t /\ IsPhase(dp, c, pdt)
<1>1. TimeAt(c, pdt) = t
  BY DurationFromPhase DEF TimeAt
<1>2. QED
  BY <1>1 DEF IsPhase

LEMMA TimeOfIs == ASSUME NEW pdt PROVE TimeOf(pdt) = TimeAt(ct_, pdt)
BY DEF TimeOf, TimeAt, Ahead

LEMMA IsPhaseTime ==
    ASSUME NEW dp \in Nat, NEW c \in Int, NEW pdt, IsPhase(dp, c, pdt)
    PROVE  /\ pdt \in PhaseSet
           /\ TimeAt(c, pdt) \in Int /\ c <= TimeAt(c, pdt)
           /\ pdt = PhaseOf(dp, TimeAt(c, pdt))
<1>1. Stands(dp, c, pdt, TimeAt(c, pdt))
  BY DEF IsPhase
<1>2. pdt \in [m : Nat, p : Nat]
  BY <1>1, DurationFromPhase
<1>3. QED
  BY <1>1, <1>2 DEF Stands, PhaseSet

Sorted(c, q) == \A j, k \in 1 .. Len(q) : j < k => TimeAt(c, q[j]) < TimeAt(c, q[k])
AllPhases(dp, c, q) == \A k \in 1 .. Len(q) : IsPhase(dp, c, q[k])
Entries(q) == {q[k] : k \in 1 .. Len(q)}

LEMMA LowerBoundIs ==
    ASSUME NEW dp \in Nat, ct_ \in Int, NEW q \in Seq(PhaseSet),
           AllPhases(dp, ct_, q), Sorted(ct_, q), NEW pdt, IsPhase(dp, ct_, pdt)
    PROVE  LET k == phase_lower_bound(q, pdt)
           IN  /\ k \in 1 .. Len(q) + 1
               /\ \A j \in 1 .. k - 1 : TimeAt(ct_, q[j]) < TimeAt(ct_, pdt)
               /\ \A j \in k .. Len(q) : TimeAt(ct_, pdt) <= TimeAt(ct_, q[j])
<1> DEFINE n == Len(q)
           T(j) == TimeAt(ct_, q[j])
           t == TimeAt(ct_, pdt)
           Right(k) == /\ \A j \in 1 .. k - 1 : Sooner(q[j], pdt)
                       /\ k <= n => ~Sooner(q[k], pdt)
           S == {k \in 1 .. n + 1 : k = n + 1 \/ ~Sooner(q[k], pdt)}
<1>1. n \in Nat /\ t \in Int
  BY IsPhaseTime
<1>2. ASSUME NEW j \in 1 .. n PROVE T(j) \in Int /\ (Sooner(q[j], pdt) <=> T(j) < t)
  <2>1. IsPhase(dp, ct_, q[j])
    BY DEF AllPhases
  <2>2. T(j) \in Int
    BY <2>1, IsPhaseTime
  <2>3. Stands(dp, ct_, q[j], T(j)) /\ Stands(dp, ct_, pdt, t)
    BY <2>1 DEF IsPhase
  <2> HIDE DEF T, t
  <2>4. Sooner(q[j], pdt) <=> T(j) < t
    BY <2>3, SoonerIs
  <2>5. QED
    BY <2>2, <2>4
<1>3. \A j, k \in 1 .. n : j < k => T(j) < T(k)
  BY DEF Sorted
<1> HIDE DEF n, T, t
<1>4. PICK k0 \in S : \A j \in S : k0 <= j
  <2>1. S \subseteq Nat /\ n + 1 \in S
    BY <1>1
  <2> HIDE DEF S
  <2>2. QED
    BY <2>1, LeastNatural
<1>5. Right(k0)
  <2>1. \A j \in 1 .. k0 - 1 : Sooner(q[j], pdt)
    BY <1>1, <1>4
  <2>2. k0 <= n => ~Sooner(q[k0], pdt)
    BY <1>1, <1>4
  <2>3. QED
    BY <2>1, <2>2
<1> DEFINE k == phase_lower_bound(q, pdt)
<1>6. k = CHOOSE i \in 1 .. n + 1 : Right(i)
  BY DEF phase_lower_bound, n
<1> HIDE DEF k, Right
<1>7. k \in 1 .. n + 1 /\ Right(k)
  <2>1. k0 \in 1 .. n + 1
    BY <1>4
  <2> HIDE DEF S
  <2>2. QED
    BY <1>5, <1>6, <2>1
<1>8. \A j \in 1 .. k - 1 : T(j) < t
  <2>1. \A j \in 1 .. k - 1 : j \in 1 .. n
    BY <1>1, <1>7
  <2>2. QED
    BY <1>2, <1>7, <2>1 DEF Right
<1>9. ASSUME NEW j \in k .. n PROVE t <= T(j)
  <2>1. k \in 1 .. n /\ j \in 1 .. n /\ k <= j
    BY <1>1, <1>7
  <2>2. t <= T(k) /\ T(k) \in Int
    BY <1>1, <1>2, <1>7, <2>1 DEF Right
  <2>3. T(j) \in Int
    BY <1>2, <2>1
  <2>4. j = k \/ T(k) < T(j)
    BY <1>3, <2>1
  <2>5. QED
    BY <1>1, <2>2, <2>3, <2>4
<1>10. QED
  BY <1>7, <1>8, <1>9 DEF n, T, t, k

\* An entry is found where it is.
LEMMA LowerBoundFinds ==
    ASSUME NEW dp \in Nat, ct_ \in Int, NEW q \in Seq(PhaseSet),
           AllPhases(dp, ct_, q), Sorted(ct_, q), NEW pdt \in Entries(q)
    PROVE  phase_lower_bound(q, pdt) \in 1 .. Len(q) /\ q[phase_lower_bound(q, pdt)] = pdt
<1> DEFINE k == phase_lower_bound(q, pdt)
<1>1. PICK j \in 1 .. Len(q) : q[j] = pdt
  BY DEF Entries
<1>2. IsPhase(dp, ct_, pdt)
  BY <1>1 DEF AllPhases
<1>3. /\ k \in 1 .. Len(q) + 1
      /\ \A i \in 1 .. k - 1 : TimeAt(ct_, q[i]) < TimeAt(ct_, pdt)
      /\ \A i \in k .. Len(q) : TimeAt(ct_, pdt) <= TimeAt(ct_, q[i])
  BY <1>2, LowerBoundIs
<1>4. TimeAt(ct_, pdt) \in Int
  BY <1>2, IsPhaseTime
<1> HIDE DEF k
<1>5. k <= j
  <2>1. ~(j \in 1 .. k - 1)
    BY <1>1, <1>3, <1>4
  <2>2. QED
    BY <1>3, <2>1
<1>6. ~(k < j)
  <2>1. ASSUME k < j PROVE FALSE
    <3>1. k \in 1 .. Len(q) /\ k \in k .. Len(q)
      BY <1>3, <2>1
    <3>2. TimeAt(ct_, q[k]) < TimeAt(ct_, pdt) /\ TimeAt(ct_, pdt) <= TimeAt(ct_, q[k])
      BY <1>1, <1>3, <2>1, <3>1 DEF Sorted
    <3>3. TimeAt(ct_, q[k]) \in Int
      BY <3>1, IsPhaseTime DEF AllPhases
    <3>4. QED
      BY <1>4, <3>2, <3>3
  <2>2. QED
    BY <2>1
<1>7. k = j
  BY <1>3, <1>5, <1>6
<1>8. QED
  BY <1>1, <1>7 DEF k

\* r is q without its entry at k.
Thinned(q, k, r) ==
    /\ r \in Seq(PhaseSet) /\ Len(r) = Len(q) - 1
    /\ \A i \in 1 .. Len(r) : r[i] = q[IF i < k THEN i ELSE i + 1]

\* r is q with x put in before the entry at k.
Grown(q, k, x, r) ==
    /\ r \in Seq(PhaseSet) /\ Len(r) = Len(q) + 1
    /\ \A i \in 1 .. Len(r) : r[i] = IF i < k THEN q[i] ELSE IF i = k THEN x ELSE q[i - 1]

LEMMA Thinning ==
    ASSUME NEW q \in Seq(PhaseSet), NEW k \in 1 .. Len(q)
    PROVE  Thinned(q, k, SubSeq(q, 1, k - 1) \o SubSeq(q, k + 1, Len(q)))
<1> DEFINE a == SubSeq(q, 1, k - 1)
           b == SubSeq(q, k + 1, Len(q))
           n == Len(q)
<1>1. n \in Nat /\ \A i \in 1 .. n : q[i] \in PhaseSet
  OBVIOUS
<1>2. a \in Seq(PhaseSet) /\ Len(a) = k - 1 /\ \A i \in 1 .. k - 1 : a[i] = q[i]
  OBVIOUS
<1>3. b \in Seq(PhaseSet) /\ Len(b) = n - k /\ \A i \in 1 .. n - k : b[i] = q[k + i]
  OBVIOUS
<1> HIDE DEF a, b, n
<1>4. a \o b \in Seq(PhaseSet) /\ Len(a \o b) = n - 1
  <2>1. k \in 1 .. n
    BY DEF n
  <2>2. a \o b \in Seq(PhaseSet)
    BY <1>2, <1>3
  <2>3. Len(a \o b) = Len(a) + Len(b)
    <3>1. a \in Seq(PhaseSet) /\ b \in Seq(PhaseSet)
      BY <1>2, <1>3
    <3>2. QED
      BY <3>1
  <2>4. QED
    BY <1>1, <1>2, <1>3, <2>1, <2>2, <2>3
<1>5. ASSUME NEW i \in 1 .. n - 1 PROVE (a \o b)[i] = q[IF i < k THEN i ELSE i + 1]
  <2>1. CASE i < k
    BY <1>1, <1>2, <1>3, <2>1
  <2>2. CASE ~(i < k)
    <3>1. (a \o b)[i] = b[i - (k - 1)]
      BY <1>1, <1>2, <1>3, <2>2 DEF n
    <3>2. i - (k - 1) \in 1 .. n - k /\ k + (i - (k - 1)) = i + 1
      BY <1>1, <2>2 DEF n
    <3>3. QED
      BY <1>3, <2>2, <3>1, <3>2
  <2>3. QED
    BY <2>1, <2>2
<1>6. QED
  BY <1>4, <1>5 DEF Thinned, a, b, n

LEMMA ThinningTail ==
    ASSUME NEW q \in Seq(PhaseSet), q # <<>>
    PROVE  1 \in 1 .. Len(q) /\ Thinned(q, 1, Tail(q))
<1>1. Len(q) \in Nat \ {0}
  OBVIOUS
<1>2. Tail(q) \in Seq(PhaseSet) /\ Len(Tail(q)) = Len(q) - 1
  OBVIOUS
<1>3. \A i \in 1 .. Len(q) - 1 : Tail(q)[i] = q[i + 1]
  OBVIOUS
<1>4. QED
  BY <1>1, <1>2, <1>3 DEF Thinned

LEMMA Growing ==
    ASSUME NEW q \in Seq(PhaseSet), NEW k \in 1 .. Len(q) + 1, NEW x \in PhaseSet
    PROVE  Grown(q, k, x, SubSeq(q, 1, k - 1) \o <<x>> \o SubSeq(q, k, Len(q)))
<1> DEFINE a == SubSeq(q, 1, k - 1)
           b == SubSeq(q, k, Len(q))
           n == Len(q)
           ax == a \o <<x>>
<1>1. n \in Nat /\ \A i \in 1 .. n : q[i] \in PhaseSet
  OBVIOUS
<1>2. a \in Seq(PhaseSet) /\ Len(a) = k - 1 /\ \A i \in 1 .. k - 1 : a[i] = q[i]
  OBVIOUS
<1>3. b \in Seq(PhaseSet) /\ Len(b) = n - k + 1 /\ \A i \in 1 .. n - k + 1 : b[i] = q[k + i - 1]
  OBVIOUS
<1> HIDE DEF a, b, n
<1>4. <<x>> \in Seq(PhaseSet) /\ Len(<<x>>) = 1 /\ <<x>>[1] = x
  OBVIOUS
<1>5. ax \in Seq(PhaseSet) /\ Len(ax) = k /\ ax[k] = x /\ \A i \in 1 .. k - 1 : ax[i] = q[i]
  BY <1>1, <1>2, <1>4 DEF n
<1> HIDE DEF ax
<1>6. ax \o b \in Seq(PhaseSet) /\ Len(ax \o b) = n + 1
  <2>1. ax \in Seq(PhaseSet) /\ b \in Seq(PhaseSet)
    BY <1>3, <1>5
  <2>2. ax \o b \in Seq(PhaseSet) /\ Len(ax \o b) = Len(ax) + Len(b)
    BY <2>1
  <2>3. QED
    BY <2>2, <1>1, <1>3, <1>5
<1>7. ASSUME NEW i \in 1 .. n + 1
      PROVE  (ax \o b)[i] = IF i < k THEN q[i] ELSE IF i = k THEN x ELSE q[i - 1]
  <2>1. CASE i <= k
    <3>1. i \in 1 .. k /\ i \in 1 .. Len(ax)
      BY <1>1, <1>5, <2>1 DEF n
    <3>2. (ax \o b)[i] = ax[i]
      BY <1>3, <1>5, <3>1
    <3>3. i = k \/ i \in 1 .. k - 1
      BY <3>1
    <3>4. QED
      BY <1>5, <3>2, <3>3
  <2>2. CASE ~(i <= k)
    <3>1. (ax \o b)[i] = b[i - k]
      BY <1>1, <1>3, <1>5, <2>2 DEF n
    <3>2. i - k \in 1 .. n - k + 1 /\ k + (i - k) - 1 = i - 1
      BY <1>1, <2>2 DEF n
    <3>3. QED
      BY <1>3, <2>2, <3>1, <3>2
  <2>3. QED
    BY <2>1, <2>2
<1>8. QED
  BY <1>6, <1>7 DEF Grown, a, b, n, ax

\* An ordered queue without one of its entries.
LEMMA ThinnedQueue ==
    ASSUME NEW dp \in Nat, NEW c \in Int, NEW q \in Seq(PhaseSet), AllPhases(dp, c, q),
           Sorted(c, q), NEW k \in 1 .. Len(q), NEW r, Thinned(q, k, r)
    PROVE  /\ r \in Seq(PhaseSet) /\ AllPhases(dp, c, r) /\ Sorted(c, r)
           /\ Entries(r) = Entries(q) \ {q[k]}
<1> DEFINE n == Len(q)
           at(i) == IF i < k THEN i ELSE i + 1
<1>1. n \in Nat /\ r \in Seq(PhaseSet) /\ Len(r) = n - 1
  BY DEF Thinned
<1>2. ASSUME NEW i \in 1 .. n - 1 PROVE at(i) \in 1 .. n /\ at(i) # k /\ r[i] = q[at(i)]
  <2>1. at(i) \in 1 .. n /\ at(i) # k
    BY <1>1
  <2>2. r[i] = q[at(i)]
    BY <1>1 DEF Thinned
  <2>3. QED
    BY <2>1, <2>2
<1>3. AllPhases(dp, c, r)
  <2> HIDE DEF at
  <2> QED  BY <1>1, <1>2 DEF AllPhases
<1>4. Sorted(c, r)
  <2>1. SUFFICES ASSUME NEW i \in 1 .. n - 1, NEW j \in 1 .. n - 1, i < j
                 PROVE  TimeAt(c, r[i]) < TimeAt(c, r[j])
    BY <1>1 DEF Sorted
  <2>2. at(i) < at(j)
    BY <1>1, <2>1
  <2> HIDE DEF at
  <2>3. TimeAt(c, q[at(i)]) < TimeAt(c, q[at(j)])
    BY <1>2, <2>2 DEF Sorted
  <2>4. QED
    BY <1>2, <2>3
<1>5. \A i, j \in 1 .. n : i # j => q[i] # q[j]
  <2>1. SUFFICES ASSUME NEW i \in 1 .. n, NEW j \in 1 .. n, i < j
                 PROVE  q[i] # q[j]
    BY <1>1
  <2>2. TimeAt(c, q[i]) < TimeAt(c, q[j])
    BY <2>1 DEF Sorted
  <2>3. TimeAt(c, q[i]) \in Int
    BY IsPhaseTime DEF AllPhases
  <2>4. QED
    BY <2>2, <2>3
<1>6. Entries(r) \subseteq Entries(q) \ {q[k]}
  <2> HIDE DEF at
  <2> QED  BY <1>1, <1>2, <1>5 DEF Entries
<1>7. ASSUME NEW j \in 1 .. n, q[j] # q[k] PROVE q[j] \in Entries(r)
  <2> DEFINE i == IF j < k THEN j ELSE j - 1
  <2>1. i \in 1 .. n - 1 /\ at(i) = j
    BY <1>1, <1>7
  <2> HIDE DEF i, at
  <2>2. r[i] = q[j]
    BY <1>2, <2>1
  <2>3. QED
    BY <1>1, <2>1, <2>2 DEF Entries
<1>8. QED
  BY <1>1, <1>3, <1>4, <1>6, <1>7 DEF Entries

\* An ordered queue with a new phase where phase_lower_bound points to.
LEMMA GrownQueue ==
    ASSUME NEW dp \in Nat, NEW c \in Int, NEW q \in Seq(PhaseSet), AllPhases(dp, c, q),
           Sorted(c, q), NEW x, IsPhase(dp, c, x), NEW k \in 1 .. Len(q) + 1,
           \A j \in 1 .. k - 1 : TimeAt(c, q[j]) < TimeAt(c, x),
           \A j \in k .. Len(q) : TimeAt(c, x) < TimeAt(c, q[j]),
           NEW r, Grown(q, k, x, r)
    PROVE  /\ r \in Seq(PhaseSet) /\ AllPhases(dp, c, r) /\ Sorted(c, r)
           /\ Entries(r) = Entries(q) \cup {x}
<1> DEFINE n == Len(q)
<1>1. n \in Nat /\ r \in Seq(PhaseSet) /\ Len(r) = n + 1
  BY DEF Grown
<1>2. ASSUME NEW i \in 1 .. n + 1
      PROVE  /\ i < k => i \in 1 .. k - 1 /\ i \in 1 .. n /\ r[i] = q[i]
             /\ i = k => r[i] = x
             /\ i > k => i - 1 \in k .. n /\ i - 1 \in 1 .. n /\ r[i] = q[i - 1]
  BY <1>1 DEF Grown
<1>3. AllPhases(dp, c, r)
  <2>1. SUFFICES ASSUME NEW i \in 1 .. n + 1 PROVE IsPhase(dp, c, r[i])
    BY <1>1 DEF AllPhases
  <2>2. i < k \/ i = k \/ i > k
    BY <1>1
  <2>3. QED
    BY <1>2, <2>2 DEF AllPhases
<1>4. Sorted(c, r)
  <2>1. SUFFICES ASSUME NEW i \in 1 .. n + 1, NEW j \in 1 .. n + 1, i < j
                 PROVE  TimeAt(c, r[i]) < TimeAt(c, r[j])
    BY <1>1 DEF Sorted
  <2>2. CASE j < k
    <3>1. i < k
      BY <1>1, <2>1, <2>2
    <3>2. QED
      BY <1>2, <2>1, <2>2, <3>1 DEF Sorted
  <2>3. CASE j = k
    <3>1. i < k
      BY <2>1, <2>3
    <3>2. QED
      BY <1>2, <2>3, <3>1
  <2>4. CASE j > k /\ i < k
    <3>1. i < j - 1
      BY <1>1, <2>4
    <3>2. QED
      BY <1>2, <2>4, <3>1 DEF Sorted
  <2>5. CASE j > k /\ i = k
    BY <1>2, <2>5
  <2>6. CASE j > k /\ i > k
    <3>1. i - 1 < j - 1
      BY <1>1, <2>1
    <3>2. QED
      BY <1>2, <2>6, <3>1 DEF Sorted
  <2>7. QED
    BY <1>1, <2>2, <2>3, <2>4, <2>5, <2>6
<1>5. ASSUME NEW i \in 1 .. n + 1 PROVE r[i] \in Entries(q) \cup {x}
  <2>1. i < k \/ i = k \/ i > k
    BY <1>1
  <2>2. QED
    BY <1>2, <2>1 DEF Entries
<1>6. ASSUME NEW j \in 1 .. n PROVE q[j] \in Entries(r)
  <2>1. CASE j < k
    <3>1. j \in 1 .. n + 1
      BY <1>1
    <3>2. QED
      BY <1>1, <1>2, <2>1, <3>1 DEF Entries
  <2>2. CASE ~(j < k)
    <3>1. j + 1 \in 1 .. n + 1 /\ j + 1 > k /\ (j + 1) - 1 = j
      BY <1>1, <2>2
    <3>2. r[j + 1] = q[j]
      BY <1>2, <3>1
    <3>3. QED
      BY <1>1, <3>1, <3>2 DEF Entries
  <2>3. QED
    BY <2>1, <2>2
<1>7. x \in Entries(r)
  <2>1. k \in 1 .. n + 1
    OBVIOUS
  <2>2. QED
    BY <1>1, <1>2, <2>1 DEF Entries
<1>8. QED
  BY <1>1, <1>3, <1>4, <1>5, <1>6, <1>7 DEF Entries

-----------------------------------------------------------------------------
(* The inductive invariant                                                 *)

PhasesOf(accounts) == {accounts[id].phase : id \in DOMAIN accounts}
IdsAt(accounts, pdt) == {id \in DOMAIN accounts : accounts[id].phase = pdt}

\* Time zero can be told from the current time at the precision kept for it.
ClockHeld(dp, c) == c \in Int /\ dp \in Nat /\ -Tick(dp) <= c

\* The account of an event keeps the phase of its time, and a precision at
\* which the duration until it can be told.
AccountHeld(dp, c, account) ==
    /\ account \in [phase : PhaseSet, precision : Nat]
    /\ IsPhase(dp, c, account.phase)
    /\ Exact(c, account.precision, TimeAt(c, account.phase))

AccountsHeld(dp, c, accounts) ==
    /\ accounts = [id \in DOMAIN accounts |-> accounts[id]]
    /\ DOMAIN accounts \subseteq Ids /\ IsFiniteSet(DOMAIN accounts)
    /\ \A id \in DOMAIN accounts : AccountHeld(dp, c, accounts[id])

\* The other two containers are functions of the accounts.
SetsHeld(sets, accounts) == sets = [pdt \in PhasesOf(accounts) |-> IdsAt(accounts, pdt)]

QueueHeld(c, q, accounts) ==
    q \in Seq(PhaseSet) /\ Entries(q) = PhasesOf(accounts) /\ Sorted(c, q)

Held(dp, c, q, sets, accounts) ==
    /\ ClockHeld(dp, c)
    /\ AccountsHeld(dp, c, accounts)
    /\ SetsHeld(sets, accounts)
    /\ QueueHeld(c, q, accounts)

IInv == Held(default_precision_, ct_, queue_, event_id_sets_, event_accounts_)

LEMMA HeldPhases ==
    ASSUME NEW dp, NEW c, NEW q, NEW sets, NEW accounts, Held(dp, c, q, sets, accounts)
    PROVE  /\ dp \in Nat /\ c \in Int /\ q \in Seq(PhaseSet)
           /\ AllPhases(dp, c, q) /\ Sorted(c, q) /\ Entries(q) = PhasesOf(accounts)
           /\ \A pdt \in PhasesOf(accounts) : IsPhase(dp, c, pdt)
<1>1. \A pdt \in PhasesOf(accounts) : IsPhase(dp, c, pdt)
  BY DEF Held, AccountsHeld, AccountHeld, PhasesOf
<1>2. dp \in Nat /\ c \in Int /\ q \in Seq(PhaseSet) /\ Sorted(c, q) /\ Entries(q) = PhasesOf(accounts)
  BY DEF Held, ClockHeld, QueueHeld
<1>3. \A k \in 1 .. Len(q) : q[k] \in PhasesOf(accounts)
  BY <1>2 DEF Entries
<1>4. QED
  BY <1>1, <1>2, <1>3 DEF AllPhases

\* The first phase of the queue is that of the earliest events.
LEMMA FrontFirst ==
    ASSUME NEW dp, NEW c, NEW q, NEW sets, NEW accounts, Held(dp, c, q, sets, accounts),
           accounts # NoEntries
    PROVE  /\ q # <<>> /\ 1 \in 1 .. Len(q) /\ q[1] \in PhasesOf(accounts)
           /\ IsPhase(dp, c, q[1])
           /\ \A id \in DOMAIN accounts :
                 /\ TimeAt(c, accounts[id].phase) \in Int
                 /\ TimeAt(c, q[1]) <= TimeAt(c, accounts[id].phase)
                 /\ TimeAt(c, q[1]) = TimeAt(c, accounts[id].phase) => accounts[id].phase = q[1]
<1>1. /\ dp \in Nat /\ c \in Int /\ q \in Seq(PhaseSet)
      /\ AllPhases(dp, c, q) /\ Sorted(c, q) /\ Entries(q) = PhasesOf(accounts)
      /\ \A pdt \in PhasesOf(accounts) : IsPhase(dp, c, pdt)
  BY HeldPhases
<1>2. PICK i \in DOMAIN accounts : TRUE
  <2>1. accounts = [id \in DOMAIN accounts |-> accounts[id]]
    BY DEF Held, AccountsHeld
  <2>2. DOMAIN accounts # {}
    BY <2>1 DEF NoEntries
  <2>3. QED
    BY <2>2
<1>3. PICK j \in 1 .. Len(q) : q[j] = accounts[i].phase
  BY <1>1 DEF Entries, PhasesOf
<1>4. q # <<>> /\ 1 \in 1 .. Len(q)
  BY <1>1, <1>3
<1>5. q[1] \in PhasesOf(accounts) /\ IsPhase(dp, c, q[1])
  BY <1>1, <1>4 DEF Entries, AllPhases
<1>6. ASSUME NEW id \in DOMAIN accounts
      PROVE  /\ TimeAt(c, accounts[id].phase) \in Int
             /\ TimeAt(c, q[1]) <= TimeAt(c, accounts[id].phase)
             /\ TimeAt(c, q[1]) = TimeAt(c, accounts[id].phase) => accounts[id].phase = q[1]
  <2>1. PICK k \in 1 .. Len(q) : q[k] = accounts[id].phase
    BY <1>1 DEF Entries, PhasesOf
  <2>2. TimeAt(c, q[1]) \in Int /\ TimeAt(c, q[k]) \in Int
    BY <1>1, <1>4, IsPhaseTime DEF AllPhases
  <2>3. k = 1 \/ TimeAt(c, q[1]) < TimeAt(c, q[k])
    BY <1>1, <1>4 DEF Sorted
  <2>4. QED
    BY <2>1, <2>2, <2>3
<1>7. QED
  BY <1>4, <1>5, <1>6

\* The accounts without some of the ids.
Dropped(accounts, ids) == [id \in DOMAIN accounts \ ids |-> accounts[id]]

RestHeld(dp, c, accounts, ids, rest) ==
    /\ AccountsHeld(dp, c, rest)
    /\ DOMAIN rest = DOMAIN accounts \ ids
    /\ \A id \in DOMAIN accounts \ ids : rest[id] = accounts[id]
    /\ \A pdt : IdsAt(rest, pdt) = IdsAt(accounts, pdt) \ ids

LEMMA DroppedHeld ==
    ASSUME NEW dp, NEW c, NEW accounts, AccountsHeld(dp, c, accounts), NEW ids
    PROVE  RestHeld(dp, c, accounts, ids, Dropped(accounts, ids))
<1> DEFINE rest == Dropped(accounts, ids)
<1>1. DOMAIN rest = DOMAIN accounts \ ids
  BY DEF Dropped
<1>2. \A id \in DOMAIN accounts \ ids : rest[id] = accounts[id]
  BY DEF Dropped
<1>3. rest = [id \in DOMAIN rest |-> rest[id]]
  BY DEF Dropped
<1> HIDE DEF rest
<1>4. IsFiniteSet(DOMAIN rest)
  <2>1. IsFiniteSet(DOMAIN accounts)
    BY DEF AccountsHeld
  <2>2. QED
    BY <1>1, <2>1, FS_Subset
<1>5. \A id \in DOMAIN rest : AccountHeld(dp, c, rest[id])
  BY <1>1, <1>2 DEF AccountsHeld
<1>6. AccountsHeld(dp, c, rest)
  BY <1>1, <1>3, <1>4, <1>5 DEF AccountsHeld
<1>7. \A pdt : IdsAt(rest, pdt) = IdsAt(accounts, pdt) \ ids
  BY <1>1, <1>2 DEF IdsAt
<1>8. QED
  BY <1>1, <1>2, <1>6, <1>7 DEF RestHeld, rest

\* Taking all events of a phase away.
LEMMA DropPhase ==
    ASSUME NEW dp, NEW c, NEW q, NEW sets, NEW accounts, Held(dp, c, q, sets, accounts),
           NEW k \in 1 .. Len(q), NEW r, Thinned(q, k, r)
    PROVE  Held(dp, c, r, Without(sets, q[k]), Dropped(accounts, IdsAt(accounts, q[k])))
<1> DEFINE pdt == q[k]
           gone == IdsAt(accounts, pdt)
           rest == Dropped(accounts, gone)
<1>1. /\ dp \in Nat /\ c \in Int /\ q \in Seq(PhaseSet)
      /\ AllPhases(dp, c, q) /\ Sorted(c, q) /\ Entries(q) = PhasesOf(accounts)
  BY HeldPhases
<1>2. /\ r \in Seq(PhaseSet) /\ Sorted(c, r) /\ Entries(r) = Entries(q) \ {pdt}
  BY <1>1, ThinnedQueue
<1>3. /\ AccountsHeld(dp, c, rest) /\ DOMAIN rest = DOMAIN accounts \ gone
      /\ \A id \in DOMAIN accounts \ gone : rest[id] = accounts[id]
      /\ \A x : IdsAt(rest, x) = IdsAt(accounts, x) \ gone
  <2> HIDE DEF gone
  <2>1. AccountsHeld(dp, c, accounts)
    BY DEF Held
  <2>2. RestHeld(dp, c, accounts, gone, rest)
    BY <2>1, DroppedHeld
  <2> HIDE DEF rest
  <2>3. QED
    BY <2>2 DEF RestHeld
<1> HIDE DEF rest
<1>4. PhasesOf(rest) = PhasesOf(accounts) \ {pdt}
  BY <1>3 DEF PhasesOf, IdsAt
<1>5. \A x : x # pdt => IdsAt(rest, x) = IdsAt(accounts, x)
  <2>1. \A x : x # pdt => IdsAt(accounts, x) \ gone = IdsAt(accounts, x)
    BY DEF IdsAt
  <2>2. QED
    BY <1>3, <2>1
<1> HIDE DEF pdt
<1>6. SetsHeld(Without(sets, pdt), rest)
  <2>1. sets = [x \in PhasesOf(accounts) |-> IdsAt(accounts, x)]
    BY DEF Held, SetsHeld
  <2>2. Without(sets, pdt) = [x \in PhasesOf(accounts) \ {pdt} |-> IdsAt(accounts, x)]
    BY <2>1 DEF Without
  <2>3. [x \in PhasesOf(accounts) \ {pdt} |-> IdsAt(accounts, x)]
            = [x \in PhasesOf(rest) |-> IdsAt(rest, x)]
    BY <1>4, <1>5
  <2>4. QED
    BY <2>2, <2>3 DEF SetsHeld
<1>7. QueueHeld(c, r, rest)
  BY <1>1, <1>2, <1>4 DEF QueueHeld
<1>8. QED
  BY <1>3, <1>6, <1>7 DEF Held, rest, pdt

\* Taking all events of the first n phases away.
FrontIds(q, sets, n) == UNION {sets[pdt] : pdt \in {q[k] : k \in 1 .. n}}
RestSets(q, sets, n) == [pdt \in {q[k] : k \in n + 1 .. Len(q)} |-> sets[pdt]]

LEMMA DropPhases ==
    ASSUME NEW dp, NEW c, NEW q, NEW sets, NEW accounts, Held(dp, c, q, sets, accounts),
           NEW n \in 0 .. Len(q)
    PROVE  LET ids == FrontIds(q, sets, n)
           IN  /\ Held(dp, c, SubSeq(q, n + 1, Len(q)), RestSets(q, sets, n),
                       Dropped(accounts, ids))
               /\ \A id : id \in ids <=> /\ id \in DOMAIN accounts
                                         /\ \E k \in 1 .. n : accounts[id].phase = q[k]
<1> DEFINE ids == FrontIds(q, sets, n)
           kept == {q[k] : k \in n + 1 .. Len(q)}
           r == SubSeq(q, n + 1, Len(q))
           rest == Dropped(accounts, ids)
<1>1. /\ q \in Seq(PhaseSet) /\ AllPhases(dp, c, q) /\ Sorted(c, q)
      /\ Entries(q) = PhasesOf(accounts) /\ dp \in Nat /\ c \in Int
  BY HeldPhases
<1>2. sets = [pdt \in PhasesOf(accounts) |-> IdsAt(accounts, pdt)]
  BY DEF Held, SetsHeld
<1>3. Len(q) \in Nat /\ n \in Nat /\ n <= Len(q)
  BY <1>1
<1>4. \A j, k \in 1 .. Len(q) : q[j] = q[k] => j = k
  <2>1. \A k \in 1 .. Len(q) : TimeAt(c, q[k]) \in Int
    BY <1>1, IsPhaseTime DEF AllPhases
  <2>2. \A j, k \in 1 .. Len(q) : j < k => q[j] # q[k]
    BY <1>1, <2>1 DEF Sorted
  <2>3. QED
    BY <1>3, <2>2
<1>5. \A k \in 1 .. Len(q) : q[k] \in PhasesOf(accounts) /\ sets[q[k]] = IdsAt(accounts, q[k])
  BY <1>1, <1>2 DEF Entries
<1>6. ASSUME NEW id
      PROVE  id \in ids <=> id \in DOMAIN accounts /\ \E k \in 1 .. n : accounts[id].phase = q[k]
  <2>1. id \in ids <=> \E k \in 1 .. n : id \in sets[q[k]]
    BY Zenon DEF FrontIds
  <2>2. \A k \in 1 .. n : sets[q[k]] = IdsAt(accounts, q[k])
    BY <1>3, <1>5
  <2> HIDE DEF ids
  <2>3. QED
    BY <2>1, <2>2 DEF IdsAt
<1>7. RestHeld(dp, c, accounts, ids, rest)
  <2>1. AccountsHeld(dp, c, accounts)
    BY DEF Held
  <2> HIDE DEF ids
  <2>2. QED
    BY <2>1, DroppedHeld
<1>8. /\ AccountsHeld(dp, c, rest) /\ DOMAIN rest = DOMAIN accounts \ ids
      /\ \A id \in DOMAIN rest : rest[id] = accounts[id]
      /\ \A pdt : IdsAt(rest, pdt) = IdsAt(accounts, pdt) \ ids
  BY <1>7 DEF RestHeld
<1> HIDE DEF ids, rest
<1>9. ASSUME NEW id \in DOMAIN accounts
      PROVE  id \in DOMAIN rest <=> \E k \in n + 1 .. Len(q) : accounts[id].phase = q[k]
  <2>1. PICK k \in 1 .. Len(q) : accounts[id].phase = q[k]
    BY <1>1 DEF Entries, PhasesOf
  <2>2. id \in DOMAIN rest <=> ~(k \in 1 .. n)
    BY <1>3, <1>4, <1>6, <1>8, <2>1
  <2>3. (\E j \in n + 1 .. Len(q) : accounts[id].phase = q[j]) <=> k \in n + 1 .. Len(q)
    BY <1>3, <1>4, <2>1
  <2>4. QED
    BY <1>3, <2>2, <2>3
<1>10. PhasesOf(rest) = kept
  <2>1. ASSUME NEW k \in n + 1 .. Len(q)
        PROVE  \E id \in DOMAIN rest : rest[id].phase = q[k]
    <3>1. k \in 1 .. Len(q)
      BY <1>3
    <3>2. PICK id \in DOMAIN accounts : accounts[id].phase = q[k]
      BY <1>5, <3>1 DEF PhasesOf
    <3>3. id \in DOMAIN rest
      BY <1>9, <3>2
    <3>4. QED
      BY <1>8, <3>2, <3>3
  <2>2. ASSUME NEW id \in DOMAIN rest PROVE rest[id].phase \in kept
    BY <1>8, <1>9
  <2>3. QED
    BY <2>1, <2>2 DEF PhasesOf
<1>11. \A pdt \in kept : IdsAt(rest, pdt) = sets[pdt]
  <2>1. ASSUME NEW k \in n + 1 .. Len(q) PROVE IdsAt(rest, q[k]) = sets[q[k]]
    <3>1. k \in 1 .. Len(q) /\ ~(k \in 1 .. n)
      BY <1>3
    <3>2. \A id \in ids : ~(id \in IdsAt(accounts, q[k]))
      BY <1>3, <1>4, <1>6, <3>1 DEF IdsAt
    <3>3. IdsAt(rest, q[k]) = IdsAt(accounts, q[k])
      BY <1>8, <3>2
    <3>4. QED
      BY <1>5, <3>1, <3>3
  <2>2. QED
    BY <2>1
<1>12. SetsHeld([pdt \in kept |-> sets[pdt]], rest)
  <2> HIDE DEF kept
  <2> QED  BY <1>10, <1>11, Zenon DEF SetsHeld
<1>13. /\ r \in Seq(PhaseSet) /\ Len(r) = Len(q) - n
       /\ \A i \in 1 .. Len(r) : r[i] = q[i + n]
  BY <1>1, <1>3
<1> HIDE DEF r
<1>14. Entries(r) = kept
  <2>1. ASSUME NEW i \in 1 .. Len(r) PROVE r[i] \in kept
    <3>1. i + n \in n + 1 .. Len(q)
      BY <1>3, <1>13
    <3>2. QED
      BY <1>13, <3>1
  <2>2. ASSUME NEW k \in n + 1 .. Len(q) PROVE q[k] \in Entries(r)
    <3>1. k - n \in 1 .. Len(r) /\ (k - n) + n = k
      BY <1>3, <1>13
    <3>2. r[k - n] = q[k]
      BY <1>13, <3>1
    <3>3. QED
      BY <3>1, <3>2 DEF Entries
  <2>3. QED
    BY <2>1, <2>2 DEF Entries
<1>15. Sorted(c, r)
  <2>1. ASSUME NEW i \in 1 .. Len(r), NEW j \in 1 .. Len(r), i < j
        PROVE  TimeAt(c, r[i]) < TimeAt(c, r[j])
    <3>1. i + n \in 1 .. Len(q) /\ j + n \in 1 .. Len(q) /\ i + n < j + n
      BY <1>3, <1>13, <2>1
    <3>2. TimeAt(c, q[i + n]) < TimeAt(c, q[j + n])
      BY <1>1, <3>1 DEF Sorted
    <3>3. QED
      BY <1>13, <3>2
  <2>2. QED
    BY <2>1 DEF Sorted
<1>16. Held(dp, c, r, [pdt \in kept |-> sets[pdt]], rest)
  <2>1. ClockHeld(dp, c)
    BY DEF Held
  <2>2. QueueHeld(c, r, rest)
    BY <1>10, <1>13, <1>14, <1>15 DEF QueueHeld
  <2> HIDE DEF kept
  <2>3. QED
    BY <1>8, <1>12, <2>1, <2>2 DEF Held
<1>17. RestSets(q, sets, n) = [pdt \in kept |-> sets[pdt]]
  BY DEF RestSets
<1>18. QED
  <2> HIDE DEF kept
  <2> QED  BY <1>6, <1>16, <1>17 DEF ids, r, rest

\* Taking one event away: with the last event of a phase goes the phase.
LeftHeld(dp, c, q, sets, accounts, id) ==
    LET pdt == accounts[id].phase
    IN  /\ pdt \in DOMAIN sets /\ sets[pdt] = IdsAt(accounts, pdt)
        /\ IsFiniteSet(sets[pdt]) /\ id \in sets[pdt]
        /\ Cardinality(sets[pdt]) \in Nat \ {0}
        /\ Cardinality(sets[pdt]) = 1 => sets[pdt] = {id}
        /\ Cardinality(sets[pdt]) # 1 =>
              Held(dp, c, q, [sets EXCEPT ![pdt] = @ \ {id}], Without(accounts, id))

LEMMA DropEvent ==
    ASSUME NEW dp, NEW c, NEW q, NEW sets, NEW accounts, Held(dp, c, q, sets, accounts),
           NEW id \in DOMAIN accounts
    PROVE  LeftHeld(dp, c, q, sets, accounts, id)
<1> DEFINE pdt == accounts[id].phase
           ids == IdsAt(accounts, pdt)
           rest == Without(accounts, id)
<1>1. sets = [x \in PhasesOf(accounts) |-> IdsAt(accounts, x)]
  BY DEF Held, SetsHeld
<1>2. pdt \in PhasesOf(accounts)
  BY DEF PhasesOf
<1>3. pdt \in DOMAIN sets /\ sets[pdt] = ids
  <2> HIDE DEF pdt
  <2> QED  BY <1>1, <1>2
<1>4. id \in ids /\ ids \subseteq DOMAIN accounts
  BY DEF IdsAt
<1>5. IsFiniteSet(ids)
  <2>1. IsFiniteSet(DOMAIN accounts)
    BY DEF Held, AccountsHeld
  <2> HIDE DEF ids
  <2>2. QED
    BY <1>4, <2>1, FS_Subset
<1>6. Cardinality(ids) \in Nat \ {0} /\ (Cardinality(ids) = 1 => ids = {id})
  <2> HIDE DEF ids
  <2>1. Cardinality(ids) \in Nat
    BY <1>5, FS_CardinalityType
  <2>2. Cardinality(ids) # 0
    BY <1>4, <1>5, FS_EmptySet
  <2>3. Cardinality(ids) = 1 => ids = {id}
    <3>1. ASSUME Cardinality(ids) = 1 PROVE ids = {id}
      <4>1. PICK x : ids = {x}
        BY <1>5, <3>1, FS_Singleton
      <4>2. QED
        BY <1>4, <4>1
    <3>2. QED
      BY <3>1
  <2>4. QED
    BY <2>1, <2>2, <2>3
<1>7. ASSUME Cardinality(ids) # 1
      PROVE  Held(dp, c, q, [sets EXCEPT ![pdt] = @ \ {id}], rest)
  <2>1. PICK other \in ids : other # id
    <3>1. Cardinality({id}) = 1
      BY FS_Singleton
    <3> HIDE DEF ids
    <3>2. ids # {id}
      BY <1>7, <3>1
    <3>3. QED
      BY <1>4, <3>2
  <2>2. rest = Dropped(accounts, {id})
    BY DEF Without, Dropped
  <2>3. /\ AccountsHeld(dp, c, rest) /\ DOMAIN rest = DOMAIN accounts \ {id}
        /\ \A x \in DOMAIN accounts \ {id} : rest[x] = accounts[x]
        /\ \A x : IdsAt(rest, x) = IdsAt(accounts, x) \ {id}
    <3>1. AccountsHeld(dp, c, accounts)
      BY DEF Held
    <3>2. RestHeld(dp, c, accounts, {id}, rest)
      BY <2>2, <3>1, DroppedHeld
    <3> HIDE DEF rest
    <3>3. QED
      BY <3>2 DEF RestHeld
  <2>4. other \in DOMAIN accounts \ {id} /\ accounts[other].phase = pdt
    BY <2>1 DEF IdsAt
  <2> HIDE DEF rest
  <2>5. PhasesOf(rest) = PhasesOf(accounts)
    <3>1. PhasesOf(rest) \subseteq PhasesOf(accounts)
      BY <2>3 DEF PhasesOf
    <3>2. ASSUME NEW x \in DOMAIN accounts PROVE accounts[x].phase \in PhasesOf(rest)
      <4>1. CASE x = id
        BY <2>3, <2>4, <4>1 DEF PhasesOf
      <4>2. CASE x # id
        BY <2>3, <4>2 DEF PhasesOf
      <4>3. QED
        BY <4>1, <4>2
    <3>3. QED
      BY <3>1, <3>2 DEF PhasesOf
  <2>6. SetsHeld([sets EXCEPT ![pdt] = @ \ {id}], rest)
    <3>1. \A x : x # pdt => id \notin IdsAt(accounts, x)
      BY DEF IdsAt
    <3>2. \A x : IdsAt(rest, x) = IF x = pdt THEN IdsAt(accounts, x) \ {id} ELSE IdsAt(accounts, x)
      BY <2>3, <3>1
    <3> HIDE DEF pdt, ids
    <3>3. [sets EXCEPT ![pdt] = @ \ {id}]
              = [x \in PhasesOf(accounts) |->
                    IF x = pdt THEN IdsAt(accounts, x) \ {id} ELSE IdsAt(accounts, x)]
      BY <1>1, <1>2
    <3>4. QED
      BY <2>5, <3>2, <3>3 DEF SetsHeld
  <2>7. QueueHeld(c, q, rest)
    BY <2>5 DEF Held, QueueHeld
  <2>8. QED
    BY <2>3, <2>6, <2>7 DEF Held
<1>8. QED
  <2> HIDE DEF ids, rest, pdt
  <2>1. pdt \in DOMAIN sets /\ sets[pdt] = ids /\ IsFiniteSet(ids) /\ id \in ids
    BY <1>3, <1>4, <1>5
  <2>2. QED
    BY <1>6, <1>7, <2>1 DEF LeftHeld, ids, rest, pdt

-----------------------------------------------------------------------------
(* Operations on the schedule                                              *)

\* cancel_event: the event is gone, with its phase if it was the last one.
LEMMA CancelledHeld ==
    ASSUME IInv, NEW id \in Ids
    PROVE  LET s == Cancelled(id)
           IN  /\ Held(default_precision_, ct_, s.queue, s.sets, s.accounts)
               /\ id \notin DOMAIN event_accounts_ =>
                     s.queue = queue_ /\ s.sets = event_id_sets_ /\ s.accounts = event_accounts_
               /\ id \in DOMAIN event_accounts_ => s.accounts = Without(event_accounts_, id)
               /\ id \notin DOMAIN s.accounts
<1> DEFINE s == Cancelled(id)
           dp == default_precision_
           accounts == event_accounts_
           sets == event_id_sets_
           pdt == accounts[id].phase
           k == phase_lower_bound(queue_, pdt)
           last == Cardinality(sets[pdt]) = 1
           r == SubSeq(queue_, 1, k - 1) \o SubSeq(queue_, k + 1, Len(queue_))
<1>1. Held(dp, ct_, queue_, sets, accounts)
  BY DEF IInv
<1>2. CASE id \notin DOMAIN accounts
  <2>1. s = [queue |-> queue_, sets |-> event_id_sets_, accounts |-> event_accounts_]
    BY <1>2 DEF Cancelled
  <2> HIDE DEF s
  <2>2. QED
    BY <1>1, <1>2, <2>1 DEF s
<1>3. CASE id \in DOMAIN accounts
  <2>1. s = [queue |-> IF last THEN r ELSE queue_,
             sets |-> IF last THEN Without(sets, pdt) ELSE [sets EXCEPT ![pdt] = @ \ {id}],
             accounts |-> Without(accounts, id)]
    BY <1>3 DEF Cancelled
  <2>2. /\ s.queue = IF last THEN r ELSE queue_
        /\ s.sets = IF last THEN Without(sets, pdt) ELSE [sets EXCEPT ![pdt] = @ \ {id}]
        /\ s.accounts = Without(accounts, id)
    <3> HIDE DEF s, last, r, pdt, sets, accounts
    <3> QED  BY <2>1
  <2>3. id \notin DOMAIN Without(accounts, id)
    BY DEF Without
  <2>4. LeftHeld(dp, ct_, queue_, sets, accounts, id)
    <3> HIDE DEF dp, sets, accounts
    <3> QED  BY <1>1, <1>3, DropEvent
  <2>5. Held(dp, ct_, s.queue, s.sets, s.accounts)
    <3>1. CASE ~last
      <4>1. Held(dp, ct_, queue_, [sets EXCEPT ![pdt] = @ \ {id}], Without(accounts, id))
        BY <2>4, <3>1 DEF LeftHeld
      <4>2. QED
        BY <2>2, <3>1, <4>1
    <3>2. CASE last
      <4>1. sets[pdt] = {id} /\ sets[pdt] = IdsAt(accounts, pdt)
        BY <3>2, <2>4 DEF LeftHeld
      <4>2. /\ dp \in Nat /\ ct_ \in Int /\ queue_ \in Seq(PhaseSet)
            /\ AllPhases(dp, ct_, queue_) /\ Sorted(ct_, queue_)
            /\ Entries(queue_) = PhasesOf(accounts)
        <5> HIDE DEF dp, sets, accounts
        <5> QED  BY <1>1, HeldPhases
      <4>3. pdt \in Entries(queue_)
        BY <1>3, <4>2 DEF PhasesOf
      <4>4. k \in 1 .. Len(queue_) /\ queue_[k] = pdt
        <5> HIDE DEF dp, pdt
        <5> QED  BY <4>2, <4>3, LowerBoundFinds
      <4>5. Thinned(queue_, k, r)
        <5> HIDE DEF k
        <5> QED  BY <4>2, <4>4, Thinning
      <4>6. Held(dp, ct_, r, Without(sets, queue_[k]), Dropped(accounts, IdsAt(accounts, queue_[k])))
        <5> HIDE DEF dp, sets, accounts, r, k
        <5> QED  BY <1>1, <4>4, <4>5, DropPhase
      <4>7. Dropped(accounts, IdsAt(accounts, queue_[k])) = Without(accounts, id)
        <5>1. IdsAt(accounts, queue_[k]) = {id}
          <6> HIDE DEF k, pdt
          <6> QED  BY <4>1, <4>4
        <5> HIDE DEF k, accounts
        <5>2. QED
          BY <5>1 DEF Dropped, Without
      <4>8. Held(dp, ct_, r, Without(sets, pdt), Without(accounts, id))
        <5> HIDE DEF dp, sets, accounts, r, k, pdt
        <5> QED  BY <4>4, <4>6, <4>7
      <4>9. QED
        <5> HIDE DEF s, last, r, pdt, sets, accounts, dp
        <5> QED  BY <2>2, <3>2, <4>8
    <3>3. QED
      BY <3>1, <3>2
  <2>6. QED
    <3> HIDE DEF s
    <3> QED  BY <1>3, <2>2, <2>3, <2>5 DEF s
<1>4. QED
  BY <1>2, <1>3

\* plan_event, once the event is cancelled: it joins the events of its phase,
\* or the phase is put in where phase_lower_bound found its place.
LEMMA AddEvent ==
    ASSUME NEW dp, NEW c, NEW q, NEW sets, NEW accounts, Held(dp, c, q, sets, accounts),
           NEW id \in Ids, id \notin DOMAIN accounts, NEW pdt, IsPhase(dp, c, pdt),
           NEW p \in Nat, Exact(c, p, TimeAt(c, pdt)), NEW k \in 1 .. Len(q) + 1,
           \A j \in 1 .. k - 1 : TimeAt(c, q[j]) < TimeAt(c, pdt),
           \A j \in k .. Len(q) : TimeAt(c, pdt) <= TimeAt(c, q[j])
    PROVE  LET known == k <= Len(q) /\ q[k] = pdt
           IN  Held(dp, c,
                    IF known THEN q
                    ELSE SubSeq(q, 1, k - 1) \o <<pdt>> \o SubSeq(q, k, Len(q)),
                    With(sets, pdt, IF known THEN sets[pdt] \cup {id} ELSE {id}),
                    With(accounts, id, [phase |-> pdt, precision |-> p]))
<1> DEFINE known == k <= Len(q) /\ q[k] = pdt
           r == SubSeq(q, 1, k - 1) \o <<pdt>> \o SubSeq(q, k, Len(q))
           new == With(accounts, id, [phase |-> pdt, precision |-> p])
           q1 == IF known THEN q ELSE r
           sets1 == With(sets, pdt, IF known THEN sets[pdt] \cup {id} ELSE {id})
<1>1. /\ dp \in Nat /\ c \in Int /\ q \in Seq(PhaseSet)
      /\ AllPhases(dp, c, q) /\ Sorted(c, q) /\ Entries(q) = PhasesOf(accounts)
  BY HeldPhases
<1>2. pdt \in PhaseSet /\ TimeAt(c, pdt) \in Int /\ pdt = PhaseOf(dp, TimeAt(c, pdt))
  BY <1>1, IsPhaseTime
<1>3. DOMAIN new = DOMAIN accounts \cup {id}
  BY DEF With
<1>4. /\ new[id] = [phase |-> pdt, precision |-> p]
      /\ \A x \in DOMAIN accounts : new[x] = accounts[x]
  BY DEF With
<1>5. new = [x \in DOMAIN new |-> new[x]]
  BY DEF With
<1> HIDE DEF new
<1>6. AccountsHeld(dp, c, new)
  <2>1. IsFiniteSet(DOMAIN new)
    <3>1. IsFiniteSet(DOMAIN accounts)
      BY DEF Held, AccountsHeld
    <3>2. QED
      BY <1>3, <3>1, FS_AddElement
  <2>2. AccountHeld(dp, c, new[id])
    <3>1. new[id] \in [phase : PhaseSet, precision : Nat] /\ new[id].phase = pdt /\ new[id].precision = p
      BY <1>2, <1>4
    <3>2. QED
      BY <3>1 DEF AccountHeld
  <2>3. \A x \in DOMAIN accounts : AccountHeld(dp, c, new[x])
    BY <1>4 DEF Held, AccountsHeld
  <2>4. DOMAIN new \subseteq Ids
    BY <1>3 DEF Held, AccountsHeld
  <2>5. \A x \in DOMAIN new : AccountHeld(dp, c, new[x])
    BY <1>3, <2>2, <2>3
  <2>6. QED
    BY <1>5, <2>1, <2>4, <2>5 DEF AccountsHeld
<1>7. PhasesOf(new) = PhasesOf(accounts) \cup {pdt}
  <2>1. new[id].phase = pdt
    BY <1>4
  <2>2. QED
    BY <1>3, <1>4, <2>1 DEF PhasesOf
<1>8. \A x : IdsAt(new, x) = IF x = pdt THEN IdsAt(accounts, x) \cup {id} ELSE IdsAt(accounts, x)
  <2>1. new[id].phase = pdt
    BY <1>4
  <2>2. QED
    BY <1>3, <1>4, <2>1 DEF IdsAt
<1>9. known <=> pdt \in PhasesOf(accounts)
  <2>1. known => pdt \in Entries(q)
    BY DEF Entries
  <2>2. ASSUME pdt \in Entries(q) PROVE known
    <3>1. PICK j \in 1 .. Len(q) : q[j] = pdt
      BY <2>2 DEF Entries
    <3>2. ~(j < k)
      <4>1. j < k => j \in 1 .. k - 1
        BY <1>1
      <4>2. QED
        BY <1>2, <3>1, <4>1
    <3>3. ~(k < j)
      <4>1. ASSUME k < j PROVE FALSE
        <5>1. k \in 1 .. Len(q) /\ k \in k .. Len(q)
          BY <1>1, <4>1
        <5>2. TimeAt(c, q[k]) < TimeAt(c, pdt) /\ TimeAt(c, pdt) <= TimeAt(c, q[k])
          BY <3>1, <4>1, <5>1, <1>1 DEF Sorted
        <5>3. TimeAt(c, q[k]) \in Int
          BY <1>1, <5>1, IsPhaseTime DEF AllPhases
        <5>4. QED
          BY <1>2, <5>2, <5>3
      <4>2. QED
        BY <4>1
    <3>4. j = k
      BY <1>1, <3>2, <3>3
    <3>5. QED
      BY <3>1, <3>4
  <2>3. QED
    BY <1>1, <2>1, <2>2
<1>10. SetsHeld(sets1, new)
  <2>1. sets = [x \in PhasesOf(accounts) |-> IdsAt(accounts, x)]
    BY DEF Held, SetsHeld
  <2>2. (IF known THEN sets[pdt] \cup {id} ELSE {id}) = IdsAt(accounts, pdt) \cup {id}
    <3>1. CASE known
      BY <1>9, <2>1, <3>1
    <3>2. CASE ~known
      <4>1. IdsAt(accounts, pdt) = {}
        BY <1>9, <3>2 DEF PhasesOf, IdsAt
      <4>2. QED
        BY <3>2, <4>1
    <3>3. QED
      BY <3>1, <3>2
  <2>3. sets1 = With(sets, pdt, IdsAt(accounts, pdt) \cup {id})
    BY <2>2
  <2>4. sets1 = [x \in PhasesOf(accounts) \cup {pdt} |->
                    IF x = pdt THEN IdsAt(accounts, pdt) \cup {id} ELSE IdsAt(accounts, x)]
    <3> HIDE DEF sets1
    <3> QED  BY <2>1, <2>3 DEF With
  <2> HIDE DEF sets1
  <2>5. QED
    BY <1>7, <1>8, <2>4 DEF SetsHeld
<1>11. QueueHeld(c, q1, new)
  <2>1. CASE known
    BY <1>1, <1>7, <1>9, <2>1 DEF QueueHeld
  <2>2. CASE ~known
    <3>1. Grown(q, k, pdt, r)
      <4> HIDE DEF r
      <4> QED  BY <1>1, <1>2, Growing DEF r
    <3>2. ASSUME NEW j \in k .. Len(q) PROVE TimeAt(c, pdt) < TimeAt(c, q[j])
      <4>1. j \in 1 .. Len(q)
        BY <1>1
      <4>2. IsPhase(dp, c, q[j])
        BY <1>1, <4>1 DEF AllPhases
      <4>3. TimeAt(c, q[j]) \in Int /\ q[j] = PhaseOf(dp, TimeAt(c, q[j]))
        BY <1>1, <4>2, IsPhaseTime
      <4>4. TimeAt(c, pdt) <= TimeAt(c, q[j])
        OBVIOUS
      <4>5. q[j] # pdt
        BY <1>1, <1>9, <2>2, <4>1 DEF Entries
      <4>6. QED
        BY <1>2, <4>3, <4>4, <4>5
    <3> HIDE DEF r
    <3>3. /\ r \in Seq(PhaseSet) /\ Sorted(c, r)
          /\ Entries(r) = Entries(q) \cup {pdt}
      BY <1>1, <3>1, <3>2, GrownQueue
    <3>4. QED
      BY <1>1, <1>7, <2>2, <3>3 DEF QueueHeld
  <2>3. QED
    BY <2>1, <2>2
<1>12. Held(dp, c, q1, sets1, new)
  <2> HIDE DEF q1, sets1
  <2> QED  BY <1>6, <1>10, <1>11 DEF Held
<1>13. QED
  BY <1>12 DEF new

\* Time passing up to the earliest event changes nothing about the schedule.
LEMMA HeldLater ==
    ASSUME NEW dp, NEW c, NEW q, NEW sets, NEW accounts, Held(dp, c, q, sets, accounts),
           NEW d \in Int, c <= d,
           \A id \in DOMAIN accounts : d <= TimeAt(c, accounts[id].phase)
    PROVE  /\ Held(dp, d, q, sets, accounts)
           /\ \A id \in DOMAIN accounts :
                 TimeAt(d, accounts[id].phase) = TimeAt(c, accounts[id].phase)
<1>1. /\ dp \in Nat /\ c \in Int /\ q \in Seq(PhaseSet)
      /\ AllPhases(dp, c, q) /\ Sorted(c, q) /\ Entries(q) = PhasesOf(accounts)
  BY HeldPhases
<1>2. ASSUME NEW id \in DOMAIN accounts
      PROVE  /\ TimeAt(d, accounts[id].phase) = TimeAt(c, accounts[id].phase)
             /\ AccountHeld(dp, d, accounts[id])
  <2> DEFINE a == accounts[id]
             pdt == a.phase
             t == TimeAt(c, pdt)
  <2>1. AccountHeld(dp, c, a)
    BY DEF Held, AccountsHeld
  <2>2. Stands(dp, c, pdt, t) /\ Exact(c, a.precision, t) /\ a.precision \in Nat
        /\ a \in [phase : PhaseSet, precision : Nat]
    BY <2>1 DEF AccountHeld, IsPhase
  <2>3. d <= t
    OBVIOUS
  <2> HIDE DEF a, t
  <2>4. t \in Int
    BY <2>2 DEF Stands
  <2>5. Stands(dp, d, pdt, t)
    BY <1>1, <2>2, <2>3, StandsLater
  <2>6. TimeAt(d, pdt) = t /\ IsPhase(dp, d, pdt)
    BY <1>1, <2>5, TimeAtIs
  <2>7. Exact(d, a.precision, t)
    BY <1>1, <2>2, <2>3, <2>4, ExactLater
  <2>8. AccountHeld(dp, d, a)
    BY <2>2, <2>6, <2>7 DEF AccountHeld
  <2>9. QED
    BY <2>6, <2>8 DEF a, t
<1>3. \A k \in 1 .. Len(q) : TimeAt(d, q[k]) = TimeAt(c, q[k])
  <2>1. SUFFICES ASSUME NEW k \in 1 .. Len(q) PROVE TimeAt(d, q[k]) = TimeAt(c, q[k])
    OBVIOUS
  <2>2. PICK id \in DOMAIN accounts : q[k] = accounts[id].phase
    BY <1>1 DEF Entries, PhasesOf
  <2>3. QED
    BY <1>2, <2>2
<1>4. QueueHeld(d, q, accounts)
  <2>1. Sorted(d, q)
    BY <1>1, <1>3 DEF Sorted
  <2>2. QED
    BY <1>1, <2>1 DEF QueueHeld
<1>5. AccountsHeld(dp, d, accounts)
  BY <1>2 DEF Held, AccountsHeld
<1>6. ClockHeld(dp, d)
  <2>1. Tick(dp) \in Nat /\ -Tick(dp) <= c
    BY <1>1, TickPositive DEF Held, ClockHeld
  <2>2. QED
    BY <1>1, <2>1 DEF ClockHeld
<1>7. SetsHeld(sets, accounts)
  BY DEF Held
<1>8. QED
  BY <1>2, <1>4, <1>5, <1>6, <1>7 DEF Held

-----------------------------------------------------------------------------
(* The queue is sound                                                      *)

LEMMA InvariantSound == IInv => QueueSound
<1> SUFFICES ASSUME IInv PROVE QueueSound
  OBVIOUS
<1>1. Held(default_precision_, ct_, queue_, event_id_sets_, event_accounts_)
  BY DEF IInv
<1>2. /\ default_precision_ \in Nat /\ ct_ \in Int /\ queue_ \in Seq(PhaseSet)
      /\ AllPhases(default_precision_, ct_, queue_) /\ Sorted(ct_, queue_)
      /\ Entries(queue_) = PhasesOf(event_accounts_)
      /\ \A pdt \in PhasesOf(event_accounts_) : IsPhase(default_precision_, ct_, pdt)
  BY <1>1, HeldPhases
<1>3. /\ event_id_sets_
            = [pdt \in PhasesOf(event_accounts_) |-> IdsAt(event_accounts_, pdt)]
      /\ DOMAIN event_accounts_ \subseteq Ids
      /\ \A id \in DOMAIN event_accounts_ :
            AccountHeld(default_precision_, ct_, event_accounts_[id])
      /\ -Tick(default_precision_) <= ct_
  BY <1>1 DEF Held, SetsHeld, AccountsHeld, ClockHeld
<1>4. /\ DOMAIN event_id_sets_ = PhasesOf(event_accounts_)
      /\ \A pdt \in PhasesOf(event_accounts_) :
            event_id_sets_[pdt] = IdsAt(event_accounts_, pdt)
  BY <1>3
<1>5. DOMAIN queue_ = 1 .. Len(queue_)
  BY <1>2
<1>6. TypeOK
  <2>1. \A pdt \in PhasesOf(event_accounts_) : pdt \in PhaseSet
    BY <1>2, IsPhaseTime
  <2>2. \A id \in DOMAIN event_accounts_ :
           event_accounts_[id] \in [phase : PhaseSet, precision : Nat]
    BY <1>3 DEF AccountHeld
  <2>3. \A pdt \in PhasesOf(event_accounts_) : event_id_sets_[pdt] \subseteq Ids
    BY <1>3, <1>4 DEF IdsAt
  <2>4. QED
    BY <1>2, <1>3, <1>4, <2>1, <2>2, <2>3 DEF TypeOK, PhaseSet
<1>7. ContainersAgree
  <2>1. DOMAIN event_id_sets_ = {queue_[k] : k \in DOMAIN queue_}
    BY <1>2, <1>4, <1>5 DEF Entries
  <2>2. \A j, k \in DOMAIN queue_ : queue_[j] = queue_[k] => j = k
    <3>1. ASSUME NEW j \in 1 .. Len(queue_), NEW k \in 1 .. Len(queue_), j < k
          PROVE  queue_[j] # queue_[k]
      <4>1. TimeAt(ct_, queue_[j]) < TimeAt(ct_, queue_[k])
        BY <1>2, <3>1 DEF Sorted
      <4>2. TimeAt(ct_, queue_[j]) \in Int
        BY <1>2, IsPhaseTime DEF AllPhases
      <4>3. QED
        BY <4>1, <4>2
    <3>2. QED
      BY <1>5, <3>1
  <2>3. ASSUME NEW pdt \in DOMAIN event_id_sets_
        PROVE  /\ event_id_sets_[pdt] # {}
               /\ event_id_sets_[pdt]
                     = {id \in DOMAIN event_accounts_ : event_accounts_[id].phase = pdt}
    <3>1. event_id_sets_[pdt] = IdsAt(event_accounts_, pdt)
      BY <1>4
    <3>2. PICK id \in DOMAIN event_accounts_ : event_accounts_[id].phase = pdt
      BY <1>4 DEF PhasesOf
    <3>3. QED
      BY <3>1, <3>2 DEF IdsAt
  <2>4. \A id \in DOMAIN event_accounts_ : event_accounts_[id].phase \in DOMAIN event_id_sets_
    BY <1>4 DEF PhasesOf
  <2>5. QED
    BY <2>1, <2>2, <2>3, <2>4 DEF ContainersAgree
<1>8. QueueInOrder
  BY <1>2, <1>5, TimeOfIs DEF QueueInOrder, Sorted
<1>9. DurationUntilExact
  <2>1. SUFFICES ASSUME NEW id \in DOMAIN event_accounts_
                 PROVE  /\ finite(duration_until(id))
                        /\ advance(ct_, duration_until(id)) = TimeOf(event_accounts_[id].phase)
    BY DEF DurationUntilExact
  <2> DEFINE a == event_accounts_[id]
             pdt == a.phase
             p == a.precision
             t == TimeAt(ct_, pdt)
             dt == rescaled_duration_from_phase(ct_, pdt, p)
  <2>2. AccountHeld(default_precision_, ct_, a)
    BY <1>3
  <2>3. Stands(default_precision_, ct_, pdt, t) /\ Exact(ct_, p, t) /\ p \in Nat
    BY <2>2 DEF AccountHeld, IsPhase
  <2>4. duration_until(id) = dt
    BY DEF duration_until
  <2>5. finite(dt) /\ advance(ct_, dt) = t
    <3> HIDE DEF t, a
    <3> QED  BY <1>2, <1>3, <2>3, RescaledExact
  <2>6. TimeOf(pdt) = t
    BY TimeOfIs
  <2>7. QED
    BY <2>4, <2>5, <2>6
<1>10. QED
  BY <1>6, <1>7, <1>8, <1>9 DEF QueueSound

LEMMA Initially == Init => IInv
<1> SUFFICES ASSUME Init PROVE IInv
  OBVIOUS
<1>1. ct_ \in Int /\ default_precision_ = scale_above(ct_)
  BY EventPlansAssumption DEF Init
<1>2. ClockHeld(default_precision_, ct_)
  <2>1. scale_above(ct_) \in Nat /\ Magnitude(ct_) < Tick(scale_above(ct_))
    <3>1. scale_above(ct_) \in Nat
      BY <1>1, ScaleAbove
    <3>2. scale_above(ct_) <= scale_above(ct_)
      BY <3>1
    <3>3. QED
      BY <1>1, <3>1, <3>2, ScaleAbove
  <2>2. -Magnitude(ct_) <= ct_ /\ Magnitude(ct_) \in Nat
    BY <1>1, MagnitudeIs
  <2>3. Tick(scale_above(ct_)) \in Nat
    BY <2>1, TickPositive
  <2>4. QED
    BY <1>1, <2>1, <2>2, <2>3 DEF ClockHeld
<1>3. DOMAIN event_accounts_ = {} /\ event_accounts_ = [id \in {} |-> event_accounts_[id]]
  BY DEF Init, NoEntries
<1>4. AccountsHeld(default_precision_, ct_, event_accounts_)
  <2>1. IsFiniteSet({})
    BY FS_EmptySet
  <2>2. QED
    BY <1>3, <2>1 DEF AccountsHeld
<1>5. PhasesOf(event_accounts_) = {}
  BY <1>3 DEF PhasesOf
<1>6. SetsHeld(event_id_sets_, event_accounts_)
  BY <1>5 DEF SetsHeld, Init, NoEntries
<1>7. QueueHeld(ct_, queue_, event_accounts_)
  <2>1. queue_ = <<>>
    BY DEF Init
  <2>2. queue_ \in Seq(PhaseSet) /\ Len(queue_) = 0
    BY <2>1
  <2>3. QED
    BY <1>5, <2>2 DEF QueueHeld, Entries, Sorted
<1>8. QED
  BY <1>2, <1>4, <1>6, <1>7 DEF IInv, Held

-----------------------------------------------------------------------------
(* Every operation keeps the invariant and is a step of the calendar       *)

\* The timetable of the accounts, seen from c.
DueAt(c, accounts) == [id \in DOMAIN accounts |-> TimeAt(c, accounts[id].phase)]

LEMMA DueTimesIs ==
    /\ DueTimes = DueAt(ct_, event_accounts_)
    /\ DueTimes' = DueAt(ct_', event_accounts_')
<1>1. DueTimes = DueAt(ct_, event_accounts_)
  BY DEF DueTimes, DueAt, TimeOf, TimeAt, Ahead
<1>2. DueTimes' = DueAt(ct_', event_accounts_')
  BY DEF DueTimes, DueAt, TimeOf, TimeAt, Ahead
<1>3. QED
  BY <1>1, <1>2

LEMMA DueAtDropped ==
    ASSUME NEW c, NEW accounts, NEW ids
    PROVE  DueAt(c, Dropped(accounts, ids)) = Dropped(DueAt(c, accounts), ids)
<1>1. DOMAIN DueAt(c, accounts) = DOMAIN accounts
  BY DEF DueAt
<1>2. \A id \in DOMAIN accounts : DueAt(c, accounts)[id] = TimeAt(c, accounts[id].phase)
  BY DEF DueAt
<1>3. DueAt(c, Dropped(accounts, ids))
          = [id \in DOMAIN accounts \ ids |-> TimeAt(c, accounts[id].phase)]
  BY DEF DueAt, Dropped
<1>4. QED
  BY <1>1, <1>2, <1>3 DEF Dropped

LEMMA DroppedStep ==
    ASSUME NEW ids, ct_' = ct_, event_accounts_' = Dropped(event_accounts_, ids)
    PROVE  DueTimes' = Dropped(DueTimes, ids)
<1> DEFINE due == DueAt(ct_, event_accounts_)
<1>1. DueAt(ct_, Dropped(event_accounts_, ids)) = Dropped(due, ids)
  BY DueAtDropped
<1>2. DueTimes = due /\ DueTimes' = DueAt(ct_, Dropped(event_accounts_, ids))
  BY DueTimesIs
<1> HIDE DEF due
<1>3. QED
  BY <1>1, <1>2

LEMMA PromiseAdvance == ASSUME NEW c, NEW dt PROVE Promise!advance(c, dt) = advance(c, dt)
BY DEF Promise!advance, Promise!Floor, Promise!Tick, Promise!power, advance, Floor, Tick, power

LEMMA CancelStep ==
    ASSUME IInv, NEW id \in Ids, cancel_event(id)
    PROVE  /\ IInv'
           /\ Promise!Cancel(id) \/ UNCHANGED <<ct_, DueTimes>>
<1> DEFINE s == Cancelled(id)
<1>1. /\ queue_' = s.queue /\ event_id_sets_' = s.sets /\ event_accounts_' = s.accounts
      /\ ct_' = ct_ /\ default_precision_' = default_precision_
  BY DEF cancel_event
<1>2. /\ Held(default_precision_, ct_, s.queue, s.sets, s.accounts)
      /\ id \notin DOMAIN event_accounts_ => s.accounts = event_accounts_
      /\ id \in DOMAIN event_accounts_ => s.accounts = Without(event_accounts_, id)
  BY CancelledHeld
<1> HIDE DEF s
<1>3. IInv'
  BY <1>1, <1>2 DEF IInv
<1>4. CASE id \notin DOMAIN event_accounts_
  BY <1>1, <1>2, <1>3, <1>4, DueTimesIs
<1>5. CASE id \in DOMAIN event_accounts_
  <2>1. event_accounts_' = Dropped(event_accounts_, {id})
    BY <1>1, <1>2, <1>5 DEF Without, Dropped
  <2>2. DueTimes' = Dropped(DueTimes, {id})
    BY <1>1, <2>1, DroppedStep
  <2>3. id \in DOMAIN DueTimes
    BY <1>5, DueTimesIs DEF DueAt
  <2>4. Promise!Cancel(id)
    BY <1>1, <2>2, <2>3 DEF Promise!Cancel, Promise!WithoutEvents, Dropped
  <2>5. QED
    BY <1>3, <2>4
<1>6. QED
  BY <1>4, <1>5

LEMMA PlanStep ==
    ASSUME IInv, NEW id \in Ids, NEW dt \in PlanDurations, plan_event(id, dt)
    PROVE  IInv' /\ Promise!Plan(id, dt)
<1> DEFINE s == Cancelled(id)
           dp == default_precision_
           pdt == phase_from_duration(ct_, dt)
           t == advance(ct_, dt)
           k == phase_lower_bound(s.queue, pdt)
           known == k <= Len(s.queue) /\ s.queue[k] = pdt
           new == With(s.accounts, id, [phase |-> pdt, precision |-> dt.p])
<1>1. dt \in [m : Nat, p : Nat] /\ finite(dt) /\ dt.p \in Nat
  BY EventPlansAssumption, MaxScaleAssumption DEF Scales
<1>2. /\ queue_' = IF known THEN s.queue
                   ELSE SubSeq(s.queue, 1, k - 1) \o <<pdt>> \o SubSeq(s.queue, k, Len(s.queue))
      /\ event_id_sets_' = With(s.sets, pdt, IF known THEN s.sets[pdt] \cup {id} ELSE {id})
      /\ event_accounts_' = new
      /\ ct_' = ct_ /\ default_precision_' = default_precision_
  BY DEF plan_event
<1>3. /\ Held(dp, ct_, s.queue, s.sets, s.accounts)
      /\ id \notin DOMAIN event_accounts_ => s.accounts = event_accounts_
      /\ id \in DOMAIN event_accounts_ => s.accounts = Without(event_accounts_, id)
      /\ id \notin DOMAIN s.accounts
  <2> HIDE DEF s
  <2> QED  BY CancelledHeld DEF s
<1> HIDE DEF s
<1>4. /\ dp \in Nat /\ ct_ \in Int /\ s.queue \in Seq(PhaseSet)
      /\ AllPhases(dp, ct_, s.queue) /\ Sorted(ct_, s.queue)
      /\ -Tick(dp) <= ct_
  <2>1. -Tick(dp) <= ct_
    BY <1>3 DEF Held, ClockHeld
  <2> HIDE DEF dp
  <2>2. QED
    BY <1>3, <2>1, HeldPhases
<1>5. Stands(dp, ct_, pdt, t) /\ Exact(ct_, dt.p, t)
  <2>1. pdt = PhaseOf(dp, t)
    BY <1>1, <1>4, PhaseFromDuration
  <2>2. Stands(dp, ct_, PhaseOf(dp, t), t) /\ Exact(ct_, dt.p, t)
    <3> HIDE DEF dp
    <3> QED  BY <1>1, <1>4, PlannedStands
  <2>3. QED
    BY <2>1, <2>2
<1> HIDE DEF pdt, dp
<1>6. TimeAt(ct_, pdt) = t /\ IsPhase(dp, ct_, pdt)
  BY <1>4, <1>5, TimeAtIs
<1>7. /\ k \in 1 .. Len(s.queue) + 1
      /\ \A j \in 1 .. k - 1 : TimeAt(ct_, s.queue[j]) < TimeAt(ct_, pdt)
      /\ \A j \in k .. Len(s.queue) : TimeAt(ct_, pdt) <= TimeAt(ct_, s.queue[j])
  BY <1>4, <1>6, LowerBoundIs
<1> HIDE DEF k
<1>8. IInv'
  <2>1. Exact(ct_, dt.p, TimeAt(ct_, pdt))
    BY <1>5, <1>6
  <2>2. Held(dp, ct_, queue_', event_id_sets_', event_accounts_')
    BY <1>1, <1>2, <1>3, <1>6, <1>7, <2>1, AddEvent
  <2>3. QED
    BY <1>2, <2>2 DEF IInv, dp
<1>9. DueTimes' = Promise!WithEvent(DueTimes, id, t)
  <2>1. DOMAIN s.accounts \cup {id} = DOMAIN event_accounts_ \cup {id}
    BY <1>3 DEF Without
  <2>2. \A i \in DOMAIN s.accounts : i # id /\ i \in DOMAIN event_accounts_ /\ s.accounts[i] = event_accounts_[i]
    BY <1>3 DEF Without
  <2>3. DOMAIN new = DOMAIN s.accounts \cup {id}
    BY DEF With
  <2>4. new[id].phase = pdt /\ \A i \in DOMAIN s.accounts : i # id => new[i] = s.accounts[i]
    BY DEF With
  <2> HIDE DEF new
  <2>5. \A i \in DOMAIN new : new[i].phase = IF i = id THEN pdt ELSE event_accounts_[i].phase
    BY <2>2, <2>3, <2>4
  <2>6. DueTimes' = [i \in DOMAIN new |-> TimeAt(ct_, new[i].phase)]
    BY <1>2, DueTimesIs DEF DueAt
  <2>7. DueTimes' = [i \in DOMAIN event_accounts_ \cup {id} |->
                        IF i = id THEN t ELSE TimeAt(ct_, event_accounts_[i].phase)]
    <3> HIDE DEF t
    <3> QED  BY <1>6, <2>1, <2>3, <2>5, <2>6
  <2>8. /\ DOMAIN DueTimes = DOMAIN event_accounts_
        /\ \A i \in DOMAIN event_accounts_ : DueTimes[i] = TimeAt(ct_, event_accounts_[i].phase)
    BY DueTimesIs DEF DueAt
  <2> HIDE DEF t
  <2>9. QED
    BY <2>7, <2>8 DEF Promise!WithEvent
<1>10. QED
  BY <1>2, <1>8, <1>9, PromiseAdvance DEF Promise!Plan

\* The first phase of the queue is that of the imminent events of the calendar.
LEMMA ImminentIs ==
    ASSUME IInv, ~queue_empty
    PROVE  /\ queue_ # <<>> /\ 1 \in 1 .. Len(queue_) /\ queue_ \in Seq(PhaseSet)
           /\ event_id_sets_[queue_[1]] = IdsAt(event_accounts_, queue_[1])
           /\ IdsAt(event_accounts_, queue_[1]) = Promise!Imminent(DueTimes)
           /\ IsPhase(default_precision_, ct_, queue_[1])
           /\ \A id \in DOMAIN event_accounts_ :
                 TimeAt(ct_, queue_[1]) <= TimeAt(ct_, event_accounts_[id].phase)
<1> DEFINE pdt == queue_[1]
           At(id) == TimeAt(ct_, event_accounts_[id].phase)
<1>1. Held(default_precision_, ct_, queue_, event_id_sets_, event_accounts_)
  BY DEF IInv
<1>2. /\ queue_ # <<>> /\ 1 \in 1 .. Len(queue_) /\ pdt \in PhasesOf(event_accounts_)
      /\ IsPhase(default_precision_, ct_, pdt)
      /\ \A id \in DOMAIN event_accounts_ :
            /\ At(id) \in Int
            /\ TimeAt(ct_, pdt) <= At(id)
            /\ TimeAt(ct_, pdt) = At(id) => event_accounts_[id].phase = pdt
  BY <1>1, FrontFirst DEF queue_empty
<1>3. event_id_sets_[pdt] = IdsAt(event_accounts_, pdt)
  <2>1. event_id_sets_ = [x \in PhasesOf(event_accounts_) |-> IdsAt(event_accounts_, x)]
    BY <1>1 DEF Held, SetsHeld
  <2> HIDE DEF pdt
  <2>2. QED
    BY <1>2, <2>1
<1>4. /\ DOMAIN DueTimes = DOMAIN event_accounts_
      /\ \A id \in DOMAIN event_accounts_ : DueTimes[id] = At(id)
  BY DueTimesIs DEF DueAt
<1>5. PICK first \in DOMAIN event_accounts_ : event_accounts_[first].phase = pdt
  BY <1>2 DEF PhasesOf
<1>6. At(first) = TimeAt(ct_, pdt)
  BY <1>5
<1> HIDE DEF At, pdt
<1>7. ASSUME NEW id \in DOMAIN event_accounts_
      PROVE  event_accounts_[id].phase = pdt
                 <=> \A j \in DOMAIN event_accounts_ : DueTimes[id] <= DueTimes[j]
  <2>1. ASSUME event_accounts_[id].phase = pdt
        PROVE  \A j \in DOMAIN event_accounts_ : DueTimes[id] <= DueTimes[j]
    <3>1. At(id) = TimeAt(ct_, pdt)
      BY <2>1 DEF At
    <3>2. QED
      BY <1>2, <1>4, <3>1
  <2>2. ASSUME \A j \in DOMAIN event_accounts_ : DueTimes[id] <= DueTimes[j]
        PROVE  event_accounts_[id].phase = pdt
    <3>1. At(id) <= At(first)
      BY <1>4, <2>2
    <3>2. At(id) = TimeAt(ct_, pdt)
      BY <1>2, <1>6, <3>1
    <3>3. QED
      BY <1>2, <3>2
  <2>3. QED
    BY <2>1, <2>2
<1>8. IdsAt(event_accounts_, pdt) = Promise!Imminent(DueTimes)
  BY <1>4, <1>7 DEF IdsAt, Promise!Imminent
<1>9. queue_ \in Seq(PhaseSet)
  BY <1>1, HeldPhases
<1>10. QED
  BY <1>2, <1>3, <1>8, <1>9 DEF pdt, At

LEMMA PopStep ==
    ASSUME IInv, NEW id \in Ids, pop_imminent_event(id)
    PROVE  IInv' /\ Promise!Pop(id)
<1> DEFINE pdt == queue_[1]
           accounts == event_accounts_
           sets == event_id_sets_
           dp == default_precision_
<1>1. ~queue_empty /\ id \in sets[pdt] /\ event_accounts_' = Without(accounts, id)
      /\ ct_' = ct_ /\ default_precision_' = default_precision_
  BY DEF pop_imminent_event
<1>2. /\ queue_ # <<>> /\ 1 \in 1 .. Len(queue_) /\ queue_ \in Seq(PhaseSet)
      /\ sets[pdt] = IdsAt(accounts, pdt)
      /\ IdsAt(accounts, pdt) = Promise!Imminent(DueTimes)
  BY <1>1, ImminentIs
<1>3. id \in DOMAIN accounts /\ accounts[id].phase = pdt
  BY <1>1, <1>2 DEF IdsAt
<1>4. Held(dp, ct_, queue_, sets, accounts)
  BY DEF IInv
<1>5. LeftHeld(dp, ct_, queue_, sets, accounts, id)
  <2> HIDE DEF dp, sets, accounts
  <2> QED  BY <1>3, <1>4, DropEvent
<1>6. ASSUME Cardinality(sets[pdt]) > 1,
             event_id_sets_' = [event_id_sets_ EXCEPT ![pdt] = @ \ {id}],
             queue_' = queue_
      PROVE  IInv'
  <2>1. Cardinality(sets[pdt]) # 1
    BY <1>6
  <2>2. Held(dp, ct_, queue_, [sets EXCEPT ![pdt] = @ \ {id}], Without(accounts, id))
    BY <1>3, <1>5, <2>1 DEF LeftHeld
  <2>3. QED
    BY <1>1, <1>6, <2>2 DEF IInv
<1>7. ASSUME Cardinality(sets[pdt]) = 1,
             event_id_sets_' = Without(event_id_sets_, pdt),
             queue_' = Tail(queue_)
      PROVE  IInv'
  <2>1. sets[pdt] = {id}
    BY <1>3, <1>5, <1>7 DEF LeftHeld
  <2>2. Thinned(queue_, 1, Tail(queue_))
    BY <1>2, ThinningTail
  <2>3. Held(dp, ct_, Tail(queue_), Without(sets, queue_[1]), Dropped(accounts, IdsAt(accounts, queue_[1])))
    <3> HIDE DEF dp, sets, accounts
    <3> QED  BY <1>2, <1>4, <2>2, DropPhase
  <2>4. Dropped(accounts, IdsAt(accounts, queue_[1])) = Without(accounts, id)
    BY <1>2, <2>1 DEF Dropped, Without
  <2>5. QED
    BY <1>1, <1>7, <2>3, <2>4 DEF IInv
<1>8. IInv'
  <2>1. \/ /\ Cardinality(sets[pdt]) > 1
           /\ event_id_sets_' = [event_id_sets_ EXCEPT ![pdt] = @ \ {id}]
           /\ queue_' = queue_
        \/ /\ Cardinality(sets[pdt]) = 1
           /\ event_id_sets_' = Without(event_id_sets_, pdt)
           /\ queue_' = Tail(queue_)
    BY DEF pop_imminent_event
  <2>2. QED
    BY <1>6, <1>7, <2>1
<1>9. DueTimes' = Dropped(DueTimes, {id})
  <2>1. event_accounts_' = Dropped(event_accounts_, {id})
    BY <1>1 DEF Without, Dropped
  <2>2. QED
    BY <1>1, <2>1, DroppedStep
<1>10. id \in DOMAIN DueTimes
  BY <1>3, DueTimesIs DEF DueAt
<1>11. Promise!Pop(id)
  <2>1. Promise!Cancel(id)
    BY <1>1, <1>9, <1>10 DEF Promise!Cancel, Promise!WithoutEvents, Dropped
  <2>2. id \in Promise!Imminent(DueTimes)
    BY <1>1, <1>2
  <2>3. QED
    BY <2>1, <2>2 DEF Promise!Pop
<1>12. QED
  BY <1>8, <1>11

LEMMA PopAllStep ==
    ASSUME IInv, pop_imminent_events
    PROVE  IInv' /\ Promise!PopAll
<1> DEFINE pdt == queue_[1]
           accounts == event_accounts_
           sets == event_id_sets_
           dp == default_precision_
           ids == IdsAt(accounts, pdt)
<1>1. /\ ~queue_empty
      /\ event_accounts_' = [i \in DOMAIN event_accounts_ \ imminent_event_ids |-> event_accounts_[i]]
      /\ event_id_sets_' = Without(event_id_sets_, pdt)
      /\ queue_' = Tail(queue_)
      /\ ct_' = ct_ /\ default_precision_' = default_precision_
  BY DEF pop_imminent_events
<1>2. /\ queue_ # <<>> /\ 1 \in 1 .. Len(queue_) /\ queue_ \in Seq(PhaseSet)
      /\ sets[pdt] = ids /\ ids = Promise!Imminent(DueTimes)
  BY <1>1, ImminentIs
<1>3. imminent_event_ids = ids
  BY <1>2 DEF imminent_event_ids
<1>4. event_accounts_' = Dropped(accounts, ids)
  BY <1>1, <1>3 DEF Dropped
<1>5. Held(dp, ct_, queue_, sets, accounts)
  BY DEF IInv
<1>6. Thinned(queue_, 1, Tail(queue_))
  BY <1>2, ThinningTail
<1>7. Held(dp, ct_, Tail(queue_), Without(sets, queue_[1]), Dropped(accounts, IdsAt(accounts, queue_[1])))
  <2> HIDE DEF dp, sets, accounts
  <2> QED  BY <1>2, <1>5, <1>6, DropPhase
<1>8. IInv'
  BY <1>1, <1>4, <1>7 DEF IInv
<1>9. DueTimes' = Dropped(DueTimes, ids)
  <2> HIDE DEF ids
  <2> QED  BY <1>1, <1>4, DroppedStep
<1>10. DueTimes # Promise!EmptyTimetable
  <2>1. DOMAIN accounts # {}
    <3>1. accounts = [id \in DOMAIN accounts |-> accounts[id]]
      BY <1>5 DEF Held, AccountsHeld
    <3>2. accounts # NoEntries
      BY <1>1 DEF queue_empty
    <3> HIDE DEF accounts
    <3>3. QED
      BY <3>1, <3>2 DEF NoEntries
  <2>2. DOMAIN DueTimes = DOMAIN accounts
    BY DueTimesIs DEF DueAt
  <2>3. DOMAIN Promise!EmptyTimetable = {}
    BY DEF Promise!EmptyTimetable
  <2>4. QED
    BY <2>1, <2>2, <2>3
<1>11. Promise!PopAll
  BY <1>1, <1>2, <1>9, <1>10 DEF Promise!PopAll, Promise!WithoutEvents, Dropped
<1>12. QED
  BY <1>8, <1>11

\* Any move of time forward, and not past an event.
LEMMA AdvanceStep ==
    ASSUME IInv, ct_' \in Int, ct_ <= ct_', ct_' <= MaxTime,
           \A id \in DOMAIN event_accounts_ : ct_' <= TimeAt(ct_, event_accounts_[id].phase),
           UNCHANGED <<default_precision_, schedule>>
    PROVE  IInv' /\ (Promise!Advance \/ UNCHANGED <<ct_, DueTimes>>)
<1> DEFINE t == ct_'
           accounts == event_accounts_
<1>1. /\ default_precision_' = default_precision_ /\ queue_' = queue_
      /\ event_id_sets_' = event_id_sets_ /\ event_accounts_' = event_accounts_
  BY DEF schedule
<1>2. Held(default_precision_, ct_, queue_, event_id_sets_, accounts)
  BY DEF IInv
<1>3. /\ Held(default_precision_, t, queue_, event_id_sets_, accounts)
      /\ \A id \in DOMAIN accounts :
            TimeAt(t, accounts[id].phase) = TimeAt(ct_, accounts[id].phase)
  <2>1. t \in Int /\ ct_ <= t /\ \A id \in DOMAIN accounts : t <= TimeAt(ct_, accounts[id].phase)
    OBVIOUS
  <2> HIDE DEF t, accounts
  <2>2. QED
    BY <1>2, <2>1, HeldLater
<1>4. IInv'
  BY <1>1, <1>3 DEF IInv
<1>5. DueAt(t, accounts) = DueAt(ct_, accounts)
  <2> HIDE DEF t, accounts
  <2> QED  BY <1>3 DEF DueAt
<1>6. DueTimes' = DueTimes
  BY <1>1, <1>5, DueTimesIs
<1>7. ct_ \in Int /\ MaxTime \in Int
  BY <1>2, HeldPhases, EventPlansAssumption
<1>8. CASE ct_' = ct_
  BY <1>4, <1>6, <1>8
<1>9. CASE ct_' # ct_
  <2>1. ct_' \in ct_ + 1 .. MaxTime
    BY <1>7, <1>9
  <2>2. \A id \in DOMAIN DueTimes : ct_' <= DueTimes[id]
    BY DueTimesIs DEF DueAt
  <2>3. Promise!Advance
    BY <1>6, <2>1, <2>2 DEF Promise!Advance, Promise!NoneBefore
  <2>4. QED
    BY <1>4, <2>3
<1>10. QED
  BY <1>8, <1>9

LEMMA AdvancesStep ==
    ASSUME IInv,
           \/ advance_time
           \/ \E dt \in PlanDurations : advance_time_by(dt)
           \/ \E t \in AdvanceTargets : advance_time_to(t)
    PROVE  IInv' /\ (Promise!Advance \/ UNCHANGED <<ct_, DueTimes>>)
<1> DEFINE dp == default_precision_
           pdt == queue_[1]
           t1 == TimeAt(ct_, pdt)
           Safe == /\ ct_' \in Int /\ ct_ <= ct_' /\ ct_' <= MaxTime
                   /\ ~queue_empty => ct_' <= t1
                   /\ UNCHANGED <<default_precision_, schedule>>
<1>1. Held(dp, ct_, queue_, event_id_sets_, event_accounts_) /\ ct_ \in Int /\ dp \in Nat
  BY HeldPhases DEF IInv
<1>2. ASSUME ~queue_empty
      PROVE  /\ IsPhase(dp, ct_, pdt) /\ t1 \in Int
             /\ \A id \in DOMAIN event_accounts_ :
                   /\ TimeAt(ct_, event_accounts_[id].phase) \in Int
                   /\ t1 <= TimeAt(ct_, event_accounts_[id].phase)
  <2>1. event_accounts_ # NoEntries
    BY <1>2 DEF queue_empty
  <2>2. IsPhase(dp, ct_, pdt)
    BY <1>2, ImminentIs
  <2>3. t1 \in Int
    BY <1>1, <2>2, IsPhaseTime
  <2>4. QED
    BY <1>1, <2>1, <2>2, <2>3, FrontFirst
<1>3. ASSUME ~queue_empty PROVE imminent_duration(ct_) = duration_from_phase(ct_, pdt) /\ Stands(dp, ct_, pdt, t1)
  BY <1>2, <1>3 DEF imminent_duration, IsPhase
<1>4. ASSUME advance_time PROVE Safe
  <2>1. /\ ~queue_empty /\ ct_' = advance(ct_, imminent_duration(ct_))
        /\ ct_' <= MaxTime /\ UNCHANGED <<default_precision_, schedule>>
    BY <1>4 DEF advance_time
  <2>2. ct_' = advance(ct_, duration_from_phase(ct_, pdt)) /\ Stands(dp, ct_, pdt, t1)
    BY <1>3, <2>1
  <2> HIDE DEF t1, dp
  <2>3. ct_' = t1
    BY <1>1, <2>2, DurationFromPhase
  <2>4. t1 \in Int /\ ct_ <= t1
    BY <2>2 DEF Stands
  <2>5. QED
    BY <2>1, <2>3, <2>4
<1>5. ASSUME NEW dt \in PlanDurations, advance_time_by(dt) PROVE Safe
  <2>1. dt \in [m : Nat, p : Nat] /\ finite(dt)
    BY EventPlansAssumption, MaxScaleAssumption DEF Scales
  <2>2. /\ can_advance_by(ct_, dt) /\ ct_' = advance(ct_, dt) /\ ct_' <= MaxTime
        /\ UNCHANGED <<default_precision_, schedule>>
    BY <1>5 DEF advance_time_by
  <2>3. advance(ct_, dt) \in Int /\ ct_ <= advance(ct_, dt)
    BY <1>1, <2>1, AdvanceForward
  <2>4. ASSUME ~queue_empty PROVE advance(ct_, dt) <= t1
    <3>1. NotBeyond(ct_, dt, duration_from_phase(ct_, pdt)) /\ Stands(dp, ct_, pdt, t1)
      BY <1>3, <2>2, <2>4 DEF can_advance_by
    <3> HIDE DEF t1, dp, pdt
    <3>2. QED
      BY <1>1, <2>1, <3>1, NotBeyondIs
  <2>5. QED
    BY <2>2, <2>3, <2>4
<1>6. ASSUME NEW t \in AdvanceTargets, advance_time_to(t) PROVE Safe
  <2>1. t \in Int
    BY AdvanceTargetsAssumption
  <2>2. ct_' = LoopEnd(t) /\ ct_' <= MaxTime /\ UNCHANGED <<default_precision_, schedule>>
    BY <1>6 DEF advance_time_to
  <2> DEFINE bound == IF queue_empty THEN 0 ELSE t1
  <2>3. bound \in Int /\ (~queue_empty => Stands(dp, ct_, queue_[1], bound))
    <3> HIDE DEF t1, dp
    <3> QED  BY <1>2, <1>3
  <2>4. LoopEnd(t) \in Int /\ ct_ <= LoopEnd(t) /\ (~queue_empty => LoopEnd(t) <= bound)
    <3> HIDE DEF bound, dp
    <3> QED  BY <1>1, <2>1, <2>3, LoopSafe
  <2>5. QED
    BY <2>2, <2>4
<1>7. Safe
  BY <1>4, <1>5, <1>6
<1>8. \A id \in DOMAIN event_accounts_ : ct_' <= TimeAt(ct_, event_accounts_[id].phase)
  <2>1. CASE queue_empty
    BY <2>1 DEF queue_empty, NoEntries
  <2>2. CASE ~queue_empty
    BY <1>2, <1>7, <2>2
  <2>3. QED
    BY <2>1, <2>2
<1>9. QED
  BY <1>7, <1>8, AdvanceStep

LEMMA Inductive ==
    ASSUME IInv, [Next]_vars
    PROVE  IInv' /\ [Promise!Next]_(Promise!calendarVars)
<1>1. CASE \E id \in Ids : cancel_event(id)
  BY <1>1, CancelStep DEF Promise!Next, Promise!calendarVars
<1>2. CASE \E id \in Ids : pop_imminent_event(id)
  BY <1>2, PopStep DEF Promise!Next
<1>3. CASE \E id \in Ids : \E dt \in PlanDurations : plan_event(id, dt)
  BY <1>3, PlanStep DEF Promise!Next
<1>4. CASE pop_imminent_events
  BY <1>4, PopAllStep DEF Promise!Next
<1>5. CASE \/ advance_time
           \/ \E dt \in PlanDurations : advance_time_by(dt)
           \/ \E t \in AdvanceTargets : advance_time_to(t)
  BY <1>5, AdvancesStep DEF Promise!Next, Promise!calendarVars
<1>6. CASE UNCHANGED vars
  <2>1. /\ ct_' = ct_ /\ default_precision_' = default_precision_ /\ queue_' = queue_
        /\ event_id_sets_' = event_id_sets_ /\ event_accounts_' = event_accounts_
    BY <1>6 DEF vars, schedule
  <2>2. IInv'
    BY <2>1 DEF IInv
  <2>3. DueTimes' = DueTimes
    BY <2>1, DueTimesIs
  <2>4. QED
    BY <2>1, <2>2, <2>3 DEF Promise!calendarVars
<1>7. QED
  BY <1>1, <1>2, <1>3, <1>4, <1>5, <1>6 DEF Next

\* The containers of time_queue agree, the phases are in the order of their
\* times, and the duration reported until an event leads to the time it was
\* planned at, after every sequence of calls, for every choice of the scales,
\* the start, the plans and the targets.
THEOREM QueueIsSound == Spec => []QueueSound
<1>1. Init => IInv
  BY Initially
<1>2. IInv /\ [Next]_vars => IInv'
  BY Inductive
<1>3. IInv => QueueSound
  BY InvariantSound
<1>4. QED
  BY <1>1, <1>2, <1>3, PTL DEF Spec

\* The phases implement the calendar: whatever is planned, cancelled or popped,
\* and however time is advanced, no event is lost, moved, reordered or passed.
THEOREM QueueImplementsCalendar == Spec => ImplementsCalendar
<1>1. Init => IInv
  BY Initially
<1>2. Init => Promise!Init
  <2>1. ASSUME Init PROVE Promise!Init
    <3>1. DOMAIN event_accounts_ = {}
      BY <2>1 DEF Init, NoEntries
    <3>2. DueTimes = Promise!EmptyTimetable
      BY <3>1 DEF DueTimes, Promise!EmptyTimetable
    <3>3. QED
      BY <2>1, <3>2 DEF Init, Promise!Init
  <2>2. QED
    BY <2>1
<1>3. IInv /\ [Next]_vars => IInv' /\ [Promise!Next]_(Promise!calendarVars)
  BY Inductive
<1>4. QED
  BY <1>1, <1>2, <1>3, PTL DEF Spec, ImplementsCalendar, Promise!Spec

-----------------------------------------------------------------------------
(* What the calendar itself keeps                                          *)

LEMMA CalendarKept ==
    ASSUME Promise!TypeOK, Promise!NeverMissed, [Promise!Next]_(Promise!calendarVars)
    PROVE  Promise!TypeOK' /\ Promise!NeverMissed'
<1> USE DEF Promise!TypeOK, Promise!NeverMissed, Promise!NoneBefore
<1>1. ASSUME NEW id \in Ids, NEW dt \in PlanDurations, Promise!Plan(id, dt)
      PROVE  Promise!TypeOK' /\ Promise!NeverMissed'
  <2>1. dt \in [m : Nat, p : Nat] /\ ct_ \in Int
    BY EventPlansAssumption, MaxScaleAssumption DEF Scales
  <2>2. Promise!advance(ct_, dt) \in Int /\ ct_ <= Promise!advance(ct_, dt)
    BY <2>1, AdvanceForward, PromiseAdvance
  <2>3. QED
    BY <1>1, <2>2 DEF Promise!Plan, Promise!WithEvent
<1>2. ASSUME NEW id \in Ids, Promise!Cancel(id)
      PROVE  Promise!TypeOK' /\ Promise!NeverMissed'
  BY <1>2 DEF Promise!Cancel, Promise!WithoutEvents
<1>3. ASSUME NEW id \in Ids, Promise!Pop(id)
      PROVE  Promise!TypeOK' /\ Promise!NeverMissed'
  BY <1>2, <1>3 DEF Promise!Pop
<1>4. CASE Promise!PopAll
  BY <1>4 DEF Promise!PopAll, Promise!WithoutEvents
<1>5. CASE Promise!Advance
  BY <1>5, EventPlansAssumption DEF Promise!Advance
<1>6. CASE UNCHANGED Promise!calendarVars
  BY <1>6 DEF Promise!calendarVars
<1>7. QED
  BY <1>1, <1>2, <1>3, <1>4, <1>5, <1>6 DEF Promise!Next

\* Whatever implements the calendar, as the queue does, never lets the current
\* time pass a planned event, whatever is planned, cancelled or popped.
THEOREM CalendarNeverMisses ==
    ImplementsCalendar => []Promise!TypeOK /\ []Promise!NeverMissed
<1>1. Promise!Init => Promise!TypeOK /\ Promise!NeverMissed
  BY EventPlansAssumption
  DEF Promise!Init, Promise!TypeOK, Promise!NeverMissed, Promise!NoneBefore, Promise!EmptyTimetable
<1>2. Promise!TypeOK /\ Promise!NeverMissed /\ [Promise!Next]_(Promise!calendarVars)
      => Promise!TypeOK' /\ Promise!NeverMissed'
  BY CalendarKept
<1>3. QED
  BY <1>1, <1>2, PTL DEF ImplementsCalendar, Promise!Spec

-----------------------------------------------------------------------------
(* Where advance_time(t) stops                                             *)

\* The loop that advances to t and ends before it ends before an event that
\* lies before t.
LEMMA StopsBeforeEvent ==
    ASSUME IInv, NEW t \in Int, LoopEnd(t) < t
    PROVE  1 \in DOMAIN queue_ /\ TimeOf(queue_[1]) < t
<1> DEFINE dp == default_precision_
           pdt == queue_[1]
           t1 == TimeAt(ct_, pdt)
           bound == IF queue_empty THEN 0 ELSE t1
           e == LoopEnd(t)
           dt == gap(t, e)
<1>1. dp \in Nat /\ ct_ \in Int
  BY HeldPhases DEF IInv
<1>2. ASSUME ~queue_empty
      PROVE  /\ 1 \in DOMAIN queue_ /\ pdt \in PhaseSet /\ t1 \in Int
             /\ Stands(dp, ct_, pdt, t1) /\ pdt = PhaseOf(dp, t1)
  BY <1>1, <1>2, ImminentIs, IsPhaseTime DEF IsPhase
<1>3. bound \in Int /\ (~queue_empty => Stands(dp, ct_, queue_[1], bound))
  <2> HIDE DEF t1, dp
  <2>1. QED
    BY <1>2
<1>4. /\ e \in Int /\ ct_ <= e /\ (~queue_empty => e <= bound)
      /\ e < t /\ ~can_advance_by(e, dt)
  <2> HIDE DEF bound, dp
  <2>1. QED
    BY <1>1, <1>3, LoopSafe
<1>5. dt \in [m : Nat, p : Nat] /\ finite(dt)
  <2> HIDE DEF e
  <2>1. QED
    BY <1>4, GapStep
<1> HIDE DEF e, dt
<1>6. ~queue_empty
  <2>1. ASSUME queue_empty PROVE FALSE
    <3>1. imminent_duration(e) = inf
      BY <2>1 DEF imminent_duration
    <3>2. ~finite(inf)
      <4>1. quantity_limit \in Nat /\ inf.m = quantity_limit
        BY LimitPhases DEF inf, Duration
      <4>2. QED
        BY <4>1 DEF finite
    <3>3. NotBeyond(e, dt, imminent_duration(e))
      BY <3>1, <3>2 DEF NotBeyond
    <3>4. QED
      BY <1>4, <3>3 DEF can_advance_by
  <2>2. QED
    BY <2>1
<1>7. Stands(dp, e, pdt, t1) /\ e <= t1
  <2>1. e <= t1
    BY <1>4, <1>6
  <2> HIDE DEF t1, dp, pdt
  <2>2. QED
    BY <1>1, <1>2, <1>4, <1>6, <2>1, StandsLater
\* The gap leads past the event.
<1>8. ~(advance(e, dt) <= t1)
  <2>1. ~NotBeyond(e, dt, duration_from_phase(e, pdt))
    BY <1>4, <1>6 DEF can_advance_by, imminent_duration
  <2> HIDE DEF t1, dp, pdt
  <2>2. QED
    BY <1>1, <1>4, <1>5, <1>7, <2>1, NotBeyondIs
\* It would not, if the event were at t or after it.
<1>9. ASSUME t <= t1 PROVE FALSE
  <2> DEFINE p == pdt.p
  <2>1. p \in Nat /\ t1 % Tick(p) = 0
    BY <1>1, <1>2, <1>6, PhaseParse
  <2>2. Apart(t1, e, p) < quantity_limit
    BY <1>7 DEF Stands, Cut, Apart
  <2> HIDE DEF t1, p
  <2>3. advance(e, gap(t, e)) <= t1
    BY <1>2, <1>4, <1>6, <1>9, <2>1, <2>2, GapWithin
  <2>4. QED
    BY <1>8, <2>3 DEF dt
<1>10. QED
  <2>1. TimeOf(pdt) = t1
    BY TimeOfIs
  <2> HIDE DEF t1
  <2>2. QED
    BY <1>2, <1>6, <1>9, <2>1

\* advance_time(t) throws short of t only when an event lies before t: no
\* rounding of the gap makes it give up with the way to t free.
THEOREM StopsForEvents == Spec => StopsOnlyForEvents
<1> DEFINE Stop(t) == ct_ # ct_' /\ ct_' < t /\ advance_time_to(t)
           Before(t) == \E k \in DOMAIN queue_ : TimeOf(queue_[k]) < t
           Stops == \A t \in AdvanceTargets : Stop(t) => Before(t)
<1>1. Init => IInv
  BY Initially
<1>2. IInv /\ [Next]_vars => IInv'
  BY Inductive
<1>3. IInv /\ [Next]_vars => [Stops]_vars
  <2>1. ASSUME IInv, NEW t \in AdvanceTargets, Stop(t) PROVE Before(t)
    <3>1. t \in Int /\ LoopEnd(t) < t
      BY <2>1, AdvanceTargetsAssumption DEF advance_time_to
    <3>2. QED
      BY <2>1, <3>1, StopsBeforeEvent
  <2>2. QED
    BY <2>1
<1>4. QED
  BY <1>1, <1>2, <1>3, PTL DEF Spec, StopsOnlyForEvents

-----------------------------------------------------------------------------
\* So the current time of the queue never passes a planned event.
THEOREM QueueNeverMisses == Spec => []Promise!NeverMissed
BY QueueImplementsCalendar, CalendarNeverMisses, PTL
=============================================================================
