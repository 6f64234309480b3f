--------------------------- MODULE TimeScale_proofs ---------------------------
(***************************************************************************)
(* Facts about time points and durations, for every choice of the scales,  *)
(* and about timetables: one whose times have a lower bound has an         *)
(* earliest one.                                                           *)
(***************************************************************************)
EXTENDS TimeScale, Timetable, WellFoundedInduction, TLAPS

-----------------------------------------------------------------------------
(* Least elements                                                          *)

\* Every nonempty set of naturals has a least element.
LEMMA LeastNatural ==
    ASSUME NEW S, S \subseteq Nat, S # {}
    PROVE  \E m \in S : \A n \in S : m <= n
<1> DEFINE R == {ss \in Nat \X Nat : ss[1] < ss[2]}
<1>1. IsWellFoundedOn(R, Nat)
  BY NatLessThanWellFounded DEF OpToRel
<1>2. \A m, n \in Nat : m < n => <<m, n>> \in R
  OBVIOUS
<1> HIDE DEF R
<1>3. PICK m \in S : \A n \in S : <<n, m>> \notin R
  BY <1>1, WFMin
<1>4. ASSUME NEW n \in S PROVE m <= n
  <2>1. n \in Nat /\ m \in Nat
    OBVIOUS
  <2>2. ~ (n < m)
    BY <1>2, <1>3, <2>1
  <2>3. QED
    BY <2>1, <2>2
<1>5. QED
  BY <1>4

\* So every natural-valued function on a nonempty set takes a least value.
LEMMA LeastValue ==
    ASSUME NEW S, S # {}, NEW f \in [S -> Nat]
    PROVE  \E x \in S : \A y \in S : f[x] <= f[y]
<1> DEFINE V == {f[x] : x \in S}
<1>1. V \subseteq Nat /\ V # {}
  OBVIOUS
<1>2. PICK v \in V : \A w \in V : v <= w
  BY <1>1, LeastNatural
<1>3. PICK x \in S : v = f[x]
  OBVIOUS
<1>4. QED
  BY <1>2, <1>3

-----------------------------------------------------------------------------
(* Earliest events                                                         *)

\* A timetable with integer times.
Timed(tt) == \A i \in DOMAIN tt : tt[i] \in Int

\* A timetable with events, none of them before some time, has an earliest one.
LEMMA ImminentExists ==
    ASSUME NEW tt, Timed(tt), NEW u \in Int, NoneBefore(tt, u), DOMAIN tt # {}
    PROVE  Imminent(tt) # {}
<1> DEFINE f == [i \in DOMAIN tt |-> tt[i] - u]
<1>1. f \in [DOMAIN tt -> Nat]
  BY DEF Timed, NoneBefore
<1>2. PICK i \in DOMAIN tt : \A j \in DOMAIN tt : f[i] <= f[j]
  <2> HIDE DEF f
  <2> QED  BY <1>1, LeastValue
<1>3. \A j \in DOMAIN tt : tt[i] <= tt[j]
  BY <1>2 DEF Timed
<1>4. QED
  BY <1>3 DEF Imminent

\* There is one earliest time, and it is before no event.
LEMMA EarliestTime ==
    ASSUME NEW tt, Timed(tt), NEW u \in Earliest(tt)
    PROVE  /\ u \in Int /\ Earliest(tt) = {u}
           /\ \A i \in DOMAIN tt : u <= tt[i]
           /\ \E i \in DOMAIN tt : tt[i] = u
<1>1. PICK i \in Imminent(tt) : i \in DOMAIN tt /\ tt[i] = u
  BY DEF Earliest, TimesOf
<1>2. \A j \in DOMAIN tt : u <= tt[j]
  BY <1>1 DEF Imminent
<1>3. \A j \in Imminent(tt) \cap DOMAIN tt : tt[j] = u
  BY <1>1, <1>2 DEF Imminent, Timed
<1>4. Earliest(tt) = {u}
  BY <1>1, <1>3 DEF Earliest, TimesOf
<1>5. QED
  BY <1>1, <1>2, <1>4 DEF Timed

\* The earliest time is in the table if any is.
LEMMA EarliestExists ==
    ASSUME NEW tt, Timed(tt), NEW u \in Int, NoneBefore(tt, u)
    PROVE  Earliest(tt) = {} <=> DOMAIN tt = {}
<1>1. Imminent(tt) \subseteq DOMAIN tt
  BY DEF Imminent
<1>2. QED
  BY <1>1, ImminentExists DEF Earliest, TimesOf

-----------------------------------------------------------------------------
(* Recursion                                                               *)

\* The first n + 1 values of the sequence that begins with v0 and of which each
\* value follows from the one before by a step.
ValuesUpTo(n, V, v0, step) ==
    {h \in [0 .. n -> V] : h[0] = v0 /\ \A i \in 1 .. n : h[i] = step[i - 1][h[i - 1]]}

LEMMA ValuesExist ==
    ASSUME NEW V, NEW v0 \in V, NEW step \in [Nat -> [V -> V]]
    PROVE  \A n \in Nat : ValuesUpTo(n, V, v0, step) # {}
<1> DEFINE S == {n \in Nat : ValuesUpTo(n, V, v0, step) = {}}
<1> SUFFICES ASSUME S # {} PROVE FALSE
  OBVIOUS
<1>1. PICK n \in S : \A i \in S : n <= i
  <2>1. S \subseteq Nat
    OBVIOUS
  <2>2. QED
    BY <2>1, LeastNatural
<1>2. n \in Nat /\ ValuesUpTo(n, V, v0, step) = {}
  OBVIOUS
<1>3. CASE n = 0
  <2>1. [i \in 0 .. 0 |-> v0] \in ValuesUpTo(0, V, v0, step)
    BY DEF ValuesUpTo
  <2>2. QED
    BY <1>2, <1>3, <2>1
<1>4. CASE n > 0
  <2>1. n - 1 \in Nat
    BY <1>2, <1>4
  <2>2. PICK h : h \in ValuesUpTo(n - 1, V, v0, step)
    <3>1. n - 1 \notin S
      <4> HIDE DEF S
      <4> QED  BY <1>1, <1>2, <2>1
    <3>2. QED
      BY <2>1, <3>1
  <2> DEFINE v == step[n - 1][h[n - 1]]
             g == [i \in 0 .. n |-> IF i = n THEN v ELSE h[i]]
  <2>3. h \in [0 .. n - 1 -> V] /\ h[0] = v0 /\ \A i \in 1 .. n - 1 : h[i] = step[i - 1][h[i - 1]]
    BY <2>2 DEF ValuesUpTo
  <2>4. v \in V
    BY <1>2, <1>4, <2>1, <2>3
  <2>5. g \in [0 .. n -> V]
    <3> HIDE DEF v
    <3> QED  BY <1>2, <2>3, <2>4
  <2>6. g[0] = v0
    BY <1>2, <1>4, <2>3
  <2>7. ASSUME NEW i \in 1 .. n PROVE g[i] = step[i - 1][g[i - 1]]
    <3>1. i - 1 \in 0 .. n - 1 /\ i - 1 # n
      BY <1>2
    <3>2. g[i - 1] = h[i - 1]
      <4> HIDE DEF v
      <4> QED  BY <1>2, <3>1
    <3>3. CASE i = n
      BY <1>2, <3>2, <3>3
    <3>4. CASE i # n
      <4>1. i \in 1 .. n - 1
        BY <1>2, <3>4
      <4>2. g[i] = h[i]
        BY <3>4
      <4>3. QED
        BY <2>3, <3>2, <4>1, <4>2
    <3>5. QED
      BY <3>3, <3>4
  <2>8. g \in ValuesUpTo(n, V, v0, step)
    <3> HIDE DEF g
    <3> QED  BY <2>5, <2>6, <2>7 DEF ValuesUpTo
  <2>9. QED
    BY <1>2, <2>8
<1>5. QED
  BY <1>2, <1>3, <1>4

LEMMA ValuesUnique ==
    ASSUME NEW V, NEW v0 \in V, NEW step \in [Nat -> [V -> V]],
           NEW m \in Nat, NEW n \in Nat, m <= n,
           NEW g \in ValuesUpTo(m, V, v0, step), NEW h \in ValuesUpTo(n, V, v0, step)
    PROVE  \A i \in 0 .. m : g[i] = h[i]
<1> DEFINE S == {i \in 0 .. m : g[i] # h[i]}
<1> SUFFICES ASSUME S # {} PROVE FALSE
  OBVIOUS
<1>1. PICK i \in S : \A j \in S : i <= j
  <2>1. S \subseteq Nat
    OBVIOUS
  <2>2. QED
    BY <2>1, LeastNatural
<1>2. i \in 0 .. m /\ g[i] # h[i]
  OBVIOUS
<1>3. i # 0
  BY <1>2 DEF ValuesUpTo
<1>4. i - 1 \in 0 .. m /\ i - 1 \notin S
  BY <1>1, <1>2, <1>3
<1>5. g[i - 1] = h[i - 1]
  BY <1>4
<1>6. g[i] = step[i - 1][g[i - 1]] /\ h[i] = step[i - 1][h[i - 1]]
  BY <1>2, <1>3 DEF ValuesUpTo
<1>7. QED
  BY <1>2, <1>5, <1>6

\* There is a function on the naturals with a given first value and a given step.
Iterates(f, V, v0, step) ==
    f \in [Nat -> V] /\ f[0] = v0 /\ \A n \in Nat : f[n + 1] = step[n][f[n]]

LEMMA PrimitiveRecursion ==
    ASSUME NEW V, NEW v0 \in V, NEW step \in [Nat -> [V -> V]]
    PROVE  \E f : Iterates(f, V, v0, step)
<1> DEFINE h(n) == CHOOSE g : g \in ValuesUpTo(n, V, v0, step)
           f == [n \in Nat |-> h(n)[n]]
<1>1. \A n \in Nat : h(n) \in ValuesUpTo(n, V, v0, step)
  BY ValuesExist
<1> HIDE DEF h
<1>2. f \in [Nat -> V]
  <2>1. ASSUME NEW n \in Nat PROVE h(n)[n] \in V
    BY <1>1 DEF ValuesUpTo
  <2>2. QED
    BY <2>1
<1>3. f[0] = v0
  <2>1. h(0)[0] = v0
    BY <1>1 DEF ValuesUpTo
  <2>2. QED
    BY <2>1
<1>4. ASSUME NEW n \in Nat PROVE f[n + 1] = step[n][f[n]]
  <2>1. n + 1 \in Nat /\ n <= n + 1 /\ n + 1 \in 1 .. n + 1 /\ (n + 1) - 1 = n /\ n \in 0 .. n
    OBVIOUS
  <2>2. h(n + 1) \in ValuesUpTo(n + 1, V, v0, step) /\ h(n) \in ValuesUpTo(n, V, v0, step)
    BY <1>1, <2>1
  <2>3. h(n + 1)[n + 1] = step[n][h(n + 1)[n]]
    BY <2>1, <2>2 DEF ValuesUpTo
  <2>4. \A i \in 0 .. n : h(n)[i] = h(n + 1)[i]
    <3> DEFINE k == n + 1
               hk == h(n + 1)
               hn == h(n)
    <3>1. k \in Nat /\ n <= k /\ hk \in ValuesUpTo(k, V, v0, step) /\ hn \in ValuesUpTo(n, V, v0, step)
      BY <2>1, <2>2
    <3> HIDE DEF k, hk, hn
    <3>2. \A i \in 0 .. n : hn[i] = hk[i]
      BY <3>1, ValuesUnique
    <3>3. QED
      BY <3>2 DEF hk, hn
  <2>5. QED
    BY <2>1, <2>3, <2>4
<1>5. Iterates(f, V, v0, step)
  <2> HIDE DEF f
  <2> QED  BY <1>2, <1>3, <1>4 DEF Iterates
<1>6. QED
  BY <1>5

\* A function on S that looks ahead: at s it has the value it has at to[s], as
\* long as Goes[s].  There is one when some number gets smaller on the way.
LooksAhead(f, S, Goes, to, base) ==
    f = [s \in S |-> IF Goes[s] THEN f[to[s]] ELSE base[s]]

LEMMA TailRecursion ==
    ASSUME NEW S, NEW X, NEW Goes, NEW to, NEW base \in [S -> X], NEW left \in [S -> Nat],
           \A s \in S : Goes[s] => to[s] \in S /\ left[to[s]] < left[s]
    PROVE  \E f : LooksAhead(f, S, Goes, to, base)
<1> DEFINE V == [S -> X]
           body(h) == [s \in S |-> IF Goes[s] THEN h[to[s]] ELSE base[s]]
           step == [n \in Nat |-> [h \in V |-> body(h)]]
<1>1. step \in [Nat -> [V -> V]]
  <2>1. \A h \in V : body(h) \in V
    OBVIOUS
  <2> HIDE DEF body, V
  <2>2. QED
    BY <2>1
<1>2. PICK r : Iterates(r, V, base, step)
  <2> HIDE DEF V, step
  <2>1. base \in V
    BY DEF V
  <2>2. QED
    BY <1>1, <2>1, PrimitiveRecursion
<1>3. r \in [Nat -> V] /\ \A n \in Nat : r[n + 1] = body(r[n])
  <2>1. r \in [Nat -> V] /\ \A n \in Nat : r[n + 1] = step[n][r[n]]
    BY <1>2 DEF Iterates
  <2> HIDE DEF V, body
  <2>2. \A n \in Nat : step[n][r[n]] = body(r[n])
    BY <2>1
  <2>3. QED
    BY <2>1, <2>2
<1>4. ASSUME NEW n \in Nat, NEW s \in S
      PROVE  r[n + 1][s] = IF Goes[s] THEN r[n][to[s]] ELSE base[s]
  <2>1. r[n + 1] = body(r[n])
    BY <1>3
  <2>2. QED
    BY <2>1, Zenon
\* Values no longer change once nothing can be left to go.
<1> DEFINE Stable(n) == \A s \in S : left[s] <= n => r[n + 1][s] = r[left[s] + 1][s]
           Bad == {n \in Nat : ~Stable(n)}
<1> HIDE DEF V, step, body
<1>5. Bad = {}
  <2> SUFFICES ASSUME Bad # {} PROVE FALSE
    OBVIOUS
  <2>1. PICK n \in Bad : \A m \in Bad : n <= m
    <3>1. Bad \subseteq Nat
      OBVIOUS
    <3> HIDE DEF Bad
    <3>2. QED
      BY <3>1, LeastNatural
  <2>2. n \in Nat /\ ~Stable(n) /\ \A m \in Nat : m < n => Stable(m)
    <3> HIDE DEF Stable
    <3> QED  BY <2>1
  <2>3. PICK s \in S : left[s] <= n /\ r[n + 1][s] # r[left[s] + 1][s]
    BY <2>2
  <2>4. left[s] \in Nat /\ left[s] < n
    BY <2>2, <2>3
  <2>5. /\ r[n + 1][s] = IF Goes[s] THEN r[n][to[s]] ELSE base[s]
        /\ r[left[s] + 1][s] = IF Goes[s] THEN r[left[s]][to[s]] ELSE base[s]
    BY <1>4, <2>2, <2>4
  <2>6. Goes[s] /\ r[n][to[s]] # r[left[s]][to[s]]
    BY <2>3, <2>5
  <2>7. to[s] \in S /\ left[to[s]] \in Nat /\ left[to[s]] < left[s]
    BY <2>6
  <2>8. n - 1 \in Nat /\ n - 1 < n /\ (n - 1) + 1 = n /\ left[to[s]] <= n - 1
    BY <2>2, <2>4, <2>7
  <2>9. left[s] - 1 \in Nat /\ left[s] - 1 < n /\ (left[s] - 1) + 1 = left[s]
        /\ left[to[s]] <= left[s] - 1
    BY <2>2, <2>4, <2>7
  <2>10. r[n][to[s]] = r[left[to[s]] + 1][to[s]]
    <3>1. Stable(n - 1)
      BY <2>2, <2>8
    <3>2. r[(n - 1) + 1][to[s]] = r[left[to[s]] + 1][to[s]]
      BY <2>7, <2>8, <3>1
    <3>3. QED
      BY <2>8, <3>2
  <2>11. r[left[s]][to[s]] = r[left[to[s]] + 1][to[s]]
    <3>1. Stable(left[s] - 1)
      <4> HIDE DEF Stable
      <4> QED  BY <2>2, <2>9
    <3>2. r[(left[s] - 1) + 1][to[s]] = r[left[to[s]] + 1][to[s]]
      BY <2>7, <2>9, <3>1
    <3>3. QED
      BY <2>9, <3>2
  <2>12. QED
    BY <2>6, <2>10, <2>11
<1> DEFINE f == [s \in S |-> r[left[s] + 1][s]]
<1>6. ASSUME NEW s \in S PROVE f[s] = IF Goes[s] THEN f[to[s]] ELSE base[s]
  <2>1. f[s] = IF Goes[s] THEN r[left[s]][to[s]] ELSE base[s]
    BY <1>4
  <2>2. ASSUME Goes[s] PROVE r[left[s]][to[s]] = f[to[s]]
    <3>1. to[s] \in S /\ left[to[s]] \in Nat /\ left[to[s]] < left[s] /\ left[s] \in Nat
      BY <2>2
    <3>2. left[s] - 1 \in Nat /\ (left[s] - 1) + 1 = left[s] /\ left[to[s]] <= left[s] - 1
      BY <3>1
    <3>3. Stable(left[s] - 1)
      <4> HIDE DEF Stable
      <4> QED  BY <1>5, <3>2
    <3>4. r[(left[s] - 1) + 1][to[s]] = r[left[to[s]] + 1][to[s]]
      BY <3>1, <3>2, <3>3
    <3>5. QED
      BY <3>1, <3>2, <3>4
  <2>3. QED
    BY <2>1, <2>2
<1>7. LooksAhead(f, S, Goes, to, base)
  <2>1. f = [s \in S |-> f[s]]
    OBVIOUS
  <2> HIDE DEF f
  <2>2. f = [s \in S |-> IF Goes[s] THEN f[to[s]] ELSE base[s]]
    BY <1>6, <2>1
  <2>3. QED
    BY <2>2 DEF LooksAhead
<1>8. QED
  BY <1>7

-----------------------------------------------------------------------------
(* Powers of the base                                                      *)

\* The recursive definition of the powers does define them.
LEMMA PowerDef ==
    /\ power \in [Nat -> Nat \ {0}]
    /\ power[0] = 1
    /\ \A n \in Nat : power[n + 1] = Base * power[n]
<1> DEFINE V == Nat \ {0}
           step == [n \in Nat |-> [v \in V |-> Base * v]]
           Rec(g) == [n \in Nat |-> IF n = 0 THEN 1 ELSE Base * g[n - 1]]
<1>1. 1 \in V /\ step \in [Nat -> [V -> V]]
  <2>1. \A v \in V : Base * v \in V
    BY BaseAssumption
  <2> HIDE DEF V
  <2>2. step \in [Nat -> [V -> V]]
    BY <2>1
  <2>3. QED
    BY <2>2 DEF V
<1>2. PICK f : Iterates(f, V, 1, step)
  <2> HIDE DEF V, step
  <2> QED  BY <1>1, PrimitiveRecursion
<1>3. f \in [Nat -> V] /\ f[0] = 1 /\ \A n \in Nat : f[n + 1] = Base * f[n]
  BY <1>2 DEF Iterates
<1>4. f = Rec(f)
  <2>1. ASSUME NEW n \in Nat PROVE f[n] = Rec(f)[n]
    <3>1. CASE n = 0
      BY <1>3, <3>1
    <3>2. CASE n > 0
      <4>1. n - 1 \in Nat /\ n # 0 /\ (n - 1) + 1 = n
        BY <3>2
      <4>2. f[(n - 1) + 1] = Base * f[n - 1]
        BY <1>3, <4>1
      <4>3. QED
        BY <4>1, <4>2
    <3>3. QED
      BY <3>1, <3>2
  <2>2. f = [n \in Nat |-> f[n]]
    <3> HIDE DEF V
    <3> QED  BY <1>3
  <2>3. QED
    BY <2>1, <2>2
<1>5. power = CHOOSE g : g = Rec(g)
  BY DEF power
<1>6. power = Rec(power)
  <2> HIDE DEF Rec
  <2> QED  BY <1>4, <1>5
<1>7. power[0] = 1 /\ \A n \in Nat : n # 0 => power[n] = Base * power[n - 1]
  <2>1. \A n \in Nat : power[n] = Rec(power)[n]
    BY <1>6
  <2>2. QED
    BY <2>1
<1>8. \A n \in Nat : power[n + 1] = Base * power[n]
  <2>1. \A n \in Nat : n + 1 \in Nat /\ n + 1 # 0 /\ (n + 1) - 1 = n
    OBVIOUS
  <2>2. QED
    BY <1>7, <2>1
<1>9. \A n \in Nat : power[n] \in Nat \ {0}
  <2> DEFINE S == {n \in Nat : power[n] \notin Nat \ {0}}
  <2> SUFFICES ASSUME S # {} PROVE FALSE
    OBVIOUS
  <2>1. PICK n \in S : \A i \in S : n <= i
    <3>1. S \subseteq Nat
      OBVIOUS
    <3>2. QED
      BY <3>1, LeastNatural
  <2>2. n \in Nat /\ power[n] \notin Nat \ {0}
    OBVIOUS
  <2>3. n # 0
    BY <1>7, <2>2
  <2>4. n - 1 \in Nat /\ n - 1 \notin S
    BY <2>1, <2>2, <2>3
  <2>5. power[n - 1] \in Nat \ {0}
    BY <2>4
  <2>6. Base * power[n - 1] \in Nat \ {0}
    BY <2>5, BaseAssumption
  <2>7. QED
    BY <1>7, <2>2, <2>3, <2>6
<1>10. DOMAIN power = Nat /\ power = [n \in Nat |-> power[n]]
  <2>1. Rec(power) = [n \in Nat |-> Rec(power)[n]] /\ DOMAIN Rec(power) = Nat
    OBVIOUS
  <2> HIDE DEF Rec
  <2>2. QED
    BY <1>6, <2>1
<1>11. power \in [Nat -> Nat \ {0}]
  BY <1>9, <1>10
<1>12. QED
  BY <1>7, <1>8, <1>11

\* Every scale is some whole number of ticks, the next one Base times as many.
LEMMA TickPositive == \A s \in Nat : Tick(s) \in Nat \ {0}
BY PowerDef DEF Tick

LEMMA TickNext ==
    ASSUME NEW s \in Nat
    PROVE  Tick(s + 1) = Base * Tick(s)
BY PowerDef DEF Tick

LEMMA TickZero == Tick(0) = 1
BY PowerDef DEF Tick

-----------------------------------------------------------------------------
(* Division                                                                *)

\* The quotient is the number of whole units that fit.
LEMMA Quotient ==
    ASSUME NEW t \in Int, NEW k \in Nat \ {0}
    PROVE  /\ t \div k \in Int /\ t % k \in 0 .. k - 1
           /\ (t \div k) * k \in Int
           /\ t = (t \div k) * k + (t % k)
           /\ (t \div k) * k <= t /\ t < (t \div k) * k + k
OBVIOUS

LEMMA QuotientIs ==
    ASSUME NEW t \in Int, NEW k \in Nat \ {0}, NEW q \in Int,
           q * k <= t, t < q * k + k
    PROVE  t \div k = q /\ t % k = t - q * k
<1> DEFINE x == t \div k
<1>1. x \in Int /\ x * k \in Int /\ q * k \in Int /\ x * k <= t /\ t < x * k + k
  BY Quotient
<1>2. t % k = t - x * k
  BY Quotient, <1>1
<1> HIDE DEF x
<1>3. ASSUME x < q PROVE FALSE
  <2>1. (x + 1) * k <= q * k
    BY <1>1, <1>3
  <2>2. (x + 1) * k = x * k + k
    BY <1>1
  <2>3. QED
    BY <1>1, <2>1, <2>2
<1>4. ASSUME q < x PROVE FALSE
  <2>1. (q + 1) * k <= x * k
    BY <1>1, <1>4
  <2>2. (q + 1) * k = q * k + k
    BY <1>1
  <2>3. QED
    BY <1>1, <2>1, <2>2
<1>5. x = q
  BY <1>1, <1>3, <1>4
<1>6. QED
  BY <1>2, <1>5 DEF x

\* A multiple of a unit is cut to itself.
LEMMA QuotientOfMultiple ==
    ASSUME NEW k \in Nat \ {0}, NEW q \in Int
    PROVE  q * k \in Int /\ (q * k) \div k = q /\ (q * k) % k = 0
<1>1. q * k \in Int
  OBVIOUS
<1>2. QED
  BY <1>1, QuotientIs

\* Cutting keeps the order of two numbers.
LEMMA QuotientMonotone ==
    ASSUME NEW s \in Int, NEW t \in Int, s <= t, NEW k \in Nat \ {0}
    PROVE  s \div k <= t \div k
<1> DEFINE x == s \div k
           y == t \div k
<1>1. x \in Int /\ y \in Int /\ x * k \in Int /\ y * k \in Int /\ x * k <= s /\ t < y * k + k
  BY Quotient
<1> HIDE DEF x, y
<1>2. ASSUME y < x PROVE FALSE
  <2>1. (y + 1) * k <= x * k
    BY <1>1, <1>2
  <2>2. (y + 1) * k = y * k + k
    BY <1>1
  <2>3. QED
    BY <1>1, <2>1, <2>2
<1>3. x <= y
  BY <1>1, <1>2
<1>4. QED
  BY <1>3 DEF x, y

\* Of a number larger by m there are at most m units more.
LEMMA QuotientSlow ==
    ASSUME NEW x \in Int, NEW m \in Nat, NEW k \in Nat \ {0}
    PROVE  (x + m) \div k <= x \div k + m
<1> DEFINE y == x \div k
           z == (x + m) \div k
<1>1. y \in Int /\ y * k \in Int /\ x < y * k + k
  BY Quotient
<1>2. z \in Int /\ z * k \in Int /\ z * k <= x + m
  <2>1. x + m \in Int
    OBVIOUS
  <2>2. QED
    BY <2>1, Quotient
<1> HIDE DEF y, z
<1>3. z <= y + m
  <2>1. ASSUME z >= y + m + 1 PROVE FALSE
    <3>1. (y + m + 1) * k <= z * k
      BY <1>1, <1>2, <2>1
    <3>2. (y + m + 1) * k = y * k + m * k + k /\ m * k >= m /\ m * k \in Int
      BY <1>1
    <3>3. QED
      BY <1>1, <1>2, <3>1, <3>2
  <2>2. QED
    BY <1>1, <1>2, <2>1
<1>4. QED
  BY <1>3 DEF y, z

\* Cutting twice is cutting once, by the product.
LEMMA QuotientTwice ==
    ASSUME NEW t \in Int, NEW a \in Nat \ {0}, NEW b \in Nat \ {0}
    PROVE  a * b \in Nat \ {0} /\ (t \div a) \div b = t \div (a * b)
<1> DEFINE x == t \div a
           y == x \div b
           k == a * b
<1>1. k \in Nat \ {0}
  OBVIOUS
<1>2. x \in Int /\ x * a \in Int /\ x * a <= t /\ t < x * a + a
  BY Quotient
<1>3. y \in Int /\ y * b \in Int /\ y * b <= x /\ x < y * b + b
  <2> HIDE DEF x
  <2> QED  BY <1>2, Quotient
<1> HIDE DEF x, y
<1>4. (y * b) * a <= x * a /\ (x + 1) * a <= (y * b + b) * a
  BY <1>2, <1>3
<1>5. (y * b) * a = y * k /\ (x + 1) * a = x * a + a /\ (y * b + b) * a = y * k + k
  BY <1>2, <1>3
<1>6. y * k \in Int
  BY <1>1, <1>3
<1> HIDE DEF k
<1>7. y * k <= t /\ t < y * k + k
  BY <1>1, <1>2, <1>4, <1>5, <1>6
<1>8. t \div k = y
  BY <1>1, <1>3, <1>7, QuotientIs
<1>9. QED
  BY <1>1, <1>8 DEF x, y, k

-----------------------------------------------------------------------------
(* Scales                                                                  *)

\* A scale is a whole number of every finer one.
LEMMA TickSum ==
    ASSUME NEW s \in Nat, NEW k \in Nat
    PROVE  Tick(s + k) = Tick(s) * Tick(k)
<1> DEFINE S == {n \in Nat : Tick(s + n) # Tick(s) * Tick(n)}
<1> SUFFICES ASSUME S # {} PROVE FALSE
  OBVIOUS
<1>1. PICK n \in S : \A i \in S : n <= i
  <2>1. S \subseteq Nat
    OBVIOUS
  <2>2. QED
    BY <2>1, LeastNatural
<1>2. n \in Nat /\ Tick(s + n) # Tick(s) * Tick(n)
  OBVIOUS
<1>3. n # 0
  BY <1>2, TickZero, TickPositive
<1>4. n - 1 \in Nat /\ n - 1 \notin S
  BY <1>1, <1>2, <1>3
<1>5. Tick(s + (n - 1)) = Tick(s) * Tick(n - 1)
  BY <1>4
<1> DEFINE x == Tick(s)
           y == Tick(n - 1)
<1>6. x \in Nat /\ y \in Nat
  BY <1>4, TickPositive
<1>7. Tick(n) = Base * y
  <2>1. (n - 1) + 1 = n
    BY <1>2
  <2>2. QED
    BY <1>4, <2>1, TickNext
<1>8. Tick(s + n) = Base * (x * y)
  <2>1. s + (n - 1) \in Nat /\ (s + (n - 1)) + 1 = s + n
    BY <1>2, <1>4
  <2>2. QED
    BY <1>5, <2>1, TickNext
<1>9. x * (Base * y) = Base * (x * y)
  <2> HIDE DEF x, y
  <2> QED  BY <1>6, BaseAssumption
<1>10. QED
  BY <1>2, <1>7, <1>8, <1>9

\* Coarser scales have longer ticks, longer than their number.
LEMMA TickGrows ==
    ASSUME NEW s \in Nat
    PROVE  s < Tick(s)
<1> DEFINE S == {n \in Nat : ~ (n < Tick(n))}
<1> SUFFICES ASSUME S # {} PROVE FALSE
  OBVIOUS
<1>1. PICK n \in S : \A i \in S : n <= i
  <2>1. S \subseteq Nat
    OBVIOUS
  <2>2. QED
    BY <2>1, LeastNatural
<1>2. n \in Nat /\ ~ (n < Tick(n))
  OBVIOUS
<1>3. n # 0
  BY <1>2, TickZero
<1>4. n - 1 \in Nat /\ n - 1 \notin S
  BY <1>1, <1>2, <1>3
<1> DEFINE x == Tick(n - 1)
<1>5. n - 1 < x /\ x \in Nat
  BY <1>4, TickPositive
<1>6. Tick(n) = Base * x
  <2>1. (n - 1) + 1 = n
    BY <1>2
  <2>2. QED
    BY <1>4, <2>1, TickNext
<1>7. Base * x >= 2 * x
  <2> HIDE DEF x
  <2> QED  BY <1>5, BaseAssumption
<1>8. QED
  <2> HIDE DEF x
  <2> QED  BY <1>2, <1>4, <1>5, <1>6, <1>7, BaseAssumption

LEMMA TickOrder ==
    ASSUME NEW s \in Nat, NEW q \in Nat, s <= q
    PROVE  /\ q - s \in Nat /\ Tick(q) = Tick(s) * Tick(q - s)
           /\ Tick(s) <= Tick(q)
<1>1. q - s \in Nat /\ s + (q - s) = q
  OBVIOUS
<1>2. Tick(q) = Tick(s) * Tick(q - s)
  BY <1>1, TickSum
<1>3. Tick(s) \in Nat \ {0} /\ Tick(q - s) \in Nat \ {0}
  BY <1>1, TickPositive
<1>4. \A x, y \in Nat \ {0} : x <= x * y
  OBVIOUS
<1>5. QED
  BY <1>1, <1>2, <1>3, <1>4

\* An epoch has at least Base phases, a whole number of times Base.
LEMMA LimitPhases ==
    /\ quantity_limit \in Nat \ {0}
    /\ quantity_limit >= Base
    /\ quantity_limit \div Base \in Nat \ {0}
    /\ quantity_limit = Base * (quantity_limit \div Base)
<1> DEFINE e == EpochScales - 1
           x == Tick(e)
<1>1. e \in Nat /\ e + 1 = EpochScales
  BY EpochScalesAssumption
<1>2. x \in Nat \ {0}
  BY <1>1, TickPositive
<1>3. quantity_limit = Base * x
  <2>1. Tick(EpochScales) = Base * x
    BY <1>1, TickNext
  <2>2. QED
    BY <2>1 DEF quantity_limit, Tick
<1> HIDE DEF x
<1>4. Base * x = x * Base /\ Base * x \in Nat \ {0} /\ Base * x >= Base
  BY <1>2, BaseAssumption
<1>5. quantity_limit \div Base = x
  BY <1>2, <1>3, <1>4, BaseAssumption, QuotientOfMultiple
<1>6. QED
  BY <1>2, <1>3, <1>4, <1>5

-----------------------------------------------------------------------------
(* Digits                                                                  *)

\* Cutting at a coarser scale is cutting what was cut at a finer one.
LEMMA CutCoarser ==
    ASSUME NEW t \in Int, NEW s \in Nat, NEW q \in Nat, s <= q
    PROVE  t \div Tick(q) = (t \div Tick(s)) \div Tick(q - s)
<1>1. q - s \in Nat /\ Tick(q) = Tick(s) * Tick(q - s)
  BY TickOrder
<1>2. Tick(s) \in Nat \ {0} /\ Tick(q - s) \in Nat \ {0}
  BY <1>1, TickPositive
<1>3. QED
  BY <1>1, <1>2, QuotientTwice

\* The digit at a scale is what the next scale cuts off.
LEMMA ScalePhase ==
    ASSUME NEW t \in Int, NEW s \in Nat
    PROVE  /\ scale_phase(t, s) \in 0 .. Base - 1
           /\ t \div Tick(s) = Base * (t \div Tick(s + 1)) + scale_phase(t, s)
<1> DEFINE x == t \div Tick(s)
<1>1. x \in Int
  BY TickPositive, Quotient
<1>2. Base \in Nat \ {0}
  BY BaseAssumption
<1>3. Tick(s + 1) = Tick(s) * Base
  <2>1. Tick(s) \in Nat
    BY TickPositive
  <2>2. Base * Tick(s) = Tick(s) * Base
    BY <1>2, <2>1
  <2>3. QED
    BY <2>2, TickNext
<1>4. x \div Base = t \div Tick(s + 1)
  <2>1. Tick(s) \in Nat \ {0}
    BY TickPositive
  <2>2. QED
    BY <1>2, <1>3, <2>1, QuotientTwice
<1>5. x % Base \in 0 .. Base - 1 /\ x = (x \div Base) * Base + (x % Base) /\ x \div Base \in Int
  <2> HIDE DEF x
  <2> QED  BY <1>1, <1>2, Quotient
<1>6. x % Base = scale_phase(t, s)
  BY DEF scale_phase
<1>7. (x \div Base) * Base = Base * (x \div Base)
  <2> HIDE DEF x
  <2> QED  BY <1>2, <1>5
<1>8. x = Base * (x \div Base) + scale_phase(t, s)
  <2> HIDE DEF x
  <2> QED  BY <1>5, <1>6, <1>7
<1>9. QED
  BY <1>4, <1>5, <1>6, <1>8

\* An epoch of a scale spans EpochScales scales.
LEMMA EpochPhase ==
    ASSUME NEW t \in Int, NEW s \in Nat
    PROVE  /\ epoch_phase(t, s) \in 0 .. quantity_limit - 1
           /\ t \div Tick(s) = quantity_limit * (t \div Tick(s + EpochScales)) + epoch_phase(t, s)
<1> DEFINE x == t \div Tick(s)
           l == quantity_limit
<1>1. x \in Int
  BY TickPositive, Quotient
<1>2. l \in Nat \ {0} /\ l = Tick(EpochScales) /\ EpochScales \in Nat
  BY LimitPhases, EpochScalesAssumption DEF quantity_limit, Tick
<1>3. x \div l = t \div Tick(s + EpochScales)
  <2>1. Tick(s + EpochScales) = Tick(s) * l
    BY <1>2, TickSum
  <2>2. Tick(s) \in Nat \ {0}
    BY TickPositive
  <2>3. QED
    BY <1>2, <2>1, <2>2, QuotientTwice
<1>4. x % l \in 0 .. l - 1 /\ x = (x \div l) * l + (x % l) /\ x \div l \in Int
  <2> HIDE DEF x, l
  <2> QED  BY <1>1, <1>2, Quotient
<1>5. x % l = epoch_phase(t, s)
  BY DEF epoch_phase
<1>6. (x \div l) * l = l * (x \div l)
  <2> HIDE DEF x, l
  <2> QED  BY <1>2, <1>4
<1>7. x = l * (x \div l) + epoch_phase(t, s)
  <2> HIDE DEF x, l
  <2> QED  BY <1>4, <1>5, <1>6
<1>8. QED
  BY <1>3, <1>4, <1>5, <1>7

\* A multiple of a scale's tick is one of every finer scale's.
LEMMA MultipleOfFiner ==
    ASSUME NEW t \in Int, NEW s \in Nat, NEW q \in Nat, s <= q, t % Tick(q) = 0
    PROVE  t % Tick(s) = 0
<1>1. q - s \in Nat /\ Tick(q) = Tick(s) * Tick(q - s)
  BY TickOrder
<1>2. Tick(s) \in Nat \ {0} /\ Tick(q - s) \in Nat \ {0} /\ Tick(q) \in Nat \ {0}
  BY <1>1, TickPositive
<1> DEFINE a == Tick(s)
           b == Tick(q - s)
           y == t \div Tick(q)
<1>3. y \in Int /\ t = y * Tick(q)
  <2>1. y \in Int /\ y * Tick(q) \in Int /\ t = y * Tick(q) + (t % Tick(q))
    BY <1>2, Quotient
  <2> HIDE DEF y
  <2>2. QED
    BY <2>1
<1> HIDE DEF y
<1>4. y * b \in Int /\ t = (y * b) * a
  <2>1. t = y * (a * b)
    BY <1>1, <1>3
  <2> HIDE DEF a, b
  <2>2. QED
    BY <1>2, <1>3, <2>1 DEF a, b
<1>5. (y * b) * a % a = 0
  <2> DEFINE z == y * b
  <2>1. z \in Int
    BY <1>4
  <2> HIDE DEF z
  <2>2. (z * a) % a = 0
    BY <1>2, <2>1, QuotientOfMultiple
  <2>3. QED
    BY <2>2 DEF z
<1>6. QED
  BY <1>4, <1>5

LEMMA MagnitudeIs ==
    ASSUME NEW t \in Int
    PROVE  Magnitude(t) \in Nat /\ -Magnitude(t) <= t /\ t <= Magnitude(t) /\ (t # 0 => Magnitude(t) # 0)
BY DEF Magnitude

\* No scale whose tick is longer divides a time point.
LEMMA ShorterThanTick ==
    ASSUME NEW t \in Int, NEW s \in Nat, Magnitude(t) < Tick(s)
    PROVE  /\ t \div Tick(s) = IF t >= 0 THEN 0 ELSE -1
           /\ t # 0 => t % Tick(s) # 0
<1>1. Tick(s) \in Nat \ {0}
  BY TickPositive
<1>2. CASE t >= 0
  <2>1. t \div Tick(s) = 0 /\ t % Tick(s) = t - 0 * Tick(s)
    <3>1. 0 * Tick(s) = 0
      BY <1>1
    <3>2. t < Tick(s)
      BY <1>2 DEF Magnitude
    <3>3. QED
      BY <1>1, <1>2, <3>1, <3>2, QuotientIs
  <2>2. QED
    BY <1>1, <1>2, <2>1
<1>3. CASE t < 0
  <2> DEFINE k == Tick(s)
  <2>1. -t < k
    BY <1>3 DEF Magnitude
  <2>2. k \in Nat \ {0}
    BY <1>1
  <2> HIDE DEF k
  <2>3. (-1) * k = -k /\ -1 \in Int
    BY <2>2
  <2>4. (-1) * k <= t /\ t < (-1) * k + k
    BY <1>3, <2>1, <2>2, <2>3
  <2>5. t \div k = -1 /\ t % k = t - (-1) * k
    BY <2>2, <2>3, <2>4, QuotientIs
  <2>6. t % k # 0
    BY <2>1, <2>2, <2>3, <2>5
  <2>7. QED
    BY <1>3, <2>5, <2>6 DEF k
<1>4. QED
  BY <1>2, <1>3

\* precision(): the scale of the finest nonzero digit, of which there is one.
LEMMA PrecisionIs ==
    ASSUME NEW t \in Int, t # 0
    PROVE  /\ precision(t) \in Nat
           /\ t % Tick(precision(t)) = 0
           /\ t % Tick(precision(t) + 1) # 0
           /\ \A s \in Nat : t % Tick(s) = 0 <=> s <= precision(t)
<1> DEFINE S == {s \in Nat : t % Tick(s + 1) # 0}
           m == Magnitude(t)
<1>1. m \in Nat /\ m + 1 \in Nat
  BY MagnitudeIs
<1>2. m \in S
  <2>1. m < Tick(m + 1)
    <3>1. m + 1 < Tick(m + 1) /\ Tick(m + 1) \in Nat
      BY <1>1, TickGrows, TickPositive
    <3>2. QED
      BY <1>1, <3>1
  <2>2. QED
    BY <1>1, <2>1, ShorterThanTick
<1>3. PICK n \in S : \A i \in S : n <= i
  <2>1. S \subseteq Nat
    OBVIOUS
  <2> HIDE DEF S
  <2>2. QED
    BY <1>2, <2>1, LeastNatural
<1>4. n \in Nat /\ t % Tick(n + 1) # 0 /\ n <= m
  BY <1>2, <1>3
<1>5. t % Tick(n) = 0
  <2>1. CASE n = 0
    BY <2>1, TickZero
  <2>2. CASE n # 0
    <3>1. n - 1 \in Nat /\ n - 1 \notin S /\ (n - 1) + 1 = n
      BY <1>3, <1>4, <2>2
    <3>2. QED
      BY <3>1
  <2>3. QED
    BY <2>1, <2>2
<1> HIDE DEF S
<1> DEFINE p == precision(t)
<1>6. p \in 0 .. m /\ t % Tick(p) = 0 /\ t % Tick(p + 1) # 0
  <2>1. n \in 0 .. m
    BY <1>1, <1>4
  <2>2. \E s \in 0 .. m : t % Tick(s) = 0 /\ t % Tick(s + 1) # 0
    BY <1>4, <1>5, <2>1
  <2>3. p = CHOOSE s \in 0 .. m : t % Tick(s) = 0 /\ t % Tick(s + 1) # 0
    BY DEF precision
  <2>4. QED
    BY <2>2, <2>3
<1>7. p \in Nat
  BY <1>1, <1>6
<1>8. ASSUME NEW s \in Nat PROVE t % Tick(s) = 0 <=> s <= p
  <2>1. CASE s <= p
    BY <1>6, <1>7, <2>1, MultipleOfFiner
  <2>2. CASE ~ (s <= p)
    <3>1. p + 1 \in Nat /\ p + 1 <= s
      BY <1>7, <2>2
    <3>2. QED
      BY <1>6, <2>2, <3>1, MultipleOfFiner
  <2>3. QED
    BY <2>1, <2>2
<1>9. QED
  BY <1>6, <1>7, <1>8

\* From the scale above the coarsest nonzero digit on there are no digits, but
\* for those of the complement of a negative time point.
LEMMA ScaleAbove ==
    ASSUME NEW t \in Int
    PROVE  /\ scale_above(t) \in Nat
           /\ \A s \in Nat : scale_above(t) <= s => Magnitude(t) < Tick(s)
<1> DEFINE S == {s \in Nat : Magnitude(t) < Tick(s)}
           m == Magnitude(t)
           a == scale_above(t)
<1>1. m \in Nat
  BY MagnitudeIs
<1>2. a \in Nat /\ m < Tick(a)
  <2>1. CASE t = 0
    BY <2>1, TickPositive, UnitAssumption, MaxScaleAssumption DEF scale_above, Magnitude
  <2>2. CASE t # 0
    <3>1. m \in S
      BY <1>1, TickGrows
    <3>2. PICK n \in S : \A i \in S : n <= i
      <4>1. S \subseteq Nat
        OBVIOUS
      <4> HIDE DEF S
      <4>2. QED
        BY <3>1, <4>1, LeastNatural
    <3>3. n \in Nat /\ m < Tick(n) /\ n <= m
      BY <3>1, <3>2
    <3>4. n # 0
      BY <1>1, <2>2, <3>3, TickZero, MagnitudeIs
    <3>5. Tick(n - 1) <= m
      <4>1. n - 1 \in Nat /\ n - 1 \notin S
        BY <3>2, <3>3, <3>4
      <4>2. Tick(n - 1) \in Nat
        BY <4>1, TickPositive
      <4>3. QED
        BY <1>1, <4>1, <4>2
    <3>6. \E s \in 1 .. m : Tick(s - 1) <= m /\ m < Tick(s)
      <4>1. n \in 1 .. m
        BY <1>1, <3>3, <3>4
      <4>2. QED
        BY <3>3, <3>5, <4>1
    <3>7. a = CHOOSE s \in 1 .. m : Tick(s - 1) <= m /\ m < Tick(s)
      BY <2>2 DEF scale_above
    <3>8. a \in 1 .. m /\ m < Tick(a)
      BY <3>6, <3>7
    <3>9. QED
      BY <1>1, <3>8
  <2>3. QED
    BY <2>1, <2>2
<1>3. ASSUME NEW s \in Nat, a <= s PROVE m < Tick(s)
  <2>1. Tick(a) <= Tick(s) /\ Tick(a) \in Nat /\ Tick(s) \in Nat
    BY <1>2, <1>3, TickOrder, TickPositive
  <2>2. QED
    BY <1>1, <1>2, <2>1
<1>4. QED
  BY <1>2, <1>3

-----------------------------------------------------------------------------
(* Gaps                                                                    *)

\* How many units fit, between bounds.
LEMMA QuotientBetween ==
    ASSUME NEW x \in Int, NEW k \in Nat \ {0}, NEW l \in Nat, k <= x, x < l * k
    PROVE  x \div k \in 1 .. l - 1
<1> DEFINE y == x \div k
<1>1. y \in Int /\ y * k \in Int /\ y * k <= x /\ x < y * k + k
  BY Quotient
<1> HIDE DEF y
<1>2. ASSUME y <= 0 PROVE FALSE
  <2>1. y * k <= 0 * k /\ 0 * k = 0
    BY <1>1, <1>2
  <2>2. QED
    BY <1>1, <2>1
<1>3. ASSUME y >= l PROVE FALSE
  <2>1. l * k <= y * k /\ l * k \in Int
    BY <1>1, <1>3
  <2>2. QED
    BY <1>1, <2>1
<1>4. y \in 1 .. l - 1
  BY <1>1, <1>2, <1>3
<1>5. QED
  BY <1>4 DEF y

\* Rounding to a scale more than half of whose tick there is gives at least one.
LEMMA RoundedBetween ==
    ASSUME NEW n \in Nat, NEW p \in Nat, NEW l \in Nat,
           Tick(p) <= 2 * n, 2 * n + Tick(p) < 2 * l * Tick(p)
    PROVE  Rounded(n, p) \in 1 .. l - 1
<1> DEFINE k == Tick(p)
           x == 2 * n + k
<1>1. k \in Nat \ {0}
  BY TickPositive
<1>2. Rounded(n, p) = x \div (2 * k)
  <2>1. Magnitude(n) = n
    BY DEF Magnitude
  <2>2. QED
    BY <2>1 DEF Rounded, Signed
<1>3. 2 * k \in Nat \ {0} /\ x \in Int /\ 2 * k <= x
  <2> HIDE DEF k
  <2> QED  BY <1>1 DEF k
<1>4. x < l * (2 * k)
  <2> HIDE DEF k
  <2>1. 2 * l * k = l * (2 * k)
    BY <1>1
  <2>2. QED
    BY <2>1 DEF k
<1>5. x \div (2 * k) \in 1 .. l - 1
  <2> DEFINE j == 2 * k
  <2>1. j \in Nat \ {0} /\ j <= x /\ x < l * j
    BY <1>3, <1>4
  <2> HIDE DEF x, j
  <2>2. x \div j \in 1 .. l - 1
    BY <1>3, <2>1, QuotientBetween
  <2>3. QED
    BY <2>2 DEF j
<1>6. QED
  BY <1>2, <1>5

\* Rounding leads beyond no whole number of units, up or down.
LEMMA RoundedNatural ==
    ASSUME NEW n \in Nat, NEW p \in Nat, NEW b \in Int
    PROVE  /\ Rounded(n, p) \in Int
           /\ n <= b * Tick(p) => Rounded(n, p) <= b
           /\ b * Tick(p) <= n => b <= Rounded(n, p)
<1> DEFINE k == Tick(p)
           j == 2 * k
           x == 2 * n + k
           y == x \div j
<1>1. k \in Nat \ {0} /\ j \in Nat \ {0} /\ x \in Nat
  BY TickPositive
<1>2. Rounded(n, p) = y
  BY DEF Rounded, Signed, Magnitude
<1>3. y \in Int /\ y * j \in Int /\ y * j <= x /\ x < y * j + j
  <2> HIDE DEF j, x
  <2> QED  BY <1>1, Quotient
<1> HIDE DEF y
<1>4. b * k \in Int /\ b * j = 2 * (b * k)
  <2> HIDE DEF k
  <2> QED  BY <1>1
<1>5. ASSUME n <= b * k, b < y PROVE FALSE
  <2>1. (b + 1) * j <= y * j /\ (b + 1) * j = b * j + j
    <3> HIDE DEF j
    <3> QED  BY <1>1, <1>3, <1>5
  <2> HIDE DEF k
  <2>2. QED
    BY <1>1, <1>3, <1>4, <1>5, <2>1
<1>6. ASSUME b * k <= n, y < b PROVE FALSE
  <2>1. (y + 1) * j <= b * j /\ (y + 1) * j = y * j + j
    <3> HIDE DEF j
    <3> QED  BY <1>1, <1>3, <1>6
  <2> HIDE DEF k
  <2>2. QED
    BY <1>1, <1>3, <1>4, <1>6, <2>1
<1>7. QED
  <2>1. n <= b * k => y <= b
    BY <1>3, <1>5
  <2>2. b * k <= n => b <= y
    BY <1>3, <1>6
  <2>3. QED
    BY <1>2, <1>3, <2>1, <2>2

LEMMA RoundedBounds ==
    ASSUME NEW n \in Int, NEW p \in Nat, NEW b \in Int
    PROVE  /\ Rounded(n, p) \in Int
           /\ n <= b * Tick(p) => Rounded(n, p) <= b
           /\ b * Tick(p) <= n => b <= Rounded(n, p)
<1>1. CASE n >= 0
  BY <1>1, RoundedNatural
<1>2. CASE n < 0
  <2> DEFINE i == -n
             k == Tick(p)
             y == Rounded(i, p)
  <2>1. i \in Nat /\ i > 0 /\ k \in Nat /\ -b \in Int
    BY <1>2, TickPositive
  <2>2. Rounded(n, p) = -y
    <3>1. Magnitude(i) = i /\ Magnitude(n) = i
      BY <1>2, <2>1 DEF Magnitude
    <3>2. ~(i < 0)
      BY <2>1
    <3>3. QED
      BY <1>2, <3>1, <3>2 DEF Rounded, Signed
  <2>3. /\ y \in Int
        /\ i <= (-b) * k => y <= -b
        /\ (-b) * k <= i => -b <= y
    <3> HIDE DEF i
    <3> QED  BY <2>1, RoundedNatural
  <2>4. (-b) * k = -(b * k) /\ b * k \in Int
    <3> HIDE DEF k
    <3> QED  BY <2>1
  <2> HIDE DEF y, k
  <2>5. /\ -y \in Int
        /\ n <= b * k => -y <= b
        /\ b * k <= n => b <= -y
    BY <2>3, <2>4
  <2>6. QED
    BY <2>2, <2>5 DEF k
<1>3. QED
  BY <1>1, <1>2

\* n ticks are rounded to the scale q, the first from p on that holds them.
FirstFit(n, p, q) ==
    /\ q \in Nat /\ p <= q
    /\ q # p => ~(2 * n + Tick(q - 1) < 2 * quantity_limit * Tick(q - 1))

\* Of at least half a tick there is a duration of some coarser precision, and
\* it is not zero.
LEMMA Autoscaled ==
    ASSUME NEW n \in Nat, NEW p \in Nat, Tick(p) <= 2 * n
    PROVE  /\ autoscaled(n, p) \in [m : 1 .. quantity_limit - 1, p : Nat]
           /\ \E q : FirstFit(n, p, q) /\ autoscaled(n, p) = Duration(Rounded(n, q), q)
<1> DEFINE l == quantity_limit
           Fits(s) == 2 * Magnitude(n) + Tick(s) < 2 * l * Tick(s)
           q == CHOOSE s \in p .. p + Magnitude(n) : Fits(s) /\ (s = p \/ ~Fits(s - 1))
<1>1. autoscaled(n, p) = Duration(Rounded(n, q), q)
  BY DEF autoscaled
<1>2. Magnitude(n) = n
  BY DEF Magnitude
<1>3. l \in Nat /\ l >= Base /\ Base \in Nat /\ Base >= 2
  BY LimitPhases, BaseAssumption
<1>4. Fits(p + n)
  <2> DEFINE k == Tick(p + n)
  <2>1. n < Tick(n) /\ Tick(n) <= k /\ Tick(n) \in Nat /\ k \in Nat
    <3>1. p + n \in Nat /\ n <= p + n
      OBVIOUS
    <3>2. QED
      BY <3>1, TickGrows, TickOrder, TickPositive
  <2> HIDE DEF k, l
  <2>2. 4 * k <= 2 * l * k
    <3>1. 4 <= 2 * l
      BY <1>3
    <3>2. QED
      BY <1>3, <2>1, <3>1
  <2>3. 2 * n + k < 4 * k
    BY <2>1
  <2>4. 2 * l * k \in Int
    BY <1>3, <2>1
  <2>5. QED
    BY <1>2, <2>1, <2>2, <2>3, <2>4 DEF k
<1>5. q \in p .. p + n /\ Fits(q) /\ (q = p \/ ~Fits(q - 1))
  <2> DEFINE S == {s \in p .. p + n : Fits(s)}
  <2> HIDE DEF Fits
  <2>1. p + n \in S
    BY <1>4
  <2>2. PICK s \in S : \A i \in S : s <= i
    <3>1. S \subseteq Nat
      OBVIOUS
    <3> HIDE DEF S
    <3>2. QED
      BY <2>1, <3>1, LeastNatural
  <2>3. s \in p .. p + n /\ Fits(s)
    OBVIOUS
  <2>4. s = p \/ ~Fits(s - 1)
    <3>1. CASE s # p
      <4>1. s - 1 \in p .. p + n /\ s - 1 \notin S
        BY <2>2, <2>3, <3>1
      <4>2. QED
        BY <4>1
    <3>2. QED
      BY <3>1
  <2>5. \E i \in p .. p + n : Fits(i) /\ (i = p \/ ~Fits(i - 1))
    BY <2>3, <2>4
  <2>6. q = CHOOSE i \in p .. p + n : Fits(i) /\ (i = p \/ ~Fits(i - 1))
    BY <1>2
  <2> HIDE DEF q
  <2>7. QED
    BY <2>5, <2>6
<1> HIDE DEF q
<1>6. q \in Nat
  BY <1>5
<1>7. Tick(q) <= 2 * n
  <2>1. CASE q = p
    BY <2>1
  <2>2. CASE q # p
    <3> DEFINE k == Tick(q - 1)
    <3>1. q - 1 \in Nat /\ (q - 1) + 1 = q
      BY <1>5, <1>6, <2>2
    <3>2. k \in Nat \ {0} /\ Tick(q) = Base * k
      <4>1. Tick((q - 1) + 1) = Base * k
        BY <3>1, TickNext
      <4>2. QED
        BY <3>1, <4>1, TickPositive
    <3>3. ~ (2 * n + k < 2 * l * k)
      BY <1>2, <1>5, <2>2
    <3> HIDE DEF k, l
    <3>4. 2 * l * k >= 2 * (Base * k) /\ 2 * l * k \in Int /\ Base * k \in Int
      <4>1. l * k >= Base * k /\ l * k \in Int /\ Base * k \in Int
        BY <1>3, <3>2
      <4>2. 2 * l * k = 2 * (l * k)
        BY <1>3, <3>2
      <4>3. QED
        BY <4>1, <4>2
    <3>5. Base * k >= k
      BY <1>3, <3>2
    <3>6. QED
      BY <3>2, <3>3, <3>4, <3>5
  <2>3. QED
    BY <2>1, <2>2
<1>8. Rounded(n, q) \in 1 .. l - 1
  <2>1. 2 * n + Tick(q) < 2 * l * Tick(q)
    BY <1>2, <1>5
  <2> HIDE DEF l
  <2>2. QED
    BY <1>3, <1>6, <1>7, <2>1, RoundedBetween
<1>9. FirstFit(n, p, q)
  BY <1>2, <1>5, <1>6 DEF FirstFit
<1>10. QED
  BY <1>1, <1>6, <1>8, <1>9 DEF Duration

-----------------------------------------------------------------------------
(* The digits too fine for a duration                                      *)

\* What a duration keeps of n ticks below the scale s.
KeptTicks(n, s) ==
    IF s - EpochScales <= 0 THEN n
    ELSE Rounded(n, s - EpochScales) * Tick(s - EpochScales)

\* Sums at a scale do not leave bounds that are whole at that scale.
LEMMA KeptBounds ==
    ASSUME NEW n \in Int, NEW s \in Nat, NEW b \in Int
    PROVE  /\ KeptTicks(n, s + 1) \in Int
           /\ n <= b * Tick(s) => KeptTicks(n, s + 1) <= b * Tick(s)
           /\ b * Tick(s) <= n => b * Tick(s) <= KeptTicks(n, s + 1)
<1> DEFINE p == s + 1 - EpochScales
<1>1. p \in Int /\ p <= s
  BY EpochScalesAssumption
<1>2. CASE p <= 0
  <2>1. KeptTicks(n, s + 1) = n
    BY <1>2, EpochScalesAssumption DEF KeptTicks
  <2>2. QED
    BY <2>1
<1>3. CASE p > 0
  <2> DEFINE k == Tick(p)
             c == b * Tick(s - p)
             y == Rounded(n, p)
  <2>1. p \in Nat /\ s - p \in Nat /\ k \in Nat \ {0} /\ Tick(s - p) \in Nat /\ Tick(s) \in Nat
        /\ Tick(s) = k * Tick(s - p)
    <3>1. p \in Nat /\ s - p \in Nat
      BY <1>1, <1>3
    <3> HIDE DEF p
    <3>2. QED
      BY <1>1, <3>1, TickOrder, TickPositive
  <2>2. KeptTicks(n, s + 1) = y * k
    <3>1. ~(p <= 0)
      BY <1>1, <1>3
    <3> QED  BY <3>1, EpochScalesAssumption DEF KeptTicks
  <2> HIDE DEF p
  <2>3. c \in Int /\ b * Tick(s) = c * k
    BY <2>1
  <2> HIDE DEF c
  <2>4. /\ y \in Int
        /\ n <= c * k => y <= c
        /\ c * k <= n => c <= y
    BY <2>1, <2>3, RoundedBounds
  <2> HIDE DEF y, k
  <2>5. /\ y * k \in Int /\ c * k \in Int
        /\ y <= c => y * k <= c * k
        /\ c <= y => c * k <= y * k
    BY <2>1, <2>3, <2>4
  <2>6. QED
    BY <2>2, <2>3, <2>4, <2>5
<1>4. QED
  BY <1>1, <1>2, <1>3

\* The recursive definition of their sum does define it.
LEMMA SmallPart ==
    ASSUME NEW t \in Int, NEW r \in Int
    PROVE  /\ small_part(t, r, 0) = 0
           /\ \A s \in Nat :
                  /\ small_part(t, r, s) \in Int
                  /\ small_part(t, r, s + 1) =
                       KeptTicks(small_part(t, r, s)
                              + (scale_phase(t, s) - scale_phase(r, s)) * Tick(s), s + 1)
<1> DEFINE ph(i) == (scale_phase(t, i) - scale_phase(r, i)) * Tick(i)
           step == [i \in Nat |-> [v \in Int |-> KeptTicks(v + ph(i), i + 1)]]
           Rec(g) == [i \in Nat |->
                        IF i = 0 THEN 0
                        ELSE LET n == g[i - 1]
                                      + (scale_phase(t, i - 1) - scale_phase(r, i - 1)) * Tick(i - 1)
                                 p == i - EpochScales
                             IN  IF p <= 0 THEN n ELSE Rounded(n, p) * Tick(p)]
           h == CHOOSE g : g = Rec(g)
<1>1. \A i \in Nat : ph(i) \in Int
  <2>1. ASSUME NEW i \in Nat PROVE ph(i) \in Int
    <3>1. scale_phase(t, i) \in Int /\ scale_phase(r, i) \in Int /\ Tick(i) \in Int
      BY ScalePhase, TickPositive, BaseAssumption
    <3>2. QED
      BY <3>1
  <2>2. QED
    BY <2>1
<1>3. \A g : \A i \in Nat : Rec(g)[i] = IF i = 0 THEN 0 ELSE KeptTicks(g[i - 1] + ph(i - 1), i)
  BY DEF KeptTicks
<1> HIDE DEF ph
<1>4. step \in [Nat -> [Int -> Int]]
  <2>1. ASSUME NEW i \in Nat, NEW v \in Int PROVE KeptTicks(v + ph(i), i + 1) \in Int
    <3>1. v + ph(i) \in Int
      BY <1>1
    <3>2. QED
      BY <3>1, KeptBounds
  <2>2. QED
    BY <2>1
<1>5. PICK f : Iterates(f, Int, 0, step)
  <2> DEFINE V == Int
  <2>1. 0 \in V /\ step \in [Nat -> [V -> V]]
    BY <1>4
  <2> HIDE DEF step, V
  <2>2. \E f : Iterates(f, V, 0, step)
    BY <2>1, PrimitiveRecursion
  <2>3. QED
    BY <2>2 DEF V
<1>6. f \in [Nat -> Int] /\ f[0] = 0 /\ \A i \in Nat : f[i + 1] = KeptTicks(f[i] + ph(i), i + 1)
  BY <1>5 DEF Iterates
<1>7. f = Rec(f)
  <2>1. ASSUME NEW i \in Nat PROVE f[i] = Rec(f)[i]
    <3>1. CASE i = 0
      BY <1>3, <1>6, <3>1
    <3>2. CASE i # 0
      <4>1. i - 1 \in Nat /\ (i - 1) + 1 = i
        BY <3>2
      <4>2. f[(i - 1) + 1] = KeptTicks(f[i - 1] + ph(i - 1), (i - 1) + 1)
        BY <1>6, <4>1
      <4> HIDE DEF Rec
      <4>3. QED
        BY <1>3, <3>2, <4>1, <4>2
    <3>3. QED
      BY <3>1, <3>2
  <2>2. f = [i \in Nat |-> f[i]] /\ Rec(f) = [i \in Nat |-> Rec(f)[i]]
    BY <1>6
  <2> HIDE DEF Rec
  <2>3. QED
    BY <2>1, <2>2
<1>8. h = Rec(h)
  <2> HIDE DEF Rec
  <2> QED  BY <1>7
<1>9. \A s : small_part(t, r, s) = h[s]
  BY DEF small_part
<1> HIDE DEF h
<1>10. h[0] = 0 /\ \A i \in Nat : h[i + 1] = KeptTicks(h[i] + ph(i), i + 1)
  <2>1. \A i \in Nat : h[i] = Rec(h)[i]
    BY <1>8
  <2> HIDE DEF Rec
  <2>2. h[0] = 0
    BY <1>3, <2>1
  <2>3. ASSUME NEW i \in Nat PROVE h[i + 1] = KeptTicks(h[i] + ph(i), i + 1)
    <3>1. i + 1 \in Nat /\ i + 1 # 0 /\ (i + 1) - 1 = i
      OBVIOUS
    <3>2. QED
      BY <1>3, <2>1, <3>1
  <2>4. QED
    BY <2>2, <2>3
<1>11. \A s \in Nat : h[s] \in Int
  <2> DEFINE S == {s \in Nat : h[s] \notin Int}
  <2> SUFFICES ASSUME S # {} PROVE FALSE
    OBVIOUS
  <2>1. PICK n \in S : \A i \in S : n <= i
    <3>1. S \subseteq Nat
      OBVIOUS
    <3>2. QED
      BY <3>1, LeastNatural
  <2>2. n \in Nat /\ h[n] \notin Int /\ n # 0
    BY <1>10
  <2>3. n - 1 \in Nat /\ n - 1 \notin S /\ (n - 1) + 1 = n
    BY <2>1, <2>2
  <2>4. h[n - 1] + ph(n - 1) \in Int
    BY <1>1, <2>3
  <2>5. KeptTicks(h[n - 1] + ph(n - 1), (n - 1) + 1) \in Int
    BY <2>3, <2>4, KeptBounds
  <2>6. QED
    BY <1>10, <2>2, <2>3, <2>5
<1>12. QED
  BY <1>9, <1>10, <1>11 DEF ph

\* That sum is within one tick of the scale above, and on the same side of zero
\* as the difference of what the two time points have below it.
SmallSound(t, r, s) ==
    /\ small_part(t, r, s) \in -Tick(s) .. Tick(s)
    /\ t % Tick(s) <= r % Tick(s) => small_part(t, r, s) <= 0
    /\ r % Tick(s) <= t % Tick(s) => small_part(t, r, s) >= 0

LEMMA SmallStep ==
    ASSUME NEW t \in Int, NEW r \in Int, NEW s \in Nat, SmallSound(t, r, s)
    PROVE  SmallSound(t, r, s + 1)
<1> DEFINE T == Tick(s)
           K == Tick(s + 1)
           a == t % T
           c == r % T
           x == scale_phase(t, s)
           y == scale_phase(r, s)
           v == small_part(t, r, s)
           d == x - y
           n == v + d * T
           w == small_part(t, r, s + 1)
<1>1. T \in Nat \ {0} /\ K = Base * T /\ Base \in Nat /\ Base > 1 /\ K \in Nat \ {0}
  BY TickPositive, TickNext, BaseAssumption
<1>2. /\ a \in 0 .. T - 1 /\ c \in 0 .. T - 1 /\ x \in 0 .. Base - 1 /\ y \in 0 .. Base - 1
      /\ t % K = x * T + a /\ r % K = y * T + c
  <2>1. ASSUME NEW u \in Int
        PROVE  /\ u % T \in 0 .. T - 1 /\ scale_phase(u, s) \in 0 .. Base - 1
               /\ u % K = scale_phase(u, s) * T + (u % T)
    <3> DEFINE g == u \div T
               e == u \div K
               z == scale_phase(u, s)
    <3>1. g \in Int /\ u % T \in 0 .. T - 1 /\ u = g * T + (u % T)
      BY <1>1, Quotient
    <3>2. e \in Int /\ e * K \in Int /\ u = e * K + (u % K) /\ u % K \in 0 .. K - 1
      BY <1>1, Quotient
    <3>3. z \in 0 .. Base - 1 /\ g = Base * e + z
      BY ScalePhase
    <3> HIDE DEF g, e, z, T, K
    <3>4. g * T = e * K + z * T
      BY <1>1, <3>2, <3>3
    <3>5. z * T \in Int
      BY <1>1, <3>3
    <3>6. u % K = z * T + (u % T)
      BY <1>1, <3>1, <3>2, <3>4, <3>5
    <3>7. QED
      BY <3>1, <3>3, <3>6 DEF z
  <2>2. QED
    BY <2>1
<1>3. v \in -T .. T /\ (a <= c => v <= 0) /\ (c <= a => v >= 0)
  BY DEF SmallSound
<1>4. w = KeptTicks(n, s + 1) /\ v \in Int
  BY SmallPart
<1> HIDE DEF T, K, a, c, x, y, v, w
<1>5. d \in 1 - Base .. Base - 1 /\ d * T \in Int /\ n \in Int
  BY <1>1, <1>2, <1>3
<1>6. x * T \in Int /\ y * T \in Int /\ x * T - y * T = d * T
  BY <1>1, <1>2
<1>7. /\ d >= 1 => d * T >= T
      /\ d <= -1 => d * T <= -T
      /\ d = 0 => d * T = 0
  <2> HIDE DEF n
  <2>1. d >= 1 => d * T >= 1 * T
    BY <1>1, <1>5
  <2>2. d <= -1 => d * T <= (-1) * T
    BY <1>1, <1>5
  <2>3. QED
    BY <1>1, <2>1, <2>2
\* The scale above bounds the sum.
<1>8. w \in -K .. K
  <2>1. (Base - 1) * T = K - T /\ (1 - Base) * T = T - K
    BY <1>1
  <2>2. d * T <= (Base - 1) * T /\ (1 - Base) * T <= d * T
    <3> HIDE DEF d
    <3> QED  BY <1>1, <1>5
  <2>3. n <= K /\ -K <= n
    BY <1>1, <1>3, <1>5, <2>1, <2>2
  <2>4. Base * T = K /\ (-Base) * T = -K /\ -Base \in Int
    BY <1>1
  <2> HIDE DEF n
  <2>5. KeptTicks(n, s + 1) \in Int /\ KeptTicks(n, s + 1) <= Base * T /\ (-Base) * T <= KeptTicks(n, s + 1)
    <3>1. n <= Base * Tick(s) /\ (-Base) * Tick(s) <= n
      BY <2>3, <2>4 DEF T
    <3>2. KeptTicks(n, s + 1) \in Int /\ KeptTicks(n, s + 1) <= Base * Tick(s)
      BY <1>1, <1>5, <3>1, KeptBounds
    <3>3. (-Base) * Tick(s) <= KeptTicks(n, s + 1)
      BY <1>5, <2>4, <3>1, KeptBounds
    <3>4. QED
      BY <3>2, <3>3 DEF T
  <2>6. QED
    BY <1>1, <1>4, <2>4, <2>5
\* The difference at the scale itself decides on the side, unless there is none.
<1>9. ASSUME t % K <= r % K PROVE w <= 0
  <2>1. d <= 0
    BY <1>1, <1>2, <1>5, <1>6, <1>7, <1>9
  <2>2. n <= 0
    <3>1. CASE d = 0
      BY <1>1, <1>2, <1>3, <1>5, <1>6, <1>7, <1>9, <3>1
    <3>2. CASE d <= -1
      BY <1>1, <1>3, <1>5, <1>7, <3>2
    <3>3. QED
      BY <1>5, <2>1, <3>1, <3>2
  <2> HIDE DEF n
  <2>3. n <= 0 * Tick(s) /\ 0 * Tick(s) = 0
    BY <1>1, <2>2 DEF T
  <2>4. KeptTicks(n, s + 1) <= 0
    BY <1>5, <2>3, KeptBounds
  <2>5. QED
    BY <1>4, <2>4
<1>10. ASSUME r % K <= t % K PROVE w >= 0
  <2>1. d >= 0
    BY <1>1, <1>2, <1>5, <1>6, <1>7, <1>10
  <2>2. n >= 0
    <3>1. CASE d = 0
      BY <1>1, <1>2, <1>3, <1>5, <1>6, <1>7, <1>10, <3>1
    <3>2. CASE d >= 1
      BY <1>1, <1>3, <1>5, <1>7, <3>2
    <3>3. QED
      BY <1>5, <2>1, <3>1, <3>2
  <2> HIDE DEF n
  <2>3. 0 * Tick(s) <= n /\ 0 * Tick(s) = 0
    BY <1>1, <1>5, <2>2 DEF T
  <2>4. KeptTicks(n, s + 1) \in Int /\ 0 <= KeptTicks(n, s + 1)
    BY <1>5, <2>3, KeptBounds
  <2>5. QED
    BY <1>4, <2>4
<1>11. QED
  BY <1>8, <1>9, <1>10 DEF SmallSound, K, w

LEMMA SmallBounds ==
    ASSUME NEW t \in Int, NEW r \in Int, NEW s \in Nat
    PROVE  SmallSound(t, r, s)
<1> DEFINE S == {i \in Nat : ~SmallSound(t, r, i)}
<1> SUFFICES ASSUME S # {} PROVE FALSE
  OBVIOUS
<1>1. PICK n \in S : \A i \in S : n <= i
  <2>1. S \subseteq Nat
    OBVIOUS
  <2>2. QED
    BY <2>1, LeastNatural
<1>2. SmallSound(t, r, 0)
  <2>1. small_part(t, r, 0) = 0
    BY SmallPart
  <2>2. QED
    BY <2>1, TickZero DEF SmallSound
<1>3. n \in Nat /\ ~SmallSound(t, r, n) /\ n # 0
  BY <1>2
<1>4. n - 1 \in Nat /\ n - 1 \notin S /\ (n - 1) + 1 = n
  BY <1>1, <1>3
<1>5. SmallSound(t, r, n - 1)
  BY <1>4
<1>6. QED
  BY <1>3, <1>4, <1>5, SmallStep

\* The finest digit of a time point is below the scale above its coarsest.
LEMMA PrecisionBelow ==
    ASSUME NEW t \in Int
    PROVE  /\ precision(t) \in Nat /\ precision(t) <= scale_above(t)
           /\ \A s \in Nat : s <= precision(t) => t % Tick(s) = 0
<1>1. CASE t = 0
  <2>1. precision(t) \in Nat /\ precision(t) <= scale_above(t)
    BY <1>1, UnitAssumption, MaxScaleAssumption DEF precision, scale_above
  <2>2. ASSUME NEW s \in Nat PROVE t % Tick(s) = 0
    <3>1. Tick(s) \in Nat \ {0}
      BY TickPositive
    <3>2. (0 * Tick(s)) % Tick(s) = 0 /\ 0 * Tick(s) = 0
      BY <3>1, QuotientOfMultiple
    <3>3. QED
      BY <1>1, <3>2
  <2>3. QED
    BY <2>1, <2>2
<1>2. CASE t # 0
  <2>1. precision(t) \in Nat /\ \A s \in Nat : t % Tick(s) = 0 <=> s <= precision(t)
    BY <1>2, PrecisionIs
  <2>2. ASSUME scale_above(t) < precision(t) PROVE FALSE
    <3>1. scale_above(t) \in Nat /\ Magnitude(t) < Tick(scale_above(t))
      BY ScaleAbove
    <3>2. t % Tick(scale_above(t)) # 0
      BY <1>2, <3>1, ShorterThanTick
    <3>3. QED
      BY <2>1, <2>2, <3>1, <3>2
  <2>3. QED
    BY <2>1, <2>2, ScaleAbove
<1>3. QED
  BY <1>1, <1>2

\* How many units of a scale apart two time points are, cut to it.
Apart(t, r, s) == (t \div Tick(s)) - (r \div Tick(s))

\* A duration no longer holds their difference at the scale below s, or needs
\* no finer scale than s.
CutAt(t, r, s) ==
    \/ t % Tick(s) = 0 /\ r % Tick(s) = 0
    \/ s # 0 /\ Apart(t, r, s - 1) >= quantity_limit

\* The difference as far as the digits finer than s are known: what gap rounds.
Nearly(t, r, s) == Apart(t, r, s) * Tick(s) + small_part(t, r, s)

\* It is beyond no whole number of units that the difference is not beyond.
LEMMA NearlyAtMost ==
    ASSUME NEW t \in Int, NEW r \in Int, NEW s \in Nat
    PROVE  /\ Nearly(t, r, s) \in Int
           /\ \A b \in Int : t - r <= b * Tick(s) => Nearly(t, r, s) <= b * Tick(s)
<1> DEFINE K == Tick(s)
           x == t \div K
           y == r \div K
           i == t % K
           j == r % K
           A == Apart(t, r, s)
           v == small_part(t, r, s)
<1>1. K \in Nat \ {0}
  BY TickPositive
<1>2. x \in Int /\ i \in 0 .. K - 1 /\ t = x * K + i /\ y \in Int /\ j \in 0 .. K - 1 /\ r = y * K + j
  <2> HIDE DEF K
  <2> QED  BY <1>1, Quotient
<1>3. A = x - y
  BY DEF Apart
<1>4. v \in -K .. K /\ (i <= j => v <= 0)
  BY SmallBounds DEF SmallSound
<1>5. Nearly(t, r, s) = A * K + v
  BY DEF Nearly
<1> HIDE DEF K, x, y, i, j, A, v
<1>6. A \in Int /\ A * K \in Int /\ t - r = A * K + (i - j)
  BY <1>1, <1>2, <1>3
<1>7. ASSUME NEW b \in Int, t - r <= b * K PROVE A * K + v <= b * K
  <2>1. b * K \in Int /\ (b + 1) * K = b * K + K /\ (b - 1) * K = b * K - K
    BY <1>1
  <2>2. CASE i <= j
    <3>1. ASSUME A >= b + 1 PROVE FALSE
      <4>1. A * K >= (b + 1) * K
        BY <1>1, <1>6, <3>1
      <4>2. QED
        BY <1>1, <1>2, <1>6, <1>7, <2>1, <4>1
    <3>2. A <= b
      BY <1>6, <3>1
    <3>3. A * K <= b * K
      BY <1>1, <1>6, <3>2
    <3>4. QED
      BY <1>1, <1>4, <1>6, <2>1, <2>2, <3>3
  <2>3. CASE j < i
    <3>1. ASSUME A >= b PROVE FALSE
      <4>1. A * K >= b * K
        BY <1>1, <1>6, <3>1
      <4>2. QED
        BY <1>1, <1>2, <1>6, <1>7, <2>1, <2>3, <4>1
    <3>2. A <= b - 1
      BY <1>6, <3>1
    <3>3. A * K <= (b - 1) * K
      BY <1>1, <1>6, <3>2
    <3>4. QED
      BY <1>1, <1>4, <1>6, <2>1, <3>3
  <2>4. QED
    BY <1>1, <1>2, <2>2, <2>3
<1>8. A * K + v \in Int
  BY <1>1, <1>4, <1>6
<1>9. QED
  BY <1>5, <1>7, <1>8 DEF K

\* And where the digits are cut it is at least half a unit.
LEMMA NearlyForward ==
    ASSUME NEW t \in Int, NEW r \in Int, r < t, NEW s \in Nat, CutAt(t, r, s)
    PROVE  Tick(s) <= 2 * Nearly(t, r, s)
<1> DEFINE K == Tick(s)
           A == Apart(t, r, s)
           v == small_part(t, r, s)
<1>1. K \in Nat \ {0} /\ Base \in Nat /\ Base >= 2 /\ quantity_limit \in Nat /\ quantity_limit >= Base
  BY TickPositive, BaseAssumption, LimitPhases
<1>2. t \div K \in Int /\ r \div K \in Int /\ A = (t \div K) - (r \div K) /\ A \in Int
  <2>1. t \div K \in Int /\ r \div K \in Int
    <3> HIDE DEF K
    <3> QED  BY <1>1, Quotient
  <2>2. QED
    BY <2>1 DEF Apart
<1>3. CASE t % K = 0 /\ r % K = 0
  <2>1. v = 0
    <3>1. SmallSound(t, r, s)
      BY SmallBounds
    <3>2. v \in -K .. K /\ (t % K <= r % K => v <= 0) /\ (r % K <= t % K => v >= 0)
      BY <3>1, Zenon DEF SmallSound
    <3> HIDE DEF K, v
    <3>3. QED
      BY <1>1, <1>3, <3>2
  <2>2. t = (t \div K) * K /\ r = (r \div K) * K
    <3>1. /\ (t \div K) * K \in Int /\ t = (t \div K) * K + (t % K)
          /\ (r \div K) * K \in Int /\ r = (r \div K) * K + (r % K)
      <4> HIDE DEF K
      <4> QED  BY <1>1, Quotient
    <3> DEFINE x == t \div K
               y == r \div K
    <3> HIDE DEF x, y
    <3>2. QED
      BY <1>3, <3>1 DEF x, y
  <2> DEFINE x == t \div K
             y == r \div K
  <2>3. x \in Int /\ y \in Int /\ t = x * K /\ r = y * K /\ A = x - y
    BY <1>2, <2>2
  <2> HIDE DEF x, y, K, A, v
  <2>4. A >= 1
    <3>1. ASSUME x <= y PROVE FALSE
      <4>1. x * K <= y * K
        BY <1>1, <2>3, <3>1
      <4>2. QED
        BY <2>3, <4>1
    <3>2. QED
      BY <2>3, <3>1
  <2>5. A * K >= 1 * K /\ A * K \in Int
    BY <1>1, <1>2, <2>4
  <2>6. QED
    BY <1>1, <2>1, <2>5 DEF Nearly, A, K, v
<1>4. CASE s # 0 /\ Apart(t, r, s - 1) >= quantity_limit
  <2> DEFINE p == s - 1
             T == Tick(p)
             x == scale_phase(t, p)
             y == scale_phase(r, p)
             u == small_part(t, r, p)
             B == Apart(t, r, p)
  <2>1. p \in Nat /\ p + 1 = s
    BY <1>4
  <2> HIDE DEF p
  <2>2. T \in Nat \ {0} /\ K = Base * T
    BY <2>1, TickPositive, TickNext
  <2>3. x \in Int /\ y \in Int /\ B = Base * A + (x - y) /\ B \in Int
    <3>1. /\ x \in Int /\ t \div T = Base * (t \div K) + x
          /\ y \in Int /\ r \div T = Base * (r \div K) + y
      <4>1. ASSUME NEW i \in Int
            PROVE  scale_phase(i, p) \in Int /\ i \div T = Base * (i \div K) + scale_phase(i, p)
        <5>1. /\ scale_phase(i, p) \in 0 .. Base - 1
              /\ i \div Tick(p) = Base * (i \div Tick(p + 1)) + scale_phase(i, p)
          BY <2>1, ScalePhase
        <5>2. scale_phase(i, p) \in Int
          BY <1>1, <5>1
        <5>3. QED
          BY <2>1, <5>1, <5>2
      <4>2. QED
        BY <4>1
    <3>2. B = (t \div T) - (r \div T)
      BY DEF Apart
    <3> DEFINE g == t \div K
               h == r \div K
    <3>3. g \in Int /\ h \in Int /\ A = g - h
      BY <1>2
    <3> HIDE DEF g, h, x, y, B, A, K, T
    <3>4. B = (Base * g + x) - (Base * h + y)
      BY <3>1, <3>2 DEF g, h
    <3>5. QED
      BY <1>1, <3>1, <3>3, <3>4
  <2>4. u \in -T .. T
    BY <2>1, SmallBounds DEF SmallSound
  <2>5. v = KeptTicks(u + (x - y) * T, p + 1)
    BY <2>1, SmallPart
  <2>6. B >= quantity_limit
    BY <1>4 DEF p
  <2> HIDE DEF K, A, v, T, x, y, u, B
  <2>7. (x - y) * T \in Int /\ (x - y - 1) * T = (x - y) * T - T /\ x - y - 1 \in Int
    BY <2>2, <2>3
  <2>8. v \in Int /\ (x - y - 1) * T <= v
    <3> DEFINE n == u + (x - y) * T
               b == x - y - 1
    <3>1. n \in Int /\ b \in Int /\ b * T <= n
      BY <2>2, <2>4, <2>7
    <3>2. v = KeptTicks(n, p + 1)
      BY <2>5
    <3> HIDE DEF n, b
    <3>3. KeptTicks(n, p + 1) \in Int /\ b * T <= KeptTicks(n, p + 1)
      BY <2>1, <3>1, KeptBounds DEF T
    <3>4. QED
      BY <3>2, <3>3 DEF b
  <2>9. A * K + (x - y - 1) * T = (B - 1) * T
    <3>1. A * K = (Base * A) * T
      BY <1>1, <1>2, <2>2
    <3> DEFINE a == Base * A
               d == x - y
    <3>2. a \in Int /\ d \in Int /\ B = a + d
      BY <1>1, <1>2, <2>3
    <3> HIDE DEF a, d
    <3>3. a * T + (d - 1) * T = (B - 1) * T
      BY <2>2, <3>2
    <3>4. QED
      BY <3>1, <3>3 DEF a, d
  <2>10. (B - 1) * T >= (Base - 1) * T /\ (B - 1) * T \in Int
    <3>1. B - 1 >= Base - 1
      BY <1>1, <2>3, <2>6
    <3>2. QED
      BY <1>1, <2>2, <2>3, <3>1
  <2>11. (Base - 1) * T = K - T /\ 2 * T <= K
    <3>1. Base * T >= 2 * T
      BY <1>1, <2>2
    <3>2. QED
      BY <1>1, <2>2, <3>1
  <2>12. A * K \in Int
    BY <1>1, <1>2
  <2>13. 2 * (A * K + v) >= K
    BY <1>1, <2>2, <2>7, <2>8, <2>9, <2>10, <2>11, <2>12
  <2>14. QED
    BY <2>13 DEF Nearly, A, K, v
<1>5. QED
  BY <1>3, <1>4 DEF CutAt

\* What is nearly the difference is rounded twice: to n units of the scale cut,
\* the finest digit of both unless there are too many units of the scale below
\* it, and to the scale q.
GapParts(t, r, cut, q, n) ==
    /\ cut \in Nat /\ n \in Nat /\ CutAt(t, r, cut)
    /\ \A b \in Int : t - r <= b * Tick(cut) => n <= b
    /\ FirstFit(n * Tick(cut), cut, q)
    /\ gap(t, r) = Duration(Rounded(n * Tick(cut), q), q)

\* time_point::gap: some time ahead there is always a finite duration that is
\* not zero, so that a loop of advances makes progress.
LEMMA GapForward ==
    ASSUME NEW t \in Int, NEW r \in Int, r < t
    PROVE  /\ gap(t, r) \in [m : 1 .. quantity_limit - 1, p : Nat]
           /\ \E cut, q, n : GapParts(t, r, cut, q, n)
<1> DEFINE l == quantity_limit
           f == IF precision(t) < precision(r) THEN precision(t) ELSE precision(r)
           c == IF scale_above(t) < scale_above(r) THEN scale_above(r) ELSE scale_above(t)
           Above(s) == Apart(t, r, s)
           Held(s) == \E k \in 0 .. c - s : Above(s) % Tick(k) = 0 /\ Above(s) \div Tick(k) < l
           cut == CHOOSE s \in f .. c : (\A q \in s .. c : Held(q)) /\ (s = f \/ ~Held(s - 1))
<1>1. gap(t, r) = autoscaled(Rounded(Nearly(t, r, cut), cut) * Tick(cut), cut)
  BY DEF gap, Nearly, Apart
<1>2. l \in Nat /\ l >= Base /\ Base \in Nat /\ Base >= 2
  BY LimitPhases, BaseAssumption
<1>3. f \in Nat /\ c \in Nat /\ f <= c /\ t % Tick(f) = 0 /\ r % Tick(f) = 0
      /\ scale_above(t) <= c /\ scale_above(r) <= c
  BY PrecisionBelow, ScaleAbove
<1> HIDE DEF l, f, c
<1>4. \A s \in Nat : Above(s) \in Int
  <2>1. ASSUME NEW s \in Nat PROVE t \div Tick(s) \in Int /\ r \div Tick(s) \in Int
    BY TickPositive, Quotient
  <2>2. QED
    BY <2>1 DEF Apart
<1>5. \A s \in Nat : s <= c /\ Above(s) < l => Held(s)
  <2> HIDE DEF Above
  <2>1. \A x \in Int : x \div 1 = x /\ x % 1 = 0
    OBVIOUS
  <2>2. ASSUME NEW s \in Nat, s <= c, Above(s) < l PROVE Held(s)
    <3>1. 0 \in 0 .. c - s
      BY <1>3, <2>2
    <3>2. Above(s) % Tick(0) = 0 /\ Above(s) \div Tick(0) = Above(s)
      BY <1>4, <2>1, TickZero
    <3>3. QED
      BY <2>2, <3>1, <3>2
  <2>3. QED
    BY <2>2
<1>6. Held(c)
  <2>1. Magnitude(t) < Tick(c) /\ Magnitude(r) < Tick(c)
    BY <1>3, ScaleAbove
  <2>2. /\ t \div Tick(c) = IF t >= 0 THEN 0 ELSE -1
        /\ r \div Tick(c) = IF r >= 0 THEN 0 ELSE -1
    BY <1>3, <2>1, ShorterThanTick
  <2>3. Above(c) < l
    BY <1>2, <2>2 DEF Apart
  <2>4. QED
    BY <1>3, <1>5, <2>3
<1>7. /\ cut \in f .. c
      /\ cut = f \/ ~Held(cut - 1)
  <2> HIDE DEF Held
  <2> DEFINE S == {s \in f .. c : \A q \in s .. c : Held(q)}
  <2>1. c \in S
    <3>1. c \in f .. c /\ \A q \in c .. c : q = c
      BY <1>3
    <3>2. QED
      BY <1>6, <3>1
  <2>2. PICK s \in S : \A i \in S : s <= i
    <3>1. S \subseteq Nat
      BY <1>3
    <3> HIDE DEF S
    <3>2. QED
      BY <2>1, <3>1, LeastNatural
  <2>3. s \in f .. c /\ \A q \in s .. c : Held(q)
    OBVIOUS
  <2>4. s = f \/ ~Held(s - 1)
    <3>1. ASSUME s # f, Held(s - 1) PROVE FALSE
      <4>1. s - 1 \in f .. c
        BY <1>3, <2>3, <3>1
      <4>2. \A q \in s - 1 .. c : q = s - 1 \/ q \in s .. c
        BY <1>3, <2>3
      <4>3. s - 1 \in S
        BY <2>3, <3>1, <4>1, <4>2
      <4>4. QED
        BY <1>3, <2>2, <2>3, <4>3
    <3>2. QED
      BY <3>1
  <2>5. \E i \in f .. c : (\A q \in i .. c : Held(q)) /\ (i = f \/ ~Held(i - 1))
    BY <2>3, <2>4
  <2>6. QED
    BY <2>5
<1> HIDE DEF cut, Held
<1> DEFINE K == Tick(cut)
           d == Nearly(t, r, cut)
<1>8. cut \in Nat /\ K \in Nat \ {0}
  BY <1>3, <1>7, TickPositive
<1>9. CutAt(t, r, cut)
  <2>1. CASE cut = f
    BY <1>3, <2>1 DEF CutAt
  <2>2. CASE cut # f
    <3>1. cut - 1 \in Nat /\ cut - 1 <= c
      BY <1>3, <1>7, <2>2
    <3>2. ~(Above(cut - 1) < l) /\ Above(cut - 1) \in Int
      BY <1>4, <1>5, <1>7, <2>2, <3>1
    <3>3. cut # 0 /\ Apart(t, r, cut - 1) >= quantity_limit
      BY <1>2, <3>1, <3>2 DEF l
    <3>4. QED
      BY <3>3 DEF CutAt
  <2>3. QED
    BY <2>1, <2>2
<1>10. d \in Nat /\ K <= 2 * d /\ \A b \in Int : t - r <= b * K => d <= b * K
  <2>1. d \in Int /\ \A b \in Int : t - r <= b * K => d <= b * K
    BY <1>8, NearlyAtMost
  <2>2. K <= 2 * d
    BY <1>8, <1>9, NearlyForward
  <2> HIDE DEF K, d
  <2>3. QED
    BY <1>8, <2>1, <2>2
<1> DEFINE n == Rounded(d, cut)
<1>11. n \in Nat \ {0} /\ \A b \in Int : t - r <= b * K => n <= b
  <2> DEFINE b == 2 * d + 1
  <2>1. b \in Nat
    BY <1>10
  <2>2. 2 * d + K < 2 * b * K
    <3> HIDE DEF K, d
    <3>1. 2 * b * K = 4 * (d * K) + 2 * K
      BY <1>8, <1>10
    <3>2. d * K >= d /\ d * K \in Int
      BY <1>8, <1>10
    <3>3. QED
      BY <1>8, <1>10, <3>1, <3>2
  <2> HIDE DEF b, d
  <2>3. n \in 1 .. b - 1
    BY <1>8, <1>10, <2>1, <2>2, RoundedBetween
  <2>4. \A i \in Int : t - r <= i * K => n <= i
    BY <1>8, <1>10, RoundedBounds
  <2> HIDE DEF n
  <2>5. QED
    BY <2>1, <2>3, <2>4
<1> HIDE DEF n
<1>12. n * K \in Nat /\ K <= 2 * (n * K)
  <2> HIDE DEF K
  <2>1. n * K >= K
    BY <1>8, <1>11
  <2>2. QED
    BY <1>8, <1>11, <2>1
<1>13. /\ autoscaled(n * K, cut) \in [m : 1 .. quantity_limit - 1, p : Nat]
       /\ \E q : FirstFit(n * K, cut, q) /\ autoscaled(n * K, cut) = Duration(Rounded(n * K, q), q)
  BY <1>8, <1>12, Autoscaled
<1>14. PICK q : FirstFit(n * K, cut, q) /\ autoscaled(n * K, cut) = Duration(Rounded(n * K, q), q)
  BY <1>13
<1>15. gap(t, r) = autoscaled(n * K, cut)
  BY <1>1 DEF n
<1>16. GapParts(t, r, cut, q, n)
  BY <1>8, <1>9, <1>11, <1>14, <1>15 DEF GapParts
<1>17. QED
  BY <1>13, <1>15, <1>16

-----------------------------------------------------------------------------
(* Advancing                                                               *)

\* time_point.cpp, Floor: dropping the digits finer than a precision gives an
\* integer, at most one tick of that precision in the past.
LEMMA FloorBounds ==
    ASSUME NEW t \in Int, NEW p \in Nat
    PROVE  /\ Floor(t, p) \in Int
           /\ Floor(t, p) <= t
           /\ t < Floor(t, p) + Tick(p)
BY TickPositive, Quotient DEF Floor

\* time_point::advance, whose result may lose digits: still it never moves
\* into the past, and it moves into the future unless the duration is zero.
LEMMA AdvanceForward ==
    ASSUME NEW t \in Int, NEW dt \in [m : Nat, p : Nat]
    PROVE  /\ advance(t, dt) \in Int
           /\ t <= advance(t, dt)
           /\ dt.m # 0 => t < advance(t, dt)
<1> DEFINE k == Tick(dt.p)
<1>1. k \in Nat \ {0} /\ dt.m \in Nat /\ dt.p \in Nat
  BY TickPositive
<1>2. Floor(t, dt.p) \in Int /\ t < Floor(t, dt.p) + k
  BY <1>1, FloorBounds
<1> HIDE DEF k
<1>3. CASE dt.m = 0
  BY <1>3 DEF advance
<1>4. CASE dt.m # 0
  <2>1. dt.m * k \in Int /\ dt.m * k >= k
    BY <1>1, <1>4
  <2>2. advance(t, dt) = Floor(t, dt.p) + dt.m * k
    BY <1>4 DEF advance, k
  <2>3. QED
    BY <1>1, <1>2, <2>1, <2>2
<1>5. QED
  BY <1>3, <1>4

\* So advancing by the gap to a later time moves forward, perhaps beyond it.
LEMMA GapStep ==
    ASSUME NEW t \in Int, NEW c \in Int, c < t
    PROVE  /\ gap(t, c) \in [m : Nat, p : Nat] /\ finite(gap(t, c))
           /\ advance(c, gap(t, c)) \in Int
           /\ c < advance(c, gap(t, c))
<1> DEFINE dt == gap(t, c)
<1>1. dt \in [m : 1 .. quantity_limit - 1, p : Nat]
  BY GapForward
<1>2. quantity_limit \in Nat
  BY LimitPhases
<1> HIDE DEF dt
<1>3. dt \in [m : Nat, p : Nat] /\ finite(dt) /\ dt.m # 0
  BY <1>1, <1>2 DEF finite
<1>4. advance(c, dt) \in Int /\ c < advance(c, dt)
  BY <1>3, AdvanceForward
<1>5. QED
  BY <1>3, <1>4 DEF dt

LEMMA ApartLater ==
    ASSUME NEW r \in Int, NEW t \in Int, NEW u \in Int, r <= t, t <= u, NEW s \in Nat
    PROVE  Apart(t, r, s) \in Nat /\ Apart(u, r, s) \in Nat /\ Apart(t, r, s) <= Apart(u, r, s)
<1> DEFINE k == Tick(s)
           x == r \div k
           y == t \div k
           z == u \div k
<1>1. k \in Nat \ {0}
  BY TickPositive
<1>2. x \in Int /\ y \in Int /\ z \in Int /\ x <= y /\ y <= z
  BY <1>1, Quotient, QuotientMonotone
<1> HIDE DEF x, y, z
<1>3. y - x \in Nat /\ z - x \in Nat /\ y - x <= z - x
  BY <1>2
<1>4. QED
  BY <1>3 DEF Apart, x, y, z

\* Counted in coarser units, two time points are not further apart.
LEMMA ApartCoarser ==
    ASSUME NEW r \in Int, NEW t \in Int, r <= t, NEW p \in Nat, NEW q \in Nat, p <= q
    PROVE  Apart(t, r, q) <= Apart(t, r, p)
<1> DEFINE k == Tick(q - p)
           x == r \div Tick(p)
           y == t \div Tick(p)
<1>1. k \in Nat \ {0} /\ Tick(p) \in Nat \ {0} /\ Tick(q) \in Nat \ {0}
  BY TickPositive, TickOrder
<1>2. r \div Tick(q) = x \div k /\ t \div Tick(q) = y \div k
  BY CutCoarser
<1>3. x \in Int /\ y \in Int /\ x <= y
  BY <1>1, Quotient, QuotientMonotone
<1> HIDE DEF x, y, k
<1>4. x \div k \in Int /\ y \div k \in Int /\ x \div k <= y \div k
  BY <1>1, <1>3, Quotient, QuotientMonotone
<1>5. y - x \in Nat /\ x + (y - x) = y
  BY <1>3
<1>6. y \div k <= x \div k + (y - x)
  BY <1>1, <1>3, <1>5, QuotientSlow
<1>7. y \div k - x \div k <= y - x
  BY <1>3, <1>4, <1>6
<1>8. QED
  BY <1>2, <1>7 DEF x, y, Apart

\* Rounding does not lead beyond a whole number of units that is not exceeded.
LEMMA RoundedAtMost ==
    ASSUME NEW n \in Nat, NEW p \in Nat, NEW b \in Nat, n <= b * Tick(p)
    PROVE  Rounded(n, p) \in Nat /\ Rounded(n, p) <= b /\ Rounded(n, p) * Tick(p) \in Nat
           /\ Rounded(n, p) * Tick(p) <= b * Tick(p)
<1> DEFINE k == Tick(p)
           y == Rounded(n, p)
<1>1. k \in Nat \ {0} /\ 0 * k <= n
  BY TickPositive
<1>2. y \in Int /\ y <= b /\ 0 <= y
  BY <1>1, RoundedBounds
<1> HIDE DEF k, y
<1>3. y * k \in Nat /\ y * k <= b * k
  BY <1>1, <1>2
<1>4. QED
  BY <1>2, <1>3 DEF k, y

\* The gap to t does not lead past a time from t on that a duration reaches: so
\* it leads beyond t only where no duration reaches t.
LEMMA GapWithin ==
    ASSUME NEW t \in Int, NEW r \in Int, r < t, NEW u \in Int, t <= u,
           NEW p \in Nat, u % Tick(p) = 0, Apart(u, r, p) < quantity_limit
    PROVE  advance(r, gap(t, r)) <= u
<1> DEFINE l == quantity_limit
<1>1. l \in Nat
  BY LimitPhases
<1>2. PICK cut, q, w : GapParts(t, r, cut, q, w)
  BY GapForward
<1> DEFINE n == w * Tick(cut)
           m == Rounded(n, q)
<1>3. /\ cut \in Nat /\ q \in Nat /\ cut <= q /\ gap(t, r) = Duration(m, q)
      /\ w \in Nat /\ \A b \in Int : t - r <= b * Tick(cut) => w <= b
      /\ \/ t % Tick(cut) = 0
         \/ cut # 0 /\ Apart(t, r, cut - 1) >= l
      /\ q # cut => ~(2 * n + Tick(q - 1) < 2 * l * Tick(q - 1))
  BY <1>2 DEF GapParts, FirstFit, CutAt
<1> HIDE DEF m, n
\* It is enough to look at a scale that the difference is cut to.
<1>4. PICK v \in Int, s \in Nat :
          t <= v /\ v <= u /\ cut <= s /\ v % Tick(s) = 0 /\ Apart(v, r, s) < l
  <2>1. CASE cut <= p
    BY <1>3, <2>1
  <2>2. CASE p < cut
    <3>1. ASSUME NEW i \in Nat, p <= i PROVE Apart(t, r, i) < l /\ Apart(t, r, i) \in Nat
      <4>1. /\ Apart(t, r, p) \in Nat /\ Apart(u, r, p) \in Nat
            /\ Apart(t, r, p) <= Apart(u, r, p) /\ Apart(t, r, i) \in Nat
        <5>1. r <= t
          OBVIOUS
        <5>2. /\ Apart(t, r, p) \in Nat /\ Apart(u, r, p) \in Nat
              /\ Apart(t, r, p) <= Apart(u, r, p)
          BY <5>1, ApartLater, Zenon
        <5>3. Apart(t, r, i) \in Nat
          BY <5>1, ApartLater, Zenon
        <5>4. QED
          BY <5>2, <5>3
      <4>2. Apart(t, r, i) <= Apart(t, r, p)
        BY <3>1, ApartCoarser
      <4>3. QED
        BY <1>1, <4>1, <4>2
    <3>2. ~(cut # 0 /\ Apart(t, r, cut - 1) >= l)
      <4>1. ASSUME cut # 0 PROVE Apart(t, r, cut - 1) < l /\ Apart(t, r, cut - 1) \in Nat
        <5>1. cut - 1 \in Nat /\ p <= cut - 1
          BY <1>3, <2>2, <4>1
        <5>2. QED
          BY <3>1, <5>1
      <4>2. QED
        BY <1>1, <4>1
    <3>3. t % Tick(cut) = 0 /\ Apart(t, r, cut) < l
      BY <1>3, <2>2, <3>1, <3>2
    <3>4. QED
      BY <1>3, <3>3
  <2>3. QED
    BY <1>3, <2>1, <2>2
\* Both roundings stay within the way to that time from the digits kept of r.
<1>5. ASSUME NEW i \in Nat, i <= s
      PROVE  \E b \in Nat : v - Floor(r, i) = b * Tick(i) /\ b = Apart(v, r, i)
  <2> DEFINE k == Tick(i)
             x == r \div k
             y == v \div k
  <2>1. k \in Nat \ {0} /\ v % k = 0
    BY <1>4, <1>5, MultipleOfFiner, TickPositive
  <2>2. x \in Int /\ y \in Int /\ x * k \in Int /\ y * k \in Int /\ v = y * k + (v % k) /\ x <= y
    <3>1. r <= v
      BY <1>4
    <3> HIDE DEF k
    <3>2. QED
      BY <2>1, <3>1, Quotient, QuotientMonotone
  <2>3. Floor(r, i) = x * k
    BY DEF Floor
  <2> DEFINE b == y - x
  <2>4. b \in Nat /\ v - x * k = b * k
    <3> HIDE DEF x, y, k
    <3> QED  BY <2>1, <2>2
  <2>5. b = Apart(v, r, i)
    BY DEF Apart
  <2> HIDE DEF b, k
  <2>6. QED
    BY <2>3, <2>4, <2>5 DEF k
<1>6. ASSUME NEW i \in Nat, cut <= i, i <= s
      PROVE  n \in Nat /\ n <= v - Floor(r, i)
  <2>1. PICK b \in Nat : v - Floor(r, i) = b * Tick(i)
    BY <1>5, <1>6
  <2> DEFINE c == b * Tick(i - cut)
  <2>2. c \in Nat /\ b * Tick(i) = c * Tick(cut)
    <3>1. Tick(i) = Tick(cut) * Tick(i - cut) /\ Tick(cut) \in Nat /\ Tick(i - cut) \in Nat
      BY <1>3, <1>6, TickOrder, TickPositive
    <3>2. QED
      BY <3>1
  <2> HIDE DEF c
  <2>3. t - r \in Nat /\ t - r <= c * Tick(cut)
    <3>1. Floor(r, i) <= r /\ Floor(r, i) \in Int
      BY FloorBounds
    <3>2. QED
      BY <1>4, <2>1, <2>2, <3>1
  <2>4. n \in Nat /\ n <= c * Tick(cut)
    <3>1. w <= c /\ Tick(cut) \in Nat
      BY <1>3, <2>2, <2>3, TickPositive
    <3> DEFINE k == Tick(cut)
    <3> HIDE DEF k
    <3>2. w * k \in Nat /\ w * k <= c * k
      BY <1>3, <2>2, <3>1 DEF k
    <3>3. QED
      BY <3>2 DEF k, n
  <2>5. QED
    BY <2>1, <2>2, <2>4
<1>7. q <= s
  <2> SUFFICES ASSUME s < q PROVE FALSE
    BY <1>3, <1>4
  <2> DEFINE K == Tick(q - 1)
             T == Tick(s)
  <2>1. q - 1 \in Nat /\ s <= q - 1 /\ q # cut
    BY <1>3, <1>4
  <2>2. T \in Nat \ {0} /\ K \in Nat \ {0} /\ T <= K
    BY <1>4, <2>1, TickPositive, TickOrder
  <2>3. PICK b \in Nat : v - Floor(r, s) = b * T /\ b = Apart(v, r, s)
    BY <1>4, <1>5
  <2>4. b < l
    BY <1>4, <2>3
  <2>5. n \in Nat /\ n <= b * T
    BY <1>4, <1>6, <2>3
  <2> HIDE DEF K, T, l
  <2>6. n <= (l - 1) * K
    <3>1. b * T <= b * K /\ b * T \in Nat /\ b * K \in Nat
      BY <2>2
    <3>2. b * K <= (l - 1) * K /\ (l - 1) * K \in Int
      BY <1>1, <2>2, <2>4
    <3>3. QED
      BY <2>5, <3>1, <3>2
  <2>7. 2 * l * K = 2 * ((l - 1) * K) + 2 * K /\ (l - 1) * K \in Int
    BY <1>1, <2>2
  <2>8. 2 * n + K < 2 * l * K
    BY <2>2, <2>5, <2>6, <2>7
  <2>9. QED
    BY <1>3, <2>1, <2>8 DEF K, l
<1>8. PICK b \in Nat : v - Floor(r, q) = b * Tick(q)
  BY <1>3, <1>5, <1>7
<1>9. m \in Nat /\ m * Tick(q) \in Nat /\ m * Tick(q) <= b * Tick(q)
  <2>1. n \in Nat /\ n <= b * Tick(q)
    BY <1>3, <1>6, <1>7, <1>8
  <2>2. QED
    BY <1>3, <2>1, RoundedAtMost DEF m
<1>10. Floor(r, q) + m * Tick(q) <= v /\ r <= v
  <2>1. Floor(r, q) \in Int
    BY <1>3, FloorBounds
  <2>2. v - Floor(r, q) \in Int
    BY <2>1
  <2>3. QED
    BY <1>4, <1>8, <1>9, <2>1, <2>2
<1>11. advance(r, gap(t, r)) <= v /\ advance(r, gap(t, r)) \in Int
  <2>1. advance(r, gap(t, r)) = IF m = 0 THEN r ELSE Floor(r, q) + m * Tick(q)
    BY <1>3 DEF advance, Duration
  <2>2. Floor(r, q) \in Int
    BY <1>3, FloorBounds
  <2>3. QED
    BY <1>9, <1>10, <2>1, <2>2
<1>12. QED
  BY <1>4, <1>11

\* Dropping digits keeps the order of two time points.
LEMMA FloorMonotone ==
    ASSUME NEW s \in Int, NEW t \in Int, s <= t, NEW p \in Nat
    PROVE  Floor(s, p) <= Floor(t, p)
<1> DEFINE k == Tick(p)
           x == s \div k
           y == t \div k
<1>1. k \in Nat \ {0}
  BY TickPositive
<1>2. x <= y /\ x \in Int /\ y \in Int
  BY <1>1, Quotient, QuotientMonotone
<1> HIDE DEF x, y, k
<1>3. x * k <= y * k
  BY <1>1, <1>2
<1>4. QED
  BY <1>3 DEF x, y, k, Floor
=============================================================================
