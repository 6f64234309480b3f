------------------------------ MODULE TimeScale ------------------------------
(***************************************************************************)
(* The arithmetic of simulated time: scale.h, quantity.h (durations) and   *)
(* time_point.cpp.  A scale is a power of Base (1000 in the code) and a    *)
(* natural number here, 0 being the finest scale of the instance.  A       *)
(* duration is a multiplier below quantity_limit and a precision.  A time  *)
(* point is held by the code as a sign and a vector of base-Base digits;   *)
(* it is the integer those digits denote, counted in ticks of scale 0, and *)
(* the digit operations of time_point are the arithmetic below.            *)
(***************************************************************************)
EXTENDS Integers

CONSTANTS
    Base,         \* the ratio of two neighbouring scales (1000)
    EpochScales,  \* how many scales one multiplier spans (5)
    MaxScale,     \* bound: the coarsest scale of the instance
    Unit          \* the scale named "unit", precision of time_point zero

ASSUME BaseAssumption == Base \in Nat /\ Base > 1
ASSUME EpochScalesAssumption == EpochScales \in Nat \ {0}
ASSUME MaxScaleAssumption == MaxScale \in Nat
ASSUME UnitAssumption == Unit \in 0 .. MaxScale

\* Base ^ n, in the form the proofs need: how many ticks of scale 0 make one
\* of scale n, and how many of one epoch make one of the next.
power[n \in Nat] == IF n = 0 THEN 1 ELSE Base * power[n - 1]
quantity_limit == power[EpochScales]
Tick(s) == power[s]

Scales == 0 .. MaxScale  \* the scales in use

Duration(m, p) == [m |-> m, p |-> p]
inf == Duration(quantity_limit, Unit)

\* The constructor of a duration: a multiplier out of range means infinity.
quantity(m, p) == IF m < quantity_limit THEN Duration(m, p) ELSE inf
finite(dt) == dt.m < quantity_limit

\* Durations compare by value, whatever their precisions.
LessEq(a, b) ==
    \/ ~finite(b)
    \/ finite(a) /\ a.m * Tick(a.p) <= b.m * Tick(b.p)

-----------------------------------------------------------------------------
(* Reading a time point digit by digit; negative ones in complement form.  *)

scale_phase(t, s) == (t \div Tick(s)) % Base
epoch_phase(t, s) == (t \div Tick(s)) % quantity_limit

Magnitude(t) == IF t < 0 THEN -t ELSE t

\* The scale of the finest nonzero digit.
precision(t) ==
    IF t = 0 THEN Unit
    ELSE CHOOSE s \in 0 .. Magnitude(t) : t % Tick(s) = 0 /\ t % Tick(s + 1) # 0

\* precision() + nscales(): the scale just above the coarsest nonzero digit.
scale_above(t) ==
    IF t = 0 THEN Unit
    ELSE CHOOSE s \in 1 .. Magnitude(t) :
            Tick(s - 1) <= Magnitude(t) /\ Magnitude(t) < Tick(s)

\* t without its digits finer than p, rounded towards the past.
Floor(t, p) == (t \div Tick(p)) * Tick(p)

\* time_point::advance: digits finer than the duration's precision are lost.
advance(t, dt) == IF dt.m = 0 THEN t ELSE Floor(t, dt.p) + dt.m * Tick(dt.p)

Signed(n, magnitude) == IF n < 0 THEN -magnitude ELSE magnitude

\* The multiplier of n ticks at scale p, halves rounded away from zero.
Rounded(n, p) == Signed(n, (2 * Magnitude(n) + Tick(p)) \div (2 * Tick(p)))

\* n ticks, a multiple of Tick(p), at the first scale from p on that holds them.
autoscaled(n, p) ==
    LET Fits(s) == 2 * Magnitude(n) + Tick(s) < 2 * quantity_limit * Tick(s)
        q == CHOOSE s \in p .. p + Magnitude(n) : Fits(s) /\ (s = p \/ ~Fits(s - 1))
    IN  Duration(Rounded(n, q), q)

\* The difference of the digits finer than s, added up from the finest on, by
\* way of durations, which keep EpochScales digits and round the others.
small_part(t, r, s) ==
    LET small[i \in Nat] ==
            IF i = 0 THEN 0
            ELSE LET n == small[i - 1] + (scale_phase(t, i - 1) - scale_phase(r, i - 1)) * Tick(i - 1)
                     p == i - EpochScales
                 IN  IF p <= 0 THEN n ELSE Rounded(n, p) * Tick(p)
    IN  small[s]

\* time_point::gap for t > r: digits are taken from the coarsest on as long as
\* a duration holds their difference, and to that the finer ones are rounded.
gap(t, r) ==
    LET Finest == IF precision(t) < precision(r) THEN precision(t) ELSE precision(r)
        Coarsest == IF scale_above(t) < scale_above(r) THEN scale_above(r) ELSE scale_above(t)
        Above(s) == (t \div Tick(s)) - (r \div Tick(s))
        Held(s) == \E k \in 0 .. Coarsest - s :
                      Above(s) % Tick(k) = 0 /\ Above(s) \div Tick(k) < quantity_limit
        cut == CHOOSE s \in Finest .. Coarsest :
                  (\A q \in s .. Coarsest : Held(q)) /\ (s = Finest \/ ~Held(s - 1))
    IN  autoscaled(Rounded(Above(cut) * Tick(cut) + small_part(t, r, cut), cut) * Tick(cut), cut)
=============================================================================
