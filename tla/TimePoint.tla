----------------------------- MODULE TimePoint -----------------------------
(***************************************************************************)
(* time_point.cpp: a time point is a sign and a vector of digits of one    *)
(* scale each, finest first, the finest of them of scale precision_.  The  *)
(* other modules work with the integer those digits denote; here are the   *)
(* digits.  A duration may be negative here; an infinite one has the       *)
(* multiplier quantity_limit, with its sign.                               *)
(***************************************************************************)
EXTENDS Adjustments, Sequences

CONSTANT MaxTicks  \* bound: no time point is moved further from zero

VARIABLE tp  \* the time points

Zero == [sign |-> 1, precision |-> Unit, digits |-> <<>>]
nscales(x) == Len(x.digits)
Top(x) == x.precision + nscales(x)  \* the scale above the coarsest digit
Finer(p, s) == IF p < s THEN p ELSE s
Coarser(p, s) == IF p < s THEN s ELSE p

-----------------------------------------------------------------------------
(* Reading the digits                                                      *)

DigitAt(x, s) ==
    IF x.precision <= s /\ s < Top(x) THEN x.digits[s - x.precision + 1] ELSE 0

\* Mutant: no borrow from the finer digits.
Complement_Unborrowed(x, phase, turn, s) ==
    IF x.sign = 1 \/ phase = 0 THEN phase ELSE turn - phase

\* The complement of the phase of a negative time point; a borrow is due from
\* finer digits, and without them the phase may be a whole turn.
Complement(x, phase, turn, s) ==
    IF x.sign = 1 THEN phase
    ELSE IF x.precision < s THEN turn - phase - 1
    ELSE IF phase = 0 THEN 0 ELSE turn - phase

PhaseAt(x, s) == Complement(x, DigitAt(x, s), Base, s)

EpochAt(x, s) ==
    LET phase[k \in 0 .. EpochScales] ==
            IF k = 0 THEN 0 ELSE Base * phase[k - 1] + DigitAt(x, s + EpochScales - k)
    IN  Complement(x, phase[EpochScales], quantity_limit, s)

upper_discrepant_precision(x, y) ==
    LET finest == Finer(x.precision, y.precision)
        search[s \in Int] ==
            IF s >= finest /\ x.sign * DigitAt(x, s) = y.sign * DigitAt(y, s)
            THEN search[s - 1] ELSE s
    IN  search[Coarser(Top(x), Top(y)) - 1]

Equal(x, y) ==
    upper_discrepant_precision(x, y) < Finer(x.precision, y.precision)
Less(x, y) ==
    LET s == upper_discrepant_precision(x, y)
    IN  x.sign * DigitAt(x, s) < y.sign * DigitAt(y, s)

-----------------------------------------------------------------------------
(* Adding a duration                                                       *)

\* The digits of x from the scale p on, below the scale top.
Between(x, p, top) ==
    [x EXCEPT !.precision = p, !.digits = [i \in 1 .. top - p |-> DigitAt(x, p + i - 1)]]

\* The digits of x from its first nonzero one at the scale p or above.
DigitsFrom(x, p) ==
    LET s == CHOOSE s \in p .. Coarser(p, Top(x)) :
                /\ \A q \in p .. s - 1 : DigitAt(x, q) = 0
                /\ s < Top(x) => DigitAt(x, s) # 0
    IN  Between(x, s, Coarser(s, Top(x)))

\* No multiple of a coarser tick: the multiplier's zeros are left to the scale.
coarsened(dt) ==
    LET k == precision(dt.m) IN Duration(dt.m \div Tick(k), dt.p + k)

\* Division as in C++, towards zero.
Truncated(n) == IF n < 0 THEN -((-n) \div Base) ELSE n \div Base

\* The digits extended at both ends so that dt has a place among them.
Extended(x, dt) ==
    IF x.digits = <<>> THEN Between(x, dt.p, dt.p + 1)
    ELSE Between(x, Finer(x.precision, dt.p), Coarser(Top(x), dt.p + 1))

\* The digit at the scale s with n added, but for the whole turns in n.
Leftover(x, s, n) == DigitAt(x, s) + n - Base * Truncated(n)

\* What is added to the digit of each scale when dt is added to x.
CarriedTo(x, dt) ==
    LET carry[s \in Nat] ==
            IF s <= dt.p THEN dt.m
            ELSE Truncated(carry[s - 1]) + Leftover(x, s - 1, carry[s - 1]) \div Base
    IN  carry

\* Adds dt at the digit of its scale and carries to the coarser digits, until
\* nothing is left, or there is no digit and less than one is owed to it, which
\* leaves a negative digit at the coarse end.
Carried(x, dt) ==
    LET carry == CarriedTo(x, dt)
        Ends(s) == carry[s] = 0 \/ (s >= Top(x) /\ -Base < carry[s] /\ carry[s] < 0)
        end == CHOOSE s \in dt.p + 1 .. Top(x) + Magnitude(dt.m) :
                  Ends(s) /\ \A q \in dt.p + 1 .. s - 1 : ~Ends(q)
        Digit(s) ==
            IF s < dt.p \/ end < s THEN DigitAt(x, s)
            ELSE IF s = end THEN DigitAt(x, s) + carry[s]
            ELSE Leftover(x, s, carry[s]) % Base
        top == Coarser(Top(x), IF carry[end] = 0 THEN end ELSE end + 1)
    IN  [x EXCEPT !.digits = [i \in 1 .. top - x.precision |-> Digit(x.precision + i - 1)]]

WithoutFineZeros(x) == DigitsFrom(x, x.precision)

\* A negative coarsest digit flips the sign of all: the digits below it are
\* complemented, with the finest, which is not zero, lending to the others.
Flipped(x) ==
    LET n == nscales(x)
    IN  IF x.digits[n] >= 0 THEN x
        ELSE [x EXCEPT !.sign = -@,
                       !.digits = [i \in 1 .. n |-> (IF i = n THEN -@[i] ELSE Base - @[i])
                                                    - (IF i > 1 THEN 1 ELSE 0)]]

WithoutCoarseZeros(x) ==
    LET top == CHOOSE s \in x.precision + 1 .. Top(x) :
                  DigitAt(x, s - 1) # 0 /\ \A q \in s .. Top(x) : DigitAt(x, q) = 0
    IN  Between(x, x.precision, top)

Plus(x, rhs) ==
    IF rhs.m = 0 THEN x
    ELSE LET dt == coarsened(Duration(x.sign * rhs.m, rhs.p))
             y == WithoutFineZeros(Carried(Extended(x, dt), dt))
         IN  IF y.digits = <<>> THEN Zero ELSE WithoutCoarseZeros(Flipped(y))

\* x without its digits finer than p.
Cut(x, p) == IF p <= x.precision THEN x ELSE DigitsFrom(x, p)

\* Mutant: the digits of a negative time point are cut off towards zero.
AdvancedPoint_TowardsZero(x, dt) == IF dt.m = 0 THEN x ELSE Plus(Cut(x, dt.p), dt)

\* time_point::advance: drops the digits finer than dt, towards the past.
AdvancedPoint(x, dt) ==
    LET past == IF x.sign = -1 /\ x.precision < dt.p THEN Plus(x, Duration(-1, dt.p)) ELSE x
    IN  IF dt.m = 0 THEN x ELSE Plus(Cut(past, dt.p), dt)

-----------------------------------------------------------------------------
(* The difference of two time points, by way of durations                  *)

Ticks(dt) == dt.m * Tick(dt.p)

\* quantity::operator+: the finest scale that holds the sum.
Sum(a, b) == autoscaled(Ticks(a) + Ticks(b), Finer(a.p, b.p))

Negated(dt) == Duration(-dt.m, dt.p)

\* (dt + (0_s).fixed_at(p)).unfixed(), which a finer scale does not change.
RoundedTo(dt, p) == IF p < dt.p THEN dt ELSE Duration(Rounded(Ticks(dt), p), p)

\* The differences of the digits of x and y from the coarsest on, added up as
\* long as the sum is exact: the sum, and the scale where it stopped being so.
Differences(x, y) ==
    LET finest == Finer(x.precision, y.precision)
        coarsest == Coarser(Top(x), Top(y))
        Added(sum) ==
            LET scale_dt == Duration(PhaseAt(x, sum.scale) - PhaseAt(y, sum.scale), sum.scale)
                next_dt == Sum(sum.dt, scale_dt)
                exact == Ticks(Sum(next_dt, Negated(sum.dt))) = Ticks(scale_dt)
            IN  IF sum.scale >= finest /\ exact
                THEN [dt |-> next_dt, scale |-> sum.scale - 1] ELSE sum
        sums[n \in Nat] ==
            IF n = 0 THEN [dt |-> Duration((x.sign - y.sign) \div 2, coarsest),
                           scale |-> coarsest - 1]
            ELSE Added(sums[n - 1])
    IN  sums[coarsest - finest]

Minus(x, y) ==
    LET sum == Differences(x, y)
    IN  IF sum.scale < Finer(x.precision, y.precision) THEN sum.dt
        ELSE Duration(IF sum.dt.m > 0 THEN quantity_limit ELSE -quantity_limit, Unit)

\* The differences of the digits finer than the scale s, added up from the
\* finest on and kept to EpochScales digits.
SmallDifferences(x, y) ==
    LET small[s \in Nat] ==
            IF s <= Finer(x.precision, y.precision) THEN Duration(0, Unit)
            ELSE RoundedTo(Sum(small[s - 1],
                               Duration(PhaseAt(x, s - 1) - PhaseAt(y, s - 1), s - 1)),
                           s - EpochScales)
    IN  small

Gap(x, y) ==
    LET finest == Finer(x.precision, y.precision)
        big_dt == Differences(x, y).dt
        cut == Differences(x, y).scale + 1
        small_dt == SmallDifferences(x, y)[cut]
        half == (Base \div 2) * Tick(cut - 1)
    IN  IF cut > finest /\ Ticks(small_dt) \in {half, -half}
        THEN IF Signed(small_dt.m, 1) * big_dt.m > 0
             THEN Sum(big_dt, Duration(Signed(small_dt.m, 1), cut)) ELSE big_dt
        ELSE Sum(big_dt, RoundedTo(small_dt, cut))

-----------------------------------------------------------------------------
PointInit == tp = [n \in Names |-> Zero]

\* The number of ticks that the digits finer than the scale s denote.
TicksBelow(x) ==
    LET ticks[s \in Nat] ==
            IF s = 0 THEN 0 ELSE ticks[s - 1] + DigitAt(x, s - 1) * Tick(s - 1)
    IN  ticks
Value(x) == x.sign * TicksBelow(x)[Top(x)]

Bounded(x) == Magnitude(Value(x)) <= MaxTicks

\* A time point constructed from a duration takes the place of another.
ConstructPoint(n, dt) == tp' = [tp EXCEPT ![n] = Plus(Zero, dt)]

\* operator+= and, for a negative duration, operator-=.
AddToPoint(n, dt) ==
    /\ Bounded(Plus(tp[n], dt))
    /\ tp' = [tp EXCEPT ![n] = Plus(@, dt)]

AdvancePoint(n, dt) ==
    /\ Bounded(AdvancedPoint(tp[n], dt))
    /\ tp' = [tp EXCEPT ![n] = AdvancedPoint(@, dt)]

PointNext ==
    \E n \in Names :
        \/ \E dt \in Initials : ConstructPoint(n, dt)
        \/ \E dt \in Offsets : AddToPoint(n, dt)
        \/ \E dt \in Advances : AdvancePoint(n, dt)

PointSpec == PointInit /\ [][PointNext]_tp

-----------------------------------------------------------------------------
(* Properties                                                              *)

\* The representation of a time is unique: all digits are in range, none is a
\* zero at either end, and zero has the sign and the precision of time_point().
Digital == [sign : {1, -1}, precision : Nat, digits : Seq(0 .. Base - 1)]
Normal(x) ==
    /\ x.digits = <<>> => x = Zero
    /\ x.digits # <<>> => x.digits[1] # 0 /\ x.digits[nscales(x)] # 0
PointTypeOK == tp \in [Names -> Digital] /\ \A n \in Names : Normal(tp[n])

\* After any sequence of additions and advances the digits denote the sum of
\* them, across carries, borrows and changes of sign.
Meaning == INSTANCE Instants WITH at <- [n \in Names |-> Value(tp[n])]
ImplementsInstants == Meaning!Spec

\* scale_phase and epoch_phase, "measured from the left (i.e. from negative
\* infinity) rather than from zero", are those of the number denoted.
PhasesFromTheLeft ==
    \A n \in Names : \A s \in 0 .. Top(tp[n]) + 1 :
        /\ PhaseAt(tp[n], s) = scale_phase(Value(tp[n]), s)
        /\ EpochAt(tp[n], s) = epoch_phase(Value(tp[n]), s)

\* Time points are compared digit by digit as the numbers they denote.
OrderedByValue ==
    \A j, k \in Names :
        /\ Less(tp[j], tp[k]) <=> Value(tp[j]) < Value(tp[k])
        /\ Equal(tp[j], tp[k]) <=> Value(tp[j]) = Value(tp[k])

\* "If a duration value lacks the precision required to represent the exact
\* difference, then the result is either positive infinity [...] or negative
\* infinity", and otherwise it is exact.
DifferenceExact ==
    \A j, k \in Names :
        LET n == Value(tp[j]) - Value(tp[k])
            dt == Minus(tp[j], tp[k])
            Held == \E p \in 0 .. Coarser(Top(tp[j]), Top(tp[k])) :
                        n % Tick(p) = 0 /\ Magnitude(n) < quantity_limit * Tick(p)
        IN  IF Held THEN Ticks(dt) = n
            ELSE dt = Duration(Signed(n, quantity_limit), Unit)

\* The gap to an earlier time point is the one the time queue relies on.
GapIsThatOfNumbers ==
    \A j, k \in Names :
        Value(tp[k]) < Value(tp[j]) =>
            Gap(tp[j], tp[k]) = gap(Value(tp[j]), Value(tp[k]))

\* time_point.h:160, "The exact difference should be within one precision of
\* the returned duration", whatever is rounded on the way.
GapWithinOnePrecision ==
    \A j, k \in Names :
        LET dt == Gap(tp[j], tp[k])
        IN  Magnitude(Ticks(dt) - (Value(tp[j]) - Value(tp[k]))) <= Tick(dt.p)

\* time_point.cpp: digits are read in phases and epochs from the left, on both
\* sides of zero, and compare as the numbers they denote; a difference is the
\* exact one or none, and a gap is that of the numbers, exact to one unit of
\* its precision.
PointsExact ==
    /\ PointTypeOK /\ PhasesFromTheLeft /\ OrderedByValue
    /\ DifferenceExact /\ GapIsThatOfNumbers /\ GapWithinOnePrecision
=============================================================================
