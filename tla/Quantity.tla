------------------------------ MODULE Quantity ------------------------------
(***************************************************************************)
(* quantity.h, scale.h and units.h: a quantity is a multiplier, a          *)
(* precision (a level: Base^level units) that may be fixed, and the        *)
(* exponents of its units.  The multiplier is a floating-point number that *)
(* every operation leaves integral, infinite or not a number.              *)
(*                                                                         *)
(* Floating-point numbers are fractions n/d here, with d = 0 for the       *)
(* infinities and 0/0 for NaN; what the code rounds beyond 53 bits is      *)
(* exact, and zero has no sign.                                            *)
(***************************************************************************)
EXTENDS Integers, Sequences

CONSTANTS
    Base,          \* the ratio of two neighbouring scales (1000)
    LimitScales,   \* how many scales a multiplier spans (5)
    Largest,       \* the largest 64-bit integer, not below the limit of multipliers
    BaseUnits,     \* grams, meters, seconds ...
    Factors,       \* the numbers quantities are multiplied and divided by
    Multipliers,   \* the multipliers of the operands
    Levels,        \* bound: the levels of precisions
    Exponents      \* bound: the exponents of units

VARIABLE q  \* a quantity

quantity_limit == Base ^ LimitScales
inf_int64 == Largest
nan_int64 == -Largest - 1

-----------------------------------------------------------------------------
(* Floating-point numbers                                                  *)

Magnitude(n) == IF n < 0 THEN -n ELSE n
Ratio(n, d) ==
    LET gcd[a \in Nat, b \in Nat] == IF b = 0 THEN a ELSE gcd[b, a % b]
        g == gcd[Magnitude(n), d]
    IN  IF g = 0 THEN [n |-> 0, d |-> 0] ELSE [n |-> n \div g, d |-> d \div g]
Float(n) == Ratio(n, 1)
Inf(sign) == Ratio(sign, 0)
NaN == Ratio(0, 0)

IsNaN(x) == x = NaN
IsFinite(x) == x.d # 0
Neg(x) == [x EXCEPT !.n = -@]
Abs(x) == [x EXCEPT !.n = Magnitude(@)]
Add(x, y) ==
    IF ~IsFinite(x) /\ ~IsFinite(y) THEN IF x = y THEN x ELSE NaN
    ELSE Ratio(x.n * y.d + y.n * x.d, x.d * y.d)
Mul(x, y) == Ratio(x.n * y.n, x.d * y.d)
Div(x, y) == IF y.n < 0 THEN Ratio((-x.n) * y.d, x.d * (-y.n)) ELSE Ratio(x.n * y.d, x.d * y.n)
Less(x, y) ==
    /\ ~IsNaN(x) /\ ~IsNaN(y)
    /\ IF ~IsFinite(x) /\ ~IsFinite(y) THEN x.n < y.n ELSE x.n * y.d < y.n * x.d
AtMost(x, y) == Less(x, y) \/ (x = y /\ ~IsNaN(x))

\* int64(x): towards zero.
Int64(x) == IF x.n < 0 THEN -((-x.n) \div x.d) ELSE x.n \div x.d

\* operator/ of two scales.
Power(k) == IF k < 0 THEN Ratio(1, Base ^ (-k)) ELSE Ratio(Base ^ k, 1)
Half == Ratio(1, 2)
Limit == Float(quantity_limit)

-----------------------------------------------------------------------------
(* Constructors, rounding and rescaling; u is the units                    *)

Quantity(m, p, fixed, u) == [m |-> m, p |-> p, fixed |-> fixed, u |-> u]
Invalid(u) == Quantity(NaN, 0, FALSE, u)
Infinite(sign, u) == Quantity(Inf(sign), 0, FALSE, u)

convert_multiplier(m) ==
    CASE m = nan_int64 -> NaN
      [] m # nan_int64 /\ m >= quantity_limit -> Inf(1)
      [] m # nan_int64 /\ m <= -quantity_limit -> Inf(-1)
      [] OTHER -> Float(m)

convert_level(m, p) == IF Magnitude(m) >= quantity_limit THEN 0 ELSE p

\* quantity(multiplier, precision, fixed)
Exactly(m, p, fixed, u) == Quantity(convert_multiplier(m), convert_level(m, p), fixed, u)

valid(a) == ~IsNaN(a.m)
finite(a) == IsFinite(a.m)

multiplier(a) ==
    IF ~valid(a) THEN nan_int64 ELSE IF finite(a) THEN Int64(a.m) ELSE a.m.n * inf_int64

offset_multiplier(x) == Add(x, IF AtMost(Float(0), x) THEN Half ELSE Neg(Half))

truncate_multiplier(x) ==
    IF AtMost(Limit, x) THEN inf_int64 ELSE IF AtMost(x, Neg(Limit)) THEN -inf_int64 ELSE Int64(x)

\* Mutant: the multiplier is rounded to the coarser scale.
scale_multiplier_Rounding(x, factor) == truncate_multiplier(offset_multiplier(Mul(factor, x)))

scale_multiplier(x, factor) ==
    IF AtMost(Float(1), factor) THEN truncate_multiplier(offset_multiplier(Mul(factor, x)))
    ELSE truncate_multiplier(Mul(factor, offset_multiplier(x)))

autorounded(a) ==
    CASE ~valid(a) -> Invalid(a.u)
      [] valid(a) /\ AtMost(Limit, Add(a.m, Half)) -> Infinite(1, a.u)
      [] valid(a) /\ AtMost(Add(a.m, Neg(Half)), Neg(Limit)) -> Infinite(-1, a.u)
      [] OTHER -> Exactly(Int64(offset_multiplier(a.m)), a.p, a.fixed, a.u)

\* Mutant: a multiplier that is not integral is rounded at once.
autoscaled_Early(a) == autorounded(a)

\* The finest precision that holds the multiplier, unless a coarser one is exact.
autoscaled(a) ==
    LET scaled[m \in [n : Int, d : Nat], p \in Int] ==
            CASE AtMost(Limit, Add(Abs(m), Half)) -> scaled[Mul(m, Power(-1)), p + 1]
              [] AtMost(Limit, Add(Mul(Float(Base), Abs(m)), Half)) /\ Less(Add(Abs(m), Half), Limit)
                    -> autorounded(Quantity(m, p, FALSE, a.u))
              [] OTHER -> IF m.d = 1 THEN autorounded(Quantity(m, p, FALSE, a.u))
                          ELSE scaled[Mul(m, Power(1)), p - 1]
    IN  IF ~valid(a) THEN Invalid(a.u)
        ELSE IF ~finite(a) THEN Infinite(a.m.n, a.u)
        ELSE scaled[a.m, a.p]

fixed_at(a, p) ==
    IF ~valid(a) THEN Invalid(a.u)
    ELSE Exactly(scale_multiplier(a.m, Power(a.p - p)), p, TRUE, a.u)

rescaled(a, p) ==
    IF ~valid(a) THEN Invalid(a.u)
    ELSE Exactly(scale_multiplier(a.m, Power(a.p - p)), p, a.fixed, a.u)

refined(a) ==
    LET round(x) == truncate_multiplier(offset_multiplier(x))
        refine[b \in [m : [n : Int, d : Nat], p : Int, fixed : BOOLEAN, u : {a.u}]] ==
            IF Magnitude(round(Mul(Power(1), b.m))) >= quantity_limit THEN b
            ELSE refine[autorounded(Quantity(Mul(Power(1), b.m), b.p - 1, FALSE, b.u))]
    IN  IF ~valid(a) THEN Invalid(a.u)
        ELSE IF ~finite(a) THEN a
        ELSE IF a.m.n = 0 THEN Exactly(0, 0, FALSE, a.u)
        ELSE refine[a]

coarsened(a) ==
    LET round(x) == truncate_multiplier(offset_multiplier(x))
        coarsen[b \in [m : [n : Int, d : Nat], p : Int, fixed : BOOLEAN, u : {a.u}]] ==
            LET k == round(Mul(Power(-1), b.m))
            IN  IF b.m # Float(Base * k) THEN b ELSE coarsen[Quantity(Float(k), b.p + 1, FALSE, b.u)]
    IN  IF ~valid(a) THEN Invalid(a.u)
        ELSE IF ~finite(a) THEN a
        ELSE IF a.m.n = 0 THEN Exactly(0, 0, FALSE, a.u)
        ELSE coarsen[a]

unfixed(a) == [a EXCEPT !.fixed = FALSE]
negated(a) == [a EXCEPT !.m = Neg(@)]

-----------------------------------------------------------------------------
(* Arithmetic and comparison                                               *)

\* Mutant: a sum keeps the precision of its first operand.
Plus_First(a, b) ==
    autoscaled(Quantity(Add(a.m, Mul(Power(b.p - a.p), b.m)), a.p, a.fixed, a.u))

\* The sum at a fixed precision, or else at the finer of the two.
Plus(a, b) ==
    LET At(p, fixed) ==
            Quantity(Add(Mul(Power(a.p - p), a.m), Mul(Power(b.p - p), b.m)), p, fixed, a.u)
    IN  CASE a.fixed /\ b.fixed ->
                 IF a.p = b.p THEN autorounded(At(a.p, TRUE)) ELSE Invalid(a.u)
          [] a.fixed /\ ~b.fixed -> autorounded(At(a.p, TRUE))
          [] ~a.fixed /\ b.fixed -> autorounded(At(b.p, TRUE))
          [] OTHER -> autoscaled(At(IF a.p <= b.p THEN a.p ELSE b.p, FALSE))

Minus(a, b) == Plus(a, negated(b))

Adjusted(a) == IF a.fixed THEN autorounded(a) ELSE autoscaled(a)
Times(a, x) == Adjusted([a EXCEPT !.m = Mul(@, x)])
Over(a, x) == Adjusted([a EXCEPT !.m = Div(@, x)])

\* Products and quotients take the integer multiplier of b, also where it stands
\* for infinity; only a quotient minds an invalid one.
UnitsTimes(u, w) == [k \in BaseUnits |-> u[k] + w[k]]
UnitsOver(u, w) == [k \in BaseUnits |-> u[k] - w[k]]
TimesQuantity(a, b) ==
    autoscaled(Quantity(Mul(a.m, Float(multiplier(b))), a.p + b.p, FALSE, UnitsTimes(a.u, b.u)))
OverQuantity(a, b) ==
    IF ~valid(b) THEN Invalid(UnitsOver(a.u, b.u))
    ELSE autoscaled(Quantity(Div(a.m, Float(multiplier(b))), a.p - b.p, FALSE, UnitsOver(a.u, b.u)))

TimesUnits(a, w) == Quantity(a.m, a.p, FALSE, UnitsTimes(a.u, w))
OverUnits(a, w) == Quantity(a.m, a.p, FALSE, UnitsOver(a.u, w))

\* Both multipliers at the finer precision.
Common(a, b) ==
    IF a.p <= b.p THEN <<a.m, Mul(Power(b.p - a.p), b.m)>> ELSE <<Mul(Power(a.p - b.p), a.m), b.m>>

\* Mutant: precisions are compared before multipliers.
QuantityLess_ByPrecision(a, b) == a.p < b.p \/ (a.p = b.p /\ Less(a.m, b.m))

QuantityLess(a, b) == Less(Common(a, b)[1], Common(a, b)[2])

QuantityEqual(a, b) == Common(a, b)[1] = Common(a, b)[2] /\ valid(a) /\ valid(b)

-----------------------------------------------------------------------------
(* Printing: operator<<.  A text is a minus sign or none, the name of a     *)
(* base unit's type or the expression for a type, and arguments; a literal  *)
(* has the symbol of its prefix instead of a precision.                     *)

\* scale::symbol, from level -8 on, and the literals that end in a symbol.
Symbols == <<"y", "z", "a", "f", "p", "n", "u", "m", "", "k", "M", "G", "T", "P", "E", "Z", "Y">>
symbol(p) == IF p \in -8 .. 8 THEN Symbols[p + 9] ELSE ""
LiteralLevel == [y |-> -8, z |-> -7, a |-> -6, f |-> -5, p |-> -4, n |-> -3, u |-> -2, m |-> -1,
                 k |-> 1, M |-> 2, G |-> 3, T |-> 4, P |-> 5, E |-> 6, Z |-> 7, Y |-> 8]

NoUnits == [k \in BaseUnits |-> 0]
BaseUnit(k) == [NoUnits EXCEPT ![k] = 1]
IsBase(u) == \E k \in BaseUnits : u = BaseUnit(k)

\* Mutant: whether the expression has started is asked for each unit anew.
UnitsText_Restarting(u, order) ==
    LET factors(k) ==
            [j \in 1 .. Magnitude(u[k]) |->
                [op |-> IF u[k] > 0 THEN IF j = 1 THEN "" ELSE "*" ELSE IF j = 1 THEN "_1/" ELSE "/", unit |-> k]]
        text[i \in 0 .. Len(order)] == IF i = 0 THEN <<>> ELSE text[i - 1] \o factors(order[i])
    IN  text[Len(order)]

\* The type of other quantities: each unit as often as its exponent says.
UnitsText(u, order) ==
    LET factors(k, starting) ==
            [j \in 1 .. Magnitude(u[k]) |->
                [op |-> CASE starting /\ j = 1 /\ u[k] > 0 -> ""
                          [] starting /\ j = 1 /\ u[k] < 0 -> "_1/"
                          [] ~(starting /\ j = 1) -> IF u[k] > 0 THEN "*" ELSE "/",
                 unit |-> k]]
        text[i \in 0 .. Len(order)] ==
            IF i = 0 THEN <<>> ELSE text[i - 1] \o factors(order[i], text[i - 1] = <<>>)
    IN  text[Len(order)]

\* operator<<: base units have literals, and print the sign with the multiplier.
Printed(a, order) ==
    LET negative == valid(a) /\ a.m.n < 0
        type == UnitsText(a.u, order)
    IN  CASE ~valid(a) -> [minus |-> FALSE, type |-> type, form |-> "()"]
          [] valid(a) /\ ~finite(a) -> [minus |-> negative, type |-> type, form |-> "::inf()"]
          [] finite(a) /\ IsBase(a.u) /\ a.p \in -8 .. 8 ->
                 [minus |-> negative, type |-> type, form |-> "_",
                  m |-> Magnitude(multiplier(a)), symbol |-> symbol(a.p)]
          [] finite(a) /\ IsBase(a.u) /\ a.p \notin -8 .. 8 ->
                 [minus |-> FALSE, type |-> type, form |-> "(,)", m |-> multiplier(a), p |-> a.p]
          [] OTHER ->
                 [minus |-> negative, type |-> type, form |-> "(,)",
                  m |-> Magnitude(multiplier(a)), p |-> a.p]

-----------------------------------------------------------------------------
(* A quantity that is computed with                                        *)

Units == [BaseUnits -> Exponents]
Operands(u) ==
    {Exactly(m, p, fixed, u) : m \in Multipliers, p \in {-1, 2}, fixed \in BOOLEAN}
        \cup {Invalid(u), Infinite(1, u), Infinite(-1, u)}

Becomes(a) == a.p \in Levels /\ a.u \in Units /\ q' = a

Init == q = Exactly(1, 0, FALSE, NoUnits)

operators == \E b \in Operands(q.u) : Becomes(Plus(q, b)) \/ Becomes(Minus(q, b))
scalars == \E x \in Factors : Becomes(Times(q, x)) \/ Becomes(Over(q, x))
products ==
    \E k \in BaseUnits : \E b \in Operands(BaseUnit(k)) :
        Becomes(TimesQuantity(q, b)) \/ Becomes(OverQuantity(q, b))
dimensions == \E k \in BaseUnits : Becomes(TimesUnits(q, BaseUnit(k))) \/ Becomes(OverUnits(q, BaseUnit(k)))
scales == \E p \in Levels : Becomes(fixed_at(q, p)) \/ Becomes(rescaled(q, p))
normal == Becomes(refined(q)) \/ Becomes(coarsened(q)) \/ Becomes(unfixed(q)) \/ Becomes(negated(q))

Next == operators \/ scalars \/ products \/ dimensions \/ scales \/ normal

Spec == Init /\ [][Next]_q

-----------------------------------------------------------------------------
(* Properties                                                              *)

Value(a) == Mul(a.m, Power(a.p))
HalfTick(p) == Mul(Half, Power(p))

\* a is x as closely as its precision allows, or x is out of range there.
Nearest(a, x, p) ==
    IF finite(a) THEN a.p = p /\ AtMost(Abs(Add(Value(a), Neg(x))), HalfTick(p))
    ELSE valid(a) /\ a.m.n * x.n > 0 /\ AtMost(Mul(Add(Limit, Neg(Half)), Power(p)), Abs(x))

\* a is x, or all the digits of a multiplier went into rounding it.
Precise(a, x) ==
    /\ finite(a) /\ ~a.fixed
    /\ AtMost(Abs(Add(Value(a), Neg(x))), HalfTick(a.p))
    /\ Value(a) # x => AtMost(Mul(Limit, Power(a.p)), Add(Mul(Float(Base), Abs(x)), HalfTick(a.p)))

\* quantity.h:158, "precision levels automatically adjusted to minimize rounding
\* error", and :177-207 on fixed ones: whatever led to an operand, a sum or
\* product is exact or rounded once, at the fixed precision if there is one.
ArithmeticNearest ==
    finite(q) =>
    /\ \A b \in Operands(q.u) : finite(b) =>
          LET sum == Plus(q, b)
              x == Add(Value(q), Value(b))
          IN  IF q.fixed /\ b.fixed /\ q.p # b.p THEN ~valid(sum)
              ELSE IF q.fixed \/ b.fixed THEN Nearest(sum, x, IF q.fixed THEN q.p ELSE b.p)
              ELSE Precise(sum, x)
    /\ \A x \in Factors :
          IF q.fixed THEN Nearest(Times(q, x), Mul(Value(q), x), q.p)
          ELSE Precise(Times(q, x), Mul(Value(q), x))
    /\ \A b \in Operands(NoUnits) : finite(b) =>
          /\ Precise(TimesQuantity(q, b), Mul(Value(q), Value(b)))
          /\ b.m.n # 0 => Precise(OverQuantity(q, b), Div(Value(q), Value(b)))

\* Quantities compare as the values they stand for, whatever their precisions:
\* also infinite ones, and an invalid one never.
OrderedByValue ==
    \A b \in Operands(q.u) :
        /\ QuantityLess(q, b) <=> valid(q) /\ valid(b) /\ Less(Value(q), Value(b))
        /\ QuantityEqual(q, b) <=> valid(q) /\ valid(b) /\ Value(q) = Value(b)
        /\ valid(q) /\ valid(b) => QuantityLess(q, b) \/ QuantityEqual(q, b) \/ QuantityLess(b, q)

\* quantity.h:289-290: refining and coarsening lose nothing, and go as far as
\* they can; rescaling drops digits only, and restores to what is left of them.
RescalingExact ==
    finite(q) /\ q.m.n # 0 =>
    /\ Value(refined(q)) = Value(q) /\ Value(coarsened(q)) = Value(q)
    /\ Magnitude(refined(q).m.n) < quantity_limit /\ Magnitude(refined(q).m.n) * Base >= quantity_limit
    /\ coarsened(q).m.n % Base # 0
    /\ \A p \in Levels :
          LET a == rescaled(q, p)
              cut == Float(Int64(Mul(q.m, Power(q.p - p))))
          IN  IF Less(Abs(cut), Limit) THEN a.m = cut /\ a.p = p
              ELSE ~finite(a) /\ a.m.n * q.m.n > 0

\* The expression that operator<< prints, read by the compiler: literals stand
\* for their prefix and units are multiplied and divided from the left.
ReadUnits(type) ==
    LET units[i \in 0 .. Len(type)] ==
            IF i = 0 THEN NoUnits
            ELSE IF type[i].op \in {"", "*"} THEN UnitsTimes(units[i - 1], BaseUnit(type[i].unit))
            ELSE UnitsOver(units[i - 1], BaseUnit(type[i].unit))
    IN  units[Len(type)]
Started(type) == \A i \in DOMAIN type : type[i].op \in {"", "_1/"} <=> i = 1
Read(t) ==
    LET u == ReadUnits(t.type)
        a == CASE t.form = "()" -> Invalid(u)
               [] t.form = "::inf()" -> Exactly(quantity_limit, 0, FALSE, u)
               [] t.form = "_" -> Exactly(t.m, IF t.symbol = "" THEN 0 ELSE LiteralLevel[t.symbol], FALSE, u)
               [] t.form = "(,)" -> Exactly(t.m, t.p, FALSE, u)
    IN  IF t.minus THEN negated(a) ELSE a

\* A printed quantity reads back as the same quantity, but for being fixed.
PrintedReadsBack ==
    \A order \in [1 .. 2 -> BaseUnits] :
        order[1] # order[2] =>
        LET t == Printed(q, order)
        IN  Started(t.type) /\ (q.p \in Levels => Read(t) = [unfixed(q) EXCEPT !.p = IF finite(q) THEN @ ELSE 0])
=============================================================================
