------------------------------- MODULE Number -------------------------------
(***************************************************************************)
(* Numbers of the parser's library: an integer or a real, and the          *)
(* operations on them.  A number is given in parts of Unit, an integer is  *)
(* a multiple of Unit; one part is also the distance to the next real.     *)
(*                                                                         *)
(* Of the functions of real analysis the model keeps the shape: where they *)
(* are defined, where they grow, their symmetry and their extreme values.  *)
(***************************************************************************)
EXTENDS Integers

CONSTANTS Unit,   \* parts of one
          HalfPi  \* the parts of half of pi

ASSUME UnitAssumption == Unit \in Nat \ {0} /\ HalfPi \in Nat /\ Unit < HalfPi

Whole(n) == [type |-> "int", is |-> n * Unit]
Real(x)  == [type |-> "real", is |-> x]

Zero == Whole(0)
One  == Whole(1)

IsInt(a) == a.type = "int"

\* Beyond all other numbers: what the reals divided by zero give.
Huge == 1000 * Unit

\* The computation has thrown an exception.
Throws == [error |-> TRUE]

\* No number: an even root of a negative one.
NaN == [nan |-> TRUE]

\* infinity, positiveInfinity and negativeInfinity set the real part of a
\* number that stays an integer: the integer zero.
Infinity == Zero

\* isInfinity and its variants: never of an integer.
IsInfinity(a) == ~IsInt(a) /\ a.is \in {Huge, -Huge}

(***************************************************************************)
(* Arithmetic and comparison: integers among themselves, all else as reals.*)
(***************************************************************************)
Both(a, b, x) == [type |-> IF IsInt(a) /\ IsInt(b) THEN "int" ELSE "real", is |-> x]

Abs(x)  == IF x < 0 THEN -x ELSE x
Sign(x) == IF x < 0 THEN -1 ELSE IF x = 0 THEN 0 ELSE 1

\* Quotient rounded toward zero.
Truncated(x, y) == Sign(x) * Sign(y) * (Abs(x) \div Abs(y))

Plus(a, b)  == Both(a, b, a.is + b.is)
Minus(a, b) == Both(a, b, a.is - b.is)
Negated(a)  == [a EXCEPT !.is = -@]
Times(a, b) == Both(a, b, Truncated(a.is * b.is, Unit))

\* The quotient of two integers is one if there is no remainder.
Quotient(a, b) ==
    LET exact == IsInt(a) /\ IsInt(b)
    IN  IF exact /\ b.is = 0 THEN Throws
        ELSE IF b.is = 0 THEN Real(Sign(a.is) * Huge)
        ELSE IF exact /\ a.is % Abs(b.is) = 0 THEN [type |-> "int", is |-> Truncated(a.is * Unit, b.is)]
        ELSE Real(Truncated(a.is * Unit, b.is))

\* operator%: of the integers, with the sign of the dividend.
Remainder(a, b) ==
    IF ~IsInt(a) \/ ~IsInt(b) \/ b.is = 0 THEN Throws
    ELSE [a EXCEPT !.is = @ - b.is * Truncated(@, b.is)]

\* +=, -= and *=: a number that is an integer changes only its (unused) real
\* part if the other one is a real.
Updated(a, b, result) == IF IsInt(a) /\ ~IsInt(b) THEN a ELSE [a EXCEPT !.is = result.is]

Less(a, b)    == a.is < b.is
AtMost(a, b)  == a.is <= b.is
Equal(a, b)   == a.is = b.is
Least(s)      == CHOOSE a \in s : \A b \in s : AtMost(a, b)
Greatest(s)   == CHOOSE a \in s : \A b \in s : AtMost(b, a)

AbsOf(a)   == [a EXCEPT !.is = Abs(@)]
RoundedDown(a) == IF IsInt(a) \/ IsInfinity(a) THEN a ELSE Real(Unit * (a.is \div Unit))
RoundedUp(a)   == Negated(RoundedDown(Negated(a)))

\* An integer moves by one, a real to the next real.
NextBelow(a) == [a EXCEPT !.is = @ - (IF IsInt(a) THEN Unit ELSE 1)]
NextAbove(a) == [a EXCEPT !.is = @ + (IF IsInt(a) THEN Unit ELSE 1)]

\* The largest r with r * r at most n.
RootOf(n) == CHOOSE r \in 0..n : r * r <= n /\ n < (r + 1) * (r + 1)

\* Of an integer the integer root, rounded down.
Sqrt(a) ==
    IF a.is < 0 THEN Throws
    ELSE IF IsInt(a) THEN Whole(RootOf(a.is \div Unit))
    ELSE Real(RootOf(a.is * Unit))

SafeSqrt(a) == IF a.is < 0 THEN [a EXCEPT !.is = 0] ELSE Sqrt(a)

\* x to the n.
Power(x, n) ==
    LET P[k \in Nat] == IF k = 0 THEN Unit ELSE Truncated(P[k - 1] * x, Unit)
    IN  P[n]

\* Integers have integer powers; a negative number only has powers with an
\* exponent that is a whole number.
Pow(a, e) ==
    LET n    == Abs(e.is) \div Unit
        up   == IF n * Unit = Abs(e.is) THEN Power(a.is, n)
                ELSE RootOf(Power(a.is, (2 * Abs(e.is)) \div Unit) * Unit)
    IN  IF a.is < 0 /\ n * Unit # Abs(e.is) THEN NaN
        ELSE IF e.is >= 0 THEN Both(a, e, up)
        ELSE IF up = 0 THEN Real(Huge)
        ELSE Real(Truncated(Unit * Unit, up))

(***************************************************************************)
(* Functions of real analysis.                                             *)
(***************************************************************************)
\* Odd and growing.
Grows(x) == Sign(x) * (Abs(x) \div 3)

\* The sine: from 0 up to one, down to minus one and back.
HeightAt(rising) == IF rising = HalfPi THEN Unit ELSE (rising * Unit) \div HalfPi

HalfWave(half) == HeightAt(IF half <= HalfPi THEN half ELSE 2 * HalfPi - half)

SineOf(x) ==
    LET t == x % (4 * HalfPi)
    IN  IF t <= 2 * HalfPi THEN HalfWave(t % (2 * HalfPi)) ELSE -HalfWave(t % (2 * HalfPi))

CosineOf(x) == SineOf(x + HalfPi)

\* The tangent between two of its poles.
TangentOf(x) ==
    LET t == x % (2 * HalfPi)
    IN  IF t < HalfPi THEN (t * Unit) \div HalfPi ELSE -(((2 * HalfPi - t) * Unit) \div HalfPi)

CoshOf(x) == Unit + Abs(x) \div 6

\* The angle of the point (x, y).
AngleOf(y, x) ==
    LET r == Abs(x) + Abs(y)
    IN  IF r = 0 THEN 0
        ELSE IF x >= 0 THEN Truncated(HalfPi * y, r)
        ELSE (IF y >= 0 THEN 2 * HalfPi ELSE -2 * HalfPi) - Truncated(HalfPi * y, r)

OneOver(x) == Truncated(Unit * Unit, x)

\* Where a function throws, and where there is no value.
Undefined(f, x) ==
    CASE f \in {"ln", "lg", "lb"}         -> x <= 0
      [] f \in {"asin", "acos"}           -> Abs(x) > Unit
      [] f \in {"asec", "acsc"}           -> Abs(x) < Unit
      [] f = "acosh"                      -> x < Unit
      [] f = "atanh"                      -> Abs(x) >= Unit
      [] f = "acoth"                      -> Abs(x) <= Unit
      [] f \in {"acsch", "coth", "csch"}  -> x = 0
      [] f = "cot"                        -> TangentOf(x) = 0
      [] f = "csc"                        -> SineOf(x) = 0
      [] f = "sec"                        -> CosineOf(x) = 0
      [] f = "tan"                        -> x % (2 * HalfPi) = HalfPi
      [] OTHER                            -> FALSE

Exponential(f, x) ==
    IF f = "exp" THEN Unit + Grows(x) ELSE Grows(x - Unit)

Circular(f, x) ==
    CASE f = "sin"             -> SineOf(x)
      [] f = "cos"             -> CosineOf(x)
      [] f = "tan"             -> TangentOf(x)
      [] f = "cot"             -> OneOver(TangentOf(x))
      [] f = "sec"             -> OneOver(CosineOf(x))
      [] f = "csc"             -> OneOver(SineOf(x))
      [] f \in {"asin", "atan"} -> Grows(x)
      [] f \in {"acos", "acot"} -> HalfPi - Grows(x)
      [] f = "asec"            -> HalfPi - Grows(OneOver(x))
      [] f = "acsc"            -> Grows(OneOver(x))

Hyperbolic(f, x) ==
    CASE f \in {"sinh", "tanh", "asinh", "atanh"} -> Grows(x)
      [] f = "acosh"              -> Grows(x - Unit)
      [] f = "cosh"               -> CoshOf(x)
      [] f = "sech"               -> OneOver(CoshOf(x))
      [] f \in {"coth", "csch"}   -> OneOver(Grows(x))
      [] f \in {"acoth", "acsch"} -> Grows(OneOver(x))

ExponentialNames == {"exp", "ln", "lg", "lb"}

CircularNames ==
    {"sin", "cos", "tan", "cot", "sec", "csc", "asin", "acos", "atan", "acot", "asec", "acsc"}

\* asech of a number is computed by tanh.
FunctionOf(f, x) ==
    CASE f \in ExponentialNames -> Exponential(f, x)
      [] f \in CircularNames    -> Circular(f, x)
      [] f = "asech"            -> Hyperbolic("tanh", x)
      [] OTHER                  -> Hyperbolic(f, x)

Function(f, a) == IF Undefined(f, a.is) THEN Throws ELSE Real(FunctionOf(f, a.is))
=============================================================================
