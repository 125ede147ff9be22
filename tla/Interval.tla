------------------------------ MODULE Interval ------------------------------
(***************************************************************************)
(* Intervals of numbers: their operations as sets and the arithmetic on    *)
(* them.  The result of an operation should hold what the operation makes  *)
(* of the numbers of its operands.                                         *)
(***************************************************************************)
EXTENDS Number, Sequences, SequencesExt

Between(lo, hi, lc, rc) == [lo |-> lo, hi |-> hi, lc |-> lc, rc |-> rc]
Closed(lo, hi)        == Between(lo, hi, TRUE, TRUE)

Nothing    == Between(One, Whole(-1), FALSE, FALSE)
\* From minus infinity to infinity.
Everything == Between(Negated(Infinity), Infinity, FALSE, FALSE)

IsEmpty(i) == Less(i.hi, i.lo) \/ (Equal(i.lo, i.hi) /\ ~(i.lc /\ i.rc))
IsPoint(i) == Equal(i.lo, i.hi)

Holds(i, a) ==
    /\ ~IsEmpty(i)
    /\ IF i.lc THEN AtMost(i.lo, a) ELSE Less(i.lo, a)
    /\ IF i.rc THEN AtMost(a, i.hi) ELSE Less(a, i.hi)

(***************************************************************************)
(* Intervals as sets.                                                      *)
(***************************************************************************)
IsSubsetOf(i, j) ==
    \/ IsEmpty(i)
    \/ /\ ~IsEmpty(j)
       /\ Less(j.lo, i.lo) \/ (Equal(i.lo, j.lo) /\ (~i.lc \/ j.lc))
       /\ Less(i.hi, j.hi) \/ (Equal(i.hi, j.hi) /\ (~i.rc \/ j.rc))

IsSupersetOf(i, j) ==
    /\ ~IsEmpty(i)
    /\ Less(i.lo, j.lo) \/ (Equal(i.lo, j.lo) /\ (i.lc \/ ~j.lc))
    /\ Less(j.hi, i.hi) \/ (Equal(i.hi, j.hi) /\ (i.rc \/ ~j.rc))

\* No operator of two intervals is asked about an empty one: an empty
\* interval is disjoint from none.
Before(i, j) == Less(i.hi, j.lo) \/ (Equal(i.hi, j.lo) /\ ~(i.rc /\ j.lc))

IsDisjointFrom(i, j) == ~IsEmpty(i) /\ ~IsEmpty(j) /\ (Before(i, j) \/ Before(j, i))

IsIntersectingWith(i, j) == ~IsEmpty(i) /\ ~IsEmpty(j) /\ ~IsDisjointFrom(i, j)

\* The end of two that is further inside, or further outside.
Chosen(a, b, first, atTie, ca, cb) ==
    IF Equal(a, b) THEN atTie ELSE IF first THEN ca ELSE cb

\* A mutant: closed where one of the two is.
IntersectionClosedByOne(i, j) ==
    IF IsEmpty(i) \/ IsEmpty(j) THEN Nothing
    ELSE Between(Greatest({i.lo, j.lo}), Least({i.hi, j.hi}),
               Chosen(i.lo, j.lo, Less(j.lo, i.lo), i.lc \/ j.lc, i.lc, j.lc),
               Chosen(i.hi, j.hi, Less(i.hi, j.hi), i.rc \/ j.rc, i.rc, j.rc))

Intersection(i, j) ==
    IF IsEmpty(i) \/ IsEmpty(j) THEN Nothing
    ELSE Between(Greatest({i.lo, j.lo}), Least({i.hi, j.hi}),
               Chosen(i.lo, j.lo, Less(j.lo, i.lo), i.lc /\ j.lc, i.lc, j.lc),
               Chosen(i.hi, j.hi, Less(i.hi, j.hi), i.rc /\ j.rc, i.rc, j.rc))

Hull(i, j) ==
    Between(Least({i.lo, j.lo}), Greatest({i.hi, j.hi}),
          Chosen(i.lo, j.lo, Less(i.lo, j.lo), i.lc \/ j.lc, i.lc, j.lc),
          Chosen(i.hi, j.hi, Less(j.hi, i.hi), i.rc \/ j.rc, i.rc, j.rc))

UnionWith(i, j) ==
    IF IsEmpty(i) \/ IsEmpty(j) THEN Nothing
    ELSE IF IsDisjointFrom(i, j) THEN Throws
    ELSE Hull(i, j)

IsSubsetEqOf(i, j) ==
    \/ IsEmpty(i)
    \/ /\ AtMost(j.lo, i.lo) /\ AtMost(i.hi, j.hi)
       /\ j.lc \/ Less(j.lo, i.lo) \/ ~i.lc
       /\ j.rc \/ Less(i.hi, j.hi) \/ ~i.rc

\* What is left of i without j, as a list of intervals.  Where there are two
\* parts, the second is closed as the first one: the local variable of the one
\* hides the member that the other means.
Difference(i, j) ==
    LET left  == Between(i.lo, j.lo, i.lc, ~j.lc)
        right == Between(j.hi, i.hi, ~j.rc, i.rc)
        rightAfterLeft == Between(j.hi, i.hi, ~j.rc, left.rc)
    IN  CASE IsDisjointFrom(i, j) -> <<i>>
          [] ~IsDisjointFrom(i, j) /\ IsSupersetOf(i, j) -> <<>>
          [] OTHER ->
               IF IsSubsetOf(i, j) THEN <<left, rightAfterLeft>>
               ELSE IF /\ AtMost(j.lo, i.lo)
                       /\ Less(j.hi, i.hi) \/ (Equal(j.hi, i.hi) /\ ~j.rc /\ i.rc) THEN <<right>>
               ELSE IF /\ Less(i.lo, j.lo) \/ (Equal(j.lo, i.lo) /\ ~j.lc /\ i.lc)
                       /\ Less(i.hi, j.hi) \/ (Equal(j.hi, i.hi) /\ (j.rc \/ ~i.rc)) THEN <<left>>
               ELSE <<>>

\* A list in the order of the lower ends.
ByLowerEnd(intervals) ==
    LET before(i, j) == Less(i.lo, j.lo) \/ (Equal(i.lo, j.lo) /\ i.lc /\ ~j.lc)
        places == CHOOSE p \in [DOMAIN intervals -> DOMAIN intervals] :
                      /\ IsInjective(p)
                      /\ \A k, l \in DOMAIN p : k < l => ~before(intervals[p[l]], intervals[p[k]])
    IN  [k \in DOMAIN intervals |-> intervals[places[k]]]

\* An interval joins the last one it meets.
Joined(done, i) ==
    IF done = <<>> \/ IsDisjointFrom(Last(done), i) THEN Append(done, i)
    ELSE Append(Front(done), Hull(Last(done), i))

UnionMulti(intervals) == FoldLeft(Joined, <<>>, ByLowerEnd(intervals))

\* The number of integers.
GetIntervalIntCount(i) ==
    LET span == (RoundedDown(i.hi).is - RoundedUp(i.lo).is) \div Unit
        n    == IF i.lc /\ i.rc THEN span + 1 ELSE IF i.lc \/ i.rc THEN span ELSE span - 1
    IN  IF IsEmpty(i) THEN 0
        ELSE IF IsPoint(i) /\ IsInt(i.lo) THEN 1
        ELSE IF n < 0 THEN Throws ELSE n

GetIntegers(i) == {n \in -9..9 : /\ RoundedUp(i.lo).is <= n * Unit
                                 /\ n * Unit <= RoundedDown(i.hi).is}

(***************************************************************************)
(* Functions of one number.                                                *)
(***************************************************************************)
\* A growing or falling function of both ends, widened to the next numbers.
Widened(lo, hi) ==
    IF Throws \in {lo, hi} THEN Throws ELSE Between(NextBelow(lo), NextAbove(hi), FALSE, FALSE)

Mirrored(i) == Between(Negated(i.hi), Negated(i.lo), i.rc, i.lc)

AbsInterval(i) ==
    IF AtMost(Zero, i.lo) THEN i
    ELSE IF AtMost(i.hi, Zero) THEN Mirrored(i)
    ELSE LET most == Greatest({AbsOf(i.lo), AbsOf(i.hi)})
         IN  Between(Zero, most, TRUE, IF Equal(most, AbsOf(i.lo)) THEN i.lc ELSE i.rc)

\* lb, ln and lg.
Logarithm(f, i) ==
    IF AtMost(i.hi, Zero) THEN Nothing
    ELSE Between(IF AtMost(i.lo, Zero) THEN Negated(Infinity) ELSE NextBelow(Function(f, i.lo)),
               NextAbove(Function(f, i.hi)), FALSE, FALSE)

\* sqrt and safeSqrt.
SquareRoot(i) ==
    IF AtMost(i.hi, Zero) THEN Nothing
    ELSE IF AtMost(i.lo, Zero) THEN Between(Zero, NextAbove(Sqrt(i.hi)), TRUE, FALSE)
    ELSE Widened(Sqrt(i.lo), Sqrt(i.hi))

Pi == 2 * HalfPi

\* Sine and cosine: top is where the function is one, bottom where minus one.
\* A value that is neither is widened, and open.
Crest(least, most, lc, rc) ==
    Between(IF Less(Whole(-1), least) THEN NextBelow(least) ELSE least,
            IF Less(most, One) THEN NextAbove(most) ELSE most,
            lc /\ ~Less(Whole(-1), least), rc /\ ~Less(most, One))

WaveBetween(i, low, high, atLow, atHi, top, bottom) ==
    LET passes(p) == \E q \in {p, p + 2 * Pi} : low <= q /\ q <= high
        up        == Less(atLow, atHi)
    IN  Crest(IF passes(bottom) THEN Whole(-1) ELSE Least({atLow, atHi}),
              IF passes(top) THEN One ELSE Greatest({atLow, atHi}),
              \* a maximum closes the left end, a minimum the right one
              passes(top) \/ (IF up THEN i.lc ELSE i.rc),
              passes(bottom) \/ (IF up THEN i.rc ELSE i.lc))

Wave(f, i, top, bottom) ==
    LET turn == 2 * Pi
        low  == i.lo.is % turn
        upTo == i.hi.is % turn
        high == IF upTo < low THEN upTo + turn ELSE upTo
    IN  IF i.hi.is - i.lo.is >= turn THEN Closed(Whole(-1), One)
        ELSE WaveBetween(i, low, high, Function(f, Real(low)), Function(f, Real(high)), top, bottom)

Tangent(i) ==
    LET normal(t) == IF t >= HalfPi THEN t - Pi ELSE t
        low     == normal(i.lo.is % Pi)
        high    == normal(i.hi.is % Pi)
        ends    == {Function("tan", i.lo), Function("tan", i.hi)}
    IN  IF \/ low <= -HalfPi /\ high >= -HalfPi
           \/ low <= HalfPi /\ high >= HalfPi THEN Everything
        ELSE Widened(Least(ends), Greatest(ends))

\* Growing, falling and even functions.  acot and coth are not widened.
Growing(f, i) == Widened(Function(f, i.lo), Function(f, i.hi))

ArcCosine(i) ==
    IF Less(i.lo, Whole(-1)) \/ Less(One, i.hi) THEN Throws
    ELSE Between(Function("acos", i.hi), Function("acos", i.lo), i.rc, i.lc)

FallingInside(f, i) == Between(Function(f, i.hi), Function(f, i.lo), FALSE, FALSE)

CoshBetween(i, atLow, atHigh) ==
    LET high == NextAbove(Greatest({atLow, atHigh}))
        low  == NextBelow(Least({atLow, atHigh}))
    IN  IF \/ Less(i.lo, Zero) /\ Less(Zero, i.hi)
           \/ Less(low, One) THEN Between(One, high, TRUE, FALSE)
        ELSE Between(low, high, FALSE, FALSE)

Cosh(i) == CoshBetween(i, Function("cosh", i.lo), Function("cosh", i.hi))

\* 0 is in the interval or one of its ends.
SpansZero(i) == AtMost(i.lo, Zero) /\ AtMost(Zero, i.hi)

(***************************************************************************)
(* Arithmetic of two intervals.                                            *)
(***************************************************************************)
\* The four combinations of the ends, in the order in which they are compared.
Corners(op(_, _), i, j) ==
    << [at |-> op(i.lo, j.lo), closed |-> i.lc /\ j.lc],
       [at |-> op(i.lo, j.hi), closed |-> i.lc /\ j.rc],
       [at |-> op(i.hi, j.lo), closed |-> i.rc /\ j.lc],
       [at |-> op(i.hi, j.hi), closed |-> i.rc /\ j.rc] >>

\* From the least to the greatest corner, each closed as the first that is equal.
Box(corners) ==
    LET ats      == {c.at : c \in ToSet(corners)}
        first(a) == corners[SelectInSeq(corners, LAMBDA c : Equal(c.at, a))].closed
    IN  IF Throws \in ats THEN Throws
        ELSE Between(Least(ats), Greatest(ats), first(Least(ats)), first(Greatest(ats)))

BoxSum(i, j)  == Between(Plus(i.lo, j.lo), Plus(i.hi, j.hi), i.lc /\ j.lc, i.rc /\ j.rc)
\* A mutant: the lower end without the other lower end.
DiffOfSameEnds(i, j) == Between(Minus(i.lo, j.lo), Minus(i.hi, j.hi), i.lc /\ j.lc, i.rc /\ j.rc)

Diff(i, j)    == Between(Minus(i.lo, j.hi), Minus(i.hi, j.lo), i.lc /\ j.rc, i.rc /\ j.lc)
Product(i, j) == Box(Corners(Times, i, j))

HasZero(j) ==
    \/ Less(j.lo, Zero) /\ Less(Zero, j.hi)
    \/ Equal(j.lo, Zero) /\ j.lc
    \/ Equal(j.hi, Zero) /\ j.rc

FloorOrThrow(a)   == IF a = Throws THEN a ELSE RoundedDown(a)
IntQuotient(a, b) == FloorOrThrow(Quotient(a, b))

Divided(quotient(_, _), i, j) ==
    IF HasZero(j) THEN Everything
    ELSE IF i.lo.is = 0 /\ i.hi.is = 0 THEN Closed(Zero, Zero)
    ELSE Box(Corners(quotient, i, j))

Reciprocal(i) == IF IsEmpty(i) THEN Nothing ELSE Divided(Quotient, Closed(One, One), i)

ModInterval(i, j) ==
    LET most == Minus(Greatest({AbsOf(j.lo), AbsOf(j.hi)}), One)
    IN  IF HasZero(j) THEN Throws
        ELSE IF Less(i.hi, most) THEN Between(Zero, i.hi, TRUE, i.rc)
        ELSE Closed(Zero, most)

\* With a number.
Shifted(i, a, by(_, _)) == Between(by(i.lo, a), by(i.hi, a), i.lc, i.rc)

Scaled(i, a) ==
    IF Less(Zero, a) THEN Shifted(i, a, Times)
    ELSE IF Less(a, Zero) THEN Between(Times(i.hi, a), Times(i.lo, a), i.rc, i.lc)
    ELSE IF i.lc /\ i.rc THEN Closed(Zero, Zero) ELSE Nothing

DividedBy(quotient(_, _), i, a) ==
    IF a.is = 0 THEN Throws
    ELSE IF Less(Zero, a) THEN Shifted(i, a, quotient)
    ELSE Between(quotient(i.hi, a), quotient(i.lo, a), i.rc, i.lc)

ModNumber(i, a) ==
    LET most == Minus(a, One)
    IN  IF ~Less(Zero, a) THEN Throws
        ELSE IF Less(i.hi, most) THEN Between(Zero, i.hi, TRUE, i.rc)
        ELSE Between(Zero, most, TRUE, Less(most, i.lo) => i.lc)

(***************************************************************************)
(* Powers.                                                                 *)
(***************************************************************************)
\* isInteger: of integers and of reals without a fraction.
IsWhole(a) == ~IsInfinity(a) /\ a.is % Unit = 0

\* An infinite exponent: FallsThrough where the code goes on as with any real one.
FallsThrough == [fallsThrough |-> TRUE]

InfinitePow(i, e) ==
    LET beyond == Between(Infinity, Infinity, FALSE, FALSE)
        small  == Between(Zero, NextAbove(Zero), FALSE, FALSE)
        inUnit == AtMost(Zero, i.lo) /\ AtMost(i.hi, One)
    IN  IF e.is > 0
        THEN CASE Less(One, i.lo)  -> beyond
               [] inUnit           -> IF i.lo.is = 0 /\ Equal(i.hi, One) THEN Closed(Zero, One) ELSE small
               [] Less(i.lo, Zero) -> Throws
               [] OTHER            -> FallsThrough
        ELSE CASE Less(One, i.lo)  -> small
               [] inUnit           -> IF Equal(i.hi, One) THEN Between(One, Infinity, TRUE, FALSE) ELSE beyond
               [] OTHER            -> Throws

\* A real exponent that is not whole.
RealPow(i, e) ==
    LET up == Between(NextBelow(Pow(i.lo, e)), NextAbove(Pow(i.hi, e)), i.lc, i.rc)
    IN  IF Less(Zero, i.lo)
        THEN IF ~IsInfinity(i.lo) /\ ~IsInfinity(i.hi) THEN up
             ELSE IF e.is > 0 THEN Between(Infinity, Infinity, FALSE, FALSE)
             ELSE Between(Zero, NextAbove(Zero), FALSE, FALSE)
        ELSE IF e.is < 0 \/ AtMost(i.hi, Zero) THEN Throws
        ELSE Between(Zero, NextAbove(Pow(i.hi, e)), TRUE, FALSE)

PowNumber(i, e) ==
    LET even    == (e.is \div Unit) % 2 = 0
        up      == Between(Pow(i.lo, e), Pow(i.hi, e), i.lc, i.rc)
        down    == Between(Pow(i.hi, e), Pow(i.lo, e), i.rc, i.lc)
    IN  CASE IsInfinity(e) /\ InfinitePow(i, e) # FallsThrough -> InfinitePow(i, e)
          [] IsWhole(e) /\ e.is = 0 -> Closed(One, One)
          [] IsWhole(e) /\ e.is > 0 ->
               IF ~even \/ AtMost(Zero, i.lo) THEN up
               ELSE IF AtMost(i.hi, Zero) THEN down
               ELSE Between(Zero, Greatest({Pow(AbsOf(i.lo), e), Pow(AbsOf(i.hi), e)}), TRUE,
                          IF Less(AbsOf(i.hi), AbsOf(i.lo)) THEN i.lc ELSE i.rc)
          [] IsWhole(e) /\ e.is < 0 ->
               IF SpansZero(i) THEN Throws
               ELSE IF even /\ Less(i.hi, Zero) THEN up ELSE down
          [] OTHER -> RealPow(i, e)

\* A power of a point: closed where it can be computed with integers; only
\* powers of two keep an open end.  With an end that is no number the
\* interval holds nothing.
PowOfPoint(a, e) ==
    LET exact(x) == IsWhole(x) /\ IsWhole(a)
        twos     == Equal(a, Whole(2))
    IN  IF NaN \in {Pow(a, e.lo), Pow(a, e.hi)} THEN Nothing
        ELSE Between(IF exact(e.lo) THEN Pow(a, e.lo) ELSE NextBelow(Pow(a, e.lo)),
              IF exact(e.hi) THEN Pow(a, e.hi) ELSE NextAbove(Pow(a, e.hi)),
                  exact(e.lo) /\ (twos => e.lc), exact(e.hi) /\ (twos => e.rc))

PowInterval(i, e) ==
    IF IsPoint(e) THEN PowNumber(i, e.lo)
    ELSE IF IsPoint(i) THEN
         IF i.lo.is \in {0, Unit} THEN Closed(i.lo, i.lo) ELSE PowOfPoint(i.lo, e)
    ELSE IF Less(Zero, i.lo) THEN Box(Corners(Pow, i, e))
    ELSE Throws

(***************************************************************************)
(* Angles.                                                                 *)
(***************************************************************************)
Atan2(y, x) == Real(AngleOf(y.is, x.is))

\* Limited to half a turn each way, or widened.
Clamped(lo, hi) ==
    LET below == lo.is < -Pi
        above == hi.is > Pi
    IN  Between(IF below THEN Real(-Pi) ELSE NextBelow(lo), IF above THEN Real(Pi) ELSE NextAbove(hi),
              below, above)

AllAngles == Closed(Real(-Pi), Real(Pi))

Atan2Number(i, x) ==
    LET ends == {Atan2(i.lo, x), Atan2(i.hi, x)}
    IN  IF Less(i.lo, Zero) /\ Less(Zero, i.hi) /\ Less(x, Zero) THEN AllAngles
        ELSE Clamped(Least(ends), Greatest(ends))

Atan2Interval(i, j) ==
    LET crosses(k) == Less(k.lo, Zero) /\ Less(Zero, k.hi)
        corners == {c.at : c \in ToSet(Corners(Atan2, i, j))}
        span    == Minus(Greatest(corners), Least(corners))
    IN  CASE SpansZero(i) /\ SpansZero(j) -> AllAngles
          [] crosses(i) /\ Less(j.hi, Zero) -> AllAngles
          [] crosses(i) /\ Less(Zero, j.lo) -> Closed(Real(-HalfPi), Real(HalfPi))
          [] crosses(j) /\ Less(Zero, i.lo) -> Closed(Zero, Real(Pi))
          [] crosses(j) /\ Less(i.hi, Zero) -> Closed(Real(-Pi), Zero)
          [] OTHER -> IF span.is > Pi THEN AllAngles ELSE Clamped(Least(corners), Greatest(corners))

(***************************************************************************)
(* operate: the operation for a kind of term.                              *)
(***************************************************************************)
Then(g(_), j)  == IF j = Throws THEN j ELSE IF IsEmpty(j) THEN Nothing ELSE g(j)
Apart(j)       == IF Holds(j, Zero) THEN Everything ELSE Reciprocal(j)
OfInverse(g(_), i) == Then(g, Reciprocal(i))

Sine(i)   == Wave("sin", i, HalfPi, 3 * HalfPi)
Cosine(i) == Wave("cos", i, 0, Pi)

\* cot, sec and csc.
ReciprocalWave(f, i) ==
    CASE f = "cot" -> Apart(Tangent(i))
      [] f = "sec" -> Apart(Cosine(i))
      [] f = "csc" -> Apart(Sine(i))

ArcFunction(f, i) ==
    CASE f \in {"asin", "atan"} -> Growing(f, i)
      [] f = "acos"             -> ArcCosine(i)
      [] f = "acot"             -> FallingInside(f, i)
      [] f \in {"asec", "acsc"} ->
           IF Less(Whole(-1), i.lo) /\ Less(i.hi, One) THEN Throws
           ELSE IF AtMost(i.lo, Whole(-1)) /\ AtMost(One, i.hi)
                THEN IF f = "asec" THEN Closed(Zero, Real(Pi)) ELSE Closed(Real(-HalfPi), Real(HalfPi))
           ELSE IF f = "asec" THEN OfInverse(ArcCosine, i)
           ELSE OfInverse(LAMBDA j : Growing("asin", j), i)

\* Those of the hyperbola but cosh.
HyperbolicOf(f, i) ==
    CASE f \in {"sinh", "tanh"} -> Growing(f, i)
      [] f = "coth" -> IF SpansZero(i) THEN Everything ELSE FallingInside(f, i)
      [] f = "sech" -> LET j == Reciprocal(Cosh(i))
                       IN  Between(j.lo, Least({j.hi, One}), FALSE, AtMost(One, j.hi))
      [] f = "csch" -> IF SpansZero(i) THEN Everything
                       ELSE [Reciprocal(Growing("sinh", i)) EXCEPT !.lc = FALSE, !.rc = FALSE]

InverseHyperbolic(f, i) ==
    CASE f \in {"asinh", "acosh", "atanh"} -> Growing(f, i)
      [] f = "acoth" -> IF AtMost(Whole(-1), i.lo) /\ AtMost(i.hi, One) THEN Throws
                        ELSE OfInverse(LAMBDA j : Growing("atanh", j), i)
      [] f = "asech" -> IF AtMost(i.lo, Zero) \/ Less(One, i.hi) THEN Throws
                        ELSE OfInverse(LAMBDA j : Growing("acosh", j), i)
      [] f = "acsch" -> IF SpansZero(i) THEN Throws
                        ELSE OfInverse(LAMBDA j : Growing("asinh", j), i)

Operate1(f, i) ==
    IF IsEmpty(i) THEN Nothing ELSE
    CASE f = "neg"                   -> Mirrored(i)
      [] f = "abs"                   -> AbsInterval(i)
      [] f = "exp"                   -> Growing(f, i)
      [] f \in {"lb", "ln", "lg"}    -> Logarithm(f, i)
      [] f = "sqrt"                  -> SquareRoot(i)
      [] f = "sin"                   -> Sine(i)
      [] f = "cos"                   -> Cosine(i)
      [] f = "tan"                   -> Tangent(i)
      [] f \in {"cot", "sec", "csc"} -> ReciprocalWave(f, i)
      [] f \in {"asin", "acos", "atan", "acot", "asec", "acsc"} -> ArcFunction(f, i)
      [] f = "cosh"                  -> Cosh(i)
      [] f \in {"sinh", "tanh", "coth", "sech", "csch"} -> HyperbolicOf(f, i)
      [] f \in {"asinh", "acosh", "atanh", "acoth", "asech", "acsch"} -> InverseHyperbolic(f, i)

Operate2(op, i, j) ==
    IF IsEmpty(i) \/ IsEmpty(j) THEN Throws ELSE
    CASE op = "+"     -> BoxSum(i, j)
      [] op = "-"     -> Diff(i, j)
      [] op = "*"     -> Product(i, j)
      [] op = "/"     -> Divided(Quotient, i, j)
      [] op = "div"   -> Divided(IntQuotient, i, j)
      [] op = "mod"   -> ModInterval(i, j)
      [] op = "pow"   -> PowInterval(i, j)
      [] op = "atan2" -> Atan2Interval(i, j)
      [] op = "and"   -> IF IsIntersectingWith(i, j) THEN Intersection(i, j) ELSE Nothing
      [] op = "or"    -> IF IsDisjointFrom(i, j)
                         THEN [Hull(i, j) EXCEPT !.lc = FALSE, !.rc = FALSE]
                         ELSE UnionWith(i, j)

OperateNumber(op, i, a) ==
    IF IsEmpty(i) THEN Nothing ELSE
    CASE op = "+"     -> Shifted(i, a, Plus)
      [] op = "-"     -> Shifted(i, a, Minus)
      [] op = "*"     -> Scaled(i, a)
      [] op = "/"     -> DividedBy(Quotient, i, a)
      [] op = "div"   -> DividedBy(IntQuotient, i, a)
      [] op = "mod"   -> ModNumber(i, a)
      [] op = "pow"   -> PowNumber(i, a)
      [] op = "atan2" -> Atan2Number(i, a)

\* +=, -=, *= and /= by a number change the ends in place.
Changed(op, i, a) ==
    LET ends(by(_, _)) == Between(Updated(i.lo, a, by(i.lo, a)), Updated(i.hi, a, by(i.hi, a)), i.lc, i.rc)
        cut(x, y)      == IF IsInt(x) /\ IsInt(y) THEN Whole(Truncated(x.is, y.is)) ELSE Quotient(x, y)
    IN  CASE op = "+="                      -> ends(Plus)
          [] op = "-="                      -> ends(Minus)
          [] op = "*=" /\ AtMost(Zero, a)   -> ends(Times)
          [] op = "*=" /\ Less(a, Zero)     -> Between(Times(i.hi, a), Times(i.lo, a), i.rc, i.lc)
          [] op = "/=" /\ a.is = 0          -> Throws
          [] op = "/=" /\ Less(Zero, a)     -> ends(cut)
          [] op = "/=" /\ Less(a, Zero)     -> Between(Quotient(i.hi, a), Quotient(i.lo, a), i.rc, i.lc)

\* The comparisons: of all numbers of the one with all of the other.
Below(i, j)   == Before(i, j)
NotAbove(i, j) == ~Before(j, i)
=============================================================================
