-------------------------------- MODULE Value -------------------------------
(***************************************************************************)
(* The values of the parser's library: numbers and intervals under one set *)
(* of operations, which choose the one for the types of their operands and *)
(* throw if there is none.  An interval stands for any one of its numbers, *)
(* so an operation on intervals has to hold what it makes of the numbers.  *)
(***************************************************************************)
EXTENDS Interval, FiniteSets

CONSTANTS Ends,   \* the numbers the intervals of the instance begin and end with
          Inside  \* numbers to take from them: between any two ends there is one

ASSUME EndsAssumption ==
    /\ Ends \subseteq Inside
    /\ Inside \subseteq [type : {"int", "real"}, is : Int]
    /\ \A a \in Inside : IsInt(a) => a = Whole(a.is \div Unit)
    /\ \A a, b \in Ends : Less(a, b) => \E x \in Inside : Less(a, x) /\ Less(x, b)

VARIABLE asked   \* the question a function was asked, if any

IsNumber(v) == "type" \in DOMAIN v

(***************************************************************************)
(* The operations of Value.                                                *)
(***************************************************************************)
ElementaryNames == {"sin", "cos", "tan", "sqrt", "exp", "ln", "abs"}

\* neg, safeSqrt, lg and lb.
OtherNames == {"neg", "safesqrt", "lg", "lb"}

AngleNames ==
    {"cot", "sec", "csc", "asin", "acos", "atan", "acot", "asec", "acsc"}

HyperbolicNames ==
    {"sinh", "cosh", "tanh", "coth", "sech", "csch",
     "asinh", "acosh", "atanh", "acoth", "asech", "acsch"}

\* image is what the operation on intervals makes of v.
Elementary(f, v, image) ==
    CASE ~IsNumber(v)               -> image
      [] IsNumber(v) /\ f = "sqrt"  -> Sqrt(v)
      [] IsNumber(v) /\ f = "abs"   -> AbsOf(v)
      [] IsNumber(v) /\ f \notin {"sqrt", "abs"} -> Function(f, v)

Other(f, v, image) ==
    CASE ~IsNumber(v)                  -> image
      [] IsNumber(v) /\ f = "neg"      -> Negated(v)
      [] IsNumber(v) /\ f = "safesqrt" -> SafeSqrt(v)
      [] IsNumber(v) /\ f \in {"lg", "lb"} -> Function(f, v)

OfAngles(f, v, image)     == IF IsNumber(v) THEN Function(f, v) ELSE image
OfHyperbolas(f, v, image) == IF IsNumber(v) THEN Function(f, v) ELSE image

FunctionOrImage(f, v, image) ==
    CASE f \in ElementaryNames -> Elementary(f, v, image)
      [] f \in OtherNames      -> Other(f, v, image)
      [] f \in AngleNames      -> OfAngles(f, v, image)
      [] f \in HyperbolicNames -> OfHyperbolas(f, v, image)

ValueFunction(f, v) == FunctionOrImage(f, v, Operate1(IF f = "safesqrt" THEN "sqrt" ELSE f, v))

\* +, -, *, / and %.
ValueArithmetic(op, v, w) ==
    IF IsNumber(v) # IsNumber(w) THEN Throws
    ELSE IF ~IsNumber(v)
    THEN IF IsEmpty(v) \/ IsEmpty(w) THEN Nothing ELSE Operate2(op, v, w)
    ELSE CASE op = "+"   -> Plus(v, w)
           [] op = "-"   -> Minus(v, w)
           [] op = "*"   -> Times(v, w)
           [] op = "/"   -> Quotient(v, w)
           [] op = "mod" -> Remainder(v, w)

\* The exponent of an interval may be a number.
ValuePow(v, w) ==
    CASE IsNumber(v) /\ IsNumber(w)   -> Pow(v, w)
      [] ~IsNumber(v) /\ ~IsNumber(w) ->
           IF IsEmpty(v) \/ IsEmpty(w) THEN Nothing ELSE PowInterval(v, w)
      [] ~IsNumber(v) /\ IsNumber(w)  -> IF IsEmpty(v) THEN Nothing ELSE PowNumber(v, w)
      [] IsNumber(v) /\ ~IsNumber(w)  -> Throws

\* ++ and --: both ends of an interval move.
Moved(v, by) ==
    IF IsNumber(v) THEN Plus(v, by)
    ELSE IF IsEmpty(v) THEN Nothing ELSE Shifted(v, by, Plus)

(***************************************************************************)
(* What is asked of the values.                                            *)
(***************************************************************************)
Intervals == {i \in {Between(lo, hi, lc, rc) : lo, hi \in Ends, lc, rc \in BOOLEAN} :
                 AtMost(i.lo, i.hi)}

ValueNames == ElementaryNames \cup OtherNames \cup AngleNames \cup HyperbolicNames

ValueQuestions ==
         [about : {"function"}, op : ValueNames, of : Intervals]
    \cup [about : {"arithmetic"}, op : {"+", "-", "*", "/", "div", "mod", "pow", "atan2"},
          of : {i \in Intervals : i.lc /\ i.rc}, with : {i \in Intervals : i.lc /\ i.rc}]
    \cup [about : {"number"}, op : {"+", "-", "*", "/", "div", "mod", "pow", "atan2", "+=", "-=", "*=", "/="},
          of : Intervals, with : Ends]
    \cup [about : {"sets"}, of : Intervals, with : Intervals]

NotAsked == [about |-> "none"]

\* A function is asked one of the questions.
AskOne(questions) == asked = NotAsked /\ asked' \in questions

AskValue == AskOne(ValueQuestions)

ValueSpec == asked = NotAsked /\ [][AskValue]_asked

ValueResult(q) ==
    CASE q.about = "function" -> ValueFunction(q.op, q.of)
      [] q.about = "arithmetic" /\ q.op \in {"div", "atan2"} -> Operate2(q.op, q.of, q.with)
      [] q.about # "function" /\ q.op = "pow" -> ValuePow(q.of, q.with)
      [] q.about = "arithmetic" /\ q.op \in {"+", "-", "*", "/", "mod"} -> ValueArithmetic(q.op, q.of, q.with)
      [] q.about = "number" /\ q.op \in {"+=", "-=", "*=", "/="} -> Changed(q.op, q.of, q.with)
      [] q.about = "number" /\ q.op \in {"+", "-", "*", "/", "div", "mod", "atan2"} -> OperateNumber(q.op, q.of, q.with)

OfUpdate ==
    [op \in {"+=", "-=", "*=", "/="} |->
        CASE op = "+=" -> "+" [] op = "-=" -> "-" [] op = "*=" -> "*" [] op = "/=" -> "/"]

ResultOfNumbers(op, a, b) ==
    CASE op \in {"+", "-", "*", "/", "mod"} -> ValueArithmetic(op, a, b)
      [] op \in {"+=", "-=", "*=", "/="}    -> ValueArithmetic(OfUpdate[op], a, b)
      [] op = "div"          -> IntQuotient(a, b)
      [] op = "pow"          -> ValuePow(a, b)
      [] op = "atan2"        -> Atan2(a, b)

IsValue(a) == a \notin {Throws, NaN} /\ Abs(a.is) # Huge

Taken(i) == {a \in Inside : Holds(i, a)}

\* The values the numbers of the operands have.
Values(q) ==
    {a \in CASE q.about = "function"   -> {ValueFunction(q.op, x) : x \in Taken(q.of)}
             [] q.about = "arithmetic" -> {ResultOfNumbers(q.op, x, y) : x \in Taken(q.of), y \in Taken(q.with)}
             [] q.about = "number"     -> {ResultOfNumbers(q.op, x, q.with) : x \in Taken(q.of)} :
       IsValue(a)}

(***************************************************************************)
(* Where the operations are right.                                         *)
(***************************************************************************)
\* A multiple of half a turn, p further on, lies between the ends.
PassesPole(i, p) == \E k \in -9..9 : LET x == p + k * Pi IN i.lo.is <= x /\ x <= i.hi.is

\* The function has no value at an end of the interval or jumps inside.
Jumps(f, i) ==
    \/ f \in {"ln", "lg", "lb"} /\ AtMost(i.lo, Zero)
    \/ f \in {"tan", "sec"} /\ PassesPole(i, HalfPi)
    \/ f \in {"cot", "csc"} /\ PassesPole(i, 0)
    \/ f = "cot" /\ PassesPole(i, HalfPi)
    \/ f \in {"coth", "csch", "acsch", "asec", "acsc", "acoth"} /\ SpansZero(i)

HasFraction(i) == ~IsInt(i.lo) \/ ~IsInt(i.hi)

\* Left out, because the code gets them wrong: the roots of whole numbers,
\* rounded down, beside real ends; the interval of a root that ends at zero;
\* acot and coth, which leave their ends out; asech, which is tanh on numbers;
\* the half axis where atan2 jumps; a negative dividend or a modulus with a
\* fraction; powers of a point that is not positive; the in-place operations
\* that mix integers with reals or divide one without a remainder; products of
\* an open interval with 0.
Suited(q) ==
    CASE q.about = "function" ->
           /\ ~Jumps(q.op, q.of)
           /\ q.op \notin {"acot", "coth", "asech"}
           /\ q.op \in {"sqrt", "safesqrt"} => ~HasFraction(q.of) /\ Less(Zero, q.of.hi)
      [] q.about = "arithmetic" ->
           /\ q.op \in {"/", "div"} => ~HasZero(q.with)
           /\ q.op = "mod" => AtMost(Zero, q.of.lo) /\ ~HasFraction(q.with)
           /\ q.op = "pow" /\ IsPoint(q.of) /\ ~IsPoint(q.with) => Less(Zero, q.of.lo)
      [] q.about = "number" ->
           /\ q.op = "*" => q.with.is # 0
           /\ q.op = "mod" => AtMost(Zero, q.of.lo) /\ IsInt(q.with)
           /\ q.op = "atan2" /\ Less(q.with, Zero) => ~Equal(q.of.hi, Zero)
           /\ q.op \in {"+=", "-=", "*="} => IsInt(q.with)
           /\ q.op = "/=" => IsInt(q.with) /\ \A end \in {q.of.lo, q.of.hi} :
                                IsInt(end) => q.with # Zero /\ end.is % Abs(q.with.is) = 0

(***************************************************************************)
(* Properties of one question.                                             *)
(***************************************************************************)
\* Between the ends of i, or one part of them away.
Near(i, a) == i.lo.is - 1 <= a.is /\ a.is <= i.hi.is + 1

\* The operations computed by a reciprocal of a rounded interval.
ByReciprocal == {"cot", "sec", "csc", "sech", "csch"}

\* An operation holds what it makes of the numbers of its operands: those with
\* an interval of closed ends exactly, all of them up to one part of rounding
\* and to the ends.
KeepsValuesIn(q, result) ==
    Suited(q) /\ ~IsEmpty(q.of) /\ result # Throws =>
        \A a \in Values(q) :
            /\ Near(result, a)
            /\ q.of.lc /\ q.of.rc /\ q.op \notin ByReciprocal => Holds(result, a)

KeepsValues(q) == KeepsValuesIn(q, ValueResult(q))

\* Nothing is left of i, but the difference closes the end where both are open.
ClosesOpenEnd(i, j) == Less(j.lo, i.lo) /\ Equal(i.hi, j.hi) /\ ~i.rc /\ ~j.lc /\ ~j.rc

\* The operations on intervals are those on the sets of their numbers.  Of an
\* empty interval only some can be asked, a union is one of intervals that
\* meet, and the difference is wrong in two cases: if the other lies within, it
\* is empty, whatever is left; if the other is open, begins earlier and ends at
\* the same open end, it is that end, a number neither holds.
ActsAsSets(i, j) ==
    LET xs       == Taken(i)
        ys       == Taken(j)
        union    == UnionWith(i, j)
        covers(s) == UNION {Taken(s[k]) : k \in DOMAIN s}
    IN  /\ ~HasFraction(i) =>
              GetIntervalIntCount(i) =
                  Cardinality({n \in (i.lo.is \div Unit)..(i.hi.is \div Unit) : Holds(i, Whole(n))})
        /\ IsSubsetOf(i, j) <=> xs \subseteq ys
        /\ IsSubsetEqOf(i, j) <=> xs \subseteq ys
        /\ Taken(Intersection(i, j)) = xs \cap ys
        /\ IsIntersectingWith(i, j) <=> xs \cap ys # {}
        /\ ~IsEmpty(i) /\ ~IsEmpty(j) =>
              /\ IsSupersetOf(i, j) <=> ys \subseteq xs
              /\ IsDisjointFrom(i, j) <=> xs \cap ys = {}
              /\ union # Throws <=> xs \cap ys # {}
              /\ union # Throws => Taken(union) = xs \cup ys
              /\ covers(UnionMulti(<<i, j>>)) = xs \cup ys
              /\ covers(Difference(i, j)) =
                     IF ClosesOpenEnd(i, j) THEN {a \in Inside : Equal(a, i.hi)}
                     ELSE IF ys \subseteq xs THEN {} ELSE xs \ ys
              /\ Below(i, j) <=> \A a \in xs, b \in ys : Less(a, b)
              /\ NotAbove(i, j) <=> \E a \in xs, b \in ys : AtMost(a, b)

(* An operation on intervals holds whatever the operation on numbers makes *)
(* of their numbers, but for the cases Suited leaves out (value.cpp,       *)
(* interval.cpp).                                                          *)
IntervalsKeepValues ==
    asked.about \in {"function", "arithmetic", "number"} => KeepsValues(asked)

(* Intersection, union and the tests on intervals are those of the sets of *)
(* numbers they hold, and so is the difference, but for the two cases that *)
(* ActsAsSets names (interval.cpp).                                        *)
IntervalsActAsSets == asked.about = "sets" => ActsAsSets(asked.of, asked.with)
=============================================================================
