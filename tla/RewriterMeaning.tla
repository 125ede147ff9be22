--------------------------- MODULE RewriterMeaning ---------------------------
(***************************************************************************)
(* What SMT-LIB says of the operators of the rewriter: of constants, and   *)
(* so of terms when their variables have values.  A rewritten term has to  *)
(* mean what was written.                                                  *)
(***************************************************************************)
EXTENDS Rewriter

\* Whatever it is, the standard does not say: a quotient by zero.
Unspecified == [is |-> "unspecified"]

Remainder0(x, y) == x % Magnitude(y)
\* With a remainder that is not negative.
Quotient0(x, y) == IF y > 0 THEN x \div y ELSE -(x \div (-y))

Less8(a, b) == ToReal(a) < ToReal(b)
SameNumber(a, b) == ToReal(a) = ToReal(b)
Same(a, b) == IF IsNumeral(a) /\ IsNumeral(b) /\ Len(a.val) = 1 /\ Len(b.val) = 1
              THEN SameNumber(a, b) ELSE a.sort = b.sort /\ a.val = b.val

Mixed(a) == \E i \in DOMAIN a : IsCReal(a[i])
Sum(a, f(_, _)) == IF Mixed(a) THEN Real1(FoldLeft(LAMBDA x, c : f(x, ToReal(c)), ToReal(a[1]), Tail(a)))
                   ELSE Int1(FoldLeft(LAMBDA x, c : f(x, ToInt(c)), ToInt(a[1]), Tail(a)))

Chained(a, r(_, _)) == \A i \in 1..Len(a) - 1 : r(a[i], a[i + 1])

Bits2(a) == Parsed(a.val)
OfBits(b) == Const("BV", Text(b))

(***************************************************************************)
(* The operators, of constants.                                            *)
(***************************************************************************)
OfBooleans(op, a) ==
    LET truths == {i \in DOMAIN a : a[i] = True}
    IN  Truth(CASE op = "not" -> a[1] = False
                [] op = "and" -> truths = DOMAIN a
                [] op = "or"  -> truths # {}
                [] op = "xor" -> Cardinality(truths) % 2 = 1
                [] op = "=>"  -> Last(a) = True \/ \E i \in 1..Len(a) - 1 : a[i] = False)

OfNumbers(op, a) ==
    LET x == a[1]
        n == ToInt(a[1])
        wholes == \A i \in DOMAIN a : IsCInt(a[i])
    IN  CASE op = "+" -> Sum(a, +)
          [] op = "-" -> Sum(a, -)
          [] op = "*" -> IF Mixed(a) THEN Real1(FoldLeft(LAMBDA z, c : (z * ToReal(c)) \div Parts, Parts, a))
                         ELSE Sum(a, *)
          [] op \in {"neg", "abs"} -> [x EXCEPT !.val[1] = IF op = "neg" THEN -@ ELSE Magnitude(@)]
          [] op = "<"  -> Truth(Chained(a, Less8))
          [] op = "<=" -> Truth(Chained(a, LAMBDA c, d : ~Less8(d, c)))
          [] op = ">"  -> Truth(Chained(a, LAMBDA c, d : Less8(d, c)))
          [] op = ">=" -> Truth(Chained(a, LAMBDA c, d : ~Less8(c, d)))
          [] op \in {"max", "min"} ->
               CHOOSE m \in ToSet(a) : \A c \in ToSet(a) : IF op = "max" THEN ~Less8(m, c) ELSE ~Less8(c, m)
          [] op = "iand" -> Int1(FoldLeft(LAMBDA z, c : AndOf(z, ToInt(c)), n, Tail(a)))
          [] op = "div" -> IF \E i \in 2..Len(a) : ToReal(a[i]) = 0 THEN Unspecified
                           ELSE IF Mixed(a) THEN Int1(Quotient0(ToReal(a[1]), ToReal(a[2])))
                           ELSE Int1(FoldLeft(LAMBDA z, c : Quotient0(z, ToInt(c)), n, Tail(a)))
          [] op = "mod" -> IF ToInt(a[2]) = 0 THEN Unspecified ELSE Int1(Remainder0(n, ToInt(a[2])))
          [] op = "ceil"    -> IF IsCInt(x) THEN x ELSE Real1(Parts * (-((-ToReal(x)) \div Parts)))
          [] op = "floor"   -> IF IsCInt(x) THEN x ELSE Real1(Parts * (ToReal(x) \div Parts))
          [] op = "round"   -> IF IsCInt(x) THEN x ELSE Real1(Parts * Round(ToReal(x)))
          [] op = "to_int"  -> Int1(ToReal(x) \div Parts)
          [] op = "to_real" -> IF IsCInt(x) THEN Real1(ToReal(x)) ELSE x
          [] op = "is_int"  -> Truth(ToReal(x) % Parts = 0)
          [] op = "is_prime" -> Truth(Cardinality({d \in 1..n : n % d = 0}) = 2)
          [] op = "is_even" -> Truth(n % 2 = 0)
          [] op = "is_odd"  -> Truth(n % 2 = 1)
          [] op = "fact"    -> IF n < 0 THEN Unspecified ELSE Int1(Factorial(n))
          [] op = "pow2"    -> IF n < 0 THEN Int1(0) ELSE Int1(2^n)
          [] op = "divisible" -> IF ToInt(a[2]) = 0 THEN Unspecified ELSE Truth(n % Magnitude(ToInt(a[2])) = 0)
          [] op = "gcd" -> LET ds == {d \in 1..12 : n % d = 0 /\ ToInt(a[2]) % d = 0}
                           IN  IF n = 0 /\ ToInt(a[2]) = 0 THEN Int1(0)
                               ELSE Int1(CHOOSE d \in ds : \A e \in ds : e <= d)
          [] op = "lcm" -> IF n = 0 \/ ToInt(a[2]) = 0 THEN Int1(0)
                           ELSE LET ms == {m \in 1..Magnitude(n * ToInt(a[2])) :
                                             m % Magnitude(n) = 0 /\ m % Magnitude(ToInt(a[2])) = 0}
                                IN  Int1(CHOOSE m \in ms : \A k \in ms : m <= k)

\* Functions the rewriter computes are only given their names here, with what
\* undoes them; a power of zero or one is known.
OfFunctions(op, a) ==
    LET x == ToReal(a[1])
    IN  CASE op = "pow" -> CASE SameNumber(a[2], Int1(0)) \/ SameNumber(a[1], Int1(1)) -> Real1(Parts)
                             [] SameNumber(a[2], Int1(1)) -> a[1]
                             [] OTHER -> Const("Real", <<x, ToReal(a[2]), "pow">>)
          [] op = "log" -> CASE SameNumber(a[2], Int1(1)) -> Unspecified
                             [] SameNumber(a[1], Int1(1)) -> Real1(0)
                             [] Same(a[1], a[2]) -> Real1(Parts)
                             [] OTHER -> Const("Real", <<x, ToReal(a[2]), "log">>)
          [] OTHER -> IF Len(a[1].val) = 2 /\ Undoes(op, a[1].val[2]) THEN Real1(a[1].val[1])
                      ELSE Const("Real", <<x, op>>)

Nary == {"bvand", "bvor", "bvxor", "bvadd", "bvmul"}

Binary(op, x, y) ==
    CASE op = "bvand" -> Ibvand(x, y)
      [] op = "bvor"  -> Ibvor(x, y)
      [] op = "bvxor" -> Ibvxor(x, y)
      [] op \in {"bvadd", "bvmul"} -> Meaning(op, x, y)

OfBitVectors(op, a) ==
    LET x == Bits2(a[1])
        y == Bits2(a[2])
    IN  CASE op \in Nary -> OfBits(FoldLeft(LAMBDA z, c : Binary(op, z, Bits2(c)), x, Tail(a)))
          [] op = "bvnot"  -> OfBits(Ibvnot(x))
          [] op = "bvneg"  -> OfBits(Meaning(op, x, x))
          [] op \in OfConstants -> OfBits(Meaning(op, x, y))
          [] op \in BvComparisons -> Truth(Meaning(op, x, y) = Bool(TRUE))
          [] op = "bvugt" -> Truth(Meaning("bvult", y, x) = Bool(TRUE))
          [] op = "bvuge" -> Truth(Meaning("bvule", y, x) = Bool(TRUE))
          [] op = "bvsgt" -> Truth(Meaning("bvslt", y, x) = Bool(TRUE))
          [] op = "bvsge" -> Truth(Meaning("bvsle", y, x) = Bool(TRUE))
          [] op = "bvxnor" -> OfBits(Ibvnot(Ibvxor(x, y)))
          [] op = "bvnand" -> OfBits(Ibvnot(Ibvand(x, y)))
          [] op = "bvnor"  -> OfBits(Ibvnot(Ibvor(x, y)))
          [] op = "bvcomp" -> OfBits(Bool(Chained(a, =)))
          [] op = "concat" -> Const("BV", FoldLeft(LAMBDA t, c : t \o c.val, <<>>, a))
          [] op = "ubv_to_int" -> Int1(x.val)
          [] op = "sbv_to_int" -> Int1(Signed(x))
          [] op \in {"nat2bv", "int2bv"} -> OfBits(Modulo(ToInt(a[2]), ToInt(a[1])))
          [] op = "extract" -> OfBits(Modulo(ToInt(a[2]) - ToInt(a[3]) + 1, x.val \div 2^ToInt(a[3])))
          [] op = "zero_extend" -> OfBits(Modulo(x.size + ToInt(a[2]), x.val))
          [] op = "sign_extend" -> OfBits(Modulo(x.size + ToInt(a[2]), Signed(x)))
          [] op = "repeat" -> Const("BV", FoldLeft(LAMBDA t, i : t \o a[1].val, <<>>, [i \in 1..ToInt(a[2]) |-> i]))
          [] op = "rotate_left"  -> OfBits(Meaning("rol", x, Bits(x.size, ToInt(a[2]))))
          [] op = "rotate_right" -> OfBits(Meaning("ror", x, Bits(x.size, ToInt(a[2]))))

OfStrings(op, a) ==
    LET s == a[1].val
        t == a[2].val
        i == ToInt(a[2])
        n == Len(s)
        str(v) == Const("String", v)
        cut(x, from, len) == IF from \notin 0..Len(x) - 1 \/ len <= 0 THEN <<>>
                             ELSE SubSeq(x, from + 1, IF from + len < Len(x) THEN from + len ELSE Len(x))
        digits == s # <<>> /\ \A j \in DOMAIN s : s[j] \in 48..57
        first(from) == IF from \notin 0..n THEN -1 ELSE Find(s, t, from)
    IN  CASE op = "str.len" -> Int1(n)
          [] op = "str.to_lower" -> str([j \in DOMAIN s |-> Lower(s[j])])
          [] op = "str.to_upper" -> str([j \in DOMAIN s |-> Upper(s[j])])
          [] op = "str.rev" -> str([j \in DOMAIN s |-> s[n + 1 - j]])
          [] op = "str.is_digit" -> Truth(n = 1 /\ digits)
          [] op = "str.from_int" -> str(IF ToInt(a[1]) < 0 THEN <<>> ELSE IntToText(ToInt(a[1])))
          [] op = "str.to_int" -> Int1(IF digits THEN TextToInt(s) ELSE -1)
          [] op = "str.to_code" -> Int1(IF n = 1 THEN s[1] ELSE -1)
          [] op = "str.from_code" -> str(IF ToInt(a[1]) < 0 THEN <<>> ELSE <<ToInt(a[1])>>)
          [] op = "str.at" -> str(cut(s, i, 1))
          [] op = "str.prefixof" -> Truth(\E k \in 0..Len(t) : SubSeq(t, 1, k) = s)
          [] op = "str.suffixof" -> Truth(\E k \in 1..Len(t) + 1 : SubSeq(t, k, Len(t)) = s)
          [] op = "str.contains" -> Truth(\E j, k \in 0..n : SubSeq(s, j + 1, k) = t)
          [] op = "str.++" -> str(FoldLeft(LAMBDA u, c : u \o c.val, <<>>, a))
          [] op = "str.<"  -> Truth(Chained(a, LAMBDA c, d : TextLess(c.val, d.val)))
          [] op = "str.<=" -> Truth(Chained(a, LAMBDA c, d : ~TextLess(d.val, c.val)))
          [] op = "str.>"  -> Truth(Chained(a, LAMBDA c, d : TextLess(d.val, c.val)))
          [] op = "str.>=" -> Truth(Chained(a, LAMBDA c, d : ~TextLess(c.val, d.val)))
          [] op = "str.substr" -> str(cut(s, i, ToInt(a[3])))
          [] op = "str.indexof" -> Int1(first(ToInt(a[3])))
          [] op = "str.update" -> str(IF i \notin 0..n - 1 THEN s
                                      ELSE cut(SubSeq(s, 1, i) \o a[3].val, 0, n)
                                             \o cut(s, i + Len(a[3].val), n))
          [] op = "str.replace" -> str(IF first(0) = -1 THEN s
                                       ELSE SubSeq(s, 1, first(0)) \o a[3].val
                                              \o cut(s, first(0) + Len(t), n))
          [] op = "str.replace_all" -> str(IF t = <<>> THEN s ELSE ReplacedAll(s, t, a[3].val, 0))

NumberOps == {"+", "-", "*", "neg", "abs", "<", "<=", ">", ">=", "max", "min", "iand", "div", "mod",
              "ceil", "floor", "round", "to_int", "to_real", "is_int", "is_prime", "is_even", "is_odd",
              "fact", "pow2", "divisible", "gcd", "lcm"}
StringOps == UnaryString \cup {"str.at", "str.prefixof", "str.suffixof", "str.contains", "str.++", "str.<",
              "str.<=", "str.>", "str.>=", "str.substr", "str.indexof", "str.update", "str.replace",
              "str.replace_all"}

Denotes(op, a) ==
    CASE \E i \in DOMAIN a : a[i] = Unspecified -> Unspecified
      [] op = "ite" -> IF a[1] = True THEN a[2] ELSE a[3]
      [] op = "=" -> Truth(Chained(a, Same))
      [] op = "distinct" -> Truth(\A i, j \in DOMAIN a : i # j => ~Same(a[i], a[j]))
      [] op \in {"not", "and", "or", "xor", "=>"} -> OfBooleans(op, a)
      [] op \in NumberOps -> OfNumbers(op, a)
      [] op \in Functions1 \cup {"sqrt", "safesqrt", "pow", "log"} -> OfFunctions(op, a)
      [] op \in StringOps -> OfStrings(op, a)
      [] OTHER -> OfBitVectors(op, a)

RECURSIVE InValuation(_, _)
InValuation(term, rho) ==
    CASE term.is = "const" -> term
      [] term.is = "var"   -> rho[term.sort][term.val[1]]
      [] OTHER -> Denotes(term.is, [i \in DOMAIN term.kids |-> InValuation(term.kids[i], rho)])

(***************************************************************************)
(* The terms that are asked about, by sort, and values of their variables. *)
(***************************************************************************)
x0 == Variable("Int", 1)
y0 == Variable("Int", 2)
r0 == Variable("Real", 1)
p0 == Variable("Bool", 1)
q0 == Variable("Bool", 2)
u0 == Variable("BV", 1)
v0 == Variable("BV", 2)
s0 == Variable("String", 1)

Whole0 == {Int1(n) : n \in -1..2}
Halves == {Real1(n) : n \in {-12, 8, 12}}
Words  == {Const("BV", <<i, j>>) : i, j \in 0..1}
Short  == {<<>>, <<49>>, <<97>>, <<65>>, <<45, 49>>, <<97, 65>>, <<97, 32>>}
Strings == {Const("String", t) : t \in Short}

Tuples(S, upto) == UNION {[1..n -> S] : n \in 2..upto}
Asked(ops, operands, floating) == [about : {"rewrite"}, op : ops, of : operands, floating : floating]
On(S) == {<<a>> : a \in S}
On2(S, T) == S \X T

RewriteQuestions ==
         Asked({"not"}, On({True, False, p0, Keep("not", <<p0>>)}), {TRUE})
    \cup Asked({"and", "or", "xor", "=>", "=", "distinct"}, Tuples({True, False, p0, q0}, 4), {TRUE})
    \cup Asked({"ite"}, {True, False, p0} \X {p0, q0} \X {p0, q0}, {TRUE})
    \cup Asked({"<", "<=", ">", ">=", "="}, Tuples({Int1(0), Int1(1), Real1(12), x0, y0}, 4), {TRUE})
    \cup Asked({"<=", "<"}, {<<Int1(0), x0>> \o t \o <<c>> : c \in {Int1(0), Int1(1)}, t \in [1..3 -> {Int1(0), Int1(1), x0}]}
                 \cup {<<Int1(0), Int1(1)>> \o t : t \in [1..3 -> {Int1(1), Int1(2), x0}]}, {TRUE})
    \cup Asked({"+", "-", "*", "max", "min"}, Tuples(Whole0 \cup {x0, y0}, 3) \cup Tuples({Int1(2), Real1(12), Real1(8), r0}, 3), {TRUE})
    \cup Asked({"iand"}, Tuples(Whole0 \cup {x0}, 3), {TRUE})
    \cup Asked({"div"}, Tuples({Int1(7), Int1(-7), Int1(0), Int1(2), Int1(-2), x0}, 3) \cup On2({Real1(12)}, Halves \cup Whole0), BOOLEAN)
    \cup Asked({"mod", "divisible", "gcd", "lcm"}, On2({Int1(6), Int1(-7)} \cup Whole0 \cup {x0}, {Int1(4), Int1(-2)} \cup Whole0 \cup {x0}), {TRUE})
    \cup Asked({"pow", "log"}, On2(Whole0 \cup Halves \cup {r0}, Whole0 \cup Halves \cup {r0}), BOOLEAN)
    \cup Asked(UnaryNumber \ ({"not", "pow2"} \cup {"is_prime", "is_even", "is_odd", "fact"}),
               On(Whole0 \cup Halves \cup {Real1(16), r0, Keep("neg", <<r0>>), Keep("abs", <<r0>>),
                                           Keep("ln", <<r0>>), Keep("exp", <<r0>>)}), BOOLEAN)
    \cup Asked({"pow2", "is_prime", "is_even", "is_odd", "fact", "abs", "neg", "to_real"},
               On({Int1(n) : n \in -2..9} \cup {x0, Keep("neg", <<x0>>)}), {TRUE})
    \cup Asked(UnaryBv, On(Words \cup {u0, Keep("bvnot", <<u0>>), Keep("bvneg", <<u0>>)}), {TRUE})
    \cup Asked(OfConstants \cup BvComparisons \cup {"bvxnor", "bvnand", "bvnor", "bvugt", "bvuge", "bvsgt", "bvsge"},
               On2(Words \cup {u0, v0}, Words \cup {u0, v0}), {TRUE})
    \cup Asked({"bvand", "bvor", "bvxor", "bvadd", "bvmul", "bvcomp", "concat", "="}, Tuples(Words \cup {u0}, 3), {TRUE})
    \cup Asked({"nat2bv", "int2bv"}, On2({Int1(n) : n \in -1..5} \cup {x0}, {Int1(2), Int1(3)}), {TRUE})
    \cup Asked({"zero_extend", "sign_extend", "rotate_left", "rotate_right"},
               On2({Const("BV", <<1, 0>>), Const("BV", <<0, 1, 1>>), u0}
                   \cup {Keep(op, <<Keep("concat", <<u0, v0>>), Int1(n)>>) :
                           op \in {"zero_extend", "sign_extend", "rotate_left", "rotate_right"}, n \in 1..3},
                   {Int1(n) : n \in 0..3}), {TRUE})
    \cup Asked({"repeat"}, On2({Const("BV", <<1, 0>>), u0}, {Int1(n) : n \in 1..3}), {TRUE})
    \cup Asked({"extract"}, UNION {{<<t, Int1(i), Int1(j)>> : j \in 0..i, t \in {Const("BV", <<1, 0, 1, 1>>), Keep("concat", <<u0, v0>>),
                                              Keep("extract", <<Keep("concat", <<u0, v0, u0>>), Int1(4), Int1(1)>>)}} : i \in 0..3}, {TRUE})
    \cup Asked({"str.from_int", "str.from_code"}, On(Whole0 \cup {Int1(97), Int1(200), x0}), {TRUE})
    \cup Asked(UnaryString \ {"str.from_int", "str.from_code"},
               On(Strings \cup {s0} \cup {Keep(op, <<s0>>) : op \in {"str.to_lower", "str.to_upper", "str.rev"}}), {TRUE})
    \cup Asked({"str.prefixof", "str.suffixof", "str.contains", "=", "str.<", "str.<=", "str.>", "str.>=", "str.++"},
               On2(Strings \cup {s0}, Strings \cup {s0}), {TRUE})
    \cup Asked({"str.<", "str.<=", "str.++"}, Tuples({EmptyString, Const("String", <<97>>), Const("String", <<49>>), s0}, 4), {TRUE})
    \cup Asked({"str.at"}, On2(Strings \cup {s0}, Whole0 \cup {x0}), {TRUE})
    \cup Asked({"str.substr"}, Strings \X Whole0 \X Whole0, {TRUE})
    \cup Asked({"str.indexof"}, Strings \X Strings \X Whole0, {TRUE})
    \cup Asked({"str.update"}, Strings \X Whole0 \X Strings, {TRUE})
    \cup Asked({"str.replace", "str.replace_all"}, Strings \X Strings \X {EmptyString, Const("String", <<97, 97>>), s0}, {TRUE})

ValuesOf(sort) ==
    CASE sort = "Int"    -> Whole0
      [] sort = "Real"   -> {Real1(-12), Real1(8)}
      [] sort = "Bool"   -> {True, False}
      [] sort = "BV"     -> Words
      [] sort = "String" -> {Const("String", t) : t \in {<<>>, <<97>>, <<97, 65>>}}

\* Two variables of one sort at most have all values, the others a fixed one.
ValuationsFor(q) ==
    LET sorts == {q.of[i].sort : i \in DOMAIN q.of}
        fixed == [Int |-> <<Int1(1), Int1(1)>>, Real |-> <<Real1(12)>>, Bool |-> <<True, True>>,
                  BV |-> <<Const("BV", <<1, 0>>), Const("BV", <<0, 1>>)>>, String |-> <<EmptyString>>]
    IN  UNION {{[fixed EXCEPT ![sort] = <<a, b>>] : a, b \in ValuesOf(sort)} : sort \in sorts}

RewriteResult(q) == RewriteOper(q.op, q.of, q.floating)

(***************************************************************************)
(* Where the rewriter is not right, by what it is asked.                   *)
(***************************************************************************)
Constants(q) == \A i \in DOMAIN q.of : IsConst(q.of[i])
Negative(c)  == IsNumeral(c) /\ ToReal(c) < 0

RewriteSuited(q, result) ==
    LET a == q.of
    IN  \* a constant without floating point
        /\ ~q.floating => ~Constants(q)
        \* rounded toward zero; equal operands may be zero
        /\ q.op \in {"div", "mod"} => \A i \in DOMAIN a : ~Negative(a[i])
        \* the rewritten chain is not the trimmed one
        /\ q.op \in {"<=", ">=", "str.<=", "str.>="} /\ result.is = "=" =>
              ~(IsConst(a[1]) /\ IsConst(a[2])) /\ ~(IsConst(Last(a)) /\ IsConst(a[Len(a) - 1]))
        /\ q.op = "abs" => a[1].is # "abs"
        /\ q.op = "is_int" => ~IsCReal(a[1]) \/ ToReal(a[1]) % Parts # 0
        /\ q.op = "pow2" => ~Negative(a[1])
        /\ q.op \in {"gcd", "lcm"} => \A i \in DOMAIN a : ~Negative(a[i])
        \* signed numbers
        /\ q.op = "sbv_to_int" /\ Constants(q) => a[1].val[1] = 0
        /\ q.op \in {"nat2bv", "int2bv"} => ~Negative(a[1])
        /\ q.op \in {"bvslt", "bvsle", "bvsgt", "bvsge"} /\ Constants(q) => a[1].val[1] = 0 \/ a[2].val[1] = 0
        \* a Boolean instead of a bit
        /\ q.op = "bvcomp" => result # False
        \* strings
        /\ q.op \in {"str.from_int", "str.from_code"} => ~Constants(q)
        /\ q.op = "str.to_int" /\ Constants(q) => IsIntText(a[1].val) /\ a[1].val[1] \in 48..57
        /\ q.op = "str.is_digit" /\ Constants(q) => Len(a[1].val) = 1 /\ a[1].val[1] # 45
        /\ q.op \in {"str.<", "str.<=", "str.>", "str.>="} =>
              \A i \in DOMAIN a : ~IsConst(a[i]) \/ 32 \notin ToSet(a[i].val)
        /\ q.op = "str.replace_all" => a[2] # EmptyString

(***************************************************************************)
(* Properties of one question.                                             *)
(***************************************************************************)
\* What is made of a term has its value, whatever the values of the variables.
RewritingKeepsMeaning(q, result) ==
    RewriteSuited(q, result) /\ result # Thrown =>
        \A rho \in ValuationsFor(q) :
            LET asked == Denotes(q.op, [i \in DOMAIN q.of |-> InValuation(q.of[i], rho)])
            IN  asked # Unspecified => Same(InValuation(result, rho), asked)

\* A rewritten term is not rewritten again: reading the output changes nothing.
\* Only the equation made of a chain of comparisons is not simplified itself.
RewritingIsDone(q, result) ==
    /\ RewriteSuited(q, result)
    /\ result # Thrown /\ result.is \notin {"const", "var"}
    /\ result.is = "=" => q.op = "=" \/ q.op \in BvComparisons
    =>
        RewriteOper(result.is, result.kids, q.floating) = result
=============================================================================
