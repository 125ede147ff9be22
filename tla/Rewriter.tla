------------------------------- MODULE Rewriter ------------------------------
(***************************************************************************)
(* Every operator term is simplified while it is made.  RewriteOper is     *)
(* what rewrite_oper makes of an operator and its operands: one of the     *)
(* operands, a constant, another term, or the term itself with operands    *)
(* that may have been dropped, joined or reordered.                        *)
(*                                                                         *)
(* Equal nodes are one node.  Operands are sorted by their addresses: any  *)
(* order in which equal ones are neighbours is such an order.              *)
(***************************************************************************)
EXTENDS BitVectorText

\* A real is a whole number of parts; characters are codes.
Parts == 8

\* Nothing is made of the term: an exception, or a loop that does not end.
Thrown == [is |-> "throws"]
Endless == [is |-> "endless"]

(***************************************************************************)
(* Nodes.                                                                  *)
(***************************************************************************)
Const(sort, val) == [is |-> "const", sort |-> sort, val |-> val, kids |-> <<>>]
Variable(sort, n) == [is |-> "var", sort |-> sort, val |-> <<n>>, kids |-> <<>>]

True    == Const("Bool", <<1>>)
False   == Const("Bool", <<0>>)
Truth(b) == IF b THEN True ELSE False
Int1(n) == Const("Int", <<n>>)
Real1(parts) == Const("Real", <<parts>>)

\* mkConstBv fills or cuts the digits to the width.
Bv(digits, width) == Const("BV", Padded(digits, width))

IsConst(p)   == p.is = "const"
IsCInt(p)    == IsConst(p) /\ p.sort = "Int"
IsCReal(p)   == IsConst(p) /\ p.sort = "Real"
IsNumeral(p) == IsCInt(p) \/ IsCReal(p)
IsCBV(p)     == IsConst(p) /\ p.sort = "BV"
IsCStr(p)    == IsConst(p) /\ p.sort = "String"

ToInt(p)  == p.val[1]
ToReal(p) == IF p.sort = "Int" THEN Parts * p.val[1] ELSE p.val[1]

Predicates == {"not", "and", "or", "=>", "xor", "=", "distinct", "<", "<=", "is_int", "is_prime",
               "is_even", "is_odd", "divisible", "bvult", "bvule", "bvslt", "bvsle", "str.<",
               "str.<=", "str.prefixof", "str.suffixof", "str.contains", "str.is_digit"}

SortOf(op, kids) ==
    CASE op \in Predicates -> "Bool"
      [] op = "ite" -> kids[2].sort
      [] op \in {"to_int", "str.len", "ubv_to_int", "sbv_to_int", "str.to_int", "str.to_code",
                 "str.indexof"} -> "Int"
      [] op \in {"to_real", "exp", "ln", "sin", "sqrt", "pow", "log"} -> "Real"
      [] op \in {"nat2bv", "int2bv", "bvcomp"} -> "BV"
      [] op \in {"str.from_int", "str.from_code"} -> "String"
      [] OTHER -> kids[1].sort

\* The bits of a term, from the leaves.
Width(p) ==
    LET RECURSIVE Of(_)
        Of(n) == CASE n.is = "const"   -> Len(n.val)
                   [] n.is = "var"     -> 2
                   [] n.is = "extract" -> ToInt(n.kids[2]) - ToInt(n.kids[3]) + 1
                   [] n.is \in {"zero_extend", "sign_extend"} -> Of(n.kids[1]) + ToInt(n.kids[2])
                   [] n.is = "repeat"  -> Of(n.kids[1]) * ToInt(n.kids[2])
                   [] n.is = "concat"  -> FoldLeft(LAMBDA w, k : w + Of(k), 0, n.kids)
                   [] n.is \in {"nat2bv", "int2bv"} -> ToInt(n.kids[2])
                   [] n.is = "bvcomp"  -> 1
                   [] OTHER            -> Of(n.kids[1])
    IN  Of(p)

\* The term as it stands.
Keep(op, kids) == [is |-> op, sort |-> SortOf(op, kids), val |-> <<>>, kids |-> kids]

IsZero(p) == \/ IsNumeral(p) /\ ToReal(p) = 0
             \/ IsCBV(p) /\ \A i \in DOMAIN p.val : p.val[i] = 0
IsOne(p)  == \/ IsNumeral(p) /\ ToReal(p) = Parts
             \/ IsCBV(p) /\ ValueOf(p.val) = 1
AllOnes(p) == IsCBV(p) /\ BvIsMaxUnsigned(p.val)

(***************************************************************************)
(* Sequences of operands.                                                  *)
(***************************************************************************)
Uniq(s) == FoldLeft(LAMBDA acc, x : IF x \in ToSet(acc) THEN acc ELSE Append(acc, x), <<>>, s)
Sort(s) == FoldLeft(LAMBDA acc, x : acc \o SelectSeq(s, LAMBDA y : y = x), <<>>, Uniq(s))

\* The constants folded into one, in order; none if there are none.
Folded(op(_, _), cs) == IF cs = <<>> THEN <<>> ELSE <<FoldLeft(op, cs[1], Tail(cs))>>

\* Two different constants are not equal unless they are numbers of two sorts.
RewriteEq(p) ==
    LET constants == Uniq(SelectSeq(p, IsConst))
        numerals  == \A i \in DOMAIN constants : IsNumeral(constants[i])
        same      == /\ numerals
                     /\ \A i, j \in DOMAIN constants : ToReal(constants[i]) = ToReal(constants[j])
        kept      == Uniq(SelectSeq(p, LAMBDA x : ~IsConst(x))) \o
                     (IF constants = <<>> THEN <<>> ELSE <<constants[1]>>)
    IN  IF Len(constants) > 1 /\ ~same THEN False
        ELSE IF Len(kept) <= 1 THEN True ELSE Keep("=", kept)

\* Nothing left, one operand left, or the term with what is left.
Remaining(op, np, none) ==
    CASE np = <<>>    -> none
      [] Len(np) = 1  -> np[1]
      [] Len(np) > 1  -> Keep(op, np)

\* / and % of GMP, rounded toward zero.
Div0(x, y) == Towards0(x, y)
Mod0(x, y) == x - y * Towards0(x, y)

Floor(r) == r \div Parts
Round(r) == IF r >= 0 THEN (r + Parts \div 2) \div Parts ELSE -((-r + Parts \div 2) \div Parts)

(***************************************************************************)
(* One operand: numbers.                                                   *)
(***************************************************************************)
Functions1 == {"exp", "ln", "lg", "lb", "sin", "cos", "sec", "csc", "tan", "cot", "asin", "acos",
               "asec", "acsc", "atan", "acot", "sinh", "cosh", "tanh", "sech", "csch", "coth",
               "asinh", "acosh", "atanh", "asech", "acsch", "acoth"}

\* The function that undoes another one.
Undoes(f, g) == <<f, g>> \in {<<"exp", "ln">>, <<"ln", "exp">>, <<"lb", "pow2">>}

RewriteToInt(p) == CASE IsCInt(p)  -> p
                     [] IsCReal(p) -> Int1(Floor(ToReal(p)))
                     [] OTHER      -> Keep("to_int", <<p>>)

RewriteRounding(op, p) ==
    CASE p.sort = "Int"                 -> p
      [] IsCReal(p) /\ op = "ceil"      -> Real1(-Floor(-ToReal(p)) * Parts)
      [] IsCReal(p) /\ op = "floor"     -> Real1(Floor(ToReal(p)) * Parts)
      [] IsCReal(p) /\ op = "round"     -> Real1(Round(ToReal(p)) * Parts)
      [] OTHER                          -> Keep(op, <<p>>)

\* Without floating point the case of a constant has no return: it goes on
\* into the next cases, for a root to ceil, for the others to to_int.
RewriteFunction(f, p, floating) ==
    CASE IsNumeral(p) /\ floating -> Const("Real", <<ToReal(p), f>>)
      [] IsNumeral(p) /\ ~floating ->
           IF f \in {"sqrt", "safesqrt"} THEN RewriteRounding("ceil", p) ELSE RewriteToInt(p)
      [] ~IsNumeral(p) /\ Undoes(f, p.is) -> p.kids[1]
      [] ~IsNumeral(p) /\ ~Undoes(f, p.is) -> Keep(f, <<p>>)

IsPrime(n) == n > 1 /\ \A i \in 2..n - 1 : n % i # 0
Factorial(n) == FoldLeft(LAMBDA x, i : x * i, 1, [i \in 1..n |-> i])
Pow2(n) == IF n = 0 THEN 1 ELSE IF n < 1 THEN 2 ELSE 2^n

\* These throw unless the operand is a constant.
RewriteIntegerTest(op, p) ==
    CASE ~IsCInt(p)      -> Thrown
      [] IsCInt(p) /\ op = "is_prime" -> Truth(IsPrime(ToInt(p)))
      [] IsCInt(p) /\ op = "is_even"  -> Truth(Mod0(ToInt(p), 2) = 0)
      [] IsCInt(p) /\ op = "is_odd"   -> Truth(Mod0(ToInt(p), 2) # 0)
      [] IsCInt(p) /\ op = "fact"     -> IF ToInt(p) < 0 THEN Thrown ELSE Int1(Factorial(ToInt(p)))

RewriteNumber1(op, p, floating) ==
    CASE op = "not" -> CASE p = True     -> False
                         [] p = False    -> True
                         [] p.is = "not" -> p.kids[1]
                         [] OTHER        -> Keep("not", <<p>>)
      [] op = "neg" -> CASE IsNumeral(p)  -> [p EXCEPT !.val = <<-@[1]>>]
                         [] p.is = "neg"  -> p.kids[1]
                         [] OTHER         -> Keep("neg", <<p>>)
      [] op = "abs" -> CASE IsNumeral(p)  -> [p EXCEPT !.val = <<Magnitude(@[1])>>]
                         [] p.is = "abs"  -> p.kids[1]
                         [] p.is = "neg"  -> Keep("abs", p.kids)
                         [] OTHER         -> Keep("abs", <<p>>)
      [] op \in {"ceil", "floor", "round"} -> RewriteRounding(op, p)
      [] op \in Functions1 \cup {"sqrt", "safesqrt"} -> RewriteFunction(op, p, floating)
      [] op = "to_int"  -> RewriteToInt(p)
      [] op = "to_real" -> CASE IsCInt(p)       -> Real1(ToReal(p))
                             [] p.sort = "Real" -> p
                             [] OTHER           -> Keep("to_real", <<p>>)
      [] op = "is_int" -> IF IsNumeral(p) THEN Truth(IsCInt(p)) ELSE Keep("is_int", <<p>>)
      [] op \in {"is_prime", "is_even", "is_odd", "fact"} -> RewriteIntegerTest(op, p)
      [] op = "pow2" -> CASE IsCInt(p)    -> Int1(Pow2(ToInt(p)))
                          [] p.is = "lb"  -> p.kids[1]
                          [] OTHER        -> Keep("pow2", <<p>>)

(***************************************************************************)
(* One operand: bit-vectors and strings.                                   *)
(***************************************************************************)
RewriteBv1(op, p) ==
    CASE IsCBV(p) /\ op = "bvnot" -> Bv(BvNot(p.val), Width(p))
      [] IsCBV(p) /\ op = "bvneg" -> Bv(BvNeg(p.val), Width(p))
      [] IsCBV(p) /\ op = "ubv_to_int" -> Int1(BvToNat(p.val))
      [] IsCBV(p) /\ op = "sbv_to_int" -> Int1(BvToInt(p.val))
      [] op \in {"bvnot", "bvneg"} /\ p.is = op -> p.kids[1]
      [] OTHER -> Keep(op, <<p>>)

Lower(c) == IF c \in 65..90 THEN c + 32 ELSE c
Upper(c) == IF c \in 97..122 THEN c - 32 ELSE c

\* Digits after at most one sign; a sign alone is one too.
IsIntText(s) == s # <<>> /\ \A i \in DOMAIN s : s[i] \in 48..57 \/ (i = 1 /\ s[i] \in {43, 45})
TextToInt(s) ==
    LET n == FoldLeft(LAMBDA x, c : IF c \in 48..57 THEN 10 * x + c - 48 ELSE x, 0, s)
    IN  IF s[1] = 45 THEN -n ELSE n
IntToText(n) == IF n < 0 THEN <<45, 48 - n>> ELSE <<48 + n>>

\* A constant without its quotes is not read as a string again.
Unquoted(s) == Const("Unquoted", s)
Not_a_Number == Const("NaN", <<>>)

RewriteString1(op, p) ==
    CASE op = "str.len" /\ IsCStr(p)       -> Int1(Len(p.val))
      [] op = "str.to_lower" /\ IsCStr(p)  -> Const("String", [i \in DOMAIN p.val |-> Lower(p.val[i])])
      [] op = "str.to_upper" /\ IsCStr(p)  -> Const("String", [i \in DOMAIN p.val |-> Upper(p.val[i])])
      [] op \in {"str.to_lower", "str.to_upper"} /\ p.is \in {"str.to_lower", "str.to_upper"} ->
           Keep(op, p.kids)
      [] op = "str.rev" /\ IsCStr(p)       -> Const("String", Reverse(p.val))
      [] op = "str.rev" /\ p.is = op       -> p.kids[1]
      [] op = "str.is_digit" /\ IsCStr(p)  -> Truth(IsIntText(p.val))
      [] op = "str.from_int" /\ IsCInt(p)  -> Unquoted(IntToText(ToInt(p)))
      [] op = "str.to_int" /\ IsCStr(p)    -> IF IsIntText(p.val) THEN Int1(TextToInt(p.val)) ELSE Not_a_Number
      [] op = "str.to_code" /\ IsCStr(p)   -> IF Len(p.val) = 1 THEN Int1(p.val[1]) ELSE Thrown
      [] op = "str.from_code" /\ IsCInt(p) -> IF ToInt(p) \in 0..127 THEN Unquoted(<<ToInt(p)>>) ELSE Thrown
      [] OTHER -> Keep(op, <<p>>)

(***************************************************************************)
(* Two operands: numbers.                                                  *)
(***************************************************************************)
RewriteMod(l, r) ==
    CASE IsCInt(l) /\ IsCInt(r) -> IF ToInt(r) = 0 THEN Thrown ELSE Int1(Mod0(ToInt(l), ToInt(r)))
      [] ~(IsCInt(l) /\ IsCInt(r)) /\ (IsOne(r) \/ IsZero(l) \/ l = r) -> Int1(0)
      [] OTHER -> Keep("mod", <<l, r>>)

\* A result computed in floating point, exact where it has to be.
Computed(op, l, r) ==
    CASE op = "pow" /\ (IsZero(r) \/ IsOne(l)) -> Real1(Parts)
      [] op = "pow" /\ ~(IsZero(r) \/ IsOne(l)) /\ IsOne(r) -> Real1(ToReal(l))
      [] op = "log" /\ IsOne(l) -> Real1(0)
      [] op = "log" /\ ~IsOne(l) /\ ToReal(l) = ToReal(r) -> Real1(Parts)
      [] OTHER -> Const("Real", <<ToReal(l), ToReal(r), op>>)

\* Like a function of one number, the power of constants goes on into mod, the
\* logarithm into atan2 and, for a real, into the test of divisibility.
RewritePow(l, r, floating) ==
    CASE IsNumeral(l) /\ IsNumeral(r) /\ floating  -> Computed("pow", l, r)
      [] IsNumeral(l) /\ IsNumeral(r) /\ ~floating ->
           LET result == RewriteMod(l, r) IN IF result.is = "mod" THEN Keep("pow", <<l, r>>) ELSE result
      [] ~(IsNumeral(l) /\ IsNumeral(r)) /\ (IsZero(r) \/ IsOne(l)) -> Real1(Parts)
      [] ~(IsNumeral(l) /\ IsNumeral(r)) /\ ~(IsZero(r) \/ IsOne(l)) ->
           IF IsOne(r) THEN l ELSE Keep("pow", <<l, r>>)

RewriteLog(l, r, floating) ==
    CASE IsNumeral(l) /\ IsNumeral(r) /\ floating  -> Computed("log", l, r)
      [] IsNumeral(l) /\ IsNumeral(r) /\ ~floating ->
           IF IsCReal(r) THEN Thrown ELSE Keep("log", <<l, r>>)
      [] ~(IsNumeral(l) /\ IsNumeral(r)) ->
           IF IsOne(l) THEN Real1(0) ELSE IF l = r THEN Real1(Parts) ELSE Keep("log", <<l, r>>)

Gcd(a, b) ==
    LET RECURSIVE G(_, _)
        G(x, y) == IF y = 0 THEN x ELSE G(y, Mod0(x, y))
    IN  G(a, b)

RewriteIntegers2(op, l, r) ==
    IF ~(IsCInt(l) /\ IsCInt(r)) THEN Thrown
    ELSE LET x == ToInt(l)
             y == ToInt(r)
         IN  CASE op = "divisible" -> IF y = 0 THEN Thrown ELSE Truth(Mod0(x, y) = 0)
               [] op = "gcd" -> Int1(Gcd(x, y))
               [] op = "lcm" -> IF Gcd(x, y) = 0 THEN Thrown ELSE Int1(Div0(x * y, Gcd(x, y)))

(***************************************************************************)
(* Two operands: bit-vectors.                                              *)
(***************************************************************************)
OfConstants == {"bvudiv", "bvsdiv", "bvurem", "bvsrem", "bvsmod", "bvshl", "bvlshr", "bvashr", "bvsub"}

RewriteBvArithmetic(op, l, r) ==
    LET w    == Width(l)
        zero == Bv(IntToBv(0, w), w)
        long == IsCBV(r) /\ BvCompareToUint(r.val, w) >= 0
    IN  CASE IsCBV(l) /\ IsCBV(r) -> Bv(BvArithmetic(op, l.val, r.val), w)
          [] ~(IsCBV(l) /\ IsCBV(r)) ->
             CASE op = "bvudiv" /\ IsZero(r) -> Bv(MkOnesText(w), w)
               [] op \in {"bvudiv", "bvsdiv"} /\ IsOne(r) -> l
               [] op = "bvsdiv" /\ AllOnes(r) /\ ~IsOne(r) -> RewriteBv1("bvneg", l)
               [] op \in {"bvurem", "bvsmod", "bvshl", "bvlshr", "bvashr", "bvsub"} /\ IsZero(r) -> l
               [] op \in {"bvurem", "bvsrem", "bvsmod"} /\ (IsOne(r) \/ l = r) -> zero
               [] op \in {"bvshl", "bvlshr"} /\ ~IsZero(r) /\ long -> zero
               [] op = "bvsub" /\ ~IsZero(r) /\ IsZero(l) -> RewriteBv1("bvneg", r)
               [] op = "bvsub" /\ l = r -> zero
               [] OTHER -> Keep(op, <<l, r>>)

RewriteBvComparison(op, l, r) ==
    CASE IsCBV(l) /\ IsCBV(r) -> Truth(BvComp(op, l.val, r.val))
      [] ~(IsCBV(l) /\ IsCBV(r)) ->
         CASE op = "bvult" /\ (IsZero(r) \/ AllOnes(l) \/ l = r) -> False
           [] op \in {"bvule", "bvsle"} /\ l = r -> True
           [] op = "bvslt" /\ l = r -> False
           [] op \in {"bvslt", "bvsle"} /\ l # r /\
              ((IsCBV(l) /\ BvIsMaxSigned(l.val)) \/ (IsCBV(r) /\ BvIsMinSigned(r.val))) ->
                IF op = "bvslt" THEN False ELSE RewriteEq(<<l, r>>)
           [] OTHER -> Keep(op, <<l, r>>)

RewriteBvBitwise(op, l, r) ==
    LET w == Width(l)
    IN  CASE IsCBV(l) /\ IsCBV(r) ->
               Bv(CASE op = "bvxnor" -> BvXnor(l.val, r.val)
                    [] op = "bvnand" -> BvNand(l.val, r.val)
                    [] op = "bvnor"  -> BvNor(l.val, r.val), w)
          [] op = "bvxnor" /\ ~IsCBV(l) /\ l = r -> Bv(MkOnesText(w), w)
          [] op \in {"bvnand", "bvnor"} /\ ~(IsCBV(l) /\ IsCBV(r)) ->
             LET absorbs(p) == IF op = "bvnand" THEN IsZero(p) ELSE AllOnes(p)
                 neutral(p) == IF op = "bvnand" THEN AllOnes(p) ELSE IsZero(p)
             IN  CASE l = r -> RewriteBv1("bvnot", l)
                   [] l # r /\ (absorbs(l) \/ absorbs(r)) ->
                        Bv(IF op = "bvnand" THEN MkOnesText(w) ELSE IntToBv(0, w), w)
                   [] neutral(l) -> RewriteBv1("bvnot", r)
                   [] neutral(r) -> RewriteBv1("bvnot", l)
                   [] OTHER -> Keep(op, <<l, r>>)
          [] OTHER -> Keep(op, <<l, r>>)

RewriteToBv(op, l, r) ==
    IF IsCInt(l) /\ IsCInt(r)
    THEN Bv(IF op = "nat2bv" THEN NatToBv(ToInt(l), ToInt(r)) ELSE IntToBv(ToInt(l), ToInt(r)), ToInt(r))
    ELSE Keep(op, <<l, r>>)

\* Extensions of extensions are joined.
RECURSIVE RewriteExtension(_, _, _)
RewriteExtension(op, l, r) ==
    LET extend(t) == CASE op = "zero_extend" -> BvZeroExtend(t, ToInt(r))
                       [] op = "sign_extend" -> BvSignExtend(t, ToInt(r))
                       [] op = "repeat"      -> BvRepeat(t, ToInt(r))
    IN  CASE IsCBV(l) -> Const("BV", extend(l.val))
          [] ~IsCBV(l) /\ (IF op = "repeat" THEN IsOne(r) ELSE IsZero(r)) -> l
          [] OTHER ->
             IF op # "repeat" /\ l.is = op
             THEN RewriteExtension(op, l.kids[1], Int1(ToInt(l.kids[2]) + ToInt(r)))
             ELSE Keep(op, <<l, r>>)

Opposite(op) == IF op = "rotate_left" THEN "rotate_right" ELSE "rotate_left"

\* Rotations of rotations are joined; the text of a constant is not rotated
\* further than its length.
RECURSIVE RewriteRotation(_, _, _)
RewriteRotation(op, l, r) ==
    LET w      == Width(l)
        n      == ToInt(r)
        turned == IF op = "rotate_left" THEN BvRotateLeft(l.val, n) ELSE BvRotateRight(l.val, n)
        inner  == ToInt(l.kids[2])
    IN  CASE IsCBV(l) -> IF n > w THEN Thrown ELSE Bv(turned, w)
          [] ~IsCBV(l) /\ n % w = 0 -> l
          [] OTHER ->
             CASE l.is = op -> RewriteRotation(op, l.kids[1], Int1((n + inner) % w))
               [] l.is = Opposite(op) /\ n = inner -> l.kids[1]
               [] l.is = Opposite(op) /\ n > inner ->
                    RewriteRotation(op, l.kids[1], Int1((n - inner) % w))
               [] l.is = Opposite(op) /\ n < inner ->
                    RewriteRotation(Opposite(op), l.kids[1], Int1((inner - n) % w))
               [] OTHER -> Keep(op, <<l, r>>)

(***************************************************************************)
(* Strings of several operands.                                            *)
(***************************************************************************)
\* The first place of t in s from a place on, counted from 0; -1 if none.
Find(s, t, from) ==
    LET at == {i \in from..Len(s) - Len(t) : SubSeq(s, i + 1, i + Len(t)) = t}
    IN  IF at = {} THEN -1 ELSE CHOOSE i \in at : \A j \in at : i <= j

RewriteString2(op, l, r) ==
    CASE op = "str.at" -> IF ~(IsCStr(l) /\ IsCInt(r)) THEN Keep(op, <<l, r>>)
                          ELSE IF ToInt(r) \notin 0..Len(l.val) THEN Thrown
                          ELSE Const("String", Substr(l.val, ToInt(r), 1))
      [] op # "str.at" /\ ~(IsCStr(l) /\ IsCStr(r)) -> Keep(op, <<l, r>>)
      [] op = "str.prefixof" /\ IsCStr(l) /\ IsCStr(r) -> Truth(IsPrefix(l.val, r.val))
      [] op = "str.suffixof" /\ IsCStr(l) /\ IsCStr(r) -> Truth(IsSuffix(l.val, r.val))
      [] op = "str.contains" /\ IsCStr(l) /\ IsCStr(r) -> Truth(Find(l.val, r.val, 0) # -1)

Replaced(s, t, u, at) == SubSeq(s, 1, at) \o u \o SubSeq(s, at + Len(t) + 1, Len(s))

\* An empty text is found again after every replacement.
RECURSIVE ReplacedAll(_, _, _, _)
ReplacedAll(s, t, u, from) ==
    LET at == Find(s, t, from)
    IN  IF at = -1 THEN s ELSE ReplacedAll(Replaced(s, t, u, at), t, u, at + Len(u))

\* Negative numbers throw, places behind the end where the text is cut.
RewriteString3(op, l, m, r) ==
    LET s == l.val
        i == ToInt(m)
    IN  CASE op = "str.substr" /\ IsCStr(l) /\ IsCInt(m) /\ IsCInt(r) ->
               CASE i < 0 \/ ToInt(r) < 0 -> Thrown
                 [] i >= 0 /\ ToInt(r) >= 0 /\ i >= Len(s) -> Const("String", <<>>)
                 [] OTHER -> Const("String", Substr(s, i, ToInt(r)))
          [] op = "str.indexof" /\ IsCStr(l) /\ IsCStr(m) /\ IsCInt(r) ->
               CASE ToInt(r) < 0 -> Thrown
                 [] ToInt(r) > Len(s) -> Int1(-1)
                 [] OTHER -> Int1(Find(s, m.val, ToInt(r)))
          [] op = "str.update" /\ IsCStr(l) /\ IsCInt(m) /\ IsCStr(r) ->
               IF i < 0 \/ i + Len(r.val) > Len(s) THEN Thrown
               ELSE Const("String", Replaced(s, r.val, r.val, i))
          [] op = "str.replace" /\ IsCStr(l) /\ IsCStr(m) /\ IsCStr(r) ->
               IF Find(s, m.val, 0) = -1 THEN l
               ELSE Const("String", Replaced(s, m.val, r.val, Find(s, m.val, 0)))
          [] op = "str.replace_all" /\ IsCStr(l) /\ IsCStr(m) /\ IsCStr(r) ->
               IF m.val = <<>> THEN Endless ELSE Const("String", ReplacedAll(s, m.val, r.val, 0))
          [] OTHER -> Keep(op, <<l, m, r>>)

(***************************************************************************)
(* Three operands.                                                         *)
(***************************************************************************)
RewriteIte(l, m, r) ==
    CASE l = True -> m
      [] l = False -> r
      [] OTHER -> IF m = r THEN m ELSE Keep("ite", <<l, m, r>>)

RECURSIVE RewriteExtract(_, _, _)
RewriteExtract(l, m, r) ==
    CASE IsCBV(l) -> Const("BV", BvExtract(l.val, ToInt(m), ToInt(r)))
      [] ~IsCBV(l) /\ ToInt(m) = Width(l) - 1 /\ IsZero(r) -> l
      [] OTHER ->
           IF l.is = "extract"
           THEN RewriteExtract(l.kids[1], Int1(ToInt(m) + ToInt(l.kids[3])), Int1(ToInt(r) + ToInt(l.kids[3])))
           ELSE Keep("extract", <<l, m, r>>)

(***************************************************************************)
(* Chains of comparisons.  Of the constants between two other operands the *)
(* first and the last are kept, of those at an end the inner one.          *)
(***************************************************************************)
\* The inner ones of the constants at the two ends.
FirstKept(np) == CHOOSE i \in DOMAIN np : /\ i > 1 => \A j \in 1..i : IsConst(np[j])
                                          /\ IsConst(np[1]) /\ i < Len(np) => ~IsConst(np[i + 1])
                                          /\ ~IsConst(np[1]) => i = 1
LastKept(np) == CHOOSE i \in DOMAIN np : /\ i < Len(np) => \A j \in i..Len(np) : IsConst(np[j])
                                         /\ IsConst(Last(np)) /\ i > 1 => ~IsConst(np[i - 1])
                                         /\ ~IsConst(Last(np)) => i = Len(np)

\* Two equal constants at the ends make all operands equal.  Of the equation
\* the operands are still the ones the term p came with.
Trimmed(op, equal(_, _), p, np) ==
    LET equation(eq) == IF eq.is = "=" THEN Keep("=", p) ELSE eq
    IN  CASE Len(np) <= 1 -> True
          [] Len(np) > 1 /\ op \in {"<=", "str.<="} /\ IsConst(np[1]) /\ IsConst(Last(np))
                /\ equal(np[1], Last(np)) -> equation(RewriteEq(Front(np)))
          [] OTHER -> Keep(op, np)

\* greater and equal compare two constants of the chain.
ChainStep(strict, isC(_), greater(_, _), equal(_, _), acc, c) ==
    LET l    == acc.last[1]
        out  == acc.last # <<>> /\ (greater(l, c) \/ (strict /\ equal(l, c)))
        skip == acc.last # <<>> /\ ~strict /\ l = Last(acc.np) /\ equal(l, c)
        push(run, last) == [acc EXCEPT !.np = Append(IF run > 2 THEN Front(@) ELSE @, c),
                                       !.run = IF run > 2 THEN 2 ELSE run, !.last = last]
    IN  CASE ~acc.ok -> acc
          [] acc.ok /\ c = Last(acc.np) -> [acc EXCEPT !.ok = ~strict]
          [] acc.ok /\ c # Last(acc.np) /\ ~isC(c) -> push(0, acc.last)
          [] acc.ok /\ c # Last(acc.np) /\ isC(c) ->
               IF out THEN [acc EXCEPT !.ok = FALSE]
               ELSE IF skip THEN acc
               ELSE push(acc.run + 1, <<c>>)

Chain(op, strict, isC(_), greater(_, _), equal(_, _), p) ==
    LET start == [ok |-> TRUE, np |-> <<p[1]>>,
                  last |-> IF isC(p[1]) THEN <<p[1]>> ELSE <<>>, run |-> IF isC(p[1]) THEN 1 ELSE 0]
        judged(done) ==
            IF ~done.ok THEN False
            ELSE Trimmed(op, equal, p, SubSeq(done.np, FirstKept(done.np), LastKept(done.np)))
    IN  judged(FoldLeft(LAMBDA acc, c : ChainStep(strict, isC, greater, equal, acc, c), start, Tail(p)))

\* Text with its quotes, compared character by character.
Quoted(c) == <<34>> \o c.val \o <<34>>
TextLess(s, t) ==
    \E i \in 1..Len(t) : /\ i <= Len(s) + 1
                         /\ \A j \in 1..i - 1 : s[j] = t[j]
                         /\ i = Len(s) + 1 \/ s[i] < t[i]

RewriteChain(op, p) ==
    IF op \in {"<", "<="}
    THEN Chain(op, op = "<", IsNumeral, LAMBDA c, d : ToReal(c) > ToReal(d),
               LAMBDA c, d : ToReal(c) = ToReal(d), p)
    ELSE Chain(op, op = "str.<", IsCStr, LAMBDA c, d : TextLess(Quoted(d), Quoted(c)),
               LAMBDA c, d : c = d, p)

(***************************************************************************)
(* Any number of operands: Booleans.                                       *)
(***************************************************************************)
RewriteAndOr(op, p) ==
    LET absorbing == IF op = "and" THEN False ELSE True
        neutral   == IF op = "and" THEN True ELSE False
    IN  IF absorbing \in ToSet(p) THEN absorbing
        ELSE Remaining(op, Uniq(SelectSeq(p, LAMBDA x : x # neutral)), neutral)

\* Neighbours that are equal cancel each other.
Cancelled(p) ==
    FoldLeft(LAMBDA np, x : IF np # <<>> /\ x = Last(np) THEN Front(np) ELSE Append(np, x), <<>>, Sort(p))

RewriteXor(p) == Remaining("xor", Cancelled(SelectSeq(p, LAMBDA x : x # False)), False)

\* Mutant: neighbours are compared before the true premises are dropped.
ImpliesJoinedFirst(p) ==
    LET joined   == FoldLeft(LAMBDA np, x : IF np # <<>> /\ x = Last(np) THEN np ELSE Append(np, x),
                             <<>>, Front(p))
        premises == SelectSeq(joined, LAMBDA x : x # True)
    IN  IF Last(p) = True \/ \E i \in DOMAIN premises : premises[i] \in {False, Last(p)} THEN True
        ELSE Remaining("=>", Append(premises, Last(p)), True)

RewriteImplies(p) ==
    LET premises == SelectSeq(Front(p), LAMBDA x : x # True)
        joined   == FoldLeft(LAMBDA np, x : IF np # <<>> /\ x = Last(np) THEN np ELSE Append(np, x),
                             <<>>, premises)
    IN  IF Last(p) = True \/ \E i \in DOMAIN premises : premises[i] \in {False, Last(p)} THEN True
        ELSE Remaining("=>", Append(joined, Last(p)), True)

RewriteDistinct(p) == IF Len(Uniq(p)) < Len(p) THEN False ELSE Keep("distinct", Sort(p))

(***************************************************************************)
(* Any number of operands: numbers.                                        *)
(***************************************************************************)
\* A whole constant is added to a whole one only.
Combined(c, d, f(_, _)) ==
    CASE c = Thrown -> Thrown
      [] c # Thrown /\ IsCInt(d) -> IF IsCInt(c) THEN Int1(f(ToInt(c), ToInt(d))) ELSE Thrown
      [] c # Thrown /\ IsCReal(d) -> Real1(f(ToReal(c), ToReal(d)))

Others(p, isC(_)) == SelectSeq(p, LAMBDA x : ~isC(x))

RewriteAdd(p) ==
    LET c == Folded(LAMBDA x, y : Combined(x, y, +), SelectSeq(p, IsNumeral))
    IN  IF c = <<Thrown>> THEN Thrown
        ELSE Remaining("+", Others(p, IsNumeral) \o (IF c # <<>> /\ IsZero(c[1]) THEN <<>> ELSE c), Int1(0))

TimesConstant(c, d) ==
    CASE c = Thrown -> Thrown
      [] c # Thrown /\ IsCInt(d) -> IF IsCInt(c) THEN Int1(ToInt(c) * ToInt(d)) ELSE Thrown
      [] c # Thrown /\ IsCReal(d) -> Real1((ToReal(c) * ToReal(d)) \div Parts)

RewriteMul(p) ==
    LET c == Folded(TimesConstant, SelectSeq(p, IsNumeral))
    IN  CASE c = <<Thrown>> -> Thrown
          [] c # <<Thrown>> /\ c # <<>> /\ IsZero(c[1]) -> c[1]
          [] OTHER -> Remaining("*", Others(p, IsNumeral) \o (IF c # <<>> /\ IsOne(c[1]) THEN <<>> ELSE c), Int1(1))

\* Numbers of four bits, with a sign.
AndOf(x, y) ==
    LET bits == ValueOf(BvAnd(Text(Modulo(4, x)), Text(Modulo(4, y))))
    IN  IF bits >= 8 THEN bits - 16 ELSE bits

RewriteIand(p) ==
    LET c == Folded(LAMBDA x, y : Int1(AndOf(ToInt(x), ToInt(y))), SelectSeq(p, IsCInt))
    IN  IF c # <<>> /\ IsZero(c[1]) THEN c[1] ELSE Remaining("iand", Others(p, IsCInt) \o c, Int1(0))

\* Mutant: equal neighbours cancel each other wherever they are.
SubOfNeighbours(p) ==
    LET step(np, x) == IF x = Last(np) THEN Append(Front(np), Const(x.sort, <<0>>)) ELSE Append(np, x)
    IN  Remaining("-", FoldLeft(step, <<p[1]>>, Tail(p)), Int1(0))

\* Subtracted from the left as long as there is something to compute.
RewriteSub(p) ==
    LET step(acc, x) ==
            LET l == Last(acc.np)
            IN  CASE acc.stopped -> [acc EXCEPT !.np = Append(@, x)]
                  [] ~acc.stopped /\ x = l -> [acc EXCEPT !.np = <<Const(x.sort, <<0>>)>>]
                  [] ~acc.stopped /\ x # l /\ IsNumeral(x) /\ IsNumeral(l) ->
                       [acc EXCEPT !.np = <<IF IsCInt(x) /\ IsCInt(l) THEN Int1(ToInt(l) - ToInt(x))
                                            ELSE Real1(ToReal(l) - ToReal(x))>>]
                  [] OTHER -> [np |-> Append(acc.np, x), stopped |-> TRUE]
    IN  Remaining("-", FoldLeft(step, [np |-> <<p[1]>>, stopped |-> FALSE], Tail(p)).np, Int1(0))

\* Leading constants are divided; by a whole one rounded toward zero, by a
\* real one down.
RewriteDivInt(p, floating) ==
    LET upto  == CHOOSE n \in 1..Len(p) : /\ \A i \in 2..n : IsNumeral(p[i])
                                          /\ n < Len(p) => ~IsNumeral(p[n + 1])
        by(c, d) ==
            CASE c = Thrown -> Thrown
              [] c # Thrown /\ IsCInt(c) /\ IsCInt(d) ->
                   IF ToInt(d) = 0 THEN Thrown ELSE Int1(Div0(ToInt(c), ToInt(d)))
              [] OTHER ->
                   IF ~floating \/ ToReal(d) = 0 THEN Thrown
                   ELSE Int1(IF ToReal(d) > 0 THEN ToReal(c) \div ToReal(d) ELSE (-ToReal(c)) \div (-ToReal(d)))
        c == FoldLeft(by, p[1], SubSeq(p, 2, upto))
    IN  CASE ~IsNumeral(p[1]) -> Keep("div", p)
          [] IsNumeral(p[1]) /\ c = Thrown -> Thrown
          [] OTHER -> Remaining("div", <<c>> \o SubSeq(p, upto + 1, Len(p)), c)

RewriteMaxMin(op, p) ==
    LET better(c, d) == IF op = "max" THEN ToReal(d) > ToReal(c) ELSE ToReal(d) < ToReal(c)
        c == Folded(LAMBDA x, y : IF better(x, y) THEN y ELSE x, SelectSeq(Uniq(p), IsNumeral))
    IN  IF \E i \in DOMAIN p : IsConst(p[i]) /\ ~IsNumeral(p[i]) THEN Thrown
        ELSE Remaining(op, Others(Uniq(p), IsNumeral) \o c, Int1(0))

(***************************************************************************)
(* Any number of operands: bit-vectors and strings.                        *)
(***************************************************************************)
RewriteBvBits(op, p) ==
    LET w    == Width(p[1])
        ones == Bv(MkOnesText(w), w)
        zero == Bv(IntToBv(0, w), w)
        f(x, y) == Bv(CASE op = "bvand" -> BvAnd(x.val, y.val)
                        [] op = "bvor"  -> BvOr(x.val, y.val)
                        [] op = "bvxor" -> BvXor(x.val, y.val), w)
        c    == Folded(f, SelectSeq(Sort(p), IsCBV))
        absorbing == CASE op = "bvand" -> {zero} [] op = "bvor" -> {ones} [] op = "bvxor" -> {}
        neutral   == IF op = "bvand" THEN ones ELSE zero
        terms     == IF op = "bvxor" THEN Cancelled(Others(p, IsCBV)) ELSE Uniq(Others(p, IsCBV))
    IN  IF ToSet(c) \cap absorbing # {} THEN c[1]
        ELSE Remaining(op, terms \o (IF c = <<neutral>> THEN <<>> ELSE c), neutral)

RewriteBvComp(p) ==
    LET terms == Sort(Uniq(p))
    IN  CASE Len(SelectSeq(terms, IsCBV)) > 1 -> False
          [] OTHER -> IF Len(terms) = 1 THEN Bv(<<1>>, 1) ELSE Keep("bvcomp", terms)

RewriteBvSum(op, p) ==
    LET w == Width(p[1])
        neutral == Bv(IntToBv(IF op = "bvadd" THEN 0 ELSE 1, w), w)
        with(c) ==
            IF op = "bvmul" /\ c # <<>> /\ IsZero(c[1]) THEN c[1]
            ELSE Remaining(op, Others(p, IsCBV) \o (IF c = <<neutral>> THEN <<>> ELSE c), neutral)
    IN  with(Folded(LAMBDA x, y : Bv(BvArithmetic(op, x.val, y.val), w), SelectSeq(p, IsCBV)))

\* Neighbours that are constants become one.
Merged(p, isC(_), join(_, _)) ==
    FoldLeft(LAMBDA np, x : IF isC(x) /\ isC(Last(np)) THEN Append(Front(np), join(Last(np), x))
                            ELSE Append(np, x),
             <<p[1]>>, Tail(p))

RewriteConcat(p) ==
    LET np == Merged(p, IsCBV, LAMBDA x, y : Const("BV", BvConcat(x.val, y.val)))
    IN  IF Len(np) = 2 /\ IsZero(np[1])
        THEN RewriteExtension("zero_extend", np[2], Int1(Width(np[1])))
        ELSE Remaining("concat", np, np[1])

EmptyString == Const("String", <<>>)

\* An empty constant at the start may have joined others before it goes.
RewriteStrConcat(p) ==
    LET add(np, x) ==
            CASE IsCStr(x) /\ IsCStr(Last(np)) ->
                   Append(Front(np), Const("String", Last(np).val \o x.val))
              [] ~(IsCStr(x) /\ IsCStr(Last(np))) -> IF x = EmptyString THEN np ELSE Append(np, x)
        np == FoldLeft(add, <<p[1]>>, Tail(p))
    IN  Remaining("str.++", IF Len(np) > 1 /\ np[1] = EmptyString THEN Tail(np) ELSE np, EmptyString)

(***************************************************************************)
(* rewrite_oper: by the number of operands the operator has.               *)
(***************************************************************************)
UnaryNumber == {"not", "neg", "abs", "ceil", "floor", "round", "to_int", "to_real", "is_int",
                "is_prime", "is_even", "is_odd", "fact", "pow2", "sqrt", "safesqrt"} \cup Functions1
UnaryBv     == {"bvnot", "bvneg", "ubv_to_int", "sbv_to_int"}
UnaryString == {"str.len", "str.to_lower", "str.to_upper", "str.rev", "str.is_digit", "str.from_int",
                "str.to_int", "str.to_code", "str.from_code"}
BvComparisons == {"bvult", "bvule", "bvslt", "bvsle"}

RewriteOper(op, p, floating) ==
    CASE op \in UnaryNumber -> RewriteNumber1(op, p[1], floating)
      [] op \in UnaryBv     -> RewriteBv1(op, p[1])
      [] op \in UnaryString -> RewriteString1(op, p[1])
      [] op = "pow"         -> RewritePow(p[1], p[2], floating)
      [] op = "log"         -> RewriteLog(p[1], p[2], floating)
      [] op = "mod"         -> RewriteMod(p[1], p[2])
      [] op \in {"divisible", "gcd", "lcm"} -> RewriteIntegers2(op, p[1], p[2])
      [] op \in OfConstants -> RewriteBvArithmetic(op, p[1], p[2])
      [] op \in BvComparisons -> RewriteBvComparison(op, p[1], p[2])
      [] op \in {"bvugt", "bvuge", "bvsgt", "bvsge"} ->
           RewriteBvComparison(CASE op = "bvugt" -> "bvult" [] op = "bvuge" -> "bvule"
                                 [] op = "bvsgt" -> "bvslt" [] op = "bvsge" -> "bvsle", p[2], p[1])
      [] op \in {"bvxnor", "bvnand", "bvnor"} -> RewriteBvBitwise(op, p[1], p[2])
      [] op \in {"nat2bv", "int2bv"} -> RewriteToBv(op, p[1], p[2])
      [] op \in {"zero_extend", "sign_extend", "repeat"} -> RewriteExtension(op, p[1], p[2])
      [] op \in {"rotate_left", "rotate_right"} -> RewriteRotation(op, p[1], p[2])
      [] op \in {"str.at", "str.prefixof", "str.suffixof", "str.contains"} -> RewriteString2(op, p[1], p[2])
      [] op \in {"str.substr", "str.indexof", "str.update", "str.replace", "str.replace_all"} ->
           RewriteString3(op, p[1], p[2], p[3])
      [] op = "ite"     -> RewriteIte(p[1], p[2], p[3])
      [] op = "extract" -> RewriteExtract(p[1], p[2], p[3])
      [] op \in {"<", "<=", "str.<", "str.<="} -> RewriteChain(op, p)
      [] op \in {">", ">=", "str.>", "str.>="} ->
           RewriteChain(CASE op = ">" -> "<" [] op = ">=" -> "<=" [] op = "str.>" -> "str.<"
                          [] op = "str.>=" -> "str.<=", Reverse(p))
      [] op = "="        -> RewriteEq(p)
      [] op = "distinct" -> RewriteDistinct(p)
      [] op \in {"and", "or"} -> RewriteAndOr(op, p)
      [] op = "xor" -> RewriteXor(p)
      [] op = "=>"  -> RewriteImplies(p)
      [] op = "+"   -> RewriteAdd(p)
      [] op = "*"   -> RewriteMul(p)
      [] op = "iand" -> RewriteIand(p)
      [] op = "-"   -> RewriteSub(p)
      [] op = "div" -> RewriteDivInt(p, floating)
      [] op \in {"max", "min"} -> RewriteMaxMin(op, p)
      [] op \in {"bvand", "bvor", "bvxor"} -> RewriteBvBits(op, p)
      [] op = "bvcomp" -> RewriteBvComp(p)
      [] op \in {"bvadd", "bvmul"} -> RewriteBvSum(op, p)
      [] op = "concat" -> RewriteConcat(p)
      [] op = "str.++" -> RewriteStrConcat(p)
      [] OTHER -> Keep(op, p)
=============================================================================
