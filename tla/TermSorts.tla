------------------------------- MODULE TermSorts -----------------------------
(***************************************************************************)
(* How an application of an operator is read: its name to a kind, its      *)
(* indices and operands put in the order the constructor takes them, the   *)
(* sorts the constructor checks, and the sort it gives the term.  A kind   *)
(* is written as the name it is printed with.                              *)
(***************************************************************************)
EXTENDS Integers, Sequences, FiniteSets, TLC, SequencesExt

(***************************************************************************)
(* Sorts and terms: a term is its sort, and its number if it is a numeral, *)
(* whose sort is integer or real as its place wants.                       *)
(***************************************************************************)
Plain(name)   == <<name>>
BVOf(n)       == <<"BV", n>>
FPOf(e, s)    == <<"FP", e, s>>
ArrayOf(i, e) == <<"Array", i, e>>

BoolS == Plain("Bool")
IntS  == Plain("Int")
RealS == Plain("Real")
StrS  == Plain("String")
RegS  == Plain("RegLan")
ModeS == Plain("RoundingMode")
NumeralS == Plain("IntOrReal")

TermOf(sort) == [sort |-> sort, number |-> -1]
Num(n)       == [sort |-> NumeralS, number |-> n]

Refused == <<"refused">>

(***************************************************************************)
(* Sorts are compared by kind and name: the widths of bit-vectors and the  *)
(* sorts in an array are not.                                              *)
(***************************************************************************)
EqTo(s, t) == CASE s[1] = "FP" /\ t[1] = "FP" -> s = t
                [] OTHER -> \/ s[1] = t[1]
                            \/ NumeralS \in {s, t} /\ {s, t} \subseteq {IntS, RealS, NumeralS}

CanExempt(s, t) == {s, t} \subseteq {IntS, RealS}

\* A mutant: takes a string for a regular language.
IsOrWord(kind, x) ==
    CASE kind = "any"    -> TRUE
      [] kind = "Int"    -> x.sort \in {IntS, NumeralS}
      [] kind = "Real"   -> x.sort \in {RealS, NumeralS}
      [] kind = "Number" -> x.sort \in {IntS, RealS, NumeralS}
      [] kind = "RegLan" -> x.sort[1] \in {"RegLan", "String"}
      [] OTHER           -> x.sort[1] = kind

Is(kind, x) ==
    CASE kind = "any"    -> TRUE
      [] kind = "Int"    -> x.sort \in {IntS, NumeralS}
      [] kind = "Real"   -> x.sort \in {RealS, NumeralS}
      [] kind = "Number" -> x.sort \in {IntS, RealS, NumeralS}
      [] OTHER           -> x.sort[1] = kind

\* Of numbers real if one is; of others the sort of the first.
GetSort(a) == IF Is("Number", a[1])
              THEN IF \E i \in DOMAIN a : a[i].sort = RealS THEN RealS ELSE IntS
              ELSE a[1].sort

Agreeing(a) == \A i \in DOMAIN a : EqTo(a[i].sort, GetSort(a)) \/ CanExempt(a[i].sort, GetSort(a))

(***************************************************************************)
(* Names.                                                                  *)
(***************************************************************************)
Aliases ==
    [x \in {"==", "<->", "iff", "<=>"} |-> "="] @@ [x \in {"!=", "<>"} |-> "distinct"] @@
    [x \in {"pow", "**"} |-> "^"] @@ ("%" :> "mod") @@ ("safeSqrt" :> "safesqrt") @@
    ("loge" :> "ln") @@ ("log10" :> "lg") @@ ("log2" :> "lb") @@ ("int_to_bv" :> "int2bv") @@
    ("arcsin" :> "asin") @@ ("arccos" :> "acos") @@ ("arctan" :> "atan") @@ ("arcsec" :> "asec") @@
    ("fp.le" :> "fp.leq") @@ ("fp.ge" :> "fp.geq") @@ [x \in {"fp.=", "fp.=="} |-> "fp.eq"] @@
    ("fp.toUbv" :> "fp.to_ubv") @@ ("fp.toSbv" :> "fp.to_sbv") @@ ("fp.isInf" :> "fp.isInfinite") @@
    ("fp.isNan" :> "fp.isNaN") @@ ("fp.isNeg" :> "fp.isNegative") @@ ("fp.isPos" :> "fp.isPositive") @@
    ("re.?" :> "re.opt") @@ ("re.repeat" :> "re.^")

Functions == {"exp", "ln", "lg", "lb", "sin", "cos", "sec", "csc", "tan", "cot", "asin", "acos",
              "asec", "acsc", "atan", "acot", "sinh", "cosh", "tanh", "sech", "csch", "asinh",
              "acosh", "atanh", "asech", "acsch", "acoth"}
BvDivisions   == {"bvudiv", "bvurem", "bvumod", "bvsdiv", "bvsrem", "bvsmod", "bvshl", "bvlshr", "bvashr"}
BvOrders      == {"bvult", "bvule", "bvugt", "bvuge", "bvslt", "bvsle", "bvsgt", "bvsge"}
BvLists       == {"bvand", "bvor", "bvxor", "bvadd", "bvmul"}
BvToNumber    == {"bv2nat", "bv2int", "ubv_to_int", "sbv_to_int"}
FpArithmetic2 == {"fp.add", "fp.sub", "fp.mul", "fp.div"}
FpTests       == {"fp.isNormal", "fp.isSubnormal", "fp.isZero", "fp.isInfinite", "fp.isNaN",
                  "fp.isNegative", "fp.isPositive"}
FpOrders      == {"fp.leq", "fp.lt", "fp.geq", "fp.gt", "fp.eq"}
StrTests2     == {"str.prefixof", "str.suffixof", "str.contains"}
StrCases      == {"str.to_lower", "str.to_upper", "str.rev"}
StrOrders     == {"str.<", "str.<=", "str.>", "str.>="}
RegLists      == {"re.++", "re.union", "re.inter", "re.diff"}
Arithmetic    == {"+", "*", "iand", "-"}

KindOf(name) == IF name \in DOMAIN Aliases THEN Aliases[name] ELSE name

\* What is printed for a kind; two kinds are printed with the name of another.
PrintedName(kind) == CASE kind = "bv2int" -> "bv2nat"
                       [] kind = "str.indexof_re" -> "str.indexof"
                       [] OTHER -> kind

(***************************************************************************)
(* parseOper: a count of operands and indices the kind does not have is    *)
(* refused; an operator with indices takes them after its operands, to_fp  *)
(* before them.  The two conversions to integers are made by one           *)
(* constructor, the unsigned one.                                          *)
(***************************************************************************)
\* A mutant: has forgotten the index of a rotation to the right.
IndicesButRotateRight(kind) ==
    CASE kind \in {"extract", "re.loop", "to_fp", "to_fp_unsigned"} -> 2
      [] kind \in {"int2bv", "repeat", "zero_extend", "sign_extend", "rotate_left",
                   "fp.to_ubv", "fp.to_sbv"} -> 1
      [] OTHER -> 0

Indices(kind) ==
    CASE kind \in {"extract", "re.loop", "to_fp", "to_fp_unsigned"} -> 2
      [] kind \in {"int2bv", "repeat", "zero_extend", "sign_extend", "rotate_left", "rotate_right",
                   "fp.to_ubv", "fp.to_sbv"} -> 1
      [] OTHER -> 0

Arguments(kind, indices, operands) ==
    LET numbers == [i \in DOMAIN indices |-> Num(indices[i])]
    IN  IF kind \in {"to_fp", "to_fp_unsigned"} THEN numbers \o operands ELSE operands \o numbers

(***************************************************************************)
(* The constructors: what an operand has to be.                            *)
(***************************************************************************)
Copies(n, kind) == [i \in 1..n |-> kind]

\* Of operators with any number of operands: the same of each.
WantsOfEach(kind) ==
    CASE kind \in {"and", "or"}          -> "Bool"
      [] kind \in BvLists \cup {"concat"} -> "BV"
      [] kind = "str.++"                 -> "String"
      [] kind \in RegLists              -> "RegLan"
      [] kind \in {"=", "distinct", "=>", "xor", "<", "<=", ">", ">=", "div", "/", "bvcomp"}
                  \cup Arithmetic \cup FpOrders \cup StrOrders -> "any"
      [] OTHER -> "none"

\* Of the others: one by one, the indices with the operands.
Each(kinds, wanted) == [k \in kinds |-> wanted]

CoreWants ==
    Each({"not"}, <<"Bool">>) @@ Each({"ite"}, Copies(3, "any")) @@
    Each({"select"}, <<"Array", "any">>) @@ Each({"store"}, Copies(3, "any"))

RoundingWants ==
    Each({"abs", "sqrt", "safesqrt", "ceil"}, <<"Number">>) @@ Each({"floor", "round", "pow2", "neg"}, <<"any">>) @@
    Each({"mod"}, <<"Int", "Int">>) @@ Each({"^"}, <<"any", "any">>)

FunctionWants == Each(Functions, <<"any">>) @@ Each({"log", "atan2"}, <<"any", "any">>)

IntegerWants ==
    Each({"to_int", "is_int"}, <<"Real">>) @@ Each({"to_real", "is_prime", "is_even", "is_odd"}, <<"Int">>) @@
    Each({"is_divisible"}, <<"Int", "Int">>)

DivisorWants == Each({"gcd", "lcm"}, <<"Int", "Int">>) @@ Each({"factorial"}, <<"Int">>)

BitwiseWants ==
    Each({"bvnot"}, <<"BV">>) @@ Each({"bvneg"}, <<"any">>) @@
    Each({"bvnand", "bvnor", "bvxnor", "bvsub"}, <<"any", "any">>)

BvPairWants == Each(BvDivisions \cup BvOrders, <<"BV", "BV">>)

BvPartWants ==
    Each({"extract"}, <<"BV", "Int", "Int">>) @@
    Each({"repeat", "zero_extend", "sign_extend", "rotate_left", "rotate_right"}, <<"BV", "Int">>)

BvConversionWants == Each(BvToNumber, <<"BV">>) @@ Each({"nat2bv", "int2bv"}, <<"Int", "Int">>)

FpArithmeticWants ==
    Each(FpArithmetic2, <<"RoundingMode", "FP", "FP">>) @@
    Each({"fp.fma"}, <<"RoundingMode", "FP", "FP", "FP">>) @@ Each({"fp.abs", "fp.neg"}, <<"FP">>) @@
    Each({"fp.rem"}, <<"FP", "FP">>)

FpRoundingWants ==
    Each({"fp.sqrt", "fp.roundToIntegral"}, <<"any", "FP">>) @@ Each({"fp.min", "fp.max"}, <<"any", "any">>)

FpConversionWants ==
    Each({"fp.to_ubv", "fp.to_sbv"}, <<"RoundingMode", "FP", "Int">>) @@ Each({"fp.to_real"}, <<"FP">>)

ToFpWants ==
    Each({"to_fp_unsigned"}, <<"any", "any", "RoundingMode", "BV">>) @@
    Each({"to_fp"}, <<"any", "any", "RoundingMode", "any">>)

FpTestWants == Each(FpTests, <<"FP">>) @@ Each({"fp"}, <<"BV", "BV", "BV">>)

StringWants ==
    Each({"str.len"} \cup StrCases, <<"String">>) @@ Each(StrTests2, <<"String", "String">>) @@
    Each({"str.at"}, <<"String", "Int">>) @@ Each({"str.substr"}, <<"String", "Int", "Int">>) @@
    Each({"str.indexof"}, <<"String", "String", "Int">>) @@ Each({"str.update"}, <<"String", "Int", "String">>) @@
    Each({"str.replace", "str.replace_all"}, Copies(3, "String")) @@
    Each({"str.replace_re", "str.replace_re_all"}, <<"String", "RegLan", "String">>) @@
    Each({"str.indexof_re"}, <<"String", "RegLan">>)

SplitWants ==
    Each({"str.split", "str.num_splits"}, <<"String", "String">>) @@
    Each({"str.split_at", "str.split_rest"}, <<"String", "String", "Int">>) @@
    Each({"str.split_at_re", "str.split_rest_re"}, <<"String", "RegLan", "Int">>) @@
    Each({"str.num_splits_re"}, <<"String", "RegLan">>)

StrConversionWants ==
    Each({"str.in_re"}, <<"String", "RegLan">>) @@ Each({"str.from_int", "str.from_code"}, <<"Int">>) @@
    Each({"str.is_digit", "str.to_int", "str.to_code", "str.to_re"}, <<"String">>)

RegLanWants ==
    Each({"re.*", "re.+", "re.opt", "re.comp"}, <<"RegLan">>) @@ Each({"re.range"}, <<"String", "String">>) @@
    Each({"re.^"}, <<"RegLan", "Int">>) @@ Each({"re.loop"}, <<"RegLan", "Int", "Int">>)

Wants == CoreWants @@ RoundingWants @@ FunctionWants @@ IntegerWants @@ DivisorWants @@ BitwiseWants @@
         BvPairWants @@ BvPartWants @@ BvConversionWants @@ FpArithmeticWants @@ FpRoundingWants @@
         FpConversionWants @@ ToFpWants @@ FpTestWants @@ StringWants @@ SplitWants @@
         StrConversionWants @@ RegLanWants

\* How many operands the constructor can be given: any number, or as many as it wants.
Variadic(kind) == WantsOfEach(kind) # "none"

WantsOf(kind, n) == IF Variadic(kind) THEN Copies(n, WantsOfEach(kind))
                    ELSE IF kind = "to_fp" /\ n = 3 THEN <<"any", "any", "BV">>
                    ELSE Wants[kind]

\* Operators with any number of operands that are read with this number.
Countable(kind, n) ==
    CASE kind \in {"=", "distinct", "<", "<=", ">", ">=", "=>", "xor"} -> n >= 2
      [] kind \in {"div", "/", "re.diff"}                              -> n = 2
      [] OTHER                                                         -> n >= 1

\* What else is compared: the sorts of floating-point operands exactly, those of the arithmetic
\* operators but for a mixture of integers and reals, and what to_fp converts.
AlsoFits(kind, a) ==
    CASE kind \in FpArithmetic2                            -> a[2].sort = a[3].sort
      [] kind = "fp.fma"                                   -> a[2].sort = a[3].sort /\ a[2].sort = a[4].sort
      [] kind = "log"                                      -> EqTo(a[1].sort, a[2].sort) \/ CanExempt(a[1].sort, a[2].sort)
      [] kind \in {"=", "distinct"} \cup Arithmetic        -> Len(a) = 1 \/ Agreeing(a)
      [] kind = "fp"                                       -> a[1].sort[2] = 1
      [] kind = "to_fp"                                    -> \E k \in {"Real", "BV", "FP"} : Is(k, a[Len(a)])
      [] OTHER                                             -> TRUE

(***************************************************************************)
(* getArity: the constructors that put together an application with        *)
(* another number of children than the kind has are always refused by the  *)
(* rewriter.                                                               *)
(***************************************************************************)
ArityIsWrong(kind, n) ==
    \/ kind = "str.indexof_re" /\ n # 3
    \/ kind \in {"fp.sqrt", "fp.roundToIntegral"} /\ n # 2

NotParsed == {"bvumod", "coth", "max", "min", "divisible"}

(***************************************************************************)
(* The sort of the term made.                                              *)
(***************************************************************************)
Width(x) == x.sort[2]
SumOfWidths(a) == FoldSeq(LAMBDA x, n : Width(x) + n, 0, a)

OfBool == {"and", "or", "not", "=>", "xor", "=", "distinct", "<", "<=", ">", ">=", "is_int", "is_divisible",
           "is_prime", "is_even", "is_odd", "str.in_re", "str.is_digit"}
          \cup BvOrders \cup FpTests \cup FpOrders \cup StrTests2 \cup StrOrders
OfInt  == {"floor", "round", "to_int", "gcd", "lcm", "factorial", "div", "mod", "str.len", "str.indexof",
           "str.indexof_re", "str.num_splits", "str.num_splits_re", "str.to_int", "str.to_code"} \cup BvToNumber
OfReal == {"log", "atan2", "to_real", "/", "fp.to_real"} \cup Functions
OfStr  == {"str.++", "str.at", "str.substr", "str.update", "str.replace", "str.replace_all", "str.replace_re",
           "str.replace_re_all", "str.from_int", "str.from_code", "str.split_at", "str.split_rest",
           "str.split_at_re", "str.split_rest_re"} \cup StrCases
OfReg  == {"str.to_re", "re.*", "re.+", "re.opt", "re.comp", "re.range", "re.^", "re.loop"} \cup RegLists
OfAll  == {"bvnand", "bvnor", "bvxnor", "bvsub", "fp.min", "fp.max"} \cup BvLists \cup Arithmetic

OfBv(kind, a) ==
    CASE kind = "bvcomp"                         -> BVOf(1)
      [] kind = "concat"                         -> BVOf(SumOfWidths(a))
      [] kind = "extract"                        -> BVOf(a[2].number - a[3].number + 1)
      [] kind = "repeat"                         -> BVOf(Width(a[1]) * a[2].number)
      [] kind \in {"zero_extend", "sign_extend"} -> BVOf(Width(a[1]) + a[2].number)
      [] kind \in {"int2bv", "nat2bv"}           -> BVOf(a[2].number)
      [] OTHER                                   -> BVOf(a[3].number)    \* fp.to_ubv, fp.to_sbv

ResultOf(kind, a) ==
    CASE kind \in OfBool -> BoolS   [] kind \in OfInt -> IntS   [] kind \in OfReal -> RealS
      [] kind \in OfStr  -> StrS    [] kind \in OfReg -> RegS
      [] kind \in OfAll  -> IF Len(a) = 1 THEN a[1].sort ELSE GetSort(a)
      [] kind \in {"bvcomp", "concat", "extract", "repeat", "zero_extend", "sign_extend", "int2bv", "nat2bv",
                   "fp.to_ubv", "fp.to_sbv"}      -> OfBv(kind, a)
      [] kind = "fp"                              -> FPOf(Width(a[2]), Width(a[3]) + 1)
      [] kind \in {"to_fp", "to_fp_unsigned"}     -> FPOf(a[1].number, a[2].number)
      [] kind = "select"                          -> a[1].sort[3]
      [] kind = "str.split"                       -> ArrayOf(IntS, StrS)
      [] kind \in {"ite", "fp.roundToIntegral", "fp.sqrt", "fp.fma"} \cup FpArithmetic2 -> a[2].sort
      [] OTHER                                    -> a[1].sort

(***************************************************************************)
(* parseOper and the constructor it calls.                                 *)
(***************************************************************************)
Read(op, indices, operands) ==
    LET kind == KindOf(op)
        a    == Arguments(kind, indices, operands)
        want == WantsOf(kind, Len(a))
    IN  IF /\ kind \notin NotParsed
           /\ Len(indices) = Indices(kind)
           /\ Len(want) = Len(a)
           /\ Variadic(kind) => Countable(kind, Len(a))
           /\ \A i \in DOMAIN a : Is(want[i], a[i])
           /\ AlsoFits(kind, a)
           /\ ~ArityIsWrong(kind, Len(a))
        THEN ResultOf(kind, a)
        ELSE Refused

(***************************************************************************)
(* The signatures of the standard theories, at small widths.               *)
(***************************************************************************)
BV2  == BVOf(2)
BV3  == BVOf(3)
FP23 == FPOf(2, 3)
FP33 == FPOf(3, 3)
IntToStr == ArrayOf(IntS, StrS)

Sorts == {BoolS, IntS, RealS, StrS, RegS, ModeS, BV2, BV3, FP23, FP33, IntToStr}

Sig(ops, indices, operands, result) ==
    {[op |-> op, indices |-> indices, operands |-> operands, result |-> result] : op \in ops}

CoreSignatures ==
    Sig({"not"}, <<>>, <<BoolS>>, BoolS) \cup Sig({"and", "or", "xor", "=>"}, <<>>, Copies(3, BoolS), BoolS)
    \cup UNION {Sig({"=", "distinct"}, <<>>, <<s, s>>, BoolS) \cup Sig({"ite"}, <<>>, <<BoolS, s, s>>, s) : s \in Sorts}
    \cup Sig({"select"}, <<>>, <<IntToStr, IntS>>, StrS) \cup Sig({"store"}, <<>>, <<IntToStr, IntS, StrS>>, IntToStr)

NumberSignatures ==
    UNION {Sig({"+", "*", "-"}, <<>>, Copies(3, s), s) \cup Sig({"-"}, <<>>, <<s>>, s)
           \cup Sig({"<", "<=", ">", ">="}, <<>>, Copies(3, s), BoolS) : s \in {IntS, RealS}}
    \cup Sig({"div", "mod"}, <<>>, <<IntS, IntS>>, IntS) \cup Sig({"/"}, <<>>, <<RealS, RealS>>, RealS)
    \cup Sig({"abs"}, <<>>, <<IntS>>, IntS) \cup Sig({"to_real"}, <<>>, <<IntS>>, RealS)
    \cup Sig({"to_int"}, <<>>, <<RealS>>, IntS) \cup Sig({"is_int"}, <<>>, <<RealS>>, BoolS)
    \cup Sig({"divisible"}, <<2>>, <<IntS>>, BoolS)

BitVectorSignatures ==
    Sig({"bvnot", "bvneg"}, <<>>, <<BV2>>, BV2) \cup Sig({"bvcomp"}, <<>>, <<BV2, BV2>>, BVOf(1))
    \cup Sig({"bvand", "bvor", "bvxor", "bvadd", "bvmul", "bvnand", "bvnor", "bvxnor", "bvsub"}
              \cup (BvDivisions \ {"bvumod"}), <<>>, <<BV2, BV2>>, BV2)
    \cup Sig(BvOrders, <<>>, <<BV2, BV2>>, BoolS) \cup Sig({"concat"}, <<>>, <<BV2, BV3>>, BVOf(5))
    \cup Sig({"extract"}, <<2, 1>>, <<BV3>>, BV2) \cup Sig({"repeat"}, <<3>>, <<BV2>>, BVOf(6))
    \cup Sig({"zero_extend", "sign_extend"}, <<1>>, <<BV2>>, BV3)
    \cup Sig({"rotate_left", "rotate_right"}, <<1>>, <<BV3>>, BV3)
    \cup Sig({"bv2nat", "ubv_to_int", "sbv_to_int"}, <<>>, <<BV2>>, IntS)
    \cup Sig({"int2bv", "int_to_bv", "nat2bv"}, <<3>>, <<IntS>>, BV3)

FloatSignatures ==
    Sig(FpArithmetic2, <<>>, <<ModeS, FP23, FP23>>, FP23) \cup Sig({"fp.fma"}, <<>>, <<ModeS, FP23, FP23, FP23>>, FP23)
    \cup Sig({"fp.abs", "fp.neg"}, <<>>, <<FP23>>, FP23)
    \cup Sig({"fp.rem", "fp.min", "fp.max"}, <<>>, <<FP23, FP23>>, FP23)
    \cup Sig({"fp.sqrt", "fp.roundToIntegral"}, <<>>, <<ModeS, FP23>>, FP23)
    \cup Sig(FpOrders, <<>>, <<FP23, FP23>>, BoolS) \cup Sig(FpTests, <<>>, <<FP23>>, BoolS)
    \cup Sig({"fp.to_ubv", "fp.to_sbv"}, <<2>>, <<ModeS, FP23>>, BV2) \cup Sig({"fp.to_real"}, <<>>, <<FP23>>, RealS)
    \cup Sig({"fp"}, <<>>, <<BVOf(1), BV2, BV2>>, FP23) \cup Sig({"to_fp"}, <<2, 3>>, <<BVOf(5)>>, FP23)
    \cup UNION {Sig({"to_fp"}, <<2, 3>>, <<ModeS, s>>, FP23) : s \in {RealS, FP33, BV3}}
    \cup Sig({"to_fp_unsigned"}, <<2, 3>>, <<ModeS, BV3>>, FP23)

StringSignatures ==
    Sig({"str.++"}, <<>>, Copies(3, StrS), StrS) \cup Sig({"str.len", "str.to_int", "str.to_code"}, <<>>, <<StrS>>, IntS)
    \cup Sig({"str.<", "str.<="} \cup StrTests2, <<>>, <<StrS, StrS>>, BoolS) \cup Sig({"str.is_digit"}, <<>>, <<StrS>>, BoolS)
    \cup Sig({"str.from_int", "str.from_code"}, <<>>, <<IntS>>, StrS) \cup Sig({"str.at"}, <<>>, <<StrS, IntS>>, StrS)
    \cup Sig({"str.substr"}, <<>>, <<StrS, IntS, IntS>>, StrS) \cup Sig({"str.indexof"}, <<>>, <<StrS, StrS, IntS>>, IntS)
    \cup Sig({"str.replace", "str.replace_all"}, <<>>, Copies(3, StrS), StrS)
    \cup Sig({"str.replace_re", "str.replace_re_all"}, <<>>, <<StrS, RegS, StrS>>, StrS)
    \cup Sig({"str.to_re"}, <<>>, <<StrS>>, RegS) \cup Sig({"re.range"}, <<>>, <<StrS, StrS>>, RegS)
    \cup Sig({"str.in_re"}, <<>>, <<StrS, RegS>>, BoolS)
    \cup Sig({"re.++", "re.union", "re.inter"}, <<>>, Copies(3, RegS), RegS) \cup Sig({"re.diff"}, <<>>, <<RegS, RegS>>, RegS)
    \cup Sig({"re.*", "re.+", "re.opt", "re.comp"}, <<>>, <<RegS>>, RegS)
    \cup Sig({"re.^"}, <<2>>, <<RegS>>, RegS) \cup Sig({"re.loop"}, <<1, 2>>, <<RegS>>, RegS)

Standard == CoreSignatures \cup NumberSignatures \cup BitVectorSignatures \cup FloatSignatures \cup StringSignatures

(***************************************************************************)
(* The questions: the signatures, and each with one operand of another     *)
(* sort.                                                                   *)
(***************************************************************************)
SortQuestions ==
    {[about |-> "sorts", of |-> s, operands |-> s.operands] : s \in Standard}
    \cup {[about |-> "sorts", of |-> q[1], operands |-> q[2]] :
            q \in UNION {{<<s, [s.operands EXCEPT ![i] = t]>> : i \in DOMAIN s.operands, t \in Sorts} : s \in Standard}}

ReadSorts(op, q) == Read(op, q.of.indices, [i \in DOMAIN q.operands |-> TermOf(q.operands[i])])

(***************************************************************************)
(* What is read is what the standard says, and what is written of it is    *)
(* read as the same again; three operators of the standard are not read,   *)
(* whose indices parseOper looks for among the operands, or whose name it  *)
(* does not know (operands put in another order, a wrong index, an         *)
(* operator left out of one of the tables).                                *)
(***************************************************************************)
Misread == {"re.^", "nat2bv", "divisible"}

StandardIsRead(q) ==
    q.operands = q.of.operands =>
        \A op \in {q.of.op, PrintedName(KindOf(q.of.op))} :
            ReadSorts(op, q) = IF q.of.op \in Misread THEN Refused ELSE q.of.result

(***************************************************************************)
(* An operand of another kind of sort is refused, as the checks of the     *)
(* constructors say; integers and reals may be mixed, and these operators  *)
(* check nothing of some or all of their operands.                         *)
(***************************************************************************)
Unchecked == {"=>", "xor", "ite", "<", "<=", ">", ">=", "div", "/", "bvneg", "bvcomp", "bvnand", "bvnor", "bvxnor",
              "bvsub", "fp.min", "fp.max", "fp.sqrt", "fp.roundToIntegral", "select", "store", "str.<", "str.<="}
             \cup FpOrders

Kinds(operands) == [i \in DOMAIN operands |-> operands[i][1]]

OthersAreRefused(q) ==
    \/ q.of.op \in Unchecked
    \/ q.of.op = "-" /\ Len(q.operands) = 1
    \/ \A i \in DOMAIN q.operands : q.operands[i] \in {IntS, RealS}
    \/ \E s \in Standard : s.op = q.of.op /\ s.indices = q.of.indices /\ Kinds(s.operands) = Kinds(q.operands)
    \/ ReadSorts(q.of.op, q) = Refused
==============================================================================
