--------------------------- MODULE BitVectorText ----------------------------
(***************************************************************************)
(* Bit-vectors as the parser's rewriter has them: the digits of a literal. *)
(* The bitwise operations, concatenation, extraction, extension and the    *)
(* rotations work on the digits, the arithmetic in module BitVector, the   *)
(* comparisons on the integers the digits stand for.                       *)
(***************************************************************************)
EXTENDS BitVector

\* An access outside of the text throws.
OutOfRange == "std::out_of_range"

Text(b)   == [i \in 1..b.size |-> IF Bit(b, b.size - i) THEN 1 ELSE 0]
ValueOf(t) == FoldLeft(LAMBDA x, d : 2 * x + d, 0, t)
Parsed(t) == Bits(Len(t), ValueOf(t))

Zeros(n) == [i \in 1..n |-> 0]

Substr(t, from, n) == IF from > Len(t) THEN OutOfRange
                      ELSE SubSeq(t, from + 1, IF from + n < Len(t) THEN from + n ELSE Len(t))

(***************************************************************************)
(* Digit by digit.                                                         *)
(***************************************************************************)
BvNot(t) == [i \in DOMAIN t |-> 1 - t[i]]

Digitwise(op(_, _), t, u) == [i \in DOMAIN t |-> IF op(t[i] = 1, u[i] = 1) THEN 1 ELSE 0]

BvAnd(t, u)  == Digitwise(LAMBDA x, y : x /\ y, t, u)
BvOr(t, u)   == Digitwise(LAMBDA x, y : x \/ y, t, u)
BvXor(t, u)  == Digitwise(LAMBDA x, y : x # y, t, u)
BvNand(t, u) == Digitwise(LAMBDA x, y : ~(x /\ y), t, u)
BvNor(t, u)  == Digitwise(LAMBDA x, y : ~(x \/ y), t, u)
BvXnor(t, u) == Digitwise(LAMBDA x, y : x = y, t, u)

(***************************************************************************)
(* Arithmetic: into the library's form and back.                           *)
(***************************************************************************)
BvNeg(t) == Text(Ibvneg(Parsed(t)))

BvArithmetic(op, t, u) ==
    LET a == Parsed(t)
        b == Parsed(u)
    IN  Text(CASE op = "bvadd"  -> Ibvadd(a, b)
               [] op = "bvsub"  -> Ibvsub(a, b)
               [] op = "bvmul"  -> Ibvmul(a, b)
               [] op = "bvudiv" -> Ibvudiv(a, b)
               [] op = "bvurem" -> Ibvurem(a, b)
               [] op = "bvsdiv" -> Ibvsdiv(a, b)
               [] op = "bvsrem" -> Ibvsrem(a, b)
               [] op = "bvsmod" -> Ibvsmod(a, b)
               [] op = "bvshl"  -> Ibvshl(a, b)
               [] op = "bvlshr" -> Ibvshr(a, b)
               [] op = "bvashr" -> Ibvashr(a, b))

(***************************************************************************)
(* Structure.                                                              *)
(***************************************************************************)
BvConcat(t, u)     == t \o u
\* A mutant: counts the digits from one.
BvExtractFromOne(t, i, j) == Substr(t, Len(t) - i, i - j + 1)

BvExtract(t, i, j) == Substr(t, Len(t) - 1 - i, i - j + 1)
BvRepeat(t, n)     == FoldLeft(LAMBDA x, i : x \o t, <<>>, [i \in 1..n |-> i])
BvZeroExtend(t, n) == Zeros(n) \o t
BvSignExtend(t, n) == [i \in 1..n |-> t[1]] \o t

\* The count is not reduced modulo the size: a larger one throws.
BvRotateLeft(t, n)  == IF n > Len(t) THEN OutOfRange
                       ELSE Substr(t, n, Len(t)) \o Substr(t, 0, n)
BvRotateRight(t, n) == IF n > Len(t) THEN OutOfRange
                       ELSE Substr(t, Len(t) - n, Len(t)) \o Substr(t, 0, Len(t) - n)

(***************************************************************************)
(* Numbers.                                                                *)
(***************************************************************************)
BvToNat(t) == ValueOf(t)

\* The digits below a leading one are complemented and counted down from the
\* sign: not two's complement.
BvToInt(t) ==
    IF t[1] = 0 THEN ValueOf(Tail(t))
    ELSE FoldLeft(LAMBDA x, d : 2 * x + (1 - d), -1, Tail(t))

\* The digits of a number, at least one.
RECURSIVE Digits(_)
Digits(x) == IF x < 2 THEN <<x>> ELSE Append(Digits(x \div 2), x % 2)

\* Filled with zeros or cut to n digits; of a negative number the text has a
\* sign, which is then one of the digits.
Padded(digits, n) == IF Len(digits) < n THEN Zeros(n - Len(digits)) \o digits
                     ELSE SubSeq(digits, Len(digits) - n + 1, Len(digits))
NatToBv(x, n) == Padded(IF x < 0 THEN <<"-">> \o Digits(-x) ELSE Digits(x), n)

\* A literal: of hexadecimal digits it has four digits each, of a decimal
\* number as many as the number needs, whatever n is.
HexToBv(digits) == FoldLeft(LAMBDA t, h : t \o Padded(Digits(h), 4), <<>>, digits)

LiteralToBv(base, literal, n) ==
    CASE base = "b" -> Padded(literal, n)
      [] base = "x" -> HexToBv(literal)
      [] base = "d" -> Digits(literal)

\* A digit for the sign and the magnitude in n digits.
IntToBv(x, n) == IF x >= 0 THEN <<0>> \o Padded(Digits(x), n) ELSE <<1>> \o Padded(Digits(-x), n)

BvComp(op, t, u) ==
    CASE op = "="     -> t = u
      [] op = "bvult" -> BvToNat(t) < BvToNat(u)
      [] op = "bvule" -> BvToNat(t) <= BvToNat(u)
      [] op = "bvslt" -> BvToInt(t) < BvToInt(u)
      [] op = "bvsle" -> BvToInt(t) <= BvToInt(u)

BvIsMaxSigned(t)   == t[1] = 0 /\ \A i \in 2..Len(t) : t[i] = 1
BvIsMinSigned(t)   == t[1] = 1 /\ \A i \in 2..Len(t) : t[i] = 0
BvIsMaxUnsigned(t) == \A i \in DOMAIN t : t[i] = 1
MkOnesText(n)      == [i \in 1..n |-> 1]

\* With a number of one word.
BvCompareToUint(t, x) ==
    IF Len(t) > WordBits /\ \E i \in 1..Len(t) - WordBits : t[i] = 1 THEN 1
    ELSE IF BvToNat(t) < x THEN -1 ELSE IF BvToNat(t) > x THEN 1 ELSE 0

(***************************************************************************)
(* What SMT-LIB says of them.                                              *)
(***************************************************************************)
Signed(b) == IF Msb(b) THEN b.val - 2^b.size ELSE b.val
Modulo(n, x) == Bits(n, x % 2^n)
InRange(n, x) == -(2^(n - 1)) <= x /\ x < 2^(n - 1)

Magnitude(x) == IF x < 0 THEN -x ELSE x
\* Rounded toward zero, for a divisor that is not zero.
Towards0(x, y) == IF (x < 0) = (y < 0) THEN Magnitude(x) \div Magnitude(y)
                  ELSE -(Magnitude(x) \div Magnitude(y))
\* With the sign of the divisor.
FloorMod(x, y) == IF y > 0 THEN x % y ELSE -((-x) % (-y))
Limited(n, most) == IF n > most THEN most ELSE n

Meaning(op, a, b) ==
    LET n == a.size
        x == Signed(a)
        y == Signed(b)
        s == Limited(b.val, n)
        r == b.val % n
    IN  CASE op = "bvneg"  -> Modulo(n, -x)
          [] op = "bvadd"  -> Modulo(n, x + y)
          [] op = "bvsub"  -> Modulo(n, x - y)
          [] op = "bvmul"  -> Modulo(n, x * y)
          [] op = "bvudiv" -> IF y = 0 THEN Modulo(n, -1) ELSE Modulo(n, a.val \div b.val)
          [] op = "bvurem" -> IF y = 0 THEN a ELSE Modulo(n, a.val % b.val)
          [] op = "bvsdiv" -> Modulo(n, IF y = 0 THEN (IF x < 0 THEN 1 ELSE -1) ELSE Towards0(x, y))
          [] op = "bvsrem" -> IF y = 0 THEN a ELSE Modulo(n, x - y * Towards0(x, y))
          [] op = "bvsmod" -> IF y = 0 THEN a ELSE Modulo(n, FloorMod(x, y))
          [] op = "bvshl"  -> Modulo(n, x * 2^s)
          [] op = "bvlshr" -> Modulo(n, a.val \div 2^s)
          [] op = "bvashr" -> Modulo(n, x \div 2^s)
          [] op = "rol"    -> Modulo(n, a.val * 2^r + (a.val \div 2^(n - r)))
          [] op = "ror"    -> Modulo(n, a.val * 2^(n - r) + (a.val \div 2^r))
          [] op = "bvslt"  -> Bool(x < y)
          [] op = "bvsle"  -> Bool(x <= y)
          [] op = "bvult"  -> Bool(a.val < b.val)
          [] op = "bvule"  -> Bool(a.val <= b.val)
          [] op = "bvugt"  -> Bool(a.val > b.val)
          [] op = "bvuge"  -> Bool(a.val >= b.val)
          [] op = "bvsgt"  -> Bool(x > y)
          [] op = "bvsge"  -> Bool(x >= y)
          [] op = "bvuaddo" -> Bool(a.val + b.val >= 2^n)
          [] op = "bvusubo" -> Bool(a.val < b.val)
          [] op = "bvumulo" -> Bool(a.val * b.val >= 2^n)
          [] op = "bvsaddo" -> Bool(~InRange(n, x + y))
          [] op = "bvssubo" -> Bool(~InRange(n, x - y))
          [] op = "bvsmulo" -> Bool(~InRange(n, x * y))
          [] op = "bvsdivo" -> Bool(y # 0 /\ ~InRange(n, Towards0(x, y)))
          [] op = "bvnego"  -> Bool(~InRange(n, -x))

LibraryResult(op, a, b) ==
    CASE op = "bvslt"   -> Ibvslt(a, b)
      [] op = "bvsle"   -> Ibvsle(a, b)
      [] op = "bvult"   -> Ibvult(a, b)
      [] op = "bvule"   -> Ibvule(a, b)
      [] op = "bvugt"   -> Ibvugt(a, b)
      [] op = "bvuge"   -> Ibvuge(a, b)
      [] op = "bvsgt"   -> Ibvsgt(a, b)
      [] op = "bvsge"   -> Ibvsge(a, b)
      [] op = "rol"     -> Ibvrol(a, b)
      [] op = "ror"     -> Ibvror(a, b)
      [] op = "bvuaddo" -> Ibvuaddo(a, b)
      [] op = "bvusubo" -> Ibvusubo(a, b)
      [] op = "bvumulo" -> Ibvumulo(a, b)
      [] op = "bvsaddo" -> Ibvsaddo(a, b)
      [] op = "bvssubo" -> Ibvssubo(a, b)
      [] op = "bvsmulo" -> Ibvsmulo(a, b)
      [] op = "bvsdivo" -> Ibvsdivo(a, b)
      [] op = "bvnego"  -> Ibvnego(a)

(***************************************************************************)
(* What is asked of bit-vectors.                                           *)
(***************************************************************************)
OfText == {"bvadd", "bvsub", "bvmul", "bvudiv", "bvurem", "bvsdiv", "bvsrem", "bvsmod",
           "bvshl", "bvlshr", "bvashr"}
OfLibrary == {"bvslt", "bvsle", "bvult", "bvule", "bvugt", "bvuge", "bvsgt", "bvsge", "rol", "ror", "bvuaddo", "bvusubo", "bvumulo",
              "bvsaddo", "bvssubo", "bvsmulo", "bvsdivo", "bvnego"}

BitVectorsOf(n) == {Bits(n, v) : v \in 0..2^n - 1}

BitVectorQuestions ==
    UNION {[about : {"bits"}, op : {"bvneg"} \cup OfText \cup OfLibrary, of : BitVectorsOf(n), with : BitVectorsOf(n)]
           : n \in Sizes}
    \cup [about : {"digits"}, of : UNION {BitVectorsOf(n) : n \in Sizes},
          with : UNION {BitVectorsOf(n) : n \in Sizes}]

\* The arithmetic, the comparisons and the overflow checks are those of the
\* integers the bits stand for, in one word and in several.
ArithmeticIsRight(op, a, b) ==
    LET computed == CASE op = "bvneg"   -> Parsed(BvNeg(Text(a)))
                      [] op \in OfText   -> Parsed(BvArithmetic(op, Text(a), Text(b)))
                      [] op \in OfLibrary -> LibraryResult(op, a, b)
    IN  computed = Meaning(op, a, b)

\* The digits: comparisons (the signed ones except among negative numbers,
\* which are in the opposite order), structure (a rotation by at most the
\* size), conversions (of natural numbers).
DigitsAreRight(a, b) ==
    LET t == Text(a)
        u == Text(b)
        n == a.size
        same == b.size = n
    IN  /\ same =>
             /\ \A op \in {"bvult", "bvule"} : Bool(BvComp(op, t, u)) = Meaning(op, a, b)
             /\ ~(Msb(a) /\ Msb(b)) \/ a = b =>
                  \A op \in {"bvslt", "bvsle"} : Bool(BvComp(op, t, u)) = Meaning(op, a, b)
             /\ Parsed(BvAnd(t, u)) = Ibvand(a, b)
             /\ Parsed(BvNor(t, u)) = Ibvnot(Ibvor(a, b))
             /\ Parsed(BvXnor(t, u)) = Ibvxnor(a, b)
             /\ BvNot(BvOr(t, u)) = BvAnd(BvNot(t), BvNot(u))
             /\ BvNand(t, BvNot(t)) = MkOnesText(n)
             /\ BvXor(t, BvXor(t, u)) = u
        /\ Parsed(BvConcat(t, u)) = Ibvconcat(a, b)
        /\ BvExtract(BvConcat(t, u), b.size - 1, 0) = u
        /\ BvExtract(BvConcat(t, u), n + b.size - 1, b.size) = t
        /\ \A i \in 0..n - 1, j \in 0..n - 1 :
             j <= i => Parsed(BvExtract(t, i, j)) = Ibvextract(a, i, j)
        /\ b.size <= n /\ b.val <= n =>
             /\ Parsed(BvRotateLeft(t, b.val)) = Ibvroli(a, b.val)
             /\ Parsed(BvRotateRight(t, b.val)) = Ibvrori(a, b.val)
        /\ b.val <= 3 =>
             /\ Parsed(BvZeroExtend(t, b.val)) = Ibvzext(a, b.val)
             /\ Parsed(BvSignExtend(t, b.val)) = Ibvsext(a, b.val)
             /\ b.val > 0 => Parsed(BvRepeat(t, b.val)) = Ibvrepeat(a, b.val)
             /\ Signed(Ibvsext(a, b.val)) = Signed(a)
        /\ Parsed(NatToBv(BvToNat(t), b.size)) = Modulo(b.size, a.val)
        /\ Parsed(LiteralToBv("x", <<a.val, b.val>>, n)) = Bits(8, 16 * a.val + b.val)
        /\ ValueOf(LiteralToBv("d", a.val, n)) = ValueOf(LiteralToBv("b", t, n))
        /\ ~Msb(a) => BvToInt(t) = Signed(a)
        /\ BvIsMaxSigned(t) <=> a = MkMaxSigned(n)
        /\ BvIsMinSigned(t) <=> a = MkMinSigned(n)
        /\ BvIsMaxUnsigned(t) <=> IsOnes(a)
        /\ b.size = WordBits => (BvCompareToUint(t, b.val) = 0 <=> a.val = b.val)
        /\ IsMinSigned(a) <=> Signed(a) = -(2^(n - 1))
        /\ IsMaxSigned(a) <=> Signed(a) = 2^(n - 1) - 1
        /\ Ibvredand(a) = Bool(Signed(a) = -1)
        /\ Ibvredor(a) = Bool(a.val # 0)
        /\ Ibvinc(Ibvdec(a)) = a
        /\ IsPowerOfTwo(a) <=> \E k \in 0..n - 1 : a.val = 2^k
        /\ CountLeading(a, TRUE) = Cardinality({k \in 0..n - 1 : a.val < 2^k})
        /\ CountLeading(a, FALSE) = CountLeading(Ibvnot(a), TRUE)
        /\ b.val \in 1..3 => Ibvpow(a, b.val) = Modulo(n, a.val^b.val)
        /\ same => /\ Ibvite(Ibveq(a, b), a, b) = b
                   /\ Ibvimplies(Ibveq(a, b), Ibvne(a, b)) = Ibvne(a, b)
        /\ Lsb(a) => Ibvmul(a, Ibvmodinv(a)) = MkOne(n)
=============================================================================
