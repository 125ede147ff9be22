----------------------------- MODULE BitVector ------------------------------
(***************************************************************************)
(* Bit-vectors, twice.  The library keeps a size and a value, in a machine *)
(* word if it fits into one and as a number of any length otherwise.  The  *)
(* rewriter keeps the text of the literal, its digits from the highest to  *)
(* the lowest, and turns it into the library's form for the arithmetic.    *)
(*                                                                         *)
(* Both are to be the bit-vectors of SMT-LIB, whatever the size.           *)
(***************************************************************************)
EXTENDS Integers, Sequences, FiniteSets, SequencesExt

CONSTANTS WordBits,  \* bits of a machine word and of a limb of a long number
          Sizes      \* bound: the sizes of the bit-vectors asked about

\* A bit-vector is not as long as a word can count.
ASSUME BitsAssumption == WordBits \in Nat \ {0} /\ Sizes \subseteq 1..2^WordBits

Bits(size, val) == [size |-> size, val |-> val]

(***************************************************************************)
(* A value cut to the size: by GMP, or of what is left of it in a word.    *)
(***************************************************************************)
IsGmp(b) == b.size > WordBits

Uint64FdivR2exp(size, x) == (x % 2^WordBits) % 2^size

Fitted(size, x) == Bits(size, IF size > WordBits THEN x % 2^size ELSE Uint64FdivR2exp(size, x))

MkZero(size) == Bits(size, 0)
MkOne(size)  == Fitted(size, 1)
MkOnes(size) == IF size > WordBits THEN Bits(size, 2^size - 1)
                ELSE Bits(size, Uint64FdivR2exp(size, 2^WordBits - 1))

Bit(b, i)     == (b.val \div 2^i) % 2 = 1
SetBit(b, i)  == IF Bit(b, i) THEN b ELSE [b EXCEPT !.val = @ + 2^i]
ClearBit(b, i) == IF Bit(b, i) THEN [b EXCEPT !.val = @ - 2^i] ELSE b
Lsb(b) == Bit(b, 0)
Msb(b) == Bit(b, b.size - 1)

MkMinSigned(size) == SetBit(MkZero(size), size - 1)
MkMaxSigned(size) == ClearBit(MkOnes(size), size - 1)

Bool(p) == Bits(1, IF p THEN 1 ELSE 0)

(***************************************************************************)
(* Limbs of a number; a number of machine size has one, zero has none.     *)
(***************************************************************************)
Limb(b, i)   == (b.val \div 2^(i * WordBits)) % 2^WordBits
NumLimbs(b)  == CHOOSE n \in 0..b.size : /\ b.val < 2^(n * WordBits)
                                         /\ n > 0 => b.val >= 2^((n - 1) * WordBits)
AllLimbs(size) == (size \div WordBits) + (IF size % WordBits # 0 THEN 1 ELSE 0)

IsOnes(b) ==
    IF ~IsGmp(b) THEN b = MkOnes(b.size)
    ELSE LET n    == NumLimbs(b)
             rest == b.size % WordBits
         IN  /\ n = AllLimbs(b.size)
             /\ \A i \in 0..n - 2 : Limb(b, i) = 2^WordBits - 1
             /\ Limb(b, n - 1) = IF rest = 0 THEN 2^WordBits - 1 ELSE 2^rest - 1

\* The number of zeros before the highest one of a limb.
Clz(limb) == WordBits - (CHOOSE n \in 0..WordBits : limb < 2^n /\ (n > 0 => limb >= 2^(n - 1)))

\* The highest limb that is not all zeros (or all ones, complemented) and the
\* number of limbs up to it.
GetLimb(b, zeros) ==
    LET n     == NumLimbs(b)
        rest  == b.size % WordBits
        flipped(i) ==
            LET limb == IF rest # 0 /\ i = n - 1
                        THEN (Limb(b, i) % 2^rest) + (2^WordBits - 2^rest)
                        ELSE Limb(b, i)
            IN  2^WordBits - 1 - limb
        left  == {i \in 0..n - 1 : flipped(i) > 0}
        top   == CHOOSE i \in left : \A j \in left : j <= i
    IN  IF zeros THEN [upTo |-> n, limb |-> IF n = 0 THEN 0 ELSE Limb(b, n - 1)]
        ELSE IF n # AllLimbs(b.size)
        THEN [upTo |-> AllLimbs(b.size), limb |-> (IF rest # 0 THEN 2^rest ELSE 2^WordBits) - 1]
        ELSE IF left = {} THEN [upTo |-> 0, limb |-> 0]
        ELSE [upTo |-> top + 1, limb |-> flipped(top)]

CountInLimb(size, found) ==
    LET padded == (size \div WordBits + 1 - found.upTo) * WordBits
    IN  IF found.upTo = 0 THEN size
        ELSE Clz(found.limb) + padded - (WordBits - (size % WordBits))

CountLeading(b, zeros) == CountInLimb(b.size, GetLimb(b, zeros))

\* The number of lowest bits that are v.
CountTrailing(b, v) ==
    CHOOSE n \in 0..b.size : /\ \A i \in 0..n - 1 : Bit(b, i) = v
                             /\ n < b.size => Bit(b, n) # v

IsMinSigned(b) == IF IsGmp(b) THEN CountTrailing(b, FALSE) = b.size - 1
                  ELSE b.val = 2^(b.size - 1)
IsMaxSigned(b) == IF IsGmp(b) THEN CountTrailing(b, TRUE) = b.size - 1
                  ELSE b.val = 2^(b.size - 1) - 1

(***************************************************************************)
(* Operations of one bit-vector.                                           *)
(***************************************************************************)
Ibvnot(a) == Fitted(a.size, -a.val - 1)
Ibvneg(a) == Fitted(a.size, Ibvnot(a).val + 1)
Ibvinc(a) == Fitted(a.size, a.val + 1)
Ibvdec(a) == Fitted(a.size, a.val - 1)

Ibvredand(a) == Bool(IsOnes(a))
Ibvredor(a)  == Bool(IF IsGmp(a) THEN \E i \in 0..NumLimbs(a) - 1 : Limb(a, i) # 0 ELSE a.val # 0)
Ibvredxor(a) == Bool(Cardinality({i \in 0..a.size - 1 : Bit(a, i)}) % 2 = 1)
Ibvnego(a)   == Bool(IsMinSigned(a))

(***************************************************************************)
(* Operations of two.                                                      *)
(***************************************************************************)
\* The digits of two, combined one by one.
Bitwise2(op(_, _), a, b) ==
    LET at(i) == IF op(Bit(a, i), Bit(b, i)) THEN 2^i ELSE 0
    IN  Bits(a.size, FoldLeft(LAMBDA x, i : x + at(i - 1), 0, [i \in 1..a.size |-> i]))

Ibvand(a, b)  == Bitwise2(LAMBDA x, y : x /\ y, a, b)
Ibvor(a, b)   == Bitwise2(LAMBDA x, y : x \/ y, a, b)
Ibvxor(a, b)  == Bitwise2(LAMBDA x, y : x # y, a, b)
Ibvnand(a, b) == Ibvnot(Ibvand(a, b))
Ibvnor(a, b)  == Ibvnot(Ibvor(a, b))
Ibvxnor(a, b) == Ibvnot(Ibvxor(a, b))

\* No digit is left of it where the number below has one.
IsPowerOfTwo(a) == a.val # 0 /\ Ibvand(Ibvdec(a), a).val = 0

Ibvadd(a, b) == Fitted(a.size, a.val + b.val)
Ibvsub(a, b) == Fitted(a.size, a.val - b.val)
Ibvmul(a, b) == Fitted(a.size, a.val * b.val)
Ibvudiv(a, b) == IF b.val = 0 THEN MkOnes(a.size) ELSE Fitted(a.size, a.val \div b.val)
Ibvurem(a, b) == Fitted(a.size, IF b.val = 0 THEN a.val ELSE a.val % b.val)

\* By the signs of the operands.
Signs(a, b) == <<Msb(a), Msb(b)>>

Ibvsdiv(a, b) ==
    CASE Signs(a, b) = <<TRUE, FALSE>>  -> Ibvneg(Ibvudiv(Ibvneg(a), b))
      [] Signs(a, b) = <<FALSE, TRUE>>  -> Ibvneg(Ibvudiv(a, Ibvneg(b)))
      [] Signs(a, b) = <<TRUE, TRUE>>   -> Ibvudiv(Ibvneg(a), Ibvneg(b))
      [] Signs(a, b) = <<FALSE, FALSE>> -> Ibvudiv(a, b)

\* A mutant: the remainder has the sign of the divisor.
RemainderSignedAsDivisor(a, b) ==
    CASE Signs(a, b) = <<TRUE, FALSE>>  -> Ibvurem(Ibvneg(a), b)
      [] Signs(a, b) = <<FALSE, TRUE>>  -> Ibvneg(Ibvurem(a, Ibvneg(b)))
      [] Signs(a, b) = <<TRUE, TRUE>>   -> Ibvneg(Ibvurem(Ibvneg(a), Ibvneg(b)))
      [] Signs(a, b) = <<FALSE, FALSE>> -> Ibvurem(a, b)

Ibvsrem(a, b) ==
    CASE Signs(a, b) = <<TRUE, FALSE>>  -> Ibvneg(Ibvurem(Ibvneg(a), b))
      [] Signs(a, b) = <<FALSE, TRUE>>  -> Ibvurem(a, Ibvneg(b))
      [] Signs(a, b) = <<TRUE, TRUE>>   -> Ibvneg(Ibvurem(Ibvneg(a), Ibvneg(b)))
      [] Signs(a, b) = <<FALSE, FALSE>> -> Ibvurem(a, b)

Ibvsmod(a, b) ==
    LET u == Ibvurem(IF Msb(a) THEN Ibvneg(a) ELSE a, IF Msb(b) THEN Ibvneg(b) ELSE b)
    IN  IF u.val = 0 THEN u
        ELSE CASE Signs(a, b) = <<TRUE, FALSE>>  -> Ibvadd(Ibvneg(u), b)
               [] Signs(a, b) = <<FALSE, TRUE>>  -> Ibvadd(u, b)
               [] Signs(a, b) = <<TRUE, TRUE>>   -> Ibvneg(u)
               [] Signs(a, b) = <<FALSE, FALSE>> -> u

Ibvult(a, b) == Bool(a.val < b.val)
Ibvule(a, b) == Bool(a.val <= b.val)
Ibvslt(a, b) == IF Msb(a) # Msb(b) THEN Bool(Msb(a)) ELSE Ibvult(a, b)
Ibvsle(a, b) == IF Msb(a) # Msb(b) THEN Bool(Msb(a)) ELSE Ibvule(a, b)

Ibvugt(a, b) == Bool(a.val > b.val)
Ibvuge(a, b) == Bool(a.val >= b.val)
Ibvsgt(a, b) == IF Msb(a) # Msb(b) THEN Bool(~Msb(a)) ELSE Ibvugt(a, b)
Ibvsge(a, b) == IF Msb(a) # Msb(b) THEN Bool(~Msb(a)) ELSE Ibvuge(a, b)
Ibveq(a, b)  == Bool(a.val = b.val)
Ibvne(a, b)  == Bool(a.val # b.val)

\* Of truth values, which have one bit.
IsTrue(a)        == a.size = 1 /\ Bit(a, 0)
IsFalse(a)       == a.size = 1 /\ ~Bit(a, 0)
Ibvimplies(a, b) == Bool(IsFalse(a) \/ IsTrue(b))
Ibvite(c, t, e)  == IF IsTrue(c) THEN t ELSE e

Ibvconcat(a, b)     == Fitted(a.size + b.size, Fitted(a.size + b.size, a.val * 2^b.size).val + b.val)
Ibvextract(b, i, j) == Bits(i - j + 1, (b.val % 2^(i + 1)) \div 2^j)
Ibvzext(b, n)       == Bits(b.size + n, b.val)
Ibvsext(b, n)       == IF Msb(b) /\ n > 0
                       THEN Fitted(b.size + n, (2^n - 1) * 2^b.size + b.val)
                       ELSE Ibvzext(b, n)
Ibvrepeat(b, n)     == FoldLeft(LAMBDA x, i : Bits(n * b.size, x.val * 2^b.size + b.val),
                                Bits(n * b.size, b.val), [i \in 1..n - 1 |-> i])

\* By a number of one word.
NoWord == -1

Shl(a, n) == IF n = NoWord \/ n >= a.size THEN MkZero(a.size) ELSE Fitted(a.size, a.val * 2^n)
Shr(a, n) == IF n = NoWord \/ n >= a.size THEN MkZero(a.size) ELSE Bits(a.size, a.val \div 2^n)

Ibvroli(a, n) ==
    LET rot == n % a.size
    IN  IF rot = 0 THEN a ELSE Ibvadd(Fitted(a.size, a.val * 2^rot), Shr(a, a.size - rot))
Ibvrori(a, n) ==
    LET rot == n % a.size
    IN  IF rot = 0 THEN a ELSE Ibvadd(Shr(a, rot), Shl(a, a.size - rot))

\* By a bit-vector: its value if it is that of a word.
WordAfter(b, clz) ==
    IF clz < b.size - WordBits THEN NoWord
    ELSE Ibvextract(b, IF clz < b.size THEN b.size - 1 - clz ELSE 0, 0).val

ShiftIsUint64(b) == IF b.size <= WordBits THEN b.val ELSE WordAfter(b, CountLeading(b, TRUE))

Ibvshl(a, b)  == Shl(a, ShiftIsUint64(b))
Ibvshr(a, b)  == Shr(a, ShiftIsUint64(b))
Ibvashr(a, b) == IF Msb(a) THEN Ibvnot(Ibvshr(Ibvnot(a), b)) ELSE Ibvshr(a, b)

\* A rotation by more than a word is taken modulo the size.
Rotation(a, b) ==
    IF ShiftIsUint64(b) # NoWord THEN ShiftIsUint64(b)
    ELSE ShiftIsUint64(Ibvurem(b, Fitted(a.size, a.size)))
Ibvrol(a, b) == Ibvroli(a, Rotation(a, b))
Ibvror(a, b) == Ibvrori(a, Rotation(a, b))

Ibvpow(a, n) == FoldLeft(LAMBDA x, i : Fitted(a.size, x.val * a.val), MkOne(a.size), [i \in 1..n |-> i])

\* Division with remainder.
Bvudivurem(a, b) ==
    IF b.val = 0 THEN [quot |-> MkOnes(a.size), rem |-> a]
    ELSE [quot |-> Fitted(a.size, a.val \div b.val), rem |-> Fitted(a.size, a.val % b.val)]

\* Of an odd number, by Euclid with one bit more.
Ibvmodinv(b) ==
    LET wide == b.size + 1
        Euclid[k \in Nat, x \in Nat, y \in Nat, u \in Nat, v \in Nat] ==
            IF y = 0 \/ k = 0 THEN v
            ELSE LET step == Bvudivurem(Bits(wide, x), Bits(wide, y))
                     next == Ibvsub(Bits(wide, v), Ibvmul(Bits(wide, u), step.quot))
                 IN  Euclid[k - 1, y, step.rem.val, next.val, u]
    IN  IF b.size = 1 THEN MkOne(1)
        ELSE IF IsGmp(b) THEN Bits(b.size, CHOOSE x \in 0..2^b.size - 1 : (x * b.val) % 2^b.size = 1)
        ELSE Ibvextract(Bits(wide, Euclid[wide + 2, 2^b.size, b.val, 1, 0]), b.size - 1, 0)

(***************************************************************************)
(* Overflows.                                                              *)
(***************************************************************************)
SignedCompare(a, b) ==
    IF Msb(a) # Msb(b) THEN (IF Msb(a) THEN -1 ELSE 1) ELSE a.val - b.val

Ibvuaddo(a, b) == Bool((a.val + b.val) \div 2^a.size # 0)
Ibvusubo(a, b) == Bool(a.val < b.val)
Ibvumulo(a, b) == Bool(a.size > 1 /\ (a.val * b.val) \div 2^a.size # 0)
Ibvsdivo(a, b) == Bool(IsMinSigned(a) /\ IsOnes(b))
Ibvsaddo(a, b) == Bool(Msb(a) = Msb(b) /\ Msb(Ibvadd(a, b)) # Msb(a))
Ibvssubo(a, b) == Bool(Msb(a) # Msb(b) /\ Msb(Ibvsub(a, b)) # Msb(a))
Ibvsmulo(a, b) ==
    LET n       == a.size
        product == Ibvmul(Ibvsext(a, n), Ibvsext(b, n))
    IN  Bool(IF n = 1 THEN a.val = 1 /\ b.val = 1
             ELSE \/ SignedCompare(product, Ibvsext(MkMinSigned(n), n)) < 0
                  \/ SignedCompare(product, Ibvsext(MkMaxSigned(n), n)) > 0)
=============================================================================
