---------------------------- MODULE ValueProofs ----------------------------
(***************************************************************************)
(* Proofs about Value, whatever numbers the intervals end with: operations *)
(* as sets are those of the sets of numbers the intervals hold, and what   *)
(* arithmetic makes of intervals holds what it makes of their numbers.     *)
(* An operation that grows or falls with each operand is amid its corners. *)
(***************************************************************************)
EXTENDS Value, FiniteSetTheorems, TLAPS

LEMMA IntervalFacts ==
    ASSUME NEW i \in Intervals
    PROVE  /\ i.lo \in Ends /\ i.hi \in Ends /\ i.lo \in Inside /\ i.hi \in Inside
           /\ i.lo.is \in Int /\ i.hi.is \in Int /\ i.lo.is <= i.hi.is
           /\ i.lc \in BOOLEAN /\ i.rc \in BOOLEAN
<1>1. PICK lo \in Ends, hi \in Ends, lc \in BOOLEAN, rc \in BOOLEAN : i = Between(lo, hi, lc, rc)
  BY DEF Intervals
<1>2. AtMost(i.lo, i.hi)
  BY DEF Intervals
<1>3. i.lo = lo /\ i.hi = hi /\ i.lc = lc /\ i.rc = rc
  BY <1>1 DEF Between
<1>4. lo.is \in Int /\ hi.is \in Int /\ lo \in Inside /\ hi \in Inside
  BY EndsAssumption
<1> QED
  BY <1>1, <1>2, <1>3, <1>4 DEF AtMost

\* Of two numbers.
LEMMA LeastOfTwo ==
    ASSUME NEW a, NEW b, a.is \in Int, b.is \in Int
    PROVE  /\ Least({a, b}) \in {a, b}
           /\ Least({a, b}).is = IF a.is <= b.is THEN a.is ELSE b.is
<1>1. \E x \in {a, b} : \A y \in {a, b} : AtMost(x, y)
  BY DEF AtMost
<1>2. Least({a, b}) \in {a, b} /\ \A y \in {a, b} : AtMost(Least({a, b}), y)
  BY <1>1 DEF Least
<1> QED
  BY <1>2 DEF AtMost

LEMMA GreatestOfTwo ==
    ASSUME NEW a, NEW b, a.is \in Int, b.is \in Int
    PROVE  /\ Greatest({a, b}) \in {a, b}
           /\ Greatest({a, b}).is = IF a.is <= b.is THEN b.is ELSE a.is
<1>1. \E x \in {a, b} : \A y \in {a, b} : AtMost(y, x)
  BY DEF AtMost
<1>2. Greatest({a, b}) \in {a, b} /\ \A y \in {a, b} : AtMost(y, Greatest({a, b}))
  BY <1>1 DEF Greatest
<1> QED
  BY <1>2 DEF AtMost

\* Between two ends of which one is above the other there is a number.
LEMMA NumberBetween ==
    ASSUME NEW a \in Ends, NEW b \in Ends, a.is < b.is
    PROVE  \E x \in Inside : x.is \in Int /\ a.is < x.is /\ x.is < b.is
<1>1. PICK x \in Inside : Less(a, x) /\ Less(x, b)
  BY EndsAssumption DEF Less
<1>2. x.is \in Int
  BY EndsAssumption
<1> QED
  BY <1>1, <1>2 DEF Less

LEMMA InsideNumbers ==
    ASSUME NEW x \in Inside
    PROVE  x.is \in Int
  BY EndsAssumption

\* An interval that is not empty holds one of the numbers.
LEMMA HoldsOne ==
    ASSUME NEW i \in Intervals, ~IsEmpty(i)
    PROVE  \E x \in Inside : Holds(i, x)
<1>1. CASE i.lo.is = i.hi.is
  <2>1. Holds(i, i.lo)
    BY <1>1, IntervalFacts DEF Holds, IsEmpty, AtMost, Less, Equal
  <2> QED
    BY <2>1, IntervalFacts
<1>2. CASE i.lo.is # i.hi.is
  <2>1. i.lo.is < i.hi.is
    BY <1>2, IntervalFacts
  <2>2. PICK x \in Inside : x.is \in Int /\ i.lo.is < x.is /\ x.is < i.hi.is
    BY <2>1, IntervalFacts, NumberBetween
  <2>3. Holds(i, x)
    BY <2>1, <2>2, IntervalFacts DEF Holds, IsEmpty, AtMost, Less, Equal
  <2> QED
    BY <2>3
<1> QED
  BY <1>1, <1>2

\* An interval that is no subset of another holds a number the other does not.
LEMMA SubsetRight ==
    ASSUME NEW i \in Intervals, NEW j \in Intervals
    PROVE  IsSubsetOf(i, j) <=> Taken(i) \subseteq Taken(j)
<1> USE IntervalFacts
<1>1. ASSUME IsSubsetOf(i, j), NEW x \in Inside, Holds(i, x)
      PROVE  Holds(j, x)
  BY <1>1, InsideNumbers DEF IsSubsetOf, Holds, IsEmpty, AtMost, Less, Equal
<1>2. ASSUME ~IsSubsetOf(i, j), ~IsEmpty(i)
      PROVE  \E x \in Inside : Holds(i, x) /\ ~Holds(j, x)
  <2>1. CASE IsEmpty(j)
    BY <1>2, <2>1, HoldsOne DEF Holds
  <2>2. CASE i.lo.is = i.hi.is
    <3>1. Holds(i, i.lo) /\ ~Holds(j, i.lo)
      BY <1>2, <2>2 DEF IsSubsetOf, Holds, IsEmpty, AtMost, Less, Equal
    <3> QED
      BY <3>1
  <2>3. CASE i.lo.is < j.lo.is /\ i.lo.is # i.hi.is
    <3>1. PICK b \in Ends : b.is \in Int /\ i.lo.is < b.is /\ b.is <= i.hi.is /\ b.is <= j.lo.is
      BY <2>3
    <3>2. PICK x \in Inside : x.is \in Int /\ i.lo.is < x.is /\ x.is < b.is
      BY <3>1, NumberBetween
    <3>3. Holds(i, x) /\ ~Holds(j, x)
      BY <2>3, <3>1, <3>2 DEF Holds, IsEmpty, AtMost, Less, Equal
    <3> QED
      BY <3>3
  <2>4. CASE j.hi.is < i.hi.is /\ i.lo.is # i.hi.is
    <3>1. PICK b \in Ends : b.is \in Int /\ b.is < i.hi.is /\ i.lo.is <= b.is /\ j.hi.is <= b.is
      BY <2>4
    <3>2. PICK x \in Inside : x.is \in Int /\ b.is < x.is /\ x.is < i.hi.is
      BY <3>1, NumberBetween
    <3>3. Holds(i, x) /\ ~Holds(j, x)
      BY <2>4, <3>1, <3>2 DEF Holds, IsEmpty, AtMost, Less, Equal
    <3> QED
      BY <3>3
  <2>5. CASE /\ ~IsEmpty(j) /\ i.lo.is < i.hi.is
             /\ j.lo.is <= i.lo.is /\ i.hi.is <= j.hi.is
    <3>1. \/ i.lo.is = j.lo.is /\ i.lc /\ ~j.lc
          \/ i.hi.is = j.hi.is /\ i.rc /\ ~j.rc
      BY <1>2, <2>5 DEF IsSubsetOf, Less, Equal
    <3>2. \/ Holds(i, i.lo) /\ ~Holds(j, i.lo)
          \/ Holds(i, i.hi) /\ ~Holds(j, i.hi)
      BY <1>2, <2>5, <3>1 DEF Holds, AtMost, Less
    <3> QED
      BY <3>2
  <2> QED
    BY <2>1, <2>2, <2>3, <2>4, <2>5
<1> QED
  <2>1. IsEmpty(i) => IsSubsetOf(i, j)
    BY DEF IsSubsetOf
  <2> QED
    BY <1>1, <1>2, <2>1 DEF Taken

LEMMA SubsetEqRight ==
    ASSUME NEW i \in Intervals, NEW j \in Intervals
    PROVE  IsSubsetEqOf(i, j) <=> IsSubsetOf(i, j)
  BY IntervalFacts DEF IsSubsetOf, IsSubsetEqOf, IsEmpty, AtMost, Less, Equal

LEMMA SupersetRight ==
    ASSUME NEW i \in Intervals, NEW j \in Intervals, ~IsEmpty(i), ~IsEmpty(j)
    PROVE  IsSupersetOf(i, j) <=> IsSubsetOf(j, i)
  BY IntervalFacts DEF IsSubsetOf, IsSupersetOf, Less, Equal

\* What two intervals hold together.
LEMMA IntersectionRight ==
    ASSUME NEW i \in Intervals, NEW j \in Intervals, NEW x, x.is \in Int
    PROVE  Holds(Intersection(i, j), x) <=> Holds(i, x) /\ Holds(j, x)
<1> USE IntervalFacts
<1>1. CASE IsEmpty(i) \/ IsEmpty(j)
  <2>1. Intersection(i, j) = Nothing
    BY <1>1 DEF Intersection
  <2>2. Nothing.lo = One /\ Nothing.hi = Whole(-1) /\ ~Nothing.lc /\ ~Nothing.rc
    BY DEF Nothing, Between
  <2>3. One.is = Unit /\ Whole(-1).is = -Unit /\ Unit \in Nat \ {0}
    BY UnitAssumption DEF One, Whole
  <2>4. IsEmpty(Nothing)
    BY <2>2, <2>3 DEF IsEmpty, Less
  <2> QED
    BY <1>1, <2>1, <2>4 DEF Holds
<1>2. CASE ~IsEmpty(i) /\ ~IsEmpty(j)
  <2> DEFINE lo == Greatest({i.lo, j.lo})
             hi == Least({i.hi, j.hi})
             lc == Chosen(i.lo, j.lo, Less(j.lo, i.lo), i.lc /\ j.lc, i.lc, j.lc)
             rc == Chosen(i.hi, j.hi, Less(i.hi, j.hi), i.rc /\ j.rc, i.rc, j.rc)
  <2>1. Intersection(i, j) = Between(lo, hi, lc, rc)
    BY <1>2 DEF Intersection
  <2>2. PICK k : k = Intersection(i, j)
    OBVIOUS
  <2>3. k.lo = lo /\ k.hi = hi /\ k.lc = lc /\ k.rc = rc
    BY <2>1, <2>2 DEF Between
  <2>4. /\ k.lo.is = IF i.lo.is <= j.lo.is THEN j.lo.is ELSE i.lo.is
        /\ k.hi.is = IF i.hi.is <= j.hi.is THEN i.hi.is ELSE j.hi.is
    BY <2>3, LeastOfTwo, GreatestOfTwo
  <2>5. /\ k.lc = IF i.lo.is = j.lo.is THEN i.lc /\ j.lc ELSE IF j.lo.is < i.lo.is THEN i.lc ELSE j.lc
        /\ k.rc = IF i.hi.is = j.hi.is THEN i.rc /\ j.rc ELSE IF i.hi.is < j.hi.is THEN i.rc ELSE j.rc
    BY <2>3 DEF Chosen, Equal, Less
  <2> HIDE DEF lo, hi, lc, rc
  <2>6. Holds(k, x) <=> Holds(i, x) /\ Holds(j, x)
    BY <1>2, <2>4, <2>5 DEF Holds, IsEmpty, AtMost, Less, Equal
  <2> QED
    BY <2>2, <2>6
<1> QED
  BY <1>1, <1>2

\* Two intervals that hold no number together.
LEMMA DisjointApart ==
    ASSUME NEW i \in Intervals, NEW j \in Intervals, IsDisjointFrom(i, j), NEW x, x.is \in Int
    PROVE  ~(Holds(i, x) /\ Holds(j, x))
  BY IntervalFacts DEF IsDisjointFrom, Before, Holds, IsEmpty, AtMost, Less, Equal

\* Two of which neither is before the other hold a number together.
LEMMA NotDisjointMeet ==
    ASSUME NEW i \in Intervals, NEW j \in Intervals, ~IsEmpty(i), ~IsEmpty(j),
           ~IsDisjointFrom(i, j)
    PROVE  \E x \in Inside : Holds(i, x) /\ Holds(j, x)
<1> USE IntervalFacts
<1>1. PICK lo \in Ends : /\ lo.is \in Int /\ lo \in Inside /\ lo \in {i.lo, j.lo}
                         /\ i.lo.is <= lo.is /\ j.lo.is <= lo.is
  OBVIOUS
<1>2. PICK hi \in Ends : /\ hi.is \in Int /\ hi \in Inside /\ hi \in {i.hi, j.hi}
                         /\ hi.is <= i.hi.is /\ hi.is <= j.hi.is
  OBVIOUS
<1>3. lo.is <= hi.is
  BY <1>1, <1>2 DEF IsDisjointFrom, Before, Less
<1>4. CASE lo.is < hi.is
  <2>1. PICK x \in Inside : x.is \in Int /\ lo.is < x.is /\ x.is < hi.is
    BY <1>4, NumberBetween
  <2>2. Holds(i, x) /\ Holds(j, x)
    BY <1>1, <1>2, <2>1 DEF Holds, AtMost, Less
  <2> QED
    BY <2>2
<1>5. CASE lo.is = hi.is
  <2>1. Holds(i, lo) /\ Holds(j, lo)
    BY <1>1, <1>2, <1>5 DEF IsDisjointFrom, Before, Holds, IsEmpty, AtMost, Less, Equal
  <2> QED
    BY <1>1, <2>1
<1> QED
  BY <1>1, <1>2, <1>3, <1>4, <1>5

LEMMA DisjointRight ==
    ASSUME NEW i \in Intervals, NEW j \in Intervals, ~IsEmpty(i), ~IsEmpty(j)
    PROVE  IsDisjointFrom(i, j) <=> Taken(i) \cap Taken(j) = {}
<1>1. ASSUME IsDisjointFrom(i, j), NEW x \in Taken(i) \cap Taken(j)
      PROVE  FALSE
  BY <1>1, DisjointApart, InsideNumbers DEF Taken
<1>2. ASSUME ~IsDisjointFrom(i, j)
      PROVE  Taken(i) \cap Taken(j) # {}
  BY <1>2, NotDisjointMeet DEF Taken
<1> QED
  BY <1>1, <1>2

\* The union of two intervals that meet holds what one of them holds.
LEMMA HullRight ==
    ASSUME NEW i \in Intervals, NEW j \in Intervals, ~IsEmpty(i), ~IsEmpty(j),
           ~IsDisjointFrom(i, j), NEW x, x.is \in Int
    PROVE  Holds(Hull(i, j), x) <=> Holds(i, x) \/ Holds(j, x)
<1> USE IntervalFacts
<1> DEFINE lo == Least({i.lo, j.lo})
           hi == Greatest({i.hi, j.hi})
           lc == Chosen(i.lo, j.lo, Less(i.lo, j.lo), i.lc \/ j.lc, i.lc, j.lc)
           rc == Chosen(i.hi, j.hi, Less(j.hi, i.hi), i.rc \/ j.rc, i.rc, j.rc)
<1>1. Hull(i, j) = Between(lo, hi, lc, rc)
  BY DEF Hull
<1>2. PICK k : k = Hull(i, j)
  OBVIOUS
<1>3. k.lo = lo /\ k.hi = hi /\ k.lc = lc /\ k.rc = rc
  BY <1>1, <1>2 DEF Between
<1>4. /\ k.lo.is = IF i.lo.is <= j.lo.is THEN i.lo.is ELSE j.lo.is
      /\ k.hi.is = IF i.hi.is <= j.hi.is THEN j.hi.is ELSE i.hi.is
  BY <1>3, LeastOfTwo, GreatestOfTwo
<1>5. /\ k.lc = IF i.lo.is = j.lo.is THEN i.lc \/ j.lc ELSE IF i.lo.is < j.lo.is THEN i.lc ELSE j.lc
      /\ k.rc = IF i.hi.is = j.hi.is THEN i.rc \/ j.rc ELSE IF j.hi.is < i.hi.is THEN i.rc ELSE j.rc
  BY <1>3 DEF Chosen, Equal, Less
<1> HIDE DEF lo, hi, lc, rc
<1>6. Holds(k, x) <=> Holds(i, x) \/ Holds(j, x)
  BY <1>4, <1>5 DEF IsDisjointFrom, Before, Holds, IsEmpty, AtMost, Less, Equal
<1> QED
  BY <1>2, <1>6

\* One is below another if all its numbers are.
LEMMA BelowRight ==
    ASSUME NEW i \in Intervals, NEW j \in Intervals, ~IsEmpty(i), ~IsEmpty(j)
    PROVE  Before(i, j) <=> \A a \in Taken(i), b \in Taken(j) : Less(a, b)
<1> USE IntervalFacts
<1>1. ASSUME Before(i, j), NEW a \in Taken(i), NEW b \in Taken(j)
      PROVE  Less(a, b)
  BY <1>1, InsideNumbers DEF Taken, Before, Holds, IsEmpty, AtMost, Less, Equal
<1>2. ASSUME ~Before(i, j)
      PROVE  \E a \in Taken(i), b \in Taken(j) : ~Less(a, b)
  <2>1. CASE IsDisjointFrom(i, j)
    <3>1. Before(j, i)
      BY <1>2, <2>1 DEF IsDisjointFrom
    <3>2. PICK a \in Inside, b \in Inside : Holds(i, a) /\ Holds(j, b)
      BY HoldsOne
    <3>3. ~Less(a, b)
      BY <3>1, <3>2, InsideNumbers DEF Before, Holds, IsEmpty, AtMost, Less, Equal
    <3> QED
      BY <3>2, <3>3 DEF Taken
  <2>2. CASE ~IsDisjointFrom(i, j)
    <3>1. PICK x \in Inside : Holds(i, x) /\ Holds(j, x)
      BY <2>2, NotDisjointMeet
    <3>2. ~Less(x, x)
      BY InsideNumbers DEF Less
    <3> QED
      BY <3>1, <3>2 DEF Taken
  <2> QED
    BY <2>1, <2>2
<1> QED
  BY <1>1, <1>2

\* What a list of intervals holds.
Covers(s, x) == \E k \in DOMAIN s : Holds(s[k], x)

\* What is left of an interval: all but the numbers of the other, nothing if the
\* other lies within, and the common open end if the other is open and reaches
\* further down.
LEMMA DifferenceRight ==
    ASSUME NEW i \in Intervals, NEW j \in Intervals, ~IsEmpty(i), ~IsEmpty(j), NEW x, x.is \in Int
    PROVE  Covers(Difference(i, j), x) <=>
              IF ClosesOpenEnd(i, j) THEN Equal(x, i.hi)
              ELSE ~IsSupersetOf(i, j) /\ Holds(i, x) /\ ~Holds(j, x)
<1> USE IntervalFacts
<1> DEFINE left  == Between(i.lo, j.lo, i.lc, ~j.lc)
           right == Between(j.hi, i.hi, ~j.rc, i.rc)
           rightAfterLeft == Between(j.hi, i.hi, ~j.rc, left.rc)
<1>1. PICK l, r, ra : l = left /\ r = right /\ ra = rightAfterLeft
  OBVIOUS
<1>2. /\ l.lo = i.lo /\ l.hi = j.lo /\ (l.lc <=> i.lc) /\ (l.rc <=> ~j.lc)
      /\ r.lo = j.hi /\ r.hi = i.hi /\ (r.lc <=> ~j.rc) /\ (r.rc <=> i.rc)
      /\ ra.lo = j.hi /\ ra.hi = i.hi /\ (ra.lc <=> ~j.rc) /\ (ra.rc <=> ~j.lc)
  BY <1>1 DEF Between
<1>3. /\ \A k : Covers(<<k>>, x) <=> Holds(k, x)
      /\ Covers(<<l, ra>>, x) <=> Holds(l, x) \/ Holds(ra, x)
      /\ ~Covers(<<>>, x)
  BY DEF Covers
<1>4. CASE IsDisjointFrom(i, j)
  <2>1. Difference(i, j) = <<i>>
    BY <1>4 DEF Difference
  <2>2. ~ClosesOpenEnd(i, j)
    BY <1>4 DEF ClosesOpenEnd, IsDisjointFrom, Before, IsEmpty, Less, Equal
  <2>3. ~IsSupersetOf(i, j)
    BY <1>4 DEF IsSupersetOf, IsDisjointFrom, Before, IsEmpty, Less, Equal
  <2> QED
    BY <1>3, <1>4, <2>1, <2>2, <2>3, DisjointApart
<1>5. CASE ~IsDisjointFrom(i, j) /\ IsSupersetOf(i, j)
  <2>1. Difference(i, j) = <<>>
    BY <1>5 DEF Difference
  <2>2. ~ClosesOpenEnd(i, j)
    BY <1>5 DEF ClosesOpenEnd, IsSupersetOf, Less, Equal
  <2> QED
    BY <1>3, <1>5, <2>1, <2>2
<1>6. CASE ~IsDisjointFrom(i, j) /\ ~IsSupersetOf(i, j)
  <2> DEFINE atRight == /\ AtMost(j.lo, i.lo)
                        /\ Less(j.hi, i.hi) \/ (Equal(j.hi, i.hi) /\ ~j.rc /\ i.rc)
             atLeft == /\ Less(i.lo, j.lo) \/ (Equal(j.lo, i.lo) /\ ~j.lc /\ i.lc)
                       /\ Less(i.hi, j.hi) \/ (Equal(i.hi, j.hi) /\ (j.rc \/ ~i.rc))
  <2>1. /\ IsSubsetOf(i, j) => Difference(i, j) = <<left, rightAfterLeft>>
        /\ ~IsSubsetOf(i, j) /\ atRight => Difference(i, j) = <<right>>
        /\ ~IsSubsetOf(i, j) /\ ~atRight /\ atLeft => Difference(i, j) = <<left>>
        /\ ~IsSubsetOf(i, j) /\ ~atRight /\ ~atLeft => Difference(i, j) = <<>>
    <3>1. ASSUME IsSubsetOf(i, j) PROVE Difference(i, j) = <<left, rightAfterLeft>>
      BY <1>6, <3>1 DEF Difference
    <3>2. ASSUME ~IsSubsetOf(i, j), atRight PROVE Difference(i, j) = <<right>>
      BY <1>6, <3>2 DEF Difference, AtMost, Less, Equal
    <3>3. ASSUME ~IsSubsetOf(i, j), ~atRight, atLeft PROVE Difference(i, j) = <<left>>
      BY <1>6, <3>3 DEF Difference, AtMost, Less, Equal
    <3>4. ASSUME ~IsSubsetOf(i, j), ~atRight, ~atLeft PROVE Difference(i, j) = <<>>
      BY <1>6, <3>4 DEF Difference, AtMost, Less, Equal
    <3> QED
      BY <3>1, <3>2, <3>3, <3>4
  <2>2. CASE IsSubsetOf(i, j)
    <3>1. Difference(i, j) = <<l, ra>>
      BY <1>1, <2>1, <2>2
    <3>2. ~Holds(l, x)
      BY <1>2, <2>2 DEF IsSubsetOf, Holds, IsEmpty, AtMost, Less, Equal
    <3>3. Holds(i, x) => Holds(j, x)
      BY <2>2 DEF IsSubsetOf, Holds, IsEmpty, AtMost, Less, Equal
    <3>4. CASE ClosesOpenEnd(i, j)
      <4>1. Holds(ra, x) <=> Equal(x, i.hi)
        BY <1>2, <3>4 DEF ClosesOpenEnd, Holds, IsEmpty, AtMost, Less, Equal
      <4> QED
        BY <1>3, <3>1, <3>2, <3>4, <4>1
    <3>5. CASE ~ClosesOpenEnd(i, j)
      <4>1. j.lo.is < i.lo.is \/ j.lc \/ ~(i.hi.is = j.hi.is /\ ~i.rc /\ ~j.rc)
        BY <1>6, <2>2 DEF IsSupersetOf, IsSubsetOf, IsEmpty, Less, Equal
      <4>2. ~Holds(ra, x)
        BY <1>2, <2>2, <3>5, <4>1 DEF ClosesOpenEnd, IsSubsetOf, Holds, IsEmpty, AtMost, Less, Equal
      <4> QED
        BY <1>3, <3>1, <3>2, <3>3, <3>5, <4>2
    <3> QED
      BY <3>4, <3>5
  <2>3. CASE ~IsSubsetOf(i, j) /\ atRight
    <3>1. Difference(i, j) = <<r>>
      BY <1>1, <2>1, <2>3
    <3>2. /\ j.lo.is < i.lo.is \/ (j.lo.is = i.lo.is /\ ~i.lc /\ j.lc)
          /\ j.hi.is < i.hi.is \/ (j.hi.is = i.hi.is /\ ~j.rc /\ i.rc)
      BY <1>6, <2>3 DEF IsSupersetOf, IsEmpty, AtMost, Less, Equal
    <3>3. ~Before(j, i)
      BY <1>6 DEF IsDisjointFrom
    <3>4. ASSUME Holds(r, x) PROVE Holds(i, x) /\ ~Holds(j, x)
      BY <1>2, <3>2, <3>3, <3>4 DEF Before, Holds, IsEmpty, AtMost, Less, Equal
    <3>5. ASSUME Holds(i, x), ~Holds(j, x) PROVE Holds(r, x)
      BY <1>2, <3>2, <3>3, <3>5 DEF Before, Holds, IsEmpty, AtMost, Less, Equal
    <3>6. ~ClosesOpenEnd(i, j)
      BY <3>2 DEF ClosesOpenEnd, Less, Equal
    <3> QED
      BY <1>3, <1>6, <3>1, <3>4, <3>5, <3>6
  <2>4. CASE ~IsSubsetOf(i, j) /\ ~atRight /\ atLeft
    <3>1. Difference(i, j) = <<l>>
      BY <1>1, <2>1, <2>4
    <3>2. /\ i.lo.is < j.lo.is \/ (j.lo.is = i.lo.is /\ ~j.lc /\ i.lc)
          /\ i.hi.is < j.hi.is \/ (j.hi.is = i.hi.is /\ (j.rc \/ ~i.rc))
      BY <2>4 DEF AtMost, Less, Equal
    <3>3. ~Before(i, j)
      BY <1>6 DEF IsDisjointFrom
    <3>4. ASSUME Holds(l, x) PROVE Holds(i, x) /\ ~Holds(j, x)
      BY <1>2, <3>2, <3>3, <3>4 DEF Before, Holds, IsEmpty, AtMost, Less, Equal
    <3>5. ASSUME Holds(i, x), ~Holds(j, x) PROVE Holds(l, x)
      BY <1>2, <3>2, <3>3, <3>5 DEF Before, Holds, IsEmpty, AtMost, Less, Equal
    <3>6. ~ClosesOpenEnd(i, j)
      BY <3>2 DEF ClosesOpenEnd, Less, Equal
    <3> QED
      BY <1>3, <1>6, <3>1, <3>4, <3>5, <3>6
  <2>5. CASE ~IsSubsetOf(i, j) /\ ~atRight /\ ~atLeft
    BY <1>6, <2>5 DEF IsDisjointFrom, Before, IsSubsetOf, IsSupersetOf, IsEmpty, AtMost, Less, Equal
  <2> QED
    BY <2>2, <2>3, <2>4, <2>5
<1> QED
  BY <1>4, <1>5, <1>6

LEMMA MultiplesOrdered ==
    ASSUME NEW a \in Int, NEW b \in Int
    PROVE  /\ a * Unit \in Int
           /\ a * Unit <= b * Unit <=> a <= b
           /\ a * Unit < b * Unit <=> a < b
           /\ a * Unit = b * Unit <=> a = b
<1>1. Unit \in Nat \ {0}
  BY UnitAssumption
<1>2. \A c, d \in Int : c < d => c * Unit < d * Unit
  <2> SUFFICES ASSUME NEW c \in Int, NEW d \in Int, c < d PROVE c * Unit < d * Unit
    OBVIOUS
  <2>1. PICK e \in Int : e = d - c
    OBVIOUS
  <2>2. e * Unit >= Unit
    BY <1>1, <2>1
  <2>3. d * Unit = c * Unit + e * Unit
    BY <1>1, <2>1
  <2> QED
    BY <1>1, <2>2, <2>3
<1> QED
  BY <1>1, <1>2

LEMMA QuotientOfMultiple ==
    ASSUME NEW m \in Int
    PROVE  (m * Unit) \div Unit = m
<1>1. Unit \in Nat \ {0} /\ Unit \in Int
  BY UnitAssumption
<1>2. PICK x \in Int : x = m * Unit
  BY <1>1
<1>3. PICK q \in Int : q = x \div Unit
  BY <1>1, <1>2
<1>4. q * Unit <= x /\ x < (q + 1) * Unit
  BY <1>1, <1>2, <1>3
<1>5. q <= m /\ m < q + 1
  BY <1>2, <1>4, MultiplesOrdered
<1> QED
  BY <1>2, <1>3, <1>5

(***************************************************************************)
(* The number of integers.                                                 *)
(***************************************************************************)
\* The number of integers an interval with integer ends holds.
LEMMA CountRight ==
    ASSUME NEW i \in Intervals, ~HasFraction(i)
    PROVE  GetIntervalIntCount(i) =
             Cardinality({n \in (i.lo.is \div Unit)..(i.hi.is \div Unit) : Holds(i, Whole(n))})
<1> USE IntervalFacts
<1>1. Unit \in Nat \ {0}
  BY UnitAssumption
<1>2. PICK a \in Int : a = i.lo.is \div Unit /\ i.lo = Whole(a)
  BY <1>1, EndsAssumption DEF HasFraction
<1>3. PICK b \in Int : b = i.hi.is \div Unit /\ i.hi = Whole(b)
  BY <1>1, EndsAssumption DEF HasFraction
<1>4. \A n : Whole(n).is = n * Unit /\ Whole(n).type = "int"
  BY DEF Whole
<1>5. RoundedUp(i.lo).is = a * Unit /\ RoundedDown(i.hi).is = b * Unit
  <2>1. RoundedDown(i.hi) = i.hi
    BY <1>3, <1>4 DEF RoundedDown, IsInt
  <2>2. Negated(i.lo) = [type |-> "int", is |-> -(a * Unit)]
    BY <1>1, <1>2 DEF Negated, Whole
  <2>3. RoundedDown(Negated(i.lo)) = Negated(i.lo)
    BY <2>2 DEF RoundedDown, IsInt
  <2>4. RoundedUp(i.lo) = [type |-> "int", is |-> -(-(a * Unit))]
    BY <2>2, <2>3 DEF RoundedUp, Negated
  <2>5. RoundedUp(i.lo).is = a * Unit
    BY <1>1, <2>4
  <2> QED
    BY <1>3, <1>4, <2>1, <2>5
<1>6. (RoundedDown(i.hi).is - RoundedUp(i.lo).is) \div Unit = b - a
  <2>1. b * Unit - a * Unit = (b - a) * Unit
    BY <1>1
  <2> QED
    BY <1>5, <2>1, QuotientOfMultiple
<1>7. /\ IsPoint(i) <=> a = b
      /\ IsEmpty(i) <=> a = b /\ ~(i.lc /\ i.rc)
      /\ a <= b
  <2>1. i.lo.is = a * Unit /\ i.hi.is = b * Unit
    BY <1>2, <1>3, <1>4
  <2>2. a <= b
    BY <2>1, MultiplesOrdered
  <2>3. i.lo.is = i.hi.is <=> a = b
    BY <2>1, MultiplesOrdered
  <2>4. ~(i.hi.is < i.lo.is)
    OBVIOUS
  <2> QED
    BY <2>2, <2>3, <2>4 DEF IsPoint, IsEmpty, Less, Equal
<1>8. IsInt(i.lo)
  BY <1>2, <1>4 DEF IsInt
<1>9. GetIntervalIntCount(i) = IF a = b THEN IF i.lc /\ i.rc THEN 1 ELSE 0
                               ELSE IF i.lc /\ i.rc THEN b - a + 1
                               ELSE IF i.lc \/ i.rc THEN b - a ELSE b - a - 1
  BY <1>6, <1>7, <1>8 DEF GetIntervalIntCount
<1>10. \A n \in Int : Holds(i, Whole(n)) <=>
          /\ ~(a = b /\ ~(i.lc /\ i.rc))
          /\ IF i.lc THEN a <= n ELSE a < n
          /\ IF i.rc THEN n <= b ELSE n < b
  BY <1>2, <1>3, <1>4, <1>7, MultiplesOrdered DEF Holds, AtMost, Less
<1> DEFINE held == {n \in a..b : Holds(i, Whole(n))}
<1>11. PICK c \in Int, d \in Int :
          /\ c = IF i.lc THEN a ELSE a + 1
          /\ d = IF a = b /\ ~(i.lc /\ i.rc) THEN c - 1 ELSE IF i.rc THEN b ELSE b - 1
  OBVIOUS
<1>12. held = c..d
  BY <1>7, <1>10, <1>11
<1>13. Cardinality(held) = IF c > d THEN 0 ELSE d - c + 1
  BY <1>12, FS_Interval
<1>14. GetIntervalIntCount(i) = Cardinality(held)
  <2> HIDE DEF held
  <2> QED
    BY <1>7, <1>9, <1>11, <1>13
<1> QED
  BY <1>2, <1>3, <1>14

(***************************************************************************)
(* The union of two.                                                       *)
(***************************************************************************)
LEMMA FoldOfTwo ==
    ASSUME NEW q, DOMAIN q = 1..2
    PROVE  FoldLeft(Joined, <<>>, q) = Joined(Joined(<<>>, q[1]), q[2])
<1> DEFINE Body(f, t) == IF t = {} THEN <<>> ELSE Joined(f[t \ {Max(t)}], q[Max(t)])
           g == CHOOSE f : f = [t \in SUBSET (1..2) |-> Body(f, t)]
           h == [t \in SUBSET (1..2) |->
                   IF t = {} THEN <<>> ELSE IF t = {1} THEN Joined(<<>>, q[1])
                   ELSE IF t = {2} THEN Joined(<<>>, q[2])
                   ELSE Joined(Joined(<<>>, q[1]), q[2])]
<1>1. FoldLeft(Joined, <<>>, q) = g[1..2]
  BY DEF FoldLeft, MapThenFoldSet
<1>2. Max({1}) = 1 /\ Max({2}) = 2 /\ Max({1, 2}) = 2
  <2>1. \A t \in {{1}, {2}, {1, 2}} :
           (\E x \in t : \A y \in t : x >= y) => Max(t) \in t /\ \A y \in t : Max(t) >= y
    BY DEF Max
  <2>2. /\ \E x \in {1} : \A y \in {1} : x >= y
        /\ \E x \in {2} : \A y \in {2} : x >= y
        /\ \E x \in {1, 2} : \A y \in {1, 2} : x >= y
    OBVIOUS
  <2> QED
    BY <2>1, <2>2
<1>3. \A t \in SUBSET (1..2) : t \in {{}, {1}, {2}, {1, 2}}
  <2> SUFFICES ASSUME NEW t \in SUBSET (1..2), t # {}, t # {1}, t # {2} PROVE t = {1, 2}
    OBVIOUS
  <2>1. \A k \in t : k = 1 \/ k = 2
    OBVIOUS
  <2>2. 1 \in t
    BY <2>1
  <2>3. 2 \in t
    BY <2>1
  <2> QED
    BY <2>1, <2>2, <2>3
<1>4. {1} \ {1} = {} /\ {2} \ {2} = {} /\ {1, 2} \ {2} = {1} /\ 1..2 = {1, 2}
  OBVIOUS
<1>5. {} # {1} /\ {} # {2} /\ {1} # {2} /\ {1, 2} \notin {{}, {1}, {2}}
  OBVIOUS
<1>6. \A t \in SUBSET (1..2) : h[t] = Body(h, t)
  <2> SUFFICES ASSUME NEW t \in SUBSET (1..2) PROVE h[t] = Body(h, t)
    OBVIOUS
  <2>1. h[{}] = <<>> /\ h[{1}] = Joined(<<>>, q[1])
    BY <1>5
  <2>2. CASE t = {}
    BY <2>1, <2>2
  <2>3. CASE t = {1}
    BY <1>2, <1>4, <1>5, <2>1, <2>3
  <2>4. CASE t = {2}
    BY <1>2, <1>4, <1>5, <2>1, <2>4
  <2>5. CASE t = {1, 2}
    BY <1>2, <1>4, <1>5, <2>1, <2>5
  <2> QED
    BY <1>3, <2>2, <2>3, <2>4, <2>5
<1>7. h = [t \in SUBSET (1..2) |-> Body(h, t)]
  <2> HIDE DEF Body
  <2> QED
    BY <1>6
<1>8. g = [t \in SUBSET (1..2) |-> Body(g, t)]
  <2> HIDE DEF Body, h
  <2> QED
    BY <1>7
<1>9. \A t \in SUBSET (1..2) : g[t] = Body(g, t)
  <2> HIDE DEF Body, g
  <2> QED
    BY <1>8
<1> HIDE DEF g
<1>10. g[{}] = <<>>
  BY <1>9
<1>11. g[{1}] = Joined(<<>>, q[1])
  <2>1. {1} \in SUBSET (1..2)
    OBVIOUS
  <2> QED
    BY <1>2, <1>4, <1>5, <1>9, <1>10, <2>1
<1>12. g[{1, 2}] = Joined(g[{1}], q[2])
  <2>1. {1, 2} \in SUBSET (1..2) /\ {1, 2} # {}
    OBVIOUS
  <2> QED
    BY <1>2, <1>4, <1>9, <2>1
<1> QED
  BY <1>1, <1>4, <1>11, <1>12

\* Two intervals in the order of their lower ends.
LEMMA OrderOfTwo ==
    ASSUME NEW i \in Intervals, NEW j \in Intervals, NEW q, q = ByLowerEnd(<<i, j>>)
    PROVE  DOMAIN q = 1..2 /\ ((q[1] = i /\ q[2] = j) \/ (q[1] = j /\ q[2] = i))
<1> USE IntervalFacts
<1> DEFINE s == <<i, j>>
           before(a, b) == Less(a.lo, b.lo) \/ (Equal(a.lo, b.lo) /\ a.lc /\ ~b.lc)
           Places(p) == /\ IsInjective(p)
                        /\ \A k, l \in DOMAIN p : k < l => ~before(s[p[l]], s[p[k]])
           places == CHOOSE p \in [DOMAIN s -> DOMAIN s] : Places(p)
<1>1. q = [k \in DOMAIN s |-> s[places[k]]]
  BY DEF ByLowerEnd
<1>2. DOMAIN s = 1..2 /\ s[1] = i /\ s[2] = j
  OBVIOUS
<1> HIDE DEF s
<1>3. \E p \in [DOMAIN s -> DOMAIN s] : Places(p)
  <2>1. CASE before(j, i)
    <3>1. ~before(i, j)
      BY <2>1 DEF Less, Equal
    <3>2. PICK p : p = [k \in 1..2 |-> 3 - k]
      OBVIOUS
    <3>3. p \in [1..2 -> 1..2] /\ p[1] = 2 /\ p[2] = 1
      BY <3>2
    <3>4. IsInjective(p)
      BY <3>3 DEF IsInjective
    <3>5. \A k, l \in 1..2 : k < l => k = 1 /\ l = 2
      OBVIOUS
    <3>6. ~before(s[p[2]], s[p[1]])
      BY <1>2, <3>1, <3>3
    <3> QED
      <4> HIDE DEF before
      <4> QED
        BY <1>2, <3>3, <3>4, <3>5, <3>6
  <2>2. CASE ~before(j, i)
    <3>2. PICK p : p = [k \in 1..2 |-> k]
      OBVIOUS
    <3>3. p \in [1..2 -> 1..2] /\ p[1] = 1 /\ p[2] = 2
      BY <3>2
    <3>4. IsInjective(p)
      BY <3>3 DEF IsInjective
    <3>5. \A k, l \in 1..2 : k < l => k = 1 /\ l = 2
      OBVIOUS
    <3>6. ~before(s[p[2]], s[p[1]])
      BY <1>2, <2>2, <3>3
    <3> QED
      <4> HIDE DEF before
      <4> QED
        BY <1>2, <3>3, <3>4, <3>5, <3>6
  <2> QED
    BY <2>1, <2>2
<1>4. places \in [1..2 -> 1..2] /\ IsInjective(places)
  <2> HIDE DEF before
  <2> QED
    BY <1>2, <1>3
<1> HIDE DEF places
<1>5. places[1] # places[2] /\ places[1] \in 1..2 /\ places[2] \in 1..2
  BY <1>4 DEF IsInjective
<1>6. \/ places[1] = 1 /\ places[2] = 2
      \/ places[1] = 2 /\ places[2] = 1
  BY <1>5
<1>7. DOMAIN q = 1..2 /\ q[1] = s[places[1]] /\ q[2] = s[places[2]]
  BY <1>1, <1>2
<1>8. CASE places[1] = 1 /\ places[2] = 2
  <2>1. q[1] = s[1] /\ q[2] = s[2]
    BY ONLY <1>7, <1>8
  <2> QED
    BY ONLY <1>2, <1>7, <2>1
<1>9. CASE places[1] = 2 /\ places[2] = 1
  BY ONLY <1>2, <1>7, <1>9
<1> QED
  BY <1>6, <1>7, <1>8, <1>9

LEMMA UnionMultiRight ==
    ASSUME NEW i \in Intervals, NEW j \in Intervals, ~IsEmpty(i), ~IsEmpty(j),
           NEW x, x.is \in Int
    PROVE  Covers(UnionMulti(<<i, j>>), x) <=> Holds(i, x) \/ Holds(j, x)
<1>1. PICK q : q = ByLowerEnd(<<i, j>>)
  OBVIOUS
<1>2. DOMAIN q = 1..2 /\ ((q[1] = i /\ q[2] = j) \/ (q[1] = j /\ q[2] = i))
  BY <1>1, OrderOfTwo
<1>3. UnionMulti(<<i, j>>) = Joined(Joined(<<>>, q[1]), q[2])
  BY <1>1, <1>2, FoldOfTwo DEF UnionMulti
<1>4. PICK a \in Intervals, b \in Intervals : a = q[1] /\ b = q[2]
  BY <1>2
<1>5. Joined(<<>>, a) = <<a>>
  BY DEF Joined
<1>6. Joined(<<a>>, b) = IF IsDisjointFrom(a, b) THEN <<a, b>> ELSE <<Hull(a, b)>>
  <2>1. Last(<<a>>) = a /\ Front(<<a>>) = <<>> /\ <<a>> # <<>>
    BY DEF Last, Front
  <2>2. PICK h : h = Hull(a, b)
    OBVIOUS
  <2>3. Append(<<a>>, b) = <<a, b>>
    <3>1. <<a>> \in Seq(Intervals) /\ Len(<<a>>) = 1
      OBVIOUS
    <3>2. PICK s : s = Append(<<a>>, b)
      OBVIOUS
    <3>3. s \in Seq(Intervals) /\ Len(s) = 2 /\ s[1] = a /\ s[2] = b
      BY <3>1, <3>2
    <3>4. s = <<a, b>>
      BY <3>3
    <3> QED
      BY <3>2, <3>4
  <2>4. Append(<<>>, h) = <<h>>
    OBVIOUS
  <2> QED
    BY <2>1, <2>2, <2>3, <2>4 DEF Joined
<1>7. /\ \A k : Covers(<<k>>, x) <=> Holds(k, x)
      /\ Covers(<<a, b>>, x) <=> Holds(a, x) \/ Holds(b, x)
  BY DEF Covers
<1>8. ~IsEmpty(a) /\ ~IsEmpty(b)
  BY <1>2, <1>4
<1>9. Covers(UnionMulti(<<i, j>>), x) <=> Holds(a, x) \/ Holds(b, x)
  BY <1>3, <1>4, <1>5, <1>6, <1>7, <1>8, HullRight
<1> QED
  BY <1>2, <1>4, <1>9

(***************************************************************************)
(* Intervals act as the sets of their numbers.                             *)
(***************************************************************************)
LEMMA SetsRight ==
    ASSUME NEW i \in Intervals, NEW j \in Intervals
    PROVE  ActsAsSets(i, j)
<1> DEFINE xs == Taken(i)
           ys == Taken(j)
           union == UnionWith(i, j)
           covers(s) == UNION {Taken(s[k]) : k \in DOMAIN s}
<1>1. \A k, x : x \in Taken(k) <=> x \in Inside /\ Holds(k, x)
  BY DEF Taken
<1>2. \A s, x : x \in covers(s) <=> x \in Inside /\ Covers(s, x)
  BY <1>1 DEF Covers
<1>3. ~HasFraction(i) =>
        GetIntervalIntCount(i) =
            Cardinality({n \in (i.lo.is \div Unit)..(i.hi.is \div Unit) : Holds(i, Whole(n))})
  BY CountRight
<1>4. /\ IsSubsetOf(i, j) <=> xs \subseteq ys
      /\ IsSubsetEqOf(i, j) <=> xs \subseteq ys
  BY SubsetRight, SubsetEqRight
<1>5. Taken(Intersection(i, j)) = xs \cap ys
  BY <1>1, IntersectionRight, InsideNumbers
<1>6. IsIntersectingWith(i, j) <=> xs \cap ys # {}
  <2>1. CASE IsEmpty(i) \/ IsEmpty(j)
    BY <2>1, <1>1 DEF IsIntersectingWith, Holds
  <2>2. CASE ~IsEmpty(i) /\ ~IsEmpty(j)
    BY <2>2, DisjointRight DEF IsIntersectingWith
  <2> QED
    BY <2>1, <2>2
<1>7. ASSUME ~IsEmpty(i), ~IsEmpty(j)
      PROVE  /\ IsSupersetOf(i, j) <=> ys \subseteq xs
             /\ IsDisjointFrom(i, j) <=> xs \cap ys = {}
             /\ union # Throws <=> xs \cap ys # {}
             /\ union # Throws => Taken(union) = xs \cup ys
             /\ covers(UnionMulti(<<i, j>>)) = xs \cup ys
             /\ covers(Difference(i, j)) =
                    IF ClosesOpenEnd(i, j) THEN {a \in Inside : Equal(a, i.hi)}
                    ELSE IF ys \subseteq xs THEN {} ELSE xs \ ys
             /\ Below(i, j) <=> \A a \in xs, b \in ys : Less(a, b)
             /\ NotAbove(i, j) <=> \E a \in xs, b \in ys : AtMost(a, b)
  <2>1. IsSupersetOf(i, j) <=> ys \subseteq xs
    BY <1>7, SupersetRight, SubsetRight
  <2>2. IsDisjointFrom(i, j) <=> xs \cap ys = {}
    BY <1>7, DisjointRight
  <2>3. IsDisjointFrom(i, j) => union = Throws
    BY <1>7 DEF UnionWith
  <2>4. ASSUME ~IsDisjointFrom(i, j)
        PROVE  union # Throws /\ Taken(union) = xs \cup ys
    <3>1. union = Hull(i, j)
      BY <1>7, <2>4 DEF UnionWith
    <3>2. "lo" \in DOMAIN Hull(i, j) /\ "lo" \notin DOMAIN Throws
      BY DEF Hull, Between, Throws
    <3>3. Taken(Hull(i, j)) = xs \cup ys
      BY <1>1, <1>7, <2>4, HullRight, InsideNumbers
    <3> QED
      BY <3>1, <3>2, <3>3
  <2>5. /\ union # Throws <=> xs \cap ys # {}
        /\ union # Throws => Taken(union) = xs \cup ys
    BY <2>2, <2>3, <2>4
  <2>6. covers(UnionMulti(<<i, j>>)) = xs \cup ys
    <3> HIDE DEF covers
    <3>1. \A x \in Inside : Covers(UnionMulti(<<i, j>>), x) <=> Holds(i, x) \/ Holds(j, x)
      BY <1>7, UnionMultiRight, InsideNumbers
    <3> QED
      BY <1>1, <1>2, <3>1
  <2>7. covers(Difference(i, j)) =
            IF ClosesOpenEnd(i, j) THEN {a \in Inside : Equal(a, i.hi)}
            ELSE IF ys \subseteq xs THEN {} ELSE xs \ ys
    <3> HIDE DEF covers
    <3>1. \A x \in Inside : Covers(Difference(i, j), x) <=>
              IF ClosesOpenEnd(i, j) THEN Equal(x, i.hi)
              ELSE ~IsSupersetOf(i, j) /\ Holds(i, x) /\ ~Holds(j, x)
      BY <1>7, DifferenceRight, InsideNumbers
    <3>2. ASSUME NEW x
          PROVE  x \in covers(Difference(i, j)) <=>
                     IF ClosesOpenEnd(i, j) THEN x \in Inside /\ Equal(x, i.hi)
                     ELSE ~(ys \subseteq xs) /\ x \in xs /\ x \notin ys
      BY <1>1, <1>2, <2>1, <3>1
    <3> QED
      BY <3>2
  <2>8. Below(i, j) <=> \A a \in xs, b \in ys : Less(a, b)
    BY <1>7, BelowRight DEF Below
  <2>9. NotAbove(i, j) <=> \E a \in xs, b \in ys : AtMost(a, b)
    <3>1. Before(j, i) <=> \A b \in ys, a \in xs : Less(b, a)
      BY <1>7, BelowRight
    <3>2. \A a \in xs, b \in ys : AtMost(a, b) <=> ~Less(b, a)
      BY <1>1, InsideNumbers DEF AtMost, Less
    <3> QED
      BY <3>1, <3>2 DEF NotAbove
  <2> QED
    BY <2>1, <2>2, <2>5, <2>6, <2>7, <2>8, <2>9
<1> QED
  BY <1>3, <1>4, <1>5, <1>6, <1>7 DEF ActsAsSets

(* Intersection, union and the tests on intervals are those of the sets of *)
(* numbers the intervals hold, whatever numbers they end with and however  *)
(* these are closed, and so is the difference, but for the two cases in    *)
(* which the code goes wrong: an interval with another one inside keeps    *)
(* nothing, and one that an open interval from further down covers up to   *)
(* the same open end keeps that end (interval.cpp).                        *)
THEOREM IntervalsAreSets == ValueSpec => []IntervalsActAsSets
<1> DEFINE Asked == asked \in ValueQuestions \/ asked = NotAsked
<1>1. asked = NotAsked => Asked
  OBVIOUS
<1>2. Asked /\ [AskValue]_asked => Asked'
  BY DEF AskValue, AskOne, NotAsked
<1>3. Asked => IntervalsActAsSets
  <2>1. CASE asked = NotAsked
    BY <2>1 DEF NotAsked, IntervalsActAsSets
  <2>2. CASE asked \in ValueQuestions /\ asked.about = "sets"
    <3>1. asked.of \in Intervals /\ asked.with \in Intervals
      BY <2>2 DEF ValueQuestions
    <3> QED
      BY <3>1, SetsRight DEF IntervalsActAsSets
  <2> QED
    BY <2>1, <2>2 DEF IntervalsActAsSets
<1> QED
  BY <1>1, <1>2, <1>3, PTL DEF ValueSpec

(***************************************************************************)
(* Functions that grow or fall.                                            *)
(***************************************************************************)
GrowingNames == {"exp", "asin", "atan", "sinh", "tanh", "asinh", "atanh", "acosh"}

LEMMA NumbersAndIntervals ==
    /\ \A x \in Inside : IsNumber(x)
    /\ \A i \in Intervals : ~IsNumber(i)
<1>1. ASSUME NEW x \in Inside PROVE IsNumber(x)
  BY EndsAssumption DEF IsNumber
<1>2. ASSUME NEW i \in Intervals PROVE ~IsNumber(i)
  <2>1. PICK lo \in Ends, hi \in Ends, lc \in BOOLEAN, rc \in BOOLEAN : i = Between(lo, hi, lc, rc)
    BY DEF Intervals
  <2> QED
    BY <2>1 DEF IsNumber, Between
<1> QED
  BY <1>1, <1>2

\* What a function of numbers is on numbers and on intervals.
LEMMA FunctionsOfValues ==
    ASSUME NEW f \in GrowingNames \cup {"acos", "neg"}, NEW x \in Inside, NEW i \in Intervals, ~IsEmpty(i)
    PROVE  /\ ValueFunction(f, x) = IF f = "neg" THEN Negated(x) ELSE Function(f, x)
           /\ ValueFunction(f, i) = IF f = "neg" THEN Mirrored(i)
                                    ELSE IF f = "acos" THEN ArcCosine(i) ELSE Growing(f, i)
<1>1. IsNumber(x) /\ ~IsNumber(i)
  BY NumbersAndIntervals
<1>2. ValueFunction(f, x) = IF f = "neg" THEN Negated(x) ELSE Function(f, x)
  BY <1>1 DEF ValueFunction, FunctionOrImage, Elementary, Other, OfAngles, OfHyperbolas,
              ElementaryNames, OtherNames, AngleNames, HyperbolicNames, GrowingNames
<1>3. ValueFunction(f, i) = Operate1(f, i)
  BY <1>1 DEF ValueFunction, FunctionOrImage, Elementary, Other, OfAngles, OfHyperbolas,
              ElementaryNames, OtherNames, AngleNames, HyperbolicNames, GrowingNames
<1>4. Operate1(f, i) = IF f = "neg" THEN Mirrored(i)
                       ELSE IF f = "acos" THEN ArcCosine(i) ELSE Growing(f, i)
  <2>1. CASE f = "neg"
    BY <2>1 DEF Operate1
  <2>2. CASE f = "exp"
    BY <2>2 DEF Operate1
  <2>3. CASE f \in {"asin", "atan", "acos"}
    BY <2>3 DEF Operate1, ArcFunction
  <2>4. CASE f \in {"sinh", "tanh"}
    BY <2>4 DEF Operate1, HyperbolicOf
  <2>5. CASE f \in {"asinh", "acosh", "atanh"}
    BY <2>5 DEF Operate1, InverseHyperbolic
  <2> QED
    BY <2>1, <2>2, <2>3, <2>4, <2>5 DEF GrowingNames
<1> QED
  BY <1>2, <1>3, <1>4

LEMMA GrowsInOrder ==
    ASSUME NEW x \in Int, NEW y \in Int, x <= y
    PROVE  Grows(x) \in Int /\ Grows(y) \in Int /\ Grows(x) <= Grows(y)
<1>1. \A z \in Int : Grows(z) = IF z < 0 THEN -((-z) \div 3) ELSE z \div 3
  BY DEF Grows, Sign, Abs
<1> QED
  BY <1>1

LEMMA FunctionInOrder ==
    ASSUME NEW f \in GrowingNames \cup {"acos"}, NEW x \in Int, NEW y \in Int, x <= y
    PROVE  /\ FunctionOf(f, x) \in Int /\ FunctionOf(f, y) \in Int
           /\ f # "acos" => FunctionOf(f, x) <= FunctionOf(f, y)
           /\ f = "acos" => FunctionOf(f, y) <= FunctionOf(f, x)
<1>1. Unit \in Int /\ HalfPi \in Int
  BY UnitAssumption
<1>2. Grows(x) \in Int /\ Grows(y) \in Int /\ Grows(x) <= Grows(y)
  BY GrowsInOrder
<1>3. x - Unit \in Int /\ y - Unit \in Int /\ x - Unit <= y - Unit
  BY <1>1
<1>4. Grows(x - Unit) \in Int /\ Grows(y - Unit) \in Int /\ Grows(x - Unit) <= Grows(y - Unit)
  BY <1>3, GrowsInOrder
<1>5. \A z : FunctionOf(f, z) = IF f = "exp" THEN Unit + Grows(z)
                                ELSE IF f = "acos" THEN HalfPi - Grows(z)
                                ELSE IF f = "acosh" THEN Grows(z - Unit) ELSE Grows(z)
  BY DEF FunctionOf, GrowingNames, ExponentialNames, CircularNames, Exponential, Circular, Hyperbolic
<1> QED
  BY <1>1, <1>2, <1>4, <1>5

\* An interval holds a number, and holds it as one near.
LEMMA HoldsNear ==
    ASSUME NEW r, r.lo.is \in Int, r.hi.is \in Int, NEW a, a.is \in Int, Holds(r, a)
    PROVE  Near(r, a)
  BY DEF Holds, Near, AtMost, Less

LEMMA NotThrown ==
    ASSUME NEW x, NEW y, NEW c, NEW d
    PROVE  Real(x) # Throws /\ Between(x, y, c, d) # Throws
<1>1. "is" \in DOMAIN Real(x) /\ "lo" \in DOMAIN Between(x, y, c, d)
  BY DEF Real, Between
<1>2. "is" \notin DOMAIN Throws /\ "lo" \notin DOMAIN Throws
  BY DEF Throws
<1> QED
  BY <1>1, <1>2

\* Growing functions widen their ends.
LEMMA GrowingHolds ==
    ASSUME NEW f \in GrowingNames, NEW i \in Intervals, NEW x \in Inside, Holds(i, x),
           NEW r, r = Growing(f, i), r # Throws,
           NEW a, a = Function(f, x), a # Throws
    PROVE  /\ r.lo.is \in Int /\ r.hi.is \in Int /\ a.is \in Int
           /\ Holds(r, a)
<1>1. i.lo.is <= x.is /\ x.is <= i.hi.is /\ i.lo.is \in Int /\ i.hi.is \in Int /\ x.is \in Int
  BY IntervalFacts, InsideNumbers DEF Holds, AtMost, Less
<1>2. Function(f, i.lo) # Throws /\ Function(f, i.hi) # Throws
  BY DEF Growing, Widened
<1>3. PICK lo \in Int, hi \in Int, v \in Int :
        /\ lo = FunctionOf(f, i.lo.is) /\ hi = FunctionOf(f, i.hi.is) /\ v = FunctionOf(f, x.is)
        /\ lo <= v /\ v <= hi
  <2>1. f # "acos" /\ f \in GrowingNames \cup {"acos"}
    BY DEF GrowingNames
  <2>2. /\ FunctionOf(f, i.lo.is) \in Int /\ FunctionOf(f, x.is) \in Int
        /\ FunctionOf(f, i.lo.is) <= FunctionOf(f, x.is)
    BY <1>1, <2>1, FunctionInOrder
  <2>3. /\ FunctionOf(f, i.hi.is) \in Int
        /\ FunctionOf(f, x.is) <= FunctionOf(f, i.hi.is)
    BY <1>1, <2>1, FunctionInOrder
  <2> QED
    BY <2>2, <2>3
<1>4. Function(f, i.lo) = Real(lo) /\ Function(f, i.hi) = Real(hi) /\ a = Real(v)
  BY <1>2, <1>3 DEF Function
<1>5. r = Between(NextBelow(Real(lo)), NextAbove(Real(hi)), FALSE, FALSE)
  BY <1>2, <1>4 DEF Growing, Widened
<1>6. NextBelow(Real(lo)).is = lo - 1 /\ NextAbove(Real(hi)).is = hi + 1 /\ a.is = v
  BY <1>4 DEF NextBelow, NextAbove, Real, IsInt
<1>7. r.lo.is = lo - 1 /\ r.hi.is = hi + 1 /\ ~r.lc /\ ~r.rc
  BY <1>5, <1>6 DEF Between
<1> QED
  BY <1>3, <1>6, <1>7 DEF Holds, IsEmpty, AtMost, Less, Equal

\* The arc cosine falls: its ends change places.
LEMMA FallingHolds ==
    ASSUME NEW i \in Intervals, NEW x \in Inside, Holds(i, x),
           NEW r, r = ArcCosine(i), r # Throws,
           NEW a, a = Function("acos", x), a # Throws
    PROVE  Near(r, a) /\ (i.lc /\ i.rc => Holds(r, a))
<1>1. i.lo.is <= x.is /\ x.is <= i.hi.is /\ i.lo.is \in Int /\ i.hi.is \in Int /\ x.is \in Int
  BY IntervalFacts, InsideNumbers DEF Holds, AtMost, Less
<1>2. ~Less(i.lo, Whole(-1)) /\ ~Less(One, i.hi)
  BY DEF ArcCosine
<1>3. Unit \in Nat /\ Whole(-1).is = -Unit /\ One.is = Unit
  BY UnitAssumption DEF Whole, One
<1>4. ~Undefined("acos", i.lo.is) /\ ~Undefined("acos", i.hi.is)
  BY <1>1, <1>2, <1>3 DEF Undefined, Abs, Less
<1>5. PICK lo \in Int, hi \in Int, v \in Int :
        /\ lo = FunctionOf("acos", i.lo.is) /\ hi = FunctionOf("acos", i.hi.is)
        /\ v = FunctionOf("acos", x.is)
        /\ hi <= v /\ v <= lo
  BY <1>1, FunctionInOrder
<1>6. Function("acos", i.lo) = Real(lo) /\ Function("acos", i.hi) = Real(hi) /\ a = Real(v)
  BY <1>4, <1>5 DEF Function
<1>7. r = Between(Real(hi), Real(lo), i.rc, i.lc)
  BY <1>2, <1>6 DEF ArcCosine
<1>8. r.lo.is = hi /\ r.hi.is = lo /\ (r.lc <=> i.rc) /\ (r.rc <=> i.lc) /\ a.is = v
  BY <1>6, <1>7 DEF Between, Real
<1> QED
  BY <1>5, <1>8 DEF Near, Holds, IsEmpty, AtMost, Less, Equal

LEMMA MirroredHolds ==
    ASSUME NEW i \in Intervals, NEW x \in Inside, Holds(i, x)
    PROVE  /\ Mirrored(i).lo.is \in Int /\ Mirrored(i).hi.is \in Int /\ Negated(x).is \in Int
           /\ Holds(Mirrored(i), Negated(x))
<1>1. PICK r : r = Mirrored(i)
  OBVIOUS
<1>2. i.lo \in Inside /\ i.hi \in Inside
  BY IntervalFacts
<1>3. \A z \in Inside : Negated(z).is = -z.is /\ z.is \in Int
  BY EndsAssumption DEF Negated
<1>4. r.lo.is = -i.hi.is /\ r.hi.is = -i.lo.is /\ (r.lc <=> i.rc) /\ (r.rc <=> i.lc)
  BY <1>1, <1>2, <1>3 DEF Mirrored, Between
<1>5. Holds(r, Negated(x))
  BY <1>3, <1>4, IntervalFacts DEF Holds, IsEmpty, AtMost, Less, Equal
<1> QED
  BY <1>1, <1>2, <1>3, <1>4, <1>5

\* Sums and differences of two intervals.
LEMMA SumsHold ==
    ASSUME NEW i \in Intervals, NEW j \in Intervals, NEW x \in Inside, NEW y \in Inside,
           Holds(i, x), Holds(j, y)
    PROVE  /\ Plus(x, y).is \in Int /\ Minus(x, y).is \in Int
           /\ Holds(BoxSum(i, j), Plus(x, y))
           /\ Holds(Diff(i, j), Minus(x, y))
<1> USE IntervalFacts
<1>1. \A a, b : Plus(a, b).is = a.is + b.is /\ Minus(a, b).is = a.is - b.is
  BY DEF Plus, Minus, Both
<1>2. x.is \in Int /\ y.is \in Int
  BY InsideNumbers
<1>3. PICK r : r = BoxSum(i, j)
  OBVIOUS
<1>4. PICK s : s = Diff(i, j)
  OBVIOUS
<1>5. /\ r.lo.is = i.lo.is + j.lo.is /\ r.hi.is = i.hi.is + j.hi.is
      /\ r.lc <=> (i.lc /\ j.lc)
      /\ r.rc <=> (i.rc /\ j.rc)
  BY <1>1, <1>3 DEF BoxSum, Between
<1>6. /\ s.lo.is = i.lo.is - j.hi.is /\ s.hi.is = i.hi.is - j.lo.is
      /\ s.lc <=> (i.lc /\ j.rc)
      /\ s.rc <=> (i.rc /\ j.lc)
  BY <1>1, <1>4 DEF Diff, Between
<1>7. Holds(r, Plus(x, y))
  BY <1>1, <1>2, <1>5 DEF Holds, IsEmpty, AtMost, Less, Equal
<1>8. Holds(s, Minus(x, y))
  BY <1>1, <1>2, <1>6 DEF Holds, IsEmpty, AtMost, Less, Equal
<1> QED
  BY <1>1, <1>2, <1>3, <1>4, <1>7, <1>8

\* Sums and differences of an interval and a number.
LEMMA ShiftsHold ==
    ASSUME NEW i \in Intervals, NEW x \in Inside, NEW y \in Inside, Holds(i, x)
    PROVE  /\ Plus(x, y).is \in Int /\ Minus(x, y).is \in Int
           /\ Holds(Shifted(i, y, Plus), Plus(x, y))
           /\ Holds(Shifted(i, y, Minus), Minus(x, y))
<1> USE IntervalFacts
<1>1. \A a, b : Plus(a, b).is = a.is + b.is /\ Minus(a, b).is = a.is - b.is
  BY DEF Plus, Minus, Both
<1>2. x.is \in Int /\ y.is \in Int
  BY InsideNumbers
<1>3. PICK t : t = Shifted(i, y, Plus)
  OBVIOUS
<1>4. PICK u : u = Shifted(i, y, Minus)
  OBVIOUS
<1>5. /\ t.lo.is = i.lo.is + y.is /\ t.hi.is = i.hi.is + y.is
      /\ (t.lc <=> i.lc) /\ (t.rc <=> i.rc)
  BY <1>1, <1>3 DEF Shifted, Between
<1>6. /\ u.lo.is = i.lo.is - y.is /\ u.hi.is = i.hi.is - y.is
      /\ (u.lc <=> i.lc) /\ (u.rc <=> i.rc)
  BY <1>1, <1>4 DEF Shifted, Between
<1>7. Holds(t, Plus(x, y))
  BY <1>1, <1>2, <1>5 DEF Holds, IsEmpty, AtMost, Less, Equal
<1>8. Holds(u, Minus(x, y))
  BY <1>1, <1>2, <1>6 DEF Holds, IsEmpty, AtMost, Less, Equal
<1> QED
  BY <1>1, <1>2, <1>3, <1>4, <1>7, <1>8

LEMMA FunctionKeepsValues ==
    ASSUME NEW f \in GrowingNames \cup {"acos", "neg"}, NEW i \in Intervals, ~IsEmpty(i),
           NEW q, q = [about |-> "function", op |-> f, of |-> i]
    PROVE  KeepsValues(q)
<1> USE q = [about |-> "function", op |-> f, of |-> i]
<1>1. PICK r : r = ValueResult(q)
  OBVIOUS
<1>2. r = ValueFunction(f, i)
  BY <1>1 DEF ValueResult
<1>3. \A a \in Values(q) : a # Throws /\ \E x \in Inside : Holds(i, x) /\ a = ValueFunction(f, x)
  BY DEF Values, Taken, IsValue
<1>4. f \notin ByReciprocal
  BY DEF GrowingNames, ByReciprocal
<1>5. ASSUME r # Throws, NEW a \in Values(q)
      PROVE  Near(r, a) /\ (i.lc /\ i.rc => Holds(r, a))
  <2>1. PICK x \in Inside : Holds(i, x) /\ a = ValueFunction(f, x)
    BY <1>3, <1>5
  <2>2. a # Throws
    BY <1>3, <1>5
  <2>3. CASE f = "neg"
    <3>1. r = Mirrored(i) /\ a = Negated(x)
      BY <1>2, <2>1, <2>3, FunctionsOfValues
    <3> QED
      BY <2>1, <3>1, MirroredHolds, HoldsNear
  <2>4. CASE f = "acos"
    <3>1. r = ArcCosine(i) /\ a = Function("acos", x)
      BY <1>2, <2>1, <2>4, FunctionsOfValues
    <3> QED
      BY <1>5, <2>1, <2>2, <3>1, FallingHolds
  <2>5. CASE f \in GrowingNames
    <3>1. r = Growing(f, i) /\ a = Function(f, x)
      BY <1>2, <2>1, <2>5, FunctionsOfValues DEF GrowingNames
    <3> QED
      BY <1>5, <2>1, <2>2, <2>5, <3>1, GrowingHolds, HoldsNear
  <2> QED
    BY <2>3, <2>4, <2>5
<1> QED
  BY <1>1, <1>4, <1>5 DEF KeepsValues, KeepsValuesIn

\* The arithmetic of values on two numbers and on two intervals.
LEMMA SumsOfValues ==
    ASSUME NEW op \in {"+", "-"}, NEW x \in Inside, NEW y \in Inside,
           NEW i \in Intervals, NEW j \in Intervals, ~IsEmpty(i), ~IsEmpty(j)
    PROVE  /\ ResultOfNumbers(op, x, y) = IF op = "+" THEN Plus(x, y) ELSE Minus(x, y)
           /\ ValueArithmetic(op, i, j) = IF op = "+" THEN BoxSum(i, j) ELSE Diff(i, j)
           /\ OperateNumber(op, i, y) = IF op = "+" THEN Shifted(i, y, Plus) ELSE Shifted(i, y, Minus)
<1>1. (IsNumber(x) <=> TRUE) /\ (IsNumber(y) <=> TRUE) /\ (IsNumber(i) <=> FALSE) /\ (IsNumber(j) <=> FALSE)
  BY NumbersAndIntervals
<1>2. ~(IsNumber(x) # IsNumber(y)) /\ ~(IsNumber(i) # IsNumber(j))
  BY <1>1 DEF IsNumber
<1>3. ValueArithmetic(op, x, y) = IF op = "+" THEN Plus(x, y) ELSE Minus(x, y)
  BY <1>1, <1>2 DEF ValueArithmetic
<1>4. ValueArithmetic(op, i, j) = Operate2(op, i, j)
  BY <1>1, <1>2 DEF ValueArithmetic
<1>5. Operate2(op, i, j) = IF op = "+" THEN BoxSum(i, j) ELSE Diff(i, j)
  BY DEF Operate2
<1>6. OperateNumber(op, i, y) = IF op = "+" THEN Shifted(i, y, Plus) ELSE Shifted(i, y, Minus)
  BY DEF OperateNumber
<1>7. ResultOfNumbers(op, x, y) = ValueArithmetic(op, x, y)
  BY DEF ResultOfNumbers
<1> QED
  BY <1>3, <1>4, <1>5, <1>6, <1>7

\* Their ends are integers.
LEMMA SumEnds ==
    ASSUME NEW i \in Intervals, NEW j \in Intervals, NEW y \in Inside
    PROVE  \A r \in {BoxSum(i, j), Diff(i, j), Shifted(i, y, Plus), Shifted(i, y, Minus)} :
               r.lo.is \in Int /\ r.hi.is \in Int
<1>1. \A a, b : Plus(a, b).is = a.is + b.is /\ Minus(a, b).is = a.is - b.is
  BY DEF Plus, Minus, Both
<1>2. y.is \in Int /\ i.lo.is \in Int /\ i.hi.is \in Int /\ j.lo.is \in Int /\ j.hi.is \in Int
  BY InsideNumbers, IntervalFacts
<1> QED
  BY <1>1, <1>2 DEF BoxSum, Diff, Shifted, Between

LEMMA SumKeepsValues ==
    ASSUME NEW q, NEW op \in {"+", "-"}, NEW i \in Intervals, ~IsEmpty(i), q.op = op, q.of = i,
           \/ /\ q.about = "arithmetic"
              /\ q.with \in Intervals
           \/ /\ q.about = "number"
              /\ q.with \in Ends
    PROVE  KeepsValues(q)
<1>1. PICK r : r = ValueResult(q)
  OBVIOUS
<1>2. op \notin ByReciprocal
  BY DEF ByReciprocal
<1>3. ASSUME NEW a \in Values(q)
      PROVE  Near(r, a) /\ Holds(r, a)
  <2>1. CASE q.about = "arithmetic"
    <3>1. PICK j \in Intervals : j = q.with
      BY <2>1
    <3>2. PICK x \in Inside, y \in Inside :
            Holds(i, x) /\ Holds(j, y) /\ a = ResultOfNumbers(op, x, y)
      BY <1>3, <2>1, <3>1 DEF Values, Taken
    <3>3. ~IsEmpty(j)
      BY <3>2 DEF Holds
    <3>4. a = IF op = "+" THEN Plus(x, y) ELSE Minus(x, y)
      BY <3>1, <3>2, <3>3, SumsOfValues
    <3>5. r = IF op = "+" THEN BoxSum(i, j) ELSE Diff(i, j)
      BY <1>1, <2>1, <3>1, <3>2, <3>3, SumsOfValues DEF ValueResult
    <3>6. a.is \in Int /\ Holds(r, a)
      BY <3>2, <3>4, <3>5, SumsHold
    <3>7. r.lo.is \in Int /\ r.hi.is \in Int
      BY <3>5, SumEnds
    <3> QED
      BY <3>6, <3>7, HoldsNear
  <2>2. CASE q.about = "number"
    <3>1. PICK y \in Inside : y = q.with
      BY <2>2, EndsAssumption
    <3>2. PICK x \in Inside : Holds(i, x) /\ a = ResultOfNumbers(op, x, y)
      BY <1>3, <2>2, <3>1 DEF Values, Taken
    <3>3. a = IF op = "+" THEN Plus(x, y) ELSE Minus(x, y)
      BY <3>2, SumsOfValues
    <3>4. r = IF op = "+" THEN Shifted(i, y, Plus) ELSE Shifted(i, y, Minus)
      <4>1. OperateNumber(op, i, y) = IF op = "+" THEN Shifted(i, y, Plus) ELSE Shifted(i, y, Minus)
        BY SumsOfValues
      <4>2. r = OperateNumber(op, i, y)
        BY <1>1, <2>2, <3>1 DEF ValueResult
      <4> QED
        BY <4>1, <4>2
    <3>5. a.is \in Int /\ Holds(r, a)
      BY <3>2, <3>3, <3>4, ShiftsHold
    <3>6. r.lo.is \in Int /\ r.hi.is \in Int
      BY <3>4, SumEnds
    <3> QED
      BY <3>5, <3>6, HoldsNear
  <2> QED
    BY <2>1, <2>2
<1> QED
  BY <1>1, <1>2, <1>3 DEF KeepsValues, KeepsValuesIn

(***************************************************************************)
(* Products and quotients rounded toward zero.                             *)
(***************************************************************************)
LEMMA DivisionFacts ==
    ASSUME NEW p \in Nat, NEW d \in Nat \ {0}
    PROVE  /\ p \div d \in Nat
           /\ (p \div d) * d <= p /\ p < (p \div d) * d + d
<1>1. PICK k \in Int : k = p \div d
  OBVIOUS
<1>2. k * d <= p /\ p < (k + 1) * d
  BY <1>1
<1>3. (k + 1) * d = k * d + d
  OBVIOUS
<1>4. k >= 0
  BY <1>1
<1> QED
  BY <1>1, <1>2, <1>3, <1>4

LEMMA ProductGrows ==
    ASSUME NEW a \in Int, NEW b \in Int, a <= b, NEW c \in Int
    PROVE  /\ a * c \in Int /\ b * c \in Int
           /\ c >= 0 => a * c <= b * c
           /\ c <= 0 => b * c <= a * c
<1>1. PICK e \in Nat : b = a + e
  <2>1. b - a \in Nat /\ b = a + (b - a)
    OBVIOUS
  <2> QED
    BY <2>1
<1>2. b * c = a * c + e * c
  BY <1>1
<1>3. c >= 0 => e * c >= 0
  OBVIOUS
<1>4. c <= 0 => e * c <= 0
  OBVIOUS
<1>5. a * c \in Int /\ b * c \in Int /\ e * c \in Int
  OBVIOUS
<1> QED
  BY <1>2, <1>3, <1>4, <1>5

\* No integer lies between k and k + 1: a quotient is determined by its bounds.
LEMMA QuotientsOrdered ==
    ASSUME NEW p \in Nat, NEW q \in Nat, NEW d \in Nat \ {0}, NEW e \in Nat \ {0}, p <= q, e <= d
    PROVE  p \div d <= q \div e
<1>1. PICK k \in Nat : k = p \div d /\ k * d <= p
  BY DivisionFacts
<1>2. PICK m \in Nat : m = q \div e /\ q < m * e + e
  BY DivisionFacts
<1>3. k * e <= k * d
  BY ProductGrows
<1>4. k * e < m * e + e
  BY <1>1, <1>2, <1>3
<1>5. CASE k >= m + 1
  <2>1. (m + 1) * e <= k * e
    BY <1>5, ProductGrows
  <2>2. (m + 1) * e = m * e + e
    OBVIOUS
  <2>3. m * e \in Int /\ k * e \in Int
    OBVIOUS
  <2> QED
    BY <1>4, <2>1, <2>2, <2>3
<1> QED
  BY <1>1, <1>2, <1>5

LEMMA RemainderFacts ==
    ASSUME NEW p \in Int, NEW d \in Nat \ {0}
    PROVE  p % d = 0 => \E m \in Int : p = m * d
<1>1. p % d = p - d * (p \div d)
  OBVIOUS
<1>2. PICK k \in Int : k = p \div d
  OBVIOUS
<1>3. p % d = p - k * d
  BY <1>1, <1>2
<1>4. p % d = 0 => p = k * d
  BY <1>3
<1> QED
  BY <1>4

LEMMA TruncatedFacts ==
    ASSUME NEW p \in Int, NEW d \in Nat \ {0}
    PROVE  /\ p >= 0 => p \div d \in Nat /\ Truncated(p, d) = p \div d
           /\ p < 0  => (-p) \div d \in Nat /\ Truncated(p, d) = -((-p) \div d)
           /\ Truncated(p, d) \in Int
           /\ Truncated(p, -d) = -Truncated(p, d)
<1>1. PICK n \in Nat : n = Abs(p) /\ n = IF p < 0 THEN -p ELSE p
  BY DEF Abs
<1>2. PICK k \in Nat : k = n \div d
  BY DivisionFacts
<1>3. Abs(d) = d /\ Abs(-d) = d /\ Sign(d) = 1 /\ Sign(-d) = -1
  BY DEF Abs, Sign
<1>4. p = 0 => k = 0
  BY <1>1, <1>2, DivisionFacts
<1>5. Sign(p) = IF p < 0 THEN -1 ELSE IF p = 0 THEN 0 ELSE 1
  BY DEF Sign
<1>6. Truncated(p, d) = Sign(p) * 1 * k /\ Truncated(p, -d) = Sign(p) * (-1) * k
  BY <1>1, <1>2, <1>3 DEF Truncated
<1> QED
  BY <1>1, <1>2, <1>4, <1>5, <1>6

LEMMA QuotientsShrink ==
    ASSUME NEW p \in Nat, NEW d \in Nat \ {0}, NEW e \in Nat \ {0}, d <= e
    PROVE  p \div e <= p \div d
<1>1. PICK q \in Nat : q = p /\ p <= q
  OBVIOUS
<1>2. p \div e <= q \div d
  BY <1>1, QuotientsOrdered
<1> QED
  BY <1>1, <1>2

\* The quotient rounded to zero grows with what is divided...
LEMMA TruncatedGrows ==
    ASSUME NEW p \in Int, NEW q \in Int, p <= q, NEW d \in Nat \ {0}
    PROVE  Truncated(p, d) \in Int /\ Truncated(q, d) \in Int /\ Truncated(p, d) <= Truncated(q, d)
<1>1. CASE p >= 0
  <2>1. p \in Nat /\ q \in Nat
    BY <1>1
  <2>2. p \div d <= q \div d
    BY <2>1, QuotientsOrdered
  <2>3. p \div d \in Nat /\ Truncated(p, d) = p \div d
    BY <1>1, TruncatedFacts
  <2>4. q >= 0
    BY <1>1
  <2>5. q \div d \in Nat /\ Truncated(q, d) = q \div d
    BY <2>4, TruncatedFacts
  <2> QED
    BY <2>2, <2>3, <2>5
<1>2. CASE p < 0 /\ q >= 0
  <2>1. (-p) \div d \in Nat /\ Truncated(p, d) = -((-p) \div d)
    BY <1>2, TruncatedFacts
  <2>2. q \div d \in Nat /\ Truncated(q, d) = q \div d
    BY <1>2, TruncatedFacts
  <2> QED
    BY <2>1, <2>2
<1>3. CASE q < 0
  <2>1. -p \in Nat /\ -q \in Nat /\ -q <= -p /\ p < 0
    BY <1>3
  <2>2. (-q) \div d <= (-p) \div d
    BY <2>1, QuotientsOrdered
  <2>3. /\ (-p) \div d \in Nat /\ Truncated(p, d) = -((-p) \div d)
        /\ (-q) \div d \in Nat /\ Truncated(q, d) = -((-q) \div d)
    BY <1>3, <2>1, TruncatedFacts
  <2> QED
    BY <2>2, <2>3
<1> QED
  BY <1>1, <1>2, <1>3

\* ... and comes closer to zero as what it is divided by grows.
LEMMA TruncatedShrinks ==
    ASSUME NEW p \in Int, NEW d \in Nat \ {0}, NEW e \in Nat \ {0}, d <= e
    PROVE  /\ Truncated(p, d) \in Int /\ Truncated(p, e) \in Int
           /\ p >= 0 => Truncated(p, e) <= Truncated(p, d)
           /\ p < 0 => Truncated(p, d) <= Truncated(p, e)
<1>1. CASE p >= 0
  <2>1. p \in Nat
    BY <1>1
  <2>2. p \div e <= p \div d
    BY <2>1, QuotientsShrink
  <2>3. /\ p \div d \in Nat /\ Truncated(p, d) = p \div d
        /\ p \div e \in Nat /\ Truncated(p, e) = p \div e
    BY <1>1, <2>1, TruncatedFacts
  <2> QED
    BY <1>1, <2>2, <2>3
<1>2. CASE p < 0
  <2>1. -p \in Nat
    BY <1>2
  <2>2. (-p) \div e <= (-p) \div d
    BY <2>1, QuotientsShrink
  <2>3. /\ (-p) \div d \in Nat /\ Truncated(p, d) = -((-p) \div d)
        /\ (-p) \div e \in Nat /\ Truncated(p, e) = -((-p) \div e)
    BY <1>2, TruncatedFacts
  <2> QED
    BY <1>2, <2>2, <2>3
<1> QED
  BY <1>1, <1>2

Amid(a, u, b) == (a <= u /\ u <= b) \/ (b <= u /\ u <= a)

\* The product of two numbers lies between those with the ends of a range.
LEMMA TimesAmid ==
    ASSUME NEW a \in Int, NEW x \in Int, NEW b \in Int, a <= x, x <= b, NEW y \in Int
    PROVE  /\ Truncated(a * y, Unit) \in Int /\ Truncated(x * y, Unit) \in Int
           /\ Truncated(b * y, Unit) \in Int
           /\ y >= 0 => Truncated(a * y, Unit) <= Truncated(x * y, Unit)
                        /\ Truncated(x * y, Unit) <= Truncated(b * y, Unit)
           /\ y < 0 => Truncated(b * y, Unit) <= Truncated(x * y, Unit)
                       /\ Truncated(x * y, Unit) <= Truncated(a * y, Unit)
<1>1. Unit \in Nat \ {0}
  BY UnitAssumption
<1>2. PICK p \in Int, q \in Int, r \in Int :
        /\ p = a * y /\ q = x * y /\ r = b * y
        /\ y >= 0 => p <= q /\ q <= r
        /\ y <= 0 => q <= p /\ r <= q
  <2>1. /\ a * y \in Int /\ x * y \in Int /\ b * y \in Int
        /\ y >= 0 => a * y <= x * y /\ x * y <= b * y
        /\ y <= 0 => x * y <= a * y /\ b * y <= x * y
    BY ProductGrows
  <2> QED
    BY <2>1
<1>3. CASE y >= 0
  <2>1. p <= q /\ q <= r
    BY <1>2, <1>3
  <2>2. /\ Truncated(p, Unit) \in Int /\ Truncated(q, Unit) \in Int /\ Truncated(r, Unit) \in Int
        /\ Truncated(p, Unit) <= Truncated(q, Unit) /\ Truncated(q, Unit) <= Truncated(r, Unit)
    BY <1>1, <2>1, TruncatedGrows
  <2> QED
    BY <1>2, <1>3, <2>2
<1>4. CASE y < 0
  <2>1. q <= p /\ r <= q
    BY <1>2, <1>4
  <2>2. /\ Truncated(p, Unit) \in Int /\ Truncated(q, Unit) \in Int /\ Truncated(r, Unit) \in Int
        /\ Truncated(q, Unit) <= Truncated(p, Unit) /\ Truncated(r, Unit) <= Truncated(q, Unit)
    BY <1>1, <2>1, TruncatedGrows
  <2> QED
    BY <1>2, <1>4, <2>2
<1> QED
  BY <1>3, <1>4

\* The quotient, with what is divided...
LEMMA QuotientAmid ==
    ASSUME NEW a \in Int, NEW x \in Int, NEW b \in Int, a <= x, x <= b, NEW y \in Int \ {0}
    PROVE  /\ Truncated(a * Unit, y) \in Int /\ Truncated(x * Unit, y) \in Int
           /\ Truncated(b * Unit, y) \in Int
           /\ y > 0 => Truncated(a * Unit, y) <= Truncated(x * Unit, y)
                       /\ Truncated(x * Unit, y) <= Truncated(b * Unit, y)
           /\ y < 0 => Truncated(b * Unit, y) <= Truncated(x * Unit, y)
                       /\ Truncated(x * Unit, y) <= Truncated(a * Unit, y)
<1>1. Unit \in Int /\ Unit >= 0
  BY UnitAssumption
<1>2. PICK p \in Int, q \in Int, r \in Int :
        p = a * Unit /\ q = x * Unit /\ r = b * Unit /\ p <= q /\ q <= r
  <2>1. /\ a * Unit \in Int /\ x * Unit \in Int /\ b * Unit \in Int
        /\ a * Unit <= x * Unit /\ x * Unit <= b * Unit
    BY <1>1, ProductGrows
  <2> QED
    BY <2>1
<1>3. CASE y > 0
  BY <1>2, <1>3, TruncatedGrows
<1>4. CASE y < 0
  <2>1. PICK d \in Nat \ {0} : y = -d
    <3>1. -y \in Nat \ {0} /\ y = -(-y)
      BY <1>4
    <3> QED
      BY <3>1
  <2>2. /\ Truncated(p, d) \in Int /\ Truncated(q, d) \in Int /\ Truncated(r, d) \in Int
        /\ Truncated(p, d) <= Truncated(q, d) /\ Truncated(q, d) <= Truncated(r, d)
    BY <1>2, TruncatedGrows
  <2>3. /\ Truncated(p, -d) = -Truncated(p, d) /\ Truncated(q, -d) = -Truncated(q, d)
        /\ Truncated(r, -d) = -Truncated(r, d)
    BY TruncatedFacts
  <2> QED
    BY <1>2, <1>4, <2>1, <2>2, <2>3
<1> QED
  BY <1>3, <1>4

\* ... and with what it is divided by, of one sign.
LEMMA DivisorAmid ==
    ASSUME NEW p \in Int, NEW c \in Int, NEW y \in Int, NEW d \in Int, c <= y, y <= d,
           c > 0 \/ d < 0
    PROVE  /\ Truncated(p, c) \in Int /\ Truncated(p, y) \in Int /\ Truncated(p, d) \in Int
           /\ Amid(Truncated(p, c), Truncated(p, y), Truncated(p, d))
<1>1. CASE c > 0
  <2>1. c \in Nat \ {0} /\ y \in Nat \ {0} /\ d \in Nat \ {0}
    BY <1>1
  <2> QED
    BY <2>1, TruncatedShrinks DEF Amid
<1>2. CASE d < 0
  <2>1. PICK k \in Nat \ {0}, z \in Nat \ {0}, l \in Nat \ {0} : c = -k /\ y = -z /\ d = -l
    <3>1. /\ -c \in Nat \ {0} /\ -y \in Nat \ {0} /\ -d \in Nat \ {0}
          /\ c = -(-c) /\ y = -(-y) /\ d = -(-d)
      BY <1>2
    <3> QED
      BY <3>1
  <2>2. l <= z /\ z <= k
    BY <2>1
  <2>3. /\ Truncated(p, k) \in Int /\ Truncated(p, z) \in Int /\ Truncated(p, l) \in Int
        /\ Amid(Truncated(p, k), Truncated(p, z), Truncated(p, l))
    BY <2>2, TruncatedShrinks DEF Amid
  <2>4. /\ Truncated(p, -k) = -Truncated(p, k) /\ Truncated(p, -z) = -Truncated(p, z)
        /\ Truncated(p, -l) = -Truncated(p, l)
    BY TruncatedFacts
  <2> QED
    BY <2>1, <2>3, <2>4 DEF Amid
<1> QED
  BY <1>1, <1>2

LEMMA TimesAmidEnds ==
    ASSUME NEW a \in Int, NEW x \in Int, NEW b \in Int, a <= x, x <= b, NEW y \in Int
    PROVE  /\ Truncated(a * y, Unit) \in Int /\ Truncated(x * y, Unit) \in Int
           /\ Truncated(b * y, Unit) \in Int
           /\ Amid(Truncated(a * y, Unit), Truncated(x * y, Unit), Truncated(b * y, Unit))
           /\ Truncated(y * a, Unit) \in Int /\ Truncated(y * x, Unit) \in Int
           /\ Truncated(y * b, Unit) \in Int
           /\ Amid(Truncated(y * a, Unit), Truncated(y * x, Unit), Truncated(y * b, Unit))
<1>1. /\ Truncated(a * y, Unit) \in Int /\ Truncated(x * y, Unit) \in Int
      /\ Truncated(b * y, Unit) \in Int
  BY TimesAmid
<1>2. Amid(Truncated(a * y, Unit), Truncated(x * y, Unit), Truncated(b * y, Unit))
  <2>1. CASE y >= 0
    BY <2>1, TimesAmid DEF Amid
  <2>2. CASE y < 0
    BY <2>2, TimesAmid DEF Amid
  <2> QED
    BY <2>1, <2>2
<1>3. y * a = a * y /\ y * x = x * y /\ y * b = b * y
  OBVIOUS
<1> QED
  BY <1>1, <1>2, <1>3

(***************************************************************************)
(* Corners and the box around them.                                        *)
(***************************************************************************)
\* The box of four closed corners is closed and has them all within.
LEMMA BoxOfClosed ==
    ASSUME NEW cs, DOMAIN cs = 1..4, Len(cs) = 4,
           \A k \in 1..4 : cs[k].closed /\ cs[k].at.is \in Int,
           Box(cs) # Throws
    PROVE  /\ Box(cs).lc /\ Box(cs).rc
           /\ Box(cs).lo.is \in Int /\ Box(cs).hi.is \in Int
           /\ \A k \in 1..4 : Box(cs).lo.is <= cs[k].at.is /\ cs[k].at.is <= Box(cs).hi.is
<1>1. PICK ats : ats = {c.at : c \in ToSet(cs)}
  OBVIOUS
<1>2. \A a : a \in ats <=> \E k \in 1..4 : a = cs[k].at
  BY <1>1 DEF ToSet
<1>3. Least(ats) \in ats /\ \A a \in ats : Least(ats).is <= a.is
  <2>1. \E k \in 1..4 : \A l \in 1..4 : cs[k].at.is <= cs[l].at.is
    <3>1. PICK p \in Int, q \in Int, r \in Int, s \in Int :
            p = cs[1].at.is /\ q = cs[2].at.is /\ r = cs[3].at.is /\ s = cs[4].at.is
      OBVIOUS
    <3>2. \A k \in 1..4 : k = 1 \/ k = 2 \/ k = 3 \/ k = 4
      OBVIOUS
    <3> QED
      BY <3>1, <3>2
  <2>2. \E a \in ats : \A b \in ats : AtMost(a, b)
    BY <1>2, <2>1 DEF AtMost
  <2> QED
    BY <2>2 DEF Least, AtMost
<1>4. Greatest(ats) \in ats /\ \A a \in ats : a.is <= Greatest(ats).is
  <2>1. \E k \in 1..4 : \A l \in 1..4 : cs[l].at.is <= cs[k].at.is
    <3>1. PICK p \in Int, q \in Int, r \in Int, s \in Int :
            p = cs[1].at.is /\ q = cs[2].at.is /\ r = cs[3].at.is /\ s = cs[4].at.is
      OBVIOUS
    <3>2. \A k \in 1..4 : k = 1 \/ k = 2 \/ k = 3 \/ k = 4
      OBVIOUS
    <3> QED
      BY <3>1, <3>2
  <2>2. \E a \in ats : \A b \in ats : AtMost(b, a)
    BY <1>2, <2>1 DEF AtMost
  <2> QED
    BY <2>2 DEF Greatest, AtMost
<1> DEFINE first(a) == SelectInSeq(cs, LAMBDA c : Equal(c.at, a))
<1>5. \A a \in ats : first(a) \in 1..4
  <2> SUFFICES ASSUME NEW a \in ats PROVE first(a) \in 1..4
    OBVIOUS
  <2>1. PICK I : I = {k \in 1..Len(cs) : Equal(cs[k].at, a)}
    OBVIOUS
  <2>2. I # {} /\ I \subseteq 1..4
    BY <1>2, <2>1 DEF Equal
  <2>3. Min(I) \in I
    <3>1. \E x \in I : \A y \in I : x <= y
      <4>1. \A y \in I : y = 1 \/ y = 2 \/ y = 3 \/ y = 4
        BY <2>2
      <4>2. CASE 1 \in I
        BY <4>1, <4>2
      <4>3. CASE 1 \notin I /\ 2 \in I
        BY <4>1, <4>3
      <4>4. CASE 1 \notin I /\ 2 \notin I /\ 3 \in I
        BY <4>1, <4>4
      <4>5. CASE I = {4}
        BY <4>5
      <4> QED
        BY <2>2, <4>1, <4>2, <4>3, <4>4, <4>5
    <3> QED
      BY <3>1 DEF Min
  <2>4. first(a) = Min(I)
    BY <2>1, <2>2 DEF SelectInSeq
  <2> QED
    BY <2>2, <2>3, <2>4
<1>6. Throws \notin ats
  BY <1>1 DEF Box
<1>7. Box(cs) = Between(Least(ats), Greatest(ats), cs[first(Least(ats))].closed, cs[first(Greatest(ats))].closed)
  BY <1>1, <1>6 DEF Box
<1> HIDE DEF first
<1>8. /\ Box(cs).lo = Least(ats) /\ Box(cs).hi = Greatest(ats)
      /\ Box(cs).lc = cs[first(Least(ats))].closed /\ Box(cs).rc = cs[first(Greatest(ats))].closed
  BY <1>7 DEF Between
<1>9. cs[first(Least(ats))].closed /\ cs[first(Greatest(ats))].closed
  BY <1>3, <1>4, <1>5
<1>10. Box(cs).lc /\ Box(cs).rc
  BY <1>8, <1>9
<1>11. Least(ats).is \in Int /\ Greatest(ats).is \in Int
  BY <1>2, <1>3, <1>4
<1>12. \A k \in 1..4 : Least(ats).is <= cs[k].at.is /\ cs[k].at.is <= Greatest(ats).is
  BY <1>2, <1>3, <1>4
<1> QED
  BY <1>8, <1>10, <1>11, <1>12

\* Whatever lies amid what lies amid the corners is held.
LEMMA BoxHolds ==
    ASSUME NEW cs, DOMAIN cs = 1..4, Len(cs) = 4,
           \A k \in 1..4 : cs[k].closed /\ cs[k].at.is \in Int,
           Box(cs) # Throws,
           NEW u \in Int, Amid(cs[1].at.is, u, cs[2].at.is),
           NEW v \in Int, Amid(cs[3].at.is, v, cs[4].at.is),
           NEW a, a.is \in Int, Amid(u, a.is, v)
    PROVE  Near(Box(cs), a) /\ Holds(Box(cs), a)
<1>1. PICK r : r = Box(cs)
  OBVIOUS
<1>2. /\ r.lc /\ r.rc /\ r.lo.is \in Int /\ r.hi.is \in Int
      /\ \A k \in 1..4 : r.lo.is <= cs[k].at.is /\ cs[k].at.is <= r.hi.is
  BY <1>1, BoxOfClosed
<1>3. /\ r.lo.is <= cs[1].at.is /\ cs[1].at.is <= r.hi.is /\ cs[1].at.is \in Int
      /\ r.lo.is <= cs[2].at.is /\ cs[2].at.is <= r.hi.is /\ cs[2].at.is \in Int
      /\ r.lo.is <= cs[3].at.is /\ cs[3].at.is <= r.hi.is /\ cs[3].at.is \in Int
      /\ r.lo.is <= cs[4].at.is /\ cs[4].at.is <= r.hi.is /\ cs[4].at.is \in Int
  BY <1>2
<1>4. r.lo.is <= a.is /\ a.is <= r.hi.is
  BY <1>2, <1>3 DEF Amid
<1>5. Holds(r, a)
  BY <1>2, <1>4 DEF Holds, IsEmpty, AtMost, Less, Equal
<1> QED
  BY <1>1, <1>2, <1>5, HoldsNear

LEMMA ProductHolds ==
    ASSUME NEW i \in Intervals, NEW j \in Intervals, i.lc, i.rc, j.lc, j.rc,
           NEW x \in Inside, NEW y \in Inside, Holds(i, x), Holds(j, y),
           NEW r, r = Product(i, j), r # Throws, NEW a, a = Times(x, y)
    PROVE  Near(r, a) /\ Holds(r, a)
<1>1. /\ i.lo.is <= x.is /\ x.is <= i.hi.is /\ i.lo.is \in Int /\ i.hi.is \in Int /\ x.is \in Int
      /\ j.lo.is <= y.is /\ y.is <= j.hi.is /\ j.lo.is \in Int /\ j.hi.is \in Int /\ y.is \in Int
  BY IntervalFacts, InsideNumbers DEF Holds, AtMost, Less
<1>2. \A k, l : Times(k, l).is = Truncated(k.is * l.is, Unit)
  BY DEF Times, Both
<1>3. PICK cs : cs = Corners(Times, i, j)
  OBVIOUS
<1>4. cs = << [at |-> Times(i.lo, j.lo), closed |-> i.lc /\ j.lc],
              [at |-> Times(i.lo, j.hi), closed |-> i.lc /\ j.rc],
              [at |-> Times(i.hi, j.lo), closed |-> i.rc /\ j.lc],
              [at |-> Times(i.hi, j.hi), closed |-> i.rc /\ j.rc] >>
  BY <1>3 DEF Corners
<1>5. DOMAIN cs = 1..4 /\ Len(cs) = 4
  BY <1>4
<1>6. /\ cs[1].at.is = Truncated(i.lo.is * j.lo.is, Unit)
      /\ cs[2].at.is = Truncated(i.lo.is * j.hi.is, Unit)
      /\ cs[3].at.is = Truncated(i.hi.is * j.lo.is, Unit)
      /\ cs[4].at.is = Truncated(i.hi.is * j.hi.is, Unit)
      /\ a.is = Truncated(x.is * y.is, Unit)
  BY <1>2, <1>4
<1>7. /\ cs[1].closed /\ cs[2].closed
      /\ cs[3].closed /\ cs[4].closed
  BY <1>4
<1>10. PICK u \in Int, v \in Int :
        /\ u = Truncated(i.lo.is * y.is, Unit) /\ v = Truncated(i.hi.is * y.is, Unit)
        /\ a.is \in Int /\ Amid(u, a.is, v)
  <2>1. /\ Truncated(i.lo.is * y.is, Unit) \in Int /\ Truncated(x.is * y.is, Unit) \in Int
        /\ Truncated(i.hi.is * y.is, Unit) \in Int
        /\ Amid(Truncated(i.lo.is * y.is, Unit), Truncated(x.is * y.is, Unit), Truncated(i.hi.is * y.is, Unit))
    BY <1>1, TimesAmidEnds
  <2> QED
    BY <1>6, <2>1
<1>11. cs[1].at.is \in Int /\ cs[2].at.is \in Int /\ Amid(cs[1].at.is, u, cs[2].at.is)
  <2>1. /\ Truncated(i.lo.is * j.lo.is, Unit) \in Int /\ Truncated(i.lo.is * j.hi.is, Unit) \in Int
        /\ Amid(Truncated(i.lo.is * j.lo.is, Unit), Truncated(i.lo.is * y.is, Unit), Truncated(i.lo.is * j.hi.is, Unit))
    BY <1>1, TimesAmidEnds
  <2> QED
    BY <1>6, <1>10, <2>1
<1>12. cs[3].at.is \in Int /\ cs[4].at.is \in Int /\ Amid(cs[3].at.is, v, cs[4].at.is)
  <2>1. /\ Truncated(i.hi.is * j.lo.is, Unit) \in Int /\ Truncated(i.hi.is * j.hi.is, Unit) \in Int
        /\ Amid(Truncated(i.hi.is * j.lo.is, Unit), Truncated(i.hi.is * y.is, Unit), Truncated(i.hi.is * j.hi.is, Unit))
    BY <1>1, TimesAmidEnds
  <2> QED
    BY <1>6, <1>10, <2>1
<1>8. \A k \in 1..4 : cs[k].closed /\ cs[k].at.is \in Int
  <2>1. \A k \in 1..4 : k = 1 \/ k = 2 \/ k = 3 \/ k = 4
    OBVIOUS
  <2> QED
    BY <1>7, <1>11, <1>12, <2>1
<1>9. Box(cs) # Throws /\ r = Box(cs)
  BY <1>3 DEF Product
<1> QED
  BY <1>5, <1>8, <1>9, <1>10, <1>11, <1>12, BoxHolds

(***************************************************************************)
(* Quotients without a remainder and rounded down.                         *)
(***************************************************************************)
LEMMA TruncatedMultiple ==
    ASSUME NEW m \in Int, NEW d \in Nat \ {0}
    PROVE  /\ m * d \in Int /\ Truncated(m * d, d) = m /\ Truncated(m * d, -d) = -m
<1>1. \A n \in Nat : n * d \in Nat /\ (n * d) \div d = n
  <2> SUFFICES ASSUME NEW n \in Nat PROVE n * d \in Nat /\ (n * d) \div d = n
    OBVIOUS
  <2>1. PICK p \in Nat : p = n * d
    OBVIOUS
  <2>2. PICK k \in Nat : k = p \div d /\ k * d <= p /\ p < k * d + d
    BY DivisionFacts
  <2>3. CASE k >= n + 1
    <3>1. (n + 1) * d <= k * d /\ (n + 1) * d = n * d + d
      BY <2>3, ProductGrows
    <3> QED
      BY <2>1, <2>2, <3>1
  <2>4. CASE n >= k + 1
    <3>1. (k + 1) * d <= n * d /\ (k + 1) * d = k * d + d
      BY <2>4, ProductGrows
    <3> QED
      BY <2>1, <2>2, <3>1
  <2> QED
    BY <2>1, <2>2, <2>3, <2>4
<1>2. PICK p \in Int : p = m * d
  OBVIOUS
<1>3. Truncated(p, d) = m
  <2>1. CASE m >= 0
    <3>1. p \in Nat /\ p \div d = m
      BY <1>1, <1>2, <2>1
    <3>2. p >= 0
      BY <3>1
    <3>3. Truncated(p, d) = p \div d
      BY <3>2, TruncatedFacts
    <3> QED
      BY <3>1, <3>3
  <2>2. CASE m < 0
    <3>1. PICK n \in Nat : n = -m
      BY <2>2
    <3>2. n * d = -p /\ n * d \in Nat /\ (n * d) \div d = n
      BY <1>1, <1>2, <3>1
    <3>3. -p \in Nat /\ (-p) \div d = n /\ p <= 0 /\ n > 0
      BY <2>2, <3>1, <3>2
    <3>4. p # 0
      <4>1. m * d <= (-1) * d
        BY <2>2, ProductGrows
      <4> QED
        BY <1>2, <4>1
    <3>5. Truncated(p, d) = -((-p) \div d)
      BY <3>3, <3>4, TruncatedFacts
    <3> QED
      BY <3>1, <3>3, <3>5
  <2> QED
    BY <2>1, <2>2
<1>4. Truncated(p, -d) = -m
  BY <1>3, TruncatedFacts
<1> QED
  BY <1>2, <1>3, <1>4

\* The whole number below, in parts.
Floored(v) == Unit * (v \div Unit)

LEMMA FlooredFacts ==
    ASSUME NEW v \in Int
    PROVE  Floored(v) \in Int /\ \E k \in Int : Floored(v) = k * Unit /\ k * Unit <= v /\ v < (k + 1) * Unit
<1>1. Unit \in Nat \ {0} /\ Unit \in Int
  BY UnitAssumption
<1>2. PICK k \in Int : k = v \div Unit
  BY <1>1
<1>3. k * Unit <= v /\ v < (k + 1) * Unit
  BY <1>1, <1>2
<1>4. Floored(v) = Unit * k /\ Unit * k = k * Unit /\ k * Unit \in Int
  BY <1>1, <1>2 DEF Floored
<1> QED
  BY <1>3, <1>4

LEMMA FlooredGrows ==
    ASSUME NEW v \in Int, NEW w \in Int, v <= w
    PROVE  Floored(v) \in Int /\ Floored(w) \in Int /\ Floored(v) <= Floored(w)
<1>1. PICK k \in Int : Floored(v) = k * Unit /\ k * Unit <= v /\ v < (k + 1) * Unit
  BY FlooredFacts
<1>2. PICK m \in Int : Floored(w) = m * Unit /\ m * Unit <= w /\ w < (m + 1) * Unit
  BY FlooredFacts
<1>3. k * Unit \in Int /\ (m + 1) * Unit \in Int /\ k * Unit < (m + 1) * Unit
  BY <1>1, <1>2, MultiplesOrdered
<1>4. k < m + 1
  BY <1>3, MultiplesOrdered
<1>5. k <= m
  BY <1>4
<1>6. k * Unit <= m * Unit
  BY <1>5, MultiplesOrdered
<1> QED
  BY <1>1, <1>2, <1>6, FlooredFacts

LEMMA FlooredMultiple ==
    ASSUME NEW m \in Int
    PROVE  m * Unit \in Int /\ Floored(m * Unit) = m * Unit
<1>1. (m * Unit) \div Unit = m /\ m * Unit \in Int
  BY QuotientOfMultiple, MultiplesOrdered
<1>2. m * Unit = Unit * m
  BY UnitAssumption
<1> QED
  BY <1>1, <1>2 DEF Floored

\* A quotient of numbers without a remainder is whole.
LEMMA ExactQuotient ==
    ASSUME NEW x \in Int, NEW y \in Int \ {0}, x % Abs(y) = 0
    PROVE  \E m \in Int : /\ x * Unit \in Int /\ Truncated(x, y) = m
                          /\ Truncated(x * Unit, y) = m * Unit /\ m * Unit \in Int
<1>1. PICK d \in Nat \ {0} : d = Abs(y) /\ (y = d \/ y = -d)
  BY DEF Abs
<1>2. PICK m \in Int : x = m * d
  BY <1>1, RemainderFacts
<1>3. PICK u \in Int : u = m * Unit
  BY UnitAssumption
<1>4. x * Unit = u * d
  BY <1>2, <1>3, UnitAssumption
<1>5. /\ Truncated(m * d, d) = m /\ Truncated(m * d, -d) = -m
      /\ u * d \in Int /\ Truncated(u * d, d) = u /\ Truncated(u * d, -d) = -u
  BY TruncatedMultiple
<1>6. CASE y = d
  BY <1>2, <1>3, <1>4, <1>5, <1>6
<1>7. CASE y = -d
  <2>1. (-m) \in Int /\ (-m) * Unit = -u
    BY <1>3, UnitAssumption
  <2> QED
    BY <1>2, <1>3, <1>4, <1>5, <1>7, <2>1
<1> QED
  BY <1>1, <1>6, <1>7

LEMMA QuotientValue ==
    ASSUME NEW x, NEW y, y.is # 0
    PROVE  /\ Quotient(x, y) # Throws
           /\ Quotient(x, y).is = Truncated(x.is * Unit, y.is)
<1>1. CASE IsInt(x) /\ IsInt(y) /\ x.is % Abs(y.is) = 0
  <2>1. Quotient(x, y) = [type |-> "int", is |-> Truncated(x.is * Unit, y.is)]
    BY <1>1 DEF Quotient
  <2> QED
    BY <2>1 DEF Throws
<1>2. CASE ~(IsInt(x) /\ IsInt(y) /\ x.is % Abs(y.is) = 0)
  <2>1. Quotient(x, y) = Real(Truncated(x.is * Unit, y.is))
    BY <1>2 DEF Quotient
  <2> QED
    BY <2>1, NotThrown DEF Real
<1> QED
  BY <1>1, <1>2

LEMMA IntQuotientValue ==
    ASSUME NEW x, NEW y, x.is \in Int, y.is \in Int \ {0}
    PROVE  IntQuotient(x, y).is = Floored(Truncated(x.is * Unit, y.is))
<1>1. PICK v : v = Truncated(x.is * Unit, y.is)
  OBVIOUS
<1>2. IntQuotient(x, y) = RoundedDown(Quotient(x, y))
  BY QuotientValue DEF IntQuotient, FloorOrThrow
<1>3. CASE IsInt(x) /\ IsInt(y) /\ x.is % Abs(y.is) = 0
  <2>1. Quotient(x, y) = [type |-> "int", is |-> v]
    BY <1>1, <1>3 DEF Quotient
  <2>2. RoundedDown(Quotient(x, y)).is = v
    BY <2>1 DEF RoundedDown, IsInt
  <2>3. Floored(v) = v
    BY <1>1, <1>3, ExactQuotient, FlooredMultiple
  <2> QED
    BY <1>1, <1>2, <2>2, <2>3
<1>4. CASE ~(IsInt(x) /\ IsInt(y) /\ x.is % Abs(y.is) = 0)
  <2>1. Quotient(x, y) = [type |-> "real", is |-> v]
    BY <1>1, <1>4 DEF Quotient, Real
  <2>2. CASE v \in {Huge, -Huge}
    <3>1. RoundedDown(Quotient(x, y)).is = v
      BY <2>1, <2>2 DEF RoundedDown, IsInt, IsInfinity
    <3>2. v = 1000 * Unit \/ v = (-1000) * Unit
      BY <2>2, UnitAssumption DEF Huge
    <3>3. Floored(v) = v
      BY <3>2, FlooredMultiple
    <3> QED
      BY <1>1, <1>2, <3>1, <3>3
  <2>3. CASE v \notin {Huge, -Huge}
    <3>1. RoundedDown(Quotient(x, y)) = Real(Floored(v))
      BY <2>1, <2>3 DEF RoundedDown, IsInt, IsInfinity, Floored
    <3> QED
      BY <1>1, <1>2, <3>1 DEF Real
  <2> QED
    BY <2>2, <2>3
<1> QED
  BY <1>3, <1>4

QuotientsAmid(a, x, b, c, y, d) ==
    /\ Truncated(a * Unit, c) \in Int /\ Truncated(a * Unit, d) \in Int
    /\ Truncated(b * Unit, c) \in Int /\ Truncated(b * Unit, d) \in Int
    /\ Truncated(a * Unit, y) \in Int /\ Truncated(b * Unit, y) \in Int
    /\ Truncated(x * Unit, y) \in Int
    /\ Amid(Truncated(a * Unit, c), Truncated(a * Unit, y), Truncated(a * Unit, d))
    /\ Amid(Truncated(b * Unit, c), Truncated(b * Unit, y), Truncated(b * Unit, d))
    /\ Amid(Truncated(a * Unit, y), Truncated(x * Unit, y), Truncated(b * Unit, y))

LEMMA QuotientCorners ==
    ASSUME NEW a \in Int, NEW x \in Int, NEW b \in Int, a <= x, x <= b,
           NEW c \in Int, NEW y \in Int, NEW d \in Int, c <= y, y <= d, c > 0 \/ d < 0
    PROVE  QuotientsAmid(a, x, b, c, y, d)
<1>1. a * Unit \in Int /\ b * Unit \in Int
  BY MultiplesOrdered
<1>2. PICK p \in Int, q \in Int : p = a * Unit /\ q = b * Unit
  BY <1>1
<1>3. /\ Truncated(p, c) \in Int /\ Truncated(p, y) \in Int /\ Truncated(p, d) \in Int
      /\ Amid(Truncated(p, c), Truncated(p, y), Truncated(p, d))
  BY DivisorAmid
<1>4. /\ Truncated(q, c) \in Int /\ Truncated(q, y) \in Int /\ Truncated(q, d) \in Int
      /\ Amid(Truncated(q, c), Truncated(q, y), Truncated(q, d))
  BY DivisorAmid
<1>5. /\ Truncated(x * Unit, y) \in Int
      /\ Amid(Truncated(a * Unit, y), Truncated(x * Unit, y), Truncated(b * Unit, y))
  <2>1. CASE y > 0
    BY <2>1, QuotientAmid DEF Amid
  <2>2. CASE y < 0
    BY <2>2, QuotientAmid DEF Amid
  <2> QED
    BY <2>1, <2>2
<1> QED
  BY <1>2, <1>3, <1>4, <1>5 DEF QuotientsAmid

LEMMA FlooredAmid ==
    ASSUME NEW a \in Int, NEW u \in Int, NEW b \in Int, Amid(a, u, b)
    PROVE  /\ Floored(a) \in Int /\ Floored(u) \in Int /\ Floored(b) \in Int
           /\ Amid(Floored(a), Floored(u), Floored(b))
<1>1. CASE a <= u /\ u <= b
  BY <1>1, FlooredGrows DEF Amid
<1>2. CASE b <= u /\ u <= a
  BY <1>2, FlooredGrows DEF Amid
<1> QED
  BY <1>1, <1>2 DEF Amid

\* The quotients of the ends, with the numbers between them.
LEMMA DividedNumbers ==
    ASSUME NEW i \in Intervals, NEW j \in Intervals, j.lc, j.rc, ~HasZero(j),
           NEW x \in Inside, NEW y \in Inside, Holds(i, x), Holds(j, y)
    PROVE  /\ i.lo.is \in Int /\ x.is \in Int /\ i.hi.is \in Int
           /\ i.lo.is <= x.is /\ x.is <= i.hi.is
           /\ j.lo.is \in Int \ {0} /\ y.is \in Int \ {0} /\ j.hi.is \in Int \ {0}
           /\ j.lo.is <= y.is /\ y.is <= j.hi.is /\ (j.lo.is > 0 \/ j.hi.is < 0)
<1>1. /\ i.lo.is <= x.is /\ x.is <= i.hi.is /\ i.lo.is \in Int /\ i.hi.is \in Int /\ x.is \in Int
      /\ j.lo.is <= y.is /\ y.is <= j.hi.is /\ j.lo.is \in Int /\ j.hi.is \in Int /\ y.is \in Int
  BY IntervalFacts, InsideNumbers DEF Holds, AtMost, Less
<1>2. Zero.is = 0
  BY UnitAssumption DEF Zero, Whole
<1>3. j.lo.is > 0 \/ j.hi.is < 0
  BY <1>1, <1>2 DEF HasZero, Less, Equal
<1> QED
  BY <1>1, <1>3

LEMMA QuotientBox ==
    ASSUME NEW i \in Intervals, NEW j \in Intervals, j.lc, j.rc, ~HasZero(j),
           NEW x \in Inside, NEW y \in Inside, Holds(i, x), Holds(j, y),
           NEW cs, DOMAIN cs = 1..4, Len(cs) = 4, \A k \in 1..4 : cs[k].closed,
           Box(cs) # Throws, NEW a,
           \/ /\ cs[1].at.is = Truncated(i.lo.is * Unit, j.lo.is)
              /\ cs[2].at.is = Truncated(i.lo.is * Unit, j.hi.is)
              /\ cs[3].at.is = Truncated(i.hi.is * Unit, j.lo.is)
              /\ cs[4].at.is = Truncated(i.hi.is * Unit, j.hi.is)
              /\ a.is = Truncated(x.is * Unit, y.is)
           \/ /\ cs[1].at.is = Floored(Truncated(i.lo.is * Unit, j.lo.is))
              /\ cs[2].at.is = Floored(Truncated(i.lo.is * Unit, j.hi.is))
              /\ cs[3].at.is = Floored(Truncated(i.hi.is * Unit, j.lo.is))
              /\ cs[4].at.is = Floored(Truncated(i.hi.is * Unit, j.hi.is))
              /\ a.is = Floored(Truncated(x.is * Unit, y.is))
    PROVE  Near(Box(cs), a) /\ Holds(Box(cs), a)
<1>1. PICK k \in [1..4 -> Int], u \in Int, w \in Int, v \in Int :
        /\ k[1] = Truncated(i.lo.is * Unit, j.lo.is) /\ k[2] = Truncated(i.lo.is * Unit, j.hi.is)
        /\ k[3] = Truncated(i.hi.is * Unit, j.lo.is) /\ k[4] = Truncated(i.hi.is * Unit, j.hi.is)
        /\ w = Truncated(x.is * Unit, y.is)
        /\ Amid(k[1], u, k[2]) /\ Amid(k[3], v, k[4]) /\ Amid(u, w, v)
  <2>1. PICK p \in Int, n \in Int, q \in Int, c \in Int, m \in Int, d \in Int :
          /\ p = i.lo.is /\ n = x.is /\ q = i.hi.is /\ c = j.lo.is /\ m = y.is /\ d = j.hi.is
          /\ p <= n /\ n <= q /\ c <= m /\ m <= d /\ (c > 0 \/ d < 0)
    <3>1. /\ i.lo.is \in Int /\ x.is \in Int /\ i.hi.is \in Int
          /\ i.lo.is <= x.is /\ x.is <= i.hi.is
          /\ j.lo.is \in Int /\ y.is \in Int /\ j.hi.is \in Int
          /\ j.lo.is <= y.is /\ y.is <= j.hi.is /\ (j.lo.is > 0 \/ j.hi.is < 0)
      BY DividedNumbers
    <3> QED
      BY <3>1
  <2>2. /\ Truncated(p * Unit, c) \in Int /\ Truncated(p * Unit, d) \in Int
        /\ Truncated(q * Unit, c) \in Int /\ Truncated(q * Unit, d) \in Int
        /\ Truncated(p * Unit, m) \in Int /\ Truncated(q * Unit, m) \in Int
        /\ Truncated(n * Unit, m) \in Int
        /\ Amid(Truncated(p * Unit, c), Truncated(p * Unit, m), Truncated(p * Unit, d))
        /\ Amid(Truncated(q * Unit, c), Truncated(q * Unit, m), Truncated(q * Unit, d))
        /\ Amid(Truncated(p * Unit, m), Truncated(n * Unit, m), Truncated(q * Unit, m))
    <3>1. QuotientsAmid(p, n, q, c, m, d)
      BY <2>1, QuotientCorners
    <3> QED
      BY <3>1 DEF QuotientsAmid
  <2>3. PICK k1 \in Int, k2 \in Int, k3 \in Int, k4 \in Int :
          /\ k1 = Truncated(p * Unit, c) /\ k2 = Truncated(p * Unit, d)
          /\ k3 = Truncated(q * Unit, c) /\ k4 = Truncated(q * Unit, d)
    BY <2>2
  <2>4. PICK k \in [1..4 -> Int] : k[1] = k1 /\ k[2] = k2 /\ k[3] = k3 /\ k[4] = k4
    <3>1. PICK k : k = [l \in 1..4 |-> IF l = 1 THEN k1 ELSE IF l = 2 THEN k2 ELSE IF l = 3 THEN k3 ELSE k4]
      OBVIOUS
    <3>2. k \in [1..4 -> Int] /\ k[1] = k1 /\ k[2] = k2 /\ k[3] = k3 /\ k[4] = k4
      BY <3>1
    <3> QED
      BY <3>2
  <2> QED
    BY <2>1, <2>2, <2>3, <2>4
<1>2. \A l \in 1..4 : l = 1 \/ l = 2 \/ l = 3 \/ l = 4
  OBVIOUS
<1>3. k[1] \in Int /\ k[2] \in Int /\ k[3] \in Int /\ k[4] \in Int
  BY <1>1
<1>4. CASE cs[1].at.is = k[1] /\ cs[2].at.is = k[2] /\ cs[3].at.is = k[3] /\ cs[4].at.is = k[4] /\ a.is = w
  <2>1. \A l \in 1..4 : cs[l].closed /\ cs[l].at.is \in Int
    BY <1>2, <1>3, <1>4
  <2> QED
    BY <1>1, <1>4, <2>1, BoxHolds
<1>5. CASE /\ cs[1].at.is = Floored(k[1]) /\ cs[2].at.is = Floored(k[2])
           /\ cs[3].at.is = Floored(k[3]) /\ cs[4].at.is = Floored(k[4]) /\ a.is = Floored(w)
  <2>1. Floored(k[1]) \in Int /\ Floored(k[2]) \in Int /\ Amid(Floored(k[1]), Floored(u), Floored(k[2]))
    BY <1>1, <1>3, FlooredAmid
  <2>2. Floored(k[3]) \in Int /\ Floored(k[4]) \in Int /\ Amid(Floored(k[3]), Floored(v), Floored(k[4]))
    BY <1>1, <1>3, FlooredAmid
  <2>3. Floored(u) \in Int /\ Floored(w) \in Int /\ Floored(v) \in Int /\ Amid(Floored(u), Floored(w), Floored(v))
    BY <1>1, FlooredAmid
  <2>4. \A l \in 1..4 : cs[l].closed /\ cs[l].at.is \in Int
    BY <1>2, <1>5, <2>1, <2>2
  <2> QED
    BY <1>5, <2>1, <2>2, <2>3, <2>4, BoxHolds
<1> QED
  BY <1>1, <1>4, <1>5

LEMMA QuotientHolds ==
    ASSUME NEW i \in Intervals, NEW j \in Intervals, i.lc, i.rc, j.lc, j.rc, ~HasZero(j),
           NEW x \in Inside, NEW y \in Inside, Holds(i, x), Holds(j, y), NEW r, r # Throws, NEW a,
           \/ r = Divided(Quotient, i, j) /\ a = Quotient(x, y)
           \/ r = Divided(IntQuotient, i, j) /\ a = IntQuotient(x, y)
    PROVE  Near(r, a) /\ Holds(r, a)
<1>1. /\ i.lo.is \in Int /\ x.is \in Int /\ i.hi.is \in Int
      /\ i.lo.is <= x.is /\ x.is <= i.hi.is
      /\ j.lo.is \in Int \ {0} /\ y.is \in Int \ {0} /\ j.hi.is \in Int \ {0}
  BY DividedNumbers
<1>2. \A k, l : l.is # 0 => Quotient(k, l).is = Truncated(k.is * Unit, l.is)
  BY QuotientValue
<1>3. \A k, l : k.is \in Int /\ l.is \in Int \ {0} =>
                 IntQuotient(k, l).is = Floored(Truncated(k.is * Unit, l.is))
  BY IntQuotientValue
<1>4. CASE i.lo.is = 0 /\ i.hi.is = 0
  <2>1. x.is = 0 /\ x.is * Unit = 0
    BY <1>1, <1>4, UnitAssumption
  <2>2. Truncated(x.is * Unit, y.is) = 0
    <3>1. PICK k \in Int : k = Abs(0) \div Abs(y.is)
      BY <1>1 DEF Abs
    <3>2. PICK n \in Int : n = Sign(y.is) /\ Sign(0) = 0
      BY DEF Sign
    <3>3. Truncated(0, y.is) = 0 * n * k
      BY <3>1, <3>2 DEF Truncated
    <3> QED
      BY <2>1, <3>3
  <2>3. Floored(0) = 0
    <3>1. 0 * Unit = 0
      BY UnitAssumption
    <3>2. Floored(0 * Unit) = 0 * Unit
      BY FlooredMultiple
    <3> QED
      BY <3>1, <3>2
  <2>4. Quotient(x, y).is = 0 /\ IntQuotient(x, y).is = 0
    BY <1>1, <1>2, <1>3, <2>2, <2>3
  <2>5. r = Closed(Zero, Zero) /\ Zero.is = 0
    <3>1. r = Closed(Zero, Zero)
      BY <1>4 DEF Divided
    <3> QED
      BY <3>1, UnitAssumption DEF Zero, Whole
  <2>6. r.lo.is = 0 /\ r.hi.is = 0 /\ r.lc /\ r.rc
    BY <2>5 DEF Closed, Between
  <2>7. a.is = 0
    BY <2>4
  <2>8. Holds(r, a)
    BY <2>6, <2>7 DEF Holds, IsEmpty, AtMost, Less, Equal
  <2> QED
    BY <2>6, <2>7, <2>8 DEF Near
<1>5. CASE ~(i.lo.is = 0 /\ i.hi.is = 0) /\ r = Divided(Quotient, i, j) /\ a = Quotient(x, y)
  <2>1. PICK cs : cs = Corners(Quotient, i, j)
    OBVIOUS
  <2>2. r = Box(cs) /\ Box(cs) # Throws
    BY <1>5, <2>1 DEF Divided
  <2>3. cs = << [at |-> Quotient(i.lo, j.lo), closed |-> i.lc /\ j.lc],
                [at |-> Quotient(i.lo, j.hi), closed |-> i.lc /\ j.rc],
                [at |-> Quotient(i.hi, j.lo), closed |-> i.rc /\ j.lc],
                [at |-> Quotient(i.hi, j.hi), closed |-> i.rc /\ j.rc] >>
    BY <2>1 DEF Corners
  <2>4. DOMAIN cs = 1..4 /\ Len(cs) = 4
    BY <2>3
  <2>5. \A k \in 1..4 : cs[k].closed
    <3>1. cs[1].closed /\ cs[2].closed /\ cs[3].closed /\ cs[4].closed
      BY <2>3
    <3>2. \A k \in 1..4 : k = 1 \/ k = 2 \/ k = 3 \/ k = 4
      OBVIOUS
    <3> QED
      BY <3>1, <3>2
  <2>6. /\ cs[1].at.is = Truncated(i.lo.is * Unit, j.lo.is)
        /\ cs[2].at.is = Truncated(i.lo.is * Unit, j.hi.is)
        /\ cs[3].at.is = Truncated(i.hi.is * Unit, j.lo.is)
        /\ cs[4].at.is = Truncated(i.hi.is * Unit, j.hi.is)
        /\ a.is = Truncated(x.is * Unit, y.is)
    BY <1>1, <1>2, <1>5, <2>3
  <2> QED
    BY <2>2, <2>4, <2>5, <2>6, QuotientBox
<1>6. CASE ~(i.lo.is = 0 /\ i.hi.is = 0) /\ r = Divided(IntQuotient, i, j) /\ a = IntQuotient(x, y)
  <2>1. PICK cs : cs = Corners(IntQuotient, i, j)
    OBVIOUS
  <2>2. r = Box(cs) /\ Box(cs) # Throws
    BY <1>6, <2>1 DEF Divided
  <2>3. cs = << [at |-> IntQuotient(i.lo, j.lo), closed |-> i.lc /\ j.lc],
                [at |-> IntQuotient(i.lo, j.hi), closed |-> i.lc /\ j.rc],
                [at |-> IntQuotient(i.hi, j.lo), closed |-> i.rc /\ j.lc],
                [at |-> IntQuotient(i.hi, j.hi), closed |-> i.rc /\ j.rc] >>
    BY <2>1 DEF Corners
  <2>4. DOMAIN cs = 1..4 /\ Len(cs) = 4
    BY <2>3
  <2>5. \A k \in 1..4 : cs[k].closed
    <3>1. cs[1].closed /\ cs[2].closed /\ cs[3].closed /\ cs[4].closed
      BY <2>3
    <3>2. \A k \in 1..4 : k = 1 \/ k = 2 \/ k = 3 \/ k = 4
      OBVIOUS
    <3> QED
      BY <3>1, <3>2
  <2>6. /\ cs[1].at.is = Floored(Truncated(i.lo.is * Unit, j.lo.is))
        /\ cs[2].at.is = Floored(Truncated(i.lo.is * Unit, j.hi.is))
        /\ cs[3].at.is = Floored(Truncated(i.hi.is * Unit, j.lo.is))
        /\ cs[4].at.is = Floored(Truncated(i.hi.is * Unit, j.hi.is))
        /\ a.is = Floored(Truncated(x.is * Unit, y.is))
    BY <1>1, <1>3, <1>6, <2>3
  <2> QED
    BY <2>2, <2>4, <2>5, <2>6, QuotientBox
<1> QED
  BY <1>4, <1>5, <1>6

(***************************************************************************)
(* Remainders.                                                             *)
(***************************************************************************)
LEMMA SpanHolds ==
    ASSUME NEW r, NEW a, NEW lo \in Int, NEW hi \in Int, NEW v \in Int,
           r.lo.is = lo, r.hi.is = hi, a.is = v, lo <= v, v <= hi
    PROVE  Near(r, a) /\ (r.lc /\ r.rc => Holds(r, a))
<1>1. Near(r, a)
  BY DEF Near
<1>2. r.lc /\ r.rc => Holds(r, a)
  BY DEF Holds, IsEmpty, AtMost, Less, Equal
<1> QED
  BY <1>1, <1>2

LEMMA WholeNumbers ==
    ASSUME NEW x \in Inside, IsInt(x)
    PROVE  \E m \in Int : x.is = m * Unit
<1>1. x.is \in Int /\ x = Whole(x.is \div Unit) /\ Unit \in Nat \ {0}
  BY EndsAssumption, UnitAssumption
<1>2. x.is = (x.is \div Unit) * Unit
  BY <1>1 DEF Whole
<1>3. x.is \div Unit \in Int
  BY <1>1
<1> QED
  BY <1>2, <1>3

\* A remainder is not negative, not more than what is divided and a whole
\* number less than what it is divided by.
LEMMA RemainderValue ==
    ASSUME NEW x \in Inside, NEW y \in Inside, IsInt(x), IsInt(y), x.is >= 0, y.is # 0
    PROVE  /\ Remainder(x, y).is \in Int
           /\ 0 <= Remainder(x, y).is /\ Remainder(x, y).is <= x.is
           /\ Abs(y.is) \in Int /\ Remainder(x, y).is <= Abs(y.is) - Unit
<1>1. PICK m \in Int, n \in Int : x.is = m * Unit /\ y.is = n * Unit
  BY WholeNumbers
<1>2. PICK p \in Nat, d \in Nat \ {0} : p = x.is /\ d = Abs(y.is) /\ (y.is = d \/ y.is = -d)
  <2>1. x.is \in Int /\ y.is \in Int
    BY InsideNumbers
  <2> QED
    BY <2>1 DEF Abs
<1>3. PICK k \in Nat : k = p \div d /\ k * d <= p /\ p < k * d + d
  BY DivisionFacts
<1>4. y.is * Truncated(x.is, y.is) = k * d
  <2>1. p >= 0 /\ p \in Int
    OBVIOUS
  <2>2. Truncated(p, d) = k /\ Truncated(p, -d) = -k
    <3>1. Truncated(p, d) = p \div d
      BY <2>1, TruncatedFacts
    <3>2. Truncated(p, -d) = -Truncated(p, d)
      BY <2>1, TruncatedFacts
    <3> QED
      BY <1>3, <3>1, <3>2
  <2>3. d * k = k * d /\ (-d) * (-k) = k * d
    OBVIOUS
  <2> QED
    BY <1>2, <2>2, <2>3
<1>5. Remainder(x, y).is = p - k * d
  <2>1. Remainder(x, y) = [x EXCEPT !.is = @ - y.is * Truncated(@, y.is)]
    BY DEF Remainder
  <2>2. x \in [type : {"int", "real"}, is : Int]
    BY EndsAssumption
  <2>3. Remainder(x, y).is = x.is - y.is * Truncated(x.is, y.is)
    BY <2>1, <2>2
  <2> QED
    BY <1>2, <1>4, <2>3
<1>6. PICK v \in Int : v = p - k * d /\ 0 <= v /\ v < d /\ v <= p
  <2>1. PICK l \in Nat : l = k * d
    OBVIOUS
  <2>2. l <= p /\ p < l + d
    BY <1>3, <2>1
  <2> QED
    BY <2>1, <2>2
<1>7. PICK c \in Int : d = c * Unit
  <2>1. (-n) * Unit = -(n * Unit)
    BY UnitAssumption
  <2>2. y.is = d \/ -y.is = d
    BY <1>2
  <2> QED
    BY <1>1, <2>1, <2>2
<1>8. v = (m - k * c) * Unit
  <2>1. k * (c * Unit) = (k * c) * Unit /\ m * Unit - (k * c) * Unit = (m - k * c) * Unit
    BY UnitAssumption
  <2> QED
    BY <1>1, <1>2, <1>6, <1>7, <2>1
<1>9. PICK e \in Int : e = m - k * c
  OBVIOUS
<1>10. e < c
  BY <1>6, <1>7, <1>8, <1>9, MultiplesOrdered
<1>11. e <= c - 1
  BY <1>10
<1>12. e * Unit <= (c - 1) * Unit
  BY <1>11, MultiplesOrdered
<1>13. (c - 1) * Unit = c * Unit - Unit
  BY UnitAssumption
<1>14. v <= d - Unit
  BY <1>7, <1>8, <1>9, <1>12, <1>13
<1> QED
  BY <1>2, <1>5, <1>6, <1>14

LEMMA ZeroAndOne == Zero.is = 0 /\ One.is = Unit /\ Unit \in Nat \ {0} /\ Unit \in Int
  BY UnitAssumption DEF Zero, One, Whole

LEMMA ModHolds ==
    ASSUME NEW i \in Intervals, NEW j \in Intervals, i.lc, i.rc, j.lc, j.rc, ~HasZero(j), AtMost(Zero, i.lo),
           NEW x \in Inside, NEW y \in Inside, Holds(i, x), Holds(j, y),
           NEW r, r = ModInterval(i, j), NEW a, a = Remainder(x, y), a # Throws
    PROVE  Near(r, a) /\ Holds(r, a)
<1>1. /\ i.lo.is \in Int /\ x.is \in Int /\ i.hi.is \in Int
      /\ i.lo.is <= x.is /\ x.is <= i.hi.is
      /\ j.lo.is \in Int /\ y.is \in Int \ {0} /\ j.hi.is \in Int
      /\ j.lo.is <= y.is /\ y.is <= j.hi.is /\ (j.lo.is > 0 \/ j.hi.is < 0)
  BY DividedNumbers
<1>2. IsInt(x) /\ IsInt(y)
  BY DEF Remainder
<1>3. x.is >= 0
  BY <1>1, ZeroAndOne DEF AtMost
<1>4. PICK v \in Int, d \in Int : v = a.is /\ d = Abs(y.is) /\ 0 <= v /\ v <= x.is /\ v <= d - Unit
  BY <1>1, <1>2, <1>3, RemainderValue
<1>5. PICK most : most = Minus(Greatest({AbsOf(j.lo), AbsOf(j.hi)}), One)
  OBVIOUS
<1>6. most.is \in Int /\ d - Unit <= most.is
  <2>1. j.lo \in [type : {"int", "real"}, is : Int] /\ j.hi \in [type : {"int", "real"}, is : Int]
    BY IntervalFacts, EndsAssumption
  <2>2. PICK b \in Int, c \in Int : b = AbsOf(j.lo).is /\ c = AbsOf(j.hi).is /\ b = Abs(j.lo.is) /\ c = Abs(j.hi.is)
    BY <1>1, <2>1 DEF AbsOf, Abs
  <2>3. Greatest({AbsOf(j.lo), AbsOf(j.hi)}).is = IF b <= c THEN c ELSE b
    BY <2>2, GreatestOfTwo
  <2>4. most.is = (IF b <= c THEN c ELSE b) - Unit
    BY <1>5, <2>3, ZeroAndOne DEF Minus, Both
  <2>5. d <= b \/ d <= c
    BY <1>1, <1>4, <2>2 DEF Abs
  <2> QED
    BY <2>2, <2>4, <2>5, ZeroAndOne
<1>7. r = IF Less(i.hi, most) THEN Between(Zero, i.hi, TRUE, i.rc) ELSE Closed(Zero, most)
  BY <1>5 DEF ModInterval
<1>8. CASE Less(i.hi, most)
  <2>1. r = Between(Zero, i.hi, TRUE, i.rc)
    BY <1>7, <1>8
  <2>2. r.lo.is = 0 /\ r.hi.is = i.hi.is /\ r.lc /\ (r.rc <=> i.rc)
    BY <2>1, ZeroAndOne DEF Between
  <2>3. v <= i.hi.is
    BY <1>1, <1>4
  <2> QED
    BY <1>1, <1>4, <2>2, <2>3, SpanHolds
<1>9. CASE ~Less(i.hi, most)
  <2>1. r.lo.is = 0 /\ r.hi.is = most.is /\ r.lc /\ r.rc
    BY <1>7, <1>9, ZeroAndOne DEF Between, Closed
  <2>2. v <= most.is
    BY <1>4, <1>6, ZeroAndOne
  <2> QED
    BY <1>4, <1>6, <2>1, <2>2, SpanHolds
<1> QED
  BY <1>8, <1>9

LEMMA ModNumberHolds ==
    ASSUME NEW i \in Intervals, AtMost(Zero, i.lo), NEW x \in Inside, NEW y \in Inside, Holds(i, x),
           NEW r, r = ModNumber(i, y), r # Throws, NEW a, a = Remainder(x, y), a # Throws
    PROVE  Near(r, a) /\ (i.lc /\ i.rc => Holds(r, a))
<1>1. i.lo.is <= x.is /\ x.is <= i.hi.is /\ i.lo.is \in Int /\ i.hi.is \in Int /\ x.is \in Int /\ y.is \in Int
  BY IntervalFacts, InsideNumbers DEF Holds, AtMost, Less
<1>2. IsInt(x) /\ IsInt(y)
  BY DEF Remainder
<1>3. x.is >= 0 /\ y.is > 0
  <2>1. Less(Zero, y)
    BY DEF ModNumber
  <2> QED
    BY <1>1, <2>1, ZeroAndOne DEF AtMost, Less
<1>4. PICK v \in Int : v = a.is /\ 0 <= v /\ v <= x.is /\ v <= y.is - Unit
  BY <1>1, <1>2, <1>3, RemainderValue DEF Abs
<1>5. PICK most : most = Minus(y, One)
  OBVIOUS
<1>6. most.is = y.is - Unit /\ most.is \in Int
  BY <1>1, <1>5, ZeroAndOne DEF Minus, Both
<1>7. r = IF Less(i.hi, most) THEN Between(Zero, i.hi, TRUE, i.rc)
          ELSE Between(Zero, most, TRUE, Less(most, i.lo) => i.lc)
  BY <1>5 DEF ModNumber
<1>8. CASE Less(i.hi, most)
  <2>1. r.lo.is = 0 /\ r.hi.is = i.hi.is /\ r.lc /\ (r.rc <=> i.rc)
    BY <1>7, <1>8, ZeroAndOne DEF Between
  <2> QED
    BY <1>1, <1>4, <2>1, SpanHolds
<1>9. CASE ~Less(i.hi, most)
  <2>1. r = Between(Zero, most, TRUE, Less(most, i.lo) => i.lc)
    BY <1>7, <1>9
  <2>2. r.lo = Zero /\ r.hi = most /\ r.lc = TRUE /\ r.rc = (Less(most, i.lo) => i.lc)
    BY <2>1 DEF Between
  <2>3. i.lc => r.lc /\ r.rc
    BY <2>2
  <2>4. r.lo.is = 0 /\ r.hi.is = most.is
    BY <2>2, ZeroAndOne
  <2> QED
    BY <1>4, <1>6, <2>3, <2>4, SpanHolds
<1> QED
  BY <1>8, <1>9

(***************************************************************************)
(* Products and quotients with a number, also in place.                    *)
(***************************************************************************)
HeldBetween(i, x) ==
    i.lo.is <= x.is /\ x.is <= i.hi.is /\ i.lo.is \in Int /\ i.hi.is \in Int /\ x.is \in Int

LEMMA HeldIsBetween ==
    ASSUME NEW i \in Intervals, NEW x \in Inside, Holds(i, x)
    PROVE  HeldBetween(i, x)
  BY IntervalFacts, InsideNumbers DEF Holds, AtMost, Less, HeldBetween

\* Ends that move with a number or change places with it.
LEMMA KeptHolds ==
    ASSUME NEW i \in Intervals, NEW r, NEW a,
           NEW p \in Int, NEW v \in Int, NEW q \in Int, a.is = v,
           \/ r.lo.is = p /\ r.hi.is = q /\ (r.lc <=> i.lc) /\ (r.rc <=> i.rc) /\ p <= v /\ v <= q
           \/ r.lo.is = q /\ r.hi.is = p /\ (r.lc <=> i.rc) /\ (r.rc <=> i.lc) /\ q <= v /\ v <= p
    PROVE  Near(r, a) /\ (i.lc /\ i.rc => Holds(r, a))
<1>1. CASE r.lo.is = p /\ r.hi.is = q /\ (r.lc <=> i.lc) /\ (r.rc <=> i.rc) /\ p <= v /\ v <= q
  BY <1>1, SpanHolds
<1>2. CASE r.lo.is = q /\ r.hi.is = p /\ (r.lc <=> i.rc) /\ (r.rc <=> i.lc) /\ q <= v /\ v <= p
  BY <1>2, SpanHolds
<1> QED
  BY <1>1, <1>2

\* Products with a number, as they are made and in place.
LEMMA ScaledHolds ==
    ASSUME NEW i \in Intervals, NEW x \in Inside, NEW y \in Inside, Holds(i, x), NEW r, NEW a, a = Times(x, y),
           \/ y.is >= 0 /\ r.lo.is = Times(i.lo, y).is /\ r.hi.is = Times(i.hi, y).is
                        /\ (r.lc <=> i.lc) /\ (r.rc <=> i.rc)
           \/ y.is < 0 /\ r.lo.is = Times(i.hi, y).is /\ r.hi.is = Times(i.lo, y).is
                       /\ (r.lc <=> i.rc) /\ (r.rc <=> i.lc)
    PROVE  Near(r, a) /\ (i.lc /\ i.rc => Holds(r, a))
<1>1. HeldBetween(i, x) /\ y.is \in Int
  BY HeldIsBetween, InsideNumbers
<1>2. \A k, l : Times(k, l).is = Truncated(k.is * l.is, Unit)
  BY DEF Times, Both
<1>3. PICK p \in Int, v \in Int, q \in Int :
        /\ p = Times(i.lo, y).is /\ v = Times(x, y).is /\ q = Times(i.hi, y).is
        /\ y.is >= 0 => p <= v /\ v <= q
        /\ y.is < 0 => q <= v /\ v <= p
  <2>1. /\ Truncated(i.lo.is * y.is, Unit) \in Int /\ Truncated(x.is * y.is, Unit) \in Int
        /\ Truncated(i.hi.is * y.is, Unit) \in Int
        /\ y.is >= 0 => Truncated(i.lo.is * y.is, Unit) <= Truncated(x.is * y.is, Unit)
                     /\ Truncated(x.is * y.is, Unit) <= Truncated(i.hi.is * y.is, Unit)
        /\ y.is < 0 => Truncated(i.hi.is * y.is, Unit) <= Truncated(x.is * y.is, Unit)
                    /\ Truncated(x.is * y.is, Unit) <= Truncated(i.lo.is * y.is, Unit)
    BY <1>1, TimesAmid DEF HeldBetween
  <2> QED
    BY <1>2, <2>1
<1> QED
  BY <1>1, <1>3, KeptHolds

\* Quotients by a number.
LEMMA QuotientsByNumber ==
    ASSUME NEW i \in Intervals, NEW x \in Inside, NEW y \in Inside, Holds(i, x), y.is # 0
    PROVE  \E p, v, q \in Int :
             /\ p = Quotient(i.lo, y).is /\ v = Quotient(x, y).is /\ q = Quotient(i.hi, y).is
             /\ Floored(p) = IntQuotient(i.lo, y).is /\ Floored(v) = IntQuotient(x, y).is
             /\ Floored(q) = IntQuotient(i.hi, y).is
             /\ y.is > 0 => p <= v /\ v <= q
             /\ y.is < 0 => q <= v /\ v <= p
<1>1. HeldBetween(i, x) /\ y.is \in Int \ {0}
  BY HeldIsBetween, InsideNumbers
<1>2. \A k : Quotient(k, y).is = Truncated(k.is * Unit, y.is)
  BY QuotientValue
<1>3. \A k : k.is \in Int => IntQuotient(k, y).is = Floored(Truncated(k.is * Unit, y.is))
  BY <1>1, IntQuotientValue
<1>4. /\ Truncated(i.lo.is * Unit, y.is) \in Int /\ Truncated(x.is * Unit, y.is) \in Int
      /\ Truncated(i.hi.is * Unit, y.is) \in Int
      /\ y.is > 0 => Truncated(i.lo.is * Unit, y.is) <= Truncated(x.is * Unit, y.is)
                  /\ Truncated(x.is * Unit, y.is) <= Truncated(i.hi.is * Unit, y.is)
      /\ y.is < 0 => Truncated(i.hi.is * Unit, y.is) <= Truncated(x.is * Unit, y.is)
                  /\ Truncated(x.is * Unit, y.is) <= Truncated(i.lo.is * Unit, y.is)
  BY <1>1, QuotientAmid DEF HeldBetween
<1> QED
  BY <1>1, <1>2, <1>3, <1>4 DEF HeldBetween

LEMMA DividedByHolds ==
    ASSUME NEW i \in Intervals, NEW x \in Inside, NEW y \in Inside, Holds(i, x), NEW r, r # Throws, NEW a,
           \/ r = DividedBy(Quotient, i, y) /\ a = Quotient(x, y)
           \/ r = DividedBy(IntQuotient, i, y) /\ a = IntQuotient(x, y)
    PROVE  Near(r, a) /\ (i.lc /\ i.rc => Holds(r, a))
<1>1. y.is # 0 /\ y.is \in Int
  BY InsideNumbers DEF DividedBy
<1>2. PICK p \in Int, v \in Int, q \in Int :
        /\ p = Quotient(i.lo, y).is /\ v = Quotient(x, y).is /\ q = Quotient(i.hi, y).is
        /\ Floored(p) = IntQuotient(i.lo, y).is /\ Floored(v) = IntQuotient(x, y).is
        /\ Floored(q) = IntQuotient(i.hi, y).is
        /\ y.is > 0 => p <= v /\ v <= q
        /\ y.is < 0 => q <= v /\ v <= p
  BY <1>1, QuotientsByNumber
<1>3. CASE r = DividedBy(Quotient, i, y) /\ a = Quotient(x, y)
  <2>1. r = IF y.is > 0 THEN Between(Quotient(i.lo, y), Quotient(i.hi, y), i.lc, i.rc)
            ELSE Between(Quotient(i.hi, y), Quotient(i.lo, y), i.rc, i.lc)
    BY <1>1, <1>3, ZeroAndOne DEF DividedBy, Shifted, Less
  <2>2. CASE y.is > 0
    <3>1. r.lo.is = p /\ r.hi.is = q /\ (r.lc <=> i.lc) /\ (r.rc <=> i.rc)
      BY <1>2, <2>1, <2>2 DEF Between
    <3> QED
      BY <1>2, <1>3, <2>2, <3>1, KeptHolds
  <2>3. CASE y.is < 0
    <3>1. r.lo.is = q /\ r.hi.is = p /\ (r.lc <=> i.rc) /\ (r.rc <=> i.lc)
      BY <1>1, <1>2, <2>1, <2>3 DEF Between
    <3> QED
      BY <1>2, <1>3, <2>3, <3>1, KeptHolds
  <2> QED
    BY <1>1, <2>2, <2>3
<1>4. CASE r = DividedBy(IntQuotient, i, y) /\ a = IntQuotient(x, y)
  <2>1. r = IF y.is > 0 THEN Between(IntQuotient(i.lo, y), IntQuotient(i.hi, y), i.lc, i.rc)
            ELSE Between(IntQuotient(i.hi, y), IntQuotient(i.lo, y), i.rc, i.lc)
    BY <1>1, <1>4, ZeroAndOne DEF DividedBy, Shifted, Less
  <2>2. Floored(p) \in Int /\ Floored(v) \in Int /\ Floored(q) \in Int
    BY FlooredGrows
  <2>3. CASE y.is > 0
    <3>1. r.lo.is = Floored(p) /\ r.hi.is = Floored(q) /\ (r.lc <=> i.lc) /\ (r.rc <=> i.rc)
      BY <1>2, <2>1, <2>3 DEF Between
    <3>2. Floored(p) <= Floored(v) /\ Floored(v) <= Floored(q)
      BY <1>2, <2>3, FlooredGrows
    <3> QED
      BY <1>2, <1>4, <2>2, <3>1, <3>2, KeptHolds
  <2>4. CASE y.is < 0
    <3>1. r.lo.is = Floored(q) /\ r.hi.is = Floored(p) /\ (r.lc <=> i.rc) /\ (r.rc <=> i.lc)
      BY <1>1, <1>2, <2>1, <2>4 DEF Between
    <3>2. Floored(q) <= Floored(v) /\ Floored(v) <= Floored(p)
      BY <1>2, <2>4, FlooredGrows
    <3> QED
      BY <1>2, <1>4, <2>2, <3>1, <3>2, KeptHolds
  <2> QED
    BY <1>1, <2>3, <2>4
<1> QED
  BY <1>3, <1>4

\* The operations in place, by an integer.
LEMMA ChangedHolds ==
    ASSUME NEW i \in Intervals, NEW x \in Inside, NEW y \in Inside, Holds(i, x), IsInt(y), NEW r, NEW a,
           \/ r = Changed("+=", i, y) /\ a = Plus(x, y)
           \/ r = Changed("-=", i, y) /\ a = Minus(x, y)
           \/ r = Changed("*=", i, y) /\ a = Times(x, y)
    PROVE  Near(r, a) /\ (i.lc /\ i.rc => Holds(r, a))
<1>1. i.lo \in [type : {"int", "real"}, is : Int] /\ i.hi \in [type : {"int", "real"}, is : Int]
  BY IntervalFacts, EndsAssumption
<1>2. \A e \in [type : {"int", "real"}, is : Int] : \A v : Updated(e, y, v).is = v.is
  BY DEF Updated
<1>3. HeldBetween(i, x) /\ y.is \in Int
  BY HeldIsBetween, InsideNumbers
<1>4. \A k, l : Plus(k, l).is = k.is + l.is /\ Minus(k, l).is = k.is - l.is
  BY DEF Plus, Minus, Both
<1>5. CASE r = Changed("+=", i, y) /\ a = Plus(x, y)
  <2>1. r = Between(Updated(i.lo, y, Plus(i.lo, y)), Updated(i.hi, y, Plus(i.hi, y)), i.lc, i.rc)
    BY <1>5 DEF Changed
  <2>2. /\ r.lo.is = Plus(i.lo, y).is /\ r.hi.is = Plus(i.hi, y).is
        /\ (r.lc <=> i.lc) /\ (r.rc <=> i.rc)
    BY <1>1, <1>2, <2>1 DEF Between
  <2>3. PICK p \in Int, v \in Int, q \in Int :
          p = i.lo.is + y.is /\ v = x.is + y.is /\ q = i.hi.is + y.is /\ p <= v /\ v <= q
    BY <1>3 DEF HeldBetween
  <2>4. r.lo.is = p /\ r.hi.is = q /\ a.is = v
    BY <1>4, <1>5, <2>2, <2>3
  <2> QED
    BY <2>2, <2>3, <2>4, KeptHolds
<1>6. CASE r = Changed("-=", i, y) /\ a = Minus(x, y)
  <2>1. r = Between(Updated(i.lo, y, Minus(i.lo, y)), Updated(i.hi, y, Minus(i.hi, y)), i.lc, i.rc)
    BY <1>6 DEF Changed
  <2>2. /\ r.lo.is = Minus(i.lo, y).is /\ r.hi.is = Minus(i.hi, y).is
        /\ (r.lc <=> i.lc) /\ (r.rc <=> i.rc)
    BY <1>1, <1>2, <2>1 DEF Between
  <2>3. PICK p \in Int, v \in Int, q \in Int :
          p = i.lo.is - y.is /\ v = x.is - y.is /\ q = i.hi.is - y.is /\ p <= v /\ v <= q
    BY <1>3 DEF HeldBetween
  <2>4. r.lo.is = p /\ r.hi.is = q /\ a.is = v
    BY <1>4, <1>6, <2>2, <2>3
  <2> QED
    BY <2>2, <2>3, <2>4, KeptHolds
<1>7. CASE r = Changed("*=", i, y) /\ a = Times(x, y)
  <2>1. CASE y.is >= 0
    <3>1. AtMost(Zero, y) /\ ~Less(y, Zero)
      BY <1>3, <2>1, ZeroAndOne DEF AtMost, Less
    <3>2. r = Between(Updated(i.lo, y, Times(i.lo, y)), Updated(i.hi, y, Times(i.hi, y)), i.lc, i.rc)
      BY <1>7, <3>1 DEF Changed
    <3>3. /\ r.lo.is = Times(i.lo, y).is /\ r.hi.is = Times(i.hi, y).is
          /\ (r.lc <=> i.lc) /\ (r.rc <=> i.rc)
      BY <1>1, <1>2, <3>2 DEF Between
    <3> QED
      BY <1>7, <2>1, <3>3, ScaledHolds
  <2>2. CASE y.is < 0
    <3>1. Less(y, Zero) /\ ~AtMost(Zero, y)
      BY <1>3, <2>2, ZeroAndOne DEF AtMost, Less
    <3>2. r = Between(Times(i.hi, y), Times(i.lo, y), i.rc, i.lc)
      BY <1>7, <3>1 DEF Changed
    <3>3. /\ r.lo.is = Times(i.hi, y).is /\ r.hi.is = Times(i.lo, y).is
          /\ (r.lc <=> i.rc) /\ (r.rc <=> i.lc)
      BY <3>2 DEF Between
    <3> QED
      BY <1>7, <2>2, <3>3, ScaledHolds
  <2> QED
    BY <1>3, <2>1, <2>2
<1> QED
  BY <1>5, <1>6, <1>7

\* Division in place, of ends that are integers without a remainder.
LEMMA CutHolds ==
    ASSUME NEW i \in Intervals, NEW x \in Inside, NEW y \in Inside, Holds(i, x), IsInt(y), y.is # 0,
           \A end \in {i.lo, i.hi} : IsInt(end) => end.is % Abs(y.is) = 0,
           NEW r, r = Changed("/=", i, y), NEW a, a = Quotient(x, y)
    PROVE  Near(r, a) /\ (i.lc /\ i.rc => Holds(r, a))
<1>1. i.lo \in [type : {"int", "real"}, is : Int] /\ i.hi \in [type : {"int", "real"}, is : Int]
  BY IntervalFacts, EndsAssumption
<1>2. HeldBetween(i, x) /\ y.is \in Int \ {0}
  BY HeldIsBetween, InsideNumbers
<1>3. PICK p \in Int, v \in Int, q \in Int :
        /\ p = Quotient(i.lo, y).is /\ v = Quotient(x, y).is /\ q = Quotient(i.hi, y).is
        /\ y.is > 0 => p <= v /\ v <= q
        /\ y.is < 0 => q <= v /\ v <= p
  BY QuotientsByNumber
<1> DEFINE cut(k) == IF IsInt(k) /\ IsInt(y) THEN Whole(Truncated(k.is, y.is)) ELSE Quotient(k, y)
<1>4. \A end \in {i.lo, i.hi} : cut(end).is = Quotient(end, y).is
  <2> SUFFICES ASSUME NEW end \in {i.lo, i.hi} PROVE cut(end).is = Quotient(end, y).is
    OBVIOUS
  <2>1. CASE IsInt(end)
    <3>1. end.is % Abs(y.is) = 0 /\ end.is \in Int
      BY <1>1, <2>1
    <3>2. PICK m \in Int : Truncated(end.is, y.is) = m /\ Truncated(end.is * Unit, y.is) = m * Unit
      BY <1>2, <3>1, ExactQuotient
    <3>3. cut(end).is = m * Unit
      BY <2>1, <3>2 DEF Whole
    <3>4. Quotient(end, y).is = m * Unit
      BY <3>2, QuotientValue
    <3> QED
      BY <3>3, <3>4
  <2>2. CASE ~IsInt(end)
    BY <2>2
  <2> QED
    BY <2>1, <2>2
<1>5. \A e \in [type : {"int", "real"}, is : Int] : \A z : Updated(e, y, z).is = z.is
  BY DEF Updated
<1>6. CASE y.is > 0
  <2>1. Less(Zero, y) /\ ~Less(y, Zero) /\ y.is # 0
    BY <1>2, <1>6, ZeroAndOne DEF Less
  <2>2. r = Between(Updated(i.lo, y, cut(i.lo)), Updated(i.hi, y, cut(i.hi)), i.lc, i.rc)
    BY <2>1 DEF Changed
  <2> HIDE DEF cut
  <2>3. r.lo.is = p /\ r.hi.is = q /\ (r.lc <=> i.lc) /\ (r.rc <=> i.rc)
    BY <1>1, <1>3, <1>4, <1>5, <2>2 DEF Between
  <2> QED
    BY <1>3, <1>6, <2>3, KeptHolds
<1>7. CASE y.is < 0
  <2>1. Less(y, Zero) /\ ~Less(Zero, y)
    BY <1>2, <1>7, ZeroAndOne DEF Less
  <2>2. r = Between(Quotient(i.hi, y), Quotient(i.lo, y), i.rc, i.lc)
    BY <1>7, <2>1 DEF Changed
  <2>3. r.lo.is = q /\ r.hi.is = p /\ (r.lc <=> i.rc) /\ (r.rc <=> i.lc)
    BY <1>3, <2>2 DEF Between
  <2> QED
    BY <1>3, <1>7, <2>3, KeptHolds
<1> QED
  BY <1>2, <1>6, <1>7

(***************************************************************************)
(* Logarithms, absolute values and the hyperbolic cosine.                  *)
(***************************************************************************)
LogNames == {"ln", "lg", "lb"}

LEMMA MoreFunctionsOfValues ==
    ASSUME NEW x \in Inside, NEW i \in Intervals, ~IsEmpty(i)
    PROVE  /\ ValueFunction("abs", x) = AbsOf(x) /\ ValueFunction("abs", i) = AbsInterval(i)
           /\ ValueFunction("cosh", x) = Function("cosh", x) /\ ValueFunction("cosh", i) = Cosh(i)
           /\ \A f \in LogNames : ValueFunction(f, x) = Function(f, x) /\ ValueFunction(f, i) = Logarithm(f, i)
<1>1. IsNumber(x) /\ ~IsNumber(i)
  BY NumbersAndIntervals
<1>2. ValueFunction("abs", x) = AbsOf(x) /\ ValueFunction("abs", i) = Operate1("abs", i)
  BY <1>1 DEF ValueFunction, FunctionOrImage, Elementary, Other, OfAngles, OfHyperbolas,
              ElementaryNames, OtherNames, AngleNames, HyperbolicNames
<1>3. ValueFunction("cosh", x) = Function("cosh", x) /\ ValueFunction("cosh", i) = Operate1("cosh", i)
  BY <1>1 DEF ValueFunction, FunctionOrImage, OfHyperbolas,
              ElementaryNames, OtherNames, AngleNames, HyperbolicNames
<1>4. ASSUME NEW f \in LogNames
      PROVE  ValueFunction(f, x) = Function(f, x) /\ ValueFunction(f, i) = Operate1(f, i)
  <2>1. CASE f = "ln"
    BY <1>1, <2>1 DEF ValueFunction, FunctionOrImage, Elementary, Other, OfAngles, OfHyperbolas,
              ElementaryNames, OtherNames, AngleNames, HyperbolicNames
  <2>2. CASE f \in {"lg", "lb"}
    BY <1>1, <2>2 DEF ValueFunction, FunctionOrImage, Elementary, Other, OfAngles, OfHyperbolas,
              ElementaryNames, OtherNames, AngleNames, HyperbolicNames
  <2> QED
    BY <2>1, <2>2 DEF LogNames
<1>5. Operate1("abs", i) = AbsInterval(i)
  BY DEF Operate1
<1>6. Operate1("cosh", i) = Cosh(i)
  BY DEF Operate1
<1>7. ASSUME NEW f \in LogNames PROVE Operate1(f, i) = Logarithm(f, i)
  BY DEF Operate1, LogNames
<1> QED
  BY <1>2, <1>3, <1>4, <1>5, <1>6, <1>7

LEMMA AbsHolds ==
    ASSUME NEW i \in Intervals, NEW x \in Inside, Holds(i, x), NEW r, r = AbsInterval(i), NEW a, a = AbsOf(x)
    PROVE  Near(r, a) /\ (i.lc /\ i.rc => Holds(r, a))
<1>1. HeldBetween(i, x)
  BY HeldIsBetween
<1>2. /\ x \in [type : {"int", "real"}, is : Int]
      /\ i.lo \in [type : {"int", "real"}, is : Int] /\ i.hi \in [type : {"int", "real"}, is : Int]
  BY IntervalFacts, EndsAssumption
<1>3. \A z \in [type : {"int", "real"}, is : Int] :
        AbsOf(z).is = (IF z.is < 0 THEN -z.is ELSE z.is) /\ Negated(z).is = -z.is
  BY DEF AbsOf, Abs, Negated
<1>4. a.is = (IF x.is < 0 THEN -x.is ELSE x.is)
  BY <1>2, <1>3
<1>5. CASE i.lo.is >= 0
  <2>1. r = i
    BY <1>5, ZeroAndOne DEF AbsInterval, AtMost
  <2>2. a.is = x.is /\ x.is \in Int
    BY <1>1, <1>4, <1>5 DEF HeldBetween
  <2> QED
    BY <1>1, <2>1, <2>2, SpanHolds DEF HeldBetween
<1>6. CASE i.lo.is < 0 /\ i.hi.is <= 0
  <2>1. r = Mirrored(i)
    BY <1>1, <1>6, ZeroAndOne DEF AbsInterval, AtMost, HeldBetween
  <2>2. r.lo.is = -i.hi.is /\ r.hi.is = -i.lo.is /\ (r.lc <=> i.rc) /\ (r.rc <=> i.lc)
    BY <1>2, <1>3, <2>1 DEF Mirrored, Between
  <2>3. PICK p \in Int, v \in Int, q \in Int :
          p = -i.hi.is /\ v = a.is /\ q = -i.lo.is /\ p <= v /\ v <= q
    BY <1>1, <1>4, <1>6 DEF HeldBetween
  <2> QED
    BY <2>2, <2>3, SpanHolds
<1>7. CASE i.lo.is < 0 /\ i.hi.is > 0
  <2>1. PICK b \in Int, c \in Int : b = AbsOf(i.lo).is /\ c = AbsOf(i.hi).is /\ b = -i.lo.is /\ c = i.hi.is
    BY <1>1, <1>2, <1>3, <1>7 DEF HeldBetween
  <2>2. PICK most : most = Greatest({AbsOf(i.lo), AbsOf(i.hi)})
    OBVIOUS
  <2>3. most.is = IF b <= c THEN c ELSE b
    <3>1. Greatest({AbsOf(i.lo), AbsOf(i.hi)}).is = IF b <= c THEN c ELSE b
      <4>1. PICK d, e : d = AbsOf(i.lo) /\ e = AbsOf(i.hi)
        OBVIOUS
      <4>2. d.is \in Int /\ e.is \in Int /\ d.is = b /\ e.is = c
        BY <2>1, <4>1
      <4>3. Greatest({d, e}).is = IF d.is <= e.is THEN e.is ELSE d.is
        BY <4>2, GreatestOfTwo
      <4> QED
        BY <4>1, <4>2, <4>3
    <3> QED
      BY <2>2, <3>1
  <2>4. r = Between(Zero, most, TRUE, IF Equal(most, AbsOf(i.lo)) THEN i.lc ELSE i.rc)
    <3>1. ~AtMost(Zero, i.lo) /\ ~AtMost(i.hi, Zero)
      BY <1>1, <1>7, ZeroAndOne DEF AtMost, HeldBetween
    <3> QED
      BY <2>2, <3>1 DEF AbsInterval
  <2>5. r.lo.is = 0 /\ r.hi.is = most.is /\ r.lc /\ (i.lc /\ i.rc => r.rc)
    <3>1. CASE Equal(most, AbsOf(i.lo))
      <4>1. r = Between(Zero, most, TRUE, i.lc)
        BY <2>4, <3>1
      <4> QED
        BY <4>1, ZeroAndOne DEF Between
    <3>2. CASE ~Equal(most, AbsOf(i.lo))
      <4>1. r = Between(Zero, most, TRUE, i.rc)
        BY <2>4, <3>2
      <4> QED
        BY <4>1, ZeroAndOne DEF Between
    <3> QED
      BY <3>1, <3>2
  <2>6. PICK v \in Int, q \in Int : v = a.is /\ q = most.is /\ 0 <= v /\ v <= q
    BY <1>1, <1>4, <2>1, <2>3 DEF HeldBetween
  <2> QED
    BY <2>5, <2>6, SpanHolds
<1> QED
  BY <1>1, <1>5, <1>6, <1>7 DEF HeldBetween

\* Ends and value of a growing function, the ends widened.
LEMMA LogHolds ==
    ASSUME NEW f \in LogNames, NEW i \in Intervals, NEW x \in Inside, Holds(i, x), ~AtMost(i.lo, Zero),
           NEW r, r = Logarithm(f, i), NEW a, a = Function(f, x)
    PROVE  Near(r, a) /\ Holds(r, a)
<1>1. HeldBetween(i, x)
  BY HeldIsBetween
<1>2. i.lo.is > 0 /\ x.is > 0 /\ i.hi.is > 0
  BY <1>1, ZeroAndOne DEF AtMost, HeldBetween
<1>3. \A z \in {i.lo, x, i.hi} : Function(f, z) = Real(Grows(z.is - Unit))
  <2>1. \A z \in {i.lo, x, i.hi} : z.is \in Int /\ z.is > 0
    BY <1>1, <1>2 DEF HeldBetween
  <2>2. \A z \in {i.lo, x, i.hi} : ~Undefined(f, z.is)
    <3> SUFFICES ASSUME NEW z \in {i.lo, x, i.hi} PROVE ~Undefined(f, z.is)
      OBVIOUS
    <3>1. f = "ln" \/ f = "lg" \/ f = "lb"
      BY DEF LogNames
    <3>2. PICK k \in Int : k = z.is /\ ~(k <= 0)
      BY <2>1
    <3>3. ~Undefined("ln", k)
      BY <3>2 DEF Undefined
    <3>4. ~Undefined("lg", k)
      BY <3>2 DEF Undefined
    <3>5. ~Undefined("lb", k)
      BY <3>2 DEF Undefined
    <3> QED
      BY <3>1, <3>2, <3>3, <3>4, <3>5
  <2>3. \A z : FunctionOf(f, z) = Grows(z - Unit)
    <3>1. f \in ExponentialNames /\ f # "exp"
      BY DEF LogNames, ExponentialNames
    <3>2. \A z : FunctionOf(f, z) = Exponential(f, z)
      BY <3>1 DEF FunctionOf, ExponentialNames, CircularNames
    <3> QED
      BY <3>1, <3>2 DEF Exponential
  <2> QED
    BY <2>2, <2>3 DEF Function
<1>4. PICK p \in Int, v \in Int, q \in Int :
        /\ p = Grows(i.lo.is - Unit) /\ v = Grows(x.is - Unit) /\ q = Grows(i.hi.is - Unit)
        /\ p <= v /\ v <= q
  <2>1. PICK k \in Int, l \in Int, m \in Int :
          k = i.lo.is - Unit /\ l = x.is - Unit /\ m = i.hi.is - Unit /\ k <= l /\ l <= m
    BY <1>1, ZeroAndOne DEF HeldBetween
  <2>2. Grows(k) \in Int /\ Grows(l) \in Int /\ Grows(k) <= Grows(l)
    BY <2>1, GrowsInOrder
  <2>3. Grows(l) \in Int /\ Grows(m) \in Int /\ Grows(l) <= Grows(m)
    BY <2>1, GrowsInOrder
  <2> QED
    BY <2>1, <2>2, <2>3
<1>5. r = Between(NextBelow(Real(p)), NextAbove(Real(q)), FALSE, FALSE)
  <2>1. ~AtMost(i.lo, Zero) /\ ~AtMost(i.hi, Zero)
    BY <1>1, <1>2, ZeroAndOne DEF AtMost, HeldBetween
  <2>2. Function(f, i.lo) = Real(p) /\ Function(f, i.hi) = Real(q)
    BY <1>3, <1>4
  <2> QED
    BY <2>1, <2>2 DEF Logarithm
<1>6. r.lo.is = p - 1 /\ r.hi.is = q + 1 /\ ~r.lc /\ ~r.rc /\ a.is = v
  BY <1>3, <1>4, <1>5 DEF Between, NextBelow, NextAbove, Real, IsInt
<1>7. Holds(r, a)
  BY <1>4, <1>6 DEF Holds, IsEmpty, AtMost, Less, Equal
<1> QED
  BY <1>4, <1>6, <1>7 DEF Near

\* Between two numbers the hyperbolic cosine is below the greater of theirs,
\* and above the lesser unless zero lies between them.
LEMMA CoshOrdered ==
    ASSUME NEW x \in Int, NEW z \in Int, NEW y \in Int, x <= z, z <= y
    PROVE  /\ CoshOf(x) \in Int /\ CoshOf(y) \in Int /\ CoshOf(z) \in Int /\ CoshOf(z) >= Unit
           /\ (CoshOf(z) <= CoshOf(x) \/ CoshOf(z) <= CoshOf(y))
           /\ (CoshOf(x) <= CoshOf(z) \/ CoshOf(y) <= CoshOf(z) \/ (x < 0 /\ 0 < y))
<1>1. \A k \in Int : CoshOf(k) = Unit + ((IF k < 0 THEN -k ELSE k) \div 6)
  BY DEF CoshOf, Abs
<1> QED
  BY <1>1, ZeroAndOne

LEMMA CoshHolds ==
    ASSUME NEW i \in Intervals, NEW x \in Inside, Holds(i, x),
           NEW r, r = Cosh(i), NEW a, a = Function("cosh", x)
    PROVE  Near(r, a) /\ Holds(r, a)
<1>1. HeldBetween(i, x)
  BY HeldIsBetween
<1>2. PICK p \in Int, v \in Int, q \in Int :
        /\ p = CoshOf(i.lo.is) /\ v = CoshOf(x.is) /\ q = CoshOf(i.hi.is) /\ Unit <= v
        /\ (v <= p \/ v <= q)
        /\ (p <= v \/ q <= v \/ (i.lo.is < 0 /\ 0 < i.hi.is))
  <2>1. PICK k \in Int, l \in Int, m \in Int : k = i.lo.is /\ l = x.is /\ m = i.hi.is /\ k <= l /\ l <= m
    BY <1>1 DEF HeldBetween
  <2>2. /\ CoshOf(k) \in Int /\ CoshOf(m) \in Int /\ CoshOf(l) \in Int /\ CoshOf(l) >= Unit
        /\ (CoshOf(l) <= CoshOf(k) \/ CoshOf(l) <= CoshOf(m))
        /\ (CoshOf(k) <= CoshOf(l) \/ CoshOf(m) <= CoshOf(l) \/ (k < 0 /\ 0 < m))
    BY <2>1, CoshOrdered
  <2> QED
    BY <2>1, <2>2, ZeroAndOne
<1>3. \A z : Function("cosh", z) = Real(CoshOf(z.is))
  BY DEF Function, Undefined, FunctionOf, ExponentialNames, CircularNames, Hyperbolic
<1>4. PICK most, least : most = Greatest({Real(p), Real(q)}) /\ least = Least({Real(p), Real(q)})
  OBVIOUS
<1>5. Real(p).is = p /\ Real(q).is = q /\ ~IsInt(Real(p)) /\ ~IsInt(Real(q))
  BY DEF Real, IsInt
<1>6. /\ most \in {Real(p), Real(q)} /\ most.is = (IF p <= q THEN q ELSE p)
      /\ least \in {Real(p), Real(q)} /\ least.is = (IF p <= q THEN p ELSE q)
  BY <1>4, <1>5, LeastOfTwo, GreatestOfTwo
<1>7. PICK high, low : high = NextAbove(most) /\ low = NextBelow(least)
  OBVIOUS
<1>8. high.is = most.is + 1 /\ low.is = least.is - 1
  <2>1. \A z \in Int : NextAbove(Real(z)).is = z + 1 /\ NextBelow(Real(z)).is = z - 1
    BY DEF NextAbove, NextBelow, Real, IsInt
  <2> QED
    BY <1>5, <1>6, <1>7, <2>1
<1>9. r = IF (Less(i.lo, Zero) /\ Less(Zero, i.hi)) \/ Less(low, One)
          THEN Between(One, high, TRUE, FALSE) ELSE Between(low, high, FALSE, FALSE)
  <2>1. Function("cosh", i.lo) = Real(p) /\ Function("cosh", i.hi) = Real(q)
    BY <1>2, <1>3
  <2>2. r = CoshBetween(i, Real(p), Real(q))
    BY <2>1 DEF Cosh
  <2> QED
    BY <1>4, <1>7, <2>2 DEF CoshBetween
<1>10. a.is = v
  BY <1>2, <1>3 DEF Real
<1>11. CASE (Less(i.lo, Zero) /\ Less(Zero, i.hi)) \/ Less(low, One)
  <2>1. r = Between(One, high, TRUE, FALSE)
    BY <1>9, <1>11
  <2>2. r.lo.is = Unit /\ r.hi.is = most.is + 1 /\ r.lc /\ ~r.rc
    BY <1>8, <2>1, ZeroAndOne DEF Between
  <2>3. Holds(r, a)
    BY <1>2, <1>6, <1>10, <2>2, ZeroAndOne DEF Holds, IsEmpty, AtMost, Less, Equal
  <2> QED
    BY <1>2, <1>6, <1>10, <2>2, <2>3, ZeroAndOne DEF Near
<1>12. CASE ~((Less(i.lo, Zero) /\ Less(Zero, i.hi)) \/ Less(low, One))
  <2>1. r = Between(low, high, FALSE, FALSE)
    BY <1>9, <1>12
  <2>2. r.lo.is = least.is - 1 /\ r.hi.is = most.is + 1 /\ ~r.lc /\ ~r.rc
    BY <1>8, <2>1 DEF Between
  <2>3. ~(i.lo.is < 0 /\ 0 < i.hi.is)
    BY <1>12, ZeroAndOne DEF Less
  <2>4. Holds(r, a)
    BY <1>2, <1>6, <1>10, <2>2, <2>3 DEF Holds, IsEmpty, AtMost, Less, Equal
  <2> QED
    BY <1>2, <1>6, <1>10, <2>2, <2>3, <2>4 DEF Near
<1> QED
  BY <1>11, <1>12

(***************************************************************************)
(* Arithmetic holds the values.                                            *)
(***************************************************************************)
\* All operations of numbers but powers and angles, and the functions that
\* are not periodic, not roots and not computed by a reciprocal.
FunctionsKept   == GrowingNames \cup LogNames \cup {"acos", "neg", "abs", "cosh"}
ArithmeticKept  == {"+", "-", "*", "/", "div", "mod"}
UpdatesKept     == {"+=", "-=", "*=", "/="}

Kept(q) ==
    \/ q.about = "function" /\ q.op \in FunctionsKept
    \/ q.about = "arithmetic" /\ q.op \in ArithmeticKept
    \/ q.about = "number" /\ q.op \in ArithmeticKept \cup UpdatesKept

LEMMA FunctionsKeepValues ==
    ASSUME NEW q \in ValueQuestions, q.about = "function", q.op \in FunctionsKept
    PROVE  KeepsValues(q)
<1>1. PICK f \in FunctionsKept, i \in Intervals : q = [about |-> "function", op |-> f, of |-> i]
  BY DEF ValueQuestions
<1>2. CASE IsEmpty(i)
  BY <1>1, <1>2 DEF KeepsValues, KeepsValuesIn
<1>3. CASE ~IsEmpty(i) /\ f \in GrowingNames \cup {"acos", "neg"}
  BY <1>1, <1>3, FunctionKeepsValues
<1>4. CASE ~IsEmpty(i) /\ f \in LogNames \cup {"abs", "cosh"}
  <2>1. PICK r : r = ValueResult(q) /\ r = ValueFunction(f, i)
    BY <1>1 DEF ValueResult
  <2>2. ASSUME Suited(q), NEW a \in Values(q)
        PROVE  Near(r, a) /\ (i.lc /\ i.rc => Holds(r, a))
    <3>1. PICK x \in Inside : Holds(i, x) /\ a = ValueFunction(f, x)
      BY <1>1, <2>2 DEF Values, Taken
    <3>2. CASE f = "abs"
      BY <1>4, <2>1, <3>1, <3>2, MoreFunctionsOfValues, AbsHolds
    <3>3. CASE f = "cosh"
      BY <1>4, <2>1, <3>1, <3>3, MoreFunctionsOfValues, CoshHolds
    <3>4. CASE f \in LogNames
      <4>1. ~AtMost(i.lo, Zero)
        BY <1>1, <2>2, <3>4 DEF Suited, Jumps, LogNames
      <4>2. r = Logarithm(f, i) /\ a = Function(f, x)
        BY <1>4, <2>1, <3>1, <3>4, MoreFunctionsOfValues
      <4> QED
        BY <3>1, <3>4, <4>1, <4>2, LogHolds
    <3> QED
      BY <1>4, <3>2, <3>3, <3>4
  <2> QED
    BY <1>1, <2>1, <2>2 DEF KeepsValues, KeepsValuesIn
<1> QED
  BY <1>2, <1>3, <1>4 DEF FunctionsKept

LEMMA UpdateOperations ==
    OfUpdate["+="] = "+" /\ OfUpdate["-="] = "-" /\ OfUpdate["*="] = "*" /\ OfUpdate["/="] = "/"
  BY DEF OfUpdate

\* Which operation arithmetic chooses for two intervals and for two numbers.
LEMMA ArithmeticOfValues ==
    ASSUME NEW x \in Inside, NEW y \in Inside, NEW i \in Intervals, NEW j \in Intervals,
           ~IsEmpty(i), ~IsEmpty(j)
    PROVE  /\ ValueArithmetic("*", i, j) = Product(i, j)
           /\ ValueArithmetic("/", i, j) = Divided(Quotient, i, j)
           /\ Operate2("div", i, j) = Divided(IntQuotient, i, j)
           /\ ValueArithmetic("mod", i, j) = ModInterval(i, j)
           /\ ValueArithmetic("+", x, y) = Plus(x, y) /\ ValueArithmetic("-", x, y) = Minus(x, y)
           /\ ValueArithmetic("*", x, y) = Times(x, y) /\ ValueArithmetic("/", x, y) = Quotient(x, y)
           /\ ValueArithmetic("mod", x, y) = Remainder(x, y)
<1>1. (IsNumber(x) <=> TRUE) /\ (IsNumber(y) <=> TRUE) /\ (IsNumber(i) <=> FALSE) /\ (IsNumber(j) <=> FALSE)
  BY NumbersAndIntervals
<1>2. ~(IsNumber(x) # IsNumber(y)) /\ ~(IsNumber(i) # IsNumber(j))
  BY <1>1 DEF IsNumber
<1>3. \A op : ValueArithmetic(op, i, j) = Operate2(op, i, j)
  BY <1>1, <1>2 DEF ValueArithmetic
<1>4. /\ Operate2("*", i, j) = Product(i, j) /\ Operate2("/", i, j) = Divided(Quotient, i, j)
      /\ Operate2("div", i, j) = Divided(IntQuotient, i, j) /\ Operate2("mod", i, j) = ModInterval(i, j)
  BY DEF Operate2
<1>5. /\ ValueArithmetic("+", x, y) = Plus(x, y) /\ ValueArithmetic("-", x, y) = Minus(x, y)
      /\ ValueArithmetic("*", x, y) = Times(x, y) /\ ValueArithmetic("/", x, y) = Quotient(x, y)
      /\ ValueArithmetic("mod", x, y) = Remainder(x, y)
  BY <1>1, <1>2 DEF ValueArithmetic
<1> QED
  BY <1>3, <1>4, <1>5

LEMMA ArithmeticKeepsValues ==
    ASSUME NEW q \in ValueQuestions, q.about = "arithmetic", q.op \in ArithmeticKept
    PROVE  KeepsValues(q)
<1>1. PICK op \in ArithmeticKept, i \in Intervals, j \in Intervals :
        /\ q = [about |-> "arithmetic", op |-> op, of |-> i, with |-> j]
        /\ i.lc /\ i.rc /\ j.lc /\ j.rc
  BY DEF ValueQuestions
<1>2. CASE IsEmpty(i)
  BY <1>1, <1>2 DEF KeepsValues, KeepsValuesIn
<1>3. CASE ~IsEmpty(i) /\ op \in {"+", "-"}
  BY <1>1, <1>3, SumKeepsValues
<1>4. CASE ~IsEmpty(i) /\ op \in {"*", "/", "div", "mod"}
  <2>1. PICK r : r = ValueResult(q)
    OBVIOUS
  <2>2. ASSUME Suited(q), r # Throws, NEW a \in Values(q)
        PROVE  Near(r, a) /\ Holds(r, a)
    <3>1. PICK x \in Inside, y \in Inside :
            Holds(i, x) /\ Holds(j, y) /\ a = ResultOfNumbers(op, x, y) /\ a # Throws
      BY <1>1, <2>2 DEF Values, Taken, IsValue
    <3>2. ~IsEmpty(j)
      BY <3>1 DEF Holds
    <3>3. CASE op = "*"
      <4>1. r = Product(i, j) /\ a = Times(x, y)
        BY <1>1, <1>4, <2>1, <3>1, <3>2, <3>3, ArithmeticOfValues DEF ValueResult, ResultOfNumbers
      <4> QED
        BY <1>1, <2>2, <3>1, <4>1, ProductHolds
    <3>4. CASE op \in {"/", "div"}
      <4>1. ~HasZero(j)
        BY <1>1, <2>2, <3>4 DEF Suited
      <4>2. \/ r = Divided(Quotient, i, j) /\ a = Quotient(x, y)
            \/ r = Divided(IntQuotient, i, j) /\ a = IntQuotient(x, y)
        <5>1. CASE op = "/"
          BY <1>1, <1>4, <2>1, <3>1, <3>2, <5>1, ArithmeticOfValues DEF ValueResult, ResultOfNumbers
        <5>2. CASE op = "div"
          <6>1. r = Divided(IntQuotient, i, j)
            BY <1>1, <1>4, <2>1, <3>2, <5>2, ArithmeticOfValues DEF ValueResult
          <6>2. a = IntQuotient(x, y)
            BY <3>1, <5>2 DEF ResultOfNumbers
          <6> QED
            BY <6>1, <6>2
        <5> QED
          BY <3>4, <5>1, <5>2
      <4> QED
        BY <1>1, <2>2, <3>1, <4>1, <4>2, QuotientHolds
    <3>5. CASE op = "mod"
      <4>1. r = ModInterval(i, j) /\ a = Remainder(x, y)
        BY <1>1, <1>4, <2>1, <3>1, <3>2, <3>5, ArithmeticOfValues DEF ValueResult, ResultOfNumbers
      <4>2. AtMost(Zero, i.lo)
        BY <1>1, <2>2, <3>5 DEF Suited
      <4>3. ~HasZero(j)
        BY <2>2, <4>1 DEF ModInterval
      <4> QED
        BY <1>1, <3>1, <4>1, <4>2, <4>3, ModHolds
    <3> QED
      BY <1>4, <3>3, <3>4, <3>5
  <2> QED
    BY <1>1, <2>1, <2>2 DEF KeepsValues, KeepsValuesIn
<1> QED
  BY <1>2, <1>3, <1>4 DEF ArithmeticKept

LEMMA NumberKeepsValues ==
    ASSUME NEW q \in ValueQuestions, q.about = "number", q.op \in ArithmeticKept \cup UpdatesKept
    PROVE  KeepsValues(q)
<1>1. PICK op \in ArithmeticKept \cup UpdatesKept, i \in Intervals, y \in Inside :
        /\ q = [about |-> "number", op |-> op, of |-> i, with |-> y]
        /\ y \in Ends
  BY EndsAssumption DEF ValueQuestions
<1>2. CASE IsEmpty(i)
  BY <1>1, <1>2 DEF KeepsValues, KeepsValuesIn
<1>3. CASE ~IsEmpty(i) /\ op \in {"+", "-"}
  BY <1>1, <1>3, SumKeepsValues
<1>4. CASE ~IsEmpty(i) /\ op \in {"*", "/", "div", "mod"} \cup UpdatesKept
  <2>1. PICK r : r = ValueResult(q)
    OBVIOUS
  <2>2. ASSUME Suited(q), r # Throws, NEW a \in Values(q)
        PROVE  Near(r, a) /\ (i.lc /\ i.rc => Holds(r, a))
    <3>1. PICK x \in Inside : Holds(i, x) /\ a = ResultOfNumbers(op, x, y) /\ a # Throws
      BY <1>1, <2>2 DEF Values, Taken, IsValue
    <3>2. y.is \in Int /\ Zero.is = 0
      BY InsideNumbers, ZeroAndOne
    <3>3. CASE op = "*"
      <4>1. y.is # 0
        BY <1>1, <2>2, <3>3 DEF Suited
      <4>2. r = Scaled(i, y) /\ a = Times(x, y)
        BY <1>1, <1>4, <2>1, <3>1, <3>3, ArithmeticOfValues DEF ValueResult, OperateNumber, ResultOfNumbers
      <4>3. CASE y.is > 0
        <5>1. r = Between(Times(i.lo, y), Times(i.hi, y), i.lc, i.rc)
          BY <3>2, <4>2, <4>3 DEF Scaled, Less, Shifted
        <5>2. y.is >= 0 /\ r.lo.is = Times(i.lo, y).is /\ r.hi.is = Times(i.hi, y).is
                        /\ (r.lc <=> i.lc) /\ (r.rc <=> i.rc)
          BY <3>2, <4>3, <5>1 DEF Between
        <5> QED
          BY <3>1, <4>2, <5>2, ScaledHolds
      <4>4. CASE y.is < 0
        <5>1. r = Between(Times(i.hi, y), Times(i.lo, y), i.rc, i.lc)
          <6>1. Less(y, Zero) /\ ~Less(Zero, y)
            BY <3>2, <4>4 DEF Less
          <6> QED
            BY <4>2, <6>1 DEF Scaled
        <5>2. r.lo.is = Times(i.hi, y).is /\ r.hi.is = Times(i.lo, y).is
                        /\ (r.lc <=> i.rc) /\ (r.rc <=> i.lc)
          BY <5>1 DEF Between
        <5> QED
          BY <3>1, <4>2, <4>4, <5>2, ScaledHolds
      <4> QED
        BY <3>2, <4>1, <4>3, <4>4
    <3>4. CASE op \in {"/", "div"}
      <4>1. \/ r = DividedBy(Quotient, i, y) /\ a = Quotient(x, y)
            \/ r = DividedBy(IntQuotient, i, y) /\ a = IntQuotient(x, y)
        <5>1. CASE op = "/"
          BY <1>1, <1>4, <2>1, <3>1, <5>1, ArithmeticOfValues DEF ValueResult, OperateNumber, ResultOfNumbers
        <5>2. CASE op = "div"
          BY <1>1, <1>4, <2>1, <3>1, <5>2 DEF ValueResult, OperateNumber, ResultOfNumbers
        <5> QED
          BY <3>4, <5>1, <5>2
      <4> QED
        BY <2>2, <3>1, <4>1, DividedByHolds
    <3>5. CASE op = "mod"
      <4>1. r = ModNumber(i, y) /\ a = Remainder(x, y)
        BY <1>1, <1>4, <2>1, <3>1, <3>5, ArithmeticOfValues DEF ValueResult, OperateNumber, ResultOfNumbers
      <4>2. AtMost(Zero, i.lo)
        BY <1>1, <2>2, <3>5 DEF Suited
      <4> QED
        BY <2>2, <3>1, <4>1, <4>2, ModNumberHolds
    <3>6. CASE op \in UpdatesKept
      <4>1. r = Changed(op, i, y)
        BY <1>1, <2>1, <3>6 DEF ValueResult, UpdatesKept
      <4>2. IsInt(y)
        BY <1>1, <2>2, <3>6 DEF Suited, UpdatesKept
      <4>3. CASE op = "+="
        <5>1. a = Plus(x, y)
          BY <1>4, <3>1, <4>3, ArithmeticOfValues, UpdateOperations DEF ResultOfNumbers
        <5> QED
          BY <3>1, <4>1, <4>2, <4>3, <5>1, ChangedHolds
      <4>4. CASE op = "-="
        <5>1. a = Minus(x, y)
          BY <1>4, <3>1, <4>4, ArithmeticOfValues, UpdateOperations DEF ResultOfNumbers
        <5> QED
          BY <3>1, <4>1, <4>2, <4>4, <5>1, ChangedHolds
      <4>5. CASE op = "*="
        <5>1. a = Times(x, y)
          BY <1>4, <3>1, <4>5, ArithmeticOfValues, UpdateOperations DEF ResultOfNumbers
        <5> QED
          BY <3>1, <4>1, <4>2, <4>5, <5>1, ChangedHolds
      <4>6. CASE op = "/="
        <5>1. a = Quotient(x, y)
          BY <1>4, <3>1, <4>6, ArithmeticOfValues, UpdateOperations DEF ResultOfNumbers
        <5>2. y.is # 0
          BY <2>2, <3>2, <4>1, <4>6 DEF Changed, Less, AtMost
        <5>3. \A end \in {i.lo, i.hi} : IsInt(end) => end.is % Abs(y.is) = 0
          BY <1>1, <2>2, <4>6 DEF Suited
        <5> QED
          BY <3>1, <4>1, <4>2, <4>6, <5>1, <5>2, <5>3, CutHolds
      <4> QED
        BY <3>6, <4>3, <4>4, <4>5, <4>6 DEF UpdatesKept
    <3> QED
      BY <1>4, <3>3, <3>4, <3>5, <3>6
  <2> QED
    BY <1>1, <2>1, <2>2 DEF KeepsValues, KeepsValuesIn
<1> QED
  BY <1>2, <1>3, <1>4 DEF ArithmeticKept

(* The operations of Kept hold whatever they make of the numbers of their  *)
(* operands: with closed ends exactly, otherwise up to one part of rounding*)
(* (value.cpp, interval.cpp).                                              *)
THEOREM ArithmeticRight == ValueSpec => [](Kept(asked) => IntervalsKeepValues)
<1>1. asked = NotAsked => IntervalsKeepValues
  BY DEF NotAsked, IntervalsKeepValues
<1>2. ASSUME NEW q \in ValueQuestions, Kept(q) PROVE KeepsValues(q)
  BY <1>2, FunctionsKeepValues, ArithmeticKeepsValues, NumberKeepsValues DEF Kept
<1>3. ASSUME Kept(asked) => IntervalsKeepValues, [AskValue]_asked
      PROVE  (Kept(asked) => IntervalsKeepValues)'
  <2>1. CASE UNCHANGED asked
    BY <1>3, <2>1 DEF IntervalsKeepValues, Kept
  <2>2. CASE AskValue
    BY <1>2, <2>2 DEF AskValue, AskOne, IntervalsKeepValues
  <2> QED
    BY <1>3, <2>1, <2>2
<1> QED
  BY <1>1, <1>3, PTL DEF ValueSpec
=============================================================================
