-------------------------- MODULE SelectionProofs --------------------------
(***************************************************************************)
(* What the two loops of Selection give, for every sequence and every      *)
(* graph. Both are defined by recursion on a number of turns, so what they *)
(* return is shown for the least number of turns that would be an          *)
(* exception.                                                              *)
(***************************************************************************)
EXTENDS Selection, SequenceTheorems, FiniteSetTheorems, WellFoundedInduction, TLAPS

\* A set of numbers that is not empty has a least element.
LEMMA SetHasFirst ==
    ASSUME NEW S \in SUBSET Nat, S # {}
    PROVE  \E p \in S : \A q \in S : p <= q
<1>1. PICK p \in S : \A q \in S : <<q, p>> \notin OpToRel(<, Nat)
  BY NatLessThanWellFounded, WFMin, Zenon
<1>2. \A q \in S : ~(q < p)
  BY <1>1, Zenon DEF OpToRel
<1>3. \A q \in S : p <= q
  BY <1>2
<1> QED  BY <1>3

\* So the bounded ones have a greatest: least is what it lacks of the bound.
LEMMA SetHasLast ==
    ASSUME NEW S \in SUBSET Nat, NEW n \in Nat, S # {}, \A k \in S : k <= n
    PROVE  \E p \in S : \A q \in S : q <= p
<1> DEFINE T == {n - k : k \in S}
<1>1. T \in SUBSET Nat /\ T # {}
  <2>1. \A k \in S : n - k \in Nat
    OBVIOUS
  <2>2. T # {}
    OBVIOUS
  <2> QED  BY <2>1, <2>2
<1>2. PICK l \in T : \A m \in T : l <= m
  <2> HIDE DEF T
  <2> QED  BY <1>1, SetHasFirst
<1>3. PICK p \in S : l = n - p
  BY <1>2
<1>4. \A q \in S : n - p <= n - q
  BY <1>2, <1>3
<1>5. \A q \in S : q \in Nat /\ p \in Nat
  OBVIOUS
<1> QED  BY <1>4, <1>5

\* The sequence kept of each prefix exists, and Only is the last of them.
LEMMA OnlyByPrefix ==
    ASSUME NEW T, NEW s \in Seq(T), NEW S
    PROVE  \E kept :
             /\ kept[0] = << >>
             /\ \A n \in 1..Len(s) :
                   kept[n] = IF s[n] \in S THEN Append(kept[n - 1], s[n]) ELSE kept[n - 1]
             /\ Only(s, S) = kept[Len(s)]
<1> DEFINE KeptUpTo(n, kept) ==
             kept = [m \in 0..n |-> IF m = 0 THEN << >>
                                    ELSE IF s[m] \in S THEN Append(kept[m - 1], s[m])
                                    ELSE kept[m - 1]]
           Missing == {n \in 0..Len(s) : ~\E kept : KeptUpTo(n, kept)}
<1>1. Len(s) \in Nat
  OBVIOUS
<1>2. Missing = {}
  <2> SUFFICES ASSUME Missing # {}  PROVE FALSE
    OBVIOUS
  <2>1. Missing \in SUBSET Nat
    BY <1>1
  <2>2. PICK n \in Missing : \A m \in Missing : n <= m
    <3> HIDE DEF Missing
    <3> QED  BY <2>1, SetHasFirst
  <2>3. n \in 0..Len(s) /\ ~\E kept : KeptUpTo(n, kept)
    BY <2>2
  <2>4. CASE n = 0
    <3> DEFINE none == [m \in 0..0 |-> << >>]
    <3>1. KeptUpTo(0, none)
      OBVIOUS
    <3> QED  BY <2>3, <2>4, <3>1
  <2>5. CASE n # 0
    <3>1. n - 1 \in 0..Len(s) /\ n - 1 \notin Missing /\ n \in 1..Len(s)
      <4>1. n \in Nat /\ n - 1 \in 0..Len(s) /\ n \in 1..Len(s) /\ ~(n <= n - 1)
        BY <1>1, <2>3, <2>5
      <4> HIDE DEF Missing
      <4> QED  BY <2>2, <4>1
    <3>2. PICK kept : KeptUpTo(n - 1, kept)
      BY <3>1
    <3> DEFINE longer == [m \in 0..n |->
                 IF m = n THEN IF s[n] \in S THEN Append(kept[n - 1], s[n]) ELSE kept[n - 1]
                 ELSE kept[m]]
    <3>3. \A m \in 0..n : m # n => m \in 0..(n - 1) /\ longer[m] = kept[m]
      BY <1>1, <3>1
    <3>4. longer[n] = IF s[n] \in S THEN Append(kept[n - 1], s[n]) ELSE kept[n - 1]
      BY <1>1, <3>1
    <3>5. \A m \in 0..n : m # 0 => longer[m - 1] = kept[m - 1]
      BY <1>1, <3>1
    <3>6. \A m \in 0..n : longer[m] = IF m = 0 THEN << >>
                                      ELSE IF s[m] \in S THEN Append(longer[m - 1], s[m])
                                      ELSE longer[m - 1]
      <4> TAKE m \in 0..n
      <4>1. CASE m = n
        BY <4>1, <2>5, <3>4, <3>5
      <4>2. CASE m # n
        <5>1. m \in 0..(n - 1) /\ longer[m] = kept[m]
          BY <3>3, <4>2
        <5>2. kept[m] = IF m = 0 THEN << >>
                        ELSE IF s[m] \in S THEN Append(kept[m - 1], s[m]) ELSE kept[m - 1]
          BY <3>2, <5>1
        <5> HIDE DEF longer
        <5> QED  BY <5>1, <5>2, <3>5
      <4> QED  BY <4>1, <4>2
    <3>7. KeptUpTo(n, longer)
      BY <3>6
    <3> QED  BY <2>3, <3>7
  <2> QED  BY <2>4, <2>5
<1>3. \E kept : KeptUpTo(Len(s), kept)
  <2>1. Len(s) \in 0..Len(s)
    BY <1>1
  <2>2. Len(s) \notin Missing
    <3> HIDE DEF Missing
    <3> QED  BY <1>2
  <2> HIDE DEF KeptUpTo
  <2> QED  BY <2>1, <2>2
<1> DEFINE all == CHOOSE kept : KeptUpTo(Len(s), kept)
<1>4. KeptUpTo(Len(s), all)
  BY <1>3
<1>5. Only(s, S) = all[Len(s)]
  BY DEF Only
<1>6. all[0] = << >> /\ \A n \in 1..Len(s) :
         all[n] = IF s[n] \in S THEN Append(all[n - 1], s[n]) ELSE all[n - 1]
  <2> HIDE DEF all
  <2>1. all = [m \in 0..Len(s) |-> IF m = 0 THEN << >>
                                   ELSE IF s[m] \in S THEN Append(all[m - 1], s[m])
                                   ELSE all[m - 1]]
    BY <1>4
  <2>2. 0 \in 0..Len(s)
    BY <1>1
  <2>3. \A n \in 1..Len(s) : n \in 0..Len(s) /\ n # 0
    BY <1>1
  <2>4. \A m \in 0..Len(s) :
           all[m] = IF m = 0 THEN << >>
                    ELSE IF s[m] \in S THEN Append(all[m - 1], s[m]) ELSE all[m - 1]
    BY <2>1, Zenon
  <2> QED  BY <2>2, <2>3, <2>4
<1> QED
  <2> HIDE DEF all
  <2> QED  BY <1>5, <1>6
(***************************************************************************)
(* Only, as a choice of places: e[i] is the place in s of the i-th element *)
(* kept.                                                                   *)
(***************************************************************************)
KeptInOrder(s, S, q, n, e) ==
    /\ Len(q) \in Nat
    /\ DOMAIN q = 1..Len(q)
    /\ e \in [1..Len(q) -> 1..n]
    /\ \A i \in 1..Len(q) : q[i] = s[e[i]] /\ s[e[i]] \in S
    /\ \A i, j \in 1..Len(q) : i < j => e[i] < e[j]
    /\ \A k \in 1..n : s[k] \in S => \E i \in 1..Len(q) : e[i] = k

\* A turn of the filter that keeps its element keeps the order.
LEMMA OneMoreKept ==
    ASSUME NEW T, NEW s \in Seq(T), NEW S, NEW n \in 1..Len(s), s[n] \in S,
           NEW q \in Seq(T), NEW e, KeptInOrder(s, S, q, n - 1, e)
    PROVE  \E f : KeptInOrder(s, S, Append(q, s[n]), n, f)
<1> DEFINE r == Append(q, s[n])
           f == [i \in 1..(Len(q) + 1) |-> IF i = Len(q) + 1 THEN n ELSE e[i]]
<1>1. Len(q) \in Nat /\ n \in Nat /\ n >= 1 /\ s[n] \in T
  OBVIOUS
<1>2. /\ Len(r) = Len(q) + 1 /\ DOMAIN r = 1..(Len(q) + 1)
      /\ \A i \in 1..Len(q) : r[i] = q[i]
      /\ r[Len(q) + 1] = s[n]
  BY <1>1
<1>3. \A i \in 1..Len(q) : f[i] = e[i] /\ e[i] \in 1..(n - 1)
  BY <1>1 DEF KeptInOrder
<1>4. f[Len(q) + 1] = n
  BY <1>1
<1>5. f \in [1..Len(r) -> 1..n]
  <2>1. \A i \in 1..(Len(q) + 1) : f[i] \in 1..n
    <3> HIDE DEF r, f
    <3> TAKE i \in 1..(Len(q) + 1)
    <3>1. CASE i = Len(q) + 1
      BY <3>1, <1>1, <1>4
    <3>2. CASE i # Len(q) + 1
      <4>1. i \in 1..Len(q)
        BY <3>2, <1>1
      <4>2. f[i] \in 1..(n - 1)
        BY <1>3, <4>1
      <4> QED  BY <4>2, <1>1
    <3> QED  BY <3>1, <3>2
  <2>2. f \in [1..(Len(q) + 1) -> 1..n]
    BY <2>1
  <2> HIDE DEF r, f
  <2> QED  BY <1>2, <2>2
<1>6. \A i \in 1..Len(r) : r[i] = s[f[i]] /\ s[f[i]] \in S
  <2> HIDE DEF r, f
  <2> QED  BY <1>1, <1>2, <1>3, <1>4 DEF KeptInOrder
<1>7. \A i, j \in 1..Len(r) : i < j => f[i] < f[j]
  <2> HIDE DEF r, f
  <2> TAKE i, j \in 1..Len(r)
  <2> HAVE i < j
  <2>1. CASE j = Len(q) + 1
    BY <2>1, <1>1, <1>2, <1>3, <1>4
  <2>2. CASE j # Len(q) + 1
    <3>1. i \in 1..Len(q) /\ j \in 1..Len(q)
      BY <2>2, <1>1, <1>2
    <3>2. e[i] < e[j]
      BY <3>1 DEF KeptInOrder
    <3> QED  BY <1>3, <3>1, <3>2
  <2>3. i \in 1..(Len(q) + 1) /\ j \in 1..(Len(q) + 1)
    BY <1>2
  <2> QED  BY <2>1, <2>2
<1>8. \A k \in 1..n : s[k] \in S => \E i \in 1..Len(r) : f[i] = k
  <2> HIDE DEF r, f
  <2> TAKE k \in 1..n
  <2> HAVE s[k] \in S
  <2>1. CASE k = n
    BY <2>1, <1>1, <1>2, <1>4
  <2>2. CASE k # n
    <3>1. k \in 1..(n - 1)
      BY <2>2, <1>1
    <3>2. PICK i \in 1..Len(q) : e[i] = k
      BY <3>1 DEF KeptInOrder
    <3> QED  BY <1>1, <1>2, <1>3, <3>2
  <2> QED  BY <2>1, <2>2
<1>9. KeptInOrder(s, S, r, n, f)
  <2> HIDE DEF r, f
  <2> QED  BY <1>1, <1>2, <1>5, <1>6, <1>7, <1>8 DEF KeptInOrder
<1> QED
  <2> HIDE DEF f
  <2> QED  BY <1>9

\* A turn of the filter that drops its element keeps the order.
LEMMA NoMoreKept ==
    ASSUME NEW T, NEW s \in Seq(T), NEW S, NEW n \in 1..Len(s), s[n] \notin S,
           NEW q, NEW e, KeptInOrder(s, S, q, n - 1, e)
    PROVE  KeptInOrder(s, S, q, n, e)
<1>1. Len(q) \in Nat /\ n \in Nat /\ n >= 1 /\ \A k \in 1..n : k = n \/ k \in 1..(n - 1)
  BY DEF KeptInOrder
<1>2. 1..(n - 1) \subseteq 1..n
  BY <1>1
<1> QED  BY <1>1, <1>2 DEF KeptInOrder

\* The filter returns the elements of the set, all of them, in the order of the
\* sequence.
LEMMA OnlyInOrder ==
    ASSUME NEW T, NEW s \in Seq(T), NEW S
    PROVE  \E e : KeptInOrder(s, S, Only(s, S), Len(s), e)
<1>1. Len(s) \in Nat /\ \A n \in 1..Len(s) : s[n] \in T
  OBVIOUS
<1>2. PICK kept :
        /\ kept[0] = << >>
        /\ \A n \in 1..Len(s) :
              kept[n] = IF s[n] \in S THEN Append(kept[n - 1], s[n]) ELSE kept[n - 1]
        /\ Only(s, S) = kept[Len(s)]
  BY OnlyByPrefix
<1> DEFINE Right(n) == kept[n] \in Seq(T) /\ \E e : KeptInOrder(s, S, kept[n], n, e)
           Wrong == {n \in 0..Len(s) : ~Right(n)}
<1>3. Wrong = {}
  <2> SUFFICES ASSUME Wrong # {}  PROVE FALSE
    OBVIOUS
  <2>1. Wrong \in SUBSET Nat
    BY <1>1
  <2>2. PICK n \in Wrong : \A m \in Wrong : n <= m
    <3> HIDE DEF Wrong
    <3> QED  BY <2>1, SetHasFirst
  <2>3. n \in 0..Len(s) /\ ~Right(n)
    BY <2>2
  <2>4. CASE n = 0
    <3> DEFINE none == [i \in 1..0 |-> 0]
    <3>1. KeptInOrder(s, S, << >>, 0, none)
      BY DEF KeptInOrder
    <3>2. Right(0)
      <4> HIDE DEF none
      <4> QED  BY <1>2, <3>1
    <3> QED  BY <2>3, <2>4, <3>2
  <2>5. CASE n # 0
    <3>1. n - 1 \in 0..Len(s) /\ Right(n - 1) /\ n \in 1..Len(s)
      <4>1. n \in Nat /\ n - 1 \in 0..Len(s) /\ n \in 1..Len(s) /\ ~(n <= n - 1)
        BY <1>1, <2>3, <2>5
      <4>2. n - 1 \notin Wrong
        <5> HIDE DEF Wrong
        <5> QED  BY <2>2, <4>1
      <4> QED  BY <4>1, <4>2
    <3>2. PICK q \in Seq(T) : q = kept[n - 1]
      BY <3>1
    <3>3. PICK e : KeptInOrder(s, S, q, n - 1, e)
      BY <3>1, <3>2
    <3>4. CASE s[n] \in S
      <4>1. \E f : KeptInOrder(s, S, Append(q, s[n]), n, f)
        BY <3>1, <3>3, <3>4, OneMoreKept
      <4>2. kept[n] = Append(q, s[n]) /\ s[n] \in T
        BY <1>1, <1>2, <3>1, <3>2, <3>4
      <4>3. Append(q, s[n]) \in Seq(T)
        BY <4>2, <3>2
      <4> QED  BY <2>3, <4>1, <4>2, <4>3
    <3>5. CASE s[n] \notin S
      <4>1. KeptInOrder(s, S, q, n, e)
        BY <3>1, <3>3, <3>5, NoMoreKept
      <4>2. kept[n] = q
        BY <1>2, <3>1, <3>2, <3>5
      <4> QED  BY <2>3, <4>1, <4>2
    <3> QED  BY <3>4, <3>5
  <2> QED  BY <2>4, <2>5
<1>4. Right(Len(s))
  <2>1. Len(s) \in 0..Len(s)
    BY <1>1
  <2>2. Len(s) \notin Wrong
    <3> HIDE DEF Wrong
    <3> QED  BY <1>3
  <2> HIDE DEF Right
  <2> QED  BY <2>1, <2>2
<1> QED  BY <1>2, <1>4

(***************************************************************************)
(* Reached, where nothing leads further up: the least set that has start   *)
(* and all that its elements lead to.                                      *)
(***************************************************************************)
LEMMA ReachedByTurns ==
    ASSUME NEW start, NEW to, NEW n \in Nat
    PROVE  \E g :
             /\ g[0] = start
             /\ \A k \in 1..n : g[k] = g[k - 1] \union UNION {to[i] : i \in g[k - 1]}
             /\ Reached(start, to, n) = g[n]
<1> DEFINE GrownUpTo(m, g) ==
             g = [k \in 0..m |-> IF k = 0 THEN start
                                 ELSE g[k - 1] \union UNION {to[i] : i \in g[k - 1]}]
           Missing == {m \in 0..n : ~\E g : GrownUpTo(m, g)}
<1>2. Missing = {}
  <2> SUFFICES ASSUME Missing # {}  PROVE FALSE
    OBVIOUS
  <2>1. Missing \in SUBSET Nat
    OBVIOUS
  <2>2. PICK m \in Missing : \A l \in Missing : m <= l
    <3> HIDE DEF Missing
    <3> QED  BY <2>1, SetHasFirst
  <2>3. m \in 0..n /\ ~\E g : GrownUpTo(m, g)
    BY <2>2
  <2>4. CASE m = 0
    <3> DEFINE none == [k \in 0..0 |-> start]
    <3>1. GrownUpTo(0, none)
      OBVIOUS
    <3> QED  BY <2>3, <2>4, <3>1
  <2>5. CASE m # 0
    <3>1. m - 1 \in 0..n /\ m - 1 \notin Missing /\ m \in 1..n
      <4>1. m \in Nat /\ m - 1 \in 0..n /\ m \in 1..n /\ ~(m <= m - 1)
        BY <2>3, <2>5
      <4> HIDE DEF Missing
      <4> QED  BY <2>2, <4>1
    <3>2. PICK g : GrownUpTo(m - 1, g)
      BY <3>1
    <3> DEFINE more == [k \in 0..m |->
                          IF k = m THEN g[m - 1] \union UNION {to[i] : i \in g[m - 1]} ELSE g[k]]
    <3>3. \A k \in 0..m : k # m => k \in 0..(m - 1) /\ more[k] = g[k]
      BY <3>1
    <3>4. more[m] = g[m - 1] \union UNION {to[i] : i \in g[m - 1]}
      BY <3>1
    <3>5. \A k \in 0..m : k # 0 => more[k - 1] = g[k - 1]
      BY <3>1
    <3>6. \A k \in 0..m : more[k] = IF k = 0 THEN start
                                    ELSE more[k - 1] \union UNION {to[i] : i \in more[k - 1]}
      <4> TAKE k \in 0..m
      <4>1. CASE k = m
        <5> HIDE DEF more
        <5> QED  BY <4>1, <2>5, <3>4, <3>5
      <4>2. CASE k # m
        <5>1. k \in 0..(m - 1) /\ more[k] = g[k]
          BY <3>3, <4>2
        <5>2. g[k] = IF k = 0 THEN start ELSE g[k - 1] \union UNION {to[i] : i \in g[k - 1]}
          BY <3>2, <5>1
        <5> HIDE DEF more
        <5> QED  BY <5>1, <5>2, <3>5
      <4> QED  BY <4>1, <4>2
    <3>7. GrownUpTo(m, more)
      BY <3>6
    <3> QED  BY <2>3, <3>7
  <2> QED  BY <2>4, <2>5
<1>3. \E g : GrownUpTo(n, g)
  <2>1. n \in 0..n
    OBVIOUS
  <2>2. n \notin Missing
    <3> HIDE DEF Missing
    <3> QED  BY <1>2
  <2> HIDE DEF GrownUpTo
  <2> QED  BY <2>1, <2>2
<1> DEFINE all == CHOOSE g : GrownUpTo(n, g)
<1>4. GrownUpTo(n, all)
  BY <1>3
<1>5. Reached(start, to, n) = all[n]
  BY DEF Reached
<1>6. all[0] = start /\ \A k \in 1..n : all[k] = all[k - 1] \union UNION {to[i] : i \in all[k - 1]}
  <2> HIDE DEF all
  <2>1. all = [k \in 0..n |-> IF k = 0 THEN start
                              ELSE all[k - 1] \union UNION {to[i] : i \in all[k - 1]}]
    BY <1>4
  <2>2. 0 \in 0..n /\ \A k \in 1..n : k \in 0..n /\ k # 0
    OBVIOUS
  <2>3. \A k \in 0..n :
           all[k] = IF k = 0 THEN start
                    ELSE all[k - 1] \union UNION {to[i] : i \in all[k - 1]}
    BY <2>1, Zenon
  <2> QED  BY <2>2, <2>3
<1> QED
  <2> HIDE DEF all
  <2> QED  BY <1>5, <1>6

\* Nothing is reached outside of a set that no step leaves.
LEMMA ReachedWithin ==
    ASSUME NEW start, NEW to, NEW n \in Nat, NEW S,
           start \subseteq S, \A i \in S : to[i] \subseteq S
    PROVE  Reached(start, to, n) \subseteq S
<1>1. PICK g :
        /\ g[0] = start
        /\ \A k \in 1..n : g[k] = g[k - 1] \union UNION {to[i] : i \in g[k - 1]}
        /\ Reached(start, to, n) = g[n]
  BY ReachedByTurns
<1> DEFINE Wrong == {k \in 0..n : ~(g[k] \subseteq S)}
<1>2. Wrong = {}
  <2> SUFFICES ASSUME Wrong # {}  PROVE FALSE
    OBVIOUS
  <2>1. Wrong \in SUBSET Nat
    OBVIOUS
  <2>2. PICK k \in Wrong : \A l \in Wrong : k <= l
    <3> HIDE DEF Wrong
    <3> QED  BY <2>1, SetHasFirst
  <2>3. k \in 0..n /\ ~(g[k] \subseteq S)
    BY <2>2
  <2>4. k # 0
    BY <1>1, <2>3
  <2>5. k - 1 \in 0..n /\ k \in 1..n /\ ~(k <= k - 1)
    BY <2>3, <2>4
  <2>6. g[k - 1] \subseteq S
    <3>1. k - 1 \notin Wrong
      <4> HIDE DEF Wrong
      <4> QED  BY <2>2, <2>5
    <3> QED  BY <2>5, <3>1
  <2>7. g[k] = g[k - 1] \union UNION {to[i] : i \in g[k - 1]}
    BY <1>1, <2>5
  <2> QED  BY <2>3, <2>6, <2>7
<1>3. n \in 0..n /\ n \notin Wrong
  BY <1>2
<1> QED  BY <1>1, <1>3

\* What is reached from a set has the set, and all that is reached from it: n turns are
\* enough for n nodes.
LEMMA ReachedClosed ==
    ASSUME NEW n \in Nat, NEW start \in SUBSET (1..n), NEW to,
           \A i \in 1..n : to[i] \subseteq 1..n
    PROVE  /\ start \subseteq Reached(start, to, n)
           /\ \A i \in Reached(start, to, n) : to[i] \subseteq Reached(start, to, n)
<1>0. n \in Nat
  OBVIOUS
<1>1. PICK g :
        /\ g[0] = start
        /\ \A k \in 1..n : g[k] = g[k - 1] \union UNION {to[i] : i \in g[k - 1]}
        /\ Reached(start, to, n) = g[n]
  BY ONLY <1>0, ReachedByTurns
<1>2. IsFiniteSet(1..n) /\ Cardinality(1..n) = n
  <2>1. IsFiniteSet(1..n) /\ Cardinality(1..n) = IF 1 > n THEN 0 ELSE n - 1 + 1
    BY FS_Interval
  <2> QED  BY <2>1
<1> DEFINE Closed(S) == \A i \in S : to[i] \subseteq S
           Right(k) == /\ start \subseteq g[k]
                       /\ g[k] \subseteq 1..n
                       /\ Closed(g[k]) \/ Cardinality(g[k]) >= k
           Wrong == {k \in 0..n : ~Right(k)}
<1>3. Wrong = {}
  <2> SUFFICES ASSUME Wrong # {}  PROVE FALSE
    OBVIOUS
  <2>1. Wrong \in SUBSET Nat
    OBVIOUS
  <2>2. PICK k \in Wrong : \A l \in Wrong : k <= l
    <3> HIDE DEF Wrong
    <3> QED  BY <2>1, SetHasFirst
  <2>3. k \in 0..n /\ ~Right(k)
    BY <2>2
  <2>4. k # 0
    <3>1. start \in SUBSET (1..n) /\ Cardinality(start) \in Nat
      BY <1>2, FS_Subset, FS_CardinalityType
    <3>2. Right(0)
      BY <1>1, <3>1
    <3> QED  BY <2>3, <3>2
  <2>5. k - 1 \in 0..n /\ k \in 1..n /\ ~(k <= k - 1)
    BY <2>3, <2>4
  <2>6. Right(k - 1)
    <3>1. k - 1 \notin Wrong
      <4> HIDE DEF Wrong
      <4> QED  BY <2>2, <2>5
    <3> QED  BY <2>5, <3>1
  <2>7. g[k] = g[k - 1] \union UNION {to[i] : i \in g[k - 1]}
    BY <1>1, <2>5
  <2>8. start \subseteq g[k] /\ g[k - 1] \subseteq g[k]
    BY <2>6, <2>7
  <2>9. g[k] \subseteq 1..n
    <3>1. \A i \in g[k - 1] : to[i] \subseteq 1..n
      BY <2>6
    <3> QED  BY <2>6, <2>7, <3>1
  <2>10. CASE Closed(g[k - 1])
    <3>1. g[k] = g[k - 1]
      BY <2>7, <2>10
    <3>2. Right(k)
      <4>1. Closed(g[k])
        BY <2>10, <3>1
      <4> HIDE DEF Closed
      <4> QED  BY <2>8, <2>9, <4>1
    <3> QED  BY <2>3, <3>2
  <2>11. CASE ~Closed(g[k - 1])
    <3>1. Cardinality(g[k - 1]) >= k - 1
      <4> HIDE DEF Closed
      <4> QED  BY <2>6, <2>11
    <3>2. g[k] # g[k - 1]
      BY <2>7, <2>11
    <3>3. IsFiniteSet(g[k]) /\ Cardinality(g[k]) \in Nat
      <4>1. g[k] \in SUBSET (1..n)
        BY <2>9
      <4> QED  BY <1>2, <4>1, FS_Subset, FS_CardinalityType
    <3>4. Cardinality(g[k - 1]) <= Cardinality(g[k]) /\ Cardinality(g[k]) # Cardinality(g[k - 1])
      <4>1. g[k - 1] \in SUBSET g[k]
        BY <2>8
      <4> QED  BY <3>2, <3>3, <4>1, FS_Subset
    <3>5. Cardinality(g[k - 1]) \in Nat
      <4>1. g[k - 1] \in SUBSET g[k]
        BY <2>8
      <4> QED  BY <3>3, <4>1, FS_Subset, FS_CardinalityType
    <3>6. Cardinality(g[k]) >= k
      BY <2>5, <3>1, <3>3, <3>4, <3>5
    <3> QED
      <4> HIDE DEF Closed
      <4> QED  BY <2>3, <2>8, <2>9, <3>6
  <2> QED  BY <2>10, <2>11
<1>4. Right(n)
  <2>1. n \in 0..n
    OBVIOUS
  <2>2. n \notin Wrong
    <3> HIDE DEF Wrong
    <3> QED  BY <1>3
  <2> HIDE DEF Right
  <2> QED  BY <2>1, <2>2
<1>5. Closed(g[n])
  <2>1. CASE Cardinality(g[n]) >= n
    <3>1. g[n] \in SUBSET (1..n)
      BY <1>4
    <3>2. Cardinality(g[n]) \in Nat /\ Cardinality(g[n]) <= n
      BY <1>2, <3>1, FS_Subset, FS_CardinalityType
    <3>3. g[n] = 1..n
      BY <1>2, <2>1, <3>1, <3>2, FS_Subset
    <3> QED  BY <3>3
  <2> HIDE DEF Closed
  <2> QED  BY <1>4, <2>1
<1> QED  BY <1>1, <1>4, <1>5
=============================================================================
