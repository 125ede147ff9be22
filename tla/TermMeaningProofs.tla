------------------------- MODULE TermMeaningProofs -------------------------
(***************************************************************************)
(* Proofs about what the nodes of TermTable mean: the node that createNode *)
(* returns is, written out, the term it was asked for, and two nodes are   *)
(* the same term only if something below them was changed in place.        *)
(***************************************************************************)
EXTENDS TermTableProofs

\* A set of numbers that is not empty has a least element.
LEMMA FirstOf ==
    ASSUME NEW S \in SUBSET Nat, S # {}
    PROVE  \E p \in S : \A q \in S : p <= q
<1>1. PICK p \in S : \A q \in S : <<q, p>> \notin OpToRel(<, Nat)
  BY NatLessThanWellFounded, WFMin, Zenon
<1>2. \A q \in S : ~(q < p)
  BY <1>1, Zenon DEF OpToRel
<1>3. \A q \in S : p <= q
  BY <1>2
<1> QED
  BY <1>3

\* Operands are nodes, and the operands of a node are a list.
IsList(q) == Len(q) \in Nat /\ DOMAIN q = 1..Len(q)

KidsInLists(h) == \A i \in DOMAIN h : IsList(h[i].kids)

Closed(h) ==
    /\ KidsInLists(h)
    /\ \A i \in DOMAIN h : \A k \in DOMAIN h[i].kids : h[i].kids[k] \in DOMAIN h

-----------------------------------------------------------------------------
(* Written and SameTerm are defined by recursion on the depth.  That the   *)
(* functions exist is shown for the least depth that would be an exception.*)
TermLevel(h, n, below) ==
    [j \in DOMAIN h |->
       <<h[j].sort, h[j].kind, h[j].name,
         IF n = 0 THEN <<>> ELSE [k \in DOMAIN h[j].kids |-> below[h[j].kids[k]]]>>]

SameLevel(h, n, below) ==
    [a \in DOMAIN h |-> [b \in DOMAIN h |->
       \/ a = b
       \/ /\ Alike(h[a], h[b])
          /\ \/ n = 0
             \/ \A k \in DOMAIN h[a].kids : below[h[a].kids[k]][h[b].kids[k]]]]

\* The terms, unrolled to any level, exist.
LEMMA TermsExist ==
    ASSUME NEW h, NEW D \in Nat
    PROVE  \E T : T = [n \in 0..D |-> TermLevel(h, n, T[n - 1])]
<1> DEFINE Missing == {n \in 0..D : ~\E T : \A m \in 0..n : T[m] = TermLevel(h, m, T[m - 1])}
<1>0. ASSUME NEW T, NEW U  PROVE TermLevel(h, 0, T) = TermLevel(h, 0, U)
  BY DEF TermLevel
<1>1. Missing = {}
  <2> SUFFICES ASSUME Missing # {}  PROVE FALSE
    OBVIOUS
  <2>1. PICK n \in Missing : \A m \in Missing : n <= m
    <3>1. Missing \in SUBSET Nat
      OBVIOUS
    <3> HIDE DEF Missing
    <3> QED
      BY <3>1, FirstOf
  <2>2. n \in 0..D /\ ~\E T : \A m \in 0..n : T[m] = TermLevel(h, m, T[m - 1])
    BY <2>1
  <2>3. \E U : \A m \in 0..n : m # n => U[m] = TermLevel(h, m, U[m - 1])
    <3>1. CASE n = 0
      BY <3>1
    <3>2. CASE n # 0
      <4>1. n - 1 \in 0..D /\ ~(n <= n - 1)
        BY <2>2, <3>2
      <4>2. n - 1 \notin Missing
        <5> HIDE DEF Missing
        <5> QED
          BY <2>1, <4>1
      <4>3. PICK U : \A m \in 0..(n - 1) : U[m] = TermLevel(h, m, U[m - 1])
        BY <4>1, <4>2
      <4>4. \A m \in 0..n : m # n => m \in 0..(n - 1)
        BY <2>2
      <4> QED
        BY <4>3, <4>4
    <3> QED
      BY <3>1, <3>2
  <2>4. PICK U : \A m \in 0..n : m # n => U[m] = TermLevel(h, m, U[m - 1])
    BY <2>3
  <2> DEFINE T == [m \in 0..n |-> IF m = n THEN TermLevel(h, n, U[n - 1]) ELSE U[m]]
  <2>5. \A m \in 0..n : T[m] = IF m = n THEN TermLevel(h, n, U[n - 1]) ELSE U[m]
    OBVIOUS
  <2> HIDE DEF T
  <2>6. ASSUME NEW m \in 0..n
        PROVE  T[m] = TermLevel(h, m, T[m - 1])
    <3>1. T[m] = TermLevel(h, m, U[m - 1])
      BY <2>4, <2>5
    <3>2. CASE m = 0
      BY <1>0, <3>1, <3>2
    <3>3. CASE m # 0
      <4>1. m - 1 \in 0..n /\ m - 1 # n
        BY <2>2, <3>3
      <4> QED
        BY <2>5, <3>1, <4>1
    <3> QED
      BY <3>2, <3>3
  <2> QED
    BY <2>2, <2>6
<1>2. PICK U : \A m \in 0..D : U[m] = TermLevel(h, m, U[m - 1])
  <2>1. D \in 0..D
    OBVIOUS
  <2>2. D \notin Missing
    <3> HIDE DEF Missing
    <3> QED
      BY <1>1
  <2> QED
    BY <2>1, <2>2
<1> DEFINE T == [n \in 0..D |-> U[n]]
<1>3. \A n \in 0..D : T[n] = U[n]
  OBVIOUS
<1> HIDE DEF T
<1>4. ASSUME NEW n \in 0..D
      PROVE  U[n] = TermLevel(h, n, T[n - 1])
  <2>1. CASE n = 0
    BY <1>0, <1>2, <2>1
  <2>2. CASE n # 0
    <3>1. n - 1 \in 0..D
      BY <2>2
    <3> QED
      BY <1>2, <1>3, <3>1
  <2> QED
    BY <2>1, <2>2
<1>5. T = [n \in 0..D |-> TermLevel(h, n, T[n - 1])]
  BY <1>4 DEF T
<1> QED
  BY <1>5

\* The comparison of nodes, unrolled to any level, exists.
LEMMA SamesExist ==
    ASSUME NEW h, NEW D \in Nat
    PROVE  \E T : T = [n \in 0..D |-> SameLevel(h, n, T[n - 1])]
<1> DEFINE Missing == {n \in 0..D : ~\E T : \A m \in 0..n : T[m] = SameLevel(h, m, T[m - 1])}
<1>0. ASSUME NEW T, NEW U  PROVE SameLevel(h, 0, T) = SameLevel(h, 0, U)
  BY DEF SameLevel
<1>1. Missing = {}
  <2> SUFFICES ASSUME Missing # {}  PROVE FALSE
    OBVIOUS
  <2>1. PICK n \in Missing : \A m \in Missing : n <= m
    <3>1. Missing \in SUBSET Nat
      OBVIOUS
    <3> HIDE DEF Missing
    <3> QED
      BY <3>1, FirstOf
  <2>2. n \in 0..D /\ ~\E T : \A m \in 0..n : T[m] = SameLevel(h, m, T[m - 1])
    BY <2>1
  <2>3. \E U : \A m \in 0..n : m # n => U[m] = SameLevel(h, m, U[m - 1])
    <3>1. CASE n = 0
      BY <3>1
    <3>2. CASE n # 0
      <4>1. n - 1 \in 0..D /\ ~(n <= n - 1)
        BY <2>2, <3>2
      <4>2. n - 1 \notin Missing
        <5> HIDE DEF Missing
        <5> QED
          BY <2>1, <4>1
      <4>3. PICK U : \A m \in 0..(n - 1) : U[m] = SameLevel(h, m, U[m - 1])
        BY <4>1, <4>2
      <4>4. \A m \in 0..n : m # n => m \in 0..(n - 1)
        BY <2>2
      <4> QED
        BY <4>3, <4>4
    <3> QED
      BY <3>1, <3>2
  <2>4. PICK U : \A m \in 0..n : m # n => U[m] = SameLevel(h, m, U[m - 1])
    BY <2>3
  <2> DEFINE T == [m \in 0..n |-> IF m = n THEN SameLevel(h, n, U[n - 1]) ELSE U[m]]
  <2>5. \A m \in 0..n : T[m] = IF m = n THEN SameLevel(h, n, U[n - 1]) ELSE U[m]
    OBVIOUS
  <2> HIDE DEF T
  <2>6. ASSUME NEW m \in 0..n
        PROVE  T[m] = SameLevel(h, m, T[m - 1])
    <3>1. T[m] = SameLevel(h, m, U[m - 1])
      BY <2>4, <2>5
    <3>2. CASE m = 0
      BY <1>0, <3>1, <3>2
    <3>3. CASE m # 0
      <4>1. m - 1 \in 0..n /\ m - 1 # n
        BY <2>2, <3>3
      <4> QED
        BY <2>5, <3>1, <4>1
    <3> QED
      BY <3>2, <3>3
  <2> QED
    BY <2>2, <2>6
<1>2. PICK U : \A m \in 0..D : U[m] = SameLevel(h, m, U[m - 1])
  <2>1. D \in 0..D
    OBVIOUS
  <2>2. D \notin Missing
    <3> HIDE DEF Missing
    <3> QED
      BY <1>1
  <2> QED
    BY <2>1, <2>2
<1> DEFINE T == [n \in 0..D |-> U[n]]
<1>3. \A n \in 0..D : T[n] = U[n]
  OBVIOUS
<1> HIDE DEF T
<1>4. ASSUME NEW n \in 0..D
      PROVE  U[n] = SameLevel(h, n, T[n - 1])
  <2>1. CASE n = 0
    BY <1>0, <1>2, <2>1
  <2>2. CASE n # 0
    <3>1. n - 1 \in 0..D
      BY <2>2
    <3> QED
      BY <1>2, <1>3, <3>1
  <2> QED
    BY <2>1, <2>2
<1>5. T = [n \in 0..D |-> SameLevel(h, n, T[n - 1])]
  BY <1>4 DEF T
<1> QED
  BY <1>5

\* What a node is written as is the last of the levels of its term.
LEMMA WrittenByLevels ==
    ASSUME NEW h
    PROVE  \E T : /\ \A n \in 0..Depth : T[n] = TermLevel(h, n, T[n - 1])
                 /\ \A i : Written(h, i) = T[Depth][i]
<1>1. Depth \in Nat
  BY TableBounds DEF Depth
<1>2. \E T : T = [n \in 0..Depth |-> TermLevel(h, n, T[n - 1])]
  BY <1>1, TermsExist, Zenon
<1> DEFINE T == CHOOSE T : T = [n \in 0..Depth |-> TermLevel(h, n, T[n - 1])]
<1>3. T = [n \in 0..Depth |-> TermLevel(h, n, T[n - 1])]
  BY <1>2, Zenon
<1>4. \A i : Written(h, i) = T[Depth][i]
  BY Zenon DEF Written, TermLevel
<1> HIDE DEF T
<1>5. \A n \in 0..Depth : T[n] = TermLevel(h, n, T[n - 1])
  BY <1>3, Zenon
<1> QED
  BY <1>4, <1>5

\* The comparison of terms is the last of its levels.
LEMMA SameByLevels ==
    ASSUME NEW h
    PROVE  \E S : /\ \A n \in 0..HeapBound : S[n] = SameLevel(h, n, S[n - 1])
                 /\ SameTerm(h) = S[HeapBound]
<1>1. HeapBound \in Nat
  BY TableBounds, StaticFacts DEF HeapBound
<1>2. \E S : S = [n \in 0..HeapBound |-> SameLevel(h, n, S[n - 1])]
  BY <1>1, SamesExist, Zenon
<1> DEFINE S == CHOOSE S : S = [n \in 0..HeapBound |-> SameLevel(h, n, S[n - 1])]
<1>3. S = [n \in 0..HeapBound |-> SameLevel(h, n, S[n - 1])]
  BY <1>2, Zenon
<1>4. SameTerm(h) = S[HeapBound]
  BY Zenon DEF SameTerm, SameLevel
<1> HIDE DEF S
<1>5. \A n \in 0..HeapBound : S[n] = SameLevel(h, n, S[n - 1])
  BY <1>3, Zenon
<1> QED
  BY <1>4, <1>5
\* Terms are no deeper than there are nodes.
LEMMA DepthFacts == Depth \in Nat \ {0} /\ HeapBound \in Nat /\ Depth <= HeapBound
BY TableBounds, StaticFacts DEF Depth, HeapBound

TermLevels(h, T) == \A n \in 0..Depth : T[n] = TermLevel(h, n, T[n - 1])
SameLevels(h, S) == \A n \in 0..HeapBound : S[n] = SameLevel(h, n, S[n - 1])

\* A node at one level, by its operands at the one below.
LEMMA LevelsOfTerm ==
    ASSUME NEW h, NEW T, TermLevels(h, T), NEW n \in 0..Depth, NEW j \in DOMAIN h
    PROVE  T[n][j] = <<h[j].sort, h[j].kind, h[j].name,
                       IF n = 0 THEN <<>>
                       ELSE [k \in DOMAIN h[j].kids |-> T[n - 1][h[j].kids[k]]]>>
<1>1. T[n] = TermLevel(h, n, T[n - 1])
  BY DEF TermLevels
<1> QED
  BY <1>1 DEF TermLevel

\* Two nodes that compare equal at one level have operands that do below.
LEMMA LevelsOfSame ==
    ASSUME NEW h, NEW S, SameLevels(h, S), NEW n \in 0..HeapBound,
           NEW a \in DOMAIN h, NEW b \in DOMAIN h, S[n][a][b], a # b
    PROVE  /\ Alike(h[a], h[b])
           /\ n # 0 => \A k \in DOMAIN h[a].kids : S[n - 1][h[a].kids[k]][h[b].kids[k]]
<1>1. S[n] = SameLevel(h, n, S[n - 1])
  BY DEF SameLevels
<1>2. S[n][a][b] = SameLevel(h, n, S[n - 1])[a][b]
  BY <1>1
<1>3. SameLevel(h, n, S[n - 1])[a][b]
        = (\/ a = b
           \/ /\ Alike(h[a], h[b])
              /\ \/ n = 0
                 \/ \A k \in DOMAIN h[a].kids : S[n - 1][h[a].kids[k]][h[b].kids[k]])
  BY Zenon DEF SameLevel
<1> QED
  BY <1>2, <1>3, Zenon

(***************************************************************************)
(* Nodes that are alike and whose operands are the same terms one level    *)
(* down are the same term.                                                 *)
(***************************************************************************)
LEMMA AlikeAndBelow ==
    ASSUME NEW h, Closed(h), NEW T, TermLevels(h, T), NEW n \in 0..Depth,
           NEW a \in DOMAIN h, NEW b \in DOMAIN h, Alike(h[a], h[b]),
           n # 0 => \A k \in DOMAIN h[a].kids : T[n - 1][h[a].kids[k]] = T[n - 1][h[b].kids[k]]
    PROVE  T[n][a] = T[n][b]
<1>1. h[a].sort = h[b].sort /\ h[a].kind = h[b].kind /\ h[a].name = h[b].name
      /\ Len(h[a].kids) = Len(h[b].kids)
  BY DEF Alike
<1>2. DOMAIN h[a].kids = DOMAIN h[b].kids
  BY <1>1 DEF Closed, KidsInLists, IsList
<1>3. n # 0 => [k \in DOMAIN h[a].kids |-> T[n - 1][h[a].kids[k]]]
                 = [k \in DOMAIN h[b].kids |-> T[n - 1][h[b].kids[k]]]
  BY <1>2
<1>4. /\ T[n][a] = <<h[a].sort, h[a].kind, h[a].name,
                     IF n = 0 THEN <<>>
                     ELSE [k \in DOMAIN h[a].kids |-> T[n - 1][h[a].kids[k]]]>>
      /\ T[n][b] = <<h[b].sort, h[b].kind, h[b].name,
                     IF n = 0 THEN <<>>
                     ELSE [k \in DOMAIN h[b].kids |-> T[n - 1][h[b].kids[k]]]>>
  BY LevelsOfTerm
<1> QED
  BY <1>1, <1>3, <1>4

(***************************************************************************)
(* What the nested comparisons take for the same term is the same term, as *)
(* deep as they went.                                                      *)
(***************************************************************************)
LEMMA SameIsSame ==
    ASSUME NEW h, Closed(h), NEW T, TermLevels(h, T), NEW S, SameLevels(h, S)
    PROVE  \A n \in 0..HeapBound : \A m \in 0..Depth : m <= n =>
              \A a, b \in DOMAIN h : S[n][a][b] => T[m][a] = T[m][b]
<1> DEFINE Right(n) == \A m \in 0..Depth : m <= n =>
                          \A a, b \in DOMAIN h : S[n][a][b] => T[m][a] = T[m][b]
           Wrong == {n \in 0..HeapBound : ~Right(n)}
<1>1. Wrong = {}
  <2> SUFFICES ASSUME Wrong # {}  PROVE FALSE
    OBVIOUS
  <2>1. PICK n \in Wrong : \A m \in Wrong : n <= m
    <3>1. Wrong \in SUBSET Nat
      OBVIOUS
    <3> HIDE DEF Wrong
    <3> QED
      BY <3>1, FirstOf
  <2>2. n \in 0..HeapBound /\ ~Right(n)
    BY <2>1
  <2>3. n # 0 => Right(n - 1)
    <3> SUFFICES ASSUME n # 0  PROVE Right(n - 1)
      OBVIOUS
    <3>1. n - 1 \in 0..HeapBound /\ ~(n <= n - 1)
      BY <2>2, DepthFacts
    <3>2. n - 1 \notin Wrong
      <4> HIDE DEF Wrong
      <4> QED
        BY <2>1, <3>1
    <3> HIDE DEF Right
    <3> QED
      BY <3>1, <3>2
  <2>4. ASSUME NEW m \in 0..Depth, m <= n, NEW a \in DOMAIN h, NEW b \in DOMAIN h,
               S[n][a][b], a # b
        PROVE  T[m][a] = T[m][b]
    <3>1. /\ Alike(h[a], h[b])
          /\ n # 0 => \A k \in DOMAIN h[a].kids : S[n - 1][h[a].kids[k]][h[b].kids[k]]
      BY <2>2, <2>4, LevelsOfSame
    <3>2. ASSUME m # 0, NEW k \in DOMAIN h[a].kids
          PROVE  T[m - 1][h[a].kids[k]] = T[m - 1][h[b].kids[k]]
      <4>1. n # 0 /\ m - 1 \in 0..Depth /\ m - 1 <= n - 1
        BY <2>2, <2>4, <3>2, DepthFacts
      <4>2. k \in DOMAIN h[b].kids
        BY <3>1 DEF Alike, Closed, KidsInLists, IsList
      <4>3. h[a].kids[k] \in DOMAIN h /\ h[b].kids[k] \in DOMAIN h
        BY <4>2 DEF Closed
      <4>4. S[n - 1][h[a].kids[k]][h[b].kids[k]]
        BY <3>1, <4>1
      <4>5. Right(n - 1)
        BY <2>3, <4>1
      <4> QED
        BY <4>1, <4>3, <4>4, <4>5
    <3> QED
      BY <3>1, <3>2, AlikeAndBelow
  <2>5. Right(n)
    <3> SUFFICES ASSUME NEW m \in 0..Depth, m <= n, NEW a \in DOMAIN h, NEW b \in DOMAIN h,
                        S[n][a][b]
                 PROVE  T[m][a] = T[m][b]
      BY Zenon
    <3>1. CASE a = b
      BY <3>1
    <3>2. CASE a # b
      BY <2>4, <3>2
    <3> QED
      BY <3>1, <3>2
  <2> QED
    BY <2>2, <2>5
<1> QED
  BY <1>1, Zenon

\* Heaps whose nodes have the same fields and operands are written out alike.
LEMMA WrittenAlike ==
    ASSUME NEW g, Closed(g), NEW h, DOMAIN g \subseteq DOMAIN h,
           \A i \in DOMAIN g : /\ h[i].sort = g[i].sort /\ h[i].kind = g[i].kind
                               /\ h[i].name = g[i].name /\ h[i].kids = g[i].kids,
           NEW T, TermLevels(g, T), NEW U, TermLevels(h, U)
    PROVE  \A n \in 0..Depth : \A i \in DOMAIN g : T[n][i] = U[n][i]
<1> DEFINE Right(n) == \A i \in DOMAIN g : T[n][i] = U[n][i]
           Wrong == {n \in 0..Depth : ~Right(n)}
<1>1. Wrong = {}
  <2> SUFFICES ASSUME Wrong # {}  PROVE FALSE
    OBVIOUS
  <2>1. PICK n \in Wrong : \A m \in Wrong : n <= m
    <3>1. Wrong \in SUBSET Nat
      OBVIOUS
    <3> HIDE DEF Wrong
    <3> QED
      BY <3>1, FirstOf
  <2>2. n \in 0..Depth /\ ~Right(n)
    BY <2>1
  <2>3. n # 0 => Right(n - 1)
    <3> SUFFICES ASSUME n # 0  PROVE Right(n - 1)
      OBVIOUS
    <3>1. n - 1 \in 0..Depth /\ ~(n <= n - 1)
      BY <2>2, DepthFacts
    <3>2. n - 1 \notin Wrong
      <4> HIDE DEF Wrong
      <4> QED
        BY <2>1, <3>1
    <3> HIDE DEF Right
    <3> QED
      BY <3>1, <3>2
  <2>4. ASSUME NEW i \in DOMAIN g
        PROVE  T[n][i] = U[n][i]
    <3>1. n # 0 => \A k \in DOMAIN g[i].kids : T[n - 1][g[i].kids[k]] = U[n - 1][g[i].kids[k]]
      BY <2>3 DEF Closed
    <3>2. n # 0 => [k \in DOMAIN g[i].kids |-> T[n - 1][g[i].kids[k]]]
                     = [k \in DOMAIN h[i].kids |-> U[n - 1][h[i].kids[k]]]
      BY <3>1
    <3>3. i \in DOMAIN h /\ h[i].sort = g[i].sort /\ h[i].kind = g[i].kind /\ h[i].name = g[i].name
      OBVIOUS
    <3>4. T[n][i] = <<g[i].sort, g[i].kind, g[i].name,
                      IF n = 0 THEN <<>>
                      ELSE [k \in DOMAIN g[i].kids |-> T[n - 1][g[i].kids[k]]]>>
      BY <2>2, LevelsOfTerm
    <3>5. U[n][i] = <<h[i].sort, h[i].kind, h[i].name,
                      IF n = 0 THEN <<>>
                      ELSE [k \in DOMAIN h[i].kids |-> U[n - 1][h[i].kids[k]]]>>
      BY <2>2, <3>3, LevelsOfTerm
    <3> QED
      BY <3>2, <3>3, <3>4, <3>5
  <2> QED
    BY <2>2, <2>4
<1> QED
  BY <1>1, Zenon
-----------------------------------------------------------------------------
(***************************************************************************)
(* What createNode returns, whether it was found or made, is what it was   *)
(* asked for; and operands stay in lists.                                  *)
(***************************************************************************)
Meets(h, n, i) == LET g == Append(h, n) IN Written(g, Len(g)) = Written(g, i)

\* The node createNode returns, written out, is the term it was asked for.
LEMMA CreateMeets ==
    ASSUME NEW h, HeapOK(h), KidsInLists(h), NEW tbl, TableOK(h, tbl),
           NEW n, NodeOK(h, n), n.cached = None, IsList(n.kids),
           NEW r, r = CreateNode(h, tbl, n)
    PROVE  KidsInLists(r.heap) /\ Meets(r.heap, n, r.node)
<1> DEFINE S == {n.kids[k] : k \in DOMAIN n.kids}
           known == [i \in DOMAIN h |-> IF i \in S THEN Hashed(h[i]) ELSE h[i]]
           bare == [n EXCEPT !.chash = [k \in DOMAIN n.kids |-> known[n.kids[k]].cached]]
           node == Hashed(bare)
           all == Append(known, node)
           at == Found(all, tbl, Len(all))
<1>1. /\ HeapOK(known) /\ TableOK(known, tbl)
      /\ DOMAIN known = DOMAIN h /\ Len(known) = Len(h)
  <2>1. known = WithHashes(h, S)
    BY DEF WithHashes
  <2> HIDE DEF S, known
  <2> QED
    BY <2>1, HashedHeap
<1>2. \A i \in DOMAIN h : known[i].kids = h[i].kids
  <2> SUFFICES ASSUME NEW i \in DOMAIN h  PROVE known[i].kids = h[i].kids
    OBVIOUS
  <2>1. IsNode(h[i])
    BY DEF HeapOK, NodeOK
  <2>2. known[i] = Hashed(h[i]) \/ known[i] = h[i]
    OBVIOUS
  <2> HIDE DEF known
  <2> QED
    BY <2>1, <2>2, HashedFacts
<1>3. /\ IsNode(bare) /\ bare.sort = n.sort /\ bare.kind = n.kind /\ bare.name = n.name
      /\ bare.kids = n.kids
  BY ChangedHash DEF NodeOK
<1>4. /\ node.sort = n.sort /\ node.kind = n.kind /\ node.name = n.name /\ node.kids = n.kids
  <2> HIDE DEF bare
  <2> QED
    BY <1>3, HashedFacts
<1>5. r = IF at # {} THEN [heap |-> known, table |-> tbl, node |-> tbl[Least(at)].node]
          ELSE [heap |-> all, table |-> Append(tbl, Entry(Len(all), node)), node |-> Len(all)]
  BY DEF CreateNode
<1> HIDE DEF S, known, bare, node
<1> DEFINE last == Len(h) + 1
<1>6. /\ Len(h) \in Nat /\ DOMAIN h = 1..Len(h) /\ DOMAIN known = 1..Len(h)
      /\ DOMAIN all = 1..last /\ Len(all) = last
      /\ \A i \in 1..Len(h) : all[i] = known[i]
      /\ all[last] = node
      /\ \E X : known \in Seq(X)
  <2>1. \E X : known \in Seq(X)
    BY <1>1 DEF HeapOK
  <2>2. Len(h) \in Nat /\ DOMAIN h = 1..Len(h)
    BY AppendFacts DEF HeapOK
  <2>3. /\ DOMAIN all = 1..(Len(known) + 1) /\ Len(all) = Len(known) + 1
        /\ \A i \in 1..Len(known) : all[i] = known[i]
        /\ all[Len(known) + 1] = node
    BY <2>1, AppendFacts
  <2> HIDE DEF all
  <2> QED
    BY <2>1, <2>2, <2>3, <1>1
<1>7. DOMAIN tbl \subseteq Nat
  <2>1. DOMAIN tbl = 1..Len(tbl)
    BY AppendFacts DEF TableOK
  <2> QED
    BY <2>1
<1> HIDE DEF all, at
<1>8. Closed(known)
  BY <1>1, <1>2 DEF Closed, KidsInLists, HeapOK, NodeOK
<1>9. Closed(all)
  <2>1. ASSUME NEW i \in DOMAIN all
        PROVE  IsList(all[i].kids) /\ \A k \in DOMAIN all[i].kids : all[i].kids[k] \in DOMAIN all
    <3>1. CASE i = last
      <4>1. all[i].kids = n.kids
        BY <1>4, <1>6, <3>1
      <4>2. \A k \in DOMAIN n.kids : n.kids[k] \in DOMAIN h
        BY DEF NodeOK
      <4> QED
        BY <4>1, <4>2, <1>6
    <3>2. CASE i # last
      <4>1. i \in DOMAIN known /\ all[i] = known[i]
        BY <1>6, <3>2
      <4>2. /\ IsList(known[i].kids)
            /\ \A k \in DOMAIN known[i].kids : known[i].kids[k] \in DOMAIN known
        BY <4>1, <1>8 DEF Closed, KidsInLists
      <4> QED
        BY <4>1, <4>2, <1>6
    <3> QED
      BY <3>1, <3>2
  <2> QED
    BY <2>1 DEF Closed, KidsInLists
<1>10. CASE at # {}
  <2>1. PICK p \in at : r.node = tbl[p].node /\ r.heap = known
    <3>1. at \subseteq Nat
      BY <1>7 DEF at, Found
    <3>2. Least(at) \in at
      BY <3>1, <1>10, LeastIsIn
    <3> QED
      BY <3>2, <1>5, <1>10
  <2>2. PICK e : e = tbl[p].node
    OBVIOUS
  <2>3. e \in DOMAIN known /\ e # last /\ e \in DOMAIN all /\ Equivalent(all, e, last)
    <3>1. p \in DOMAIN tbl /\ Equivalent(all, e, last)
      BY <2>1, <2>2, <1>6 DEF at, Found
    <3>2. e \in DOMAIN known
      BY <2>2, <3>1, <1>1 DEF TableOK
    <3> QED
      BY <3>1, <3>2, <1>6
  <2>4. /\ Alike(all[e], all[last])
        /\ \A k \in DOMAIN all[e].kids : SameTerm(all)[all[e].kids[k]][all[last].kids[k]]
    BY <2>3, Zenon DEF Equivalent
  <2>5. PICK Sa : SameLevels(all, Sa) /\ SameTerm(all) = Sa[HeapBound]
    BY SameByLevels DEF SameLevels
  <2>6. PICK T : TermLevels(all, T)
    BY WrittenByLevels DEF TermLevels
  <2>7. T[Depth][e] = T[Depth][last]
    <3>1. ASSUME NEW k \in DOMAIN all[e].kids
          PROVE  T[Depth - 1][all[e].kids[k]] = T[Depth - 1][all[last].kids[k]]
      <4>1. HeapBound \in 0..HeapBound /\ Depth - 1 \in 0..Depth /\ Depth - 1 <= HeapBound
        BY DepthFacts
      <4>2. last \in DOMAIN all
        BY <1>6
      <4>3. k \in DOMAIN all[last].kids
        BY <2>3, <2>4, <4>2, <1>9 DEF Alike, Closed, KidsInLists, IsList
      <4>4. all[e].kids[k] \in DOMAIN all /\ all[last].kids[k] \in DOMAIN all
        BY <2>3, <4>2, <4>3, <1>9 DEF Closed
      <4>5. Sa[HeapBound][all[e].kids[k]][all[last].kids[k]]
        BY <2>4, <2>5
      <4>6. \A d \in 0..HeapBound : \A m \in 0..Depth : m <= d =>
               \A a, b \in DOMAIN all : Sa[d][a][b] => T[m][a] = T[m][b]
        BY <2>5, <2>6, <1>9, SameIsSame
      <4>7. PICK d \in 0..HeapBound, m \in 0..Depth : d = HeapBound /\ m = Depth - 1 /\ m <= d
        BY <4>1
      <4>8. \A a, b \in DOMAIN all : Sa[d][a][b] => T[m][a] = T[m][b]
        BY <4>6, <4>7, Zenon
      <4>9. \A a, b \in DOMAIN all : Sa[HeapBound][a][b] => T[Depth - 1][a] = T[Depth - 1][b]
        BY <4>7, <4>8, Zenon
      <4> QED
        BY <4>4, <4>5, <4>9, Zenon
    <3>2. Depth \in 0..Depth /\ last \in DOMAIN all
      BY DepthFacts, <1>6
    <3> QED
      BY <3>1, <3>2, <2>3, <2>4, <2>6, <1>9, AlikeAndBelow
  <2> DEFINE g == Append(known, n)
  <2>8. /\ Len(g) = last /\ DOMAIN g = 1..last /\ g[last] = n
        /\ \A i \in 1..Len(h) : g[i] = known[i]
    BY <1>1, <1>6, AppendFacts
  <2> HIDE DEF g
  <2>9. PICK U : TermLevels(g, U) /\ \A i : Written(g, i) = U[Depth][i]
    BY WrittenByLevels DEF TermLevels
  <2>10. ASSUME NEW i \in DOMAIN all
         PROVE  /\ g[i].sort = all[i].sort /\ g[i].kind = all[i].kind
                /\ g[i].name = all[i].name /\ g[i].kids = all[i].kids
    <3>1. CASE i = last
      BY <3>1, <2>8, <1>4, <1>6
    <3>2. CASE i # last
      <4>1. i \in 1..Len(h)
        BY <3>2, <1>6
      <4> QED
        BY <4>1, <2>8, <1>6
    <3> QED
      BY <3>1, <3>2
  <2>11. DOMAIN all \subseteq DOMAIN g
    BY <2>8, <1>6
  <2>12. \A i \in DOMAIN all : T[Depth][i] = U[Depth][i]
    BY <2>6, <2>9, <2>10, <2>11, <1>9, WrittenAlike, DepthFacts
  <2>13. Written(g, last) = Written(g, e)
    BY <2>3, <2>7, <2>9, <2>12, <1>6
  <2>14. Meets(r.heap, n, r.node)
    BY <2>1, <2>2, <2>8, <2>13 DEF Meets, g
  <2> QED
    BY <2>1, <2>14, <1>8 DEF Closed
<1>11. CASE at = {}
  <2>1. r.heap = all /\ r.node = last
    BY <1>5, <1>6, <1>11
  <2> DEFINE g == Append(all, n)
  <2>2. /\ Len(g) = last + 1 /\ DOMAIN g = 1..(last + 1) /\ g[last + 1] = n
        /\ g[last] = node
    BY <1>6, AppendFacts
  <2> HIDE DEF g
  <2>3. PICK U : TermLevels(g, U) /\ \A i : Written(g, i) = U[Depth][i]
    BY WrittenByLevels DEF TermLevels
  <2>4. last \in DOMAIN g /\ last + 1 \in DOMAIN g /\ Depth \in 0..Depth
    BY <1>6, <2>2, DepthFacts
  <2>5. U[Depth][last] = U[Depth][last + 1]
    <3>1. /\ U[Depth][last] = <<g[last].sort, g[last].kind, g[last].name,
                 IF Depth = 0 THEN <<>>
                 ELSE [k \in DOMAIN g[last].kids |-> U[Depth - 1][g[last].kids[k]]]>>
          /\ U[Depth][last + 1] = <<g[last + 1].sort, g[last + 1].kind, g[last + 1].name,
                 IF Depth = 0 THEN <<>>
                 ELSE [k \in DOMAIN g[last + 1].kids |-> U[Depth - 1][g[last + 1].kids[k]]]>>
      BY <2>3, <2>4, LevelsOfTerm
    <3> QED
      BY <3>1, <2>2, <1>4
  <2>6. Meets(r.heap, n, r.node)
    BY <2>1, <2>2, <2>3, <2>5 DEF Meets, g
  <2> QED
    BY <2>1, <2>6, <1>9 DEF Closed
<1> QED
  BY <1>10, <1>11

-----------------------------------------------------------------------------
(* The operands of every node are a list, and the last call of createNode  *)
(* returned what it was asked for.                                         *)
RequestInv == KidsInLists(heap) /\ RequestMet

\* A step that is one call of createNode meets its request.
LEMMA MadeMeets ==
    ASSUME TableInv, NEW h, HeapOK(h), TableOK(h, table), KidsInLists(h),
           NEW n, NodeOK(h, n), n.cached = None, IsList(n.kids), Create(h, n)
    PROVE  RequestInv'
<1>1. PICK r : r = CreateNode(h, table, n)
  OBVIOUS
<1>2. heap' = r.heap /\ got' = [asked |-> n, node |-> r.node]
  BY <1>1 DEF Create
<1>3. KidsInLists(r.heap) /\ Meets(r.heap, n, r.node)
  BY <1>1, CreateMeets
<1>4. got'.asked = n /\ got'.node = r.node
  BY <1>2
<1> QED
  BY <1>2, <1>3, <1>4 DEF RequestInv, RequestMet, Meets, KidsInLists

\* After a step that asks for nothing only the lists of operands matter.
LEMMA NothingAsked ==
    ASSUME KidsInLists(heap'), got' = None
    PROVE  RequestInv'
BY DEF RequestInv, RequestMet, KidsInLists

\* The lists of operands the actions ask for are lists.
LEMMA OperandLists ==
    /\ IsList(<< >>)
    /\ \A a : IsList(<<a>>)
    /\ \A a, b : IsList(<<a, b>>)
BY DEF IsList

\* mkVar meets its request.
LEMMA MkVarMeets ==
    ASSUME TableInv, RequestInv, NEW s \in Symbols, MkVar(s)
    PROVE  RequestInv'
<1> DEFINE n == Node("Bool", "VAR", <<s>>, << >>)
<1>1. NodeOK(heap, n) /\ n.cached = None
  BY LeafNode
<1>2. IsList(n.kids)
  BY NodeFacts, OperandLists
<1>3. Create(heap, n)
  BY DEF MkVar
<1> HIDE DEF n
<1> QED
  BY <1>1, <1>2, <1>3, MadeMeets DEF TableInv, RequestInv

\* A quantified variable meets its request.
LEMMA MkQuantVarMeets ==
    ASSUME TableInv, RequestInv, MkQuantVar
    PROVE  RequestInv'
<1> DEFINE n == Node("Bool", "QUANT_VAR", <<"QVAR", qvars>>, << >>)
<1>1. NodeOK(heap, n) /\ n.cached = None
  BY LeafNode
<1>2. IsList(n.kids)
  BY NodeFacts, OperandLists
<1>3. Create(heap, n)
  BY DEF MkQuantVar
<1> HIDE DEF n
<1> QED
  BY <1>1, <1>2, <1>3, MadeMeets DEF TableInv, RequestInv

\* An operator meets its request.
LEMMA MkOperMeets ==
    ASSUME TableInv, RequestInv, NEW a \in Terms, NEW b \in Leaves, MkOper(<<a, b>>)
    PROVE  RequestInv'
<1>1. a \in DOMAIN heap /\ b \in DOMAIN heap
  BY OperandsAreNodes DEF TableInv
<1> DEFINE n == Node("Bool", "OP", <<"op">>, <<a, b>>)
<1>2. NodeOK(heap, n) /\ n.cached = None
  <2>1. DOMAIN <<a, b>> = 1..2 /\ \A k \in DOMAIN <<a, b>> : <<a, b>>[k] \in DOMAIN heap
    BY <1>1
  <2>2. Len(<<"op">>) \in 1..3
    OBVIOUS
  <2> QED
    BY <2>1, <2>2, FreshNode
<1>3. IsList(n.kids)
  BY NodeFacts, OperandLists
<1>4. Create(heap, n)
  BY DEF MkOper
<1> HIDE DEF n
<1> QED
  BY <1>2, <1>3, <1>4, MadeMeets DEF TableInv, RequestInv

\* A let variable meets its request.
LEMMA MkLetBindVarMeets ==
    ASSUME TableInv, RequestInv, NEW k \in 0..1, NEW i \in Kinds({"OP", "FORALL"}),
           MkLetBindVar(k, i)
    PROVE  RequestInv'
<1>1. i \in DOMAIN heap
  BY OperandsAreNodes DEF TableInv
<1> DEFINE n == Node("Bool", "LET_BIND_VAR", <<"L", k>>, <<i>>)
<1>2. NodeOK(heap, n) /\ n.cached = None
  <2>1. \A j \in DOMAIN <<i>> : <<i>>[j] \in DOMAIN heap
    BY <1>1
  <2>2. Len(<<"L", k>>) \in 1..3
    OBVIOUS
  <2> QED
    BY <2>1, <2>2, FreshNode
<1>3. IsList(n.kids)
  BY NodeFacts, OperandLists
<1>4. Create(heap, n)
  BY DEF MkLetBindVar
<1> HIDE DEF n
<1> QED
  BY <1>2, <1>3, <1>4, MadeMeets DEF TableInv, RequestInv

\* The variable of a quantifier gets another name and keeps everything else.
LEMMA MkQuantifierMeets ==
    ASSUME TableInv, RequestInv, NEW body \in Terms, NEW v \in Kinds({"QUANT_VAR"}),
           MkQuantifier(body, v)
    PROVE  RequestInv'
<1> DEFINE name == <<"Q", quantifiers', 0>>
           g == [heap EXCEPT ![v].name = name]
           n == Node("Bool", "FORALL", <<"forall">>, <<body, v>>)
<1>1. body \in DOMAIN heap /\ v \in DOMAIN heap /\ v \in Kinds({"VAR", "QUANT_VAR"})
      /\ NodeOK(heap, heap[v])
  BY OperandsAreNodes DEF TableInv, Kinds, HeapOK
<1>2. Create(g, n)
  BY DEF MkQuantifier
<1>3. HeapOK(g) /\ TableOK(g, table) /\ DOMAIN g = DOMAIN heap
      /\ \A j \in DOMAIN heap : j # v => g[j] = heap[j]
  <2>1. Len(name) \in 1..3
    OBVIOUS
  <2> HIDE DEF name
  <2> QED
    BY <2>1, <1>1, RenamedInPlace
<1>4. g[v].kids = heap[v].kids
  <2>1. PICK m : m = [heap[v] EXCEPT !.name = name]
    OBVIOUS
  <2>2. m.kids = heap[v].kids
    BY <1>1, <2>1, ChangedName DEF NodeOK
  <2>3. g[v] = m
    BY <1>1, <2>1
  <2> QED
    BY <2>2, <2>3
<1>5. KidsInLists(g)
  <2> HIDE DEF g
  <2> QED
    BY <1>3, <1>4 DEF KidsInLists, RequestInv
<1>6. NodeOK(g, n) /\ n.cached = None
  <2>1. \A k \in DOMAIN <<body, v>> : <<body, v>>[k] \in DOMAIN g
    BY <1>1, <1>3
  <2>2. Len(<<"forall">>) \in 1..3
    OBVIOUS
  <2> HIDE DEF g
  <2> QED
    BY <2>1, <2>2, FreshNode
<1>7. IsList(n.kids)
  BY NodeFacts, OperandLists
<1>8. PICK h : h = g
  OBVIOUS
<1> HIDE DEF n, g
<1> QED
  BY <1>2, <1>3, <1>5, <1>6, <1>7, <1>8, MadeMeets

\* Two calls of createNode, of the parameter and of the function.
LEMMA FunctionMeets ==
    ASSUME TableInv, RequestInv,
           NEW m, NodeOK(heap, m), m.cached = None, IsList(m.kids),
           NEW p, p = CreateNode(heap, table, m),
           NEW n, NodeOK(p.heap, n), n.cached = None, IsList(n.kids),
           heap' = CreateNode(p.heap, p.table, n).heap, got' = None
    PROVE  RequestInv'
<1>1. HeapOK(heap) /\ TableOK(heap, table) /\ KidsInLists(heap)
  BY DEF TableInv, RequestInv
<1>2. KidsInLists(p.heap)
  BY <1>1, CreateMeets
<1>3. HeapOK(p.heap) /\ TableOK(p.heap, p.table)
  BY <1>1, CreateMakes DEF Made, Kept
<1>4. PICK r : r = CreateNode(p.heap, p.table, n)
  OBVIOUS
<1>5. KidsInLists(r.heap)
  BY <1>2, <1>3, <1>4, CreateMeets
<1> QED
  BY <1>4, <1>5, NothingAsked

\* The declaration of a function meets its request.
LEMMA MkFuncDecMeets ==
    ASSUME TableInv, RequestInv, NEW s \in Symbols, MkFuncDec(s)
    PROVE  RequestInv'
<1> DEFINE m == Node("Bool", "FUNC_PARAM", <<"Bool">>, << >>)
           p == CreateNode(heap, table, m)
           n == Node("Bool", "FUNC_DEC", <<s>>, <<NullNode, p.node>>)
<1>1. NullNode \in DOMAIN heap
  BY OperandsAreNodes DEF TableInv
<1>2. NodeOK(heap, m) /\ m.cached = None /\ NodeOK(p.heap, n) /\ n.cached = None
  BY <1>1, FunctionNode
<1>3. IsList(m.kids) /\ IsList(n.kids)
  BY NodeFacts, OperandLists
<1>4. heap' = CreateNode(p.heap, p.table, n).heap /\ got' = None
  BY DEF MkFuncDec
<1>5. PICK q : q = p
  OBVIOUS
<1> HIDE DEF m, n
<1> QED
  BY <1>2, <1>3, <1>4, <1>5, FunctionMeets

\* A definition meets its request.
LEMMA DefineNewMeets ==
    ASSUME TableInv, RequestInv, NEW s \in Symbols, NEW body \in Terms,
           NEW kind \in DefinitionKinds, DefineNew(s, body, kind)
    PROVE  RequestInv'
<1> DEFINE m == Node("Bool", "FUNC_PARAM", <<"p">>, << >>)
           p == CreateNode(heap, table, m)
           n == Node("Bool", kind, <<s>>, <<body, p.node>>)
<1>1. body \in DOMAIN heap
  BY OperandsAreNodes DEF TableInv
<1>2. NodeOK(heap, m) /\ m.cached = None /\ NodeOK(p.heap, n) /\ n.cached = None
  BY <1>1, FunctionNode
<1>3. IsList(m.kids) /\ IsList(n.kids)
  BY NodeFacts, OperandLists
<1>4. heap' = CreateNode(p.heap, p.table, n).heap /\ got' = None
  BY DEF DefineNew
<1>5. PICK q : q = p
  OBVIOUS
<1> HIDE DEF m, n
<1> QED
  BY <1>2, <1>3, <1>4, <1>5, FunctionMeets

\* A node gets other operands where it stands.
LEMMA ListsInPlace ==
    ASSUME KidsInLists(heap), NEW i \in DOMAIN heap, NEW m, IsList(m.kids),
           heap' = [heap EXCEPT ![i] = m]
    PROVE  KidsInLists(heap')
BY DEF KidsInLists

\* Defining what was declared asks for nothing and breaks no list of operands.
LEMMA DefineDeclaredMeets ==
    ASSUME TableInv, RequestInv, NEW s \in Symbols, NEW body \in Terms,
           NEW kind \in DefinitionKinds, DefineDeclared(s, body, kind)
    PROVE  RequestInv'
<1> DEFINE i == funs[s]
           kids == <<body, heap[i].kids[2]>>
           d == [heap[i] EXCEPT !.kind = kind]
           m == [d EXCEPT !.kids = kids]
<1>1. i \in DOMAIN heap /\ IsNode(heap[i])
  BY DEF TableInv, FunsIn, DefineDeclared, HeapOK, NodeOK
<1>2. IsNode(d)
  <2> HIDE DEF i
  <2> QED
    BY <1>1, ChangedKind
<1>3. m.kids = kids
  <2> HIDE DEF d, kids, i
  <2> QED
    BY <1>2, ChangedKids
<1>4. heap' = [heap EXCEPT ![i] = m] /\ got' = None
  BY <1>1 DEF DefineDeclared
<1>5. IsList(m.kids)
  <2>1. IsList(kids)
    BY OperandLists
  <2> HIDE DEF m, kids
  <2> QED
    BY <1>3, <2>1
<1> HIDE DEF m, kids, d, i
<1>6. KidsInLists(heap')
  BY <1>1, <1>4, <1>5, ListsInPlace DEF RequestInv
<1> QED
  BY <1>4, <1>6, NothingAsked

\* Nor does sorting operands in place.
LEMMA SortOperandsMeets ==
    ASSUME TableInv, RequestInv, NEW i \in Kinds({"OP"}), SortOperands(i)
    PROVE  RequestInv'
<1> DEFINE kids == <<heap[i].kids[2], heap[i].kids[1]>>
           m == [heap[i] EXCEPT !.kids = kids]
<1>1. i \in DOMAIN heap /\ IsNode(heap[i])
  BY DEF TableInv, Kinds, HeapOK, NodeOK
<1>2. m.kids = kids
  <2> HIDE DEF kids
  <2> QED
    BY <1>1, ChangedKids
<1>3. heap' = [heap EXCEPT ![i] = m] /\ got' = None
  BY <1>1 DEF SortOperands
<1>4. IsList(m.kids)
  <2>1. IsList(kids)
    BY OperandLists
  <2> HIDE DEF m, kids
  <2> QED
    BY <1>2, <2>1
<1> HIDE DEF m, kids
<1>5. KidsInLists(heap')
  BY <1>1, <1>3, <1>4, ListsInPlace DEF RequestInv
<1> QED
  BY <1>3, <1>5, NothingAsked

\* Nor does renaming.
LEMMA RenameSymbolMeets ==
    ASSUME TableInv, RequestInv, NEW i \in Kinds({"VAR", "QUANT_VAR"}), RenameSymbol(i)
    PROVE  RequestInv'
<1> DEFINE name == <<"S", Cardinality({j \in DOMAIN heap : heap[j].name[1] = "S"})>>
           m == [heap[i] EXCEPT !.name = name]
<1>1. i \in DOMAIN heap /\ IsNode(heap[i])
  BY DEF TableInv, Kinds, HeapOK, NodeOK
<1>2. m.kids = heap[i].kids
  <2> HIDE DEF name
  <2> QED
    BY <1>1, ChangedName
<1>3. heap' = [heap EXCEPT ![i] = m] /\ got' = None
  BY <1>1 DEF RenameSymbol
<1>4. IsList(m.kids)
  <2> HIDE DEF m
  <2> QED
    BY <1>1, <1>2 DEF RequestInv, KidsInLists
<1> HIDE DEF m, name
<1>5. KidsInLists(heap')
  BY <1>1, <1>3, <1>4, ListsInPlace DEF RequestInv
<1> QED
  BY <1>3, <1>5, NothingAsked

\* Nor does an application, which is outside of the table.
LEMMA MkApplyMeets ==
    ASSUME TableInv, RequestInv, NEW f \in Kinds(DefinitionKinds), NEW arg \in Leaves,
           MkApply(f, arg)
    PROVE  RequestInv'
<1> DEFINE kids == <<f, arg>>
           b == Node("Bool", "FUNC_APPLY", heap[f].name, kids)
           n == [b EXCEPT !.chash = << >>]
<1>1. IsNode(b) /\ b.kids = kids
  BY NodeFacts
<1>2. n.kids = kids
  <2> HIDE DEF b, kids
  <2> QED
    BY <1>1, ChangedHash
<1>3. IsList(n.kids)
  <2>1. IsList(kids)
    BY OperandLists
  <2> HIDE DEF n, kids
  <2> QED
    BY <1>2, <2>1
<1>4. heap' = Append(heap, n) /\ got' = None
  BY DEF MkApply
<1>5. \E S : heap \in Seq(S)
  BY DEF TableInv, HeapOK
<1> HIDE DEF n
<1>6. /\ Len(heap) \in Nat /\ DOMAIN heap = 1..Len(heap)
      /\ DOMAIN heap' = 1..(Len(heap) + 1)
      /\ \A i \in 1..Len(heap) : heap'[i] = heap[i]
      /\ heap'[Len(heap) + 1] = n
  <2>1. PICK all : all = Append(heap, n)
    OBVIOUS
  <2>2. /\ Len(heap) \in Nat /\ DOMAIN heap = 1..Len(heap)
        /\ DOMAIN all = 1..(Len(heap) + 1)
        /\ \A i \in 1..Len(heap) : all[i] = heap[i]
        /\ all[Len(heap) + 1] = n
    BY <1>5, <2>1, AppendFacts
  <2> QED
    BY <2>1, <2>2, <1>4
<1>7. ASSUME NEW i \in DOMAIN heap'
      PROVE  IsList(heap'[i].kids)
  <2>1. CASE i = Len(heap) + 1
    BY <2>1, <1>3, <1>6
  <2>2. CASE i # Len(heap) + 1
    <3>1. i \in DOMAIN heap /\ heap'[i] = heap[i]
      BY <2>2, <1>6
    <3> QED
      BY <3>1 DEF RequestInv, KidsInLists
  <2> QED
    BY <2>1, <2>2
<1>8. KidsInLists(heap')
  BY <1>7 DEF KidsInLists
<1> QED
  BY <1>4, <1>8, NothingAsked

\* A node that is cleared has no operands.
LEMMA NextParserMeets ==
    ASSUME TableInv, RequestInv, NextParser
    PROVE  RequestInv'
<1>1. NumStatic = 20 /\ Len(heap) >= 20 /\ Len(heap) \in Nat /\ DOMAIN heap = 1..Len(heap)
  BY HeapFacts DEF TableInv
<1>2. heap' = ClearedHeap /\ got' = None
  BY DEF NextParser
<1>3. ASSUME NEW i \in 1..NumStatic
      PROVE  IsList(Cleared(heap[i]).kids) /\ IsList(heap[i].kids)
  <2>1. i \in DOMAIN heap /\ IsNode(heap[i])
    <3>1. i \in DOMAIN heap
      BY <1>1
    <3> QED
      BY <3>1 DEF TableInv, HeapOK, NodeOK
  <2>2. Cleared(heap[i]).kids = << >>
    BY <2>1 DEF Cleared, IsNode, NodeFields
  <2> QED
    BY <2>1, <2>2, OperandLists DEF RequestInv, KidsInLists
<1>4. KidsInLists(ClearedHeap)
  BY <1>3 DEF KidsInLists, ClearedHeap
<1> QED
  BY <1>2, <1>4, NothingAsked

\* At the start nothing was asked for.
LEMMA InitMeets == Init => RequestInv
<1> SUFFICES ASSUME Init PROVE RequestInv
  OBVIOUS
<1>1. heap = [i \in 1..NumStatic |-> Hashed(StaticNodes[i])] /\ got = None
  BY DEF Init
<1>2. ASSUME NEW i \in 1..NumStatic
      PROVE  IsList(Hashed(StaticNodes[i]).kids)
  <2>1. IsNode(StaticNodes[i]) /\ StaticNodes[i].kids = << >>
    BY StaticFacts
  <2>2. Hashed(StaticNodes[i]).kids = << >>
    BY <2>1, HashedFacts
  <2> QED
    BY <2>2, OperandLists
<1> QED
  BY <1>1, <1>2 DEF RequestInv, RequestMet, KidsInLists

\* Every step keeps the invariant of requests.
LEMMA RequestStep == TableInv /\ RequestInv /\ [Next]_state => RequestInv'
<1> SUFFICES ASSUME TableInv, RequestInv, [Next]_state PROVE RequestInv'
  OBVIOUS
<1>1. ASSUME NEW s \in Symbols, MkVar(s) PROVE RequestInv'
  BY <1>1, MkVarMeets
<1>2. ASSUME NEW s \in Symbols, MkFuncDec(s) PROVE RequestInv'
  BY <1>2, MkFuncDecMeets
<1>3. ASSUME NEW s \in Symbols, NEW b \in Terms, NEW k \in DefinitionKinds,
             DefineDeclared(s, b, k) \/ DefineNew(s, b, k)
      PROVE  RequestInv'
  BY <1>3, DefineDeclaredMeets, DefineNewMeets
<1>4. ASSUME MkQuantVar PROVE RequestInv'
  BY <1>4, MkQuantVarMeets
<1>5. ASSUME NEW a \in Terms, NEW b \in Leaves, MkOper(<<a, b>>) PROVE RequestInv'
  BY <1>5, MkOperMeets
<1>6. ASSUME NEW b \in Terms, NEW v \in Kinds({"QUANT_VAR"}), MkQuantifier(b, v)
      PROVE  RequestInv'
  BY <1>6, MkQuantifierMeets
<1>7. ASSUME NEW f \in Kinds(DefinitionKinds), NEW a \in Leaves, MkApply(f, a)
      PROVE  RequestInv'
  BY <1>7, MkApplyMeets
<1>8. ASSUME NEW i \in Kinds({"VAR", "QUANT_VAR"}), RenameSymbol(i) PROVE RequestInv'
  BY <1>8, RenameSymbolMeets
<1>9. ASSUME NEW i \in Kinds({"OP"}), SortOperands(i) PROVE RequestInv'
  BY <1>9, SortOperandsMeets
<1>10. ASSUME NEW k \in 0..1, NEW i \in Kinds({"OP", "FORALL"}), MkLetBindVar(k, i)
       PROVE  RequestInv'
  BY <1>10, MkLetBindVarMeets
<1>11. ASSUME NextParser PROVE RequestInv'
  BY <1>11, NextParserMeets
<1>12. CASE UNCHANGED state
  BY <1>12 DEF state, RequestInv, RequestMet, KidsInLists
<1> QED
  BY <1>1, <1>2, <1>3, <1>4, <1>5, <1>6, <1>7, <1>8, <1>9, <1>10, <1>11, <1>12, Zenon DEF Next

(* Whatever has been renamed, redefined or reordered in place since the    *)
(* entries of the table were made, the node createNode returns is the term *)
(* it was asked for (insertNodeToBucket, isEquivalentTo).                  *)
THEOREM RequestsMet == Spec => []RequestMet
<1>1. Init => RequestInv
  BY InitMeets
<1>2. TableInv /\ TableInv' /\ RequestInv /\ [Next]_state => RequestInv'
  BY RequestStep
<1>3. RequestInv => RequestMet
  BY DEF RequestInv
<1> QED
  BY <1>1, <1>2, <1>3, TableInvariant, PTL DEF Spec

-----------------------------------------------------------------------------
(***************************************************************************)
(* Equal terms are one node.  What the fields of a node say and the hash   *)
(* it remembers, apart.                                                    *)
(***************************************************************************)
SameForm(m, n) ==
    /\ m.sort = n.sort /\ m.kind = n.kind /\ m.name = n.name
    /\ m.kids = n.kids /\ m.chash = n.chash

KidHashes(h, i) == [k \in DOMAIN h[i].kids |-> h[h[i].kids[k]].cached]

TouchedIn(h, i) ==
    /\ h[i].cached # None
    /\ \/ h[i].cached # HashFields(h[i])
       \/ h[i].kind # "FUNC_APPLY" /\ h[i].chash # KidHashes(h, i)

\* From h to g nodes are added and hashes computed, and nothing else is done.
Advances(h, g) ==
    \A i \in DOMAIN h :
        /\ i \in DOMAIN g
        /\ SameForm(h[i], g[i])
        /\ \/ g[i].cached = h[i].cached
           \/ h[i].cached = None /\ g[i].cached = HashFields(h[i])

\* The new node of createNode and its entry: no entry it could be taken for was there.
Stored(h, tbl, n, r) ==
    /\ Len(h) + 1 \notin DOMAIN h
    /\ DOMAIN r.heap = DOMAIN h \cup {Len(h) + 1}
    /\ LET i == Len(h) + 1
       IN  /\ IsNode(r.heap[i])
           /\ r.heap[i].sort = n.sort /\ r.heap[i].kind = n.kind /\ r.heap[i].name = n.name
           /\ r.heap[i].kids = n.kids
           /\ r.heap[i].chash = KidHashes(r.heap, i)
           /\ r.heap[i].cached = HashFields(r.heap[i])
           /\ r.table = Append(tbl, Entry(i, r.heap[i]))
           /\ \A p \in DOMAIN tbl :
                 tbl[p].kind = n.kind /\ tbl[p].hash = r.heap[i].cached
                     => ~Equivalent(r.heap, tbl[p].node, i)

Created(h, tbl, n, r) ==
    /\ Advances(h, r.heap)
    /\ \A k \in DOMAIN n.kids : n.kids[k] \in DOMAIN h /\ r.heap[n.kids[k]].cached # None
    /\ \/ DOMAIN r.heap = DOMAIN h /\ r.table = tbl
       \/ Stored(h, tbl, n, r)

\* createNode finds a node, or makes the one it was asked for where none would do.
LEMMA CreateExactly ==
    ASSUME NEW h, HeapOK(h), NEW tbl, TableOK(h, tbl),
           NEW n, NodeOK(h, n), n.cached = None,
           NEW r, r = CreateNode(h, tbl, n)
    PROVE  Created(h, tbl, n, r)
<1> DEFINE S == {n.kids[k] : k \in DOMAIN n.kids}
           known == [i \in DOMAIN h |-> IF i \in S THEN Hashed(h[i]) ELSE h[i]]
           bare == [n EXCEPT !.chash = [k \in DOMAIN n.kids |-> known[n.kids[k]].cached]]
           node == Hashed(bare)
           all == Append(known, node)
           at == Found(all, tbl, Len(all))
<1>1. HeapOK(known) /\ DOMAIN known = DOMAIN h /\ Len(known) = Len(h)
  <2>1. known = WithHashes(h, S)
    BY DEF WithHashes
  <2> HIDE DEF S, known
  <2> QED
    BY <2>1, HashedHeap
<1>2. ASSUME NEW i \in DOMAIN h
      PROVE  /\ SameForm(h[i], known[i])
             /\ \/ known[i].cached = h[i].cached
                \/ h[i].cached = None /\ known[i].cached = HashFields(h[i])
             /\ i \in S => known[i].cached # None
  <2>1. IsNode(h[i])
    BY DEF HeapOK, NodeOK
  <2>2. known[i] = IF i \in S THEN Hashed(h[i]) ELSE h[i]
    OBVIOUS
  <2> HIDE DEF known, S
  <2> QED
    BY <2>1, <2>2, HashedFacts DEF SameForm
<1>3. \A k \in DOMAIN n.kids : n.kids[k] \in DOMAIN h /\ known[n.kids[k]].cached # None
  <2>1. \A k \in DOMAIN n.kids : n.kids[k] \in DOMAIN h /\ n.kids[k] \in S
    BY DEF NodeOK
  <2> HIDE DEF known, S
  <2> QED
    BY <2>1, <1>2
<1>4. /\ IsNode(bare) /\ bare.sort = n.sort /\ bare.kind = n.kind /\ bare.name = n.name
      /\ bare.kids = n.kids /\ bare.cached = None
      /\ bare.chash = [k \in DOMAIN n.kids |-> known[n.kids[k]].cached]
  <2> DEFINE hashes == [k \in DOMAIN n.kids |-> known[n.kids[k]].cached]
  <2>1. IsNode(n)
    BY DEF NodeOK
  <2> HIDE DEF known, hashes
  <2>2. [n EXCEPT !.chash = hashes].chash = hashes
    BY <2>1 DEF IsNode, NodeFields
  <2> QED
    BY <2>1, <2>2, ChangedHash DEF hashes
<1>5. /\ IsNode(node) /\ node.sort = n.sort /\ node.kind = n.kind /\ node.name = n.name
      /\ node.kids = n.kids
      /\ node.chash = [k \in DOMAIN n.kids |-> known[n.kids[k]].cached]
      /\ node.cached = HashFields(bare) /\ HashFields(bare) = HashFields(node)
      /\ node.cached # None
  <2> HIDE DEF bare, known
  <2> QED
    BY <1>4, HashedFacts DEF HashFields
<1>6. r = IF at # {} THEN [heap |-> known, table |-> tbl, node |-> tbl[Least(at)].node]
          ELSE [heap |-> all, table |-> Append(tbl, Entry(Len(all), node)), node |-> Len(all)]
  BY DEF CreateNode
<1> HIDE DEF S, known, bare, node
<1> DEFINE last == Len(h) + 1
<1>7. /\ Len(h) \in Nat /\ DOMAIN h = 1..Len(h) /\ DOMAIN known = 1..Len(h)
      /\ DOMAIN all = 1..last /\ Len(all) = last
      /\ \A i \in 1..Len(h) : all[i] = known[i]
      /\ all[last] = node
  <2>1. \E X : known \in Seq(X)
    BY <1>1 DEF HeapOK
  <2>2. Len(h) \in Nat /\ DOMAIN h = 1..Len(h)
    BY AppendFacts DEF HeapOK
  <2>3. /\ DOMAIN all = 1..(Len(known) + 1) /\ Len(all) = Len(known) + 1
        /\ \A i \in 1..Len(known) : all[i] = known[i]
        /\ all[Len(known) + 1] = node
    BY <2>1, AppendFacts
  <2> HIDE DEF all
  <2> QED
    BY <2>1, <2>2, <2>3, <1>1
<1> HIDE DEF all
<1>8. CASE at # {}
  <2>1. r.heap = known /\ r.table = tbl
    BY <1>6, <1>8
  <2> QED
    BY <2>1, <1>1, <1>2, <1>3 DEF Created, Advances
<1>9. CASE at = {}
  <2>1. r.heap = all /\ r.table = Append(tbl, Entry(last, node))
    BY <1>6, <1>7, <1>9
  <2>2. \A i \in DOMAIN h : all[i] = known[i] /\ i \in DOMAIN all
    BY <1>7
  <2>3. KidHashes(all, last) = node.chash
    BY <1>3, <1>5, <1>7, <2>2 DEF KidHashes
  <2>4. ASSUME NEW p \in DOMAIN tbl, tbl[p].kind = n.kind, tbl[p].hash = node.cached
        PROVE  ~Equivalent(all, tbl[p].node, last)
    <3>1. HashCode(all[last]) = node.cached /\ all[last].kind = n.kind
      BY <1>5, <1>7 DEF HashCode
    <3>2. p \notin Found(all, tbl, last)
      BY <1>7, <1>9
    <3> QED
      BY <2>4, <3>1, <3>2, Zenon DEF Found
  <2>5. Stored(h, tbl, n, r)
    <3>1. DOMAIN all = DOMAIN h \cup {last} /\ last \notin DOMAIN h
      BY <1>7
    <3> HIDE DEF at
    <3> QED
      BY <1>5, <1>7, <2>1, <2>3, <2>4, <3>1 DEF Stored
  <2> QED
    BY <2>1, <2>2, <2>5, <1>2, <1>3 DEF Created, Advances
<1> QED
  BY <1>8, <1>9

\* A set of nodes with all that is below them.
ClosedSet(h, S) ==
    /\ S \subseteq DOMAIN h
    /\ \A i \in S : \A k \in DOMAIN h[i].kids : h[i].kids[k] \in S

\* The comparison at one level, by the one below.
LEMMA SameExactly ==
    ASSUME NEW h, NEW S, SameLevels(h, S), NEW n \in 0..HeapBound,
           NEW a \in DOMAIN h, NEW b \in DOMAIN h
    PROVE  S[n][a][b] <=> \/ a = b
                          \/ /\ Alike(h[a], h[b])
                             /\ \/ n = 0
                                \/ \A k \in DOMAIN h[a].kids :
                                      S[n - 1][h[a].kids[k]][h[b].kids[k]]
<1>1. S[n] = SameLevel(h, n, S[n - 1])
  BY DEF SameLevels
<1>2. S[n][a][b] = SameLevel(h, n, S[n - 1])[a][b]
  BY <1>1
<1>3. SameLevel(h, n, S[n - 1])[a][b]
        = (\/ a = b
           \/ /\ Alike(h[a], h[b])
              /\ \/ n = 0
                 \/ \A k \in DOMAIN h[a].kids : S[n - 1][h[a].kids[k]][h[b].kids[k]])
  BY Zenon DEF SameLevel
<1> QED
  BY <1>2, <1>3, Zenon

\* Nodes that are alike have operands at the same places.
LEMMA AlikeKids ==
    ASSUME NEW h, KidsInLists(h), NEW a \in DOMAIN h, NEW b \in DOMAIN h, Alike(h[a], h[b])
    PROVE  DOMAIN h[a].kids = DOMAIN h[b].kids /\ Alike(h[b], h[a])
<1>1. Len(h[a].kids) = Len(h[b].kids) /\ Alike(h[b], h[a])
  BY DEF Alike
<1> QED
  BY <1>1 DEF KidsInLists, IsList

\* The comparison sees forms only: of two heaps with the same nodes below, at any level.
LEMMA SameLevelsOn ==
    ASSUME NEW h, KidsInLists(h), NEW g, NEW S, ClosedSet(h, S), S \subseteq DOMAIN g,
           \A i \in S : SameForm(h[i], g[i]),
           NEW L, SameLevels(h, L), NEW M, SameLevels(g, M)
    PROVE  \A n \in 0..HeapBound : \A a, b \in S : L[n][a][b] <=> M[n][a][b]
<1> DEFINE Right(n) == \A a, b \in S : L[n][a][b] <=> M[n][a][b]
           Wrong == {n \in 0..HeapBound : ~Right(n)}
<1>1. Wrong = {}
  <2> SUFFICES ASSUME Wrong # {}  PROVE FALSE
    OBVIOUS
  <2>1. PICK n \in Wrong : \A m \in Wrong : n <= m
    <3>1. Wrong \in SUBSET Nat
      OBVIOUS
    <3> HIDE DEF Wrong
    <3> QED
      BY <3>1, FirstOf
  <2>2. n \in 0..HeapBound /\ ~Right(n)
    BY <2>1
  <2>3. n # 0 => Right(n - 1)
    <3> SUFFICES ASSUME n # 0  PROVE Right(n - 1)
      OBVIOUS
    <3>1. n - 1 \in 0..HeapBound /\ ~(n <= n - 1)
      BY <2>2, DepthFacts
    <3>2. n - 1 \notin Wrong
      <4> HIDE DEF Wrong
      <4> QED
        BY <2>1, <3>1
    <3> HIDE DEF Right
    <3> QED
      BY <3>1, <3>2
  <2>4. ASSUME NEW a \in S, NEW b \in S
        PROVE  L[n][a][b] <=> M[n][a][b]
    <3>1. a \in DOMAIN h /\ b \in DOMAIN h /\ a \in DOMAIN g /\ b \in DOMAIN g
          /\ SameForm(h[a], g[a]) /\ SameForm(h[b], g[b])
      BY DEF ClosedSet
    <3>2. Alike(h[a], h[b]) <=> Alike(g[a], g[b])
      BY <3>1 DEF Alike, SameForm
    <3>3. ASSUME Alike(h[a], h[b]), n # 0, NEW k \in DOMAIN h[a].kids
          PROVE  L[n - 1][h[a].kids[k]][h[b].kids[k]] <=> M[n - 1][g[a].kids[k]][g[b].kids[k]]
      <4>1. k \in DOMAIN h[b].kids
        BY <3>1, <3>3, AlikeKids
      <4>2. h[a].kids[k] \in S /\ h[b].kids[k] \in S
        BY <4>1 DEF ClosedSet
      <4>3. h[a].kids[k] = g[a].kids[k] /\ h[b].kids[k] = g[b].kids[k]
        BY <3>1 DEF SameForm
      <4>4. PICK c \in S, d \in S : c = h[a].kids[k] /\ d = h[b].kids[k]
        BY <4>2
      <4>5. L[n - 1][c][d] <=> M[n - 1][c][d]
        BY <2>3, <3>3
      <4> QED
        BY <4>3, <4>4, <4>5
    <3>4. DOMAIN h[a].kids = DOMAIN g[a].kids
      BY <3>1 DEF SameForm
    <3>5. L[n][a][b] <=> \/ a = b
                         \/ /\ Alike(h[a], h[b])
                            /\ \/ n = 0
                               \/ \A k \in DOMAIN h[a].kids :
                                     L[n - 1][h[a].kids[k]][h[b].kids[k]]
      BY <2>2, <3>1, SameExactly
    <3>6. M[n][a][b] <=> \/ a = b
                         \/ /\ Alike(g[a], g[b])
                            /\ \/ n = 0
                               \/ \A k \in DOMAIN g[a].kids :
                                     M[n - 1][g[a].kids[k]][g[b].kids[k]]
      BY <2>2, <3>1, SameExactly
    <3>7. Alike(h[a], h[b]) /\ n # 0 =>
             ((\A k \in DOMAIN h[a].kids : L[n - 1][h[a].kids[k]][h[b].kids[k]])
                <=> \A k \in DOMAIN g[a].kids : M[n - 1][g[a].kids[k]][g[b].kids[k]])
      BY <3>3, <3>4, Zenon
    <3> QED
      BY <3>2, <3>5, <3>6, <3>7, Zenon
  <2> QED
    BY <2>2, <2>4
<1> QED
  BY <1>1, Zenon

\* So two heaps with the same nodes below two of them agree on whether they are one term.
LEMMA SameOn ==
    ASSUME NEW h, KidsInLists(h), NEW g, NEW S, ClosedSet(h, S), S \subseteq DOMAIN g,
           \A i \in S : SameForm(h[i], g[i]), NEW a \in S, NEW b \in S
    PROVE  /\ SameTerm(h)[a][b] <=> SameTerm(g)[a][b]
           /\ Equivalent(h, a, b) <=> Equivalent(g, a, b)
<1>1. PICK L : SameLevels(h, L) /\ SameTerm(h) = L[HeapBound]
  BY SameByLevels DEF SameLevels
<1>2. PICK M : SameLevels(g, M) /\ SameTerm(g) = M[HeapBound]
  BY SameByLevels DEF SameLevels
<1>3. HeapBound \in 0..HeapBound
  BY DepthFacts
<1>4. \A c, d \in S : SameTerm(h)[c][d] <=> SameTerm(g)[c][d]
  <2>1. \A n \in 0..HeapBound : \A c, d \in S : L[n][c][d] <=> M[n][c][d]
    BY <1>1, <1>2, SameLevelsOn
  <2> QED
    BY <1>1, <1>2, <1>3, <2>1
<1>5. a \in DOMAIN h /\ b \in DOMAIN h /\ SameForm(h[a], g[a]) /\ SameForm(h[b], g[b])
  BY DEF ClosedSet
<1>6. Alike(h[a], h[b]) <=> Alike(g[a], g[b])
  BY <1>5 DEF Alike, SameForm
<1>7. h[a].kids = g[a].kids /\ h[b].kids = g[b].kids
  BY <1>5 DEF SameForm
<1>8. ASSUME Alike(h[a], h[b]), NEW k \in DOMAIN h[a].kids
      PROVE  h[a].kids[k] \in S /\ h[b].kids[k] \in S
  <2>1. k \in DOMAIN h[b].kids
    BY <1>5, <1>8, AlikeKids
  <2> QED
    BY <2>1 DEF ClosedSet
<1>9. Alike(h[a], h[b]) =>
         ((\A k \in DOMAIN h[a].kids : SameTerm(h)[h[a].kids[k]][h[b].kids[k]])
            <=> \A k \in DOMAIN g[a].kids : SameTerm(g)[g[a].kids[k]][g[b].kids[k]])
  BY <1>4, <1>7, <1>8
<1> QED
  BY <1>4, <1>6, <1>9, Zenon DEF Equivalent

\* The comparison does not depend on which node is asked for first.
LEMMA SameTurned ==
    ASSUME NEW h, Closed(h), NEW L, SameLevels(h, L)
    PROVE  \A n \in 0..HeapBound : \A a, b \in DOMAIN h : L[n][a][b] => L[n][b][a]
<1> DEFINE Right(n) == \A a, b \in DOMAIN h : L[n][a][b] => L[n][b][a]
           Wrong == {n \in 0..HeapBound : ~Right(n)}
<1>1. Wrong = {}
  <2> SUFFICES ASSUME Wrong # {}  PROVE FALSE
    OBVIOUS
  <2>1. PICK n \in Wrong : \A m \in Wrong : n <= m
    <3>1. Wrong \in SUBSET Nat
      OBVIOUS
    <3> HIDE DEF Wrong
    <3> QED
      BY <3>1, FirstOf
  <2>2. n \in 0..HeapBound /\ ~Right(n)
    BY <2>1
  <2>3. n # 0 => Right(n - 1)
    <3> SUFFICES ASSUME n # 0  PROVE Right(n - 1)
      OBVIOUS
    <3>1. n - 1 \in 0..HeapBound /\ ~(n <= n - 1)
      BY <2>2, DepthFacts
    <3>2. n - 1 \notin Wrong
      <4> HIDE DEF Wrong
      <4> QED
        BY <2>1, <3>1
    <3> HIDE DEF Right
    <3> QED
      BY <3>1, <3>2
  <2>4. ASSUME NEW a \in DOMAIN h, NEW b \in DOMAIN h, L[n][a][b]
        PROVE  L[n][b][a]
    <3>1. \/ a = b
          \/ /\ Alike(h[a], h[b])
             /\ n = 0 \/ \A k \in DOMAIN h[a].kids : L[n - 1][h[a].kids[k]][h[b].kids[k]]
      BY <2>2, <2>4, SameExactly
    <3>2. CASE a = b
      BY <2>4, <3>2
    <3>3. CASE a # b
      <4>1. Alike(h[b], h[a]) /\ DOMAIN h[a].kids = DOMAIN h[b].kids
        BY <3>1, <3>3, AlikeKids DEF Closed
      <4>2. ASSUME n # 0, NEW k \in DOMAIN h[b].kids
            PROVE  L[n - 1][h[b].kids[k]][h[a].kids[k]]
        <5>1. h[a].kids[k] \in DOMAIN h /\ h[b].kids[k] \in DOMAIN h
          BY <4>1 DEF Closed
        <5>2. L[n - 1][h[a].kids[k]][h[b].kids[k]]
          BY <3>1, <3>3, <4>1, <4>2
        <5> QED
          BY <2>3, <4>2, <5>1, <5>2
      <4>3. n = 0 \/ \A k \in DOMAIN h[b].kids : L[n - 1][h[b].kids[k]][h[a].kids[k]]
        BY <4>2
      <4> QED
        BY <2>2, <4>1, <4>3, SameExactly
    <3> QED
      BY <3>2, <3>3
  <2> QED
    BY <2>2, <2>4
<1> QED
  BY <1>1, Zenon

\* Where operands have smaller addresses a comparison is the same one level deeper, from
\* the level on that is the address.
LEMMA SameDeeper ==
    ASSUME NEW h, Closed(h), NEW D \in Nat, DOMAIN h = 1..D, NEW S, ClosedSet(h, S),
           \A i \in S : \A k \in DOMAIN h[i].kids : h[i].kids[k] < i,
           NEW L, SameLevels(h, L)
    PROVE  \A n \in 0..HeapBound : n + 1 <= HeapBound =>
              \A a, b \in S : a <= n + 1 /\ L[n][a][b] => L[n + 1][a][b]
<1> DEFINE Right(n) == n + 1 <= HeapBound =>
                          \A a, b \in S : a <= n + 1 /\ L[n][a][b] => L[n + 1][a][b]
           Wrong == {n \in 0..HeapBound : ~Right(n)}
<1>1. Wrong = {}
  <2> SUFFICES ASSUME Wrong # {}  PROVE FALSE
    OBVIOUS
  <2>1. PICK n \in Wrong : \A m \in Wrong : n <= m
    <3>1. Wrong \in SUBSET Nat
      OBVIOUS
    <3> HIDE DEF Wrong
    <3> QED
      BY <3>1, FirstOf
  <2>2. n \in 0..HeapBound /\ ~Right(n)
    BY <2>1
  <2>3. n # 0 => Right(n - 1)
    <3> SUFFICES ASSUME n # 0  PROVE Right(n - 1)
      OBVIOUS
    <3>1. n - 1 \in 0..HeapBound /\ ~(n <= n - 1)
      BY <2>2, DepthFacts
    <3>2. n - 1 \notin Wrong
      <4> HIDE DEF Wrong
      <4> QED
        BY <2>1, <3>1
    <3> HIDE DEF Right
    <3> QED
      BY <3>1, <3>2
  <2>4. ASSUME n + 1 <= HeapBound, NEW a \in S, NEW b \in S, a <= n + 1, L[n][a][b], a # b
        PROVE  L[n + 1][a][b]
    <3>1. a \in DOMAIN h /\ b \in DOMAIN h /\ a \in 1..D
      BY DEF ClosedSet
    <3>2. /\ Alike(h[a], h[b])
          /\ n = 0 \/ \A k \in DOMAIN h[a].kids : L[n - 1][h[a].kids[k]][h[b].kids[k]]
      BY <2>2, <2>4, <3>1, SameExactly
    <3>3. ASSUME NEW k \in DOMAIN h[a].kids
          PROVE  L[n][h[a].kids[k]][h[b].kids[k]]
      <4>1. k \in DOMAIN h[b].kids
        BY <3>1, <3>2, AlikeKids DEF Closed
      <4>2. h[a].kids[k] \in S /\ h[b].kids[k] \in S
        BY <4>1 DEF ClosedSet
      <4>3. h[a].kids[k] \in 1..D /\ h[a].kids[k] < a
        BY <4>2 DEF ClosedSet
      <4>4. n # 0 /\ h[a].kids[k] <= n
        BY <2>2, <2>4, <3>1, <4>3
      <4>5. PICK c \in S, d \in S : c = h[a].kids[k] /\ d = h[b].kids[k]
        BY <4>2
      <4>6. L[n - 1][c][d]
        BY <3>2, <4>4, <4>5
      <4>7. n - 1 + 1 = n /\ n <= HeapBound
        BY <2>2, DepthFacts
      <4>8. c <= n - 1 + 1
        BY <4>4, <4>5, <4>7
      <4>9. L[n - 1 + 1][c][d]
        BY <2>3, <4>4, <4>6, <4>7, <4>8
      <4> QED
        BY <4>5, <4>7, <4>9
    <3>4. n + 1 \in 0..HeapBound /\ n + 1 - 1 = n
      BY <2>2, <2>4, DepthFacts
    <3>5. PICK m \in 0..HeapBound : m = n + 1 /\ m - 1 = n
      BY <3>4
    <3>6. \A k \in DOMAIN h[a].kids : L[m - 1][h[a].kids[k]][h[b].kids[k]]
      BY <3>3, <3>5
    <3>7. L[m][a][b]
      BY <3>1, <3>2, <3>6, SameExactly
    <3> QED
      BY <3>5, <3>7
  <2>5. Right(n)
    <3> SUFFICES ASSUME n + 1 <= HeapBound, NEW a \in S, NEW b \in S, a <= n + 1, L[n][a][b]
                 PROVE  L[n + 1][a][b]
      BY Zenon
    <3>1. CASE a = b
      <4>1. n + 1 \in 0..HeapBound /\ a \in DOMAIN h
        BY <2>2, DepthFacts DEF ClosedSet
      <4> QED
        BY <3>1, <4>1, SameExactly
    <3>2. CASE a # b
      BY <2>4, <3>2
    <3> QED
      BY <3>1, <3>2
  <2> QED
    BY <2>2, <2>5
<1> QED
  BY <1>1, Zenon

\* There nodes that compare equal as operands do so when asked for, in either order.
LEMMA SameIsEquivalent ==
    ASSUME NEW h, Closed(h), NEW D \in Nat, DOMAIN h = 1..D, D <= HeapBound,
           NEW S, ClosedSet(h, S),
           \A i \in S : \A k \in DOMAIN h[i].kids : h[i].kids[k] < i,
           NEW a \in S, NEW b \in S, SameTerm(h)[a][b]
    PROVE  Equivalent(h, a, b) /\ Equivalent(h, b, a)
<1>1. PICK L : SameLevels(h, L) /\ SameTerm(h) = L[HeapBound]
  BY SameByLevels DEF SameLevels
<1>2. HeapBound \in 0..HeapBound
  BY DepthFacts
<1>3. \A c, d \in S : L[HeapBound][c][d] => L[HeapBound][d][c]
  BY <1>1, <1>2, SameTurned DEF ClosedSet
<1>4. ASSUME NEW c \in S, NEW d \in S, L[HeapBound][c][d], c # d
      PROVE  Equivalent(h, c, d)
  <2>1. c \in DOMAIN h /\ d \in DOMAIN h /\ c \in 1..D
    BY DEF ClosedSet
  <2>2. /\ Alike(h[c], h[d])
        /\ HeapBound = 0
           \/ \A k \in DOMAIN h[c].kids : L[HeapBound - 1][h[c].kids[k]][h[d].kids[k]]
    <3>1. PICK m \in 0..HeapBound : m = HeapBound
      BY <1>2
    <3>2. L[m][c][d]
      BY <1>4, <3>1
    <3>3. L[m][c][d] <=> \/ c = d
                         \/ /\ Alike(h[c], h[d])
                            /\ \/ m = 0
                               \/ \A k \in DOMAIN h[c].kids :
                                     L[m - 1][h[c].kids[k]][h[d].kids[k]]
      <4>1. SameLevels(h, L) /\ c \in DOMAIN h /\ d \in DOMAIN h /\ m \in 0..HeapBound
        BY <1>1, <2>1, <3>1
      <4> QED
        BY ONLY <4>1, SameExactly
    <3> QED
      BY <1>4, <3>1, <3>2, <3>3, Zenon
  <2>3. ASSUME NEW k \in DOMAIN h[c].kids
        PROVE  L[HeapBound][h[c].kids[k]][h[d].kids[k]]
    <3>1. k \in DOMAIN h[d].kids
      BY <2>1, <2>2, AlikeKids DEF Closed
    <3>2. PICK x \in S, y \in S : x = h[c].kids[k] /\ y = h[d].kids[k]
      BY <3>1 DEF ClosedSet
    <3>3. x \in 1..D /\ x < c
      BY <3>2 DEF ClosedSet
    <3>4. PICK n \in 0..HeapBound : n = HeapBound - 1
      BY <2>1, DepthFacts
    <3>5. n + 1 = HeapBound /\ n + 1 <= HeapBound /\ x <= n + 1 /\ HeapBound # 0
      BY <2>1, <3>3, <3>4, DepthFacts
    <3>6. L[n][x][y]
      BY <2>2, <3>2, <3>4, <3>5
    <3>7. L[n + 1][x][y]
      BY <1>1, <3>5, <3>6, SameDeeper
    <3> QED
      BY <3>2, <3>5, <3>7
  <2> QED
    BY <1>1, <2>2, <2>3 DEF Equivalent
<1>5. CASE a = b
  BY <1>5 DEF Equivalent
<1>6. CASE a # b
  <2>1. L[HeapBound][a][b] /\ L[HeapBound][b][a]
    BY <1>1, <1>3
  <2> QED
    BY <1>4, <1>6, <2>1
<1> QED
  BY <1>5, <1>6

-----------------------------------------------------------------------------
(***************************************************************************)
(* What nodes remember.  An application remembers nothing of its operands; *)
(* a function defined where it stands still has the hash of its            *)
(* declaration; every other node knows the hashes of the operands it was   *)
(* made with, which were there before it.                                  *)
(***************************************************************************)
Redefined(n) == n.cached[2] # n.kind

Remembers(h, i) ==
    \/ /\ h[i].kind = "FUNC_APPLY"
       /\ h[i].cached = None \/ h[i].cached = HashFields(h[i])
       /\ \A k \in DOMAIN h[i].kids : h[i].kids[k] < i
    \/ /\ h[i].kind \in DefinitionKinds
       /\ h[i].cached # None /\ Redefined(h[i])
    \/ /\ h[i].kind # "FUNC_APPLY"
       /\ h[i].cached # None /\ ~Redefined(h[i])
       /\ \A k \in DOMAIN h[i].kids : h[i].kids[k] < i /\ h[h[i].kids[k]].cached # None

\* The two operands of an operator are in the order in which they were, or in the other;
\* if they are two nodes, they have two hashes.
Turned(q) == <<q[2], q[1]>>

OperandsOK(h, i) ==
    h[i].kind = "OP" =>
        /\ h[i].kids = <<h[i].kids[1], h[i].kids[2]>>
        /\ KidHashes(h, i)[1] = KidHashes(h, i)[2] => h[i].kids[1] = h[i].kids[2]
        /\ h[i].chash = KidHashes(h, i) \/ h[i].chash = Turned(KidHashes(h, i))

\* Every node but an application has an entry; an entry knows its kind.
EntriesOK(h, tbl) ==
    /\ \A p \in DOMAIN tbl : tbl[p].kind = tbl[p].hash[2] /\ tbl[p].kind # "FUNC_APPLY"
    /\ \A i \in DOMAIN h : h[i].kind # "FUNC_APPLY" => \E p \in DOMAIN tbl : tbl[p].node = i

NodesRemember(h) == \A i \in DOMAIN h : Remembers(h, i) /\ OperandsOK(h, i)

\* Computing hashes lets every node remember what it did, and lets none seem untouched
\* that was touched.
LEMMA StillRemembers ==
    ASSUME NEW h, NEW g, Advances(h, g), NEW i \in DOMAIN h, Remembers(h, i), OperandsOK(h, i),
           \A k \in DOMAIN h[i].kids : h[i].kids[k] \in DOMAIN h
    PROVE  /\ Remembers(g, i) /\ OperandsOK(g, i)
           /\ ~TouchedIn(g, i) => ~TouchedIn(h, i)
           /\ h[i].kind = "OP" => KidHashes(g, i) = KidHashes(h, i)
<1>1. /\ i \in DOMAIN g /\ SameForm(h[i], g[i])
      /\ \/ g[i].cached = h[i].cached
         \/ h[i].cached = None /\ g[i].cached = HashFields(h[i])
  BY DEF Advances
<1>2. g[i].kind = h[i].kind /\ g[i].kids = h[i].kids /\ g[i].chash = h[i].chash
      /\ HashFields(g[i]) = HashFields(h[i]) /\ HashFields(h[i])[2] = h[i].kind
  BY <1>1 DEF SameForm, HashFields
<1>3. CASE h[i].kind = "FUNC_APPLY"
  <2>1. Remembers(g, i)
    <3>1. "FUNC_APPLY" \notin DefinitionKinds
      BY TableBounds
    <3> QED
      BY <1>1, <1>2, <1>3, <3>1 DEF Remembers
  <2>2. OperandsOK(g, i)
    BY <1>2, <1>3 DEF OperandsOK
  <2>3. TouchedIn(h, i) => TouchedIn(g, i)
    BY <1>1, <1>2, <1>3 DEF TouchedIn
  <2> QED
    BY <2>1, <2>2, <2>3, <1>3
<1>4. CASE h[i].kind \in DefinitionKinds /\ h[i].cached # None /\ Redefined(h[i])
  <2>1. g[i].cached = h[i].cached /\ Redefined(g[i])
    BY <1>1, <1>2, <1>4 DEF Redefined
  <2>2. Remembers(g, i)
    BY <1>2, <1>4, <2>1 DEF Remembers
  <2>3. h[i].kind # "OP"
    BY <1>4, TableBounds
  <2>4. OperandsOK(g, i)
    BY <1>2, <2>3 DEF OperandsOK
  <2>5. TouchedIn(g, i)
    BY <1>2, <1>4, <2>1 DEF TouchedIn, Redefined
  <2> QED
    BY <2>2, <2>3, <2>4, <2>5
<1>5. CASE /\ h[i].kind # "FUNC_APPLY" /\ h[i].cached # None /\ ~Redefined(h[i])
           /\ \A k \in DOMAIN h[i].kids : h[i].kids[k] < i /\ h[h[i].kids[k]].cached # None
  <2>1. \A k \in DOMAIN h[i].kids : g[h[i].kids[k]].cached = h[h[i].kids[k]].cached
    BY <1>5 DEF Advances
  <2>2. KidHashes(g, i) = KidHashes(h, i)
    BY <1>2, <2>1 DEF KidHashes
  <2>3. g[i].cached = h[i].cached
    BY <1>1, <1>5
  <2>4. Remembers(g, i)
    BY <1>2, <1>5, <2>1, <2>3 DEF Remembers, Redefined
  <2>5. OperandsOK(g, i)
    BY <1>2, <2>2 DEF OperandsOK
  <2>6. TouchedIn(h, i) => TouchedIn(g, i)
    BY <1>2, <2>2, <2>3 DEF TouchedIn
  <2> QED
    BY <2>2, <2>4, <2>5, <2>6
<1> QED
  BY <1>3, <1>4, <1>5 DEF Remembers

(***************************************************************************)
(* A set of untouched nodes with all that is below them: in it no two      *)
(* entries are one term.                                                   *)
(***************************************************************************)
UntouchedSet(h, S) == ClosedSet(h, S) /\ \A i \in S : ~TouchedIn(h, i)

SharedIn(h, tbl) ==
    \A p, q \in DOMAIN tbl : p < q =>
       \A S : UntouchedSet(h, S) /\ tbl[p].node \in S /\ tbl[q].node \in S
                => ~Equivalent(h, tbl[p].node, tbl[q].node)

\* From h to g a node is touched or stays what it was.
Carried(h, g) ==
    \A i \in DOMAIN h : /\ i \in DOMAIN g
                        /\ TouchedIn(g, i) \/ (SameForm(h[i], g[i]) /\ ~TouchedIn(h, i))

\* What is untouched now was untouched and the same before.
LEMMA SharedCarried ==
    ASSUME NEW h, Closed(h), NEW g, Carried(h, g), NEW tbl,
           \A p \in DOMAIN tbl : tbl[p].node \in DOMAIN h, SharedIn(h, tbl)
    PROVE  SharedIn(g, tbl)
<1> SUFFICES ASSUME NEW p \in DOMAIN tbl, NEW q \in DOMAIN tbl, p < q, NEW S, UntouchedSet(g, S),
                    tbl[p].node \in S, tbl[q].node \in S
             PROVE  ~Equivalent(g, tbl[p].node, tbl[q].node)
  BY DEF SharedIn
<1> DEFINE R == S \cap DOMAIN h
<1>1. \A i \in R : SameForm(h[i], g[i]) /\ ~TouchedIn(h, i)
  BY DEF Carried, UntouchedSet
<1>2. ClosedSet(h, R)
  <2> SUFFICES ASSUME NEW i \in R, NEW k \in DOMAIN h[i].kids  PROVE h[i].kids[k] \in R
    BY DEF ClosedSet
  <2>1. h[i].kids = g[i].kids
    BY <1>1 DEF SameForm
  <2>2. h[i].kids[k] \in S
    BY <2>1 DEF UntouchedSet, ClosedSet
  <2>3. h[i].kids[k] \in DOMAIN h
    BY DEF Closed
  <2> QED
    BY <2>2, <2>3
<1>3. UntouchedSet(h, R) /\ tbl[p].node \in R /\ tbl[q].node \in R
  BY <1>1, <1>2 DEF UntouchedSet
<1>4. R \subseteq DOMAIN g /\ KidsInLists(h)
  BY DEF UntouchedSet, ClosedSet, Closed
<1> HIDE DEF R
<1>5. ~Equivalent(h, tbl[p].node, tbl[q].node)
  BY <1>3 DEF SharedIn
<1> QED
  BY <1>1, <1>2, <1>3, <1>4, <1>5, SameOn

\* A heap that only advances carries its nodes.
LEMMA AdvancesCarries ==
    ASSUME NEW h, Closed(h), NodesRemember(h), NEW g, Advances(h, g)
    PROVE  Carried(h, g)
<1> SUFFICES ASSUME NEW i \in DOMAIN h
             PROVE  /\ i \in DOMAIN g
                    /\ TouchedIn(g, i) \/ (SameForm(h[i], g[i]) /\ ~TouchedIn(h, i))
  BY DEF Carried
<1>1. i \in DOMAIN g /\ SameForm(h[i], g[i])
  BY DEF Advances
<1>2. ~TouchedIn(g, i) => ~TouchedIn(h, i)
  <2>1. Remembers(h, i) /\ OperandsOK(h, i)
    BY DEF NodesRemember
  <2>2. \A k \in DOMAIN h[i].kids : h[i].kids[k] \in DOMAIN h
    BY DEF Closed
  <2> QED
    BY <2>1, <2>2, StillRemembers
<1> QED
  BY <1>1, <1>2

\* One more entry, if it is no term that has one.
LEMMA SharedAppended ==
    ASSUME NEW h, NEW tbl, \E T : tbl \in Seq(T), NEW e, SharedIn(h, tbl),
           \A p \in DOMAIN tbl : \A S :
              UntouchedSet(h, S) /\ tbl[p].node \in S /\ e.node \in S
                 => ~Equivalent(h, tbl[p].node, e.node)
    PROVE  SharedIn(h, Append(tbl, e))
<1> DEFINE t == Append(tbl, e)
<1>1. /\ Len(tbl) \in Nat /\ DOMAIN tbl = 1..Len(tbl) /\ DOMAIN t = 1..(Len(tbl) + 1)
      /\ \A p \in 1..Len(tbl) : t[p] = tbl[p]
      /\ t[Len(tbl) + 1] = e
  BY AppendFacts
<1> HIDE DEF t
<1> SUFFICES ASSUME NEW p \in DOMAIN t, NEW q \in DOMAIN t, p < q, NEW S, UntouchedSet(h, S),
                    t[p].node \in S, t[q].node \in S
             PROVE  ~Equivalent(h, t[p].node, t[q].node)
  BY DEF SharedIn, t
<1>2. p \in DOMAIN tbl /\ t[p] = tbl[p]
  BY <1>1
<1>3. CASE q = Len(tbl) + 1
  BY <1>1, <1>2, <1>3
<1>4. CASE q # Len(tbl) + 1
  <2>1. q \in DOMAIN tbl /\ t[q] = tbl[q]
    BY <1>1, <1>4
  <2> QED
    BY <1>2, <2>1 DEF SharedIn
<1> QED
  BY <1>3, <1>4

\* Untouched nodes that are alike remember one hash.
LEMMA AlikeHash ==
    ASSUME NEW h, KidsInLists(h), NEW a \in DOMAIN h, NEW b \in DOMAIN h, Alike(h[a], h[b]),
           h[a].cached # None, h[b].cached # None, h[a].kind # "FUNC_APPLY",
           ~TouchedIn(h, a), ~TouchedIn(h, b)
    PROVE  h[a].cached = h[b].cached
<1>1. /\ h[a].kind = h[b].kind /\ Len(h[a].kids) = Len(h[b].kids) /\ h[a].sort = h[b].sort
      /\ h[a].name = h[b].name
      /\ h[a].chash # <<>> /\ h[b].chash # <<>> => h[a].chash = h[b].chash
  BY DEF Alike
<1>2. /\ h[a].cached = HashFields(h[a]) /\ h[b].cached = HashFields(h[b])
      /\ h[a].chash = KidHashes(h, a) /\ h[b].chash = KidHashes(h, b)
  BY <1>1 DEF TouchedIn
<1>3. DOMAIN h[a].kids = DOMAIN h[b].kids
  BY AlikeKids
<1>4. h[a].chash = h[b].chash
  <2>1. ASSUME h[a].chash = <<>> \/ h[b].chash = <<>>
        PROVE  DOMAIN h[a].kids = {} /\ DOMAIN h[b].kids = {}
    BY <2>1, <1>2, <1>3 DEF KidHashes
  <2>2. ASSUME DOMAIN h[a].kids = {}, DOMAIN h[b].kids = {}
        PROVE  KidHashes(h, a) = KidHashes(h, b)
    BY <2>2 DEF KidHashes
  <2> QED
    BY <1>1, <1>2, <2>1, <2>2
<1> QED
  BY <1>1, <1>2, <1>4 DEF HashFields

-----------------------------------------------------------------------------
(***************************************************************************)
(* Sorting operands in place is undone where their hashes tell the order   *)
(* in which the operator had them.                                         *)
(***************************************************************************)
UnsortedNode(h, i) ==
    IF h[i].kind = "OP" /\ h[i].chash # KidHashes(h, i)
    THEN [h[i] EXCEPT !.kids = Turned(h[i].kids)]
    ELSE h[i]

Unsorted(h) == [i \in DOMAIN h |-> UnsortedNode(h, i)]

\* Nodes like these differ in the order of operands at most.
LEMMA UnsortedFacts ==
    ASSUME NEW h, HeapOK(h), KidsInLists(h), NEW i \in DOMAIN h
    PROVE  LET m == Unsorted(h)[i]
           IN /\ m.sort = h[i].sort /\ m.kind = h[i].kind /\ m.name = h[i].name
              /\ m.chash = h[i].chash /\ m.cached = h[i].cached
              /\ IsList(m.kids) /\ HashFields(m) = HashFields(h[i])
              /\ DOMAIN m.kids = DOMAIN h[i].kids
              /\ \/ m = h[i]
                 \/ /\ h[i].kind = "OP" /\ h[i].chash # KidHashes(h, i)
                    /\ m.kids = Turned(h[i].kids) /\ DOMAIN h[i].kids = 1..2
              /\ \A k \in DOMAIN m.kids : \E l \in DOMAIN h[i].kids : m.kids[k] = h[i].kids[l]
              /\ h[i].kind # "OP" => m = h[i]
<1> DEFINE m == Unsorted(h)[i]
<1>1. m = UnsortedNode(h, i) /\ NodeOK(h, h[i])
  BY DEF Unsorted, HeapOK
<1>2. IsList(h[i].kids)
  BY DEF KidsInLists
<1> HIDE DEF m
<1>3. CASE h[i].kind = "OP" /\ h[i].chash # KidHashes(h, i)
  <2>1. DOMAIN h[i].kids = 1..2
    BY <1>1, <1>3 DEF NodeOK, TwoKids
  <2>2. PICK q : q = Turned(h[i].kids)
    OBVIOUS
  <2>3. m = [h[i] EXCEPT !.kids = q]
    BY <1>1, <1>3, <2>2 DEF UnsortedNode
  <2>4. IsNode(h[i])
    BY <1>1 DEF NodeOK
  <2>5. /\ m.sort = h[i].sort /\ m.kind = h[i].kind /\ m.name = h[i].name
        /\ m.chash = h[i].chash /\ m.cached = h[i].cached /\ m.kids = q
    BY <2>3, <2>4 DEF IsNode, NodeFields
  <2>6. Len(h[i].kids) = 2
    <3>1. PICK n \in Nat : n = Len(h[i].kids) /\ DOMAIN h[i].kids = 1..n
      BY <1>2 DEF IsList
    <3>2. 2 \in 1..2 /\ 3 \notin 1..2
      OBVIOUS
    <3>3. 2 \in 1..n /\ 3 \notin 1..n
      BY <2>1, <3>1, <3>2, Zenon
    <3>4. n = 2
      BY <3>3
    <3> QED
      BY <3>1, <3>4
  <2>7. IsList(q) /\ Len(q) = 2 /\ q[1] = h[i].kids[2] /\ q[2] = h[i].kids[1]
    BY <2>2, OperandLists DEF Turned
  <2>8. DOMAIN q = 1..2
    BY <2>7 DEF IsList
  <2>9. \A k \in DOMAIN m.kids : \E l \in DOMAIN h[i].kids : m.kids[k] = h[i].kids[l]
    <3> SUFFICES ASSUME NEW k \in 1..2
                 PROVE  \E l \in 1..2 : q[k] = h[i].kids[l]
      BY <2>1, <2>5, <2>8
    <3>1. CASE k = 1
      BY <2>7, <3>1
    <3>2. CASE k = 2
      BY <2>7, <3>2
    <3> QED
      BY <3>1, <3>2
  <2>10. HashFields(m) = HashFields(h[i])
    BY <2>5, <2>6, <2>7 DEF HashFields
  <2> QED
    BY <1>3, <2>1, <2>2, <2>5, <2>7, <2>8, <2>9, <2>10 DEF m
<1>4. CASE ~(h[i].kind = "OP" /\ h[i].chash # KidHashes(h, i))
  <2>1. m = h[i]
    BY <1>1, <1>4 DEF UnsortedNode
  <2> QED
    BY <1>2, <2>1 DEF m
<1> QED
  BY <1>3, <1>4

\* Unsorted, a heap is one whose nodes remember.
LEMMA UnsortedHeap ==
    ASSUME NEW h, HeapOK(h), KidsInLists(h), NodesRemember(h)
    PROVE  Closed(Unsorted(h)) /\ NodesRemember(Unsorted(h)) /\ DOMAIN Unsorted(h) = DOMAIN h
<1>1. PICK u : u = Unsorted(h)
  OBVIOUS
<1>2. DOMAIN u = DOMAIN h
  BY <1>1 DEF Unsorted
<1>3. ASSUME NEW i \in DOMAIN h
      PROVE  /\ u[i].kind = h[i].kind /\ u[i].chash = h[i].chash /\ u[i].cached = h[i].cached
             /\ IsList(u[i].kids) /\ HashFields(u[i]) = HashFields(h[i])
             /\ \/ u[i] = h[i]
                \/ /\ h[i].kind = "OP" /\ h[i].chash # KidHashes(h, i)
                   /\ u[i].kids = Turned(h[i].kids) /\ DOMAIN h[i].kids = 1..2
             /\ \A k \in DOMAIN u[i].kids : \E l \in DOMAIN h[i].kids : u[i].kids[k] = h[i].kids[l]
             /\ h[i].kind # "OP" => u[i] = h[i]
  BY <1>1, UnsortedFacts
<1>4. \A i \in DOMAIN h : \A k \in DOMAIN h[i].kids : h[i].kids[k] \in DOMAIN h
  BY DEF HeapOK, NodeOK
<1>5. Closed(u)
  BY <1>2, <1>3, <1>4 DEF Closed, KidsInLists
<1>6. ASSUME NEW i \in DOMAIN h
      PROVE  Remembers(u, i)
  <2>1. Remembers(h, i)
    BY DEF NodesRemember
  <2>2. CASE h[i].kind = "OP"
    <3>1. /\ h[i].cached # None /\ ~Redefined(h[i])
          /\ \A k \in DOMAIN h[i].kids : h[i].kids[k] < i /\ h[h[i].kids[k]].cached # None
      <4>1. "OP" \notin DefinitionKinds
        BY TableBounds
      <4> QED
        BY <2>1, <2>2, <4>1 DEF Remembers
    <3>2. \A k \in DOMAIN u[i].kids : u[i].kids[k] < i /\ u[u[i].kids[k]].cached # None
      <4> SUFFICES ASSUME NEW k \in DOMAIN u[i].kids
                   PROVE  u[i].kids[k] < i /\ u[u[i].kids[k]].cached # None
        OBVIOUS
      <4>1. PICK l \in DOMAIN h[i].kids : u[i].kids[k] = h[i].kids[l]
        BY <1>3
      <4>2. h[i].kids[l] \in DOMAIN h
        BY <1>4
      <4> QED
        BY <1>3, <3>1, <4>1, <4>2
    <3> QED
      BY <1>3, <2>2, <3>1, <3>2 DEF Remembers, Redefined
  <2>3. CASE h[i].kind # "OP"
    <3>1. u[i] = h[i]
      BY <1>3, <2>3
    <3>2. \A k \in DOMAIN h[i].kids : u[h[i].kids[k]].cached = h[h[i].kids[k]].cached
      BY <1>3, <1>4
    <3>3. HashFields(u[i]) = HashFields(h[i]) /\ (Redefined(u[i]) <=> Redefined(h[i]))
      BY <3>1
    <3> QED
      BY <2>1, <3>1, <3>2, <3>3 DEF Remembers
  <2> QED
    BY <2>2, <2>3
<1>7. ASSUME NEW i \in DOMAIN h
      PROVE  OperandsOK(u, i)
  <2> SUFFICES ASSUME h[i].kind = "OP"
               PROVE  /\ u[i].kids = <<u[i].kids[1], u[i].kids[2]>>
                      /\ KidHashes(u, i)[1] = KidHashes(u, i)[2] => u[i].kids[1] = u[i].kids[2]
                      /\ \/ u[i].chash = KidHashes(u, i)
                         \/ u[i].chash = Turned(KidHashes(u, i))
    BY <1>3 DEF OperandsOK
  <2>1. /\ DOMAIN h[i].kids = 1..2 /\ h[i].kids = <<h[i].kids[1], h[i].kids[2]>>
        /\ KidHashes(h, i)[1] = KidHashes(h, i)[2] => h[i].kids[1] = h[i].kids[2]
        /\ h[i].chash = KidHashes(h, i) \/ h[i].chash = Turned(KidHashes(h, i))
    BY DEF HeapOK, NodeOK, TwoKids, NodesRemember, OperandsOK
  <2>2. \A k \in 1..2 : h[i].kids[k] \in DOMAIN h
    BY <1>4, <2>1
  <2>3. PICK x, y : x = h[h[i].kids[1]].cached /\ y = h[h[i].kids[2]].cached
    OBVIOUS
  <2>4. u[h[i].kids[1]].cached = x /\ u[h[i].kids[2]].cached = y
    BY <1>3, <2>2, <2>3
  <2>5. KidHashes(h, i) = <<x, y>>
    BY <2>1, <2>3 DEF KidHashes
  <2>6. CASE u[i] = h[i]
    <3>1. KidHashes(u, i) = <<x, y>>
      BY <2>1, <2>4, <2>6 DEF KidHashes
    <3> QED
      BY <2>1, <2>5, <2>6, <3>1
  <2>7. CASE h[i].chash # KidHashes(h, i) /\ u[i].kids = Turned(h[i].kids)
    <3>1. /\ DOMAIN u[i].kids = 1..2 /\ u[i].kids[1] = h[i].kids[2] /\ u[i].kids[2] = h[i].kids[1]
          /\ u[i].kids = <<u[i].kids[1], u[i].kids[2]>>
      BY <2>7 DEF Turned
    <3>2. KidHashes(u, i) = <<y, x>>
      BY <2>4, <3>1 DEF KidHashes
    <3>3. h[i].chash = <<y, x>> /\ u[i].chash = h[i].chash
      BY <1>3, <2>1, <2>5, <2>7 DEF Turned
    <3> QED
      BY <2>1, <2>5, <3>1, <3>2, <3>3
  <2> QED
    BY <1>3, <2>6, <2>7
<1> QED
  BY <1>1, <1>2, <1>5, <1>6, <1>7 DEF NodesRemember

\* Where no operator was sorted there is nothing to undo.
NothingTurned(h) == \A i \in DOMAIN h : h[i].kind = "OP" => h[i].chash = KidHashes(h, i)

LEMMA NothingToUndo ==
    ASSUME NEW h, HeapOK(h), NothingTurned(h)
    PROVE  Unsorted(h) = h
<1>1. \A i \in DOMAIN h : UnsortedNode(h, i) = h[i]
  BY DEF UnsortedNode, NothingTurned
<1>2. h = [i \in DOMAIN h |-> h[i]]
  BY DEF HeapOK
<1> QED
  BY <1>1, <1>2 DEF Unsorted

\* What advances advances unsorted too.
LEMMA AdvancesUnsorted ==
    ASSUME NEW h, HeapOK(h), KidsInLists(h), NodesRemember(h),
           NEW g, HeapOK(g), KidsInLists(g), Advances(h, g)
    PROVE  Advances(Unsorted(h), Unsorted(g))
<1>1. PICK u, v : u = Unsorted(h) /\ v = Unsorted(g)
  OBVIOUS
<1>2. DOMAIN u = DOMAIN h /\ DOMAIN v = DOMAIN g
  BY <1>1 DEF Unsorted
<1>3. ASSUME NEW i \in DOMAIN h
      PROVE  /\ i \in DOMAIN v /\ SameForm(u[i], v[i])
             /\ \/ v[i].cached = u[i].cached
                \/ u[i].cached = None /\ v[i].cached = HashFields(u[i])
  <2>1. /\ i \in DOMAIN g /\ SameForm(h[i], g[i])
        /\ \/ g[i].cached = h[i].cached
           \/ h[i].cached = None /\ g[i].cached = HashFields(h[i])
    BY DEF Advances
  <2>2. /\ u[i].sort = h[i].sort /\ u[i].kind = h[i].kind /\ u[i].name = h[i].name
        /\ u[i].chash = h[i].chash /\ u[i].cached = h[i].cached
        /\ HashFields(u[i]) = HashFields(h[i])
    BY <1>1, UnsortedFacts
  <2>3. /\ v[i].sort = g[i].sort /\ v[i].kind = g[i].kind /\ v[i].name = g[i].name
        /\ v[i].chash = g[i].chash /\ v[i].cached = g[i].cached
    BY <1>1, <2>1, UnsortedFacts
  <2>4. h[i].kind = "OP" => KidHashes(g, i) = KidHashes(h, i)
    <3>1. Remembers(h, i) /\ OperandsOK(h, i)
      BY DEF NodesRemember
    <3>2. \A k \in DOMAIN h[i].kids : h[i].kids[k] \in DOMAIN h
      BY DEF HeapOK, NodeOK
    <3> QED
      BY <3>1, <3>2, StillRemembers
  <2>5. u[i].kids = v[i].kids
    <3>1. u[i] = UnsortedNode(h, i) /\ v[i] = UnsortedNode(g, i)
      BY <1>1, <2>1 DEF Unsorted
    <3>2. h[i].kids = g[i].kids /\ h[i].kind = g[i].kind /\ h[i].chash = g[i].chash
      BY <2>1 DEF SameForm
    <3>3. CASE h[i].kind = "OP" /\ h[i].chash # KidHashes(h, i)
      <4>1. g[i].kind = "OP" /\ g[i].chash # KidHashes(g, i)
        BY <2>4, <3>2, <3>3
      <4>2. PICK q : q = Turned(h[i].kids) /\ q = Turned(g[i].kids)
        BY <3>2
      <4>3. u[i] = [h[i] EXCEPT !.kids = q] /\ v[i] = [g[i] EXCEPT !.kids = q]
        BY <3>1, <3>3, <4>1, <4>2 DEF UnsortedNode
      <4>4. IsNode(h[i]) /\ IsNode(g[i])
        BY <2>1 DEF HeapOK, NodeOK
      <4>5. u[i].kids = q
        BY <4>3, <4>4, ChangedKids
      <4>6. v[i].kids = q
        BY <4>3, <4>4, ChangedKids
      <4> QED
        BY <4>5, <4>6
    <3>4. CASE ~(h[i].kind = "OP" /\ h[i].chash # KidHashes(h, i))
      <4>1. ~(g[i].kind = "OP" /\ g[i].chash # KidHashes(g, i))
        BY <2>4, <3>2, <3>4
      <4> QED
        BY <3>1, <3>2, <3>4, <4>1 DEF UnsortedNode
    <3> QED
      BY <3>3, <3>4
  <2> QED
    BY <1>2, <2>1, <2>2, <2>3, <2>5 DEF SameForm
<1> QED
  BY <1>1, <1>2, <1>3 DEF Advances

-----------------------------------------------------------------------------
(***************************************************************************)
(* One call of createNode.                                                 *)
(***************************************************************************)
InOrder(h, tbl) ==
    /\ HeapOK(h) /\ TableOK(h, tbl) /\ KidsInLists(h)
    /\ NodesRemember(h) /\ EntriesOK(h, tbl)

\* An operator has two operands; if they are two nodes, they have two hashes.
KidsApart(h, n) ==
    n.kind = "OP" =>
        /\ n.kids = <<n.kids[1], n.kids[2]>>
        /\ h[n.kids[1]].cached = h[n.kids[2]].cached => n.kids[1] = n.kids[2]

\* A heap in order has operands that are nodes, in lists.
LEMMA OrderFacts ==
    ASSUME NEW h, NEW tbl, InOrder(h, tbl)
    PROVE  /\ Closed(h) /\ Len(h) \in Nat /\ DOMAIN h = 1..Len(h)
           /\ \E T : tbl \in Seq(T)
           /\ \A p \in DOMAIN tbl : tbl[p].node \in DOMAIN h
<1>1. HeapOK(h) /\ TableOK(h, tbl) /\ KidsInLists(h)
  BY DEF InOrder
<1>2. Closed(h)
  BY <1>1 DEF Closed, HeapOK, NodeOK
<1> QED
  BY <1>1, <1>2, HeapFacts DEF TableOK

\* Of two places in order the new one: its node, and that it remembers.
LEMMA StoredFacts ==
    ASSUME NEW h, NEW tbl, InOrder(h, tbl), NEW n, NodeOK(h, n), n.kind # "FUNC_APPLY",
           NEW r, Created(h, tbl, n, r), Stored(h, tbl, n, r), KidsApart(r.heap, n),
           NEW i, i = Len(h) + 1
    PROVE  /\ i \notin DOMAIN h /\ DOMAIN r.heap = DOMAIN h \cup {i}
           /\ r.heap[i].kind = n.kind /\ r.heap[i].kids = n.kids
           /\ r.heap[i].chash = KidHashes(r.heap, i)
           /\ r.heap[i].cached # None
           /\ Remembers(r.heap, i) /\ OperandsOK(r.heap, i)
           /\ \E e : /\ r.table = Append(tbl, e)
                     /\ e.node = i /\ e.kind = n.kind /\ e.hash = r.heap[i].cached
                     /\ e.kind = e.hash[2]
<1>1. /\ i \notin DOMAIN h /\ DOMAIN r.heap = DOMAIN h \cup {i}
      /\ r.heap[i].kind = n.kind /\ r.heap[i].kids = n.kids
      /\ r.heap[i].chash = KidHashes(r.heap, i)
      /\ r.heap[i].cached = HashFields(r.heap[i])
      /\ r.table = Append(tbl, Entry(i, r.heap[i]))
  BY DEF Stored
<1>2. r.heap[i].cached # None /\ r.heap[i].cached[2] = r.heap[i].kind
  BY <1>1 DEF HashFields, None
<1>3. Remembers(r.heap, i)
  <2>1. \A k \in DOMAIN n.kids : n.kids[k] < i /\ r.heap[n.kids[k]].cached # None
    <3>1. Len(h) \in Nat /\ DOMAIN h = 1..Len(h)
      BY OrderFacts
    <3> QED
      BY <3>1 DEF Created
  <2> QED
    BY <1>1, <1>2, <2>1 DEF Remembers, Redefined
<1>4. OperandsOK(r.heap, i)
  <2> SUFFICES ASSUME n.kind = "OP", KidHashes(r.heap, i)[1] = KidHashes(r.heap, i)[2]
               PROVE  n.kids[1] = n.kids[2]
    BY <1>1 DEF OperandsOK, KidsApart
  <2>1. DOMAIN n.kids = 1..2
    BY DEF NodeOK, TwoKids
  <2>2. /\ KidHashes(r.heap, i)[1] = r.heap[n.kids[1]].cached
        /\ KidHashes(r.heap, i)[2] = r.heap[n.kids[2]].cached
    BY <1>1, <2>1 DEF KidHashes
  <2> QED
    BY <2>2 DEF KidsApart
<1>5. PICK e : e = Entry(i, r.heap[i])
  OBVIOUS
<1>6. e.node = i /\ e.kind = n.kind /\ e.hash = r.heap[i].cached
  BY <1>1, <1>2, <1>5 DEF Entry, HashCode
<1> QED
  BY <1>1, <1>2, <1>3, <1>4, <1>5, <1>6

\* createNode leaves the heap and the table in order.
LEMMA CreateInOrder ==
    ASSUME NEW h, NEW tbl, InOrder(h, tbl),
           NEW n, NodeOK(h, n), n.cached = None, IsList(n.kids), n.kind # "FUNC_APPLY",
           NEW r, r = CreateNode(h, tbl, n), KidsApart(r.heap, n)
    PROVE  InOrder(r.heap, r.table) /\ Created(h, tbl, n, r)
<1>1. HeapOK(h) /\ TableOK(h, tbl) /\ KidsInLists(h) /\ NodesRemember(h) /\ EntriesOK(h, tbl)
  BY DEF InOrder
<1>2. Created(h, tbl, n, r)
  BY <1>1, CreateExactly
<1>3. HeapOK(r.heap) /\ TableOK(r.heap, r.table)
  BY <1>1, CreateMakes DEF Made, Kept
<1>4. KidsInLists(r.heap)
  BY <1>1, CreateMeets
<1>5. \A i \in DOMAIN h : Remembers(r.heap, i) /\ OperandsOK(r.heap, i) /\ i \in DOMAIN r.heap
                           /\ r.heap[i].kind = h[i].kind
  <2> TAKE i \in DOMAIN h
  <2>1. Remembers(h, i) /\ OperandsOK(h, i)
    BY <1>1 DEF NodesRemember
  <2>2. \A k \in DOMAIN h[i].kids : h[i].kids[k] \in DOMAIN h
    BY <1>1 DEF HeapOK, NodeOK
  <2>3. Advances(h, r.heap)
    BY <1>2 DEF Created
  <2>4. i \in DOMAIN r.heap /\ r.heap[i].kind = h[i].kind
    BY <2>3 DEF Advances, SameForm
  <2> QED
    BY <2>1, <2>2, <2>3, <2>4, StillRemembers
<1>6. CASE DOMAIN r.heap = DOMAIN h /\ r.table = tbl
  BY <1>1, <1>2, <1>3, <1>4, <1>5, <1>6 DEF InOrder, NodesRemember, EntriesOK
<1>7. CASE Stored(h, tbl, n, r)
  <2>1. PICK i : i = Len(h) + 1
    OBVIOUS
  <2>2. /\ i \notin DOMAIN h /\ DOMAIN r.heap = DOMAIN h \cup {i}
        /\ Remembers(r.heap, i) /\ OperandsOK(r.heap, i)
        /\ \E e : /\ r.table = Append(tbl, e)
                  /\ e.node = i /\ e.kind = n.kind /\ e.hash = r.heap[i].cached
                  /\ e.kind = e.hash[2]
    BY <1>2, <1>7, <2>1, StoredFacts
  <2>3. NodesRemember(r.heap)
    BY <1>5, <2>2 DEF NodesRemember
  <2>4. PICK e : /\ r.table = Append(tbl, e)
                 /\ e.node = i /\ e.kind = n.kind /\ e.kind = e.hash[2]
    BY <2>2
  <2>5. /\ Len(tbl) \in Nat /\ DOMAIN tbl = 1..Len(tbl) /\ DOMAIN r.table = 1..(Len(tbl) + 1)
        /\ \A p \in 1..Len(tbl) : r.table[p] = tbl[p]
        /\ r.table[Len(tbl) + 1] = e
    BY <1>1, <2>4, AppendFacts DEF TableOK
  <2>6. ASSUME NEW p \in DOMAIN r.table
        PROVE  r.table[p].kind = r.table[p].hash[2] /\ r.table[p].kind # "FUNC_APPLY"
    <3>1. CASE p = Len(tbl) + 1
      BY <2>4, <2>5, <3>1
    <3>2. CASE p # Len(tbl) + 1
      <4>1. p \in DOMAIN tbl /\ r.table[p] = tbl[p]
        BY <2>5, <3>2
      <4> QED
        BY <1>1, <4>1 DEF EntriesOK
    <3> QED
      BY <3>1, <3>2
  <2>7. ASSUME NEW j \in DOMAIN r.heap, r.heap[j].kind # "FUNC_APPLY"
        PROVE  \E p \in DOMAIN r.table : r.table[p].node = j
    <3>1. CASE j = i
      <4>1. Len(tbl) + 1 \in DOMAIN r.table
        BY <2>5
      <4> QED
        BY <2>4, <2>5, <3>1, <4>1
    <3>2. CASE j # i
      <4>1. j \in DOMAIN h /\ h[j].kind # "FUNC_APPLY"
        BY <1>5, <2>2, <2>7, <3>2
      <4>2. PICK p \in DOMAIN tbl : tbl[p].node = j
        BY <1>1, <4>1 DEF EntriesOK
      <4>3. p \in DOMAIN r.table /\ r.table[p] = tbl[p]
        BY <2>5
      <4> QED
        BY <4>2, <4>3
    <3> QED
      BY <3>1, <3>2
  <2>8. EntriesOK(r.heap, r.table)
    BY <2>6, <2>7 DEF EntriesOK
  <2> QED
    BY <1>2, <1>3, <1>4, <2>3, <2>8 DEF InOrder
<1> QED
  BY <1>2, <1>6, <1>7 DEF Created

\* While reading nothing is sorted, and createNode sorts nothing.
LEMMA CreateTurnsNothing ==
    ASSUME NEW h, NEW tbl, InOrder(h, tbl), NothingTurned(h),
           NEW n, NEW r, Created(h, tbl, n, r)
    PROVE  NothingTurned(r.heap)
<1>1. ASSUME NEW i \in DOMAIN h, r.heap[i].kind = "OP"
      PROVE  r.heap[i].chash = KidHashes(r.heap, i)
  <2>1. Advances(h, r.heap) /\ SameForm(h[i], r.heap[i])
    BY DEF Created, Advances
  <2>2. h[i].kind = "OP" /\ r.heap[i].chash = h[i].chash
    BY <1>1, <2>1 DEF SameForm
  <2>3. Remembers(h, i) /\ OperandsOK(h, i)
    BY DEF InOrder, NodesRemember
  <2>4. \A k \in DOMAIN h[i].kids : h[i].kids[k] \in DOMAIN h
    BY DEF InOrder, HeapOK, NodeOK
  <2>5. KidHashes(r.heap, i) = KidHashes(h, i)
    BY <2>1, <2>2, <2>3, <2>4, StillRemembers
  <2> QED
    BY <2>2, <2>5 DEF NothingTurned
<1> QED
  BY <1>1 DEF NothingTurned, Created, Stored

(***************************************************************************)
(* If a lookup among unsorted operands would have found nothing either,    *)
(* the new entry is no term that has one.                                  *)
(***************************************************************************)
LEMMA SharedGrows ==
    ASSUME NEW h, NEW tbl, InOrder(h, tbl), SharedIn(Unsorted(h), tbl),
           NEW n, NodeOK(h, n), n.kind # "FUNC_APPLY",
           NEW r, Created(h, tbl, n, r), InOrder(r.heap, r.table), KidsApart(r.heap, n),
           NEW G, G = Unsorted(r.heap),
           \A p \in DOMAIN tbl : \A S :
              /\ Stored(h, tbl, n, r)
              /\ UntouchedSet(G, S) /\ tbl[p].node \in S /\ Len(h) + 1 \in S
              /\ Equivalent(G, tbl[p].node, Len(h) + 1)
              => Equivalent(r.heap, tbl[p].node, Len(h) + 1)
    PROVE  SharedIn(G, r.table)
<1>1. /\ HeapOK(h) /\ KidsInLists(h) /\ NodesRemember(h) /\ TableOK(h, tbl)
      /\ HeapOK(r.heap) /\ KidsInLists(r.heap) /\ NodesRemember(r.heap)
      /\ TableOK(r.heap, r.table) /\ EntriesOK(h, tbl)
  BY DEF InOrder
<1>2. Closed(Unsorted(h)) /\ NodesRemember(Unsorted(h)) /\ DOMAIN Unsorted(h) = DOMAIN h
      /\ Closed(G) /\ DOMAIN G = DOMAIN r.heap
  BY <1>1, UnsortedHeap
<1>3. SharedIn(G, tbl)
  <2>1. Advances(h, r.heap)
    BY DEF Created
  <2>2. Advances(Unsorted(h), G)
    BY <1>1, <2>1, AdvancesUnsorted
  <2>3. Carried(Unsorted(h), G)
    BY <1>2, <2>2, AdvancesCarries
  <2>4. \A p \in DOMAIN tbl : tbl[p].node \in DOMAIN Unsorted(h)
    BY <1>1, <1>2 DEF TableOK
  <2> QED
    BY <1>2, <2>3, <2>4, SharedCarried
<1>4. CASE r.table = tbl
  BY <1>3, <1>4
<1>5. CASE Stored(h, tbl, n, r)
  <2>1. PICK b : b = Len(h) + 1
    OBVIOUS
  <2>2. /\ b \notin DOMAIN h /\ DOMAIN r.heap = DOMAIN h \cup {b}
        /\ r.heap[b].kind = n.kind /\ r.heap[b].cached # None
        /\ \E e : /\ r.table = Append(tbl, e)
                  /\ e.node = b /\ e.kind = n.kind /\ e.hash = r.heap[b].cached
                  /\ e.kind = e.hash[2]
    BY <1>5, <2>1, StoredFacts
  <2>3. PICK e : /\ r.table = Append(tbl, e)
                 /\ e.node = b /\ e.kind = n.kind /\ e.hash = r.heap[b].cached
                 /\ e.kind = e.hash[2]
    BY <2>2
  <2>4. ASSUME NEW p \in DOMAIN tbl, NEW S, UntouchedSet(G, S), tbl[p].node \in S, b \in S,
               Equivalent(G, tbl[p].node, b)
        PROVE  FALSE
    <3>1. PICK a : a = tbl[p].node
      OBVIOUS
    <3>2. a \in DOMAIN h /\ a # b /\ a \in DOMAIN r.heap /\ b \in DOMAIN r.heap
      BY <1>1, <2>2, <3>1 DEF TableOK
    <3>3. Alike(G[a], G[b])
      BY <2>4, <3>1, <3>2, Zenon DEF Equivalent
    <3>4. p \in DOMAIN r.table /\ r.table[p] = tbl[p]
      <4>1. \E T : tbl \in Seq(T)
        BY <1>1 DEF TableOK
      <4> QED
        BY <2>3, <4>1, AppendFacts
    <3>5. r.heap[a].cached = tbl[p].hash /\ tbl[p].hash # None
      BY <1>1, <3>1, <3>4 DEF TableOK
    <3>6. /\ G[a].cached = r.heap[a].cached /\ G[b].cached = r.heap[b].cached
          /\ G[a].kind = r.heap[a].kind /\ G[b].kind = r.heap[b].kind
      BY <1>1, <3>2, UnsortedFacts
    <3>7. G[a].kind = G[b].kind
      BY <3>3 DEF Alike
    <3>8. ~TouchedIn(G, a) /\ ~TouchedIn(G, b)
      BY <2>4, <3>1 DEF UntouchedSet
    <3>9. G[a].cached = G[b].cached
      <4>1. KidsInLists(G) /\ a \in DOMAIN G /\ b \in DOMAIN G
        BY <1>2, <3>2 DEF Closed
      <4>2. G[a].cached # None /\ G[b].cached # None /\ G[a].kind # "FUNC_APPLY"
        BY <2>2, <3>5, <3>6, <3>7
      <4> QED
        BY <3>3, <3>8, <4>1, <4>2, AlikeHash
    <3>10. tbl[p].hash = r.heap[b].cached /\ tbl[p].kind = n.kind
      <4>1. tbl[p].kind = tbl[p].hash[2]
        BY <1>1 DEF EntriesOK
      <4> QED
        BY <2>3, <3>5, <3>6, <3>9, <4>1
    <3>11. ~Equivalent(r.heap, a, b)
      BY <1>5, <2>1, <3>1, <3>10 DEF Stored
    <3>12. Equivalent(r.heap, a, b)
      BY <1>5, <2>1, <2>4, <3>1
    <3> QED
      BY <3>11, <3>12
  <2>5. \E T : tbl \in Seq(T)
    BY <1>1 DEF TableOK
  <2>6. SharedIn(G, Append(tbl, e))
    BY <1>3, <2>3, <2>4, <2>5, SharedAppended
  <2> QED
    BY <2>3, <2>6
<1> QED
  BY <1>4, <1>5 DEF Created

\* While reading nothing is sorted, so that what createNode looks through is unsorted.
LEMMA ReadingShares ==
    ASSUME NEW h, NEW tbl, InOrder(h, tbl), NothingTurned(h), SharedIn(h, tbl),
           NEW n, NodeOK(h, n), n.cached = None, IsList(n.kids), n.kind # "FUNC_APPLY",
           NEW r, r = CreateNode(h, tbl, n), KidsApart(r.heap, n)
    PROVE  /\ InOrder(r.heap, r.table) /\ NothingTurned(r.heap) /\ SharedIn(r.heap, r.table)
           /\ Created(h, tbl, n, r)
<1>1. InOrder(r.heap, r.table) /\ Created(h, tbl, n, r)
  BY CreateInOrder
<1>2. NothingTurned(r.heap)
  BY <1>1, CreateTurnsNothing
<1>3. Unsorted(h) = h /\ Unsorted(r.heap) = r.heap
  BY <1>1, <1>2, NothingToUndo DEF InOrder
<1>4. SharedIn(Unsorted(h), tbl)
  BY <1>3
<1>5. PICK G : G = Unsorted(r.heap) /\ G = r.heap
  BY <1>3
<1>6. SharedIn(G, r.table)
  BY <1>1, <1>4, <1>5, SharedGrows
<1> QED
  BY <1>1, <1>2, <1>5, <1>6

\* Untouched nodes that are one term as operands are one when asked for, in either order.
LEMMA BothEquivalent ==
    ASSUME NEW h, NEW tbl, InOrder(h, tbl), Len(h) <= HeapBound,
           NEW G, G = Unsorted(h), NEW S, UntouchedSet(G, S),
           NEW a \in S, NEW b \in S, SameTerm(G)[a][b]
    PROVE  Equivalent(G, a, b) /\ Equivalent(G, b, a)
<1>1. /\ HeapOK(h) /\ KidsInLists(h) /\ NodesRemember(h) /\ Len(h) \in Nat
      /\ DOMAIN h = 1..Len(h)
  BY OrderFacts DEF InOrder
<1>2. Closed(G) /\ NodesRemember(G) /\ DOMAIN G = 1..Len(h)
  BY <1>1, UnsortedHeap
<1>3. ASSUME NEW i \in S, NEW k \in DOMAIN G[i].kids
      PROVE  G[i].kids[k] < i
  <2>1. i \in DOMAIN G /\ ~TouchedIn(G, i)
    BY DEF UntouchedSet, ClosedSet
  <2>2. Remembers(G, i)
    BY <1>2, <2>1 DEF NodesRemember
  <2>3. ~(G[i].cached # None /\ Redefined(G[i]))
    <3>1. HashFields(G[i])[2] = G[i].kind
      BY DEF HashFields
    <3> QED
      BY <2>1, <3>1 DEF TouchedIn, Redefined
  <2> QED
    BY <2>2, <2>3 DEF Remembers
<1>4. PICK D \in Nat : D = Len(h) /\ DOMAIN G = 1..D /\ D <= HeapBound
  BY <1>1, <1>2
<1>5. ClosedSet(G, S)
  BY DEF UntouchedSet
<1> QED
  BY <1>2, <1>3, <1>4, <1>5, SameIsEquivalent

\* A node is the same term as itself.
LEMMA SameAsItself ==
    ASSUME NEW h, NEW a \in DOMAIN h
    PROVE  SameTerm(h)[a][a]
<1>1. PICK L : SameLevels(h, L) /\ SameTerm(h) = L[HeapBound]
  BY SameByLevels DEF SameLevels
<1>2. PICK n \in 0..HeapBound : n = HeapBound
  BY DepthFacts
<1>3. L[n][a][a]
  BY <1>1, <1>2, SameExactly
<1> QED
  BY <1>1, <1>2, <1>3

\* While writing operands are sorted. A node with operands that have entries is looked up
\* among them all the same: its operands are nodes, not terms.
LEMMA WritingShares ==
    ASSUME NEW h, NEW tbl, InOrder(h, tbl), SharedIn(Unsorted(h), tbl),
           NEW n, NodeOK(h, n), n.cached = None, IsList(n.kids),
           n.kind \notin {"FUNC_APPLY", "OP"},
           \A k \in DOMAIN n.kids : h[n.kids[k]].kind # "FUNC_APPLY",
           NEW r, r = CreateNode(h, tbl, n), Len(r.heap) <= HeapBound
    PROVE  InOrder(r.heap, r.table) /\ SharedIn(Unsorted(r.heap), r.table)
<1>1. KidsApart(r.heap, n)
  BY DEF KidsApart
<1>2. InOrder(r.heap, r.table) /\ Created(h, tbl, n, r)
  BY <1>1, CreateInOrder
<1>3. PICK G : G = Unsorted(r.heap)
  OBVIOUS
<1>4. PICK g : g = r.heap
  OBVIOUS
<1>5. /\ HeapOK(g) /\ KidsInLists(g) /\ NodesRemember(g) /\ Closed(g)
      /\ Closed(G) /\ DOMAIN G = DOMAIN g
      /\ HeapOK(h) /\ KidsInLists(h) /\ NodesRemember(h) /\ Closed(h)
      /\ DOMAIN Unsorted(h) = DOMAIN h
      /\ Closed(Unsorted(h)) /\ NodesRemember(Unsorted(h))
  BY <1>2, <1>3, <1>4, UnsortedHeap, OrderFacts DEF InOrder
<1>6. SharedIn(G, tbl)
  <2>1. Advances(h, g)
    BY <1>2, <1>4 DEF Created
  <2>2. Advances(Unsorted(h), G)
    BY <1>3, <1>4, <1>5, <2>1, AdvancesUnsorted
  <2>3. Carried(Unsorted(h), G)
    BY <1>5, <2>2, AdvancesCarries
  <2>4. \A p \in DOMAIN tbl : tbl[p].node \in DOMAIN Unsorted(h)
    BY <1>5, OrderFacts
  <2> QED
    BY <1>5, <2>3, <2>4, SharedCarried
<1>7. ASSUME NEW p \in DOMAIN tbl, NEW S, Stored(h, tbl, n, r), UntouchedSet(G, S),
             tbl[p].node \in S, Len(h) + 1 \in S, Equivalent(G, tbl[p].node, Len(h) + 1)
      PROVE  Equivalent(g, tbl[p].node, Len(h) + 1)
  <2>1. PICK a, b : a = tbl[p].node /\ b = Len(h) + 1
    OBVIOUS
  <2>2. /\ b \notin DOMAIN h /\ DOMAIN g = DOMAIN h \cup {b}
        /\ g[b].kind = n.kind /\ g[b].kids = n.kids
    BY <1>1, <1>2, <1>4, <1>7, <2>1, StoredFacts
  <2>3. a \in DOMAIN h /\ a # b /\ a \in DOMAIN g /\ b \in DOMAIN g
    BY <2>1, <2>2, OrderFacts
  <2>4. /\ Alike(G[a], G[b])
        /\ \A k \in DOMAIN G[a].kids : SameTerm(G)[G[a].kids[k]][G[b].kids[k]]
    BY <1>7, <2>1, <2>3, Zenon DEF Equivalent
  <2>5. G[a] = g[a] /\ G[b] = g[b]
    <3>1. /\ G[a].kind = g[a].kind /\ (g[a].kind # "OP" => G[a] = g[a])
          /\ G[b].kind = g[b].kind /\ (g[b].kind # "OP" => G[b] = g[b])
      <4>1. G = Unsorted(g) /\ HeapOK(g) /\ KidsInLists(g) /\ a \in DOMAIN g /\ b \in DOMAIN g
        BY <1>3, <1>4, <1>5, <2>3
      <4> QED
        BY ONLY <4>1, UnsortedFacts
    <3>2. G[a].kind = G[b].kind
      BY <2>4 DEF Alike
    <3>3. g[a].kind # "OP" /\ g[b].kind # "OP"
      BY <2>2, <3>1, <3>2
    <3> QED
      BY <3>1, <3>3
  <2>6. ASSUME NEW k \in DOMAIN g[a].kids
        PROVE  SameTerm(g)[g[a].kids[k]][g[b].kids[k]]
    <3>1. k \in DOMAIN g[b].kids /\ k \in DOMAIN n.kids
      BY <1>5, <2>2, <2>3, <2>4, <2>5, <2>6, AlikeKids
    <3>2. PICK x, y : x = g[a].kids[k] /\ y = g[b].kids[k]
      OBVIOUS
    <3>3. x \in S /\ y \in S /\ SameTerm(G)[x][y]
      BY <1>7, <2>1, <2>4, <2>5, <2>6, <3>1, <3>2 DEF UntouchedSet, ClosedSet
    <3>4. y \in DOMAIN h /\ h[y].kind # "FUNC_APPLY"
      BY <2>2, <3>1, <3>2 DEF NodeOK
    <3>5. x \in DOMAIN h
      <4>1. SameForm(h[a], g[a])
        BY <1>2, <1>4, <2>3 DEF Created, Advances
      <4>2. h[a].kids = g[a].kids
        BY <4>1 DEF SameForm
      <4> QED
        BY <1>5, <2>3, <2>6, <3>2, <4>2 DEF Closed
    <3>6. h[x].kind = h[y].kind
      <4>1. x = y \/ Alike(G[x], G[y])
        <5>1. PICK L : SameLevels(G, L) /\ SameTerm(G) = L[HeapBound]
          BY SameByLevels DEF SameLevels
        <5>2. PICK m \in 0..HeapBound : m = HeapBound
          BY DepthFacts
        <5>3. L[m][x][y] /\ x \in DOMAIN G /\ y \in DOMAIN G
          BY <1>5, <2>2, <3>3, <3>4, <3>5, <5>1, <5>2
        <5> QED
          BY <5>1, <5>2, <5>3, SameExactly
      <4>2. G[x].kind = g[x].kind /\ G[y].kind = g[y].kind
        BY <1>3, <1>4, <1>5, <2>2, <3>4, <3>5, UnsortedFacts
      <4>3. g[x].kind = h[x].kind /\ g[y].kind = h[y].kind
        BY <1>2, <1>4, <3>4, <3>5 DEF Created, Advances, SameForm
      <4> QED
        BY <4>1, <4>2, <4>3 DEF Alike
    <3>7. PICK u \in DOMAIN tbl, v \in DOMAIN tbl : tbl[u].node = x /\ tbl[v].node = y
      BY <3>4, <3>5, <3>6 DEF InOrder, EntriesOK
    <3>8. x = y
      <4>1. Len(g) <= HeapBound /\ InOrder(g, r.table)
        BY <1>2, <1>4
      <4>2. Equivalent(G, x, y) /\ Equivalent(G, y, x)
        BY <1>3, <1>4, <1>7, <3>3, <4>1, BothEquivalent
      <4>3. u \in Nat /\ v \in Nat
        <5>1. DOMAIN tbl = 1..Len(tbl)
          BY OrderFacts, AppendFacts
        <5> QED
          BY <5>1
      <4>4. ~(u < v) /\ ~(v < u)
        BY <1>6, <1>7, <3>3, <3>7, <4>2 DEF SharedIn
      <4> QED
        BY <3>7, <4>3, <4>4
    <3>9. x \in DOMAIN g
      BY <2>2, <3>5
    <3> QED
      BY <3>2, <3>8, <3>9, SameAsItself
  <2>7. Alike(g[a], g[b])
    BY <2>4, <2>5
  <2> QED
    BY <2>1, <2>6, <2>7 DEF Equivalent
<1>8. SharedIn(G, r.table)
  BY <1>1, <1>2, <1>3, <1>4, <1>7, SharedGrows
<1> QED
  BY <1>2, <1>3, <1>8

-----------------------------------------------------------------------------
(***************************************************************************)
(* A node changed where it stands.  One that gets another name or another  *)
(* kind keeps its hash, and so is touched from then on; sorting operands   *)
(* is undone.                                                              *)
(***************************************************************************)
\* A node that is not changed remembers what it did where no hash is computed.
LEMMA UnchangedNode ==
    ASSUME NEW h, Closed(h), NEW g, \A j \in DOMAIN h : g[j].cached = h[j].cached,
           NEW j \in DOMAIN h, g[j] = h[j], Remembers(h, j), OperandsOK(h, j)
    PROVE  KidHashes(g, j) = KidHashes(h, j) /\ Remembers(g, j) /\ OperandsOK(g, j)
<1>1. \A k \in DOMAIN h[j].kids : g[h[j].kids[k]].cached = h[h[j].kids[k]].cached
  BY DEF Closed
<1>2. KidHashes(g, j) = KidHashes(h, j)
  BY <1>1 DEF KidHashes
<1>3. Remembers(g, j)
  <2>1. PICK n : n = h[j] /\ n = g[j]
    OBVIOUS
  <2> QED
    BY <1>1, <2>1 DEF Remembers
<1>4. OperandsOK(g, j)
  BY <1>2 DEF OperandsOK
<1> QED
  BY <1>2, <1>3, <1>4

LEMMA InPlaceShares ==
    ASSUME NEW h, NEW tbl, InOrder(h, tbl), SharedIn(Unsorted(h), tbl),
           NEW i \in DOMAIN h, h[i].kind \notin {"OP", "FUNC_APPLY"},
           NEW g, HeapOK(g), TableOK(g, tbl), KidsInLists(g), DOMAIN g = DOMAIN h,
           \A j \in DOMAIN h : j # i => g[j] = h[j],
           g[i].cached = h[i].cached, g[i].kind \notin {"OP", "FUNC_APPLY"},
           g[i].cached # HashFields(g[i]), Remembers(g, i)
    PROVE  /\ InOrder(g, tbl) /\ SharedIn(Unsorted(g), tbl)
           /\ NothingTurned(h) => NothingTurned(g)
<1>1. /\ HeapOK(h) /\ TableOK(h, tbl) /\ KidsInLists(h) /\ NodesRemember(h) /\ EntriesOK(h, tbl)
      /\ Closed(h)
  BY OrderFacts DEF InOrder
<1>2. \A j \in DOMAIN h : g[j].cached = h[j].cached
  OBVIOUS
<1>3. ASSUME NEW j \in DOMAIN h, j # i
      PROVE  /\ g[j] = h[j] /\ KidHashes(g, j) = KidHashes(h, j)
             /\ Remembers(g, j) /\ OperandsOK(g, j)
  <2>1. g[j] = h[j] /\ Remembers(h, j) /\ OperandsOK(h, j)
    BY <1>1, <1>3 DEF NodesRemember
  <2> QED
    BY <1>1, <1>2, <2>1, UnchangedNode
<1>4. NodesRemember(g)
  BY <1>3 DEF NodesRemember, OperandsOK
<1>5. EntriesOK(g, tbl)
  <2>1. \A j \in DOMAIN h : g[j].kind # "FUNC_APPLY" => h[j].kind # "FUNC_APPLY"
    OBVIOUS
  <2> QED
    BY <1>1, <2>1 DEF EntriesOK
<1>6. InOrder(g, tbl)
  BY <1>4, <1>5 DEF InOrder
<1>7. NothingTurned(h) => NothingTurned(g)
  BY <1>3 DEF NothingTurned
<1>8. PICK u, v : u = Unsorted(h) /\ v = Unsorted(g)
  OBVIOUS
<1>9. /\ DOMAIN u = DOMAIN h /\ DOMAIN v = DOMAIN h /\ Closed(u)
      /\ \A j \in DOMAIN h : u[j] = UnsortedNode(h, j) /\ v[j] = UnsortedNode(g, j)
      /\ \A j \in DOMAIN h : u[j].cached = h[j].cached /\ v[j].cached = h[j].cached
  <2>1. Closed(u)
    BY <1>1, <1>8, UnsortedHeap
  <2>2. \A j \in DOMAIN h : u[j].cached = h[j].cached /\ v[j].cached = g[j].cached
    BY <1>1, <1>8, UnsortedFacts
  <2> QED
    BY <1>2, <1>8, <2>1, <2>2 DEF Unsorted
<1>10. TouchedIn(v, i)
  <2>1. v[i] = g[i]
    BY <1>9 DEF UnsortedNode
  <2>2. h[i].cached # None
    <3>1. Remembers(h, i)
      BY <1>1 DEF NodesRemember
    <3> QED
      BY <3>1 DEF Remembers
  <2> QED
    BY <2>1, <2>2 DEF TouchedIn
<1>11. ASSUME NEW j \in DOMAIN h, j # i
       PROVE  SameForm(u[j], v[j]) /\ (TouchedIn(u, j) => TouchedIn(v, j))
  <2>1. u[j] = v[j]
    BY <1>3, <1>9, <1>11 DEF UnsortedNode
  <2>2. \A k \in DOMAIN u[j].kids : v[u[j].kids[k]].cached = u[u[j].kids[k]].cached
    BY <1>9 DEF Closed
  <2>3. KidHashes(u, j) = KidHashes(v, j)
    BY <2>1, <2>2 DEF KidHashes
  <2> QED
    BY <2>1, <2>3 DEF SameForm, TouchedIn
<1>12. Carried(u, v)
  BY <1>9, <1>10, <1>11 DEF Carried
<1>13. SharedIn(v, tbl)
  <2>1. \A p \in DOMAIN tbl : tbl[p].node \in DOMAIN u
    BY <1>1, <1>9 DEF TableOK
  <2> QED
    BY <1>8, <1>9, <1>12, <2>1, SharedCarried
<1> QED
  BY <1>6, <1>7, <1>8, <1>13

\* Two operands of an operator change places: unsorted, the heap is what it was.
LEMMA SortingShares ==
    ASSUME NEW h, NEW tbl, InOrder(h, tbl), NEW i \in DOMAIN h, h[i].kind = "OP",
           h[i].kids[1] # h[i].kids[2],
           NEW g, g = [h EXCEPT ![i].kids = Turned(h[i].kids)],
           HeapOK(g), TableOK(g, tbl), KidsInLists(g)
    PROVE  InOrder(g, tbl) /\ Unsorted(g) = Unsorted(h)
<1>1. /\ HeapOK(h) /\ TableOK(h, tbl) /\ KidsInLists(h) /\ NodesRemember(h) /\ EntriesOK(h, tbl)
      /\ Closed(h)
  BY OrderFacts DEF InOrder
<1>2. PICK q : q = Turned(h[i].kids)
  OBVIOUS
<1>3. PICK m : m = [h[i] EXCEPT !.kids = q]
  OBVIOUS
<1>4. /\ IsNode(h[i]) /\ DOMAIN h[i].kids = 1..2
      /\ \A k \in 1..2 : h[i].kids[k] \in DOMAIN h
  BY <1>1 DEF HeapOK, NodeOK, TwoKids
<1>5. /\ IsNode(m) /\ m.kind = h[i].kind /\ m.kids = q /\ m.cached = h[i].cached
      /\ m.chash = h[i].chash
  <2>1. IsNode(m) /\ m.kind = h[i].kind /\ m.kids = q /\ m.cached = h[i].cached
    BY <1>3, <1>4, ChangedKids
  <2>2. m.chash = h[i].chash
    BY <1>3, <1>4 DEF IsNode, NodeFields
  <2> QED
    BY <2>1, <2>2
<1>6. /\ DOMAIN g = DOMAIN h /\ g[i] = m
      /\ \A j \in DOMAIN h : j # i => g[j] = h[j]
      /\ \A j \in DOMAIN h : g[j].cached = h[j].cached
  <2>1. DOMAIN g = DOMAIN h /\ g[i] = m /\ \A j \in DOMAIN h : j # i => g[j] = h[j]
    BY <1>1, <1>2, <1>3 DEF HeapOK
  <2> QED
    BY <1>5, <2>1
<1>7. q[1] = h[i].kids[2] /\ q[2] = h[i].kids[1] /\ DOMAIN q = 1..2
  BY <1>2 DEF Turned
<1>8. PICK x, y : x = h[h[i].kids[1]].cached /\ y = h[h[i].kids[2]].cached
  OBVIOUS
<1>9. KidHashes(h, i) = <<x, y>> /\ KidHashes(g, i) = <<y, x>>
  <2>1. KidHashes(h, i) = <<x, y>>
    BY <1>4, <1>8 DEF KidHashes
  <2>2. g[q[1]].cached = y /\ g[q[2]].cached = x
    BY <1>4, <1>6, <1>7, <1>8
  <2>3. KidHashes(g, i) = <<y, x>>
    BY <1>5, <1>6, <1>7, <2>2 DEF KidHashes
  <2> QED
    BY <2>1, <2>3
<1>10. x # y /\ (h[i].chash = <<x, y>> \/ h[i].chash = <<y, x>>)
  <2>1. OperandsOK(h, i)
    BY <1>1 DEF NodesRemember
  <2>2. Turned(<<x, y>>) = <<y, x>>
    BY DEF Turned
  <2> QED
    BY <1>9, <2>1, <2>2 DEF OperandsOK
<1>11. ASSUME NEW j \in DOMAIN h, j # i
       PROVE  /\ g[j] = h[j] /\ KidHashes(g, j) = KidHashes(h, j)
              /\ Remembers(g, j) /\ OperandsOK(g, j)
  <2>1. g[j] = h[j] /\ Remembers(h, j) /\ OperandsOK(h, j)
    BY <1>1, <1>6, <1>11 DEF NodesRemember
  <2> QED
    BY ONLY <1>1, <1>6, <1>11, <2>1, UnchangedNode
<1>12. Remembers(g, i) /\ OperandsOK(g, i)
  <2>1. /\ h[i].cached # None /\ ~Redefined(h[i])
        /\ \A k \in DOMAIN h[i].kids : h[i].kids[k] < i /\ h[h[i].kids[k]].cached # None
    <3>1. Remembers(h, i) /\ "OP" \notin DefinitionKinds
      BY <1>1, TableBounds DEF NodesRemember
    <3> QED
      BY <3>1 DEF Remembers
  <2>2. \A k \in 1..2 : q[k] < i /\ g[q[k]].cached # None
    <3>1. /\ h[i].kids[1] < i /\ h[h[i].kids[1]].cached # None
          /\ h[i].kids[2] < i /\ h[h[i].kids[2]].cached # None
      BY <1>4, <2>1
    <3>2. q[1] < i /\ g[q[1]].cached # None /\ q[2] < i /\ g[q[2]].cached # None
      BY <1>4, <1>6, <1>7, <3>1
    <3> QED
      BY <3>2
  <2>3. Remembers(g, i)
    BY <1>5, <1>6, <1>7, <2>1, <2>2 DEF Remembers, Redefined
  <2>4. Turned(<<y, x>>) = <<x, y>>
    BY DEF Turned
  <2>5. OperandsOK(g, i)
    <3>1. <<y, x>>[1] = y /\ <<y, x>>[2] = x
      OBVIOUS
    <3>2. g[i].kids = <<g[i].kids[1], g[i].kids[2]>>
      BY <1>2, <1>5, <1>6, <1>7 DEF Turned
    <3> QED
      BY <1>5, <1>6, <1>9, <1>10, <2>4, <3>1, <3>2 DEF OperandsOK
  <2> QED
    BY <2>3, <2>5
<1>13. NodesRemember(g)
  BY <1>6, <1>11, <1>12 DEF NodesRemember
<1>14. EntriesOK(g, tbl)
  <2>1. \A j \in DOMAIN h : g[j].kind = h[j].kind
    BY <1>5, <1>6
  <2> QED
    BY <1>1, <1>6, <2>1 DEF EntriesOK
<1>15. UnsortedNode(g, i) = UnsortedNode(h, i)
  <2>1. Turned(q) = h[i].kids
    <3>1. Turned(q) = <<h[i].kids[1], h[i].kids[2]>>
      BY <1>7 DEF Turned
    <3>2. h[i].kids = <<h[i].kids[1], h[i].kids[2]>>
      BY <1>1 DEF NodesRemember, OperandsOK
    <3> QED
      BY <3>1, <3>2
  <2>2. CASE h[i].chash = <<x, y>>
    <3>1. UnsortedNode(h, i) = h[i]
      BY <1>9, <2>2 DEF UnsortedNode
    <3>2. <<x, y>> # <<y, x>>
      BY <1>10
    <3>3. UnsortedNode(g, i) = [m EXCEPT !.kids = h[i].kids]
      BY <1>5, <1>6, <1>9, <2>1, <2>2, <3>2 DEF UnsortedNode
    <3>4. [m EXCEPT !.kids = h[i].kids] = h[i]
      BY <1>3, <1>4 DEF IsNode, NodeFields
    <3> QED
      BY <3>1, <3>3, <3>4
  <2>3. CASE h[i].chash = <<y, x>>
    <3>1. <<x, y>> # <<y, x>>
      BY <1>10
    <3>2. UnsortedNode(h, i) = m
      BY <1>2, <1>3, <1>9, <2>3, <3>1 DEF UnsortedNode
    <3>3. UnsortedNode(g, i) = m
      BY <1>5, <1>6, <1>9, <2>3 DEF UnsortedNode
    <3> QED
      BY <3>2, <3>3
  <2> QED
    BY <1>10, <2>2, <2>3
<1>16. \A j \in DOMAIN h : UnsortedNode(g, j) = UnsortedNode(h, j)
  <2> TAKE j \in DOMAIN h
  <2>1. CASE j = i
    BY <1>15, <2>1
  <2>2. CASE j # i
    BY <1>11, <2>2 DEF UnsortedNode
  <2> QED
    BY <2>1, <2>2
<1>17. Unsorted(g) = Unsorted(h)
  BY <1>6, <1>16 DEF Unsorted
<1> QED
  BY <1>13, <1>14, <1>17 DEF InOrder

-----------------------------------------------------------------------------
(***************************************************************************)
(* What is below a node.  The levels of Below exist, for the same reason   *)
(* as those of a term; they have all that is below a node, as an untouched *)
(* node is younger than its operands and static nodes have none.           *)
(***************************************************************************)
Operands(h, S) == UNION {{h[j].kids[k] : k \in DOMAIN h[j].kids} : j \in S}

ReachLevel(h, i, n, above) == IF n = 0 THEN {i} ELSE above \cup Operands(h, above)

Reaches(R, h, i, D) == R = [n \in 0..D |-> ReachLevel(h, i, n, R[n - 1])]

\* What is reached, by any number of steps, exists.
LEMMA ReachExists ==
    ASSUME NEW h, NEW i, NEW D \in Nat
    PROVE  \E R : Reaches(R, h, i, D)
<1> DEFINE Missing == {n \in 0..D : ~\E R : \A m \in 0..n : R[m] = ReachLevel(h, i, m, R[m - 1])}
<1>0. ASSUME NEW R, NEW U  PROVE ReachLevel(h, i, 0, R) = ReachLevel(h, i, 0, U)
  BY DEF ReachLevel
<1>1. Missing = {}
  <2> SUFFICES ASSUME Missing # {}  PROVE FALSE
    OBVIOUS
  <2>1. PICK n \in Missing : \A m \in Missing : n <= m
    <3>1. Missing \in SUBSET Nat
      OBVIOUS
    <3> HIDE DEF Missing
    <3> QED
      BY <3>1, FirstOf
  <2>2. n \in 0..D /\ ~\E R : \A m \in 0..n : R[m] = ReachLevel(h, i, m, R[m - 1])
    BY <2>1
  <2>3. \E U : \A m \in 0..n : m # n => U[m] = ReachLevel(h, i, m, U[m - 1])
    <3>1. CASE n = 0
      BY <3>1
    <3>2. CASE n # 0
      <4>1. n - 1 \in 0..D /\ ~(n <= n - 1)
        BY <2>2, <3>2
      <4>2. n - 1 \notin Missing
        <5> HIDE DEF Missing
        <5> QED
          BY <2>1, <4>1
      <4>3. PICK U : \A m \in 0..(n - 1) : U[m] = ReachLevel(h, i, m, U[m - 1])
        BY <4>1, <4>2
      <4>4. \A m \in 0..n : m # n => m \in 0..(n - 1)
        BY <2>2
      <4> QED
        BY <4>3, <4>4
    <3> QED
      BY <3>1, <3>2
  <2>4. PICK U : \A m \in 0..n : m # n => U[m] = ReachLevel(h, i, m, U[m - 1])
    BY <2>3
  <2> DEFINE R == [m \in 0..n |-> IF m = n THEN ReachLevel(h, i, n, U[n - 1]) ELSE U[m]]
  <2>5. \A m \in 0..n : R[m] = IF m = n THEN ReachLevel(h, i, n, U[n - 1]) ELSE U[m]
    OBVIOUS
  <2> HIDE DEF R
  <2>6. ASSUME NEW m \in 0..n
        PROVE  R[m] = ReachLevel(h, i, m, R[m - 1])
    <3>1. R[m] = ReachLevel(h, i, m, U[m - 1])
      BY <2>4, <2>5
    <3>2. CASE m = 0
      BY <1>0, <3>1, <3>2
    <3>3. CASE m # 0
      <4>1. m - 1 \in 0..n /\ m - 1 # n
        BY <2>2, <3>3
      <4> QED
        BY <2>5, <3>1, <4>1
    <3> QED
      BY <3>2, <3>3
  <2> QED
    BY <2>2, <2>6
<1>2. PICK U : \A m \in 0..D : U[m] = ReachLevel(h, i, m, U[m - 1])
  <2>1. D \in 0..D
    OBVIOUS
  <2>2. D \notin Missing
    <3> HIDE DEF Missing
    <3> QED
      BY <1>1
  <2> QED
    BY <2>1, <2>2
<1> DEFINE R == [n \in 0..D |-> U[n]]
<1>3. \A n \in 0..D : R[n] = U[n]
  OBVIOUS
<1> HIDE DEF R
<1>4. ASSUME NEW n \in 0..D
      PROVE  U[n] = ReachLevel(h, i, n, R[n - 1])
  <2>1. CASE n = 0
    BY <1>0, <1>2, <2>1
  <2>2. CASE n # 0
    <3>1. n - 1 \in 0..D
      BY <2>2
    <3> QED
      BY <1>2, <1>3, <3>1
  <2> QED
    BY <2>1, <2>2
<1>5. R = [n \in 0..D |-> ReachLevel(h, i, n, R[n - 1])]
  BY <1>4 DEF R
<1> QED
  BY <1>5 DEF Reaches

\* What is below a node is the last of these levels.
LEMMA BelowByLevels ==
    ASSUME NEW i
    PROVE  \E R : /\ \A n \in 0..Depth : R[n] = ReachLevel(heap, i, n, R[n - 1])
                 /\ Below(i) = R[Depth]
<1>0. Depth \in Nat
  BY DepthFacts
<1>1. \E R : R = [n \in 0..Depth |-> ReachLevel(heap, i, n, R[n - 1])]
  <2>1. \E R : Reaches(R, heap, i, Depth)
    BY <1>0, ReachExists
  <2> QED
    BY <2>1, Zenon DEF Reaches
<1> DEFINE R == CHOOSE R : R = [n \in 0..Depth |-> ReachLevel(heap, i, n, R[n - 1])]
<1>2. R = [n \in 0..Depth |-> ReachLevel(heap, i, n, R[n - 1])]
  BY <1>1, Zenon
<1>3. Below(i) = R[Depth]
  BY Zenon DEF Below, ReachLevel, Operands
<1> HIDE DEF R
<1>4. \A n \in 0..Depth : R[n] = ReachLevel(heap, i, n, R[n - 1])
  BY <1>2, Zenon
<1> QED
  BY <1>3, <1>4

\* All operands of what is below a node are below it too, if they have smaller addresses.
LEMMA BelowIsClosed ==
    ASSUME Closed(heap), NEW D \in Nat, DOMAIN heap = 1..D, D <= HeapBound,
           \A j \in 1..NumStatic : DOMAIN heap[j].kids = {},
           NEW i \in DOMAIN heap,
           \A j \in Below(i) : \A k \in DOMAIN heap[j].kids : heap[j].kids[k] < j
    PROVE  i \in Below(i) /\ ClosedSet(heap, Below(i))
<1>1. PICK R : /\ \A n \in 0..Depth : R[n] = ReachLevel(heap, i, n, R[n - 1])
               /\ Below(i) = R[Depth]
  BY BelowByLevels
<1> DEFINE Sinks(j) == \A k \in DOMAIN heap[j].kids : heap[j].kids[k] < j
           Full(j, n) == \A k \in DOMAIN heap[j].kids : heap[j].kids[k] \in R[n]
           Right(n) == /\ i \in R[n] /\ R[n] \subseteq DOMAIN heap
                       /\ (\A j \in R[n] : Sinks(j)) => \A j \in R[n] : Full(j, n) \/ j + n <= D
           Wrong == {n \in 0..Depth : ~Right(n)}
<1>2. Wrong = {}
  <2> SUFFICES ASSUME Wrong # {}  PROVE FALSE
    OBVIOUS
  <2>1. PICK n \in Wrong : \A m \in Wrong : n <= m
    <3>1. Wrong \in SUBSET Nat
      OBVIOUS
    <3> HIDE DEF Wrong
    <3> QED
      BY <3>1, FirstOf
  <2>2. n \in 0..Depth /\ ~Right(n)
    BY <2>1
  <2>3. CASE n = 0
    <3>1. R[n] = {i}
      BY <1>1, <2>2, <2>3 DEF ReachLevel
    <3>2. i + n <= D /\ i \in DOMAIN heap
      BY <2>3
    <3> HIDE DEF Full, Sinks
    <3>3. Right(n)
      BY <3>1, <3>2
    <3> QED
      BY <2>2, <3>3
  <2>4. CASE n # 0
    <3>1. PICK m \in 0..Depth : m = n - 1 /\ n = m + 1 /\ ~(n <= m)
      BY <2>2, <2>4, DepthFacts
    <3>2. Right(m)
      <4>1. m \notin Wrong
        <5> HIDE DEF Wrong
        <5> QED
          BY <2>1, <3>1
      <4> HIDE DEF Right
      <4> QED
        BY <4>1
    <3>3. R[n] = R[m] \cup Operands(heap, R[m])
      BY <1>1, <2>2, <2>4, <3>1 DEF ReachLevel
    <3>4. \A j \in R[m] : \A k \in DOMAIN heap[j].kids : heap[j].kids[k] \in R[n]
      BY <3>3 DEF Operands
    <3>5. ASSUME NEW y \in R[n], y \notin R[m]
          PROVE  \E j \in R[m] : \E k \in DOMAIN heap[j].kids : y = heap[j].kids[k]
      BY <3>3, <3>5 DEF Operands
    <3>6. i \in R[n] /\ R[n] \subseteq DOMAIN heap
      BY <3>2, <3>3, <3>5 DEF Closed
    <3>7. ASSUME \A j \in R[n] : Sinks(j), NEW y \in R[n]
          PROVE  Full(y, n) \/ y + n <= D
      <4>1. \A j \in R[m] : Sinks(j)
        BY <3>3, <3>7
      <4>2. CASE y \in R[m]
        BY <3>4, <4>2
      <4>3. CASE y \notin R[m]
        <5>1. PICK j \in R[m] : \E k \in DOMAIN heap[j].kids : y = heap[j].kids[k]
          BY <3>5, <4>3
        <5>2. ~Full(j, m)
          BY <4>3, <5>1
        <5>3. j + m <= D
          <6> HIDE DEF Full, Sinks
          <6> QED
            BY <3>2, <4>1, <5>2
        <5>4. y < j
          BY <4>1, <5>1
        <5>5. y \in 1..D /\ j \in 1..D
          BY <3>2, <3>6
        <5>6. y + n <= D
          BY <3>1, <5>3, <5>4, <5>5
        <5> QED
          BY <5>6
      <4> QED
        BY <4>2, <4>3
    <3> HIDE DEF Full, Sinks
    <3>8. Right(n)
      BY <3>6, <3>7
    <3> QED
      BY <2>2, <3>8
  <2> QED
    BY <2>3, <2>4
<1>3. Right(Depth)
  <2>1. Depth \in 0..Depth
    BY DepthFacts
  <2> HIDE DEF Right
  <2> QED
    BY <1>2, <2>1
<1>4. \A j \in R[Depth] : Sinks(j)
  BY <1>1
<1>5. ASSUME NEW j \in R[Depth]
      PROVE  Full(j, Depth)
  <2>1. Full(j, Depth) \/ j + Depth <= D
    <3> HIDE DEF Full, Sinks
    <3> QED
      BY <1>3, <1>4
  <2>2. CASE j + Depth <= D
    <3>1. j \in 1..D
      BY <1>3
    <3>2. j \in 1..NumStatic
      BY <2>2, <3>1, TableBounds, StaticFacts DEF Depth, HeapBound
    <3> QED
      BY <3>2
  <2> QED
    BY <2>1, <2>2
<1> QED
  BY <1>1, <1>3, <1>5 DEF ClosedSet

\* Only nodes are below a node.
LEMMA BelowAreNodes ==
    ASSUME Closed(heap), NEW i \in DOMAIN heap
    PROVE  Below(i) \subseteq DOMAIN heap
<1>1. PICK R : /\ \A n \in 0..Depth : R[n] = ReachLevel(heap, i, n, R[n - 1])
               /\ Below(i) = R[Depth]
  BY BelowByLevels
<1> DEFINE Right(n) == R[n] \subseteq DOMAIN heap
           Wrong == {n \in 0..Depth : ~Right(n)}
<1>2. Wrong = {}
  <2> SUFFICES ASSUME Wrong # {}  PROVE FALSE
    OBVIOUS
  <2>1. PICK n \in Wrong : \A m \in Wrong : n <= m
    <3>1. Wrong \in SUBSET Nat
      OBVIOUS
    <3> HIDE DEF Wrong
    <3> QED
      BY <3>1, FirstOf
  <2>2. n \in 0..Depth /\ ~Right(n)
    BY <2>1
  <2>3. CASE n = 0
    <3>1. R[n] = {i}
      BY <1>1, <2>2, <2>3 DEF ReachLevel
    <3> QED
      BY <2>2, <3>1
  <2>4. CASE n # 0
    <3>1. PICK m \in 0..Depth : m = n - 1 /\ ~(n <= m)
      BY <2>2, <2>4, DepthFacts
    <3>2. Right(m)
      <4>1. m \notin Wrong
        <5> HIDE DEF Wrong
        <5> QED
          BY <2>1, <3>1
      <4> HIDE DEF Right
      <4> QED
        BY <4>1
    <3>3. R[n] = R[m] \cup Operands(heap, R[m])
      BY <1>1, <2>2, <2>4, <3>1 DEF ReachLevel
    <3>4. Operands(heap, R[m]) \subseteq DOMAIN heap
      BY <3>2 DEF Operands, Closed
    <3> QED
      BY <2>2, <3>2, <3>3, <3>4
  <2> QED
    BY <2>3, <2>4
<1> QED
  <2>1. Depth \in 0..Depth
    BY DepthFacts
  <2> QED
    BY <1>1, <1>2, <2>1

-----------------------------------------------------------------------------
(***************************************************************************)
(* A new parser's table: the static nodes are different terms, and none of *)
(* them was touched.                                                       *)
(***************************************************************************)
LEMMA StaticsApart ==
    /\ \A i, j \in 1..NumStatic :
          StaticNodes[i].sort = StaticNodes[j].sort /\ StaticNodes[i].name = StaticNodes[j].name
             => i = j
    /\ StaticNodes[4].kind = "CONST_TRUE"
    /\ \A i \in 1..NumStatic : StaticNodes[i].kind = "CONST_TRUE" => i = 4
<1> DEFINE Is(i, sort, kind, text) ==
              /\ StaticNodes[i].sort = sort /\ StaticNodes[i].kind = kind
              /\ StaticNodes[i].name = <<text>>
<1>1. \A sort, kind, text : LET n == Node(sort, kind, <<text>>, << >>)
                            IN n.sort = sort /\ n.kind = kind /\ n.name = <<text>>
  BY DEF Node
<1>2. /\ Is(1, "Null", "NULL", "NULL") /\ Is(4, "Bool", "CONST_TRUE", "true")
      /\ Is(5, "Bool", "CONST_FALSE", "false") /\ Is(6, "Real", "CONST_E", "e")
      /\ Is(7, "Real", "CONST_PI", "pi") /\ Is(8, "Ext", "NAN", "NaN")
      /\ Is(9, "Null", "ERROR", "EPSILON")
  <2>1. /\ StaticNodes[1] = Constant("NULL") /\ StaticNodes[4] = Constant("true")
        /\ StaticNodes[5] = Constant("false") /\ StaticNodes[6] = Constant("e")
        /\ StaticNodes[7] = Constant("pi") /\ StaticNodes[8] = Constant("NaN")
        /\ StaticNodes[9] = Constant("EPSILON")
    BY DEF StaticNodes
  <2>2. /\ Constant("NULL") = Node("Null", "NULL", <<"NULL">>, << >>)
        /\ Constant("true") = Node("Bool", "CONST_TRUE", <<"true">>, << >>)
        /\ Constant("false") = Node("Bool", "CONST_FALSE", <<"false">>, << >>)
        /\ Constant("e") = Node("Real", "CONST_E", <<"e">>, << >>)
        /\ Constant("pi") = Node("Real", "CONST_PI", <<"pi">>, << >>)
        /\ Constant("NaN") = Node("Ext", "NAN", <<"NaN">>, << >>)
        /\ Constant("EPSILON") = Node("Null", "ERROR", <<"EPSILON">>, << >>)
    BY DEF Constant
  <2> QED
    BY <1>1, <2>1, <2>2
<1>3. /\ Is(2, "Unknown", "UNKNOWN", "unknown") /\ Is(3, "Null", "ERROR", "error")
      /\ Is(10, "Ext", "POS_EPSILON", "+EPSILON") /\ Is(11, "Ext", "NEG_EPSILON", "-EPSILON")
      /\ Is(12, "Str", "INFINITY", "INF") /\ Is(13, "Str", "POS_INFINITY", "+INF")
      /\ Is(14, "Str", "NEG_INFINITY", "-INF")
  BY <1>1 DEF StaticNodes
<1>4. /\ Is(15, "Int", "INFINITY", "INF") /\ Is(16, "Int", "POS_INFINITY", "+INF")
      /\ Is(17, "Int", "NEG_INFINITY", "-INF") /\ Is(18, "Real", "INFINITY", "INF")
      /\ Is(19, "Real", "POS_INFINITY", "+INF") /\ Is(20, "Real", "NEG_INFINITY", "-INF")
  BY <1>1 DEF StaticNodes
<1>5. ASSUME NEW i \in 1..NumStatic
      PROVE  i \in {1, 2, 3, 4, 5, 6, 7, 8, 9, 10, 11, 12, 13, 14, 15, 16, 17, 18, 19, 20}
  BY StaticFacts
<1>6. \A x, y : <<x>> = <<y>> => x = y
  OBVIOUS
<1>7. \A i \in 1..NumStatic : \E text : StaticNodes[i].name = <<text>>
  BY <1>2, <1>3, <1>4, <1>5
<1> DEFINE Text(i) == StaticNodes[i].name[1]
<1>8. /\ Text(1) = "NULL" /\ Text(2) = "unknown" /\ Text(3) = "error" /\ Text(4) = "true"
      /\ Text(5) = "false" /\ Text(6) = "e" /\ Text(7) = "pi" /\ Text(8) = "NaN"
      /\ Text(9) = "EPSILON" /\ Text(10) = "+EPSILON" /\ Text(11) = "-EPSILON"
      /\ Text(12) = "INF" /\ Text(13) = "+INF" /\ Text(14) = "-INF" /\ Text(15) = "INF"
      /\ Text(16) = "+INF" /\ Text(17) = "-INF" /\ Text(18) = "INF" /\ Text(19) = "+INF"
      /\ Text(20) = "-INF"
  BY <1>2, <1>3, <1>4
<1>9. ASSUME NEW i \in 1..NumStatic, NEW j \in 1..NumStatic,
             StaticNodes[i].sort = StaticNodes[j].sort, Text(i) = Text(j)
      PROVE  i = j
  <2> DEFINE Alone == {1, 2, 3, 4, 5, 6, 7, 8, 9, 10, 11}
             Infinite == {12, 13, 14, 15, 16, 17, 18, 19, 20}
  <2>1. i \in Alone \cup Infinite /\ j \in Alone \cup Infinite
    BY <1>5
  <2>2. Text(i) \in {"INF", "+INF", "-INF"} <=> i \in Infinite
    BY <1>8, <2>1
  <2>3. Text(j) \in {"INF", "+INF", "-INF"} <=> j \in Infinite
    BY <1>8, <2>1
  <2> HIDE DEF Text
  <2>4. CASE i \in Infinite
    BY <1>3, <1>4, <1>8, <1>9, <2>2, <2>3, <2>4
  <2>5. CASE i \in Alone /\ j \in Alone
    BY <1>8, <1>9, <2>5
  <2> QED
    BY <1>9, <2>1, <2>2, <2>3, <2>4, <2>5
<1>10. \A i \in 1..NumStatic : StaticNodes[i].kind = "CONST_TRUE" => i = 4
  BY <1>2, <1>3, <1>4, <1>5
<1> QED
  BY <1>2, <1>9, <1>10

(***************************************************************************)
(* Leaves have hashes of their own: a variable that of its name, a         *)
(* quantified variable that of its number.  So two operands, of which one  *)
(* is a leaf, have two hashes.                                             *)
(***************************************************************************)
LeafKinds == {"VAR", "QUANT_VAR", "CONST_TRUE"}

LeavesApart(tbl, vs) ==
    /\ \A p \in DOMAIN tbl : tbl[p].kind = "VAR" => \E s \in DOMAIN vs : tbl[p].hash[3] = <<s>>
    /\ \A p, q \in DOMAIN tbl : tbl[p].kind \in LeafKinds /\ tbl[p].hash = tbl[q].hash => p = q

\* A new parser's heap and table are in order.
LEMMA StartShares ==
    ASSUME NEW h, HeapOK(h), KidsInLists(h), Len(h) = NumStatic,
           NEW tbl, TableOK(h, tbl), tbl = StaticTable(h), NEW vs
    PROVE  /\ InOrder(h, tbl) /\ NothingTurned(h) /\ SharedIn(h, tbl) /\ LeavesApart(tbl, vs)
           /\ Len(tbl) = NumStatic
<1>1. NumStatic = 20 /\ DOMAIN h = 1..NumStatic
  BY HeapFacts
<1>2. DOMAIN tbl = 1..NumStatic /\ Len(tbl) = NumStatic
  <2>1. DOMAIN tbl = 1..NumStatic
    BY DEF StaticTable
  <2>2. \E T : tbl \in Seq(T)
    BY DEF TableOK
  <2>3. Len(tbl) \in Nat /\ DOMAIN tbl = 1..Len(tbl) /\ NumStatic <= Len(tbl)
    BY <2>2, AppendFacts DEF TableOK
  <2>4. PICK n : n = Len(tbl)
    OBVIOUS
  <2>5. n = 20
    <3>1. n \in Nat /\ DOMAIN tbl = 1..n /\ 20 <= n /\ DOMAIN tbl = 1..20
      BY <1>1, <2>1, <2>3, <2>4
    <3>2. n # 20 => n \in 1..n /\ n \notin 1..20
      BY <3>1
    <3> QED
      BY <3>1, <3>2, Zenon
  <2> QED
    BY <1>1, <2>1, <2>4, <2>5
<1>3. ASSUME NEW i \in 1..NumStatic
      PROVE  /\ h[i].sort = StaticNodes[i].sort /\ h[i].kind = StaticNodes[i].kind
             /\ h[i].name = StaticNodes[i].name /\ h[i].kids = << >>
             /\ h[i].cached # None /\ h[i].cached = HashFields(h[i])
             /\ h[i].kind \in StaticKinds
             /\ tbl[i].kind = h[i].kind /\ tbl[i].hash = h[i].cached /\ tbl[i].node = i
  <2>1. h[i] = Hashed(StaticNodes[i])
    BY DEF HeapOK
  <2>2. /\ IsNode(StaticNodes[i]) /\ StaticNodes[i].kids = << >>
        /\ StaticNodes[i].kind \in StaticKinds /\ StaticNodes[i].cached = None
    BY StaticFacts
  <2>3. PICK m : m = h[i]
    OBVIOUS
  <2>4. PICK n : n = StaticNodes[i]
    OBVIOUS
  <2>5. /\ m.sort = n.sort /\ m.kind = n.kind /\ m.name = n.name
        /\ m.kids = n.kids /\ m.chash = n.chash /\ m.cached # None
        /\ m.cached = HashFields(n)
    BY <2>1, <2>2, <2>3, <2>4, HashedFacts
  <2>6. HashFields(m) = HashFields(n)
    BY <2>5 DEF HashFields
  <2>7. tbl[i] = Entry(i, m)
    BY <2>3 DEF StaticTable
  <2>8. tbl[i].kind = m.kind /\ tbl[i].hash = m.cached /\ tbl[i].node = i
    BY <2>5, <2>7 DEF Entry, HashCode
  <2> QED
    BY <2>2, <2>3, <2>4, <2>5, <2>6, <2>8
<1>4. ASSUME NEW i \in 1..NumStatic
      PROVE  h[i].cached[2] = h[i].kind /\ h[i].kind \notin {"FUNC_APPLY", "OP", "VAR", "QUANT_VAR"}
  <2>1. HashFields(h[i])[2] = h[i].kind
    BY DEF HashFields
  <2> QED
    BY <1>3, <2>1 DEF StaticKinds
<1>5. NodesRemember(h)
  <2>1. ASSUME NEW i \in 1..NumStatic
        PROVE  Remembers(h, i) /\ OperandsOK(h, i)
    <3>1. DOMAIN h[i].kids = {}
      BY <1>3
    <3> QED
      BY <1>3, <1>4, <3>1 DEF Remembers, Redefined, OperandsOK
  <2> QED
    BY <1>1, <2>1 DEF NodesRemember
<1>6. EntriesOK(h, tbl)
  BY <1>1, <1>2, <1>3, <1>4 DEF EntriesOK
<1>7. InOrder(h, tbl)
  BY <1>5, <1>6 DEF InOrder
<1>8. NothingTurned(h)
  BY <1>1, <1>4 DEF NothingTurned
<1>9. SharedIn(h, tbl)
  <2> SUFFICES ASSUME NEW p \in DOMAIN tbl, NEW q \in DOMAIN tbl, p < q,
                      Equivalent(h, tbl[p].node, tbl[q].node)
               PROVE  FALSE
    BY DEF SharedIn
  <2>1. p \in 1..NumStatic /\ q \in 1..NumStatic /\ p # q /\ tbl[p].node = p /\ tbl[q].node = q
    <3>1. p \in 1..NumStatic /\ q \in 1..NumStatic
      BY <1>2
    <3> QED
      BY <1>1, <1>3, <3>1
  <2>2. Equivalent(h, p, q)
    BY <2>1
  <2>3. Alike(h[p], h[q])
    BY <2>1, <2>2, Zenon DEF Equivalent
  <2>4. h[p].sort = h[q].sort /\ h[p].name = h[q].name
    BY <2>3 DEF Alike
  <2> QED
    BY <1>3, <2>1, <2>4, StaticsApart
<1>10. LeavesApart(tbl, vs)
  <2>1. ASSUME NEW p \in DOMAIN tbl, tbl[p].kind \in LeafKinds
        PROVE  p = 4 /\ tbl[p].kind = "CONST_TRUE"
    BY <1>2, <1>3, <1>4, <2>1, StaticsApart DEF LeafKinds
  <2>2. ASSUME NEW p \in DOMAIN tbl, NEW q \in DOMAIN tbl, tbl[p].kind \in LeafKinds,
               tbl[p].hash = tbl[q].hash
        PROVE  p = q
    <3>1. tbl[q].kind = tbl[p].kind
      BY <1>2, <1>3, <1>4, <2>2
    <3> QED
      BY <2>1, <2>2, <3>1
  <2> QED
    BY <2>1, <2>2 DEF LeavesApart, LeafKinds
<1> QED
  BY <1>2, <1>7, <1>8, <1>9, <1>10

\* A new entry that is no leaf, or a leaf of a new name, leaves the leaves apart.
LEMMA LeavesCreate ==
    ASSUME NEW h, NEW tbl, InOrder(h, tbl), NEW vs, LeavesApart(tbl, vs),
           NEW n, NEW r, Created(h, tbl, n, r), NEW ws, DOMAIN vs \subseteq DOMAIN ws,
           n.kind = "VAR" => \E s \in DOMAIN ws : n.name = <<s>>,
           n.kind \in LeafKinds =>
              \A p \in DOMAIN tbl : tbl[p].kind = n.kind => tbl[p].hash[3] # n.name
    PROVE  LeavesApart(r.table, ws)
<1>1. CASE r.table = tbl
  BY <1>1 DEF LeavesApart
<1>2. CASE Stored(h, tbl, n, r)
  <2>1. PICK i : i = Len(h) + 1
    OBVIOUS
  <2>2. PICK e : e = Entry(i, r.heap[i])
    OBVIOUS
  <2>3. r.table = Append(tbl, e)
    BY <1>2, <2>1, <2>2 DEF Stored
  <2>4. e.kind = n.kind /\ e.hash[2] = n.kind /\ e.hash[3] = n.name
    <3>1. /\ r.heap[i].kind = n.kind /\ r.heap[i].name = n.name
          /\ r.heap[i].cached = HashFields(r.heap[i])
      BY <1>2, <2>1 DEF Stored
    <3>2. HashCode(r.heap[i]) = HashFields(r.heap[i])
      BY <3>1 DEF HashCode
    <3>3. HashFields(r.heap[i])[2] = n.kind /\ HashFields(r.heap[i])[3] = n.name
      BY <3>1 DEF HashFields
    <3> QED
      BY <2>2, <3>1, <3>2, <3>3 DEF Entry
  <2>5. \E T : tbl \in Seq(T)
    BY OrderFacts
  <2>6. PICK t, l : t = r.table /\ l = Len(tbl) + 1
    OBVIOUS
  <2>7. t[l] = e /\ \A p \in DOMAIN t : p = l \/ (p \in DOMAIN tbl /\ t[p] = tbl[p])
    <3>1. /\ Len(tbl) \in Nat /\ DOMAIN tbl = 1..Len(tbl) /\ DOMAIN t = 1..(Len(tbl) + 1)
          /\ \A p \in 1..Len(tbl) : t[p] = tbl[p]
          /\ t[Len(tbl) + 1] = e
      BY <2>3, <2>5, <2>6, AppendFacts
    <3> QED
      BY <2>6, <3>1
  <2>8. \A p \in DOMAIN tbl : tbl[p].kind = tbl[p].hash[2]
    BY DEF InOrder, EntriesOK
  <2>9. ASSUME NEW p \in DOMAIN t, t[p].kind = "VAR"
        PROVE  \E s \in DOMAIN ws : t[p].hash[3] = <<s>>
    <3>1. CASE p = l
      BY <2>4, <2>7, <2>9, <3>1
    <3>2. CASE p \in DOMAIN tbl /\ t[p] = tbl[p]
      BY <2>9, <3>2 DEF LeavesApart
    <3> QED
      BY <2>7, <3>1, <3>2
  <2>10. ASSUME NEW p \in DOMAIN tbl, tbl[p].hash = e.hash,
                tbl[p].kind \in LeafKinds \/ e.kind \in LeafKinds
         PROVE  FALSE
    <3>1. tbl[p].kind = n.kind /\ tbl[p].hash[3] = n.name
      BY <2>4, <2>8, <2>10
    <3> QED
      BY <2>4, <2>10, <3>1
  <2>11. ASSUME NEW p \in DOMAIN t, NEW q \in DOMAIN t, t[p].kind \in LeafKinds,
                t[p].hash = t[q].hash
         PROVE  p = q
    <3>1. CASE p = l /\ q = l
      BY <3>1
    <3>2. CASE p = l /\ q \in DOMAIN tbl /\ t[q] = tbl[q]
      BY <2>7, <2>10, <2>11, <3>2
    <3>3. CASE q = l /\ p \in DOMAIN tbl /\ t[p] = tbl[p]
      BY <2>7, <2>10, <2>11, <3>3
    <3>4. CASE p \in DOMAIN tbl /\ t[p] = tbl[p] /\ q \in DOMAIN tbl /\ t[q] = tbl[q]
      BY <2>11, <3>4 DEF LeavesApart
    <3> QED
      BY <2>7, <3>1, <3>2, <3>3, <3>4
  <2> QED
    BY <2>6, <2>9, <2>11 DEF LeavesApart
<1> QED
  BY <1>1, <1>2 DEF Created

\* A node that is neither an application nor a definition has an entry of its kind, under
\* the hash it remembers.
LEMMA EntryOf ==
    ASSUME NEW h, NEW tbl, InOrder(h, tbl), NEW i \in DOMAIN h,
           h[i].kind \notin DefinitionKinds, h[i].kind # "FUNC_APPLY"
    PROVE  /\ h[i].cached # None /\ h[i].cached[2] = h[i].kind
           /\ \A k \in DOMAIN h[i].kids : h[i].kids[k] < i /\ h[h[i].kids[k]].cached # None
           /\ \E p \in DOMAIN tbl : /\ tbl[p].node = i /\ tbl[p].hash = h[i].cached
                                    /\ tbl[p].kind = h[i].kind
<1>1. Remembers(h, i) /\ EntriesOK(h, tbl) /\ TableOK(h, tbl)
  BY DEF InOrder, NodesRemember
<1>2. /\ h[i].cached # None /\ h[i].cached[2] = h[i].kind
      /\ \A k \in DOMAIN h[i].kids : h[i].kids[k] < i /\ h[h[i].kids[k]].cached # None
  BY <1>1 DEF Remembers, Redefined
<1>3. PICK p \in DOMAIN tbl : tbl[p].node = i
  BY <1>1 DEF EntriesOK
<1>4. tbl[p].hash = h[i].cached /\ tbl[p].kind = h[i].kind
  BY <1>1, <1>2, <1>3 DEF TableOK, EntriesOK
<1> QED
  BY <1>2, <1>3, <1>4

\* Of two operands, one of them a leaf, the hashes are two if the operands are.
LEMMA OperandsApart ==
    ASSUME NEW h, NEW tbl, InOrder(h, tbl), NEW vs, LeavesApart(tbl, vs),
           NEW a \in DOMAIN h, NEW b \in DOMAIN h, h[b].kind \in LeafKinds,
           NEW g, Advances(h, g), g[a].cached # None, g[a].cached = g[b].cached
    PROVE  a = b
<1>1. h[b].kind \notin DefinitionKinds /\ h[b].kind # "FUNC_APPLY"
  BY TableBounds DEF LeafKinds
<1>2. PICK q \in DOMAIN tbl : /\ tbl[q].node = b /\ tbl[q].hash = h[b].cached
                              /\ tbl[q].kind = h[b].kind
  BY <1>1, EntryOf
<1>3. h[b].cached # None /\ h[b].cached[2] = h[b].kind
  BY <1>1, EntryOf
<1>4. g[b].cached = h[b].cached
  BY <1>3 DEF Advances
<1>5. CASE h[a].kind = "FUNC_APPLY"
  <2>1. h[a].cached = None \/ h[a].cached = HashFields(h[a])
    <3>1. Remembers(h, a) /\ "FUNC_APPLY" \notin DefinitionKinds
      BY TableBounds DEF InOrder, NodesRemember
    <3> QED
      BY <1>5, <3>1 DEF Remembers
  <2>2. g[a].cached = HashFields(h[a])
    BY <2>1 DEF Advances
  <2>3. HashFields(h[a])[2] = "FUNC_APPLY"
    BY <1>5 DEF HashFields
  <2> QED
    BY <1>1, <1>3, <1>4, <2>2, <2>3
<1>6. CASE h[a].kind # "FUNC_APPLY"
  <2>1. PICK p \in DOMAIN tbl : tbl[p].node = a
    BY <1>6 DEF InOrder, EntriesOK
  <2>2. tbl[p].hash = h[a].cached /\ h[a].cached # None
    BY <2>1 DEF InOrder, TableOK
  <2>3. g[a].cached = h[a].cached
    BY <2>2 DEF Advances
  <2>4. q = p
    BY <1>2, <1>4, <2>2, <2>3 DEF LeavesApart
  <2> QED
    BY <1>2, <2>1, <2>4
<1> QED
  BY <1>5, <1>6

-----------------------------------------------------------------------------
(***************************************************************************)
(* The inductive invariant.  While a script is read nothing is sorted;     *)
(* while its result is written no operator is made.  What holds throughout *)
(* is said of the heap with the operands of operators put back in the      *)
(* order in which they were made.                                          *)
(***************************************************************************)
Bounded == Len(table) <= NumStatic + MaxNodes /\ Len(heap) - Len(table) <= MaxApplications

SharedInv ==
    /\ InOrder(heap, table)
    /\ LeavesApart(table, vars)
    /\ SharedIn(Unsorted(heap), table)
    /\ phase = "reading" => NothingTurned(heap)
    /\ Bounded

ReadOrder(h, tbl, vs) ==
    /\ InOrder(h, tbl) /\ NothingTurned(h) /\ SharedIn(h, tbl) /\ LeavesApart(tbl, vs)

\* While reading the order is that of the heap as it is.
LEMMA ReadingOrder ==
    ASSUME NEW h, NEW tbl, NEW vs
    PROVE  ReadOrder(h, tbl, vs) <=> /\ InOrder(h, tbl) /\ NothingTurned(h)
                                     /\ SharedIn(Unsorted(h), tbl) /\ LeavesApart(tbl, vs)
<1>1. InOrder(h, tbl) /\ NothingTurned(h) => Unsorted(h) = h
  BY NothingToUndo DEF InOrder
<1> QED
  BY <1>1 DEF ReadOrder

\* One call of createNode while reading.
LEMMA ReadingCreate ==
    ASSUME NEW h, NEW tbl, NEW vs, ReadOrder(h, tbl, vs),
           NEW n, NodeOK(h, n), n.cached = None, IsList(n.kids), n.kind # "FUNC_APPLY",
           NEW r, r = CreateNode(h, tbl, n),
           n.kind = "OP" => \E a, b : /\ n.kids = <<a, b>> /\ a \in DOMAIN h /\ b \in DOMAIN h
                                      /\ h[b].kind \in LeafKinds,
           NEW ws, DOMAIN vs \subseteq DOMAIN ws,
           n.kind = "VAR" => \E s \in DOMAIN ws : n.name = <<s>>,
           n.kind \in LeafKinds =>
              \A p \in DOMAIN tbl : tbl[p].kind = n.kind => tbl[p].hash[3] # n.name
    PROVE  ReadOrder(r.heap, r.table, ws)
<1>1. InOrder(h, tbl) /\ NothingTurned(h) /\ SharedIn(h, tbl) /\ LeavesApart(tbl, vs)
  BY DEF ReadOrder
<1>2. Created(h, tbl, n, r)
  BY <1>1, CreateExactly DEF InOrder
<1>3. KidsApart(r.heap, n)
  <2> SUFFICES ASSUME n.kind = "OP"
               PROVE  /\ n.kids = <<n.kids[1], n.kids[2]>>
                      /\ r.heap[n.kids[1]].cached = r.heap[n.kids[2]].cached
                            => n.kids[1] = n.kids[2]
    BY DEF KidsApart
  <2>1. PICK a, b : /\ n.kids = <<a, b>> /\ a \in DOMAIN h /\ b \in DOMAIN h
                    /\ h[b].kind \in LeafKinds
    OBVIOUS
  <2>2. n.kids[1] = a /\ n.kids[2] = b /\ DOMAIN n.kids = 1..2
    BY <2>1
  <2>3. Advances(h, r.heap) /\ r.heap[a].cached # None
    BY <1>2, <2>2 DEF Created
  <2>4. r.heap[a].cached = r.heap[b].cached => a = b
    BY <1>1, <2>1, <2>3, OperandsApart
  <2> QED
    BY <2>1, <2>2, <2>4
<1>4. InOrder(r.heap, r.table) /\ NothingTurned(r.heap) /\ SharedIn(r.heap, r.table)
  BY <1>1, <1>3, ReadingShares
<1>5. LeavesApart(r.table, ws)
  BY <1>1, <1>2, LeavesCreate
<1> QED
  BY <1>4, <1>5 DEF ReadOrder

\* A step of one such call.
LEMMA ReadingStep ==
    ASSUME NEW h, ReadOrder(h, table, vars),
           NEW n, NodeOK(h, n), n.cached = None, IsList(n.kids), n.kind # "FUNC_APPLY",
           Create(h, n), Room, DOMAIN vars \subseteq DOMAIN vars',
           n.kind = "OP" => \E a, b : /\ n.kids = <<a, b>> /\ a \in DOMAIN h /\ b \in DOMAIN h
                                      /\ h[b].kind \in LeafKinds,
           n.kind = "VAR" => \E s \in DOMAIN vars' : n.name = <<s>>,
           n.kind \in LeafKinds =>
              \A p \in DOMAIN table : table[p].kind = n.kind => table[p].hash[3] # n.name
    PROVE  SharedInv'
<1>1. PICK r : r = CreateNode(h, table, n)
  OBVIOUS
<1>2. heap' = r.heap /\ table' = r.table
  BY <1>1 DEF Create
<1>3. PICK ws : ws = vars'
  OBVIOUS
<1>4. ReadOrder(r.heap, r.table, ws)
  BY <1>1, <1>3, ReadingCreate
<1>5. /\ InOrder(r.heap, r.table) /\ NothingTurned(r.heap)
      /\ SharedIn(Unsorted(r.heap), r.table) /\ LeavesApart(r.table, ws)
  BY <1>4, ReadingOrder
<1> QED
  BY <1>2, <1>3, <1>5 DEF SharedInv, Bounded, Room

-----------------------------------------------------------------------------
\* While a script is read the invariant is that of the heap as it is.
LEMMA WhileReading ==
    ASSUME SharedInv, phase = "reading"
    PROVE  ReadOrder(heap, table, vars)
BY ReadingOrder DEF SharedInv

\* A variable has a name of its own.
LEMMA MkVarShares ==
    ASSUME TableInv, SharedInv, NEW s \in Symbols, MkVar(s)
    PROVE  SharedInv'
<1> DEFINE n == Node("Bool", "VAR", <<s>>, << >>)
<1>1. NodeOK(heap, n) /\ n.cached = None /\ n.kind = "VAR" /\ n.name = <<s>>
  <2>1. Len(<<s>>) \in 1..3
    OBVIOUS
  <2> QED
    BY <2>1, LeafNode
<1>2. IsList(n.kids)
  BY NodeFacts, OperandLists
<1>3. Create(heap, n) /\ Room /\ phase = "reading" /\ s \notin DOMAIN vars
  BY DEF MkVar
<1>4. DOMAIN vars' = DOMAIN vars \cup {s}
  BY DEF MkVar
<1> HIDE DEF n
<1>5. \A p \in DOMAIN table : table[p].kind = n.kind => table[p].hash[3] # n.name
  <2> SUFFICES ASSUME NEW p \in DOMAIN table, table[p].kind = "VAR", table[p].hash[3] = <<s>>
               PROVE  FALSE
    BY <1>1
  <2>1. PICK t \in DOMAIN vars : table[p].hash[3] = <<t>>
    BY DEF SharedInv, LeavesApart
  <2>2. t = s
    BY <2>1
  <2> QED
    BY <1>3, <2>2
<1>6. ReadOrder(heap, table, vars)
  BY <1>3, WhileReading
<1>7. \E t \in DOMAIN vars' : n.name = <<t>>
  BY <1>1, <1>4
<1>8. DOMAIN vars \subseteq DOMAIN vars' /\ n.kind # "OP" /\ n.kind # "FUNC_APPLY"
  BY <1>1, <1>4
<1> QED
  BY <1>1, <1>2, <1>3, <1>5, <1>6, <1>7, <1>8, ReadingStep

\* A quantified variable has a number of its own.
LEMMA MkQuantVarShares ==
    ASSUME TableInv, SharedInv, MkQuantVar
    PROVE  SharedInv'
<1> DEFINE n == Node("Bool", "QUANT_VAR", <<"QVAR", qvars>>, << >>)
<1>1. NodeOK(heap, n) /\ n.cached = None /\ n.kind = "QUANT_VAR" /\ n.name = <<"QVAR", qvars>>
  <2>1. Len(<<"QVAR", qvars>>) \in 1..3
    OBVIOUS
  <2> QED
    BY <2>1, LeafNode
<1>2. IsList(n.kids)
  BY NodeFacts, OperandLists
<1>3. Create(heap, n) /\ Room /\ phase = "reading" /\ vars' = vars
  BY DEF MkQuantVar
<1> HIDE DEF n
<1>4. \A p \in DOMAIN table : table[p].kind = n.kind => table[p].hash[3] # n.name
  <2> SUFFICES ASSUME NEW p \in DOMAIN table, table[p].kind = "QUANT_VAR",
                      table[p].hash[3] = <<"QVAR", qvars>>
               PROVE  FALSE
    BY <1>1
  <2>1. PICK k \in Nat : k < qvars /\ table[p].hash[3] = <<"QVAR", k>>
    BY DEF TableInv, QuantsIn
  <2>2. k = qvars
    BY <2>1
  <2> QED
    BY <2>1, <2>2
<1>5. ReadOrder(heap, table, vars)
  BY <1>3, WhileReading
<1>6. n.kind # "OP" /\ n.kind # "VAR" /\ n.kind # "FUNC_APPLY"
  BY <1>1
<1> QED
  BY <1>1, <1>2, <1>3, <1>4, <1>5, <1>6, ReadingStep

\* An operator has a leaf for its second operand.
LEMMA MkOperShares ==
    ASSUME TableInv, SharedInv, NEW a \in Terms, NEW b \in Leaves, MkOper(<<a, b>>)
    PROVE  SharedInv'
<1>1. a \in DOMAIN heap /\ b \in DOMAIN heap
  BY OperandsAreNodes DEF TableInv
<1> DEFINE n == Node("Bool", "OP", <<"op">>, <<a, b>>)
<1>2. NodeOK(heap, n) /\ n.cached = None /\ n.kind = "OP" /\ n.kids = <<a, b>>
  <2>1. DOMAIN <<a, b>> = 1..2 /\ \A k \in DOMAIN <<a, b>> : <<a, b>>[k] \in DOMAIN heap
    BY <1>1
  <2>2. Len(<<"op">>) \in 1..3
    OBVIOUS
  <2> QED
    BY <2>1, <2>2, FreshNode
<1>3. IsList(n.kids)
  BY NodeFacts, OperandLists
<1>4. Create(heap, n) /\ Room /\ phase = "reading" /\ vars' = vars
  BY DEF MkOper
<1>5. heap[b].kind \in LeafKinds
  <2>1. b \in Kinds({"VAR", "QUANT_VAR"}) \/ b = 4
    BY DEF Leaves, TrueNode
  <2>2. heap[4].kind = "CONST_TRUE"
    <3>1. 4 \in 1..NumStatic /\ IsNode(StaticNodes[4])
      BY StaticFacts
    <3>2. heap[4] = Hashed(StaticNodes[4])
      BY <3>1 DEF TableInv, HeapOK
    <3> QED
      BY <3>1, <3>2, HashedFacts, StaticsApart
  <2> QED
    BY <2>1, <2>2 DEF Kinds, LeafKinds
<1>6. ReadOrder(heap, table, vars)
  BY <1>4, WhileReading
<1> HIDE DEF n
<1>7. n.kind # "VAR" /\ n.kind # "FUNC_APPLY" /\ n.kind \notin LeafKinds
  BY <1>2 DEF LeafKinds
<1>8. \E c, d : n.kids = <<c, d>> /\ c \in DOMAIN heap /\ d \in DOMAIN heap
                /\ heap[d].kind \in LeafKinds
  BY <1>1, <1>2, <1>5
<1> QED
  BY <1>2, <1>3, <1>4, <1>6, <1>7, <1>8, ReadingStep

\* A variable that gets a name which is none of those variables are made with is touched.
LEMMA RenamingShares ==
    ASSUME TableInv, SharedInv, NEW v \in Kinds({"VAR", "QUANT_VAR"}), NEW name,
           Len(name) \in 1..3, \A s : name # <<s>>, \A k : name # <<"QVAR", k>>,
           NEW g, g = [heap EXCEPT ![v].name = name]
    PROVE  /\ InOrder(g, table) /\ SharedIn(Unsorted(g), table)
           /\ NothingTurned(heap) => NothingTurned(g)
           /\ HeapOK(g) /\ DOMAIN g = DOMAIN heap /\ Len(g) = Len(heap)
<1>1. v \in DOMAIN heap /\ heap[v].kind \in {"VAR", "QUANT_VAR"} /\ NodeOK(heap, heap[v])
  BY OperandsAreNodes DEF TableInv, Kinds
<1>2. /\ HeapOK(g) /\ TableOK(g, table) /\ DOMAIN g = DOMAIN heap
      /\ \A j \in DOMAIN heap : j # v => g[j] = heap[j]
  BY RenamedInPlace
<1>3. PICK m : m = [heap[v] EXCEPT !.name = name]
  OBVIOUS
<1>4. g[v] = m
  BY <1>1, <1>3
<1>5. m.kind = heap[v].kind /\ m.name = name /\ m.kids = heap[v].kids /\ m.cached = heap[v].cached
  BY <1>1, <1>3, ChangedName DEF NodeOK
<1>6. InOrder(heap, table) /\ SharedIn(Unsorted(heap), table)
  BY DEF SharedInv
<1>7. KidsInLists(g)
  <2>1. KidsInLists(heap)
    BY <1>6 DEF InOrder
  <2> QED
    BY <2>1, <1>2, <1>4, <1>5 DEF KidsInLists
<1>8. heap[v].kind \notin DefinitionKinds /\ heap[v].kind \notin {"FUNC_APPLY", "OP"}
  BY <1>1, TableBounds
<1>9. /\ heap[v].cached # None /\ heap[v].cached[2] = heap[v].kind
      /\ \A k \in DOMAIN heap[v].kids : /\ heap[v].kids[k] < v
                                        /\ heap[heap[v].kids[k]].cached # None
      /\ \E p \in DOMAIN table : /\ table[p].node = v /\ table[p].hash = heap[v].cached
                                 /\ table[p].kind = heap[v].kind
  BY <1>1, <1>6, <1>8, EntryOf
<1>10. heap[v].cached[3] # name
  <2>1. PICK p \in DOMAIN table : table[p].hash = heap[v].cached /\ table[p].kind = heap[v].kind
    BY <1>9
  <2>2. CASE heap[v].kind = "VAR"
    <3>1. \E s \in DOMAIN vars : table[p].hash[3] = <<s>>
      BY <2>1, <2>2 DEF SharedInv, LeavesApart
    <3> QED
      BY <2>1, <3>1
  <2>3. CASE heap[v].kind = "QUANT_VAR"
    <3>1. \E k \in Nat : table[p].hash[3] = <<"QVAR", k>>
      BY <2>1, <2>3 DEF TableInv, QuantsIn
    <3> QED
      BY <2>1, <3>1
  <2> QED
    BY <1>1, <2>2, <2>3
<1>11. g[v].cached # HashFields(g[v])
  <2>1. HashFields(g[v])[3] = name
    BY <1>4, <1>5, HashFieldsName
  <2> QED
    BY <1>4, <1>5, <1>10, <2>1
<1>12. Remembers(g, v)
  <2>1. \A j \in DOMAIN heap : g[j].cached = heap[j].cached
    BY <1>2, <1>4, <1>5
  <2>2. \A k \in DOMAIN m.kids : m.kids[k] < v /\ g[m.kids[k]].cached # None
    <3>1. \A k \in DOMAIN heap[v].kids : heap[v].kids[k] \in DOMAIN heap
      BY <1>1 DEF NodeOK
    <3> QED
      BY <1>5, <1>9, <2>1, <3>1
  <2> QED
    BY <1>4, <1>5, <1>8, <1>9, <2>2 DEF Remembers, Redefined
<1>13. g[v].cached = heap[v].cached /\ g[v].kind \notin {"OP", "FUNC_APPLY"}
  BY <1>4, <1>5, <1>8
<1>14. InOrder(g, table) /\ SharedIn(Unsorted(g), table)
       /\ (NothingTurned(heap) => NothingTurned(g))
  BY <1>1, <1>2, <1>6, <1>7, <1>8, <1>11, <1>12, <1>13, InPlaceShares
<1>15. Len(g) = Len(heap)
  <2>1. \E T : heap \in Seq(T)
    BY DEF TableInv, HeapOK
  <2> QED
    BY <2>1
<1> QED
  BY <1>2, <1>14, <1>15

\* A quantifier touches its variable, and then has it for an operand.
LEMMA MkQuantifierShares ==
    ASSUME TableInv, SharedInv, NEW body \in Terms, NEW v \in Kinds({"QUANT_VAR"}),
           MkQuantifier(body, v)
    PROVE  SharedInv'
<1>1. PICK name : name = <<"Q", quantifiers', 0>>
  OBVIOUS
<1>2. PICK g : g = [heap EXCEPT ![v].name = name]
  OBVIOUS
<1> DEFINE n == Node("Bool", "FORALL", <<"forall">>, <<body, v>>)
<1>3. body \in DOMAIN heap /\ v \in DOMAIN heap /\ v \in Kinds({"VAR", "QUANT_VAR"})
  BY OperandsAreNodes DEF TableInv, Kinds
<1>4. Create(g, n) /\ Room /\ phase = "reading" /\ vars' = vars
  BY <1>1, <1>2 DEF MkQuantifier
<1>5. Len(name) \in 1..3 /\ (\A s : name # <<s>>) /\ (\A k : name # <<"QVAR", k>>)
  <2>1. Len(name) = 3
    BY <1>1
  <2>2. \A s : Len(<<s>>) = 1
    OBVIOUS
  <2>3. \A k : Len(<<"QVAR", k>>) = 2
    OBVIOUS
  <2> QED
    BY <2>1, <2>2, <2>3
<1>6. /\ InOrder(g, table) /\ SharedIn(Unsorted(g), table)
      /\ NothingTurned(heap) => NothingTurned(g)
      /\ HeapOK(g) /\ DOMAIN g = DOMAIN heap
  BY <1>2, <1>3, <1>5, RenamingShares
<1>7. ReadOrder(g, table, vars)
  <2>1. NothingTurned(heap) /\ LeavesApart(table, vars)
    BY <1>4 DEF SharedInv
  <2> QED
    BY <1>6, <2>1, ReadingOrder
<1>8. NodeOK(g, n) /\ n.cached = None /\ n.kind = "FORALL"
  <2>1. \A k \in DOMAIN <<body, v>> : <<body, v>>[k] \in DOMAIN g
    BY <1>3, <1>6
  <2>2. Len(<<"forall">>) \in 1..3
    OBVIOUS
  <2> QED
    BY <2>1, <2>2, FreshNode
<1>9. IsList(n.kids)
  BY NodeFacts, OperandLists
<1> HIDE DEF n
<1>10. n.kind # "OP" /\ n.kind # "VAR" /\ n.kind # "FUNC_APPLY" /\ n.kind \notin LeafKinds
  BY <1>8 DEF LeafKinds
<1> QED
  BY <1>4, <1>7, <1>8, <1>9, <1>10, ReadingStep

\* The parameter and the function are no operators and no leaves.
LEMMA FunctionShares ==
    ASSUME SharedInv, phase = "reading",
           NEW m, NodeOK(heap, m), m.cached = None, IsList(m.kids), m.kind = "FUNC_PARAM",
           NEW p, p = CreateNode(heap, table, m),
           NEW n, NodeOK(p.heap, n), n.cached = None, IsList(n.kids),
           n.kind \in {"FUNC_DEC"} \cup DefinitionKinds,
           NEW r, r = CreateNode(p.heap, p.table, n),
           heap' = r.heap, table' = r.table, vars' = vars, Room
    PROVE  SharedInv'
<1>1. ReadOrder(heap, table, vars)
  BY WhileReading
<1>2. /\ m.kind # "FUNC_APPLY" /\ m.kind # "OP" /\ m.kind # "VAR" /\ m.kind \notin LeafKinds
      /\ n.kind # "FUNC_APPLY" /\ n.kind # "OP" /\ n.kind # "VAR" /\ n.kind \notin LeafKinds
  BY TableBounds DEF LeafKinds
<1>3. ReadOrder(p.heap, p.table, vars)
  BY <1>1, <1>2, ReadingCreate
<1>4. ReadOrder(r.heap, r.table, vars)
  BY <1>2, <1>3, ReadingCreate
<1>5. /\ InOrder(r.heap, r.table) /\ NothingTurned(r.heap)
      /\ SharedIn(Unsorted(r.heap), r.table) /\ LeavesApart(r.table, vars)
  BY <1>4, ReadingOrder
<1> QED
  BY <1>5 DEF SharedInv, Bounded, Room

\* A declaration makes its parameter and itself.
LEMMA MkFuncDecShares ==
    ASSUME TableInv, SharedInv, NEW s \in Symbols, MkFuncDec(s)
    PROVE  SharedInv'
<1> DEFINE m == Node("Bool", "FUNC_PARAM", <<"Bool">>, << >>)
           p == CreateNode(heap, table, m)
           n == Node("Bool", "FUNC_DEC", <<s>>, <<NullNode, p.node>>)
           r == CreateNode(p.heap, p.table, n)
<1>1. NullNode \in DOMAIN heap
  BY OperandsAreNodes DEF TableInv
<1>2. NodeOK(heap, m) /\ m.cached = None /\ NodeOK(p.heap, n) /\ n.cached = None
  BY <1>1, FunctionNode
<1>3. IsList(m.kids) /\ IsList(n.kids) /\ m.kind = "FUNC_PARAM" /\ n.kind = "FUNC_DEC"
  BY NodeFacts, OperandLists
<1>4. heap' = r.heap /\ table' = r.table /\ vars' = vars /\ Room /\ phase = "reading"
  BY DEF MkFuncDec
<1>5. PICK q : q = p
  OBVIOUS
<1>6. PICK t : t = r
  OBVIOUS
<1> HIDE DEF m, n
<1> QED
  BY <1>2, <1>3, <1>4, <1>5, <1>6, FunctionShares

\* So does a definition of a new name.
LEMMA DefineNewShares ==
    ASSUME TableInv, SharedInv, NEW s \in Symbols, NEW body \in Terms,
           NEW kind \in DefinitionKinds, DefineNew(s, body, kind)
    PROVE  SharedInv'
<1> DEFINE m == Node("Bool", "FUNC_PARAM", <<"p">>, << >>)
           p == CreateNode(heap, table, m)
           n == Node("Bool", kind, <<s>>, <<body, p.node>>)
           r == CreateNode(p.heap, p.table, n)
<1>1. body \in DOMAIN heap
  BY OperandsAreNodes DEF TableInv
<1>2. NodeOK(heap, m) /\ m.cached = None /\ NodeOK(p.heap, n) /\ n.cached = None
  BY <1>1, FunctionNode
<1>3. IsList(m.kids) /\ IsList(n.kids) /\ m.kind = "FUNC_PARAM" /\ n.kind = kind
  BY NodeFacts, OperandLists
<1>4. heap' = r.heap /\ table' = r.table /\ vars' = vars /\ Room /\ phase = "reading"
  BY DEF DefineNew
<1>5. PICK q : q = p
  OBVIOUS
<1>6. PICK t : t = r
  OBVIOUS
<1> HIDE DEF m, n
<1> QED
  BY <1>2, <1>3, <1>4, <1>5, <1>6, FunctionShares

\* A declaration that becomes a definition keeps its hash: it is touched.
LEMMA DefineDeclaredShares ==
    ASSUME TableInv, TableInv', RequestInv', SharedInv, NEW s \in Symbols, NEW body \in Terms,
           NEW kind \in DefinitionKinds, DefineDeclared(s, body, kind)
    PROVE  SharedInv'
<1> DEFINE i == funs[s]
           kids == <<body, heap[i].kids[2]>>
           d == [heap[i] EXCEPT !.kind = kind]
           m == [d EXCEPT !.kids = kids]
<1>1. i \in DOMAIN heap /\ IsNode(heap[i]) /\ heap[i].kind = "FUNC_DEC"
  BY DEF TableInv, FunsIn, DefineDeclared, HeapOK, NodeOK
<1>2. IsNode(d) /\ d.kind = kind /\ d.cached = heap[i].cached
  <2> HIDE DEF i
  <2> QED
    BY <1>1, ChangedKind
<1>3. m.kind = kind /\ m.cached = heap[i].cached
  <2> HIDE DEF d, kids, i
  <2> QED
    BY <1>2, ChangedKids
<1>4. heap' = [heap EXCEPT ![i] = m]
  BY <1>1 DEF DefineDeclared
<1>5. table' = table /\ vars' = vars /\ phase' = phase /\ phase = "reading"
  BY DEF DefineDeclared
<1> HIDE DEF m, kids, d, i
<1>6. PICK g : g = heap'
  OBVIOUS
<1>7. /\ DOMAIN g = DOMAIN heap /\ g[i] = m /\ \A j \in DOMAIN heap : j # i => g[j] = heap[j]
      /\ Len(g) = Len(heap)
  <2>1. \E T : heap \in Seq(T)
    BY DEF TableInv, HeapOK
  <2> QED
    BY <2>1, <1>1, <1>4, <1>6
<1>8. HeapOK(g) /\ TableOK(g, table) /\ KidsInLists(g)
  BY <1>5, <1>6 DEF TableInv, RequestInv, KidsInLists
<1>9. InOrder(heap, table) /\ SharedIn(Unsorted(heap), table) /\ NothingTurned(heap)
      /\ LeavesApart(table, vars) /\ Bounded
  BY <1>5 DEF SharedInv
<1>10. heap[i].cached # None /\ heap[i].cached[2] = "FUNC_DEC"
  <2>1. heap[i].kind \notin DefinitionKinds /\ heap[i].kind # "FUNC_APPLY"
    BY <1>1, TableBounds
  <2> QED
    BY <1>1, <1>9, <2>1, EntryOf
<1>11. g[i].cached = heap[i].cached /\ g[i].kind = kind /\ kind \in {"FUNC_DEF", "FUNC_REC"}
  BY <1>3, <1>7, TableBounds
<1>12. Remembers(g, i)
  BY <1>10, <1>11 DEF Remembers, Redefined
<1>13. g[i].cached # HashFields(g[i])
  <2>1. HashFields(g[i])[2] = kind
    BY <1>11 DEF HashFields
  <2> QED
    BY <1>10, <1>11, <2>1
<1>14. heap[i].kind \notin {"OP", "FUNC_APPLY"} /\ g[i].kind \notin {"OP", "FUNC_APPLY"}
  BY <1>1, <1>11
<1>15. InOrder(g, table) /\ SharedIn(Unsorted(g), table) /\ NothingTurned(g)
  <2>1. \A j \in DOMAIN heap : j # i => g[j] = heap[j]
    BY <1>7
  <2>2. DOMAIN g = DOMAIN heap /\ g[i].cached = heap[i].cached
    BY <1>7, <1>11
  <2> QED
    BY <1>1, <1>8, <1>9, <1>12, <1>13, <1>14, <2>1, <2>2, InPlaceShares
<1> QED
  BY <1>5, <1>6, <1>7, <1>9, <1>15 DEF SharedInv, Bounded

\* A symbol that the kernel renames is touched.
LEMMA RenameSymbolShares ==
    ASSUME TableInv, SharedInv, NEW i \in Kinds({"VAR", "QUANT_VAR"}), RenameSymbol(i)
    PROVE  SharedInv'
<1>1. PICK name : name = <<"S", Cardinality({j \in DOMAIN heap : heap[j].name[1] = "S"})>>
  OBVIOUS
<1>2. PICK g : g = [heap EXCEPT ![i].name = name]
  OBVIOUS
<1>3. heap' = g /\ table' = table /\ vars' = vars /\ phase' = "writing"
  BY <1>1, <1>2 DEF RenameSymbol
<1>4. Len(name) \in 1..3 /\ (\A s : name # <<s>>) /\ (\A k : name # <<"QVAR", k>>)
  <2>1. Len(name) = 2 /\ name[1] = "S"
    BY <1>1
  <2>2. \A s : Len(<<s>>) = 1
    OBVIOUS
  <2>3. \A k : <<"QVAR", k>>[1] = "QVAR"
    OBVIOUS
  <2> QED
    BY <2>1, <2>2, <2>3
<1>5. InOrder(g, table) /\ SharedIn(Unsorted(g), table) /\ Len(g) = Len(heap)
  BY <1>2, <1>4, RenamingShares
<1>6. LeavesApart(table, vars) /\ Bounded
  BY DEF SharedInv
<1> QED
  BY <1>3, <1>5, <1>6 DEF SharedInv, Bounded

\* Sorting is undone.
LEMMA SortOperandsShares ==
    ASSUME TableInv', RequestInv', SharedInv, NEW i \in Kinds({"OP"}), SortOperands(i)
    PROVE  SharedInv'
<1>1. i \in DOMAIN heap /\ heap[i].kind = "OP" /\ heap[i].kids[1] # heap[i].kids[2]
  BY DEF Kinds, SortOperands
<1>2. PICK g : g = [heap EXCEPT ![i].kids = Turned(heap[i].kids)]
  OBVIOUS
<1>3. heap' = g /\ table' = table /\ vars' = vars /\ phase' = phase /\ phase = "writing"
  BY <1>2 DEF SortOperands, Turned
<1>4. HeapOK(g) /\ TableOK(g, table) /\ KidsInLists(g)
  BY <1>3 DEF TableInv, RequestInv, KidsInLists
<1>5. InOrder(heap, table) /\ SharedIn(Unsorted(heap), table) /\ LeavesApart(table, vars)
      /\ Bounded
  BY DEF SharedInv
<1>6. InOrder(g, table) /\ Unsorted(g) = Unsorted(heap)
  BY <1>1, <1>2, <1>4, <1>5, SortingShares
<1>7. Len(g) = Len(heap)
  <2>1. \E T : heap \in Seq(T)
    BY <1>5 DEF InOrder, HeapOK
  <2> QED
    BY <1>2, <2>1
<1>8. SharedIn(Unsorted(g), table)
  BY <1>5, <1>6
<1> QED
  BY <1>3, <1>5, <1>6, <1>7, <1>8 DEF SharedInv, Bounded

\* A let variable is made while operands are sorted; its own operand has an entry.
LEMMA MkLetBindVarShares ==
    ASSUME TableInv, SharedInv, NEW k \in 0..1, NEW i \in Kinds({"OP", "FORALL"}),
           MkLetBindVar(k, i)
    PROVE  SharedInv'
<1>1. i \in DOMAIN heap /\ heap[i].kind \in {"OP", "FORALL"}
  BY DEF Kinds
<1> DEFINE n == Node("Bool", "LET_BIND_VAR", <<"L", k>>, <<i>>)
<1>2. NodeOK(heap, n) /\ n.cached = None /\ n.kind = "LET_BIND_VAR" /\ n.kids = <<i>>
  <2>1. \A j \in DOMAIN <<i>> : <<i>>[j] \in DOMAIN heap
    BY <1>1
  <2>2. Len(<<"L", k>>) \in 1..3
    OBVIOUS
  <2> QED
    BY <2>1, <2>2, FreshNode
<1>3. IsList(n.kids)
  BY NodeFacts, OperandLists
<1>4. Create(heap, n) /\ Room /\ phase = "writing" /\ phase' = phase /\ vars' = vars
  BY DEF MkLetBindVar
<1> HIDE DEF n
<1>5. PICK r : r = CreateNode(heap, table, n)
  OBVIOUS
<1>6. heap' = r.heap /\ table' = r.table
  BY <1>4, <1>5 DEF Create
<1>7. InOrder(heap, table) /\ SharedIn(Unsorted(heap), table) /\ LeavesApart(table, vars)
  BY DEF SharedInv
<1>8. \A j \in DOMAIN n.kids : heap[n.kids[j]].kind # "FUNC_APPLY"
  BY <1>1, <1>2
<1>9. n.kind \notin {"FUNC_APPLY", "OP"} /\ n.kind \notin LeafKinds /\ n.kind # "VAR"
  BY <1>2 DEF LeafKinds
<1>10. Created(heap, table, n, r)
  BY <1>2, <1>5, <1>7, CreateExactly DEF InOrder
<1>11. Len(r.heap) <= HeapBound
  <2>1. Len(r.table) <= NumStatic + MaxNodes /\ Len(r.heap) - Len(r.table) <= MaxApplications
    BY <1>4, <1>6 DEF Room
  <2>2. Len(r.heap) \in Nat /\ Len(r.table) \in Nat
    <3>1. HeapOK(r.heap) /\ TableOK(r.heap, r.table)
      BY <1>2, <1>5, <1>7, CreateMakes DEF InOrder, Made, Kept
    <3> QED
      BY <3>1, HeapFacts, AppendFacts DEF TableOK
  <2>3. MaxNodes \in Nat /\ MaxApplications \in Nat /\ NumStatic = 20
    BY TableBounds, StaticFacts
  <2>4. PICK x, y : x = Len(r.heap) /\ y = Len(r.table)
    OBVIOUS
  <2>5. x \in Nat /\ y \in Nat /\ y <= 20 + MaxNodes /\ x - y <= MaxApplications
    BY <2>1, <2>2, <2>3, <2>4
  <2>6. x <= 20 + MaxNodes + MaxApplications
    BY <2>3, <2>5
  <2> QED
    BY <2>3, <2>4, <2>6 DEF HeapBound
<1>12. InOrder(r.heap, r.table) /\ SharedIn(Unsorted(r.heap), r.table)
  BY <1>2, <1>3, <1>5, <1>7, <1>8, <1>9, <1>11, WritingShares
<1>13. LeavesApart(r.table, vars)
  BY <1>7, <1>9, <1>10, LeavesCreate
<1> QED
  BY <1>4, <1>6, <1>12, <1>13 DEF SharedInv, Bounded, Room

\* An application is a node of its own without an entry; the others stay what they were.
LEMMA MkApplyShares ==
    ASSUME TableInv, TableInv', RequestInv', SharedInv,
           NEW f \in Kinds(DefinitionKinds), NEW arg \in Leaves, MkApply(f, arg)
    PROVE  SharedInv'
<1> DEFINE kids == <<f, arg>>
           b == Node("Bool", "FUNC_APPLY", heap[f].name, kids)
           n == [b EXCEPT !.chash = << >>]
<1>1. n.kids = kids /\ n.kind = "FUNC_APPLY" /\ n.cached = None
  <2>1. IsNode(b) /\ b.kids = kids /\ b.kind = "FUNC_APPLY" /\ b.cached = None
    BY NodeFacts
  <2> HIDE DEF b, kids
  <2> QED
    BY <2>1, ChangedHash
<1>2. heap' = Append(heap, n) /\ Room
      /\ table' = table /\ vars' = vars /\ phase' = phase /\ phase = "reading"
  BY DEF MkApply
<1>3. f \in DOMAIN heap /\ arg \in DOMAIN heap
  BY OperandsAreNodes DEF TableInv
<1>4. \A k \in DOMAIN n.kids : n.kids[k] \in DOMAIN heap
  BY <1>1, <1>3
<1> HIDE DEF n, b, kids
<1>5. PICK g : g = heap'
  OBVIOUS
<1>6. HeapOK(g) /\ TableOK(g, table) /\ KidsInLists(g)
  BY <1>2, <1>5 DEF TableInv, RequestInv, KidsInLists
<1>7. PICK l : l = Len(heap) + 1
  OBVIOUS
<1>8. /\ Len(heap) \in Nat /\ DOMAIN heap = 1..Len(heap) /\ DOMAIN g = 1..l
      /\ \A i \in DOMAIN heap : g[i] = heap[i]
      /\ g[l] = n
  <2>1. \E T : heap \in Seq(T)
    BY DEF TableInv, HeapOK
  <2> QED
    BY <2>1, <1>2, <1>5, <1>7, AppendFacts
<1>9. ReadOrder(heap, table, vars)
  BY <1>2, WhileReading
<1>10. /\ InOrder(heap, table) /\ NothingTurned(heap) /\ SharedIn(heap, table)
       /\ LeavesApart(table, vars) /\ NodesRemember(heap) /\ EntriesOK(heap, table)
       /\ Closed(heap)
  BY <1>9, OrderFacts DEF ReadOrder, InOrder
<1>11. Advances(heap, g)
  BY <1>7, <1>8 DEF Advances, SameForm
<1>12. ASSUME NEW i \in DOMAIN heap
       PROVE  /\ Remembers(g, i) /\ OperandsOK(g, i)
              /\ heap[i].kind = "OP" => KidHashes(g, i) = KidHashes(heap, i)
  <2>1. Remembers(heap, i) /\ OperandsOK(heap, i)
    BY <1>10 DEF NodesRemember
  <2>2. \A k \in DOMAIN heap[i].kids : heap[i].kids[k] \in DOMAIN heap
    BY <1>10 DEF Closed
  <2> QED
    BY <1>11, <2>1, <2>2, StillRemembers
<1>13. Remembers(g, l) /\ OperandsOK(g, l)
  <2>1. \A k \in DOMAIN n.kids : n.kids[k] < l
    BY <1>4, <1>7, <1>8
  <2> QED
    BY <1>1, <1>8, <2>1 DEF Remembers, OperandsOK
<1>14. \A i \in DOMAIN g : i = l \/ i \in DOMAIN heap
  BY <1>7, <1>8
<1>15. NodesRemember(g)
  BY <1>12, <1>13, <1>14 DEF NodesRemember
<1>16. EntriesOK(g, table)
  <2>1. ASSUME NEW i \in DOMAIN g, g[i].kind # "FUNC_APPLY"
        PROVE  \E p \in DOMAIN table : table[p].node = i
    <3>1. i \in DOMAIN heap /\ heap[i].kind # "FUNC_APPLY"
      BY <1>1, <1>8, <1>14, <2>1
    <3> QED
      BY <1>10, <3>1 DEF EntriesOK
  <2> QED
    BY <1>10, <2>1 DEF EntriesOK
<1>17. InOrder(g, table)
  BY <1>6, <1>15, <1>16 DEF InOrder
<1>18. NothingTurned(g)
  <2>1. ASSUME NEW i \in DOMAIN g, g[i].kind = "OP"
        PROVE  g[i].chash = KidHashes(g, i)
    <3>1. i \in DOMAIN heap /\ g[i] = heap[i]
      BY <1>1, <1>8, <1>14, <2>1
    <3> QED
      BY <1>10, <1>12, <2>1, <3>1 DEF NothingTurned
  <2> QED
    BY <2>1 DEF NothingTurned
<1>19. SharedIn(g, table)
  <2>1. Carried(heap, g)
    BY <1>10, <1>11, AdvancesCarries
  <2>2. \A p \in DOMAIN table : table[p].node \in DOMAIN heap
    BY DEF TableInv, TableOK
  <2> QED
    BY <1>10, <2>1, <2>2, SharedCarried
<1>20. SharedIn(Unsorted(g), table)
  <2>1. ReadOrder(g, table, vars)
    BY <1>10, <1>17, <1>18, <1>19 DEF ReadOrder
  <2> QED
    BY <2>1, ReadingOrder
<1> QED
  BY <1>2, <1>5, <1>10, <1>17, <1>18, <1>20 DEF SharedInv, Bounded, Room

\* A new parser starts with the static nodes.
LEMMA NextParserShares ==
    ASSUME TableInv, TableInv', RequestInv', NextParser
    PROVE  SharedInv'
<1>1. PICK g, t, vs : g = heap' /\ t = table' /\ vs = vars'
  OBVIOUS
<1>2. HeapOK(g) /\ TableOK(g, t) /\ KidsInLists(g)
  BY <1>1 DEF TableInv, RequestInv, KidsInLists
<1>3. t = StaticTable(g) /\ g = ClearedHeap
  BY <1>1 DEF NextParser
<1>4. Len(g) = NumStatic
  <2>1. DOMAIN g = 1..NumStatic
    BY <1>3 DEF ClearedHeap
  <2>2. NumStatic = 20 /\ Len(g) \in Nat /\ Len(g) >= 20 /\ DOMAIN g = 1..Len(g)
    BY <1>2, HeapFacts
  <2>3. PICK n : n = Len(g)
    OBVIOUS
  <2>4. n \in Nat /\ 20 <= n /\ 1..n = 1..20
    BY <2>1, <2>2, <2>3
  <2>5. n # 20 => n \in 1..n /\ n \notin 1..20
    BY <2>4
  <2> QED
    BY <2>2, <2>3, <2>4, <2>5, Zenon
<1>5. /\ InOrder(g, t) /\ NothingTurned(g) /\ SharedIn(g, t) /\ LeavesApart(t, vs)
      /\ Len(t) = NumStatic
  BY <1>2, <1>3, <1>4, StartShares
<1>6. SharedIn(Unsorted(g), t)
  BY <1>5, ReadingOrder DEF ReadOrder
<1> QED
  BY <1>1, <1>4, <1>5, <1>6, TableBounds, StaticFacts DEF SharedInv, Bounded

\* So does the first.
LEMMA InitShares == Init => SharedInv
<1> SUFFICES ASSUME Init PROVE SharedInv
  OBVIOUS
<1>1. HeapOK(heap) /\ TableOK(heap, table) /\ KidsInLists(heap)
  BY InitInv, InitMeets DEF TableInv, RequestInv
<1>2. table = StaticTable(heap) /\ DOMAIN heap = 1..NumStatic
  BY DEF Init
<1>3. Len(heap) = NumStatic
  <2>1. NumStatic = 20 /\ Len(heap) \in Nat /\ Len(heap) >= 20 /\ DOMAIN heap = 1..Len(heap)
    BY <1>1, HeapFacts
  <2>2. PICK n : n = Len(heap)
    OBVIOUS
  <2>3. n \in Nat /\ 20 <= n /\ 1..n = 1..20
    BY <1>2, <2>1, <2>2
  <2>4. n # 20 => n \in 1..n /\ n \notin 1..20
    BY <2>3
  <2> QED
    BY <2>1, <2>2, <2>3, <2>4, Zenon
<1>4. /\ InOrder(heap, table) /\ NothingTurned(heap) /\ SharedIn(heap, table)
      /\ LeavesApart(table, vars) /\ Len(table) = NumStatic
  BY <1>1, <1>2, <1>3, StartShares
<1>5. SharedIn(Unsorted(heap), table)
  BY <1>4, ReadingOrder DEF ReadOrder
<1> QED
  BY <1>3, <1>4, <1>5, TableBounds, StaticFacts DEF SharedInv, Bounded

\* Every step keeps equal terms one node.
LEMMA SharedStep ==
    TableInv /\ TableInv' /\ RequestInv' /\ SharedInv /\ [Next]_state => SharedInv'
<1> SUFFICES ASSUME TableInv, TableInv', RequestInv', SharedInv, [Next]_state PROVE SharedInv'
  OBVIOUS
<1>1. ASSUME NEW s \in Symbols, MkVar(s) PROVE SharedInv'
  BY <1>1, MkVarShares
<1>2. ASSUME NEW s \in Symbols, MkFuncDec(s) PROVE SharedInv'
  BY <1>2, MkFuncDecShares
<1>3. ASSUME NEW s \in Symbols, NEW b \in Terms, NEW k \in DefinitionKinds,
             DefineDeclared(s, b, k) \/ DefineNew(s, b, k)
      PROVE  SharedInv'
  BY <1>3, DefineDeclaredShares, DefineNewShares
<1>4. ASSUME MkQuantVar PROVE SharedInv'
  BY <1>4, MkQuantVarShares
<1>5. ASSUME NEW a \in Terms, NEW b \in Leaves, MkOper(<<a, b>>) PROVE SharedInv'
  BY <1>5, MkOperShares
<1>6. ASSUME NEW b \in Terms, NEW v \in Kinds({"QUANT_VAR"}), MkQuantifier(b, v)
      PROVE  SharedInv'
  BY <1>6, MkQuantifierShares
<1>7. ASSUME NEW f \in Kinds(DefinitionKinds), NEW a \in Leaves, MkApply(f, a)
      PROVE  SharedInv'
  BY <1>7, MkApplyShares
<1>8. ASSUME NEW i \in Kinds({"VAR", "QUANT_VAR"}), RenameSymbol(i) PROVE SharedInv'
  BY <1>8, RenameSymbolShares
<1>9. ASSUME NEW i \in Kinds({"OP"}), SortOperands(i) PROVE SharedInv'
  BY <1>9, SortOperandsShares
<1>10. ASSUME NEW k \in 0..1, NEW i \in Kinds({"OP", "FORALL"}), MkLetBindVar(k, i)
       PROVE  SharedInv'
  BY <1>10, MkLetBindVarShares
<1>11. ASSUME NextParser PROVE SharedInv'
  BY <1>11, NextParserShares
<1>12. CASE UNCHANGED state
  BY <1>12 DEF state, SharedInv, Bounded
<1> QED
  BY <1>1, <1>2, <1>3, <1>4, <1>5, <1>6, <1>7, <1>8, <1>9, <1>10, <1>11, <1>12, Zenon DEF Next

\* What is below untouched nodes is unsorted as it is, and so has no two equal terms.
LEMMA SharedBelow ==
    ASSUME TableInv, SharedInv
    PROVE  SharedUnlessTouched
<1> SUFFICES ASSUME NEW p \in DOMAIN table, NEW q \in DOMAIN table, p < q,
                    Equivalent(heap, table[p].node, table[q].node),
                    ~\E i \in Below(table[p].node) \cup Below(table[q].node) : Touched(i)
             PROVE  FALSE
  BY DEF SharedUnlessTouched
<1>1. PICK a, b : a = table[p].node /\ b = table[q].node
  OBVIOUS
<1>2. /\ InOrder(heap, table) /\ SharedIn(Unsorted(heap), table) /\ Closed(heap)
      /\ Len(heap) \in Nat /\ DOMAIN heap = 1..Len(heap)
      /\ a \in DOMAIN heap /\ b \in DOMAIN heap
  BY <1>1, OrderFacts DEF SharedInv
<1>3. Len(heap) <= HeapBound
  <2>1. Len(table) \in Nat
    <3>1. \E T : table \in Seq(T)
      BY DEF TableInv, TableOK
    <3> QED
      BY <3>1
  <2>2. Len(table) <= NumStatic + MaxNodes /\ Len(heap) - Len(table) <= MaxApplications
    BY DEF SharedInv, Bounded
  <2>3. MaxNodes \in Nat /\ MaxApplications \in Nat /\ NumStatic = 20
    BY TableBounds, StaticFacts
  <2>4. PICK x, y : x = Len(heap) /\ y = Len(table)
    OBVIOUS
  <2>5. x \in Nat /\ y \in Nat /\ y <= 20 + MaxNodes /\ x - y <= MaxApplications
    BY <1>2, <2>1, <2>2, <2>3, <2>4
  <2>6. x <= 20 + MaxNodes + MaxApplications
    BY <2>3, <2>5
  <2> QED
    BY <2>3, <2>4, <2>6 DEF HeapBound
<1>4. \A i : Touched(i) <=> TouchedIn(heap, i)
  BY DEF Touched, TouchedIn, KidHashes
<1> DEFINE S == Below(a) \cup Below(b)
<1>5. \A i \in S : ~TouchedIn(heap, i)
  BY <1>1, <1>4
<1>6. ASSUME NEW j \in DOMAIN heap, ~TouchedIn(heap, j), NEW k \in DOMAIN heap[j].kids
      PROVE  heap[j].kids[k] < j
  <2>1. Remembers(heap, j)
    BY <1>2 DEF InOrder, NodesRemember
  <2>2. ~(heap[j].cached # None /\ Redefined(heap[j]))
    <3>1. HashFields(heap[j])[2] = heap[j].kind
      BY DEF HashFields
    <3> QED
      BY <1>6, <3>1 DEF TouchedIn, Redefined
  <2> QED
    BY <1>6, <2>1, <2>2 DEF Remembers
<1>7. \A j \in 1..NumStatic : DOMAIN heap[j].kids = {}
  <2> TAKE j \in 1..NumStatic
  <2>1. heap[j] = Hashed(StaticNodes[j])
    BY DEF TableInv, HeapOK
  <2>2. IsNode(StaticNodes[j]) /\ StaticNodes[j].kids = << >>
    BY StaticFacts
  <2>3. heap[j].kids = << >>
    BY <2>1, <2>2, HashedFacts
  <2> QED
    BY <2>3
<1>8. ASSUME NEW i \in DOMAIN heap, Below(i) \subseteq S
      PROVE  i \in Below(i) /\ ClosedSet(heap, Below(i))
  <2>1. Below(i) \subseteq DOMAIN heap
    BY <1>2, <1>8, BelowAreNodes
  <2>2. \A j \in Below(i) : \A k \in DOMAIN heap[j].kids : heap[j].kids[k] < j
    <3> HIDE DEF S
    <3> QED
      BY <1>5, <1>6, <1>8, <2>1
  <2>3. PICK D \in Nat : D = Len(heap) /\ DOMAIN heap = 1..D /\ D <= HeapBound
    BY <1>2, <1>3
  <2> HIDE DEF S
  <2> QED
    BY <1>2, <1>7, <2>2, <2>3, BelowIsClosed
<1>9. ClosedSet(heap, S) /\ a \in S /\ b \in S
  <2>1. a \in Below(a) /\ ClosedSet(heap, Below(a)) /\ b \in Below(b) /\ ClosedSet(heap, Below(b))
    BY <1>2, <1>8
  <2> QED
    BY <2>1 DEF ClosedSet
<1> HIDE DEF S
<1>10. PICK u : u = Unsorted(heap)
  OBVIOUS
<1>11. /\ DOMAIN u = DOMAIN heap
       /\ \A i \in DOMAIN heap : u[i].cached = heap[i].cached /\ u[i] = UnsortedNode(heap, i)
  BY <1>2, <1>10, UnsortedFacts DEF InOrder, Unsorted
<1>12. ASSUME NEW i \in S
       PROVE  u[i] = heap[i] /\ ~TouchedIn(u, i)
  <2>1. i \in DOMAIN heap /\ ~TouchedIn(heap, i)
    BY <1>5, <1>9 DEF ClosedSet
  <2>2. heap[i].kind = "OP" => heap[i].chash = KidHashes(heap, i)
    <3>1. heap[i].kind = "OP" => heap[i].cached # None
      <4>1. Remembers(heap, i) /\ "OP" \notin DefinitionKinds
        BY <1>2, <2>1, TableBounds DEF InOrder, NodesRemember
      <4> QED
        BY <4>1 DEF Remembers
    <3> QED
      BY <2>1, <3>1 DEF TouchedIn
  <2>3. u[i] = heap[i]
    BY <1>11, <2>1, <2>2 DEF UnsortedNode
  <2>4. KidHashes(u, i) = KidHashes(heap, i)
    <3>1. \A k \in DOMAIN heap[i].kids : u[heap[i].kids[k]].cached = heap[heap[i].kids[k]].cached
      BY <1>2, <1>11, <2>1 DEF Closed
    <3> QED
      BY <2>3, <3>1 DEF KidHashes
  <2> QED
    BY <2>1, <2>3, <2>4 DEF TouchedIn
<1>13. UntouchedSet(u, S)
  BY <1>9, <1>11, <1>12 DEF UntouchedSet, ClosedSet
<1>14. ~Equivalent(u, a, b)
  BY <1>1, <1>2, <1>9, <1>10, <1>13 DEF SharedIn
<1>15. Equivalent(heap, a, b) <=> Equivalent(u, a, b)
  <2>1. \A i \in S : SameForm(heap[i], u[i])
    BY <1>12 DEF SameForm
  <2>2. S \subseteq DOMAIN u /\ KidsInLists(heap)
    BY <1>2, <1>9, <1>11 DEF ClosedSet, Closed
  <2> QED
    BY <1>9, <2>1, <2>2, SameOn
<1> QED
  BY <1>1, <1>14, <1>15

(* Two nodes of the table are the same term only if something below them   *)
(* was renamed, redefined or reordered in place: equal terms are one node  *)
(* until then, and no lookup by a remembered hash misses one that was left *)
(* alone (insertNodeToBucket, setName, updateFuncDef, replace_children).   *)
THEOREM EqualTermsShared == Spec => []SharedUnlessTouched
<1>1. Init => RequestInv /\ SharedInv
  BY InitMeets, InitShares
<1>2. TableInv /\ TableInv' /\ RequestInv /\ SharedInv /\ [Next]_state => RequestInv' /\ SharedInv'
  BY RequestStep, SharedStep
<1>3. TableInv /\ SharedInv => SharedUnlessTouched
  BY SharedBelow
<1> QED
  BY <1>1, <1>2, <1>3, TableInvariant, PTL DEF Spec
=============================================================================
