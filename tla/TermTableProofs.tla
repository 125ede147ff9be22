--------------------------- MODULE TermTableProofs ---------------------------
(***************************************************************************)
(* Proofs about TermTable, for every set of symbols and all bounds: what   *)
(* scripts, kernels and later parsers leave of the table and of the nodes  *)
(* all parsers share.                                                      *)
(***************************************************************************)
EXTENDS TermTable, SequenceTheorems, FiniteSetTheorems, WellFoundedInduction, TLAPS

\* A record with the fields of Node.
NodeFields == {"sort", "kind", "name", "kids", "chash", "cached"}
IsNode(n) == n = [f \in NodeFields |-> n[f]]

StaticKinds ==
    {"NULL", "UNKNOWN", "ERROR", "CONST_TRUE", "CONST_FALSE", "CONST_E", "CONST_PI", "NAN",
     "EPSILON", "POS_EPSILON", "NEG_EPSILON", "INFINITY", "POS_INFINITY", "NEG_INFINITY"}

\* Operators and declared functions have two operands, whose order or first one changes.
TwoKids(n) == n.kind \in {"OP", "FUNC_DEC"} => DOMAIN n.kids = 1..2

NodeOK(h, n) ==
    /\ IsNode(n)
    /\ \A k \in DOMAIN n.kids : n.kids[k] \in DOMAIN h
    /\ Len(n.name) \in 1..3
    /\ TwoKids(n)

HeapOK(h) ==
    /\ \E S : h \in Seq(S)
    /\ NumStatic <= Len(h)
    /\ \A i \in DOMAIN h : NodeOK(h, h[i])
    /\ \A i \in 1..NumStatic : h[i] = Hashed(StaticNodes[i])

\* A node of the table remembers the hash of its entry, whatever it has become.
TableOK(h, tbl) ==
    /\ \E S : tbl \in Seq(S)
    /\ NumStatic <= Len(tbl)
    /\ \A p \in DOMAIN tbl : /\ tbl[p].node \in DOMAIN h
                             /\ h[tbl[p].node].cached = tbl[p].hash
                             /\ tbl[p].hash # None
                             /\ p > NumStatic => tbl[p].node > NumStatic
    /\ \A i \in 1..NumStatic : tbl[i] = Entry(i, h[i])

-----------------------------------------------------------------------------
\* The static nodes, one by one.
LEMMA StaticFacts ==
    /\ NumStatic = 20
    /\ \A i \in 1..NumStatic : /\ IsNode(StaticNodes[i])
                               /\ StaticNodes[i].kids = << >>
                               /\ Len(StaticNodes[i].name) = 1
                               /\ StaticNodes[i].kind \in StaticKinds
                               /\ StaticNodes[i].cached = None
<1>1. ASSUME NEW sort, NEW kind \in StaticKinds, NEW text
      PROVE  LET n == Node(sort, kind, <<text>>, << >>)
             IN /\ IsNode(n) /\ n.kids = << >> /\ Len(n.name) = 1
                /\ n.kind \in StaticKinds /\ n.cached = None
  BY DEF Node, IsNode, NodeFields, None
<1>2. NumStatic = 20
  BY DEF NumStatic, StaticNodes
<1> DEFINE IsStatic(n) == \E sort, text : \E kind \in StaticKinds :
                              n = Node(sort, kind, <<text>>, << >>)
<1>3. ASSUME NEW text
      PROVE  IsStatic(Constant(text))
  BY DEF Constant, StaticKinds
<1>4. ASSUME NEW sort, NEW kind \in StaticKinds, NEW text
      PROVE  IsStatic(Node(sort, kind, <<text>>, << >>))
  OBVIOUS
<1> HIDE DEF IsStatic
<1>5. IsStatic(StaticNodes[1]) /\ IsStatic(StaticNodes[4]) /\ IsStatic(StaticNodes[5])
      /\ IsStatic(StaticNodes[6]) /\ IsStatic(StaticNodes[7]) /\ IsStatic(StaticNodes[8])
      /\ IsStatic(StaticNodes[9])
  BY <1>3 DEF StaticNodes
<1>6. IsStatic(StaticNodes[2]) /\ IsStatic(StaticNodes[3])
      /\ IsStatic(StaticNodes[10]) /\ IsStatic(StaticNodes[11]) /\ IsStatic(StaticNodes[12])
      /\ IsStatic(StaticNodes[13]) /\ IsStatic(StaticNodes[14]) /\ IsStatic(StaticNodes[15])
  BY <1>4 DEF StaticNodes, StaticKinds
<1>7. IsStatic(StaticNodes[16]) /\ IsStatic(StaticNodes[17]) /\ IsStatic(StaticNodes[18])
      /\ IsStatic(StaticNodes[19]) /\ IsStatic(StaticNodes[20])
  BY <1>4 DEF StaticNodes, StaticKinds
<1>8. ASSUME NEW i \in 1..20
      PROVE  IsStatic(StaticNodes[i])
  <2>1. i \in {1, 2, 3, 4, 5, 6, 7, 8, 9, 10, 11, 12, 13, 14, 15, 16, 17, 18, 19, 20}
    OBVIOUS
  <2> QED
    BY <2>1, <1>5, <1>6, <1>7
<1>9. ASSUME NEW n, IsStatic(n)
      PROVE  /\ IsNode(n) /\ n.kids = << >> /\ Len(n.name) = 1
             /\ n.kind \in StaticKinds /\ n.cached = None
  <2>1. PICK sort, text : \E kind \in StaticKinds : n = Node(sort, kind, <<text>>, << >>)
    BY <1>9 DEF IsStatic
  <2>2. PICK kind \in StaticKinds : n = Node(sort, kind, <<text>>, << >>)
    BY <2>1
  <2> QED
    BY <2>2, <1>1
<1> QED
  BY <1>2, <1>8, <1>9

\* A sequence with one more element.
LEMMA AppendFacts ==
    ASSUME NEW s, \E S : s \in Seq(S), NEW e
    PROVE  /\ \E S : Append(s, e) \in Seq(S)
           /\ Len(s) \in Nat /\ DOMAIN s = 1..Len(s)
           /\ Len(Append(s, e)) = Len(s) + 1
           /\ DOMAIN Append(s, e) = 1..(Len(s) + 1)
           /\ \A i \in 1..Len(s) : Append(s, e)[i] = s[i]
           /\ Append(s, e)[Len(s) + 1] = e
<1>1. PICK S : s \in Seq(S)
  OBVIOUS
<1>2. s \in Seq(S \cup {e})
  BY <1>1
<1> QED
  BY <1>1, <1>2, AppendProperties

\* A set of places has a first one.
LEMMA LeastIsIn ==
    ASSUME NEW S \in SUBSET Nat, S # {}
    PROVE  Least(S) \in S
<1>1. PICK p \in S : \A q \in S : <<q, p>> \notin OpToRel(<, Nat)
  BY NatLessThanWellFounded, WFMin, Zenon
<1>2. \A q \in S : ~(q < p)
  BY <1>1, Zenon DEF OpToRel
<1>3. \A q \in S : p <= q
  BY <1>2
<1> QED
  BY <1>3 DEF Least

\* A hash is computed once, and only the memory of it is new.
LEMMA HashedFacts ==
    ASSUME NEW n, IsNode(n)
    PROVE  /\ IsNode(Hashed(n))
           /\ Hashed(n).sort = n.sort /\ Hashed(n).kind = n.kind /\ Hashed(n).name = n.name
           /\ Hashed(n).kids = n.kids /\ Hashed(n).chash = n.chash
           /\ Hashed(n).cached # None
           /\ n.cached # None => Hashed(n) = n
           /\ n.cached = None => Hashed(n).cached = HashFields(n)
           /\ Hashed(n).cached = HashCode(n) /\ HashCode(Hashed(n)) = HashCode(n)
<1>1. ASSUME NEW x
      PROVE  LET m == [n EXCEPT !.cached = x]
             IN /\ IsNode(m)
                /\ m.sort = n.sort /\ m.kind = n.kind /\ m.name = n.name
                /\ m.kids = n.kids /\ m.chash = n.chash /\ m.cached = x
  BY DEF IsNode, NodeFields
<1>2. n.cached # None => [n EXCEPT !.cached = n.cached] = n
  BY DEF IsNode, NodeFields
<1>3. HashFields(n) # None
  BY DEF HashFields, None
<1>4. HashCode(n) # None /\ (n.cached # None => HashCode(n) = n.cached)
      /\ (n.cached = None => HashCode(n) = HashFields(n))
  BY <1>3 DEF HashCode
<1>5. Hashed(n) = [n EXCEPT !.cached = HashCode(n)]
  BY DEF Hashed
<1> DEFINE m == Hashed(n)
<1>6. /\ IsNode(m) /\ m.cached = HashCode(n)
      /\ m.sort = n.sort /\ m.kind = n.kind /\ m.name = n.name
      /\ m.kids = n.kids /\ m.chash = n.chash
  BY <1>1, <1>5
<1>7. HashCode(m) = HashCode(n)
  <2>1. m.cached # None
    BY <1>4, <1>6
  <2> HIDE DEF m
  <2> QED
    BY <2>1, <1>6 DEF HashCode
<1> QED
  BY <1>2, <1>4, <1>5, <1>6, <1>7

\* A node as it is handed to createNode.
LEMMA NodeFacts ==
    ASSUME NEW sort, NEW kind, NEW name, NEW kids
    PROVE  LET n == Node(sort, kind, name, kids)
           IN /\ IsNode(n) /\ n.sort = sort /\ n.kind = kind /\ n.name = name
              /\ n.kids = kids /\ n.cached = None
BY DEF Node, IsNode, NodeFields, None

\* The name is the third field of a hash.
LEMMA HashFieldsName ==
    ASSUME NEW n
    PROVE  HashFields(n)[3] = n.name
BY DEF HashFields

\* A new field in a node.
LEMMA ChangedHash ==
    ASSUME NEW n, IsNode(n), NEW x, NEW m, m = [n EXCEPT !.chash = x]
    PROVE  /\ IsNode(m) /\ m.sort = n.sort /\ m.kind = n.kind /\ m.name = n.name
           /\ m.kids = n.kids /\ m.cached = n.cached
BY DEF IsNode, NodeFields

\* A node with another kind, field by field.
LEMMA ChangedKind ==
    ASSUME NEW n, IsNode(n), NEW x, NEW m, m = [n EXCEPT !.kind = x]
    PROVE  IsNode(m) /\ m.kind = x /\ m.name = n.name /\ m.kids = n.kids /\ m.cached = n.cached
BY DEF IsNode, NodeFields

\* A node with another name, field by field.
LEMMA ChangedName ==
    ASSUME NEW n, IsNode(n), NEW x, NEW m, m = [n EXCEPT !.name = x]
    PROVE  IsNode(m) /\ m.kind = n.kind /\ m.name = x /\ m.kids = n.kids /\ m.cached = n.cached
BY DEF IsNode, NodeFields

\* A node with other operands, field by field.
LEMMA ChangedKids ==
    ASSUME NEW n, IsNode(n), NEW x, NEW m, m = [n EXCEPT !.kids = x]
    PROVE  IsNode(m) /\ m.kind = n.kind /\ m.name = n.name /\ m.kids = x /\ m.cached = n.cached
BY DEF IsNode, NodeFields

\* A table finds a node only where one of its kind and name is.
LEMMA FoundFacts ==
    ASSUME NEW h, NEW tbl, NEW i, NEW p \in Found(h, tbl, i)
    PROVE  /\ p \in DOMAIN tbl
           /\ tbl[p].kind = h[i].kind /\ tbl[p].hash = HashCode(h[i])
           /\ h[tbl[p].node].kind = h[i].kind /\ h[tbl[p].node].name = h[i].name
<1>1. p \in DOMAIN tbl /\ tbl[p].kind = h[i].kind /\ tbl[p].hash = HashCode(h[i])
      /\ Equivalent(h, tbl[p].node, i)
  BY DEF Found
<1>2. tbl[p].node = i \/ Alike(h[tbl[p].node], h[i])
  BY <1>1, Zenon DEF Equivalent
<1> QED
  BY <1>1, <1>2 DEF Alike

WithHashes(h, S) == [i \in DOMAIN h |-> IF i \in S THEN Hashed(h[i]) ELSE h[i]]

\* Computing the hashes of some nodes leaves the heap and the table in order.
LEMMA HashedHeap ==
    ASSUME NEW h, HeapOK(h), NEW tbl, TableOK(h, tbl), NEW S,
           NEW k, k = WithHashes(h, S)
    PROVE  /\ HeapOK(k) /\ TableOK(k, tbl)
           /\ DOMAIN k = DOMAIN h /\ Len(k) = Len(h)
           /\ \A i \in DOMAIN h : k[i].kind = h[i].kind /\ k[i].name = h[i].name
<1>1. DOMAIN h = 1..Len(h) /\ Len(h) \in Nat /\ NumStatic <= Len(h) /\ NumStatic = 20
  BY AppendFacts, StaticFacts DEF HeapOK
<1>2. k \in Seq({k[i] : i \in DOMAIN h}) /\ Len(k) = Len(h) /\ DOMAIN k = DOMAIN h
  BY <1>1 DEF WithHashes
<1>3. ASSUME NEW i \in DOMAIN h
      PROVE  /\ IsNode(k[i]) /\ k[i].sort = h[i].sort
             /\ k[i].kind = h[i].kind /\ k[i].name = h[i].name /\ k[i].kids = h[i].kids
             /\ h[i].cached # None => k[i] = h[i]
  <2>1. IsNode(h[i])
    BY DEF HeapOK, NodeOK
  <2>2. k[i] = Hashed(h[i]) \/ k[i] = h[i]
    BY DEF WithHashes
  <2> QED
    BY <2>1, <2>2, HashedFacts
<1>4. ASSUME NEW i \in 1..NumStatic
      PROVE  k[i] = h[i] /\ h[i] = Hashed(StaticNodes[i]) /\ i \in DOMAIN h
  <2>1. h[i] = Hashed(StaticNodes[i]) /\ i \in DOMAIN h
    BY <1>1 DEF HeapOK
  <2>2. h[i].cached # None
    BY <2>1, StaticFacts, HashedFacts
  <2> QED
    BY <2>1, <2>2, <1>3
<1>5. HeapOK(k)
  <2>1. \A i \in DOMAIN k : NodeOK(k, k[i])
    BY <1>2, <1>3 DEF HeapOK, NodeOK, TwoKids
  <2> QED
    BY <2>1, <1>1, <1>2, <1>4 DEF HeapOK
<1>6. TableOK(k, tbl)
  BY <1>2, <1>3, <1>4 DEF TableOK
<1> QED
  BY <1>2, <1>3, <1>5, <1>6

\* What every call of createNode leaves of the heap and the table.
Kept(h, tbl, r) ==
    /\ HeapOK(r.heap) /\ TableOK(r.heap, r.table)
    /\ Len(h) <= Len(r.heap) /\ Len(r.heap) \in Nat
    /\ \A i \in DOMAIN h : /\ i \in DOMAIN r.heap
                           /\ r.heap[i].kind = h[i].kind /\ r.heap[i].name = h[i].name
    /\ \A p \in DOMAIN tbl : p \in DOMAIN r.table /\ r.table[p] = tbl[p]

\* The node it returns, and its entry.
Given(n, r) ==
    /\ r.node \in DOMAIN r.heap
    /\ r.heap[r.node].kind = n.kind /\ r.heap[r.node].name = n.name
    /\ \E p \in DOMAIN r.table : /\ r.table[p].node = r.node
                                 /\ r.table[p].kind = n.kind
                                 /\ r.table[p].hash = HashCode(r.heap[r.node])
                                 /\ r.table[p].hash[3] = n.name

\* It was found, or it was made.
FoundOrMade(h, tbl, n, r) ==
    \/ /\ r.table = tbl /\ Len(r.heap) = Len(h)
       /\ \E p \in DOMAIN tbl : tbl[p].kind = n.kind /\ tbl[p].hash[3] = n.name
    \/ /\ Len(r.heap) = Len(h) + 1
       /\ r.heap[Len(h) + 1].kind = n.kind /\ r.heap[Len(h) + 1].name = n.name
       /\ \E e : r.table = Append(tbl, e) /\ e.kind = n.kind /\ e.hash[3] = n.name

Made(h, tbl, n, r) == Kept(h, tbl, r) /\ Given(n, r) /\ FoundOrMade(h, tbl, n, r)

\* createNode keeps kinds, names and entries, and returns a node of the kind and name
\* asked for which the table has.
LEMMA CreateMakes ==
    ASSUME NEW h, HeapOK(h), NEW tbl, TableOK(h, tbl),
           NEW n, NodeOK(h, n), n.cached = None
    PROVE  Made(h, tbl, n, CreateNode(h, tbl, n))
<1> DEFINE S == {n.kids[k] : k \in DOMAIN n.kids}
           known == [i \in DOMAIN h |-> IF i \in S THEN Hashed(h[i]) ELSE h[i]]
           bare == [n EXCEPT !.chash = [k \in DOMAIN n.kids |-> known[n.kids[k]].cached]]
           node == Hashed(bare)
           all == Append(known, node)
           at == Found(all, tbl, Len(all))
           r == CreateNode(h, tbl, n)
<1>1. /\ HeapOK(known) /\ TableOK(known, tbl)
      /\ DOMAIN known = DOMAIN h /\ Len(known) = Len(h)
      /\ \A i \in DOMAIN h : known[i].kind = h[i].kind /\ known[i].name = h[i].name
  <2>1. known = WithHashes(h, S)
    BY DEF WithHashes
  <2> HIDE DEF S, known
  <2> QED
    BY <2>1, HashedHeap
<1>2. /\ IsNode(bare) /\ bare.sort = n.sort /\ bare.kind = n.kind /\ bare.name = n.name
      /\ bare.kids = n.kids /\ bare.cached = None
  BY ChangedHash DEF NodeOK
<1>3. /\ IsNode(node) /\ node.kind = n.kind /\ node.name = n.name /\ node.kids = n.kids
      /\ node.cached # None /\ node.cached = HashCode(node) /\ HashCode(node)[3] = n.name
  <2> HIDE DEF bare
  <2> QED
    BY <1>2, HashedFacts, HashFieldsName
<1>4. r = IF at # {} THEN [heap |-> known, table |-> tbl, node |-> tbl[Least(at)].node]
          ELSE [heap |-> all, table |-> Append(tbl, Entry(Len(all), node)), node |-> Len(all)]
  BY DEF CreateNode
<1> HIDE DEF known, bare, node, r
<1>5. /\ Len(h) \in Nat /\ DOMAIN h = 1..Len(h) /\ DOMAIN known = 1..Len(h)
      /\ DOMAIN all = 1..(Len(h) + 1) /\ Len(all) = Len(h) + 1
      /\ \A i \in 1..Len(h) : all[i] = known[i]
      /\ all[Len(h) + 1] = node
      /\ (\E T : all \in Seq(T))
  BY <1>1, AppendFacts DEF HeapOK
<1>6. /\ Len(tbl) \in Nat /\ DOMAIN tbl = 1..Len(tbl)
  BY AppendFacts DEF TableOK
<1>7. NumStatic = 20 /\ NumStatic <= Len(h) /\ NumStatic <= Len(tbl)
  BY StaticFacts DEF HeapOK, TableOK
<1> HIDE DEF all, at
<1>8. CASE at # {}
  <2> DEFINE p == Least(at)
  <2>1. p \in at
    <3>1. at \subseteq Nat
      BY <1>6 DEF at, Found
    <3> QED
      BY <3>1, <1>8, LeastIsIn
  <2>2. /\ p \in DOMAIN tbl /\ tbl[p].kind = n.kind /\ tbl[p].hash = HashCode(node)
        /\ all[tbl[p].node].kind = n.kind /\ all[tbl[p].node].name = n.name
    <3>1. p \in Found(all, tbl, Len(all))
      BY <2>1 DEF at
    <3> QED
      BY <3>1, FoundFacts, <1>3, <1>5
  <2>3. /\ tbl[p].node \in DOMAIN known /\ known[tbl[p].node].cached = tbl[p].hash
        /\ tbl[p].hash # None
    BY <2>2, <1>1 DEF TableOK
  <2>4. HashCode(known[tbl[p].node]) = tbl[p].hash
    BY <2>3 DEF HashCode
  <2>5. r.heap = known /\ r.table = tbl /\ r.node = tbl[p].node
    BY <1>4, <1>8
  <2> HIDE DEF p
  <2>6. known[tbl[p].node].kind = n.kind /\ known[tbl[p].node].name = n.name
    BY <2>2, <2>3, <1>5
  <2>7. tbl[p].hash[3] = n.name
    BY <2>2, <1>3
  <2>8. /\ r.node \in DOMAIN r.heap
        /\ r.heap[r.node].kind = n.kind /\ r.heap[r.node].name = n.name
        /\ r.table[p].node = r.node /\ r.table[p].kind = n.kind
        /\ r.table[p].hash = HashCode(r.heap[r.node]) /\ r.table[p].hash[3] = n.name
    BY <2>2, <2>3, <2>4, <2>5, <2>6, <2>7
  <2>9. Len(r.heap) = Len(h) /\ HeapOK(r.heap) /\ TableOK(r.heap, r.table)
        /\ \A i \in DOMAIN h : /\ i \in DOMAIN r.heap
                               /\ r.heap[i].kind = h[i].kind /\ r.heap[i].name = h[i].name
    BY <1>1, <2>5
  <2>10. p \in DOMAIN r.table /\ tbl[p].kind = n.kind /\ tbl[p].hash[3] = n.name
    BY <2>2, <2>5, <2>7
  <2>11. Len(h) <= Len(r.heap) /\ Len(r.heap) \in Nat
    BY <1>5, <2>9
  <2>12. Kept(h, tbl, r)
    BY <2>5, <2>9, <2>11 DEF Kept
  <2>13. Given(n, r)
    BY <2>8, <2>10 DEF Given
  <2>14. FoundOrMade(h, tbl, n, r)
    BY <2>2, <2>5, <2>9, <2>10 DEF FoundOrMade
  <2> QED
    BY <2>12, <2>13, <2>14 DEF Made, r
<1>9. CASE at = {}
  <2> DEFINE e == Entry(Len(all), node)
             more == Append(tbl, e)
  <2>1. /\ e.kind = n.kind /\ e.hash = node.cached /\ e.node = Len(h) + 1 /\ e.hash[3] = n.name
        /\ e.hash = HashCode(node)
    BY <1>3, <1>5 DEF Entry
  <2>2. r.heap = all /\ r.table = more /\ r.node = Len(h) + 1
    BY <1>4, <1>5, <1>9
  <2> HIDE DEF e
  <2>3. /\ DOMAIN more = 1..(Len(tbl) + 1) /\ \E T : more \in Seq(T)
        /\ Len(more) = Len(tbl) + 1
        /\ \A p \in 1..Len(tbl) : more[p] = tbl[p]
        /\ more[Len(tbl) + 1] = e
    <3>1. \E T : tbl \in Seq(T)
      BY DEF TableOK
    <3> QED
      BY <3>1, AppendFacts
  <2>4. r.table = Append(tbl, e)
    BY <2>2
  <2> HIDE DEF more
  <2>5. HeapOK(all)
    <3>1. NodeOK(all, node)
      BY <1>3, <1>5 DEF NodeOK, TwoKids
    <3>2. \A i \in 1..Len(h) : NodeOK(all, known[i])
      BY <1>1, <1>5 DEF HeapOK, NodeOK
    <3>3. \A i \in DOMAIN all : NodeOK(all, all[i])
      BY <3>1, <3>2, <1>5
    <3>4. ASSUME NEW i \in 1..NumStatic
          PROVE  all[i] = Hashed(StaticNodes[i])
      <4>1. known[i] = Hashed(StaticNodes[i])
        BY <1>1 DEF HeapOK
      <4>2. i \in 1..Len(h)
        BY <1>5, <1>7
      <4> QED
        BY <4>1, <4>2, <1>5
    <3> QED
      BY <3>3, <3>4, <1>5, <1>7 DEF HeapOK
  <2>6. TableOK(all, more)
    <3>1. ASSUME NEW p \in 1..(Len(tbl) + 1)
          PROVE  /\ more[p].node \in DOMAIN all
                 /\ all[more[p].node].cached = more[p].hash /\ more[p].hash # None
                 /\ p > NumStatic => more[p].node > NumStatic
      <4>1. CASE p = Len(tbl) + 1
        BY <4>1, <2>1, <2>3, <1>3, <1>5, <1>7
      <4>2. CASE p \in 1..Len(tbl)
        <5>1. more[p] = tbl[p]
          BY <4>2, <2>3
        <5>2. /\ tbl[p].node \in DOMAIN known /\ known[tbl[p].node].cached = tbl[p].hash
              /\ tbl[p].hash # None
              /\ p > NumStatic => tbl[p].node > NumStatic
          BY <4>2, <1>1, <1>6 DEF TableOK
        <5>3. all[tbl[p].node] = known[tbl[p].node] /\ tbl[p].node \in DOMAIN all
          BY <5>2, <1>5
        <5>4. more[p].node = tbl[p].node /\ more[p].hash = tbl[p].hash
          BY <5>1
        <5>5. p > NumStatic => more[p].node > NumStatic
          BY <5>2, <5>3, <5>4, <1>5, <1>7
        <5> QED
          BY <5>2, <5>3, <5>4, <5>5
      <4> QED
        BY <4>1, <4>2, <1>6
    <3>2. \A i \in 1..NumStatic : more[i] = Entry(i, all[i])
      <4>1. \A i \in 1..NumStatic : tbl[i] = Entry(i, known[i])
        BY <1>1 DEF TableOK
      <4>2. \A i \in 1..NumStatic : i \in 1..Len(h) /\ i \in 1..Len(tbl)
        BY <1>5, <1>6, <1>7
      <4>3. \A i \in 1..NumStatic : more[i] = tbl[i] /\ all[i] = known[i]
        BY <4>2, <1>5, <2>3, Zenon
      <4> QED
        BY <4>1, <4>3, Zenon
    <3>3. (\E T : more \in Seq(T)) /\ NumStatic <= Len(more) /\ DOMAIN more = 1..(Len(tbl) + 1)
      BY <1>6, <1>7, <2>3
    <3> QED
      BY <3>1, <3>2, <3>3 DEF TableOK
  <2>7. \A i \in DOMAIN h : i \in DOMAIN all /\ all[i].kind = h[i].kind /\ all[i].name = h[i].name
    BY <1>1, <1>5
  <2>8. \A p \in DOMAIN tbl : p \in DOMAIN more /\ more[p] = tbl[p]
    BY <1>6, <2>3
  <2>9. /\ Len(h) + 1 \in DOMAIN all /\ all[Len(h) + 1] = node /\ Len(all) = Len(h) + 1
        /\ Len(tbl) + 1 \in DOMAIN more /\ more[Len(tbl) + 1] = e
    BY <1>5, <1>6, <2>3
  <2>10. /\ more[Len(tbl) + 1].node = r.node /\ more[Len(tbl) + 1].kind = n.kind
         /\ more[Len(tbl) + 1].hash = HashCode(all[r.node]) /\ more[Len(tbl) + 1].hash[3] = n.name
         /\ all[r.node].kind = n.kind /\ all[r.node].name = n.name /\ r.node \in DOMAIN all
    BY <1>3, <2>1, <2>2, <2>9
  <2>11. /\ Len(h) <= Len(r.heap) /\ Len(r.heap) \in Nat /\ Len(r.heap) = Len(h) + 1
         /\ r.heap[Len(h) + 1].kind = n.kind /\ r.heap[Len(h) + 1].name = n.name
    BY <1>3, <1>5, <2>2, <2>9
  <2>12. Kept(h, tbl, r)
    BY <2>2, <2>5, <2>6, <2>7, <2>8, <2>11 DEF Kept
  <2>13. Given(n, r)
    BY <2>2, <2>9, <2>10 DEF Given
  <2>14. FoundOrMade(h, tbl, n, r)
    BY <2>1, <2>4, <2>11, Zenon DEF FoundOrMade
  <2> QED
    BY <2>12, <2>13, <2>14 DEF Made, r
<1> QED
  BY <1>8, <1>9 DEF r

\* The static nodes of a heap, and its domain.
LEMMA HeapFacts ==
    ASSUME NEW h, HeapOK(h)
    PROVE  /\ NumStatic = 20 /\ Len(h) \in Nat /\ Len(h) >= 20 /\ DOMAIN h = 1..Len(h)
           /\ IsFiniteSet(DOMAIN h)
           /\ \A i \in 1..NumStatic : /\ i \in DOMAIN h /\ h[i].kind \in StaticKinds
                                      /\ h[i].cached # None
<1>1. NumStatic = 20 /\ Len(h) \in Nat /\ DOMAIN h = 1..Len(h) /\ NumStatic <= Len(h)
  BY StaticFacts, AppendFacts DEF HeapOK
<1>2. IsFiniteSet(1..Len(h))
  BY <1>1, FS_Interval
<1>3. ASSUME NEW i \in 1..NumStatic
      PROVE  i \in DOMAIN h /\ h[i].kind \in StaticKinds /\ h[i].cached # None
  <2>1. h[i] = Hashed(StaticNodes[i]) /\ i \in DOMAIN h
    BY <1>1 DEF HeapOK
  <2>2. IsNode(StaticNodes[i]) /\ StaticNodes[i].kind \in StaticKinds
    BY StaticFacts
  <2> QED
    BY <2>1, <2>2, HashedFacts
<1> QED
  BY <1>1, <1>2, <1>3

\* A node that is no static one is changed where it stands.
LEMMA InPlace ==
    ASSUME NEW h, HeapOK(h), NEW tbl, TableOK(h, tbl),
           NEW i \in DOMAIN h, h[i].kind \notin StaticKinds,
           NEW m, NodeOK(h, m), m.cached = h[i].cached
    PROVE  LET g == [h EXCEPT ![i] = m]
           IN /\ HeapOK(g) /\ TableOK(g, tbl)
              /\ Len(g) = Len(h) /\ DOMAIN g = DOMAIN h
              /\ g[i] = m /\ \A j \in DOMAIN h : j # i => g[j] = h[j]
<1> DEFINE g == [h EXCEPT ![i] = m]
<1>1. /\ NumStatic = 20 /\ Len(h) \in Nat /\ Len(h) >= 20 /\ DOMAIN h = 1..Len(h)
      /\ \A j \in 1..NumStatic : j \in DOMAIN h /\ h[j].kind \in StaticKinds
  BY HeapFacts
<1>2. DOMAIN g = DOMAIN h /\ g[i] = m /\ \A j \in DOMAIN h : j # i => g[j] = h[j]
  <2>1. \E T : h \in Seq(T)
    BY DEF HeapOK
  <2> QED
    BY <2>1
<1>3. g \in Seq({g[j] : j \in DOMAIN h}) /\ Len(g) = Len(h)
  <2>1. \E T : h \in Seq(T)
    BY DEF HeapOK
  <2>2. PICK T : h \in Seq(T)
    BY <2>1
  <2>3. g \in Seq(T \cup {m}) /\ Len(g) = Len(h)
    BY <2>2
  <2> HIDE DEF g
  <2>4. g \in [1..Len(h) -> {g[j] : j \in DOMAIN h}]
    BY <2>3, <1>1, <1>2
  <2>5. g \in Seq({g[j] : j \in DOMAIN h})
    BY <2>4, <1>1, SeqDef, Zenon
  <2> QED
    BY <2>3, <2>5
<1> HIDE DEF g
<1>4. \A j \in 1..NumStatic : g[j] = h[j]
  BY <1>1, <1>2
<1>5. \A j \in DOMAIN h : NodeOK(g, g[j])
  <2>1. \A j \in DOMAIN h : NodeOK(h, g[j])
    BY <1>2 DEF HeapOK
  <2> QED
    BY <2>1, <1>2 DEF NodeOK
<1>6. HeapOK(g)
  BY <1>1, <1>2, <1>3, <1>4, <1>5 DEF HeapOK
<1>7. \A j \in DOMAIN h : g[j].cached = h[j].cached
  BY <1>2
<1>8. TableOK(g, tbl)
  BY <1>2, <1>4, <1>7 DEF TableOK
<1> QED
  BY <1>2, <1>3, <1>6, <1>8 DEF g

-----------------------------------------------------------------------------
(***************************************************************************)
(* The inductive invariant.  What the maps of the parser and the two       *)
(* counters say of the heap and the table:                                 *)
(*   - a variable's place is that of an entry made for its name, and the   *)
(*     node there is still a variable;                                     *)
(*   - the table has a quantified variable for every number counted so far *)
(*     and for no other, whatever their names have become: a new number    *)
(*     makes a new node;                                                   *)
(*   - a quantified variable's name tells who gave it, and the last one    *)
(*     who did it gave it to nobody else.                                  *)
(***************************************************************************)
FunsIn(h, fs) ==
    /\ DOMAIN fs \subseteq Symbols
    /\ \A s \in DOMAIN fs : fs[s] \in DOMAIN h

VarsIn(h, tbl, vs, ph) ==
    /\ DOMAIN vs \subseteq Symbols
    /\ \A s \in DOMAIN vs :
          /\ vs[s] \in DOMAIN tbl
          /\ tbl[vs[s]].hash[3] = <<s>>
          /\ h[tbl[vs[s]].node].kind = "VAR"
          /\ ph = "reading" => h[tbl[vs[s]].node].name = <<s>>

QuantVars(h) == {i \in DOMAIN h : h[i].kind = "QUANT_VAR"}
SNamed(h)    == {i \in DOMAIN h : h[i].name[1] = "S"}

\* The names given while reading.
ReadName(name, qv, qs) ==
    \/ \E k \in Nat : k < qv /\ name = <<"QVAR", k>>
    \/ \E k \in Nat : k <= qs /\ name = <<"Q", k, 0>>

QuantName(h, name, qv, qs, ph) ==
    \/ ReadName(name, qv, qs)
    \/ ph = "writing" /\ \E k \in Nat : k < Cardinality(SNamed(h)) /\ name = <<"S", k>>

QuantsIn(h, tbl, qv, qs, ph) ==
    /\ Cardinality(QuantVars(h)) = qv
    /\ \A p \in DOMAIN tbl : tbl[p].kind = "QUANT_VAR" =>
          \E k \in Nat : k < qv /\ tbl[p].hash[3] = <<"QVAR", k>>
    /\ \A i \in QuantVars(h) : QuantName(h, h[i].name, qv, qs, ph)
    /\ \A i, j \in QuantVars(h) : h[i].name = h[j].name => i = j

Counters ==
    /\ parser \in 1..MaxParsers
    /\ phase \in {"reading", "writing"}
    /\ qvars \in Nat /\ quantifiers \in 0..MaxQuantifiers
    /\ got # None => got.node \in DOMAIN heap

TableInv ==
    /\ HeapOK(heap) /\ TableOK(heap, table)
    /\ FunsIn(heap, funs)
    /\ VarsIn(heap, table, vars, phase)
    /\ QuantsIn(heap, table, qvars, quantifiers, phase)
    /\ Counters

\* What createNode keeps is enough for the maps of functions and variables.
LEMMA KeptMaps ==
    ASSUME NEW h, NEW tbl, NEW r, TableOK(h, tbl), Kept(h, tbl, r), NEW fs, NEW vs, NEW ph
    PROVE  /\ FunsIn(h, fs) => FunsIn(r.heap, fs)
           /\ VarsIn(h, tbl, vs, ph) => VarsIn(r.heap, r.table, vs, ph)
<1>1. FunsIn(h, fs) => FunsIn(r.heap, fs)
  BY DEF Kept, FunsIn
<1>2. ASSUME VarsIn(h, tbl, vs, ph)
      PROVE  VarsIn(r.heap, r.table, vs, ph)
  <2>1. ASSUME NEW s \in DOMAIN vs
        PROVE  /\ vs[s] \in DOMAIN r.table /\ r.table[vs[s]] = tbl[vs[s]]
               /\ tbl[vs[s]].node \in DOMAIN h
               /\ r.heap[tbl[vs[s]].node].kind = h[tbl[vs[s]].node].kind
               /\ r.heap[tbl[vs[s]].node].name = h[tbl[vs[s]].node].name
    <3>1. vs[s] \in DOMAIN tbl
      BY <1>2 DEF VarsIn
    <3>2. tbl[vs[s]].node \in DOMAIN h
      BY <3>1 DEF TableOK
    <3> QED
      BY <3>1, <3>2 DEF Kept
  <2> QED
    BY <1>2, <2>1 DEF VarsIn
<1> QED
  BY <1>1, <1>2

\* A heap that keeps its nodes keeps the names that kernels gave.
LEMMA SNamedGrows ==
    ASSUME NEW h, NEW tbl, NEW r, Kept(h, tbl, r)
    PROVE  /\ IsFiniteSet(SNamed(r.heap)) /\ SNamed(h) \subseteq SNamed(r.heap)
           /\ Cardinality(SNamed(h)) \in Nat /\ Cardinality(SNamed(r.heap)) \in Nat
           /\ Cardinality(SNamed(h)) <= Cardinality(SNamed(r.heap))
<1>1. IsFiniteSet(DOMAIN r.heap)
  BY HeapFacts DEF Kept
<1>2. SNamed(h) \subseteq SNamed(r.heap) /\ SNamed(r.heap) \subseteq DOMAIN r.heap
  BY DEF Kept, SNamed
<1>3. IsFiniteSet(SNamed(r.heap))
  BY <1>1, <1>2, FS_Subset
<1> QED
  BY <1>2, <1>3, FS_Subset, FS_CardinalityType

\* The name of a quantified variable keeps its giver.
LEMMA NameKept ==
    ASSUME NEW h, NEW tbl, NEW r, Kept(h, tbl, r), NEW name, NEW qv, NEW qs, NEW ph,
           QuantName(h, name, qv, qs, ph)
    PROVE  QuantName(r.heap, name, qv, qs, ph)
<1>1. CASE ReadName(name, qv, qs)
  BY <1>1 DEF QuantName
<1>2. CASE ph = "writing" /\ \E k \in Nat : k < Cardinality(SNamed(h)) /\ name = <<"S", k>>
  <2>1. PICK k \in Nat : k < Cardinality(SNamed(h)) /\ name = <<"S", k>>
    BY <1>2
  <2>2. k < Cardinality(SNamed(r.heap))
    BY <2>1, SNamedGrows
  <2> QED
    BY <1>2, <2>1, <2>2 DEF QuantName
<1> QED
  BY <1>1, <1>2 DEF QuantName

\* Making a node of another kind touches no quantified variable.
LEMMA KeptQuants ==
    ASSUME NEW h, HeapOK(h), NEW tbl, NEW r, Kept(h, tbl, r),
           \/ Len(r.heap) = Len(h)
           \/ Len(r.heap) = Len(h) + 1 /\ r.heap[Len(h) + 1].kind # "QUANT_VAR",
           \A p \in DOMAIN r.table : p \notin DOMAIN tbl => r.table[p].kind # "QUANT_VAR",
           NEW qv, NEW qs, NEW ph, QuantsIn(h, tbl, qv, qs, ph)
    PROVE  QuantsIn(r.heap, r.table, qv, qs, ph)
<1>1. DOMAIN h = 1..Len(h) /\ DOMAIN r.heap = 1..Len(r.heap) /\ Len(h) \in Nat
  BY HeapFacts DEF Kept
<1>2. QuantVars(r.heap) = QuantVars(h)
  BY <1>1 DEF Kept, QuantVars
<1>3. \A i \in QuantVars(h) : r.heap[i].name = h[i].name
  BY DEF Kept, QuantVars
<1>4. \A p \in DOMAIN r.table : r.table[p].kind = "QUANT_VAR" =>
        p \in DOMAIN tbl /\ r.table[p] = tbl[p]
  BY DEF Kept
<1>5. \A i \in QuantVars(h) : QuantName(r.heap, h[i].name, qv, qs, ph)
  BY NameKept DEF QuantsIn
<1> QED
  BY <1>2, <1>3, <1>4, <1>5 DEF QuantsIn

\* A node of another kind adds no quantified variable.
LEMMA MadeQuants ==
    ASSUME NEW h, HeapOK(h), NEW tbl, TableOK(h, tbl), NEW n, NEW r, Made(h, tbl, n, r),
           n.kind # "QUANT_VAR", NEW qv, NEW qs, NEW ph, QuantsIn(h, tbl, qv, qs, ph)
    PROVE  QuantsIn(r.heap, r.table, qv, qs, ph)
<1>1. Kept(h, tbl, r)
  BY DEF Made
<1>2. CASE r.table = tbl /\ Len(r.heap) = Len(h)
  BY <1>1, <1>2, KeptQuants
<1>3. CASE /\ Len(r.heap) = Len(h) + 1
           /\ r.heap[Len(h) + 1].kind = n.kind
           /\ \E e : r.table = Append(tbl, e) /\ e.kind = n.kind
  <2>1. PICK e : r.table = Append(tbl, e) /\ e.kind = n.kind
    BY <1>3
  <2>2. \E T : tbl \in Seq(T)
    BY DEF TableOK
  <2>3. /\ Len(tbl) \in Nat /\ DOMAIN tbl = 1..Len(tbl)
        /\ DOMAIN r.table = 1..(Len(tbl) + 1) /\ r.table[Len(tbl) + 1] = e
    BY <2>1, <2>2, AppendFacts
  <2>4. \A p \in DOMAIN r.table : p \notin DOMAIN tbl => r.table[p].kind # "QUANT_VAR"
    BY <2>1, <2>3
  <2> QED
    BY <1>1, <1>3, <2>4, KeptQuants
<1> QED
  BY <1>2, <1>3 DEF Made, FoundOrMade

\* The part of the invariant that calls of createNode keep, with the quantifiers read so far.
MapsOK(h, tbl, qs) ==
    /\ HeapOK(h) /\ TableOK(h, tbl)
    /\ FunsIn(h, funs)
    /\ VarsIn(h, tbl, vars, phase)
    /\ QuantsIn(h, tbl, qvars, qs, phase)

\* One call of createNode for a node that is no quantified variable keeps all maps
\* right.
LEMMA MakesMaps ==
    ASSUME NEW h, NEW tbl, NEW qs, MapsOK(h, tbl, qs),
           NEW n, NodeOK(h, n), n.cached = None, n.kind # "QUANT_VAR"
    PROVE  LET r == CreateNode(h, tbl, n)
           IN MapsOK(r.heap, r.table, qs) /\ Made(h, tbl, n, r)
<1> DEFINE r == CreateNode(h, tbl, n)
<1>1. HeapOK(h) /\ TableOK(h, tbl)
  BY DEF MapsOK
<1>2. Made(h, tbl, n, r)
  BY <1>1, CreateMakes
<1> HIDE DEF r
<1>3. Kept(h, tbl, r)
  BY <1>2 DEF Made
<1>4. HeapOK(r.heap) /\ TableOK(r.heap, r.table)
  BY <1>3 DEF Kept
<1>5. FunsIn(r.heap, funs) /\ VarsIn(r.heap, r.table, vars, phase)
  BY <1>1, <1>3, KeptMaps DEF MapsOK
<1>6. QuantsIn(r.heap, r.table, qvars, qs, phase)
  BY <1>1, <1>2, MadeQuants DEF MapsOK
<1> QED
  BY <1>2, <1>4, <1>5, <1>6 DEF MapsOK, r

\* The node of an operator over nodes of the heap.
LEMMA FreshNode ==
    ASSUME NEW h, NEW kind, NEW name, Len(name) \in 1..3, NEW kids,
           \A k \in DOMAIN kids : kids[k] \in DOMAIN h,
           kind \in {"OP", "FUNC_DEC"} => DOMAIN kids = 1..2
    PROVE  LET n == Node("Bool", kind, name, kids)
           IN NodeOK(h, n) /\ n.cached = None /\ n.kind = kind /\ n.name = name /\ n.kids = kids
<1> DEFINE n == Node("Bool", kind, name, kids)
<1>1. IsNode(n) /\ n.kind = kind /\ n.name = name /\ n.kids = kids /\ n.cached = None
  BY NodeFacts
<1> HIDE DEF n
<1>2. NodeOK(h, n)
  BY <1>1 DEF NodeOK, TwoKids
<1> QED
  BY <1>1, <1>2 DEF n

\* The node of a name without operands.
LEMMA LeafNode ==
    ASSUME NEW h, NEW kind \in {"VAR", "QUANT_VAR", "FUNC_PARAM"}, NEW name, Len(name) \in 1..3
    PROVE  LET n == Node("Bool", kind, name, << >>)
           IN NodeOK(h, n) /\ n.cached = None /\ n.kind = kind /\ n.name = name
<1> DEFINE none == << >>
<1>1. DOMAIN none = {}
  OBVIOUS
<1> HIDE DEF none
<1> DEFINE n == Node("Bool", kind, name, none)
<1>2. IsNode(n) /\ n.kind = kind /\ n.name = name /\ n.kids = none /\ n.cached = None
  BY NodeFacts
<1> HIDE DEF n
<1>3. NodeOK(h, n)
  BY <1>1, <1>2 DEF NodeOK, TwoKids
<1> QED
  BY <1>2, <1>3 DEF n, none

\* The table of the static nodes satisfies the invariant.
LEMMA InitInv == Init => TableInv
<1> SUFFICES ASSUME Init PROVE TableInv
  OBVIOUS
<1>1. NumStatic = 20 /\ DOMAIN heap = 1..20 /\ Len(heap) = 20
      /\ heap \in Seq({heap[i] : i \in 1..20})
  BY StaticFacts DEF Init
<1>2. ASSUME NEW i \in 1..20
      PROVE  /\ heap[i] = Hashed(StaticNodes[i])
             /\ IsNode(heap[i]) /\ heap[i].kids = << >> /\ Len(heap[i].name) = 1
             /\ heap[i].kind \in StaticKinds /\ heap[i].cached = HashCode(heap[i])
             /\ heap[i].cached # None
  <2>1. heap[i] = Hashed(StaticNodes[i])
    BY <1>1 DEF Init
  <2>2. /\ IsNode(StaticNodes[i]) /\ StaticNodes[i].kids = << >>
        /\ Len(StaticNodes[i].name) = 1 /\ StaticNodes[i].kind \in StaticKinds
    BY StaticFacts
  <2>3. /\ IsNode(heap[i]) /\ heap[i].kids = << >> /\ Len(heap[i].name) = 1
        /\ heap[i].kind \in StaticKinds
    BY <2>1, <2>2, HashedFacts
  <2>4. heap[i].cached = HashCode(StaticNodes[i]) /\ HashCode(heap[i]) = HashCode(StaticNodes[i])
        /\ heap[i].cached # None
    BY <2>1, <2>2, HashedFacts
  <2> QED
    BY <2>1, <2>3, <2>4
<1>3. HeapOK(heap)
  <2>1. ASSUME NEW i \in 1..20
        PROVE  NodeOK(heap, heap[i])
    <3>1. DOMAIN heap[i].kids = {}
      BY <1>2
    <3>2. Len(heap[i].name) = 1 /\ heap[i].kind \in StaticKinds
      BY <1>2
    <3>3. heap[i].kind \notin {"OP", "FUNC_DEC"}
      BY <3>2 DEF StaticKinds
    <3>4. Len(heap[i].name) \in 1..3
      BY <3>2
    <3> QED
      BY <1>2, <3>1, <3>3, <3>4 DEF NodeOK, TwoKids
  <2> QED
    BY <1>1, <1>2, <2>1 DEF HeapOK
<1>4. table = [i \in 1..20 |-> Entry(i, heap[i])]
  BY <1>1 DEF Init, StaticTable
<1>5. ASSUME NEW i \in 1..20
      PROVE  /\ table[i] = Entry(i, heap[i]) /\ table[i].node = i
             /\ table[i].hash = heap[i].cached /\ table[i].kind = heap[i].kind
  BY <1>2, <1>4 DEF Entry
<1>6. TableOK(heap, table)
  <2>1. table \in Seq({table[i] : i \in 1..20}) /\ Len(table) = 20 /\ DOMAIN table = 1..20
    BY <1>4
  <2> QED
    BY <1>1, <1>2, <1>5, <2>1 DEF TableOK
<1>7. FunsIn(heap, funs) /\ VarsIn(heap, table, vars, phase)
  <2>1. DOMAIN funs = {} /\ DOMAIN vars = {}
    BY DEF Init
  <2> QED
    BY <2>1 DEF FunsIn, VarsIn
<1>8. QuantsIn(heap, table, qvars, quantifiers, phase)
  <2>1. QuantVars(heap) = {}
    BY <1>1, <1>2 DEF QuantVars, StaticKinds
  <2>2. \A p \in DOMAIN table : table[p].kind # "QUANT_VAR"
    BY <1>2, <1>4, <1>5 DEF StaticKinds
  <2>3. Cardinality({}) = 0 /\ qvars = 0
    BY FS_EmptySet DEF Init
  <2> QED
    BY <2>1, <2>2, <2>3 DEF QuantsIn
<1>9. Counters
  BY TableBounds DEF Init, Counters
<1> QED
  BY <1>3, <1>6, <1>7, <1>8, <1>9 DEF TableInv

\* Nodes that a script may name as operands.
LEMMA OperandsAreNodes ==
    ASSUME HeapOK(heap)
    PROVE  /\ \A S : Kinds(S) \subseteq DOMAIN heap
           /\ Terms \subseteq DOMAIN heap /\ Leaves \subseteq DOMAIN heap
           /\ NullNode \in DOMAIN heap
           /\ \A i \in DOMAIN heap : NodeOK(heap, heap[i])
<1>1. DOMAIN heap = 1..Len(heap) /\ Len(heap) \in Nat /\ Len(heap) >= 20
  BY HeapFacts
<1>2. TrueNode \in DOMAIN heap /\ NullNode \in DOMAIN heap
  BY <1>1 DEF TrueNode, NullNode
<1>3. \A S : Kinds(S) \subseteq DOMAIN heap
  BY DEF Kinds
<1> QED
  BY <1>2, <1>3 DEF Terms, Leaves, HeapOK

\* A call of createNode that changes nothing else.
LEMMA CreateInv ==
    ASSUME TableInv, NEW n, NodeOK(heap, n), n.cached = None, n.kind # "QUANT_VAR",
           Create(heap, n), UNCHANGED <<parser, phase, vars, funs, qvars, quantifiers>>
    PROVE  TableInv'
<1> DEFINE r == CreateNode(heap, table, n)
<1>1. MapsOK(heap, table, quantifiers)
  BY DEF TableInv, MapsOK
<1>2. MapsOK(r.heap, r.table, quantifiers) /\ Made(heap, table, n, r)
  BY <1>1, MakesMaps
<1>3. heap' = r.heap /\ table' = r.table /\ got' = [asked |-> n, node |-> r.node]
  BY DEF Create
<1> HIDE DEF r
<1>4. got'.node = r.node /\ r.node \in DOMAIN r.heap
  BY <1>2, <1>3 DEF Made, Given
<1>5. Counters'
  BY <1>3, <1>4 DEF TableInv, Counters
<1> QED
  BY <1>2, <1>3, <1>5 DEF MapsOK, TableInv

\* An operator keeps the invariant.
LEMMA MkOperInv ==
    ASSUME TableInv, NEW a \in Terms, NEW b \in Leaves, MkOper(<<a, b>>)
    PROVE  TableInv'
<1>1. a \in DOMAIN heap /\ b \in DOMAIN heap
  BY OperandsAreNodes DEF TableInv
<1> DEFINE n == Node("Bool", "OP", <<"op">>, <<a, b>>)
<1>2. NodeOK(heap, n) /\ n.cached = None /\ n.kind = "OP"
  <2>1. DOMAIN <<a, b>> = 1..2 /\ \A k \in DOMAIN <<a, b>> : <<a, b>>[k] \in DOMAIN heap
    BY <1>1
  <2>2. Len(<<"op">>) \in 1..3
    OBVIOUS
  <2> QED
    BY <2>1, <2>2, FreshNode
<1> HIDE DEF n
<1>3. Create(heap, n) /\ UNCHANGED <<parser, phase, vars, funs, qvars, quantifiers>>
  BY DEF MkOper, n
<1> QED
  BY <1>2, <1>3, CreateInv

\* A let variable keeps the invariant.
LEMMA MkLetBindVarInv ==
    ASSUME TableInv, NEW k \in 0..1, NEW i \in Kinds({"OP", "FORALL"}), MkLetBindVar(k, i)
    PROVE  TableInv'
<1>1. i \in DOMAIN heap
  BY OperandsAreNodes DEF TableInv
<1> DEFINE n == Node("Bool", "LET_BIND_VAR", <<"L", k>>, <<i>>)
<1>2. NodeOK(heap, n) /\ n.cached = None /\ n.kind = "LET_BIND_VAR"
  <2>1. \A j \in DOMAIN <<i>> : <<i>>[j] \in DOMAIN heap
    BY <1>1
  <2>2. Len(<<"L", k>>) \in 1..3
    OBVIOUS
  <2> QED
    BY <2>1, <2>2, FreshNode
<1> HIDE DEF n
<1>3. Create(heap, n) /\ UNCHANGED <<parser, phase, vars, funs, qvars, quantifiers>>
  BY DEF MkLetBindVar, n
<1> QED
  BY <1>2, <1>3, CreateInv

\* mkVar keeps the invariant.
LEMMA MkVarInv ==
    ASSUME TableInv, NEW s \in Symbols, MkVar(s)
    PROVE  TableInv'
<1> DEFINE n == Node("Bool", "VAR", <<s>>, << >>)
           r == CreateNode(heap, table, n)
           p == GetIndex(heap', table', got'.node)
<1>1. NodeOK(heap, n) /\ n.cached = None /\ n.kind = "VAR" /\ n.name = <<s>>
  BY LeafNode
<1>2. MapsOK(heap, table, quantifiers)
  BY DEF TableInv, MapsOK
<1>3. MapsOK(r.heap, r.table, quantifiers) /\ Made(heap, table, n, r)
  <2> HIDE DEF n
  <2> QED
    BY <1>1, <1>2, MakesMaps
<1>4. /\ heap' = r.heap /\ table' = r.table /\ got' = [asked |-> n, node |-> r.node]
      /\ phase = "reading" /\ s \notin DOMAIN vars
      /\ vars' = [x \in DOMAIN vars \cup {s} |-> IF x = s THEN p ELSE vars[x]]
      /\ UNCHANGED <<parser, phase, funs, qvars, quantifiers>>
  BY DEF MkVar, Create
<1> HIDE DEF n, r
<1>5. got'.node = r.node /\ got'.node \in DOMAIN heap'
  BY <1>3, <1>4 DEF Made, Given
<1>6. Counters'
  BY <1>4, <1>5 DEF TableInv, Counters
<1>7. p \in Found(heap', table', r.node)
  <2>1. PICK q \in DOMAIN r.table :
              /\ r.table[q].node = r.node /\ r.table[q].kind = n.kind
              /\ r.table[q].hash = HashCode(r.heap[r.node])
    BY <1>3 DEF Made, Given
  <2>2. r.heap[r.node].kind = n.kind
    BY <1>3 DEF Made, Given
  <2>3. Equivalent(r.heap, r.table[q].node, r.node)
    BY <2>1, Zenon DEF Equivalent
  <2>4. q \in Found(r.heap, r.table, r.node)
    BY <2>1, <2>2, <2>3 DEF Found
  <2>5. Found(r.heap, r.table, r.node) \subseteq Nat
    <3>1. \E T : r.table \in Seq(T)
      BY <1>3 DEF MapsOK, TableOK
    <3>2. DOMAIN r.table = 1..Len(r.table) /\ Len(r.table) \in Nat
      BY <3>1, AppendFacts
    <3> QED
      BY <3>2 DEF Found
  <2> QED
    BY <1>4, <1>5, <2>4, <2>5, LeastIsIn DEF GetIndex
<1>8. /\ p \in DOMAIN table' /\ table'[p].hash[3] = <<s>>
      /\ heap'[table'[p].node].kind = "VAR" /\ heap'[table'[p].node].name = <<s>>
  <2>1. r.heap[r.node].kind = "VAR" /\ r.heap[r.node].name = <<s>>
        /\ HashCode(r.heap[r.node])[3] = <<s>>
    BY <1>1, <1>3 DEF Made, Given
  <2> HIDE DEF p
  <2>2. /\ p \in DOMAIN r.table /\ r.table[p].hash = HashCode(r.heap[r.node])
        /\ r.heap[r.table[p].node].kind = r.heap[r.node].kind
        /\ r.heap[r.table[p].node].name = r.heap[r.node].name
    BY <1>4, <1>7, FoundFacts
  <2> QED
    BY <1>4, <2>1, <2>2
<1>9. VarsIn(heap', table', vars', phase')
  <2>1. VarsIn(heap', table', vars, phase)
    BY <1>3, <1>4 DEF MapsOK
  <2> HIDE DEF p
  <2>2. DOMAIN vars' = DOMAIN vars \cup {s} /\ vars'[s] = p
        /\ \A x \in DOMAIN vars : vars'[x] = vars[x]
    BY <1>4
  <2> QED
    BY <1>4, <1>8, <2>1, <2>2 DEF VarsIn
<1> QED
  BY <1>3, <1>4, <1>6, <1>9 DEF MapsOK, TableInv

\* Two nodes are made, the first for the second: a function and its parameter.
LEMMA FunctionInv ==
    ASSUME TableInv, NEW s \in Symbols,
           NEW m, NodeOK(heap, m), m.cached = None, m.kind # "QUANT_VAR",
           NEW n, n.cached = None, n.kind # "QUANT_VAR",
           NEW p, p = CreateNode(heap, table, m), NodeOK(p.heap, n),
           NEW r, r = CreateNode(p.heap, p.table, n),
           heap' = r.heap, table' = r.table, got' = None,
           funs' = [x \in DOMAIN funs \cup {s} |-> IF x = s THEN r.node ELSE funs[x]],
           UNCHANGED <<parser, phase, vars, qvars, quantifiers>>
    PROVE  TableInv'
<1>1. MapsOK(heap, table, quantifiers)
  BY DEF TableInv, MapsOK
<1>2. MapsOK(p.heap, p.table, quantifiers)
  BY <1>1, MakesMaps
<1>3. MapsOK(r.heap, r.table, quantifiers) /\ Made(p.heap, p.table, n, r)
  BY <1>2, MakesMaps
<1>4. r.node \in DOMAIN r.heap
  BY <1>3 DEF Made, Given
<1>5. DOMAIN funs' = DOMAIN funs \cup {s} /\ funs'[s] = r.node
      /\ \A x \in DOMAIN funs : x # s => funs'[x] = funs[x]
  OBVIOUS
<1>6. FunsIn(heap', funs')
  BY <1>3, <1>4, <1>5 DEF MapsOK, FunsIn
<1>7. Counters'
  BY DEF TableInv, Counters
<1> QED
  BY <1>3, <1>6, <1>7 DEF MapsOK, TableInv

\* A function node over a node of the heap and the parameter just made.
LEMMA FunctionNode ==
    ASSUME TableInv, NEW body \in DOMAIN heap, NEW name, NEW s, NEW kind \in {"FUNC_DEC"} \cup DefinitionKinds
    PROVE  LET m == Node("Bool", "FUNC_PARAM", <<name>>, << >>)
               p == CreateNode(heap, table, m)
               n == Node("Bool", kind, <<s>>, <<body, p.node>>)
           IN /\ NodeOK(heap, m) /\ m.cached = None /\ m.kind # "QUANT_VAR"
              /\ NodeOK(p.heap, n) /\ n.cached = None /\ n.kind # "QUANT_VAR"
<1> DEFINE m == Node("Bool", "FUNC_PARAM", <<name>>, << >>)
           p == CreateNode(heap, table, m)
           kids == <<body, p.node>>
           n == Node("Bool", kind, <<s>>, kids)
<1>1. NodeOK(heap, m) /\ m.cached = None /\ m.kind = "FUNC_PARAM"
  <2>1. Len(<<name>>) \in 1..3
    OBVIOUS
  <2> QED
    BY <2>1, LeafNode
<1>2. Made(heap, table, m, p)
  <2>1. MapsOK(heap, table, quantifiers)
    BY DEF TableInv, MapsOK
  <2> HIDE DEF m
  <2> QED
    BY <2>1, <1>1, MakesMaps
<1> HIDE DEF p
<1>3. p.node \in DOMAIN p.heap /\ body \in DOMAIN p.heap
  BY <1>2 DEF Made, Given, Kept
<1>4. NodeOK(p.heap, n) /\ n.cached = None /\ n.kind = kind
  <2>1. DOMAIN kids = 1..2 /\ \A k \in DOMAIN kids : kids[k] \in DOMAIN p.heap
    BY <1>3
  <2>2. Len(<<s>>) \in 1..3
    OBVIOUS
  <2> HIDE DEF kids
  <2> QED
    BY <2>1, <2>2, FreshNode
<1>5. kind # "QUANT_VAR"
  BY TableBounds
<1> QED
  BY <1>1, <1>4, <1>5 DEF p

\* The declaration of a function keeps the invariant.
LEMMA MkFuncDecInv ==
    ASSUME TableInv, NEW s \in Symbols, MkFuncDec(s)
    PROVE  TableInv'
<1> DEFINE m == Node("Bool", "FUNC_PARAM", <<"Bool">>, << >>)
           p == CreateNode(heap, table, m)
           n == Node("Bool", "FUNC_DEC", <<s>>, <<NullNode, p.node>>)
           r == CreateNode(p.heap, p.table, n)
<1>1. NullNode \in DOMAIN heap
  BY OperandsAreNodes DEF TableInv
<1>2. /\ NodeOK(heap, m) /\ m.cached = None /\ m.kind # "QUANT_VAR"
      /\ NodeOK(p.heap, n) /\ n.cached = None /\ n.kind # "QUANT_VAR"
  BY <1>1, FunctionNode
<1>3. /\ heap' = r.heap /\ table' = r.table /\ got' = None
      /\ funs' = [x \in DOMAIN funs \cup {s} |-> IF x = s THEN r.node ELSE funs[x]]
      /\ UNCHANGED <<parser, phase, vars, qvars, quantifiers>>
  BY DEF MkFuncDec
<1> HIDE DEF m, n
<1> QED
  BY <1>2, <1>3, FunctionInv

\* A definition keeps the invariant.
LEMMA DefineNewInv ==
    ASSUME TableInv, NEW s \in Symbols, NEW body \in Terms, NEW kind \in DefinitionKinds,
           DefineNew(s, body, kind)
    PROVE  TableInv'
<1> DEFINE m == Node("Bool", "FUNC_PARAM", <<"p">>, << >>)
           p == CreateNode(heap, table, m)
           n == Node("Bool", kind, <<s>>, <<body, p.node>>)
           r == CreateNode(p.heap, p.table, n)
<1>1. body \in DOMAIN heap
  BY OperandsAreNodes DEF TableInv
<1>2. /\ NodeOK(heap, m) /\ m.cached = None /\ m.kind # "QUANT_VAR"
      /\ NodeOK(p.heap, n) /\ n.cached = None /\ n.kind # "QUANT_VAR"
  BY <1>1, FunctionNode
<1>3. /\ heap' = r.heap /\ table' = r.table /\ got' = None
      /\ funs' = [x \in DOMAIN funs \cup {s} |-> IF x = s THEN r.node ELSE funs[x]]
      /\ UNCHANGED <<parser, phase, vars, qvars, quantifiers>>
  BY DEF DefineNew
<1> HIDE DEF m, n
<1> QED
  BY <1>2, <1>3, FunctionInv

\* A node that keeps its name and is no variable changes in place.
LEMMA InPlaceMaps ==
    ASSUME TableInv, NEW i \in DOMAIN heap, heap[i].kind \notin StaticKinds,
           heap[i].kind \notin {"VAR", "QUANT_VAR"},
           NEW m, NodeOK(heap, m), m.cached = heap[i].cached, m.name = heap[i].name,
           m.kind # "QUANT_VAR"
    PROVE  MapsOK([heap EXCEPT ![i] = m], table, quantifiers)
<1> DEFINE g == [heap EXCEPT ![i] = m]
<1>1. /\ HeapOK(g) /\ TableOK(g, table) /\ DOMAIN g = DOMAIN heap
      /\ g[i] = m /\ \A j \in DOMAIN heap : j # i => g[j] = heap[j]
  BY InPlace DEF TableInv
<1> HIDE DEF g
<1>2. FunsIn(g, funs)
  BY <1>1 DEF TableInv, FunsIn
<1>3. VarsIn(g, table, vars, phase)
  <2>1. ASSUME NEW s \in DOMAIN vars
        PROVE  g[table[vars[s]].node] = heap[table[vars[s]].node]
    <3>1. vars[s] \in DOMAIN table /\ heap[table[vars[s]].node].kind = "VAR"
      BY DEF TableInv, VarsIn
    <3>2. table[vars[s]].node \in DOMAIN heap
      BY <3>1 DEF TableInv, TableOK
    <3> QED
      BY <1>1, <3>1, <3>2
  <2> QED
    BY <2>1 DEF TableInv, VarsIn
<1>4. QuantVars(g) = QuantVars(heap) /\ SNamed(g) = SNamed(heap)
      /\ \A j \in QuantVars(g) : g[j] = heap[j]
  BY <1>1 DEF QuantVars, SNamed
<1>5. QuantsIn(g, table, qvars, quantifiers, phase)
  BY <1>4 DEF TableInv, QuantsIn, QuantName
<1> QED
  BY <1>1, <1>2, <1>3, <1>5 DEF MapsOK, g

\* Defining what was declared keeps the invariant.
LEMMA DefineDeclaredInv ==
    ASSUME TableInv, NEW s \in Symbols, NEW body \in Terms, NEW kind \in DefinitionKinds,
           DefineDeclared(s, body, kind)
    PROVE  TableInv'
<1> DEFINE i == funs[s]
           kids == <<body, heap[i].kids[2]>>
           d == [heap[i] EXCEPT !.kind = kind]
           m == [d EXCEPT !.kids = kids]
<1>1. /\ i \in DOMAIN heap /\ heap[i].kind = "FUNC_DEC" /\ body \in DOMAIN heap
      /\ NodeOK(heap, heap[i])
  BY OperandsAreNodes DEF TableInv, FunsIn, DefineDeclared
<1>2. /\ IsNode(d) /\ d.kind = kind /\ d.name = heap[i].name /\ d.cached = heap[i].cached
  <2>1. IsNode(heap[i])
    BY <1>1 DEF NodeOK
  <2> HIDE DEF i
  <2> QED
    BY <2>1, ChangedKind
<1>3. IsNode(m) /\ m.kind = kind /\ m.name = heap[i].name /\ m.cached = heap[i].cached
      /\ m.kids = kids
  <2> HIDE DEF d, kids, i
  <2> QED
    BY <1>2, ChangedKids
<1>4. heap' = [heap EXCEPT ![i] = m]
  BY <1>1 DEF DefineDeclared
<1>5. DOMAIN kids = 1..2 /\ \A k \in DOMAIN kids : kids[k] \in DOMAIN heap
  <2>1. heap[i].kids[2] \in DOMAIN heap
    BY <1>1 DEF NodeOK, TwoKids
  <2> QED
    BY <1>1, <2>1
<1>6. UNCHANGED <<table, parser, phase, vars, funs, qvars, quantifiers>> /\ got' = None
  BY DEF DefineDeclared
<1> HIDE DEF m, kids, d, i
<1>7. NodeOK(heap, m)
  BY <1>1, <1>3, <1>5 DEF NodeOK, TwoKids
<1>8. heap[i].kind \notin StaticKinds /\ heap[i].kind \notin {"VAR", "QUANT_VAR"}
      /\ m.kind # "QUANT_VAR"
  BY <1>1, <1>3, TableBounds DEF StaticKinds
<1>9. MapsOK(heap', table, quantifiers)
  BY <1>1, <1>3, <1>4, <1>7, <1>8, InPlaceMaps
<1>10. Counters'
  BY <1>6 DEF TableInv, Counters
<1> QED
  BY <1>6, <1>9, <1>10 DEF MapsOK, TableInv

\* Sorting operands in place keeps the invariant.
LEMMA SortOperandsInv ==
    ASSUME TableInv, NEW i \in Kinds({"OP"}), SortOperands(i)
    PROVE  TableInv'
<1> DEFINE kids == <<heap[i].kids[2], heap[i].kids[1]>>
           m == [heap[i] EXCEPT !.kids = kids]
<1>1. i \in DOMAIN heap /\ heap[i].kind = "OP" /\ NodeOK(heap, heap[i])
  BY OperandsAreNodes DEF TableInv, Kinds
<1>2. IsNode(m) /\ m.kind = "OP" /\ m.name = heap[i].name /\ m.cached = heap[i].cached
      /\ m.kids = kids
  <2>1. IsNode(heap[i])
    BY <1>1 DEF NodeOK
  <2> HIDE DEF kids
  <2> QED
    BY <1>1, <2>1, ChangedKids
<1>3. heap' = [heap EXCEPT ![i] = m]
  BY <1>1 DEF SortOperands
<1>4. DOMAIN kids = 1..2 /\ \A k \in DOMAIN kids : kids[k] \in DOMAIN heap
  <2>1. heap[i].kids[1] \in DOMAIN heap /\ heap[i].kids[2] \in DOMAIN heap
    BY <1>1 DEF NodeOK, TwoKids
  <2> QED
    BY <2>1
<1>5. UNCHANGED <<table, parser, phase, vars, funs, qvars, quantifiers>> /\ got' = None
  BY DEF SortOperands
<1> HIDE DEF m, kids
<1>6. NodeOK(heap, m)
  BY <1>1, <1>2, <1>4 DEF NodeOK, TwoKids
<1>7. heap[i].kind \notin StaticKinds /\ heap[i].kind \notin {"VAR", "QUANT_VAR"}
      /\ m.kind # "QUANT_VAR"
  BY <1>1, <1>2 DEF StaticKinds
<1>8. MapsOK(heap', table, quantifiers)
  BY <1>1, <1>2, <1>3, <1>6, <1>7, InPlaceMaps
<1>9. Counters'
  BY <1>5 DEF TableInv, Counters
<1> QED
  BY <1>5, <1>8, <1>9 DEF MapsOK, TableInv

\* An application keeps the invariant.
LEMMA MkApplyInv ==
    ASSUME TableInv, NEW f \in Kinds(DefinitionKinds), NEW arg \in Leaves, MkApply(f, arg)
    PROVE  TableInv'
<1> DEFINE kids == <<f, arg>>
           b == Node("Bool", "FUNC_APPLY", heap[f].name, kids)
           n == [b EXCEPT !.chash = << >>]
           r == [heap |-> Append(heap, n), table |-> table]
<1>1. /\ HeapOK(heap) /\ TableOK(heap, table)
      /\ f \in DOMAIN heap /\ arg \in DOMAIN heap /\ NodeOK(heap, heap[f])
  BY OperandsAreNodes DEF TableInv
<1>2. IsNode(b) /\ b.kind = "FUNC_APPLY" /\ b.name = heap[f].name /\ b.kids = kids
  BY NodeFacts
<1>3. IsNode(n) /\ n.kind = "FUNC_APPLY" /\ n.name = heap[f].name /\ n.kids = kids
  <2> HIDE DEF b, kids
  <2> QED
    BY <1>2, ChangedHash
<1>4. r.heap = Append(heap, n) /\ r.table = table
  OBVIOUS
<1>5. /\ heap' = r.heap /\ got' = None
      /\ UNCHANGED <<table, parser, phase, vars, funs, qvars, quantifiers>>
  BY DEF MkApply
<1> HIDE DEF n, r
<1>6. NodeOK(heap, n)
  <2>1. DOMAIN kids = 1..2 /\ \A k \in DOMAIN kids : kids[k] \in DOMAIN heap
    BY <1>1
  <2> HIDE DEF kids
  <2> QED
    BY <2>1, <1>1, <1>3 DEF NodeOK, TwoKids
<1>7. /\ Len(heap) \in Nat /\ DOMAIN heap = 1..Len(heap) /\ NumStatic = 20 /\ Len(heap) >= 20
      /\ DOMAIN r.heap = 1..(Len(heap) + 1) /\ Len(r.heap) = Len(heap) + 1
      /\ \A i \in 1..Len(heap) : r.heap[i] = heap[i]
      /\ r.heap[Len(heap) + 1] = n
      /\ (\E T : r.heap \in Seq(T))
  <2>1. (\E T : heap \in Seq(T)) /\ NumStatic = 20 /\ Len(heap) >= 20
    BY <1>1, HeapFacts DEF HeapOK
  <2>2. PICK all : all = Append(heap, n)
    OBVIOUS
  <2>3. /\ Len(heap) \in Nat /\ DOMAIN heap = 1..Len(heap)
        /\ DOMAIN all = 1..(Len(heap) + 1) /\ Len(all) = Len(heap) + 1
        /\ \A i \in 1..Len(heap) : all[i] = heap[i]
        /\ all[Len(heap) + 1] = n
    BY <2>1, <2>2, AppendFacts
  <2>4. \E T : all \in Seq(T)
    <3>1. PICK T : heap \in Seq(T)
      BY <2>1
    <3>2. all \in Seq(T \cup {n})
      BY <2>2, <3>1, AppendProperties
    <3> QED
      BY <3>2
  <2> QED
    BY <2>1, <2>2, <2>3, <2>4, <1>4, Zenon
<1>8. HeapOK(r.heap)
  <2>1. \A i \in DOMAIN r.heap : NodeOK(heap, r.heap[i])
    <3>1. \A i \in 1..Len(heap) : NodeOK(heap, heap[i])
      BY <1>1, <1>7 DEF HeapOK
    <3> QED
      BY <3>1, <1>6, <1>7
  <2>2. \A i \in DOMAIN r.heap : NodeOK(r.heap, r.heap[i])
    BY <2>1, <1>7 DEF NodeOK
  <2>3. \A i \in 1..NumStatic : r.heap[i] = Hashed(StaticNodes[i])
    <3>1. \A i \in 1..NumStatic : heap[i] = Hashed(StaticNodes[i])
      BY <1>1 DEF HeapOK
    <3>2. \A i \in 1..NumStatic : i \in 1..Len(heap)
      BY <1>7
    <3> QED
      BY <3>1, <3>2, <1>7, Zenon
  <2>4. NumStatic <= Len(r.heap) /\ \E T : r.heap \in Seq(T)
    BY <1>7
  <2> QED
    BY <2>2, <2>3, <2>4 DEF HeapOK
<1>9. TableOK(r.heap, table)
  <2>1. \A i \in DOMAIN heap : i \in DOMAIN r.heap /\ r.heap[i] = heap[i]
    BY <1>7
  <2>2. \A i \in 1..NumStatic : r.heap[i] = heap[i]
    BY <1>7
  <2> QED
    BY <1>1, <2>1, <2>2 DEF TableOK
<1>10. Kept(heap, table, r)
  BY <1>4, <1>7, <1>8, <1>9 DEF Kept
<1>11. FunsIn(r.heap, funs) /\ VarsIn(r.heap, r.table, vars, phase)
  BY <1>1, <1>10, KeptMaps DEF TableInv
<1>12. QuantsIn(r.heap, r.table, qvars, quantifiers, phase)
  BY <1>1, <1>3, <1>4, <1>7, <1>10, KeptQuants DEF TableInv
<1>13. Counters'
  BY <1>5 DEF TableInv, Counters
<1> QED
  BY <1>4, <1>5, <1>8, <1>9, <1>11, <1>12, <1>13 DEF TableInv

\* The table has no quantified variable of the next number: a new node is made.
LEMMA MkQuantVarInv ==
    ASSUME TableInv, MkQuantVar
    PROVE  TableInv'
<1> DEFINE name == <<"QVAR", qvars>>
           n == Node("Bool", "QUANT_VAR", name, << >>)
           r == CreateNode(heap, table, n)
           new == Len(heap) + 1
<1>1. NodeOK(heap, n) /\ n.cached = None /\ n.kind = "QUANT_VAR" /\ n.name = name
  <2>1. Len(name) \in 1..3
    OBVIOUS
  <2> HIDE DEF name
  <2> QED
    BY <2>1, LeafNode
<1>2. HeapOK(heap) /\ TableOK(heap, table) /\ qvars \in Nat
      /\ QuantsIn(heap, table, qvars, quantifiers, phase)
  BY DEF TableInv, Counters
<1>3. /\ heap' = r.heap /\ table' = r.table /\ got' = [asked |-> n, node |-> r.node]
      /\ phase = "reading" /\ qvars' = qvars + 1
      /\ UNCHANGED <<parser, phase, vars, funs, quantifiers>>
  BY DEF MkQuantVar, Create
<1> HIDE DEF n
<1>4. Made(heap, table, n, r)
  BY <1>1, <1>2, CreateMakes
<1> HIDE DEF r
<1>5. Kept(heap, table, r)
  BY <1>4 DEF Made
<1>6. ASSUME NEW p \in DOMAIN table, table[p].kind = "QUANT_VAR"
      PROVE  table[p].hash[3] # name
  <2>1. PICK k \in Nat : k < qvars /\ table[p].hash[3] = <<"QVAR", k>>
    BY <1>2, <1>6 DEF QuantsIn
  <2> QED
    BY <2>1, <1>2
<1>7. /\ Len(r.heap) = new /\ r.heap[new].kind = "QUANT_VAR" /\ r.heap[new].name = name
      /\ \E e : r.table = Append(table, e) /\ e.kind = "QUANT_VAR" /\ e.hash[3] = name
  <2> HIDE DEF name
  <2> QED
    BY <1>1, <1>4, <1>6 DEF Made, FoundOrMade
<1>8. /\ DOMAIN heap = 1..Len(heap) /\ DOMAIN r.heap = 1..Len(r.heap) /\ Len(heap) \in Nat
      /\ IsFiniteSet(DOMAIN heap)
  BY <1>2, <1>5, HeapFacts DEF Kept
<1>9. QuantVars(r.heap) = QuantVars(heap) \cup {new} /\ new \notin QuantVars(heap)
      /\ \A i \in QuantVars(heap) : r.heap[i].name = heap[i].name
  <2> HIDE DEF name
  <2> QED
    BY <1>5, <1>7, <1>8 DEF Kept, QuantVars
<1>10. Cardinality(QuantVars(r.heap)) = qvars + 1
  <2>1. IsFiniteSet(QuantVars(heap))
    BY <1>8, FS_Subset DEF QuantVars
  <2> QED
    BY <2>1, <1>2, <1>9, FS_AddElement DEF QuantsIn
<1>11. ASSUME NEW i \in QuantVars(heap)
       PROVE  ReadName(heap[i].name, qvars + 1, quantifiers) /\ heap[i].name # name
  <2>1. ReadName(heap[i].name, qvars, quantifiers)
    BY <1>2, <1>3 DEF QuantsIn, QuantName
  <2>2. CASE \E k \in Nat : k < qvars /\ heap[i].name = <<"QVAR", k>>
    <3>1. PICK k \in Nat : k < qvars /\ heap[i].name = <<"QVAR", k>>
      BY <2>2
    <3> QED
      BY <3>1, <1>2 DEF ReadName
  <2>3. CASE \E k \in Nat : k <= quantifiers /\ heap[i].name = <<"Q", k, 0>>
    <3>1. PICK k \in Nat : k <= quantifiers /\ heap[i].name = <<"Q", k, 0>>
      BY <2>3
    <3>2. Len(heap[i].name) = 3 /\ Len(name) = 2
      BY <3>1
    <3> QED
      BY <3>1, <3>2 DEF ReadName
  <2> QED
    BY <2>1, <2>2, <2>3 DEF ReadName
<1>12. \A p \in DOMAIN r.table : r.table[p].kind = "QUANT_VAR" =>
            \E k \in Nat : k < qvars + 1 /\ r.table[p].hash[3] = <<"QVAR", k>>
  <2>1. PICK e : r.table = Append(table, e) /\ e.kind = "QUANT_VAR" /\ e.hash[3] = name
    BY <1>7
  <2>2. /\ Len(table) \in Nat /\ DOMAIN table = 1..Len(table)
        /\ DOMAIN r.table = 1..(Len(table) + 1) /\ r.table[Len(table) + 1] = e
        /\ \A p \in 1..Len(table) : r.table[p] = table[p]
    <3>1. \E T : table \in Seq(T)
      BY <1>2 DEF TableOK
    <3> QED
      BY <2>1, <3>1, AppendFacts
  <2>3. ASSUME NEW p \in 1..Len(table), table[p].kind = "QUANT_VAR"
        PROVE  \E k \in Nat : k < qvars + 1 /\ table[p].hash[3] = <<"QVAR", k>>
    <3>1. PICK k \in Nat : k < qvars /\ table[p].hash[3] = <<"QVAR", k>>
      BY <1>2, <2>2, <2>3 DEF QuantsIn
    <3> QED
      BY <3>1, <1>2
  <2>4. \E k \in Nat : k < qvars + 1 /\ e.hash[3] = <<"QVAR", k>>
    BY <2>1, <1>2
  <2> QED
    BY <2>2, <2>3, <2>4
<1>13. ReadName(name, qvars + 1, quantifiers)
  BY <1>2 DEF ReadName
<1>14. QuantsIn(heap', table', qvars', quantifiers', phase')
  <2>1. \A i \in QuantVars(r.heap) : QuantName(r.heap, r.heap[i].name, qvars + 1, quantifiers, phase)
    BY <1>7, <1>9, <1>11, <1>13, Zenon DEF QuantName
  <2>2. \A i, j \in QuantVars(heap) : heap[i].name = heap[j].name => i = j
    BY <1>2 DEF QuantsIn
  <2>3. \A i, j \in QuantVars(r.heap) : r.heap[i].name = r.heap[j].name => i = j
    <3> HIDE DEF name, new
    <3> QED
      BY <2>2, <1>7, <1>9, <1>11
  <2> QED
    BY <2>1, <2>3, <1>3, <1>10, <1>12 DEF QuantsIn
<1>15. FunsIn(heap', funs') /\ VarsIn(heap', table', vars', phase')
  BY <1>2, <1>3, <1>5, KeptMaps DEF TableInv
<1>16. HeapOK(heap') /\ TableOK(heap', table')
  BY <1>3, <1>5 DEF Kept
<1>17. Counters'
  <2>1. got'.node \in DOMAIN heap'
    BY <1>3, <1>4 DEF Made, Given
  <2> QED
    BY <2>1, <1>3 DEF TableInv, Counters
<1> QED
  BY <1>14, <1>15, <1>16, <1>17 DEF TableInv

\* A variable of a quantifier, renamed in place.
LEMMA RenamedInPlace ==
    ASSUME TableInv, NEW i \in Kinds({"VAR", "QUANT_VAR"}), NEW name, Len(name) \in 1..3,
           NEW g, g = [heap EXCEPT ![i].name = name]
    PROVE  /\ HeapOK(g) /\ TableOK(g, table)
           /\ DOMAIN g = DOMAIN heap /\ i \in DOMAIN heap
           /\ \A j \in DOMAIN heap : g[j].kind = heap[j].kind
           /\ g[i].name = name /\ \A j \in DOMAIN heap : j # i => g[j] = heap[j]
           /\ FunsIn(g, funs) /\ QuantVars(g) = QuantVars(heap)
<1> DEFINE m == [heap[i] EXCEPT !.name = name]
<1>1. i \in DOMAIN heap /\ heap[i].kind \in {"VAR", "QUANT_VAR"} /\ NodeOK(heap, heap[i])
  BY OperandsAreNodes DEF TableInv, Kinds
<1>2. IsNode(m) /\ m.kind = heap[i].kind /\ m.name = name /\ m.kids = heap[i].kids
      /\ m.cached = heap[i].cached
  <2>1. IsNode(heap[i])
    BY <1>1 DEF NodeOK
  <2> QED
    BY <2>1, ChangedName
<1>3. g = [heap EXCEPT ![i] = m]
  BY <1>1
<1> HIDE DEF m
<1>4. NodeOK(heap, m)
  BY <1>1, <1>2 DEF NodeOK, TwoKids
<1>5. heap[i].kind \notin StaticKinds
  BY <1>1 DEF StaticKinds
<1>6. /\ HeapOK(g) /\ TableOK(g, table) /\ DOMAIN g = DOMAIN heap
      /\ g[i] = m /\ \A j \in DOMAIN heap : j # i => g[j] = heap[j]
  <2>1. HeapOK(heap) /\ TableOK(heap, table)
    BY DEF TableInv
  <2>2. LET f == [heap EXCEPT ![i] = m]
        IN /\ HeapOK(f) /\ TableOK(f, table) /\ DOMAIN f = DOMAIN heap
           /\ f[i] = m /\ \A j \in DOMAIN heap : j # i => f[j] = heap[j]
    BY <2>1, <1>1, <1>2, <1>4, <1>5, InPlace
  <2> QED
    BY <2>2, <1>3, Zenon
<1>7. \A j \in DOMAIN heap : g[j].kind = heap[j].kind
  BY <1>2, <1>6
<1>8. FunsIn(g, funs) /\ QuantVars(g) = QuantVars(heap)
  BY <1>6, <1>7 DEF TableInv, FunsIn, QuantVars
<1> QED
  BY <1>1, <1>2, <1>6, <1>7, <1>8

\* A quantifier keeps the invariant.
LEMMA MkQuantifierInv ==
    ASSUME TableInv, NEW body \in Terms, NEW v \in Kinds({"QUANT_VAR"}), MkQuantifier(body, v)
    PROVE  TableInv'
<1> DEFINE q == quantifiers + 1
           name == <<"Q", q, 0>>
           g == [heap EXCEPT ![v].name = name]
           n == Node("Bool", "FORALL", <<"forall">>, <<body, v>>)
           r == CreateNode(g, table, n)
<1>1. /\ heap' = r.heap /\ table' = r.table /\ got' = [asked |-> n, node |-> r.node]
      /\ phase = "reading" /\ quantifiers < MaxQuantifiers /\ quantifiers' = q
      /\ UNCHANGED <<parser, phase, vars, funs, qvars>>
  BY DEF MkQuantifier, Create
<1>2. /\ body \in DOMAIN heap /\ v \in DOMAIN heap /\ heap[v].kind = "QUANT_VAR"
      /\ qvars \in Nat /\ quantifiers \in 0..MaxQuantifiers
  BY OperandsAreNodes DEF TableInv, Kinds, Counters
<1>3. /\ HeapOK(g) /\ TableOK(g, table)
      /\ DOMAIN g = DOMAIN heap
      /\ \A j \in DOMAIN heap : g[j].kind = heap[j].kind
      /\ g[v].name = name /\ \A j \in DOMAIN heap : j # v => g[j] = heap[j]
      /\ FunsIn(g, funs) /\ QuantVars(g) = QuantVars(heap)
  <2>1. Len(name) \in 1..3
    OBVIOUS
  <2>2. v \in Kinds({"VAR", "QUANT_VAR"})
    BY <1>2 DEF Kinds
  <2> HIDE DEF name
  <2> QED
    BY <2>1, <2>2, RenamedInPlace
<1> HIDE DEF g
<1>4. VarsIn(g, table, vars, phase)
  <2>1. ASSUME NEW s \in DOMAIN vars
        PROVE  g[table[vars[s]].node] = heap[table[vars[s]].node]
    <3>1. vars[s] \in DOMAIN table /\ heap[table[vars[s]].node].kind = "VAR"
      BY DEF TableInv, VarsIn
    <3>2. table[vars[s]].node \in DOMAIN heap
      BY <3>1 DEF TableInv, TableOK
    <3> QED
      BY <1>2, <1>3, <3>1, <3>2
  <2> QED
    BY <2>1 DEF TableInv, VarsIn
<1>5. QuantsIn(heap, table, qvars, quantifiers, phase)
  BY DEF TableInv
<1>6. ASSUME NEW i \in QuantVars(heap)
      PROVE  ReadName(heap[i].name, qvars, q) /\ heap[i].name # name
  <2>1. ReadName(heap[i].name, qvars, quantifiers)
    BY <1>1, <1>5 DEF QuantsIn, QuantName
  <2>2. CASE \E k \in Nat : k < qvars /\ heap[i].name = <<"QVAR", k>>
    <3>1. PICK k \in Nat : k < qvars /\ heap[i].name = <<"QVAR", k>>
      BY <2>2
    <3>2. Len(heap[i].name) = 2 /\ Len(name) = 3
      BY <3>1
    <3> QED
      BY <3>1, <3>2 DEF ReadName
  <2>3. CASE \E k \in Nat : k <= quantifiers /\ heap[i].name = <<"Q", k, 0>>
    <3>1. PICK k \in Nat : k <= quantifiers /\ heap[i].name = <<"Q", k, 0>>
      BY <2>3
    <3>2. k <= q /\ k # q
      BY <3>1, <1>2
    <3> QED
      BY <3>1, <3>2 DEF ReadName
  <2> QED
    BY <2>1, <2>2, <2>3 DEF ReadName
<1>7. ReadName(name, qvars, q)
  BY <1>2 DEF ReadName
<1>8. QuantsIn(g, table, qvars, q, phase)
  <2> HIDE DEF name, q
  <2>1. \A i \in QuantVars(g) : QuantName(g, g[i].name, qvars, q, phase)
    <3>1. \A i \in QuantVars(heap) : ReadName(g[i].name, qvars, q)
      BY <1>3, <1>6, <1>7 DEF QuantVars
    <3> QED
      BY <3>1, <1>3 DEF QuantName
  <2>2. \A i, j \in QuantVars(g) : g[i].name = g[j].name => i = j
    <3>1. \A i, j \in QuantVars(heap) : heap[i].name = heap[j].name => i = j
      BY <1>5 DEF QuantsIn
    <3>2. \A i \in QuantVars(heap) : i \in DOMAIN heap
      BY DEF QuantVars
    <3> QED
      BY <3>1, <3>2, <1>3, <1>6
  <2> QED
    BY <2>1, <2>2, <1>3, <1>5 DEF QuantsIn
<1>9. MapsOK(g, table, q)
  BY <1>3, <1>4, <1>8 DEF MapsOK
<1>10. NodeOK(g, n) /\ n.cached = None /\ n.kind = "FORALL"
  <2>1. \A k \in DOMAIN <<body, v>> : <<body, v>>[k] \in DOMAIN g
    BY <1>2, <1>3
  <2>2. Len(<<"forall">>) \in 1..3
    OBVIOUS
  <2> QED
    BY <2>1, <2>2, FreshNode
<1> HIDE DEF n, q
<1>11. MapsOK(r.heap, r.table, q) /\ Made(g, table, n, r)
  BY <1>9, <1>10, MakesMaps
<1> HIDE DEF r
<1>12. Counters'
  <2>1. r.node \in DOMAIN r.heap
    BY <1>11 DEF Made, Given
  <2>2. q \in 0..MaxQuantifiers
    BY <1>1, <1>2, TableBounds DEF q
  <2> QED
    BY <2>1, <2>2, <1>1 DEF TableInv, Counters
<1> QED
  BY <1>1, <1>11, <1>12 DEF MapsOK, TableInv

\* Renaming keeps the invariant.
LEMMA RenameSymbolInv ==
    ASSUME TableInv, NEW i \in Kinds({"VAR", "QUANT_VAR"}), RenameSymbol(i)
    PROVE  TableInv'
<1> DEFINE c == Cardinality(SNamed(heap))
           name == <<"S", c>>
<1>1. /\ heap[i].name[1] # "S" /\ phase' = "writing"
      /\ heap' = [heap EXCEPT ![i].name = name] /\ got' = None
      /\ UNCHANGED <<table, parser, vars, funs, qvars, quantifiers>>
  BY DEF RenameSymbol, SNamed
<1>2. /\ HeapOK(heap') /\ TableOK(heap', table)
      /\ DOMAIN heap' = DOMAIN heap /\ i \in DOMAIN heap
      /\ \A j \in DOMAIN heap : heap'[j].kind = heap[j].kind
      /\ heap'[i].name = name /\ \A j \in DOMAIN heap : j # i => heap'[j] = heap[j]
      /\ FunsIn(heap', funs) /\ QuantVars(heap') = QuantVars(heap)
  <2>1. Len(name) \in 1..3
    OBVIOUS
  <2> HIDE DEF name
  <2> DEFINE g == [heap EXCEPT ![i].name = name]
  <2>2. g = heap'
    BY <1>1
  <2>3. /\ HeapOK(g) /\ TableOK(g, table)
        /\ DOMAIN g = DOMAIN heap /\ i \in DOMAIN heap
        /\ \A j \in DOMAIN heap : g[j].kind = heap[j].kind
        /\ g[i].name = name /\ \A j \in DOMAIN heap : j # i => g[j] = heap[j]
        /\ FunsIn(g, funs) /\ QuantVars(g) = QuantVars(heap)
    BY <2>1, RenamedInPlace
  <2> HIDE DEF g
  <2> QED
    BY <2>2, <2>3
<1>3. VarsIn(heap', table, vars, "writing")
  <2>1. ASSUME NEW s \in DOMAIN vars
        PROVE  heap'[table[vars[s]].node].kind = heap[table[vars[s]].node].kind
    <3>1. vars[s] \in DOMAIN table
      BY DEF TableInv, VarsIn
    <3>2. table[vars[s]].node \in DOMAIN heap
      BY <3>1 DEF TableInv, TableOK
    <3> QED
      BY <1>2, <3>1, <3>2
  <2> QED
    BY <2>1 DEF TableInv, VarsIn
<1>4. SNamed(heap') = SNamed(heap) \cup {i} /\ i \notin SNamed(heap)
  <2>1. heap'[i].name[1] = "S"
    BY <1>2
  <2> QED
    BY <2>1, <1>1, <1>2 DEF SNamed
<1>5. c \in Nat /\ Cardinality(SNamed(heap')) = c + 1
  <2>1. IsFiniteSet(SNamed(heap))
    BY HeapFacts, FS_Subset DEF TableInv, SNamed
  <2> QED
    BY <2>1, <1>4, FS_AddElement, FS_CardinalityType
<1>6. QuantsIn(heap, table, qvars, quantifiers, phase)
  BY DEF TableInv
<1>7. ASSUME NEW j \in QuantVars(heap)
      PROVE  /\ QuantName(heap', heap[j].name, qvars, quantifiers, "writing")
             /\ heap[j].name # name
  <2>1. QuantName(heap, heap[j].name, qvars, quantifiers, phase)
    BY <1>6 DEF QuantsIn
  <2>2. CASE ReadName(heap[j].name, qvars, quantifiers)
    <3>1. heap[j].name # name
      <4>1. CASE \E k \in Nat : k < qvars /\ heap[j].name = <<"QVAR", k>>
        <5>1. heap[j].name[1] = "QVAR" /\ name[1] = "S"
          BY <4>1
        <5> QED
          BY <5>1
      <4>2. CASE \E k \in Nat : k <= quantifiers /\ heap[j].name = <<"Q", k, 0>>
        <5>1. heap[j].name[1] = "Q" /\ name[1] = "S"
          BY <4>2
        <5> QED
          BY <5>1
      <4> QED
        BY <2>2, <4>1, <4>2 DEF ReadName
    <3> QED
      BY <2>2, <3>1 DEF QuantName
  <2>3. CASE \E k \in Nat : k < c /\ heap[j].name = <<"S", k>>
    <3>1. PICK k \in Nat : k < c /\ heap[j].name = <<"S", k>>
      BY <2>3
    <3>2. k < Cardinality(SNamed(heap')) /\ k # c
      BY <3>1, <1>5
    <3> QED
      BY <3>1, <3>2 DEF QuantName
  <2> QED
    BY <2>1, <2>2, <2>3 DEF QuantName
<1>8. QuantName(heap', name, qvars, quantifiers, "writing")
  BY <1>5 DEF QuantName
<1>9. QuantsIn(heap', table, qvars, quantifiers, "writing")
  <2> HIDE DEF name
  <2>1. \A j \in QuantVars(heap) : j \in DOMAIN heap
    BY DEF QuantVars
  <2>2. \A j \in QuantVars(heap') : QuantName(heap', heap'[j].name, qvars, quantifiers, "writing")
    BY <2>1, <1>2, <1>7, <1>8
  <2>3. \A j, k \in QuantVars(heap') : heap'[j].name = heap'[k].name => j = k
    <3>1. \A j, k \in QuantVars(heap) : heap[j].name = heap[k].name => j = k
      BY <1>6 DEF QuantsIn
    <3> QED
      BY <2>1, <3>1, <1>2, <1>7
  <2> QED
    BY <2>2, <2>3, <1>2, <1>6 DEF QuantsIn
<1>10. Counters'
  BY <1>1 DEF TableInv, Counters
<1> QED
  BY <1>1, <1>2, <1>3, <1>9, <1>10 DEF TableInv

\* No entry after the first ones leads to a static node: clear leaves them alone.
LEMMA NextParserInv ==
    ASSUME TableInv, NextParser
    PROVE  TableInv'
<1>1. /\ HeapOK(heap) /\ TableOK(heap, table) /\ Counters
  BY DEF TableInv
<1>2. /\ NumStatic = 20 /\ Len(heap) \in Nat /\ Len(heap) >= 20 /\ DOMAIN heap = 1..Len(heap)
      /\ \A i \in 1..NumStatic : i \in DOMAIN heap /\ heap[i].kind \in StaticKinds
  BY <1>1, HeapFacts
<1>3. /\ heap' = ClearedHeap /\ table' = StaticTable(heap') /\ parser < MaxParsers
      /\ parser' = parser + 1 /\ phase' = "reading" /\ vars' = << >> /\ funs' = << >>
      /\ qvars' = 0 /\ got' = None /\ quantifiers' = quantifiers
  BY DEF NextParser
<1>4. heap' = [i \in 1..20 |-> heap[i]]
  <2>1. ASSUME NEW i \in 1..NumStatic
        PROVE  ~ \E p \in DOMAIN table : p > NumStatic /\ table[p].node = i
    <3>1. \A p \in DOMAIN table : p > NumStatic => table[p].node > NumStatic
      BY <1>1 DEF TableOK
    <3> QED
      BY <3>1, <1>2
  <2>2. ClearedHeap = [i \in 1..NumStatic |-> heap[i]]
    BY <2>1 DEF ClearedHeap
  <2> QED
    BY <2>2, <1>2, <1>3
<1>5. /\ DOMAIN heap' = 1..20 /\ Len(heap') = 20 /\ heap' \in Seq({heap[i] : i \in 1..20})
      /\ \A i \in 1..20 : heap'[i] = heap[i]
  BY <1>4
<1>6. ASSUME NEW i \in 1..20
      PROVE  /\ heap[i] = Hashed(StaticNodes[i]) /\ heap[i].kids = << >> /\ NodeOK(heap, heap[i])
             /\ heap[i].kind \in StaticKinds /\ heap[i].cached = HashCode(heap[i])
             /\ heap[i].cached # None
  <2>1. heap[i] = Hashed(StaticNodes[i]) /\ NodeOK(heap, heap[i])
    BY <1>1, <1>2 DEF HeapOK
  <2>2. IsNode(StaticNodes[i]) /\ StaticNodes[i].kids = << >> /\ StaticNodes[i].kind \in StaticKinds
    BY <1>2, StaticFacts
  <2>3. /\ Hashed(StaticNodes[i]).kids = << >> /\ Hashed(StaticNodes[i]).kind \in StaticKinds
        /\ Hashed(StaticNodes[i]).cached = HashCode(Hashed(StaticNodes[i]))
        /\ Hashed(StaticNodes[i]).cached # None
    BY <2>2, HashedFacts
  <2> QED
    BY <2>1, <2>3
<1>7. HeapOK(heap')
  <2>1. ASSUME NEW i \in 1..20
        PROVE  NodeOK(heap', heap'[i])
    <3>1. DOMAIN heap[i].kids = {}
      BY <1>6
    <3> QED
      BY <3>1, <1>5, <1>6 DEF NodeOK
  <2>2. \A i \in 1..NumStatic : heap'[i] = Hashed(StaticNodes[i])
    BY <1>2, <1>5, <1>6
  <2>3. \E S : heap' \in Seq(S)
    BY <1>5
  <2> QED
    BY <2>1, <2>2, <2>3, <1>2, <1>5 DEF HeapOK
<1>8. table' = [i \in 1..20 |-> Entry(i, heap'[i])]
  BY <1>2, <1>3 DEF StaticTable
<1>9. ASSUME NEW i \in 1..20
      PROVE  /\ table'[i] = Entry(i, heap'[i]) /\ table'[i].node = i
             /\ table'[i].hash = heap'[i].cached /\ table'[i].kind \in StaticKinds
             /\ table'[i].hash # None
  BY <1>5, <1>6, <1>8 DEF Entry
<1>10. TableOK(heap', table')
  <2>1. table' \in Seq({table'[i] : i \in 1..20}) /\ Len(table') = 20 /\ DOMAIN table' = 1..20
    BY <1>8
  <2>2. \E S : table' \in Seq(S)
    BY <2>1
  <2> QED
    BY <1>2, <1>5, <1>9, <2>1, <2>2 DEF TableOK
<1>11. FunsIn(heap', funs') /\ VarsIn(heap', table', vars', phase')
  <2>1. DOMAIN funs' = {} /\ DOMAIN vars' = {}
    BY <1>3
  <2> QED
    BY <2>1 DEF FunsIn, VarsIn
<1>12. QuantsIn(heap', table', qvars', quantifiers', phase')
  <2>1. QuantVars(heap') = {}
    BY <1>5, <1>6 DEF QuantVars, StaticKinds
  <2>2. \A p \in DOMAIN table' : table'[p].kind # "QUANT_VAR"
    BY <1>8, <1>9 DEF StaticKinds
  <2>3. Cardinality({}) = 0
    BY FS_EmptySet
  <2> QED
    BY <2>1, <2>2, <2>3, <1>3 DEF QuantsIn
<1>13. Counters'
  BY <1>1, <1>3, TableBounds DEF Counters
<1> QED
  BY <1>7, <1>10, <1>11, <1>12, <1>13 DEF TableInv

\* Every step keeps the invariant.
LEMMA NextInv == TableInv /\ [Next]_state => TableInv'
<1> SUFFICES ASSUME TableInv, [Next]_state PROVE TableInv'
  OBVIOUS
<1>1. ASSUME NEW s \in Symbols, MkVar(s) PROVE TableInv'
  BY <1>1, MkVarInv
<1>2. ASSUME NEW s \in Symbols, MkFuncDec(s) PROVE TableInv'
  BY <1>2, MkFuncDecInv
<1>3. ASSUME NEW s \in Symbols, NEW b \in Terms, NEW k \in DefinitionKinds,
             DefineDeclared(s, b, k) \/ DefineNew(s, b, k)
      PROVE  TableInv'
  BY <1>3, DefineDeclaredInv, DefineNewInv
<1>4. ASSUME MkQuantVar PROVE TableInv'
  BY <1>4, MkQuantVarInv
<1>5. ASSUME NEW a \in Terms, NEW b \in Leaves, MkOper(<<a, b>>) PROVE TableInv'
  BY <1>5, MkOperInv
<1>6. ASSUME NEW b \in Terms, NEW v \in Kinds({"QUANT_VAR"}), MkQuantifier(b, v) PROVE TableInv'
  BY <1>6, MkQuantifierInv
<1>7. ASSUME NEW f \in Kinds(DefinitionKinds), NEW a \in Leaves, MkApply(f, a) PROVE TableInv'
  BY <1>7, MkApplyInv
<1>8. ASSUME NEW i \in Kinds({"VAR", "QUANT_VAR"}), RenameSymbol(i) PROVE TableInv'
  BY <1>8, RenameSymbolInv
<1>9. ASSUME NEW i \in Kinds({"OP"}), SortOperands(i) PROVE TableInv'
  BY <1>9, SortOperandsInv
<1>10. ASSUME NEW k \in 0..1, NEW i \in Kinds({"OP", "FORALL"}), MkLetBindVar(k, i) PROVE TableInv'
  BY <1>10, MkLetBindVarInv
<1>11. ASSUME NextParser PROVE TableInv'
  BY <1>11, NextParserInv
<1>12. CASE UNCHANGED state
  BY <1>12 DEF state, TableInv, Counters
<1> QED
  BY <1>1, <1>2, <1>3, <1>4, <1>5, <1>6, <1>7, <1>8, <1>9, <1>10, <1>11, <1>12, Zenon DEF Next

\* Each entry has the hash it was inserted under; places and functions are those of
\* entries of their names; quantified variables in the table have numbers given
\* already.
THEOREM TableInvariant == Spec => []TableInv
<1>1. Init => TableInv
  BY InitInv
<1>2. TableInv /\ [Next]_state => TableInv'
  BY NextInv
<1> QED
  BY <1>1, <1>2, PTL DEF Spec

-----------------------------------------------------------------------------
(* Addresses stay addresses and places stay places: no operand, map or     *)
(* entry is left dangling by anything a script, a kernel or the next       *)
(* parser does (DAGNode, NodeManager).                                     *)
THEOREM TypesAlwaysOK == Spec => []TableTypeOK
<1>1. TableInv => TableTypeOK
  <2> SUFFICES ASSUME TableInv PROVE TableTypeOK
    OBVIOUS
  <2>1. \A i \in DOMAIN heap : /\ \A k \in DOMAIN heap[i].kids : heap[i].kids[k] \in DOMAIN heap
                               /\ Len(heap[i].name) \in 1..3
    BY DEF TableInv, HeapOK, NodeOK
  <2>2. \A p \in DOMAIN table : table[p].node \in DOMAIN heap
    BY DEF TableInv, TableOK
  <2>3. /\ DOMAIN vars \subseteq Symbols /\ \A s \in DOMAIN vars : vars[s] \in DOMAIN table
    BY DEF TableInv, VarsIn
  <2>4. /\ DOMAIN funs \subseteq Symbols /\ \A s \in DOMAIN funs : funs[s] \in DOMAIN heap
    BY DEF TableInv, FunsIn
  <2>5. Counters
    BY DEF TableInv
  <2> QED
    BY <2>1, <2>2, <2>3, <2>4, <2>5 DEF TableTypeOK, Counters
<1> QED
  BY <1>1, TableInvariant, PTL

(* The nodes shared by all parsers are never renamed, redefined, reordered *)
(* or cleared, and every parser has them at the same places                *)
(* (initializeStaticNodes, clear).                                         *)
THEOREM StaticNodesStay == Spec => []StaticsIntact
<1>1. TableInv => StaticsIntact
  BY DEF TableInv, HeapOK, TableOK, StaticsIntact
<1> QED
  BY <1>1, TableInvariant, PTL

(* A place remembered in var_names leads to that variable ever after, and  *)
(* to no other one, whatever has been inserted since (mkVar, getIndex).    *)
THEOREM PlacesStay == Spec => []PlacesLeadToVariables
<1>1. TableInv => PlacesLeadToVariables
  <2> SUFFICES ASSUME TableInv PROVE PlacesLeadToVariables
    OBVIOUS
  <2>1. VarsIn(heap, table, vars, phase)
    BY DEF TableInv
  <2>2. ASSUME NEW s \in DOMAIN vars, NEW t \in DOMAIN vars, vars[s] = vars[t]
        PROVE  s = t
    <3>1. <<s>> = <<t>>
      BY <2>1, <2>2 DEF VarsIn
    <3> QED
      BY <3>1
  <2> QED
    BY <2>1, <2>2 DEF VarsIn, PlacesLeadToVariables
<1> QED
  BY <1>1, TableInvariant, PTL

(* Every quantified variable is a node of its own with a name of its own,  *)
(* whichever of the three ways gave it and however many quantifiers,       *)
(* renamings and parsers there were (mkQuantVar, mkOper, Kernel::apply).   *)
THEOREM BoundVariablesStayDistinct == Spec => []BoundVariablesDistinct
<1>1. TableInv => BoundVariablesDistinct
  <2>1. Kinds({"QUANT_VAR"}) = QuantVars(heap)
    BY DEF Kinds, QuantVars
  <2> QED
    BY <2>1 DEF TableInv, QuantsIn, BoundVariablesDistinct
<1> QED
  BY <1>1, TableInvariant, PTL
=============================================================================
