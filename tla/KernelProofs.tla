---------------------------- MODULE KernelProofs ----------------------------
(***************************************************************************)
(* Proofs about Kernel, for every set of assertion DAGs and of flags: of   *)
(* the constructor's walk, of apply, and of the two directions of the      *)
(* graph. Those of the walk are stated over its variables alone, so that   *)
(* they also hold of a kernel that goes on to prune d_graph.               *)
(***************************************************************************)
EXTENDS Kernel, SelectionProofs, FiniteSetTheorems

walkVars == <<input, visit, node2index, d_nodes>>

(***************************************************************************)
(* Why the stack order works. A node whose number is pending has a place on*)
(* the stack with only lower terms above it, and each of its operands that *)
(* has no number yet is among them. So when it is on top, none is left.    *)
(* OperandsNumberedFirst alone is not inductive: it says nothing of the    *)
(* pending nodes below the top.                                            *)
(***************************************************************************)
Above(i) == (i + 1)..Len(visit)

HasPlace(n) ==
    \E i \in 1..Len(visit) :
        /\ visit[i] = n
        /\ \A j \in Above(i) : input.height[visit[j]] < input.height[n]
        /\ \A c \in Range(Successors(input, n)) :
              IsNumbered(c) \/ \E j \in Above(i) : visit[j] = c

PendingHavePlaces == \A n \in DOMAIN node2index : IsPending(n) => HasPlace(n)

WalkInv == WalkTypeOK /\ PendingHavePlaces /\ NumberedOnce

\* What the assumption on the inputs says of the input at hand.
LEMMA InputFacts ==
    ASSUME input \in Inputs, NEW n \in DagNode
    PROVE  /\ Successors(input, n) \in Seq(DagNode)
           /\ input.height[n] \in Nat
           /\ \A c \in Range(Successors(input, n)) :
                 c \in DagNode /\ input.height[c] < input.height[n]
           /\ input.assertions \in Seq(DagNode)
<1>1. input \in InputType
  BY InputsAssumption
<1>2. /\ input.operands[n] \in Seq(DagNode)
      /\ input.uf[n] \in DagNode \union {NoNode}
      /\ input.height[n] \in Nat
      /\ input.assertions \in Seq(DagNode)
  BY <1>1 DEF InputType
<1>3. Successors(input, n) \in Seq(DagNode)
  BY <1>2 DEF Successors
<1>4. \A c \in Range(Successors(input, n)) : c \in DagNode
  BY <1>3 DEF Range
<1>5. \A c \in Range(Successors(input, n)) : input.height[c] < input.height[n]
  BY InputsAssumption
<1> QED
  BY <1>2, <1>3, <1>4, <1>5

\* The invariant holds of an empty walk.
LEMMA WalkInitially ==
    ASSUME GraphInit
    PROVE  WalkInv
<1>1. input.assertions \in Seq(DagNode)
  BY InputsAssumption DEF GraphInit, InputType
<1>2. DOMAIN node2index = {} /\ d_nodes = << >> /\ Len(d_nodes) = 0
  BY DEF GraphInit
<1>3. WalkTypeOK
  BY <1>1, <1>2 DEF GraphInit, WalkTypeOK
<1> QED
  BY <1>2, <1>3 DEF WalkInv, PendingHavePlaces, NumberedOnce, Numbers

\* On top of the stack, a pending node has nothing left to wait for.
LEMMA TopIsReady ==
    ASSUME WalkInv
    PROVE  OperandsNumberedFirst
<1> SUFFICES ASSUME visit # << >>, IsPending(Top)
             PROVE  \A c \in Range(Successors(input, Top)) : IsNumbered(c)
  BY DEF OperandsNumberedFirst
<1>1. Top = visit[Len(visit)] /\ Len(visit) \in Nat /\ Len(visit) > 0
  BY DEF Top, WalkInv, WalkTypeOK
<1>2. Top \in DagNode
  BY <1>1 DEF WalkInv, WalkTypeOK
<1>3. PICK i \in 1..Len(visit) :
        /\ visit[i] = Top
        /\ \A j \in Above(i) : input.height[visit[j]] < input.height[Top]
        /\ \A c \in Range(Successors(input, Top)) :
              IsNumbered(c) \/ \E j \in Above(i) : visit[j] = c
  BY DEF WalkInv, PendingHavePlaces, HasPlace, IsPending, Seen
<1>4. input.height[Top] \in Nat
  BY <1>2, InputFacts DEF WalkInv, WalkTypeOK
<1>5. i = Len(visit)
  BY <1>1, <1>3, <1>4 DEF Above
<1> QED
  BY <1>1, <1>3, <1>5 DEF Above

\* What is on top, and what is left when it is popped.
LEMMA StackFacts ==
    ASSUME WalkTypeOK, visit # << >>
    PROVE  /\ Len(visit) \in Nat \ {0}
           /\ Top = visit[Len(visit)]
           /\ Top \in DagNode
           /\ Popped \in Seq(DagNode)
           /\ Len(Popped) = Len(visit) - 1
           /\ \A i \in 1..Len(Popped) : Popped[i] = visit[i]
<1>1. visit \in Seq(DagNode) /\ Len(visit) \in Nat \ {0}
  BY DEF WalkTypeOK
<1>2. Top \in DagNode
  BY <1>1 DEF Top
<1>3. /\ Popped \in Seq(DagNode)
      /\ Len(Popped) = Len(visit) - 1
      /\ \A i \in 1..Len(Popped) : Popped[i] = visit[i]
  <2> DEFINE last == Len(visit) - 1
  <2>1. 1 \in Int /\ last \in Int /\ \A i \in 1..last : visit[i] \in DagNode
    BY <1>1
  <2>2. /\ SubSeq(visit, 1, last) \in Seq(DagNode)
        /\ Len(SubSeq(visit, 1, last)) = IF 1 <= last THEN last - 1 + 1 ELSE 0
        /\ \A i \in 1..(last - 1 + 1) : SubSeq(visit, 1, last)[i] = visit[1 + i - 1]
    <3> HIDE DEF last
    <3> QED
      BY <2>1, SubSeqProperties
  <2>3. Popped = SubSeq(visit, 1, last) /\ last \in Nat
    BY <1>1 DEF Popped
  <2> HIDE DEF last
  <2>4. Len(Popped) = last
    BY <2>2, <2>3
  <2>5. \A i \in 1..last : Popped[i] = visit[i]
    BY <2>2, <2>3
  <2> USE DEF last
  <2> QED
    BY <2>2, <2>3, <2>4, <2>5
<1> QED
  BY <1>1, <1>2, <1>3 DEF Top

\* Expand: the new pending node is below exactly its operands, which are lower
\* than it, and it is itself lower than whoever it was above.
LEMMA ExpandKeepsWalk ==
    ASSUME WalkInv, Expand
    PROVE  WalkInv'
<1> DEFINE m == Top
           s == Successors(input, m)
<1>1. /\ WalkTypeOK /\ NumberedOnce
      /\ visit # << >> /\ ~Seen(m) /\ input' = input /\ d_nodes' = d_nodes
  BY DEF WalkInv, Expand
<1>2. /\ Len(visit) \in Nat \ {0} /\ m = visit[Len(visit)] /\ m \in DagNode
      /\ visit \in Seq(DagNode)
  BY <1>1, StackFacts DEF WalkTypeOK
<1>3. /\ s \in Seq(DagNode) /\ Len(s) \in Nat
      /\ input.height[m] \in Nat
      /\ \A c \in Range(s) : c \in DagNode /\ input.height[c] < input.height[m]
  BY <1>1, <1>2, InputFacts DEF WalkTypeOK
<1>4. /\ visit' = visit \o s
      /\ Len(visit') = Len(visit) + Len(s)
      /\ \A i \in 1..Len(visit) : visit'[i] = visit[i]
      /\ \A i \in 1..Len(s) : visit'[Len(visit) + i] = s[i]
  BY <1>2, <1>3 DEF Expand
<1>5. /\ DOMAIN node2index' = DOMAIN node2index \union {m}
      /\ node2index'[m] = 0
      /\ \A n \in DOMAIN node2index : node2index'[n] = node2index[n] /\ n # m
  BY <1>1 DEF Expand, Pending, Seen
<1>6. \A n : (IsNumbered(n))' <=> IsNumbered(n)
  BY <1>5 DEF IsNumbered, Seen, Pending
<1>7. WalkTypeOK'
  BY <1>1, <1>2, <1>3, <1>4, <1>5 DEF WalkTypeOK
<1>8. PendingHavePlaces'
  <2> SUFFICES ASSUME NEW n \in DOMAIN node2index', IsPending(n)'
               PROVE  HasPlace(n)'
    BY DEF PendingHavePlaces
  <2>1. CASE n = m
    <3>1. \A j \in (Len(visit) + 1)..Len(visit') :
             j - Len(visit) \in 1..Len(s) /\ visit'[j] = s[j - Len(visit)]
      BY <1>2, <1>3, <1>4
    <3>2. \A j \in (Len(visit) + 1)..Len(visit') : visit'[j] \in Range(s)
      BY <3>1, <1>3 DEF Range
    <3>3. \A c \in Range(s) : \E j \in (Len(visit) + 1)..Len(visit') : visit'[j] = c
      <4> SUFFICES ASSUME NEW i \in 1..Len(s)
                   PROVE  \E j \in (Len(visit) + 1)..Len(visit') : visit'[j] = s[i]
        BY <1>3 DEF Range
      <4>1. Len(visit) + i \in (Len(visit) + 1)..Len(visit')
        BY <1>2, <1>3, <1>4
      <4> QED
        BY <4>1, <1>4
    <3>4. Len(visit) \in 1..Len(visit') /\ visit'[Len(visit)] = m
      BY <1>2, <1>3, <1>4
    <3> QED
      BY <2>1, <1>1, <1>3, <3>2, <3>3, <3>4 DEF HasPlace, Above
  <2>2. CASE n # m
    <3>1. n \in DOMAIN node2index /\ IsPending(n)
      BY <2>2, <1>5 DEF IsPending, Seen
    <3>2. PICK i \in 1..Len(visit) :
            /\ visit[i] = n
            /\ \A j \in Above(i) : input.height[visit[j]] < input.height[n]
            /\ \A c \in Range(Successors(input, n)) :
                  IsNumbered(c) \/ \E j \in Above(i) : visit[j] = c
      BY <3>1 DEF WalkInv, PendingHavePlaces, HasPlace
    <3>3. i < Len(visit) /\ input.height[m] < input.height[n]
      BY <3>2, <2>2, <1>2 DEF Above
    <3>4. n \in DagNode /\ input.height[n] \in Nat
      BY <3>1, <1>1, InputFacts DEF WalkTypeOK
    <3>5. ASSUME NEW j \in (i + 1)..Len(visit')
          PROVE  input.height[visit'[j]] < input.height[n]
      <4>1. CASE j <= Len(visit)
        BY <4>1, <3>2, <1>2, <1>4 DEF Above
      <4>2. CASE j > Len(visit)
        <5>1. j - Len(visit) \in 1..Len(s) /\ visit'[j] = s[j - Len(visit)]
          BY <4>2, <1>2, <1>3, <1>4
        <5>2. visit'[j] \in Range(s)
          BY <5>1, <1>3 DEF Range
        <5>3. visit'[j] \in DagNode /\ input.height[visit'[j]] < input.height[m]
          BY <5>2, <1>3
        <5>4. input.height[visit'[j]] \in Nat
          BY <5>3, <1>1, InputFacts DEF WalkTypeOK
        <5> QED
          BY <5>3, <5>4, <3>3, <3>4, <1>3
      <4> QED
        BY <4>1, <4>2, <1>2, <1>3, <1>4
    <3>6. \A j \in Above(i) : j \in (i + 1)..Len(visit') /\ visit'[j] = visit[j]
      BY <1>2, <1>3, <1>4 DEF Above
    <3>7. i \in 1..Len(visit') /\ visit'[i] = n
      BY <3>2, <1>2, <1>3, <1>4
    <3>8. \A c \in Range(Successors(input, n)) :
             IsNumbered(c)' \/ \E j \in (i + 1)..Len(visit') : visit'[j] = c
      BY <3>2, <3>6, <1>6
    <3> QED
      BY <3>5, <3>7, <3>8, <1>1 DEF HasPlace, Above
  <2> QED
    BY <2>1, <2>2
<1>9. NumberedOnce'
  <2>1. ASSUME NEW i \in 1..Len(d_nodes)
        PROVE  d_nodes[i] \in DOMAIN node2index' /\ node2index'[d_nodes[i]] = i
    BY <1>1, <1>5 DEF NumberedOnce, Numbers, Seen
  <2>2. ASSUME NEW n \in DOMAIN node2index', IsNumbered(n)'
        PROVE  node2index'[n] \in 1..Len(d_nodes) /\ d_nodes[node2index'[n]] = n
    <3>1. IsNumbered(n) /\ n \in DOMAIN node2index
      BY <2>2, <1>6 DEF IsNumbered, Seen
    <3> QED
      BY <3>1, <1>1, <1>5 DEF NumberedOnce, Numbers
  <2> QED
    BY <2>1, <2>2, <1>1 DEF NumberedOnce, Numbers, Seen
<1> QED
  BY <1>7, <1>8, <1>9 DEF WalkInv

\* Popping a node that has its number takes nothing a pending node waits for.
LEMMA PopKeepsPlaces ==
    ASSUME WalkTypeOK, visit # << >>, input' = input, visit' = Popped,
           NEW top, top = Top, NEW n, HasPlace(n), n # top,
           \A c : IsNumbered(c) => IsNumbered(c)',
           IsNumbered(top)'
    PROVE  HasPlace(n)'
<1>1. /\ Len(visit) \in Nat \ {0}
      /\ top = visit[Len(visit)]
      /\ Len(visit') = Len(visit) - 1
      /\ \A i \in 1..Len(visit') : visit'[i] = visit[i]
  BY StackFacts
<1>2. PICK i \in 1..Len(visit) :
        /\ visit[i] = n
        /\ \A j \in Above(i) : input.height[visit[j]] < input.height[n]
        /\ \A c \in Range(Successors(input, n)) :
              IsNumbered(c) \/ \E j \in Above(i) : visit[j] = c
  BY DEF HasPlace
<1>3. i \in 1..Len(visit') /\ visit'[i] = n
  BY <1>1, <1>2
<1>4. \A j \in (i + 1)..Len(visit') : input.height[visit'[j]] < input.height[n]
  BY <1>1, <1>2 DEF Above
<1>5. ASSUME NEW c \in Range(Successors(input, n)), ~IsNumbered(c)'
      PROVE  \E j \in (i + 1)..Len(visit') : visit'[j] = c
  <2>1. PICK j \in Above(i) : visit[j] = c
    BY <1>2, <1>5
  <2>2. j # Len(visit)
    BY <2>1, <1>1, <1>5
  <2>3. j \in (i + 1)..Len(visit')
    <3>1. Len(visit') \in Nat /\ Len(visit) = Len(visit') + 1 /\ i \in Nat
      BY <1>1, <1>2
    <3> QED
      BY <2>1, <2>2, <3>1 DEF Above
  <2> QED
    BY <2>1, <2>3, <1>1, <1>2
<1> QED
  BY <1>3, <1>4, <1>5 DEF HasPlace, Above

\* Number: the top, and only it, gets the next free number.
LEMMA NumberKeepsWalk ==
    ASSUME WalkInv, Number
    PROVE  WalkInv'
<1>0. PICK m : m = Top
  OBVIOUS
<1> DEFINE k == Len(d_nodes) + 1
<1>1. /\ WalkTypeOK /\ NumberedOnce /\ visit # << >> /\ IsPending(m)
      /\ input' = input /\ visit' = Popped
      /\ d_nodes' = Append(d_nodes, m)
      /\ node2index' = [node2index EXCEPT ![m] = k]
  BY <1>0 DEF WalkInv, Number
<1>2. m \in DagNode /\ visit' \in Seq(DagNode)
  BY <1>0, <1>1, StackFacts
<1>3. /\ DOMAIN node2index' = DOMAIN node2index
      /\ m \in DOMAIN node2index /\ node2index[m] = 0
      /\ node2index'[m] = k /\ k \in Nat \ {0}
      /\ \A n \in DOMAIN node2index : n # m => node2index'[n] = node2index[n]
  BY <1>1 DEF IsPending, Seen, Pending, WalkTypeOK
<1>4. /\ d_nodes \in Seq(DagNode) /\ Len(d_nodes) \in Nat
      /\ d_nodes' \in Seq(DagNode) /\ Len(d_nodes') = k /\ d_nodes'[k] = m
      /\ \A i \in 1..Len(d_nodes) : d_nodes'[i] = d_nodes[i]
  BY <1>1, <1>2 DEF WalkTypeOK
<1>5. WalkTypeOK'
  BY <1>1, <1>2, <1>3, <1>4 DEF WalkTypeOK
<1>6. /\ \A c : IsNumbered(c) => IsNumbered(c)'
      /\ IsNumbered(m)'
  BY <1>3 DEF IsNumbered, Seen, Pending
<1>7. PendingHavePlaces'
  <2> SUFFICES ASSUME NEW n \in DOMAIN node2index', IsPending(n)'
               PROVE  HasPlace(n)'
    BY DEF PendingHavePlaces
  <2>1. n # m /\ n \in DOMAIN node2index /\ IsPending(n)
    BY <1>3 DEF IsPending, Seen, Pending
  <2>2. HasPlace(n)
    BY <2>1 DEF WalkInv, PendingHavePlaces
  <2> QED
    BY <2>1, <2>2, <1>0, <1>1, <1>6, PopKeepsPlaces
<1>8. NumberedOnce'
  <2>1. ASSUME NEW i \in 1..k
        PROVE  d_nodes'[i] \in DOMAIN node2index' /\ node2index'[d_nodes'[i]] = i
    <3>1. CASE i = k
      BY <3>1, <1>3, <1>4
    <3>2. CASE i # k
      <4>1. i \in 1..Len(d_nodes)
        BY <3>2, <1>4
      <4>2. d_nodes[i] \in DOMAIN node2index /\ node2index[d_nodes[i]] = i
        BY <4>1, <1>1 DEF NumberedOnce, Numbers, Seen
      <4> QED
        BY <4>1, <4>2, <1>3, <1>4
    <3> QED
      BY <3>1, <3>2
  <2>2. ASSUME NEW n \in DOMAIN node2index', IsNumbered(n)'
        PROVE  node2index'[n] \in 1..k /\ d_nodes'[node2index'[n]] = n
    <3>1. CASE n = m
      BY <3>1, <1>3, <1>4
    <3>2. CASE n # m
      <4>1. n \in DOMAIN node2index /\ IsNumbered(n) /\ node2index'[n] = node2index[n]
        BY <3>2, <2>2, <1>3 DEF IsNumbered, Seen, Pending
      <4>2. node2index[n] \in 1..Len(d_nodes) /\ d_nodes[node2index[n]] = n
        BY <4>1, <1>1 DEF NumberedOnce, Numbers
      <4> QED
        BY <4>1, <4>2, <1>4
    <3> QED
      BY <3>1, <3>2
  <2> QED
    BY <2>1, <2>2, <1>4 DEF NumberedOnce, Numbers, Seen
<1> QED
  BY <1>5, <1>7, <1>8 DEF WalkInv

\* Skip: a numbered node is popped.
LEMMA SkipKeepsWalk ==
    ASSUME WalkInv, Skip
    PROVE  WalkInv'
<1>0. PICK m : m = Top
  OBVIOUS
<1>1. /\ WalkTypeOK /\ NumberedOnce /\ visit # << >> /\ IsNumbered(m)
      /\ input' = input /\ visit' = Popped
      /\ node2index' = node2index /\ d_nodes' = d_nodes
  BY <1>0 DEF WalkInv, Skip
<1>2. WalkTypeOK'
  BY <1>1, StackFacts DEF WalkTypeOK
<1>3. \A c : IsNumbered(c)' <=> IsNumbered(c)
  BY <1>1 DEF IsNumbered, Seen
<1>4. PendingHavePlaces'
  <2> SUFFICES ASSUME NEW n \in DOMAIN node2index', IsPending(n)'
               PROVE  HasPlace(n)'
    BY DEF PendingHavePlaces
  <2>1. n # m /\ n \in DOMAIN node2index /\ IsPending(n)
    BY <1>1 DEF IsPending, IsNumbered, Seen
  <2>2. HasPlace(n)
    BY <2>1 DEF WalkInv, PendingHavePlaces
  <2> QED
    BY <2>1, <2>2, <1>0, <1>1, <1>3, PopKeepsPlaces
<1>5. NumberedOnce'
  BY <1>1 DEF NumberedOnce, Numbers, Seen, IsNumbered
<1> QED
  BY <1>2, <1>4, <1>5 DEF WalkInv

\* A step of the walk, or any other step that leaves its variables alone.
LEMMA WalkInductive ==
    ASSUME WalkInv, GraphNext \/ UNCHANGED walkVars
    PROVE  WalkInv'
<1>1. CASE Expand
  BY <1>1, ExpandKeepsWalk
<1>2. CASE Number
  BY <1>2, NumberKeepsWalk
<1>3. CASE Skip
  BY <1>3, SkipKeepsWalk
<1>4. CASE UNCHANGED walkVars
  BY <1>4 DEF walkVars, WalkInv, WalkTypeOK, PendingHavePlaces, HasPlace, Above,
              NumberedOnce, Numbers, IsPending, IsNumbered, Seen
<1> QED
  BY <1>1, <1>2, <1>3, <1>4 DEF GraphNext

(***************************************************************************)
(* The constructor's walk never reads the number of a node that has none   *)
(* (node2index.at in the constructor neither throws nor yields SIZE_MAX)   *)
(* and gives no node two numbers, for every assertion DAG.                 *)
(***************************************************************************)
THEOREM WalkCorrect == GraphSpec => [](OperandsNumberedFirst /\ NumberedOnce)
<1>1. GraphInit => WalkInv
  BY WalkInitially
<1>2. WalkInv /\ [GraphNext]_graphVars => WalkInv'
  BY WalkInductive DEF graphVars, walkVars
<1>3. WalkInv => OperandsNumberedFirst /\ NumberedOnce
  BY TopIsReady DEF WalkInv
<1> QED
  BY <1>1, <1>2, <1>3, PTL DEF GraphSpec

(***************************************************************************)
(* The kernel that goes on from the walk.                                  *)
(***************************************************************************)
\* Nothing of apply has happened while the constructor is at work.
NotStarted ==
    /\ d_processing = {}
    /\ d_symbols = {}
    /\ d_symbol_num = 0
    /\ d_unique_symbols = << >>
    /\ d_visited = {}
    /\ call = NoCall
    /\ d_hash_table = << >>
    /\ d_context_hash = << >>
    /\ pre_size = 0
    /\ error = "none"

(***************************************************************************)
(* What makes SymbolsPartitioned inductive: a settled symbol is not among  *)
(* the processed nodes any more, so that rebuild_graph cannot settle it    *)
(* again. That every symbol is settled when apply starts to rename follows *)
(* from the count it compares, because no symbol is settled twice.         *)
(***************************************************************************)
Partition ==
    /\ d_unique_symbols \in Seq(SymbolNumbers)
    /\ IsInjective(d_unique_symbols)
    /\ Range(d_unique_symbols) \intersect d_processing = {}
    /\ Range(d_unique_symbols) \union d_symbols = SymbolNumbers
    /\ d_symbols = d_processing \intersect SymbolNumbers

Started ==
    /\ Partition
    /\ d_symbol_num = Cardinality(SymbolNumbers)
    /\ pre_size \in {0, Len(d_nodes)}
    /\ phase \in {"rename", "done"} /\ options.sbp => Range(d_unique_symbols) = SymbolNumbers
    /\ phase = "error" => ~options.sbp
    /\ error # "hash_table_at"

KernelInv ==
    /\ WalkInv
    /\ KernelTypeOK
    /\ phase = "build" => NotStarted
    /\ phase # "build" => Started

\* The nodes have finitely many numbers, and so have the symbols.
LEMMA NumbersFinite ==
    ASSUME WalkTypeOK
    PROVE  /\ IsFiniteSet(Numbers)
           /\ IsFiniteSet(SymbolNumbers)
           /\ Cardinality(SymbolNumbers) \in Nat
           /\ SymbolNumbers \subseteq Numbers
<1>1. Len(d_nodes) \in Nat
  BY DEF WalkTypeOK
<1>2. IsFiniteSet(Numbers)
  BY <1>1, FS_Interval DEF Numbers
<1>3. SymbolNumbers \in SUBSET Numbers
  BY DEF SymbolNumbers
<1> QED
  BY <1>2, <1>3, FS_Subset, FS_CardinalityType

\* As many different symbols settled as there are symbols: all are settled.
LEMMA AllSettled ==
    ASSUME WalkTypeOK, Partition, Len(d_unique_symbols) = Cardinality(SymbolNumbers)
    PROVE  Range(d_unique_symbols) = SymbolNumbers
<1> DEFINE positions == 1..Len(d_unique_symbols)
<1>1. Len(d_unique_symbols) \in Nat /\ DOMAIN d_unique_symbols = positions
  BY DEF Partition
<1>2. d_unique_symbols \in Injection(positions, SymbolNumbers)
  BY <1>1 DEF Partition, Injection
<1>3. IsFiniteSet(positions) /\ Cardinality(positions) = Len(d_unique_symbols)
  <2>1. IsFiniteSet(1..Len(d_unique_symbols))
        /\ Cardinality(1..Len(d_unique_symbols)) =
              IF 1 > Len(d_unique_symbols) THEN 0 ELSE Len(d_unique_symbols) - 1 + 1
    BY <1>1, FS_Interval
  <2> QED
    BY <1>1, <2>1
<1>4. d_unique_symbols \in Surjection(positions, SymbolNumbers)
  <2> HIDE DEF positions
  <2> QED
    BY <1>2, <1>3, NumbersFinite, FS_Injection
<1> QED
  BY <1>1, <1>4 DEF Surjection, Range, Partition

\* The symbol that stands for an uninterpreted function is a symbol.
LEMMA FunctionsAreSymbols ==
    ASSUME WalkTypeOK
    PROVE  AppliedFunctions \subseteq SymbolNumbers
<1> SUFFICES ASSUME NEW i \in Numbers, NEW n \in DagNode, input.uf[n] = d_nodes[i]
             PROVE  d_nodes[i] \in input.symbol
  BY DEF AppliedFunctions, IsUFName, SymbolNumbers, IsSymbol
<1>1. d_nodes[i] \in DagNode
  BY DEF WalkTypeOK, Numbers
<1> QED
  BY <1>1, NoNodeAssumption, InputsAssumption DEF WalkTypeOK

\* A kernel that is being built satisfies the invariant.
LEMMA KernelInitially ==
    ASSUME Init
    PROVE  KernelInv
<1>1. GraphInit /\ WalkInv
  BY WalkInitially DEF Init, Fresh
<1>2. GraphTypeOK
  BY <1>1 DEF GraphInit, GraphTypeOK, WalkInv, Numbers
<1>3. NotStarted /\ phase = "build" /\ options \in Modes
  BY DEF Init, Fresh, NotStarted
<1>4. KernelTypeOK
  BY <1>2, <1>3 DEF KernelTypeOK, NotStarted, NoCall, Phases
<1> QED
  BY <1>1, <1>3, <1>4 DEF KernelInv

\* A step of the walk.
LEMMA BuildKeeps ==
    ASSUME KernelInv, Build
    PROVE  KernelInv'
<1>1. /\ phase = "build" /\ GraphNext /\ UNCHANGED kernelVars
      /\ WalkInv /\ KernelTypeOK /\ NotStarted
  BY DEF KernelInv, Build
<1>2. WalkInv'
  BY <1>1, WalkInductive
<1>3. GraphTypeOK'
  <2>1. CASE Expand \/ Skip
    BY <2>1, <1>1, <1>2 DEF Expand, Skip, GraphTypeOK, KernelTypeOK, WalkInv, Numbers
  <2>2. CASE Number
    <3>1. d_nodes \in Seq(DagNode) /\ Len(d_nodes) \in Nat /\ Len(d_nodes') = Len(d_nodes) + 1
      BY <2>2, <1>1 DEF Number, KernelTypeOK, GraphTypeOK, WalkTypeOK
    <3>2. DOMAIN d_graph = 1..Len(d_nodes) /\ DOMAIN d_reversed_graph = 1..Len(d_nodes)
      BY <1>1 DEF KernelTypeOK, GraphTypeOK, Numbers
    <3>3. Len(d_reversed_graph) = Len(d_nodes)
      BY <3>1, <3>2
    <3> DEFINE operands == [i \in 1..Len(Successors(input, Top)) |->
                              node2index[Successors(input, Top)[i]]]
               edges == [c \in 1..Len(d_reversed_graph) |->
                           d_reversed_graph[c] \o NewParentEdges(Top, Len(d_nodes) + 1, c)]
    <3>4. /\ d_graph' = Append(d_graph, operands)
          /\ d_reversed_graph' = Append(edges, << >>)
          /\ DOMAIN edges = 1..Len(d_reversed_graph)
      BY <2>2 DEF Number
    <3> HIDE DEF operands, edges
    <3>5. DOMAIN d_graph' = 1..Len(d_nodes')
      BY <3>1, <3>2, <3>4
    <3>6. DOMAIN d_reversed_graph' = 1..Len(d_nodes')
      BY <3>1, <3>3, <3>4
    <3> QED
      BY <3>5, <3>6, <1>2 DEF GraphTypeOK, WalkInv, Numbers
  <2> QED
    BY <2>1, <2>2, <1>1 DEF GraphNext
<1>4. NotStarted'
  BY <1>1 DEF NotStarted, kernelVars
<1>5. KernelTypeOK'
  BY <1>1, <1>3, <1>4 DEF KernelTypeOK, NotStarted, NoCall, kernelVars, Phases
<1> QED
  BY <1>1, <1>2, <1>4, <1>5 DEF KernelInv, kernelVars

\* Steps that leave the walk alone; what they must show is the rest.
LEMMA Assemble ==
    ASSUME KernelInv, UNCHANGED walkVars, phase' # "build",
           DOMAIN d_graph' = Numbers, DOMAIN d_reversed_graph' = Numbers,
           options' = options, phase' \in Phases,
           error' \in {"none", "hash_table_at", "function_names_at"},
           DOMAIN d_hash_table' = Numbers, DOMAIN d_context_hash' \in {{}, Numbers},
           d_processing' \subseteq Numbers, d_visited' \subseteq Numbers,
           call'.processing \subseteq Numbers, call'.symbols \subseteq Numbers,
           Started'
    PROVE  KernelInv'
<1>1. WalkInv' /\ Numbers' = Numbers
  BY WalkInductive DEF KernelInv, walkVars, Numbers
<1>2. WalkTypeOK'
  BY <1>1 DEF WalkInv
<1>3. /\ SymbolNumbers' \subseteq Numbers /\ Cardinality(SymbolNumbers') \in Nat
      /\ Len(d_nodes') \in Nat
  <2>1. SymbolNumbers' = SymbolNumbers /\ d_nodes' = d_nodes
    BY <1>1 DEF SymbolNumbers, IsSymbol, walkVars
  <2> QED
    BY <2>1, NumbersFinite DEF KernelInv, WalkInv, WalkTypeOK
<1>4. GraphTypeOK'
  BY <1>1, <1>2 DEF GraphTypeOK
<1>5. d_symbols' \subseteq Numbers /\ d_symbol_num' \in Nat /\ pre_size' \in Nat
  BY <1>3 DEF Started, Partition
<1>6. d_unique_symbols' \in Seq(Numbers)
  BY <1>3, SeqMonotonic DEF Started, Partition
<1>7. options' \in Modes
  BY DEF KernelInv, KernelTypeOK
<1>8. KernelTypeOK'
  BY <1>1, <1>4, <1>5, <1>6, <1>7 DEF KernelTypeOK
<1> QED
  BY <1>1, <1>8 DEF KernelInv

\* The constructor's end: every symbol is unsettled, every node processed.
LEMMA StartKeeps ==
    ASSUME KernelInv, StartApply
    PROVE  KernelInv'
<1>1. /\ NotStarted /\ KernelTypeOK /\ WalkInv /\ UNCHANGED graphVars
      /\ phase' = "context" /\ options' = options /\ error' = error /\ pre_size' = pre_size
      /\ d_processing' = Numbers /\ d_symbols' = SymbolNumbers
      /\ d_symbol_num' = Cardinality(SymbolNumbers)
      /\ d_unique_symbols' = d_unique_symbols /\ d_visited' = d_visited
      /\ call'.processing = Numbers /\ call'.symbols = SymbolNumbers
      /\ DOMAIN d_hash_table' = Numbers /\ d_context_hash' = d_context_hash
  BY DEF KernelInv, StartApply
<1>2. SymbolNumbers' = SymbolNumbers /\ d_nodes' = d_nodes /\ SymbolNumbers \subseteq Numbers
  BY <1>1, NumbersFinite DEF SymbolNumbers, IsSymbol, Numbers, graphVars, WalkInv
<1>3. Partition'
  BY <1>1, <1>2 DEF Partition, NotStarted, IsInjective, Range
<1>4. Started'
  BY <1>1, <1>2, <1>3 DEF Started, NotStarted
<1> QED
  BY <1>1, <1>2, <1>4, Assemble
     DEF graphVars, walkVars, NotStarted, KernelTypeOK, GraphTypeOK, Phases

\* What all the other actions start from, and what they mostly leave alone.
LEMMA StartedFacts ==
    ASSUME KernelInv, phase # "build"
    PROVE  /\ Started /\ Partition /\ WalkTypeOK
           /\ DOMAIN d_graph = Numbers /\ DOMAIN d_reversed_graph = Numbers
           /\ phase \in Phases
           /\ error \in {"none", "hash_table_at", "function_names_at"}
           /\ DOMAIN d_hash_table = Numbers /\ DOMAIN d_context_hash \in {{}, Numbers}
           /\ d_processing \subseteq Numbers /\ d_visited \subseteq Numbers
           /\ d_symbols \subseteq Numbers
           /\ call.processing \subseteq Numbers /\ call.symbols \subseteq Numbers
  BY DEF KernelInv, Started, WalkInv, KernelTypeOK, GraphTypeOK

\* What a step leaves alone stays partitioned.
LEMMA PartitionFrame ==
    ASSUME Partition,
           UNCHANGED <<input, d_nodes, d_unique_symbols, d_symbols, d_processing>>
    PROVE  Partition' /\ SymbolNumbers' = SymbolNumbers
<1>1. SymbolNumbers' = SymbolNumbers
  BY DEF SymbolNumbers, IsSymbol, Numbers
<1> QED
  BY <1>1 DEF Partition, IsInjective, Range

\* Steps of the refinement that settle nothing and end nothing.
LEMMA QuietStep ==
    ASSUME KernelInv, phase # "build", UNCHANGED <<graphVars, options, error>>,
           UNCHANGED <<d_processing, d_symbols, d_symbol_num, d_unique_symbols>>,
           phase' \in {"context", "loop", "specific", "region"},
           pre_size' \in {pre_size, Len(d_nodes)},
           DOMAIN d_hash_table' = Numbers, DOMAIN d_context_hash' \in {{}, Numbers},
           d_visited' \subseteq Numbers,
           call'.processing \subseteq Numbers, call'.symbols \subseteq Numbers
    PROVE  KernelInv'
<1>1. UNCHANGED <<input, visit, node2index, d_nodes, d_graph, d_reversed_graph>>
  BY DEF graphVars
<1>2. Partition' /\ SymbolNumbers' = SymbolNumbers
  BY <1>1, StartedFacts, PartitionFrame
<1>3. Started'
  BY <1>1, <1>2, StartedFacts DEF Started
<1> QED
  BY <1>1, <1>3, StartedFacts, Assemble DEF walkVars, Phases

\* One turn of context_propagate.
LEMMA PropagateKeeps ==
    ASSUME KernelInv, Propagate
    PROVE  KernelInv'
<1>1. phase # "build" /\ UNCHANGED <<graphVars, options, error>>
      /\ UNCHANGED <<d_processing, d_symbols, d_symbol_num, d_unique_symbols, d_visited>>
  BY DEF Propagate
<1>2. DOMAIN d_hash_table' = DOMAIN d_hash_table
  BY DEF Propagate, propagate, ContextSweeps, PlainStep
<1>3. pre_size' \in {pre_size, Len(d_nodes)}
  BY DEF Propagate, StaticTableSize
<1>4. /\ phase' \in {"context", "loop", "specific", "region"}
      /\ call'.processing \in {call.processing, {}}
      /\ call'.symbols \in {call.symbols, {}}
      /\ DOMAIN d_context_hash' \in {DOMAIN d_context_hash, DOMAIN d_hash_table'}
  <2> DEFINE count == DistinctHashes(d_hash_table', call.symbols)
  <2>1. CASE count # call.count
    <3>1. /\ call' = [call EXCEPT !.count = count]
          /\ phase' = phase /\ phase \in {"context", "region"}
          /\ d_context_hash' = d_context_hash
      BY <2>1 DEF Propagate
    <3> HIDE DEF count
    <3>2. call'.processing = call.processing /\ call'.symbols = call.symbols
      BY <3>1
    <3> QED
      BY <3>1, <3>2
  <2>2. CASE count = call.count
    BY <2>2 DEF Propagate, NoCall
  <2> QED
    BY <2>1, <2>2
<1> QED
  BY <1>1, <1>2, <1>3, <1>4, StartedFacts, QuietStep

\* The first kernel of a process has sized the static table for itself: the
\* checked access of propagate does not throw.
LEMMA PropagateThrowsNever ==
    ASSUME KernelInv, PropagateThrows
    PROVE  FALSE
<1>1. phase # "build" /\ StaticTableTooSmall
  BY DEF PropagateThrows
<1>2. StaticTableSize = Len(d_nodes)
  BY <1>1, StartedFacts DEF Started, StaticTableSize
<1>3. Len(d_nodes) \in Nat /\ call.processing \subseteq 1..Len(d_nodes)
  BY <1>1, StartedFacts DEF WalkTypeOK, Numbers
<1> QED
  BY <1>1, <1>2, <1>3 DEF StaticTableTooSmall

\* A region is made of nodes that the call has not met.
LEMMA RegionWithin ==
    ASSUME WalkTypeOK, NEW s \in Numbers \ d_visited
    PROVE  Component(s) \subseteq Numbers \ d_visited
<1> DEFINE unmet == Numbers \ d_visited
           to == [i \in Numbers |-> Neighbours(i) \intersect (Numbers \ d_visited)]
<1>1. Len(d_nodes) \in Nat
  BY DEF WalkTypeOK
<1>2. {s} \subseteq unmet /\ \A i \in unmet : to[i] \subseteq unmet
  OBVIOUS
<1>3. Component(s) = Reached({s}, to, Len(d_nodes))
  BY DEF Component
<1> HIDE DEF unmet, to
<1>4. Reached({s}, to, Len(d_nodes)) \subseteq unmet
  BY <1>1, <1>2, ReachedWithin
<1> QED
  BY <1>3, <1>4 DEF unmet

\* One region of specific_propagate.
LEMMA RegionKeeps ==
    ASSUME KernelInv, NEW s \in d_symbols, Region(s)
    PROVE  KernelInv'
<1> DEFINE processing == Component(s)
           symbols == {i \in processing : IsSymbol(i)}
           h == symbols_hash(symbols)
           table == WithRegion(processing, h)
           candidates == LowestTied(table, symbols)
<1>1. /\ phase = "specific" /\ UNCHANGED <<graphVars, options, pre_size, error>>
      /\ UNCHANGED <<d_processing, d_symbols, d_symbol_num, d_unique_symbols, d_context_hash>>
      /\ d_visited' = d_visited \union processing
  BY DEF Region
<1>2. processing \subseteq Numbers /\ symbols \subseteq processing
  <2>1. s \in Numbers \ d_visited /\ WalkTypeOK
    BY <1>1, StartedFacts DEF Region
  <2> QED
    BY <2>1, RegionWithin
<1>3. DOMAIN table = DOMAIN d_hash_table
  BY DEF WithRegion
<1>4. \/ d_hash_table' = table /\ phase' = phase /\ call' = call
      \/ \E idx \in candidates :
            /\ d_hash_table' = [table EXCEPT ![idx] = hash_combine(@, Perturbed)]
            /\ call' = [processing |-> processing, symbols |-> symbols, count |-> 0]
            /\ phase' = "region"
  BY DEF Region
<1> HIDE DEF processing, symbols, h, table, candidates
<1>5. /\ DOMAIN d_hash_table' = Numbers
      /\ phase' \in {"specific", "region"}
      /\ call'.processing \subseteq Numbers /\ call'.symbols \subseteq Numbers
  BY <1>1, <1>2, <1>3, <1>4, StartedFacts
<1> QED
  BY <1>1, <1>2, <1>5, StartedFacts, QuietStep

\* The end of specific_propagate, and an iteration without pruning.
LEMMA LoopKeeps ==
    ASSUME KernelInv, SpecificDone \/ RefineInPlace
    PROVE  KernelInv'
<1>1. /\ phase # "build" /\ phase' \in {"loop", "specific"}
      /\ UNCHANGED <<graphVars, options, pre_size, error, d_hash_table, d_context_hash>>
      /\ UNCHANGED <<d_processing, d_symbols, d_symbol_num, d_unique_symbols, call>>
      /\ d_visited' \subseteq d_visited
  BY DEF SpecificDone, RefineInPlace
<1> QED
  BY <1>1, StartedFacts, QuietStep

\* What rebuild_graph settles is new, each symbol is settled once, and what it
\* keeps is what is left.
LEMMA RebuildPartitions ==
    ASSUME WalkTypeOK, Partition, d_processing \subseteq Numbers,
           rebuild_graph, UNCHANGED <<input, d_nodes>>
    PROVE  /\ Partition' /\ SymbolNumbers' = SymbolNumbers
           /\ d_processing' \subseteq d_processing
           /\ d_visited' \subseteq d_visited
           /\ \/ d_unique_symbols' = d_unique_symbols
              \/ Len(d_unique_symbols') > Len(d_unique_symbols)
           /\ \A k \in DOMAIN d_unique_symbols : d_unique_symbols'[k] = d_unique_symbols[k]
<1> DEFINE keep == Kept
           fresh == {i \in d_processing \ keep : IsSymbol(i)}
<1>1. /\ Partition /\ WalkTypeOK /\ d_processing \subseteq Numbers
      /\ SymbolNumbers' = SymbolNumbers
  BY DEF SymbolNumbers, IsSymbol, Numbers
<1>2. keep \subseteq d_processing
  BY DEF Kept, Ambiguous
<1>3. /\ d_processing' = keep
      /\ d_symbols' = {i \in keep : IsSymbol(i)}
      /\ d_visited' = d_visited \ d_processing
  BY DEF rebuild_graph
<1>4. PICK q \in Sorted(fresh) : d_unique_symbols' = d_unique_symbols \o q
  BY DEF rebuild_graph
<1>5. /\ d_symbols' = keep \intersect SymbolNumbers
      /\ fresh = (d_processing \intersect SymbolNumbers) \ keep
  BY <1>1, <1>2, <1>3 DEF SymbolNumbers
<1> HIDE DEF keep, fresh
<1>6. Cardinality(fresh) \in Nat
  <2>1. fresh \in SUBSET SymbolNumbers /\ IsFiniteSet(SymbolNumbers)
    BY <1>1, <1>5, NumbersFinite
  <2> QED
    BY <2>1, FS_Subset, FS_CardinalityType
<1>7. /\ q \in [1..Cardinality(fresh) -> fresh]
      /\ IsInjective(q) /\ Range(q) = fresh
  BY DEF Sorted
<1>8. /\ q \in Seq(SymbolNumbers) /\ Len(q) \in Nat
      /\ DOMAIN q = 1..Len(q)
      /\ \A k \in 1..Len(q) : q[k] \in fresh
  <2>1. q \in [1..Cardinality(fresh) -> SymbolNumbers]
    BY <1>5, <1>7
  <2>2. q \in Seq(SymbolNumbers) /\ Len(q) = Cardinality(fresh)
    BY <2>1, <1>6
  <2> QED
    BY <2>2, <1>6, <1>7
<1> DEFINE old == d_unique_symbols
           new == d_unique_symbols'
<1>9. /\ old \in Seq(SymbolNumbers) /\ Len(old) \in Nat
      /\ DOMAIN old = 1..Len(old) /\ new = old \o q
  BY <1>1, <1>4 DEF Partition
<1> HIDE DEF old, new
<1>10. /\ new \in Seq(SymbolNumbers) /\ Len(new) = Len(old) + Len(q)
       /\ DOMAIN new = 1..(Len(old) + Len(q))
       /\ \A k \in 1..Len(old) : new[k] = old[k]
       /\ \A k \in 1..Len(q) : new[Len(old) + k] = q[k]
       /\ \A k \in 1..(Len(old) + Len(q)) :
             k > Len(old) => k - Len(old) \in 1..Len(q) /\ new[k] = q[k - Len(old)]
  BY <1>8, <1>9
<1>11. Range(new) = Range(old) \union fresh
  <2>1. ASSUME NEW x \in Range(new)
        PROVE  x \in Range(old) \union fresh
    <3>1. PICK k \in 1..(Len(old) + Len(q)) : new[k] = x
      BY <1>10 DEF Range
    <3> QED
      BY <3>1, <1>8, <1>9, <1>10 DEF Range
  <2>2. ASSUME NEW x \in Range(old)
        PROVE  x \in Range(new)
    <3>1. PICK k \in 1..Len(old) : old[k] = x
      BY <1>9 DEF Range
    <3>2. k \in DOMAIN new /\ new[k] = x
      BY <3>1, <1>8, <1>9, <1>10
    <3> QED
      BY <3>2 DEF Range
  <2>3. ASSUME NEW x \in fresh
        PROVE  x \in Range(new)
    <3>1. PICK k \in 1..Len(q) : q[k] = x
      BY <1>7, <1>8 DEF Range
    <3>2. Len(old) + k \in DOMAIN new /\ new[Len(old) + k] = x
      BY <3>1, <1>8, <1>9, <1>10
    <3> QED
      BY <3>2 DEF Range
  <2> QED
    BY <2>1, <2>2, <2>3
<1>12. Range(old) \intersect fresh = {}
  BY <1>1, <1>5 DEF Partition, old
<1>13. IsInjective(new)
  <2>1. SUFFICES ASSUME NEW j \in 1..(Len(old) + Len(q)), NEW k \in 1..(Len(old) + Len(q)),
                        new[j] = new[k]
                 PROVE  j = k
    BY <1>10 DEF IsInjective
  <2>2. IsInjective(old)
    BY <1>1 DEF Partition, old
  <2>3. CASE j <= Len(old) /\ k <= Len(old)
    <3>1. j \in DOMAIN old /\ k \in DOMAIN old
      BY <2>3, <1>8, <1>9
    <3>2. old[j] = old[k]
      BY <2>1, <3>1, <1>9, <1>10
    <3> QED
      BY <2>2, <3>1, <3>2 DEF IsInjective
  <2>4. CASE j > Len(old) /\ k > Len(old)
    <3>1. q[j - Len(old)] = q[k - Len(old)]
      BY <2>1, <2>4, <1>10
    <3>2. j - Len(old) = k - Len(old)
      BY <3>1, <2>4, <1>7, <1>8, <1>10 DEF IsInjective
    <3> QED
      BY <3>2, <1>9
  <2>5. CASE j <= Len(old) /\ k > Len(old)
    <3>1. j \in DOMAIN old /\ k - Len(old) \in 1..Len(q)
      BY <2>5, <1>8, <1>9, <1>10
    <3>2. old[j] = q[k - Len(old)]
      BY <2>1, <2>5, <3>1, <1>9, <1>10
    <3>3. old[j] \in Range(old) /\ old[j] \in fresh
      BY <3>1, <3>2, <1>8 DEF Range
    <3> QED
      BY <3>3, <1>12
  <2>6. CASE j > Len(old) /\ k <= Len(old)
    <3>1. k \in DOMAIN old /\ j - Len(old) \in 1..Len(q)
      BY <2>6, <1>8, <1>9, <1>10
    <3>2. old[k] = q[j - Len(old)]
      BY <2>1, <2>6, <3>1, <1>9, <1>10
    <3>3. old[k] \in Range(old) /\ old[k] \in fresh
      BY <3>1, <3>2, <1>8 DEF Range
    <3> QED
      BY <3>3, <1>12
  <2> QED
    BY <2>3, <2>4, <2>5, <2>6, <1>8, <1>9
<1>14. Partition'
  BY <1>1, <1>2, <1>3, <1>5, <1>10, <1>11, <1>12, <1>13 DEF Partition, old, new
<1>15. \/ new = old
       \/ Len(new) > Len(old)
  <2>1. CASE Len(q) = 0
    BY <2>1, <1>8, <1>9, ConcatEmptySeq, EmptySeq
  <2>2. CASE Len(q) > 0
    <3>1. Len(new) = Len(old) + Len(q) /\ Len(old) \in Nat /\ Len(q) \in Nat
      BY <1>8, <1>9, <1>10
    <3> QED
      BY <3>1, <2>2
  <2> QED
    BY <2>1, <2>2, <1>8
<1> QED
  BY <1>1, <1>2, <1>3, <1>9, <1>10, <1>14, <1>15 DEF old, new

\* An iteration with pruning.
LEMMA PruneKeeps ==
    ASSUME KernelInv, RefineWithPruning
    PROVE  KernelInv'
<1>1. /\ phase = "loop" /\ phase' = "specific" /\ rebuild_graph
      /\ UNCHANGED <<input, visit, node2index, d_nodes, options, pre_size, error>>
      /\ UNCHANGED <<d_hash_table, d_context_hash, d_symbol_num, call>>
  BY DEF RefineWithPruning
<1>2. Partition' /\ SymbolNumbers' = SymbolNumbers
      /\ d_processing' \subseteq d_processing /\ d_visited' \subseteq d_visited
  BY <1>1, StartedFacts, RebuildPartitions
<1>3. DOMAIN d_graph' = DOMAIN d_graph /\ DOMAIN d_reversed_graph' = DOMAIN d_reversed_graph
  BY <1>1 DEF rebuild_graph, PrunedGraph, PrunedReversedGraph
<1>4. Started'
  BY <1>1, <1>2, StartedFacts DEF Started
<1> QED
  BY <1>1, <1>2, <1>3, <1>4, StartedFacts, Assemble DEF walkVars, Phases

\* The last three steps of apply. With pruning the count says that every symbol
\* is settled, and so is every function name.
LEMMA EndKeeps ==
    ASSUME KernelInv, RefineDone \/ Rename \/ RenameThrows
    PROVE  KernelInv'
<1>1. /\ phase \in {"loop", "rename"} /\ phase' \in {"rename", "done", "error"}
      /\ UNCHANGED <<graphVars, options, pre_size, d_hash_table, d_context_hash>>
      /\ UNCHANGED <<d_processing, d_symbols, d_symbol_num, d_unique_symbols, d_visited, call>>
      /\ error' \in {error, "function_names_at"}
  BY DEF RefineDone, Rename, RenameThrows, refineVars
<1>2. UNCHANGED <<input, visit, node2index, d_nodes, d_graph, d_reversed_graph>>
  BY <1>1 DEF graphVars
<1>3. Partition' /\ SymbolNumbers' = SymbolNumbers
  BY <1>1, <1>2, StartedFacts, PartitionFrame
<1>4. phase' \in {"rename", "done"} /\ options.sbp => Range(d_unique_symbols) = SymbolNumbers
  <2>1. CASE RefineDone
    <3>1. ASSUME options.sbp
          PROVE  Len(d_unique_symbols) = Cardinality(SymbolNumbers)
      BY <2>1, <3>1, <1>1, StartedFacts DEF RefineDone, Refined, Started
    <3> QED
      BY <3>1, <1>1, StartedFacts, AllSettled
  <2>2. CASE Rename
    BY <2>2, <1>1, StartedFacts DEF Rename, Started
  <2>3. CASE RenameThrows
    BY <2>3 DEF RenameThrows
  <2> QED
    BY <2>1, <2>2, <2>3
<1>5. phase' = "error" => ~options.sbp
  <2>1. CASE RenameThrows
    <3>1. phase = "rename" /\ ~(AppliedFunctions \subseteq Range(d_unique_symbols))
      BY <2>1 DEF RenameThrows, Named
    <3> QED
      BY <3>1, StartedFacts, FunctionsAreSymbols DEF Started
  <2> QED
    BY <2>1 DEF RefineDone, Rename
<1>6. Range(d_unique_symbols') = Range(d_unique_symbols)
  BY <1>1 DEF Range
<1>7. Started'
  BY <1>1, <1>2, <1>3, <1>4, <1>5, <1>6, StartedFacts DEF Started
<1> QED
  BY <1>1, <1>2, <1>7, StartedFacts, Assemble DEF walkVars, Phases

\* Nothing happens: the invariant stays.
LEMMA KernelStutters ==
    ASSUME KernelInv, UNCHANGED vars
    PROVE  KernelInv'
<1>1. /\ UNCHANGED <<input, visit, node2index, d_nodes, d_graph, d_reversed_graph>>
      /\ UNCHANGED <<options, pre_size, phase, error, d_hash_table, d_context_hash>>
      /\ UNCHANGED <<d_processing, d_symbols, d_symbol_num, d_unique_symbols, d_visited, call>>
  BY DEF vars, graphVars, kernelVars
<1>2. CASE phase = "build"
  <2>1. WalkInv' /\ Numbers' = Numbers
    BY <1>1, WalkInductive DEF KernelInv, walkVars, Numbers
  <2> QED
    BY <2>1, <1>1, <1>2
       DEF KernelInv, KernelTypeOK, GraphTypeOK, WalkInv, NotStarted
<1>3. CASE phase # "build"
  <2>1. Partition' /\ SymbolNumbers' = SymbolNumbers
    BY <1>1, <1>3, StartedFacts, PartitionFrame
  <2>2. Range(d_unique_symbols') = Range(d_unique_symbols)
    BY <1>1 DEF Range
  <2>3. Started'
    BY <2>1, <2>2, <1>1, <1>3, StartedFacts DEF Started
  <2> QED
    BY <2>3, <1>1, <1>3, StartedFacts, Assemble DEF walkVars
<1> QED
  BY <1>2, <1>3

\* Every step of a first kernel keeps the invariant.
LEMMA KernelInductive ==
    ASSUME KernelInv, [Next]_vars
    PROVE  KernelInv'
<1>1. CASE Build
  BY <1>1, BuildKeeps
<1>2. CASE StartApply
  BY <1>2, StartKeeps
<1>3. CASE Propagate
  BY <1>3, PropagateKeeps
<1>4. CASE PropagateThrows
  BY <1>4, PropagateThrowsNever
<1>5. CASE \E s \in d_symbols : Region(s)
  BY <1>5, RegionKeeps
<1>6. CASE SpecificDone \/ RefineInPlace
  BY <1>6, LoopKeeps
<1>7. CASE RefineWithPruning
  BY <1>7, PruneKeeps
<1>8. CASE RefineDone \/ Rename \/ RenameThrows
  BY <1>8, EndKeeps
<1>9. CASE UNCHANGED vars
  BY <1>9, KernelStutters
<1> QED
  BY <1>1, <1>2, <1>3, <1>4, <1>5, <1>6, <1>7, <1>8, <1>9 DEF Next, Step, Stopped

\* So it holds of a first kernel at any time.
LEMMA KernelInvariant == Spec => []KernelInv
<1>1. Init => KernelInv
  BY KernelInitially
<1>2. KernelInv /\ [Next]_vars => KernelInv'
  BY KernelInductive
<1> QED
  BY <1>1, <1>2, PTL DEF Spec

-----------------------------------------------------------------------------
(***************************************************************************)
(* The vectors of the kernel (d_graph, d_reversed_graph and the two hash   *)
(* tables) keep one entry for each node the constructor numbered throughout*)
(* apply, and d_processing, d_symbols, d_visited and a call's arguments    *)
(* hold such numbers only.                                                 *)
(***************************************************************************)
THEOREM KernelTypeCorrect == Spec => []KernelTypeOK
<1>1. KernelInv => KernelTypeOK
  BY DEF KernelInv
<1> QED
  BY <1>1, KernelInvariant, PTL

\* The constructor's walk, as a part of the kernel (kernel.cpp:49-103).
THEOREM NumberingCorrect == Spec => [](OperandsNumberedFirst /\ NumberedOnce)
<1>1. KernelInv => OperandsNumberedFirst /\ NumberedOnce
  <2>1. WalkInv => OperandsNumberedFirst /\ NumberedOnce
    BY TopIsReady DEF WalkInv
  <2> QED
    BY <2>1 DEF KernelInv
<1> QED
  BY <1>1, KernelInvariant, PTL

(***************************************************************************)
(* Whatever the input, the hashes and the order in which regions are       *)
(* perturbed, rebuild_graph neither loses a symbol nor settles one twice.  *)
(***************************************************************************)
THEOREM SymbolsStayPartitioned == Spec => []SymbolsPartitioned
<1>1. KernelInv => SymbolsPartitioned
  BY DEF KernelInv, Started, Partition, SymbolsPartitioned, Refining
<1> QED
  BY <1>1, KernelInvariant, PTL

(***************************************************************************)
(* Two errors a first kernel of a process cannot run into: the static table*)
(* of propagate is always large enough for it, and with pruning every      *)
(* applied function has its canonical name when applications are renamed.  *)
(***************************************************************************)
THEOREM FirstKernelErrors ==
    Spec => [](error # "hash_table_at" /\ (phase = "error" => ~options.sbp))
<1>1. KernelInv => error # "hash_table_at" /\ (phase = "error" => ~options.sbp)
  BY DEF KernelInv, Started, NotStarted
<1> QED
  BY <1>1, KernelInvariant, PTL

(***************************************************************************)
(* With pruning, every kernel implements SymbolNaming: settled symbols keep*)
(* their positions, and names are given when all symbols are settled.      *)
(***************************************************************************)
LEMMA StartIsCollect ==
    ASSUME KernelInv, StartApply
    PROVE  Naming!Collect
<1>1. /\ phase = "build" /\ phase' = "context"
      /\ UNCHANGED <<graphVars, d_unique_symbols>>
      /\ WalkTypeOK
  BY DEF StartApply, KernelInv, WalkInv
<1>2. SymbolNumbers' = SymbolNumbers
  BY <1>1 DEF SymbolNumbers, IsSymbol, Numbers, graphVars
<1>3. SymbolNumbers \in SUBSET Nat
  BY <1>1, NumbersFinite DEF Numbers
<1> QED
  BY <1>1, <1>2, <1>3 DEF Naming!Collect

\* rebuild_graph settles a batch, or nothing.
LEMMA PruneIsSettle ==
    ASSUME KernelInv, RefineWithPruning
    PROVE  Naming!Settle \/ UNCHANGED Naming!namingVars
<1>1. /\ phase = "loop" /\ phase' = "specific" /\ rebuild_graph
      /\ UNCHANGED <<input, d_nodes>>
  BY DEF RefineWithPruning
<1>2. /\ Partition' /\ SymbolNumbers' = SymbolNumbers
      /\ \/ d_unique_symbols' = d_unique_symbols
         \/ Len(d_unique_symbols') > Len(d_unique_symbols)
      /\ \A k \in DOMAIN d_unique_symbols : d_unique_symbols'[k] = d_unique_symbols[k]
  BY <1>1, StartedFacts, RebuildPartitions
<1>3. CASE d_unique_symbols' = d_unique_symbols
  BY <1>1, <1>2, <1>3 DEF Naming!namingVars
<1>4. CASE Len(d_unique_symbols') > Len(d_unique_symbols)
  <2>1. Naming!IsInjective(d_unique_symbols')
    BY <1>2 DEF Partition, IsInjective, Naming!IsInjective
  <2>2. Naming!Range(d_unique_symbols') \subseteq SymbolNumbers
    BY <1>2 DEF Partition, Range, Naming!Range
  <2> QED
    BY <1>1, <1>2, <1>4, <2>1, <2>2 DEF Naming!Settle
<1> QED
  BY <1>2, <1>3, <1>4

\* Nothing else touches the stage, the symbols or what is settled.
LEMMA OthersStutter ==
    ASSUME KernelInv, UNCHANGED <<input, d_nodes, d_unique_symbols>>,
           phase \notin {"build", "done", "error"},
           phase' \notin {"build", "done", "error"}
    PROVE  UNCHANGED Naming!namingVars
<1>1. SymbolNumbers' = SymbolNumbers
  BY DEF SymbolNumbers, IsSymbol, Numbers
<1> QED
  BY <1>1 DEF Naming!namingVars

\* Renaming is Name of the abstract specification.
LEMMA RenameIsName ==
    ASSUME KernelInv, Rename, options.sbp
    PROVE  Naming!Name
<1>1. /\ phase = "rename" /\ phase' = "done"
      /\ UNCHANGED <<input, d_nodes, d_unique_symbols>>
  BY DEF Rename, graphVars, refineVars
<1>2. SymbolNumbers' = SymbolNumbers
  BY <1>1 DEF SymbolNumbers, IsSymbol, Numbers
<1>3. Range(d_unique_symbols) = SymbolNumbers
  BY <1>1, StartedFacts DEF Started
<1> QED
  BY <1>1, <1>2, <1>3 DEF Naming!Name, Naming!Range, Range

\* With pruning the kernel implements SymbolNaming: it collects the symbols, settles
\* them and names them once all are settled.
THEOREM KernelImplementsNaming ==
    ASSUME \A o \in Modes : o.sbp
    PROVE  Spec => ImplementsNaming
<1>1. Init => Naming!NamingInit
  BY DEF Init, Fresh, Naming!NamingInit
<1>2. KernelInv /\ KernelInv' /\ [Next]_vars => [Naming!NamingNext]_(Naming!namingVars)
  <2> SUFFICES ASSUME KernelInv, KernelInv', [Next]_vars
               PROVE  Naming!NamingNext \/ UNCHANGED Naming!namingVars
    OBVIOUS
  <2>0. options.sbp
    BY DEF KernelInv, KernelTypeOK
  <2>1. CASE Build
    BY <2>1 DEF Build, kernelVars, Naming!namingVars
  <2>2. CASE StartApply
    BY <2>2, StartIsCollect DEF Naming!NamingNext
  <2>3. CASE Propagate
    <3>1. phase' \in {phase, "loop", "specific"} /\ phase \in {"context", "region"}
      BY <2>3 DEF Propagate
    <3> QED
      BY <3>1, <2>3, OthersStutter DEF Propagate, graphVars
  <2>4. CASE PropagateThrows
    BY <2>4, PropagateThrowsNever
  <2>5. CASE \E s \in d_symbols : Region(s)
    <3>1. phase' \in {phase, "region"} /\ phase = "specific"
      BY <2>5 DEF Region
    <3> QED
      BY <3>1, <2>5, OthersStutter DEF Region, graphVars
  <2>6. CASE SpecificDone \/ RefineInPlace \/ RefineDone
    BY <2>6, OthersStutter DEF SpecificDone, RefineInPlace, RefineDone, graphVars
  <2>7. CASE RefineWithPruning
    BY <2>7, PruneIsSettle DEF Naming!NamingNext
  <2>8. CASE Rename
    BY <2>0, <2>8, RenameIsName DEF Naming!NamingNext
  <2>9. CASE RenameThrows
    <3>1. phase = "rename" /\ ~(AppliedFunctions \subseteq Range(d_unique_symbols))
      BY <2>9 DEF RenameThrows, Named
    <3> QED
      BY <2>0, <3>1, StartedFacts, FunctionsAreSymbols DEF Started
  <2>10. CASE UNCHANGED vars
    <3>1. UNCHANGED <<phase, input, d_nodes, d_unique_symbols>>
      BY <2>10 DEF vars, graphVars, kernelVars
    <3>2. SymbolNumbers' = SymbolNumbers
      BY <3>1 DEF SymbolNumbers, IsSymbol, Numbers
    <3> QED
      BY <3>1, <3>2 DEF Naming!namingVars
  <2> QED
    BY <2>1, <2>2, <2>3, <2>4, <2>5, <2>6, <2>7, <2>8, <2>9, <2>10 DEF Next, Step, Stopped
<1> QED
  BY <1>1, <1>2, KernelInvariant, PTL DEF Spec, ImplementsNaming, Naming!NamingSpec

(***************************************************************************)
(* The two directions of the graph, d_graph and d_reversed_graph: the      *)
(* constructor fills them alike, and rebuild_graph prunes them alike.      *)
(***************************************************************************)
(***************************************************************************)
(* Facts about filtered sequences: what Only keeps counts as often.        *)
(***************************************************************************)
\* One more element counts once if it is looked for.
LEMMA TimesOfAppend ==
    ASSUME NEW T, NEW q \in Seq(T), NEW x \in T, NEW U
    PROVE  /\ Times(q, U) \in Nat
           /\ Times(Append(q, x), U) = IF x \in U THEN Times(q, U) + 1 ELSE Times(q, U)
<1> DEFINE at == {k \in DOMAIN q : q[k] \in U}
           longer == {k \in DOMAIN Append(q, x) : Append(q, x)[k] \in U}
<1>1. Len(q) \in Nat /\ DOMAIN q = 1..Len(q)
  OBVIOUS
<1>2. IsFiniteSet(at) /\ Cardinality(at) \in Nat
  <2>1. IsFiniteSet(1..Len(q)) /\ at \in SUBSET (1..Len(q))
    BY <1>1, FS_Interval
  <2> QED  BY <2>1, FS_Subset, FS_CardinalityType
<1>3. /\ DOMAIN Append(q, x) = 1..(Len(q) + 1)
      /\ Append(q, x)[Len(q) + 1] = x
      /\ \A k \in 1..Len(q) : Append(q, x)[k] = q[k]
  BY <1>1
<1>4. Len(q) + 1 \notin at
  BY <1>1
<1>5. CASE x \in U
  <2>1. longer = at \union {Len(q) + 1}
    BY <1>1, <1>3, <1>5
  <2>2. Cardinality(at \union {Len(q) + 1}) = Cardinality(at) + 1
    <3> HIDE DEF at
    <3> QED  BY <1>2, <1>4, FS_AddElement
  <2> QED  BY <1>2, <1>5, <2>1, <2>2 DEF Times
<1>6. CASE x \notin U
  <2>1. longer = at
    BY <1>1, <1>3, <1>6
  <2> QED  BY <1>2, <1>6, <2>1 DEF Times
<1> QED  BY <1>5, <1>6

\* What Only keeps is of both sets, and it keeps it as often as it was there.
KeptRight(T, s, S, U) ==
    /\ Only(s, S) \in Seq(T \intersect S)
    /\ Times(Only(s, S), U) = Times(s, S \intersect U)

\* The elements that are kept are counted right at every turn of the filter.
LEMMA OnlyKeepsRight ==
    ASSUME NEW T, NEW s \in Seq(T), NEW S, NEW U
    PROVE  KeptRight(T, s, S, U)
<1>1. Len(s) \in Nat /\ DOMAIN s = 1..Len(s) /\ \A n \in 1..Len(s) : s[n] \in T
  OBVIOUS
<1>2. PICK kept :
        /\ kept[0] = << >>
        /\ \A n \in 1..Len(s) :
              kept[n] = IF s[n] \in S THEN Append(kept[n - 1], s[n]) ELSE kept[n - 1]
        /\ Only(s, S) = kept[Len(s)]
  BY OnlyByPrefix
<1> DEFINE both == T \intersect S
           first(n) == {k \in 1..n : s[k] \in S \intersect U}
           Right(n) == kept[n] \in Seq(both) /\ Times(kept[n], U) = Cardinality(first(n))
           Wrong == {n \in 0..Len(s) : ~Right(n)}
<1>3. Wrong = {}
  <2> SUFFICES ASSUME Wrong # {}  PROVE FALSE
    OBVIOUS
  <2>1. Wrong \in SUBSET Nat
    BY <1>1
  <2>2. PICK n \in Wrong : \A m \in Wrong : n <= m
    <3> HIDE DEF Wrong
    <3> QED  BY <2>1, SetHasFirst
  <2>3. n \in 0..Len(s) /\ ~Right(n)
    BY <2>2
  <2>4. CASE n = 0
    <3>1. first(0) = {} /\ {k \in DOMAIN << >> : << >>[k] \in U} = {}
      OBVIOUS
    <3>2. kept[0] \in Seq(both) /\ Times(kept[0], U) = Cardinality({})
      BY <1>2, <3>1 DEF Times
    <3>3. Right(0)
      BY <3>1, <3>2
    <3> QED  BY <2>3, <2>4, <3>3
  <2>5. CASE n # 0
    <3>1. n - 1 \in 0..Len(s) /\ Right(n - 1) /\ n \in 1..Len(s)
      <4>1. n \in Nat /\ n - 1 \in 0..Len(s) /\ n \in 1..Len(s) /\ ~(n <= n - 1)
        BY <1>1, <2>3, <2>5
      <4>2. n - 1 \notin Wrong
        <5> HIDE DEF Wrong
        <5> QED  BY <2>2, <4>1
      <4> QED  BY <4>1, <4>2
    <3>2. kept[n - 1] \in Seq(both) /\ Times(kept[n - 1], U) = Cardinality(first(n - 1))
      BY <3>1
    <3>3. IsFiniteSet(first(n - 1)) /\ n \notin first(n - 1)
      <4>1. IsFiniteSet(1..(n - 1)) /\ first(n - 1) \in SUBSET (1..(n - 1))
        BY <1>1, <3>1, FS_Interval
      <4> QED  BY <4>1, FS_Subset, <3>1, <1>1
    <3>4. CASE s[n] \in S
      <4>1. s[n] \in both /\ kept[n] = Append(kept[n - 1], s[n])
        BY <1>1, <1>2, <3>1, <3>4
      <4>2. kept[n] \in Seq(both)
        BY <3>2, <4>1
      <4>3. Times(kept[n], U) = IF s[n] \in U THEN Times(kept[n - 1], U) + 1
                                ELSE Times(kept[n - 1], U)
        <5>1. kept[n - 1] \in Seq(both) /\ s[n] \in both /\ kept[n] = Append(kept[n - 1], s[n])
          BY <3>2, <4>1
        <5> HIDE DEF both, Right, Wrong, first
        <5>2. PICK q \in Seq(both), x \in both : q = kept[n - 1] /\ x = s[n]
          BY <5>1
        <5>3. q \in Seq(both) /\ x \in both
          BY <5>2
        <5>4. Times(Append(q, x), U) = IF x \in U THEN Times(q, U) + 1 ELSE Times(q, U)
          BY ONLY <5>3, TimesOfAppend, Zenon
        <5> QED  BY <5>1, <5>2, <5>4
      <4>4. CASE s[n] \in U
        <5>1. first(n) = first(n - 1) \union {n}
          BY <3>1, <3>4, <4>4, <1>1
        <5>2. Cardinality(first(n - 1) \union {n}) = Cardinality(first(n - 1)) + 1
          <6> HIDE DEF first
          <6> QED  BY <3>3, FS_AddElement
        <5>3. Times(kept[n], U) = Cardinality(first(n))
          BY <3>2, <4>3, <4>4, <5>1, <5>2
        <5> QED  BY <2>3, <4>2, <5>3
      <4>5. CASE s[n] \notin U
        <5>1. first(n) = first(n - 1)
          BY <3>1, <3>4, <4>5, <1>1
        <5>2. Times(kept[n], U) = Cardinality(first(n))
          BY <3>2, <4>3, <4>5, <5>1
        <5> QED  BY <2>3, <4>2, <5>2
      <4> QED  BY <4>4, <4>5
    <3>5. CASE s[n] \notin S
      <4>1. kept[n] = kept[n - 1]
        BY <1>2, <3>1, <3>5
      <4>2. first(n) = first(n - 1)
        BY <3>1, <3>5, <1>1
      <4> QED  BY <2>3, <3>2, <4>1, <4>2
    <3> QED  BY <3>4, <3>5
  <2> QED  BY <2>4, <2>5
<1>4. Right(Len(s))
  <2>1. Len(s) \in 0..Len(s)
    BY <1>1
  <2>2. Len(s) \notin Wrong
    <3> HIDE DEF Wrong
    <3> QED  BY <1>3
  <2> HIDE DEF Right
  <2> QED  BY <2>1, <2>2
<1>5. first(Len(s)) = {k \in DOMAIN s : s[k] \in S \intersect U}
  BY <1>1
<1> QED  BY <1>2, <1>4, <1>5 DEF Times, KeptRight

\* The filter returns elements of the sequence that are in the set.
LEMMA OnlyTyped ==
    ASSUME NEW T, NEW s \in Seq(T), NEW S
    PROVE  Only(s, S) \in Seq(T \intersect S)
<1>1. KeptRight(T, s, S, S)
  BY OnlyKeepsRight, Zenon
<1> QED  BY <1>1 DEF KeptRight

\* The filter keeps each element of the set as often as it was there.
LEMMA OnlyCounts ==
    ASSUME NEW T, NEW s \in Seq(T), NEW S, NEW U
    PROVE  Times(Only(s, S), U) = Times(s, S \intersect U)
<1>1. KeptRight(T, s, S, U)
  BY OnlyKeepsRight, Zenon
<1> QED  BY <1>1 DEF KeptRight

\* All that Only keeps is kept of the set.
LEMMA OnlyLength ==
    ASSUME NEW T, NEW s \in Seq(T), NEW S
    PROVE  Len(Only(s, S)) = Times(s, S)
<1>1. Only(s, S) \in Seq(T \intersect S) /\ Times(Only(s, S), S) = Times(s, S \intersect S)
  BY OnlyTyped, OnlyCounts
<1> DEFINE q == Only(s, S)
<1>2. Len(q) \in Nat /\ DOMAIN q = 1..Len(q) /\ \A k \in DOMAIN q : q[k] \in S
  BY <1>1
<1>3. {k \in DOMAIN q : q[k] \in S} = 1..Len(q)
  BY <1>2
<1>4. Cardinality(1..Len(q)) = Len(q)
  <2>1. \A n \in Nat : Cardinality(1..n) = n
    BY FS_Interval
  <2> QED  BY <1>2, <2>1
<1>5. S \intersect S = S
  OBVIOUS
<1> QED  BY <1>1, <1>3, <1>4, <1>5 DEF Times

\* Nothing is found in a sequence that has nothing of the set.
LEMMA TimesOfNone ==
    ASSUME NEW q, NEW U, \A k \in DOMAIN q : q[k] \notin U
    PROVE  Times(q, U) = 0
<1>1. {k \in DOMAIN q : q[k] \in U} = {}
  OBVIOUS
<1> QED  BY <1>1, FS_EmptySet DEF Times

\* What is appended counts for nothing where nothing of it is looked for.
LEMMA TimesOfIrrelevant ==
    ASSUME NEW T, NEW p \in Seq(T), NEW q \in Seq(T), NEW U,
           \A k \in DOMAIN q : q[k] \notin U
    PROVE  Times(p \o q, U) = Times(p, U)
<1>1. /\ Len(p) \in Nat /\ Len(q) \in Nat
      /\ DOMAIN p = 1..Len(p) /\ DOMAIN q = 1..Len(q)
      /\ DOMAIN (p \o q) = 1..(Len(p) + Len(q))
      /\ \A k \in 1..(Len(p) + Len(q)) :
            (p \o q)[k] = IF k <= Len(p) THEN p[k] ELSE q[k - Len(p)]
  OBVIOUS
<1>2. \A k \in 1..(Len(p) + Len(q)) : k > Len(p) => (p \o q)[k] \notin U
  BY <1>1
<1>3. {k \in DOMAIN (p \o q) : (p \o q)[k] \in U} = {k \in DOMAIN p : p[k] \in U}
  BY <1>1, <1>2
<1> QED  BY <1>3 DEF Times

\* And it counts in full where all of it, and nothing before it, is looked for.
LEMMA TimesOfRelevant ==
    ASSUME NEW T, NEW p \in Seq(T), NEW q \in Seq(T), NEW U,
           \A k \in DOMAIN p : p[k] \notin U,
           \A k \in DOMAIN q : q[k] \in U
    PROVE  Times(p \o q, U) = Len(q)
<1>1. /\ Len(p) \in Nat /\ Len(q) \in Nat
      /\ DOMAIN p = 1..Len(p) /\ DOMAIN q = 1..Len(q)
      /\ DOMAIN (p \o q) = 1..(Len(p) + Len(q))
      /\ \A k \in 1..(Len(p) + Len(q)) :
            (p \o q)[k] = IF k <= Len(p) THEN p[k] ELSE q[k - Len(p)]
  OBVIOUS
<1>2. \A k \in 1..(Len(p) + Len(q)) : (p \o q)[k] \in U <=> k > Len(p)
  BY <1>1
<1>3. {k \in DOMAIN (p \o q) : (p \o q)[k] \in U} = (Len(p) + 1)..(Len(p) + Len(q))
  BY <1>1, <1>2
<1>4. Cardinality((Len(p) + 1)..(Len(p) + Len(q))) = Len(q)
  <2>1. \A m, n \in Nat : Cardinality((m + 1)..(m + n)) = n
    BY FS_Interval
  <2> QED  BY <1>1, <2>1
<1> QED  BY <1>3, <1>4 DEF Times

-----------------------------------------------------------------------------
(***************************************************************************)
(* EdgesMirrored says nothing of a kernel that is being built, or whose    *)
(* whole graph is being hashed; the invariant says it throughout, with     *)
(* what the entries may hold, so that a new node's edges meet no old ones. *)
(***************************************************************************)
Edges(i, c) == Times(d_graph[i], {c})
Uses(c, i) == Times(d_reversed_graph[c], {i} \X Nat)

EntriesTyped ==
    \A i \in Numbers : d_graph[i] \in Seq(Numbers) /\ d_reversed_graph[i] \in Seq(Numbers \X Nat)

Mirrored == \A i, c \in Numbers : Edges(i, c) = Uses(c, i)

Pruned ==
    \A i \in Numbers \ d_processing : d_graph[i] = << >> /\ d_reversed_graph[i] = << >>

EdgesInv ==
    /\ EntriesTyped
    /\ Mirrored
    /\ phase # "build" => Pruned

\* A kernel that is being built has no edges.
LEMMA EdgesInitially ==
    ASSUME Init
    PROVE  EdgesInv
<1>1. Numbers = {} /\ phase = "build"
  BY DEF Init, Fresh, GraphInit, Numbers
<1> QED  BY <1>1 DEF EdgesInv, EntriesTyped, Mirrored

\* Only the constructor and rebuild_graph change the graph.
LEMMA EdgesStay ==
    ASSUME EdgesInv, UNCHANGED <<d_nodes, d_graph, d_reversed_graph>>,
           phase # "build" => phase' # "build" /\ d_processing' = d_processing,
           phase = "build" /\ phase' # "build" => d_processing' = Numbers
    PROVE  EdgesInv'
<1>1. Numbers' = Numbers
  BY DEF Numbers
<1>2. EntriesTyped' /\ Mirrored'
  BY <1>1 DEF EdgesInv, EntriesTyped, Mirrored, Edges, Uses
<1>3. CASE phase' # "build"
  <2>1. Pruned'
    BY <1>1, <1>3 DEF EdgesInv, Pruned
  <2> QED  BY <1>2, <2>1 DEF EdgesInv
<1>4. CASE phase' = "build"
  BY <1>2, <1>4 DEF EdgesInv
<1> QED  BY <1>3, <1>4

(***************************************************************************)
(* rebuild_graph keeps an edge iff it keeps both its ends, in either       *)
(* direction.                                                              *)
(***************************************************************************)
LEMMA RebuildMirrors ==
    ASSUME EntriesTyped, Mirrored, Pruned, rebuild_graph, UNCHANGED d_nodes,
           DOMAIN d_graph = Numbers, DOMAIN d_reversed_graph = Numbers,
           d_processing \subseteq Numbers
    PROVE  EntriesTyped' /\ Mirrored' /\ Pruned'
<1>0. PICK keep : keep = Kept
  OBVIOUS
<1>1. Numbers' = Numbers
  BY DEF Numbers
<1>2. keep \subseteq d_processing /\ d_processing' = keep
  BY <1>0 DEF rebuild_graph, Kept, Ambiguous
<1>3. d_graph' = PrunedGraph(keep) /\ d_reversed_graph' = PrunedReversedGraph(keep)
  BY <1>0 DEF rebuild_graph
<1>4. \A i \in keep : /\ d_graph'[i] = Only(d_graph[i], keep)
                      /\ d_reversed_graph'[i] = Only(d_reversed_graph[i], keep \X Nat)
  BY <1>2, <1>3 DEF PrunedGraph, PrunedReversedGraph
<1>5. \A i \in Numbers \ keep : d_graph'[i] = << >> /\ d_reversed_graph'[i] = << >>
  BY <1>2, <1>3 DEF PrunedGraph, PrunedReversedGraph, Pruned
<1>6. ASSUME NEW i \in keep
      PROVE  d_graph'[i] \in Seq(Numbers) /\ d_reversed_graph'[i] \in Seq(Numbers \X Nat)
  <2>1. d_graph[i] \in Seq(Numbers) /\ d_reversed_graph[i] \in Seq(Numbers \X Nat)
    BY <1>2, <1>6 DEF EntriesTyped
  <2>2. Only(d_graph[i], keep) \in Seq(Numbers \intersect keep)
    BY <2>1, OnlyTyped, Zenon
  <2>3. Only(d_reversed_graph[i], keep \X Nat) \in Seq((Numbers \X Nat) \intersect (keep \X Nat))
    BY <2>1, OnlyTyped, Zenon
  <2> QED  BY <1>4, <1>6, <2>2, <2>3
<1>7. EntriesTyped'
  <2>1. ASSUME NEW i \in Numbers
        PROVE  d_graph'[i] \in Seq(Numbers) /\ d_reversed_graph'[i] \in Seq(Numbers \X Nat)
    <3>1. CASE i \in keep
      BY <1>6, <3>1
    <3>2. CASE i \notin keep
      <4>1. d_graph'[i] = << >> /\ d_reversed_graph'[i] = << >>
        BY <1>5, <3>2
      <4>2. << >> \in Seq(Numbers) /\ << >> \in Seq(Numbers \X Nat)
        OBVIOUS
      <4> QED  BY <4>1, <4>2
    <3> QED  BY <3>1, <3>2
  <2> QED  BY <1>1, <2>1 DEF EntriesTyped
<1>8. ASSUME NEW i \in Numbers, NEW c \in Numbers
      PROVE  Times(d_graph'[i], {c}) = Times(d_reversed_graph'[c], {i} \X Nat)
  <2>1. d_graph[i] \in Seq(Numbers) /\ d_reversed_graph[c] \in Seq(Numbers \X Nat)
    BY DEF EntriesTyped
  <2>2. i \in keep => Times(d_graph'[i], {c}) = Times(d_graph[i], keep \intersect {c})
    <3>1. Times(Only(d_graph[i], keep), {c}) = Times(d_graph[i], keep \intersect {c})
      BY <2>1, OnlyCounts
    <3> QED  BY <1>4, <3>1
  <2>3. c \in keep => Times(d_reversed_graph'[c], {i} \X Nat)
                        = Times(d_reversed_graph[c], (keep \X Nat) \intersect ({i} \X Nat))
    <3>1. Times(Only(d_reversed_graph[c], keep \X Nat), {i} \X Nat)
            = Times(d_reversed_graph[c], (keep \X Nat) \intersect ({i} \X Nat))
      BY <2>1, OnlyCounts
    <3> QED  BY <1>4, <3>1
  <2>4. i \notin keep => Times(d_graph'[i], {c}) = 0
    BY <1>5, TimesOfNone
  <2>5. c \notin keep => Times(d_reversed_graph'[c], {i} \X Nat) = 0
    BY <1>5, TimesOfNone
  <2>6. c \notin keep => keep \intersect {c} = {}
    OBVIOUS
  <2>7. i \notin keep => (keep \X Nat) \intersect ({i} \X Nat) = {}
    OBVIOUS
  <2>8. Times(d_graph[i], {}) = 0 /\ Times(d_reversed_graph[c], {}) = 0
    BY TimesOfNone
  <2>9. CASE i \in keep /\ c \in keep
    <3>1. keep \intersect {c} = {c} /\ (keep \X Nat) \intersect ({i} \X Nat) = {i} \X Nat
      BY <2>9
    <3>2. Times(d_graph[i], {c}) = Times(d_reversed_graph[c], {i} \X Nat)
      BY DEF Mirrored, Edges, Uses
    <3> QED  BY <2>2, <2>3, <2>9, <3>1, <3>2
  <2>10. CASE i \in keep /\ c \notin keep
    BY <2>2, <2>5, <2>6, <2>8, <2>10
  <2>11. CASE i \notin keep /\ c \in keep
    BY <2>3, <2>4, <2>7, <2>8, <2>11
  <2>12. CASE i \notin keep /\ c \notin keep
    BY <2>4, <2>5, <2>12
  <2> QED  BY <2>9, <2>10, <2>11, <2>12
<1>9. Mirrored'
  BY <1>1, <1>8 DEF Mirrored, Edges, Uses
<1>10. Pruned'
  BY <1>1, <1>2, <1>5 DEF Pruned
<1> QED  BY <1>7, <1>9, <1>10

\* What is looked up where a node gets its number, and what the entries become.
LEMMA NumberFacts ==
    ASSUME WalkInv, GraphTypeOK, Number
    PROVE  \E n \in DagNode :
             LET k == Len(d_nodes) + 1
                 s == Successors(input, n)
             IN /\ s \in Seq(DagNode)
                /\ \A j \in 1..Len(s) : node2index[s[j]] \in Numbers
                /\ Numbers' = Numbers \union {k} /\ k \notin Numbers /\ k \in Nat
                /\ d_graph'[k] = [j \in 1..Len(s) |-> node2index[s[j]]]
                /\ d_reversed_graph'[k] = << >>
                /\ \A i \in Numbers :
                      /\ d_graph'[i] = d_graph[i]
                      /\ d_reversed_graph'[i] = d_reversed_graph[i] \o NewParentEdges(n, k, i)
<1>0. PICK n : n = Top
  OBVIOUS
<1> DEFINE k == Len(d_nodes) + 1
           s == Successors(input, n)
<1>1. /\ WalkTypeOK /\ NumberedOnce /\ visit # << >> /\ IsPending(n)
      /\ d_nodes' = Append(d_nodes, n)
      /\ d_graph' = Append(d_graph, [j \in 1..Len(s) |-> node2index[s[j]]])
      /\ d_reversed_graph' =
            Append([c \in 1..Len(d_reversed_graph) |->
                      d_reversed_graph[c] \o NewParentEdges(n, k, c)], << >>)
  BY <1>0 DEF WalkInv, Number
<1>2. n \in DagNode /\ input \in Inputs
  BY <1>0, <1>1, StackFacts DEF WalkTypeOK
<1>3. s \in Seq(DagNode)
  BY <1>2, InputFacts
<1>4. \A j \in 1..Len(s) : node2index[s[j]] \in Numbers
  <2>1. \A c \in Range(s) : IsNumbered(c)
    BY <1>0, <1>1, TopIsReady DEF OperandsNumberedFirst
  <2>2. \A j \in 1..Len(s) : s[j] \in Range(s)
    BY <1>3 DEF Range
  <2>3. \A c \in Range(s) : node2index[c] \in Numbers
    BY <1>1, <2>1 DEF NumberedOnce, IsNumbered, Seen
  <2> QED  BY <2>2, <2>3
<1>5. /\ Len(d_nodes) \in Nat /\ d_nodes \in Seq(DagNode)
      /\ Numbers' = Numbers \union {k} /\ k \notin Numbers /\ k \in Nat
  BY <1>1, <1>2 DEF WalkTypeOK, Numbers
<1> HIDE DEF s
<1>6. d_graph'[k] = [j \in 1..Len(s) |-> node2index[s[j]]] /\ d_reversed_graph'[k] = << >>
      /\ \A i \in Numbers :
            /\ d_graph'[i] = d_graph[i]
            /\ d_reversed_graph'[i] = d_reversed_graph[i] \o NewParentEdges(n, k, i)
  <2>1. DOMAIN d_graph = 1..Len(d_nodes) /\ DOMAIN d_reversed_graph = 1..Len(d_nodes)
    BY DEF GraphTypeOK, Numbers
  <2>2. Len(d_graph) = Len(d_nodes) /\ Len(d_reversed_graph) = Len(d_nodes)
    BY <1>5, <2>1
  <2>3. PICK operands : operands = [j \in 1..Len(s) |-> node2index[s[j]]]
    OBVIOUS
  <2>4. PICK edges : edges = [c \in 1..Len(d_reversed_graph) |->
                                d_reversed_graph[c] \o NewParentEdges(n, k, c)]
    OBVIOUS
  <2>5. Len(edges) = Len(d_nodes)
    BY <1>5, <2>2, <2>4
  <2>6. \A i \in 1..Len(d_nodes) : edges[i] = d_reversed_graph[i] \o NewParentEdges(n, k, i)
    BY <2>2, <2>4
  <2>7. d_graph' = Append(d_graph, operands) /\ d_reversed_graph' = Append(edges, << >>)
    BY <1>1, <2>3, <2>4
  <2>8. d_graph'[k] = operands /\ \A i \in 1..Len(d_nodes) : d_graph'[i] = d_graph[i]
    BY <1>5, <2>2, <2>7
  <2>9. d_reversed_graph'[k] = << >>
        /\ \A i \in 1..Len(d_nodes) : d_reversed_graph'[i] = edges[i]
    BY <1>5, <2>5, <2>7
  <2> QED  BY <2>3, <2>6, <2>8, <2>9 DEF Numbers
<1> QED  BY <1>2, <1>3, <1>4, <1>5, <1>6 DEF s

\* One new edge for each operand position that holds the operand.
LEMMA NewEdgesFacts ==
    ASSUME NEW n, Successors(input, n) \in Seq(DagNode), NEW k \in Nat, NEW c
    PROVE  /\ NewParentEdges(n, k, c) \in Seq({k} \X Nat)
           /\ Len(NewParentEdges(n, k, c))
                = Times([j \in 1..Len(Successors(input, n)) |->
                           node2index[Successors(input, n)[j]]], {c})
<1> DEFINE s == Successors(input, n)
           at == Only([i \in 1..Len(s) |-> i], {i \in 1..Len(s) : node2index[s[i]] = c})
<1>1. NewParentEdges(n, k, c) = [j \in 1..Len(at) |-> <<k, OperandPosition(n, at[j])>>]
  BY DEF NewParentEdges
<1>2. PICK m \in Nat : m = Len(s)
  OBVIOUS
<1>3. PICK positions \in Seq(1..m) : positions = [i \in 1..m |-> i]
  <2>1. [i \in 1..m |-> i] \in Seq(1..m)
    OBVIOUS
  <2> QED  BY <2>1, Zenon
<1>4. PICK A \in SUBSET (1..m) : A = {i \in 1..m : node2index[s[i]] = c}
  OBVIOUS
<1>5. at = Only(positions, A)
  BY <1>2, <1>3, <1>4
<1>6. Only(positions, A) \in Seq((1..m) \intersect A)
  BY OnlyTyped
<1>7. Len(Only(positions, A)) = Times(positions, A)
  BY OnlyLength
<1>8. Times(positions, A) = Cardinality(A)
  <2>1. {i \in DOMAIN positions : positions[i] \in A} = A
    BY <1>3, <1>4
  <2> QED  BY <2>1 DEF Times
<1>9. Times([j \in 1..Len(s) |-> node2index[s[j]]], {c}) = Cardinality(A)
  <2>1. PICK numbers : numbers = [j \in 1..Len(s) |-> node2index[s[j]]]
    OBVIOUS
  <2>2. {j \in DOMAIN numbers : numbers[j] \in {c}} = A
    BY <1>2, <1>4, <2>1
  <2> QED  BY <2>1, <2>2 DEF Times
<1>10. \A j \in 1..Len(at) : OperandPosition(n, at[j]) \in Nat
  <2> SUFFICES ASSUME NEW j \in 1..Len(at)
               PROVE  OperandPosition(n, at[j]) \in Nat
    OBVIOUS
  <2>1. at[j] \in 1..m
    BY <1>5, <1>6
  <2>2. at[j] - 1 \in Nat /\ 0 \in Nat
    BY <2>1
  <2> HIDE DEF at
  <2> QED  BY <2>2 DEF OperandPosition
<1>11. Len(at) \in Nat
  BY <1>5, <1>6
<1>12. NewParentEdges(n, k, c) \in Seq({k} \X Nat) /\ Len(NewParentEdges(n, k, c)) = Len(at)
  <2> HIDE DEF at
  <2> QED  BY <1>1, <1>10, <1>11
<1> QED  BY <1>5, <1>7, <1>8, <1>9, <1>12

(***************************************************************************)
(* The new node's edges are recorded in both directions, and the edges     *)
(* between the nodes before it are as they were: no entry mentioned its    *)
(* number.                                                                 *)
(***************************************************************************)
LEMMA NumberMirrors ==
    ASSUME WalkInv, GraphTypeOK, EntriesTyped, Mirrored, Number
    PROVE  EntriesTyped' /\ Mirrored'
<1>1. PICK n \in DagNode :
        LET k == Len(d_nodes) + 1
            s == Successors(input, n)
        IN /\ s \in Seq(DagNode)
           /\ \A j \in 1..Len(s) : node2index[s[j]] \in Numbers
           /\ Numbers' = Numbers \union {k} /\ k \notin Numbers /\ k \in Nat
           /\ d_graph'[k] = [j \in 1..Len(s) |-> node2index[s[j]]]
           /\ d_reversed_graph'[k] = << >>
           /\ \A i \in Numbers :
                 /\ d_graph'[i] = d_graph[i]
                 /\ d_reversed_graph'[i] = d_reversed_graph[i] \o NewParentEdges(n, k, i)
  BY NumberFacts
<1>2. PICK k \in Nat : k = Len(d_nodes) + 1
  BY <1>1
<1>3. PICK s \in Seq(DagNode) : s = Successors(input, n)
  BY <1>1
<1>4. PICK operands : operands = [j \in 1..Len(s) |-> node2index[s[j]]]
  OBVIOUS
<1>5. /\ Numbers' = Numbers \union {k} /\ k \notin Numbers
      /\ d_graph'[k] = operands /\ d_reversed_graph'[k] = << >>
      /\ operands \in Seq(Numbers)
      /\ Numbers \subseteq Nat
  BY <1>1, <1>2, <1>3, <1>4 DEF Numbers
<1>6. ASSUME NEW i \in Numbers
      PROVE  /\ d_graph'[i] = d_graph[i]
             /\ d_reversed_graph'[i] = d_reversed_graph[i] \o NewParentEdges(n, k, i)
             /\ NewParentEdges(n, k, i) \in Seq({k} \X Nat)
             /\ Len(NewParentEdges(n, k, i)) = Times(operands, {i})
             /\ d_graph[i] \in Seq(Numbers) /\ d_reversed_graph[i] \in Seq(Numbers \X Nat)
  <2>1. /\ NewParentEdges(n, k, i) \in Seq({k} \X Nat)
        /\ Len(NewParentEdges(n, k, i)) = Times(operands, {i})
    BY <1>3, <1>4, NewEdgesFacts
  <2> QED  BY <1>1, <1>2, <2>1 DEF EntriesTyped
<1>7. EntriesTyped'
  <2>1. ASSUME NEW i \in Numbers'
        PROVE  d_graph'[i] \in Seq(Numbers') /\ d_reversed_graph'[i] \in Seq(Numbers' \X Nat)
    <3>1. Numbers \subseteq Numbers' /\ k \in Numbers'
      BY <1>5
    <3>2. CASE i = k
      <4>1. operands \in Seq(Numbers')
        BY <1>5, <3>1, SeqMonotonic
      <4>2. << >> \in Seq(Numbers' \X Nat)
        OBVIOUS
      <4> QED  BY <1>5, <3>2, <4>1, <4>2
    <3>3. CASE i \in Numbers
      <4>1. d_graph[i] \in Seq(Numbers')
        BY <1>6, <3>1, <3>3, SeqMonotonic
      <4>2. Numbers \X Nat \subseteq Numbers' \X Nat /\ {k} \X Nat \subseteq Numbers' \X Nat
        BY <3>1
      <4>3. d_reversed_graph[i] \in Seq(Numbers' \X Nat)
        BY <1>6, <3>3, <4>2, SeqMonotonic
      <4>4. NewParentEdges(n, k, i) \in Seq(Numbers' \X Nat)
        BY <1>6, <3>3, <4>2, SeqMonotonic
      <4>5. d_reversed_graph[i] \o NewParentEdges(n, k, i) \in Seq(Numbers' \X Nat)
        BY <4>3, <4>4
      <4> QED  BY <1>6, <3>3, <4>1, <4>5
    <3> QED  BY <1>5, <3>2, <3>3
  <2> QED  BY <2>1 DEF EntriesTyped
<1>8. ASSUME NEW i \in Numbers', NEW c \in Numbers'
      PROVE  Times(d_graph'[i], {c}) = Times(d_reversed_graph'[c], {i} \X Nat)
  <2>1. c = k => Times(d_reversed_graph'[c], {i} \X Nat) = 0
    BY <1>5, TimesOfNone
  <2>2. CASE i = k /\ c = k
    <3>1. Times(operands, {k}) = 0
      <4>1. \A j \in DOMAIN operands : operands[j] \notin {k}
        BY <1>5
      <4> QED  BY <4>1, TimesOfNone
    <3> QED  BY <1>5, <2>1, <2>2, <3>1
  <2>3. CASE i \in Numbers /\ c = k
    <3>1. Times(d_graph[i], {k}) = 0
      <4>1. d_graph[i] \in Seq(Numbers)
        BY <1>6, <2>3
      <4>2. \A j \in DOMAIN d_graph[i] : d_graph[i][j] \in Numbers
        BY <4>1
      <4>3. \A j \in DOMAIN d_graph[i] : d_graph[i][j] \notin {k}
        BY <1>5, <4>2
      <4> QED  BY <4>3, TimesOfNone
    <3> QED  BY <1>6, <2>1, <2>3, <3>1
  <2>4. CASE c \in Numbers
    <3>1. PICK old \in Seq(Numbers' \X Nat) : old = d_reversed_graph[c]
      <4>1. Numbers \X Nat \subseteq Numbers' \X Nat
        BY <1>5
      <4> QED  BY <1>6, <2>4, <4>1, SeqMonotonic
    <3>2. PICK new \in Seq(Numbers' \X Nat) : new = NewParentEdges(n, k, c)
      <4>1. {k} \X Nat \subseteq Numbers' \X Nat
        BY <1>5
      <4> QED  BY <1>6, <2>4, <4>1, SeqMonotonic
    <3>3. d_reversed_graph'[c] = old \o new
      BY <1>6, <2>4, <3>1, <3>2
    <3>4. \A j \in DOMAIN old : old[j] \in Numbers \X Nat
      <4>1. old \in Seq(Numbers \X Nat)
        BY <1>6, <2>4, <3>1
      <4> QED  BY <4>1
    <3>5. \A j \in DOMAIN new : new[j] \in {k} \X Nat
      <4>1. new \in Seq({k} \X Nat)
        BY <1>6, <2>4, <3>2
      <4> QED  BY <4>1
    <3>6. CASE i = k
      <4>1. \A j \in DOMAIN old : old[j] \notin {k} \X Nat
        BY <1>5, <3>4
      <4>2. Times(old \o new, {k} \X Nat) = Len(new)
        BY <3>5, <4>1, TimesOfRelevant
      <4>3. Len(new) = Times(operands, {c})
        BY <1>6, <2>4, <3>2
      <4> QED  BY <1>5, <3>3, <3>6, <4>2, <4>3
    <3>7. CASE i \in Numbers
      <4>1. \A j \in DOMAIN new : new[j] \notin {i} \X Nat
        BY <1>5, <3>5, <3>7
      <4>2. Times(old \o new, {i} \X Nat) = Times(old, {i} \X Nat)
        BY <4>1, TimesOfIrrelevant
      <4>3. Times(d_graph[i], {c}) = Times(d_reversed_graph[c], {i} \X Nat)
        BY <2>4, <3>7 DEF Mirrored, Edges, Uses
      <4> QED  BY <1>6, <3>1, <3>3, <3>7, <4>2, <4>3
    <3> QED  BY <1>5, <3>6, <3>7
  <2> QED  BY <1>5, <2>2, <2>3, <2>4
<1>9. Mirrored'
  BY <1>8 DEF Mirrored, Edges, Uses
<1> QED  BY <1>7, <1>9

\* Every step keeps both directions of the graph mirrored and pruned vertices without
\* edges.
LEMMA EdgesInductive ==
    ASSUME KernelInv, EdgesInv, [Next]_vars
    PROVE  EdgesInv'
<1>1. CASE Build
  <2>1. phase = "build" /\ phase' = "build" /\ WalkInv /\ GraphTypeOK
    BY <1>1 DEF Build, kernelVars, KernelInv, KernelTypeOK
  <2>2. CASE Number
    BY <2>1, <2>2, NumberMirrors DEF EdgesInv
  <2>3. CASE Expand \/ Skip
    BY <2>1, <2>3, EdgesStay DEF Expand, Skip
  <2> QED  BY <1>1, <2>2, <2>3 DEF Build, GraphNext
<1>2. CASE StartApply
  BY <1>2, EdgesStay DEF StartApply, graphVars
<1>3. CASE RefineWithPruning
  <2>1. phase = "loop" /\ phase' = "specific" /\ rebuild_graph /\ d_nodes' = d_nodes
    BY <1>3 DEF RefineWithPruning
  <2>2. EntriesTyped' /\ Mirrored' /\ Pruned'
    BY <2>1, StartedFacts, RebuildMirrors DEF EdgesInv
  <2> QED  BY <2>1, <2>2 DEF EdgesInv
<1>4. CASE Propagate \/ PropagateThrows
  BY <1>4, EdgesStay DEF Propagate, PropagateThrows, graphVars, refineVars
<1>5. CASE \E s \in d_symbols : Region(s)
  <2>1. PICK s \in d_symbols : Region(s)
    BY <1>5
  <2>2. /\ phase = "specific" /\ phase' \in {"specific", "region"}
        /\ UNCHANGED <<graphVars, d_processing>>
    BY <2>1 DEF Region
  <2> QED  BY <2>2, EdgesStay DEF graphVars
<1>6. CASE SpecificDone \/ RefineInPlace \/ RefineDone
  BY <1>6, EdgesStay DEF SpecificDone, RefineInPlace, RefineDone, graphVars
<1>7. CASE Rename \/ RenameThrows
  BY <1>7, EdgesStay DEF Rename, RenameThrows, graphVars, refineVars
<1>8. CASE UNCHANGED vars
  BY <1>8, EdgesStay DEF vars, graphVars, kernelVars
<1> QED
  BY <1>1, <1>2, <1>3, <1>4, <1>5, <1>6, <1>7, <1>8 DEF Next, Step, Stopped

(***************************************************************************)
(* rebuild_graph prunes the two directions of the graph alike, and so the  *)
(* regions of specific_propagate are the components of one graph           *)
(* (kernel.cpp:413-447).                                                   *)
(***************************************************************************)
THEOREM EdgesStayMirrored == Spec => []EdgesMirrored
<1>1. Init => EdgesInv
  BY EdgesInitially
<1>2. KernelInv /\ EdgesInv /\ [Next]_vars => EdgesInv'
  BY EdgesInductive
<1>3. EdgesInv => EdgesMirrored
  BY DEF EdgesInv, Pruned, Mirrored, Edges, Uses, EdgesMirrored, Refining
<1> QED
  BY <1>1, <1>2, <1>3, KernelInvariant, PTL DEF Spec

-----------------------------------------------------------------------------
(***************************************************************************)
(* Hashes are only refined. A hash is the sequence of what was mixed into  *)
(* it, so two that differ could become equal only where one of them goes   *)
(* on from the other with just what the other is given next. What is given *)
(* is a perturbation, the stamp of a region (its fingerprint and how often *)
(* it was met), or a number of a sweep. A stamp with its count is given    *)
(* once in a call of specific_propagate, and only to nodes that the call   *)
(* has not met. A node that the call leaves out while others are stamped   *)
(* has no path to a symbol any more and is never given anything again.     *)
(* Inside a region the sweep numbers are equal only where the hashes were, *)
(* and one node alone is perturbed. The invariant TablesInv says this of   *)
(* the table between any two steps.                                        *)
(***************************************************************************)
\* A hash that goes on from another one, and one that adds to it: what it adds begins with
\* a mark or a number of a sweep.
Starts(t, s) == Len(s) <= Len(t) /\ \A k \in 1..Len(s) : t[k] = s[k]
Longer(t, s) == Starts(t, s) /\ Len(s) < Len(t)
Mark(t, s) == t[Len(s) + 1]
\* What a region adds to the hashes of its nodes.
Stamp(h, n) == Append(<<Fingerprint, Len(h)>> \o h, n)

\* A start of a start is a start.
LEMMA StartsTransitive ==
    ASSUME NEW s \in HashValue, NEW t \in HashValue, NEW u \in HashValue,
           Starts(u, t), Starts(t, s)
    PROVE  Starts(u, s)
  BY DEF Starts, HashValue

\* Two starts of one value: one is a start of the other.
LEMMA StartsOfOne ==
    ASSUME NEW s \in HashValue, NEW t \in HashValue, NEW u \in HashValue,
           Starts(u, s), Starts(u, t)
    PROVE  Starts(t, s) \/ Longer(s, t)
<1>1. Len(s) \in Nat /\ Len(t) \in Nat
  BY DEF HashValue
<1> QED  BY <1>1 DEF Starts, Longer

\* What a hash adds to another stays what it is when it goes on.
LEMMA LongerStays ==
    ASSUME NEW s \in HashValue, NEW t \in HashValue, NEW u \in HashValue,
           Longer(t, s), Starts(u, t)
    PROVE  Longer(u, s) /\ Mark(u, s) = Mark(t, s)
<1>1. Len(s) \in Nat /\ Len(t) \in Nat /\ Len(u) \in Nat
  BY DEF HashValue
<1>2. Starts(u, s) /\ Len(s) < Len(u)
  BY <1>1, StartsTransitive DEF Longer, Starts
<1>3. Len(s) + 1 \in 1..Len(t)
  BY <1>1 DEF Longer
<1> QED  BY <1>2, <1>3 DEF Longer, Mark, Starts

\* A start that is as long is the whole.
LEMMA StartsSame ==
    ASSUME NEW s \in HashValue, NEW t \in HashValue, Starts(t, s), Len(t) <= Len(s)
    PROVE  t = s
<1>1. Len(s) \in Nat /\ Len(t) \in Nat /\ Len(s) = Len(t)
  BY DEF HashValue, Starts
<1> QED  BY <1>1, SeqEqual DEF HashValue, Starts

\* A hash with something put after it.
LEMMA Continued ==
    ASSUME NEW s \in HashValue, NEW x \in HashValue, x # << >>
    PROVE  /\ s \o x \in HashValue
           /\ Len(s \o x) = Len(s) + Len(x)
           /\ Longer(s \o x, s)
           /\ Mark(s \o x, s) = x[1]
           /\ \A k \in 1..Len(x) : (s \o x)[Len(s) + k] = x[k]
<1>1. Len(s) \in Nat /\ Len(x) \in Nat \ {0}
  BY DEF HashValue
<1>2. /\ s \o x \in Seq(Nat) /\ Len(s \o x) = Len(s) + Len(x)
      /\ \A k \in 1..(Len(s) + Len(x)) :
            (s \o x)[k] = IF k <= Len(s) THEN s[k] ELSE x[k - Len(s)]
  BY DEF HashValue
<1>3. \A k \in 1..Len(x) : (s \o x)[Len(s) + k] = x[k]
  BY <1>1, <1>2
<1>4. \A k \in 1..Len(s) : (s \o x)[k] = s[k]
  BY <1>1, <1>2
<1> QED  BY <1>1, <1>2, <1>3, <1>4 DEF HashValue, Starts, Longer, Mark

\* How a stamp reads.
LEMMA StampFacts ==
    ASSUME NEW h \in HashValue, NEW n \in Nat
    PROVE  /\ Stamp(h, n) \in HashValue /\ Stamp(h, n) # << >>
           /\ Len(Stamp(h, n)) = Len(h) + 3
           /\ Stamp(h, n)[1] = Fingerprint
           /\ Stamp(h, n)[2] = Len(h)
           /\ \A k \in 1..Len(h) : Stamp(h, n)[k + 2] = h[k]
           /\ Stamp(h, n)[Len(h) + 3] = n
<1> DEFINE b == <<Fingerprint, Len(h)>>
           c == b \o h
<1>1. Len(h) \in Nat /\ b \in Seq(Nat) /\ Len(b) = 2 /\ b[1] = Fingerprint /\ b[2] = Len(h)
  BY DEF HashValue, Fingerprint
<1>2. /\ c \in Seq(Nat) /\ Len(c) = Len(h) + 2 /\ c[1] = Fingerprint /\ c[2] = Len(h)
      /\ \A k \in 1..Len(h) : c[k + 2] = h[k]
  <2>1. PICK g \in Seq(Nat) : g = b
    BY <1>1
  <2>2. PICK k \in Seq(Nat) : k = h
    BY DEF HashValue
  <2>3. /\ g \o k \in Seq(Nat) /\ Len(g \o k) = Len(g) + Len(k)
        /\ \A i \in 1..(Len(g) + Len(k)) : (g \o k)[i] = IF i <= Len(g) THEN g[i] ELSE k[i - Len(g)]
    BY ConcatProperties
  <2>4. c = g \o k /\ Len(g) = 2 /\ g[1] = Fingerprint /\ g[2] = Len(h)
    BY <1>1, <2>1, <2>2
  <2> HIDE DEF c
  <2>5. 1 \in 1..(Len(g) + Len(k)) /\ 2 \in 1..(Len(g) + Len(k))
    BY <1>1, <2>2, <2>4
  <2>6. \A i \in 1..Len(h) : c[i + 2] = h[i]
    <3> TAKE i \in 1..Len(h)
    <3>1. i + 2 \in 1..(Len(g) + Len(k)) /\ ~(i + 2 <= Len(g)) /\ i + 2 - Len(g) = i
      BY <1>1, <2>2, <2>4
    <3> QED  BY <3>1, <2>2, <2>3, <2>4
  <2> QED  BY <1>1, <2>2, <2>3, <2>4, <2>5, <2>6
<1> DEFINE w == Append(c, n)
<1>3. Stamp(h, n) = w
  BY DEF Stamp
<1> HIDE DEF c
<1>4. /\ w \in Seq(Nat) /\ Len(w) = Len(h) + 3 /\ w[Len(h) + 3] = n
      /\ \A k \in 1..(Len(h) + 2) : w[k] = c[k]
  BY <1>1, <1>2
<1> HIDE DEF w
<1>5. w # << >>
  BY <1>1, <1>4
<1>6. \A k \in 1..Len(h) : k + 2 \in 1..(Len(h) + 2) /\ w[k + 2] = h[k]
  BY <1>1, <1>2, <1>4
<1> QED  BY <1>1, <1>2, <1>3, <1>4, <1>5, <1>6 DEF HashValue

\* Two stamps are put after the same value, and what comes of it can be compared: they are one.
LEMMA StampsDiffer ==
    ASSUME NEW s \in HashValue, NEW v \in HashValue, NEW w \in HashValue,
           NEW g \in HashValue, NEW h \in HashValue, NEW m \in Nat, NEW n \in Nat,
           Starts(v, s \o Stamp(g, m)), Starts(w, s \o Stamp(h, n)), Starts(v, w) \/ Starts(w, v)
    PROVE  g = h /\ m = n
<1> DEFINE x == Stamp(g, m)
           y == Stamp(h, n)
<1>1. /\ x \in HashValue /\ x # << >> /\ Len(x) = Len(g) + 3 /\ x[2] = Len(g) /\ x[Len(g) + 3] = m
      /\ \A k \in 1..Len(g) : x[k + 2] = g[k]
  BY StampFacts
<1>2. /\ y \in HashValue /\ y # << >> /\ Len(y) = Len(h) + 3 /\ y[2] = Len(h) /\ y[Len(h) + 3] = n
      /\ \A k \in 1..Len(h) : y[k + 2] = h[k]
  BY StampFacts
<1> HIDE DEF x, y
<1>3. Len(s) \in Nat /\ Len(g) \in Nat /\ Len(h) \in Nat /\ Len(v) \in Nat /\ Len(w) \in Nat
  BY DEF HashValue
<1>4. Len(s) + Len(x) <= Len(v) /\ \A k \in 1..Len(x) : v[Len(s) + k] = x[k]
  <2>1. /\ Len(s \o x) = Len(s) + Len(x) /\ \A k \in 1..Len(x) : (s \o x)[Len(s) + k] = x[k]
    BY <1>1, Continued
  <2>2. Starts(v, s \o x)
    BY DEF x
  <2>3. \A k \in 1..Len(x) : Len(s) + k \in 1..(Len(s) + Len(x))
    BY <1>1, <1>3
  <2> QED  BY <2>1, <2>2, <2>3 DEF Starts
<1>5. Len(s) + Len(y) <= Len(w) /\ \A k \in 1..Len(y) : w[Len(s) + k] = y[k]
  <2>1. /\ Len(s \o y) = Len(s) + Len(y) /\ \A k \in 1..Len(y) : (s \o y)[Len(s) + k] = y[k]
    BY <1>2, Continued
  <2>2. Starts(w, s \o y)
    BY DEF y
  <2>3. \A k \in 1..Len(y) : Len(s) + k \in 1..(Len(s) + Len(y))
    BY <1>2, <1>3
  <2> QED  BY <2>1, <2>2, <2>3 DEF Starts
<1>6. \A k \in 1..Len(x) : k <= Len(y) => x[k] = y[k]
  <2> TAKE k \in 1..Len(x)
  <2> HAVE k <= Len(y)
  <2>1. k \in 1..Len(y) /\ Len(s) + k \in 1..Len(v) /\ Len(s) + k \in 1..Len(w)
    BY <1>1, <1>2, <1>3, <1>4, <1>5
  <2>2. v[Len(s) + k] = w[Len(s) + k]
    BY <2>1 DEF Starts
  <2> QED  BY <2>1, <2>2, <1>4, <1>5
<1>7. Len(g) = Len(h)
  BY <1>1, <1>2, <1>3, <1>6
<1>8. m = n
  BY <1>1, <1>2, <1>3, <1>6, <1>7
<1>9. \A k \in 1..Len(g) : g[k] = h[k]
  <2> TAKE k \in 1..Len(g)
  <2>1. k + 2 \in 1..Len(x) /\ k + 2 <= Len(y) /\ k \in 1..Len(h)
    BY <1>1, <1>2, <1>3, <1>7
  <2> QED  BY <2>1, <1>1, <1>2, <1>6
<1> QED  BY <1>7, <1>8, <1>9, SeqEqual DEF HashValue

-----------------------------------------------------------------------------
(* Tables of hashes. D is a set of nodes no region is ever made of, seen the nodes of the
   regions a call has met, counts how often it has met which region hash. *)
IsTable(H) == \A i \in DOMAIN H : H[i] \in HashValue

\* The map hash_count of specific_propagate.
IsCounting(counts) == \A h \in DOMAIN counts : h \in HashValue /\ counts[h] \in Nat

\* The hash t goes on from s with the stamp of a region that the call has met.
MetAfter(counts, s, t) ==
    \E h \in DOMAIN counts : \E n \in 1..counts[h] : Starts(t, s \o Stamp(h, n))

\* Node j was in a region that the call has met, and i was not: what j had added is
\* nothing that i can still be given.
Late(H, seen, counts, i, j) == i \notin seen /\ j \in seen /\ MetAfter(counts, H[i], H[j])

\* A node whose hash another one has gone on from with a stamp is out of reach, or late.
Ordered(H, D, seen, counts) ==
    \A i, j \in DOMAIN H :
        Longer(H[j], H[i]) =>
            Mark(H[j], H[i]) # Fingerprint \/ i \in D \/ Late(H, seen, counts, i, j)

\* Nodes with equal hashes have been met alike.
SeenAlike(H, seen) == \A i, j \in DOMAIN H : H[i] = H[j] => (i \in seen <=> j \in seen)

\* No hash outside the region goes on from one inside.
Told(H, P) == \A i \in P, j \in DOMAIN H \ P : ~Starts(H[j], H[i])

\* Inside a region, what a hash has added to another is not a stamp, and if the other one
\* is still growing it is a perturbation.
Within(H, P, G) ==
    \A i, j \in P : Longer(H[j], H[i]) =>
        /\ Mark(H[j], H[i]) # Fingerprint
        /\ Mark(H[j], H[i]) = Perturbed \/ i \notin G

\* No two hashes that differ have become equal.
NoMerge(H, T) == \A i, j \in DOMAIN H : H[i] # H[j] => T[i] # T[j]

\* The table after the stamp of a region.
StampedTable(H, P, h, n) == [i \in DOMAIN H |-> IF i \in P THEN H[i] \o Stamp(h, n) ELSE H[i]]

\* CountOf, and what Region does to hash_count, over any map.
CountOfIn(counts, h) == IF h \in DOMAIN counts THEN counts[h] + 1 ELSE 1

CountedIn(counts, h) ==
    [g \in DOMAIN counts \union {h} |-> IF g = h THEN CountOfIn(counts, h) ELSE counts[g]]

\* The same end is put after two hashes only if they are equal.
LEMMA AppendedSame ==
    ASSUME NEW s \in HashValue, NEW t \in HashValue, NEW x \in HashValue, s \o x = t \o x
    PROVE  s = t
<1>1. Len(s) \in Nat /\ Len(t) \in Nat /\ Len(x) \in Nat /\ s \in Seq(Nat) /\ t \in Seq(Nat)
  BY DEF HashValue
<1>2. Len(s \o x) = Len(s) + Len(x) /\ Len(t \o x) = Len(t) + Len(x)
  BY DEF HashValue
<1>3. Len(s) = Len(t)
  BY <1>1, <1>2
<1>4. \A k \in 1..Len(s) : (s \o x)[k] = s[k] /\ (t \o x)[k] = t[k]
  BY <1>1, <1>3 DEF HashValue
<1>5. \A k \in 1..Len(s) : s[k] = t[k]
  BY <1>4
<1> QED  BY <1>1, <1>3, <1>5, SeqEqual

\* The count of a region is one that this region hash has not had yet.
LEMMA CountsGrow ==
    ASSUME NEW counts, IsCounting(counts), NEW h \in HashValue
    PROVE  /\ IsCounting(CountedIn(counts, h))
           /\ CountOfIn(counts, h) \in Nat \ {0}
           /\ h \in DOMAIN CountedIn(counts, h)
           /\ CountedIn(counts, h)[h] = CountOfIn(counts, h)
           /\ \A g \in DOMAIN counts : \A m \in 1..counts[g] :
                 /\ g \in DOMAIN CountedIn(counts, h) /\ m \in 1..CountedIn(counts, h)[g]
                 /\ ~(g = h /\ m = CountOfIn(counts, h))
<1>1. CountOfIn(counts, h) \in Nat \ {0}
  BY DEF IsCounting, CountOfIn
<1>2. ASSUME NEW g \in DOMAIN counts, NEW m \in 1..counts[g]
      PROVE  /\ g \in DOMAIN CountedIn(counts, h) /\ m \in 1..CountedIn(counts, h)[g]
             /\ ~(g = h /\ m = CountOfIn(counts, h))
  <2>1. counts[g] \in Nat /\ g \in DOMAIN CountedIn(counts, h)
    BY DEF IsCounting, CountedIn
  <2>2. CASE g = h
    <3>1. CountOfIn(counts, h) = counts[g] + 1 /\ CountedIn(counts, h)[g] = counts[g] + 1
      BY <2>2 DEF CountOfIn, CountedIn
    <3> QED  BY <2>1, <2>2, <3>1
  <2>3. CASE g # h
    BY <2>1, <2>3 DEF CountedIn
  <2> QED  BY <2>2, <2>3
<1>3. IsCounting(CountedIn(counts, h))
  BY <1>1 DEF IsCounting, CountedIn
<1> QED  BY <1>1, <1>2, <1>3 DEF CountedIn

(* What the lemma is about in one operator: the stamp of a region. *)
Stamping(H, D, seen, counts, P, h) ==
    /\ IsTable(H) /\ IsCounting(counts) /\ h \in HashValue
    /\ P \subseteq DOMAIN H /\ P \intersect seen = {} /\ P \intersect D = {}
    /\ Ordered(H, D, seen, counts) /\ SeenAlike(H, seen)

\* What the stamp does to each hash.
LEMMA StampedFacts ==
    ASSUME NEW H, NEW D, NEW seen, NEW counts, NEW P, NEW h,
           Stamping(H, D, seen, counts, P, h)
    PROVE  LET n == CountOfIn(counts, h)
               T == StampedTable(H, P, h, n)
           IN /\ DOMAIN T = DOMAIN H
              /\ n \in Nat /\ Stamp(h, n) \in HashValue
              /\ \A i \in DOMAIN H : T[i] \in HashValue /\ Starts(T[i], H[i])
              /\ \A i \in DOMAIN H \ P : T[i] = H[i]
              /\ \A i \in P : /\ T[i] = H[i] \o Stamp(h, n)
                              /\ Longer(T[i], H[i]) /\ Mark(T[i], H[i]) = Fingerprint
                              /\ Len(T[i]) = Len(H[i]) + Len(Stamp(h, n))
<1> DEFINE n == CountOfIn(counts, h)
           T == StampedTable(H, P, h, n)
<1>1. n \in Nat
  BY CountsGrow DEF Stamping
<1> HIDE DEF n
<1>2. Stamp(h, n) \in HashValue /\ Stamp(h, n) # << >> /\ Stamp(h, n)[1] = Fingerprint
  BY <1>1, StampFacts DEF Stamping
<1>3. DOMAIN T = DOMAIN H /\ \A i \in DOMAIN H \ P : T[i] = H[i]
  BY DEF StampedTable
<1>4. ASSUME NEW i \in P
      PROVE  /\ T[i] = H[i] \o Stamp(h, n) /\ T[i] \in HashValue
             /\ Longer(T[i], H[i]) /\ Mark(T[i], H[i]) = Fingerprint
             /\ Len(T[i]) = Len(H[i]) + Len(Stamp(h, n))
  <2>1. i \in DOMAIN H /\ H[i] \in HashValue
    BY DEF Stamping, IsTable
  <2>2. T[i] = H[i] \o Stamp(h, n)
    BY <2>1 DEF StampedTable
  <2> QED  BY <2>1, <2>2, <1>2, Continued
<1>5. ASSUME NEW i \in DOMAIN H \ P
      PROVE  T[i] \in HashValue /\ Starts(T[i], H[i])
  <2>1. H[i] \in HashValue /\ T[i] = H[i]
    BY <1>3 DEF Stamping, IsTable
  <2> QED  BY <2>1 DEF Starts, HashValue
<1> HIDE DEF T
<1> QED  BY <1>1, <1>2, <1>3, <1>4, <1>5 DEF n, T, Longer

\* The stamp merges no hashes, and it tells the region from everything else: what else has
\* this stamp would have been met with the same count.
LEMMA StampTells ==
    ASSUME NEW H, NEW D, NEW seen, NEW counts, NEW P, NEW h,
           Stamping(H, D, seen, counts, P, h)
    PROVE  LET T == StampedTable(H, P, h, CountOfIn(counts, h))
           IN /\ Told(T, P)
              /\ \A i, j \in P : ~Longer(T[j], T[i])
              /\ NoMerge(H, T)
<1> DEFINE n == CountOfIn(counts, h)
           T == StampedTable(H, P, h, n)
<1>1. /\ DOMAIN T = DOMAIN H
      /\ n \in Nat /\ Stamp(h, n) \in HashValue
      /\ \A i \in DOMAIN H : T[i] \in HashValue /\ Starts(T[i], H[i])
      /\ \A i \in DOMAIN H \ P : T[i] = H[i]
      /\ \A i \in P : /\ T[i] = H[i] \o Stamp(h, n)
                      /\ Longer(T[i], H[i]) /\ Mark(T[i], H[i]) = Fingerprint
                      /\ Len(T[i]) = Len(H[i]) + Len(Stamp(h, n))
  BY StampedFacts
<1>2. \A i \in DOMAIN H : H[i] \in HashValue
  BY DEF Stamping, IsTable
<1>3. P \subseteq DOMAIN H
  BY DEF Stamping
<1> HIDE DEF T
<1>4. ASSUME NEW i \in P, NEW j \in DOMAIN H, Longer(H[j], H[i]), Mark(H[j], H[i]) = Fingerprint
      PROVE  j \in seen /\ MetAfter(counts, H[i], H[j])
  <2>1. i \in DOMAIN H /\ i \notin D
    BY DEF Stamping
  <2> QED  BY <1>4, <2>1 DEF Stamping, Ordered, Late
<1>5. ASSUME NEW i \in P, NEW j \in DOMAIN H \ P, Starts(T[j], T[i])
      PROVE  FALSE
  <2>1. /\ i \in DOMAIN H /\ H[i] \in HashValue /\ H[j] \in HashValue /\ T[i] \in HashValue
        /\ T[j] = H[j] /\ T[i] = H[i] \o Stamp(h, n)
    BY <1>1, <1>2, <1>3
  <2>2. Longer(H[j], H[i]) /\ Mark(H[j], H[i]) = Fingerprint
    BY <1>1, <1>5, <2>1, LongerStays
  <2>3. MetAfter(counts, H[i], H[j])
    BY <1>4, <2>2
  <2>4. PICK g \in DOMAIN counts : \E m \in 1..counts[g] : Starts(H[j], H[i] \o Stamp(g, m))
    BY <2>3 DEF MetAfter
  <2>5. PICK m \in 1..counts[g] : Starts(H[j], H[i] \o Stamp(g, m))
    BY <2>4
  <2>6. g \in HashValue /\ h \in HashValue /\ m \in Nat
    BY DEF Stamping, IsCounting
  <2>7. Starts(H[j], H[i] \o Stamp(h, n)) /\ Starts(H[j], H[j])
    BY <1>5, <2>1 DEF Starts, HashValue
  <2>8. g = h /\ m = n
    BY <2>1, <2>5, <2>6, <2>7, <1>1, StampsDiffer
  <2>9. ~(g = h /\ m = n)
    BY <2>6, CountsGrow DEF Stamping
  <2> QED  BY <2>8, <2>9
<1>6. ASSUME NEW i \in P, NEW j \in P, Longer(T[j], T[i])
      PROVE  FALSE
  <2>1. /\ i \in DOMAIN H /\ j \in DOMAIN H
        /\ H[i] \in HashValue /\ H[j] \in HashValue /\ T[i] \in HashValue /\ T[j] \in HashValue
        /\ Longer(T[i], H[i]) /\ Mark(T[i], H[i]) = Fingerprint
        /\ Len(T[i]) = Len(H[i]) + Len(Stamp(h, n)) /\ Len(T[j]) = Len(H[j]) + Len(Stamp(h, n))
        /\ Starts(T[j], H[j])
    BY <1>1, <1>2, <1>3
  <2>2. Len(H[i]) \in Nat /\ Len(H[j]) \in Nat /\ Len(Stamp(h, n)) \in Nat
        /\ Len(T[i]) < Len(T[j]) /\ Starts(T[j], T[i])
    BY <1>1, <1>6, <2>1 DEF HashValue, Longer
  <2>3. Len(H[i]) < Len(H[j])
    BY <2>1, <2>2
  <2>4. Longer(T[j], H[i]) /\ Mark(T[j], H[i]) = Fingerprint
    BY <2>1, <2>2, LongerStays
  <2>5. Starts(H[j], H[i])
    BY <2>1, <2>3, <2>4, StartsOfOne, <2>2 DEF Longer
  <2>6. Longer(H[j], H[i]) /\ Mark(H[j], H[i]) = Fingerprint
    <3>1. Longer(H[j], H[i])
      BY <2>3, <2>5 DEF Longer
    <3> QED  BY <2>1, <2>4, <3>1, LongerStays
  <2>7. j \in seen
    BY <1>4, <2>1, <2>6
  <2> QED  BY <2>7 DEF Stamping
<1>7. ASSUME NEW i \in DOMAIN H, NEW j \in DOMAIN H, H[i] # H[j], T[i] = T[j]
      PROVE  FALSE
  <2>1. T[i] \in HashValue /\ Starts(T[i], T[j]) /\ Starts(T[j], T[i])
    <3>1. T[i] \in HashValue
      BY <1>1
    <3>2. Starts(T[i], T[i])
      BY <3>1 DEF Starts, HashValue
    <3> QED  BY <1>7, <3>1, <3>2
  <2>2. CASE i \in P /\ j \in P
    <3>1. H[i] \in HashValue /\ H[j] \in HashValue /\ H[i] \o Stamp(h, n) = H[j] \o Stamp(h, n)
      BY <1>1, <1>2, <1>7, <2>2
    <3>2. PICK x \in HashValue : x = Stamp(h, n)
      BY <1>1
    <3>3. H[i] = H[j]
      BY <3>1, <3>2, AppendedSame
    <3> QED  BY <1>7, <3>3
  <2>3. CASE i \in P /\ j \notin P
    BY <1>5, <2>1, <2>3
  <2>4. CASE i \notin P /\ j \in P
    BY <1>5, <2>1, <2>4
  <2>5. CASE i \notin P /\ j \notin P
    BY <1>1, <1>7, <2>5
  <2> QED  BY <2>2, <2>3, <2>4, <2>5
<1>8. Told(T, P)
  BY <1>1, <1>5 DEF Told
<1>9. NoMerge(H, T)
  BY <1>7 DEF NoMerge
<1> QED  BY <1>6, <1>8, <1>9 DEF T, n

\* After the stamp the region counts as met.
LEMMA StampOrders ==
    ASSUME NEW H, NEW D, NEW seen, NEW counts, NEW P, NEW h,
           Stamping(H, D, seen, counts, P, h)
    PROVE  LET T == StampedTable(H, P, h, CountOfIn(counts, h))
           IN /\ Ordered(T, D, seen \union P, CountedIn(counts, h))
              /\ SeenAlike(T, seen \union P)
<1> DEFINE n == CountOfIn(counts, h)
           T == StampedTable(H, P, h, n)
           counts2 == CountedIn(counts, h)
<1>1. /\ DOMAIN T = DOMAIN H
      /\ n \in Nat /\ Stamp(h, n) \in HashValue
      /\ \A i \in DOMAIN H : T[i] \in HashValue /\ Starts(T[i], H[i])
      /\ \A i \in DOMAIN H \ P : T[i] = H[i]
      /\ \A i \in P : /\ T[i] = H[i] \o Stamp(h, n)
                      /\ Longer(T[i], H[i]) /\ Mark(T[i], H[i]) = Fingerprint
                      /\ Len(T[i]) = Len(H[i]) + Len(Stamp(h, n))
  BY StampedFacts
<1>2. \A i \in DOMAIN H : H[i] \in HashValue
  BY DEF Stamping, IsTable
<1>3. /\ Told(T, P) /\ NoMerge(H, T)
      /\ \A i, j \in P : ~Longer(T[j], T[i])
  BY StampTells
<1>4. /\ n \in Nat \ {0} /\ h \in DOMAIN counts2 /\ counts2[h] = n
      /\ \A g \in DOMAIN counts : \A m \in 1..counts[g] :
            /\ g \in DOMAIN counts2 /\ m \in 1..counts2[g]
            /\ ~(g = h /\ m = n)
  BY CountsGrow DEF Stamping
<1> HIDE DEF T, n, counts2
<1>5. ASSUME NEW i \in DOMAIN H, NEW j \in DOMAIN H, T[i] = T[j]
      PROVE  i \in seen \union P <=> j \in seen \union P
  <2>1. H[i] = H[j]
    BY <1>3, <1>5 DEF NoMerge
  <2>2. i \in seen <=> j \in seen
    BY <2>1 DEF Stamping, SeenAlike
  <2>3. T[i] \in HashValue
    BY <1>1
  <2>4. Starts(T[i], T[j]) /\ Starts(T[j], T[i])
    <3>1. Starts(T[i], T[i])
      BY <2>3 DEF Starts, HashValue
    <3> QED  BY <1>5, <3>1
  <2>5. i \in P <=> j \in P
    BY <1>1, <1>3, <2>4 DEF Told
  <2> QED  BY <2>2, <2>5
<1>6. ASSUME NEW s, NEW t, MetAfter(counts, s, t)
      PROVE  MetAfter(counts2, s, t)
  <2>1. PICK g \in DOMAIN counts : \E m \in 1..counts[g] : Starts(t, s \o Stamp(g, m))
    BY <1>6 DEF MetAfter
  <2>2. PICK m \in 1..counts[g] : Starts(t, s \o Stamp(g, m))
    BY <2>1
  <2>3. g \in DOMAIN counts2 /\ m \in 1..counts2[g]
    BY <1>4
  <2> QED  BY <2>2, <2>3 DEF MetAfter
<1>7. ASSUME NEW i \in DOMAIN H, NEW j \in DOMAIN H, Longer(T[j], T[i]),
             Mark(T[j], T[i]) = Fingerprint, i \notin D
      PROVE  Late(T, seen \union P, counts2, i, j)
  <2>1. /\ H[i] \in HashValue /\ H[j] \in HashValue /\ T[i] \in HashValue /\ T[j] \in HashValue
        /\ Starts(T[i], H[i]) /\ Starts(T[j], H[j]) /\ Starts(T[j], T[i])
    BY <1>1, <1>2, <1>7 DEF Longer
  <2>2. i \notin P
    <3>1. SUFFICES ASSUME i \in P  PROVE FALSE
      OBVIOUS
    <3>2. CASE j \in P
      BY <1>3, <1>7, <3>1, <3>2
    <3>3. CASE j \notin P
      BY <1>1, <1>3, <2>1, <3>1, <3>3 DEF Told
    <3> QED  BY <3>2, <3>3
  <2>3. T[i] = H[i]
    BY <1>1, <2>2
  <2>4. CASE j \notin P
    <3>1. T[j] = H[j]
      BY <1>1, <2>4
    <3>2. Late(H, seen, counts, i, j)
      BY <1>7, <2>3, <3>1 DEF Stamping, Ordered
    <3> QED  BY <1>6, <2>2, <2>3, <3>1, <3>2 DEF Late
  <2>5. CASE j \in P
    <3>1. T[j] = H[j] \o Stamp(h, n) /\ Mark(T[j], H[j]) = Fingerprint /\ j \notin seen /\ j \notin D
      BY <1>1, <2>5 DEF Stamping
    <3>2. CASE Longer(H[j], H[i])
      <4>1. Mark(H[j], H[i]) = Fingerprint
        BY <1>7, <2>1, <2>3, <3>2, LongerStays
      <4>2. Late(H, seen, counts, i, j)
        BY <1>7, <3>2, <4>1 DEF Stamping, Ordered
      <4> QED  BY <3>1, <4>2 DEF Late
    <3>3. CASE Longer(H[i], H[j])
      <4>1. Mark(H[i], H[j]) = Fingerprint
        BY <2>1, <2>3, <3>1, <3>3, LongerStays
      <4>2. Late(H, seen, counts, j, i)
        BY <3>1, <3>3, <4>1 DEF Stamping, Ordered
      <4>3. PICK g \in DOMAIN counts : \E m \in 1..counts[g] : Starts(H[i], H[j] \o Stamp(g, m))
        BY <4>2 DEF Late, MetAfter
      <4>4. PICK m \in 1..counts[g] : Starts(H[i], H[j] \o Stamp(g, m))
        BY <4>3
      <4>5. g \in HashValue /\ h \in HashValue /\ m \in Nat
        BY DEF Stamping, IsCounting
      <4>6. Starts(T[j], H[j] \o Stamp(h, n)) /\ Starts(T[j], H[i])
        BY <2>1, <2>3, <3>1 DEF Starts, HashValue
      <4>7. g = h /\ m = n
        BY <1>1, <2>1, <4>4, <4>5, <4>6, StampsDiffer
      <4> QED  BY <1>4, <4>7
    <3>4. CASE H[i] = H[j]
      <4>1. i \notin seen
        BY <3>1, <3>4 DEF Stamping, SeenAlike
      <4>2. Starts(T[j], H[i] \o Stamp(h, n))
        BY <2>1, <3>1, <3>4 DEF Starts, HashValue
      <4>3. n \in 1..counts2[h]
        BY <1>4
      <4>4. MetAfter(counts2, T[i], T[j])
        BY <1>4, <2>3, <4>2, <4>3 DEF MetAfter
      <4> QED  BY <2>2, <2>5, <4>1, <4>4 DEF Late
    <3>5. Longer(H[j], H[i]) \/ Longer(H[i], H[j]) \/ H[i] = H[j]
      <4>1. Starts(T[j], H[i])
        BY <2>1, <2>3
      <4>2. Starts(H[j], H[i]) \/ Longer(H[i], H[j])
        BY <2>1, <4>1, StartsOfOne
      <4>3. Len(H[i]) \in Nat /\ Len(H[j]) \in Nat
        BY <2>1 DEF HashValue
      <4>4. Starts(H[j], H[i]) => Longer(H[j], H[i]) \/ H[i] = H[j]
        BY <2>1, <4>3, StartsSame DEF Longer
      <4> QED  BY <4>2, <4>4
    <3> QED  BY <3>2, <3>3, <3>4, <3>5
  <2> QED  BY <2>4, <2>5
<1>8. Ordered(T, D, seen \union P, counts2)
  BY <1>1, <1>7 DEF Ordered
<1>9. SeenAlike(T, seen \union P)
  BY <1>1, <1>5 DEF SeenAlike
<1> QED  BY <1>8, <1>9 DEF T, n, counts2

\* A table that grows inside a region only.
GrowsIn(T, U, P) ==
    /\ IsTable(T) /\ IsTable(U) /\ DOMAIN U = DOMAIN T /\ P \subseteq DOMAIN T
    /\ \A i \in DOMAIN T \ P : U[i] = T[i]
    /\ \A i \in P : Starts(U[i], T[i])

\* A table that grows inside a region, and merges nothing there, merges nothing.
LEMMA GrowInside ==
    ASSUME NEW T, NEW U, NEW P, GrowsIn(T, U, P), Told(T, P),
           \A i, j \in P : T[i] # T[j] => U[i] # U[j]
    PROVE  Told(U, P) /\ NoMerge(T, U)
<1>1. ASSUME NEW i \in P, NEW j \in DOMAIN T \ P, Starts(U[j], U[i])
      PROVE  FALSE
  <2>1. /\ T[i] \in HashValue /\ U[i] \in HashValue /\ U[j] \in HashValue /\ U[j] = T[j]
        /\ Starts(U[i], T[i])
    BY DEF GrowsIn, IsTable
  <2>2. Starts(T[j], T[i])
    BY <1>1, <2>1, StartsTransitive
  <2> QED  BY <2>2 DEF Told
<1>2. Told(U, P)
  BY <1>1 DEF Told, GrowsIn
<1>3. ASSUME NEW i \in DOMAIN T, NEW j \in DOMAIN T, T[i] # T[j], U[i] = U[j]
      PROVE  FALSE
  <2>1. Starts(U[i], U[j]) /\ Starts(U[j], U[i])
    <3>1. U[i] \in HashValue
      BY DEF GrowsIn, IsTable
    <3>2. Starts(U[i], U[i])
      BY <3>1 DEF Starts, HashValue
    <3> QED  BY <1>3, <3>2
  <2>2. i \in P <=> j \in P
    BY <1>1, <2>1
  <2> QED  BY <1>3, <2>2 DEF GrowsIn
<1> QED  BY <1>2, <1>3 DEF NoMerge

\* And it keeps the order of the stamps.
LEMMA GrowOrdered ==
    ASSUME NEW T, NEW U, NEW P, NEW G, NEW D, NEW seen, NEW counts,
           GrowsIn(T, U, P), Told(T, P),
           \A i, j \in P : T[i] # T[j] => U[i] # U[j],
           Within(U, P, G), Ordered(T, D, seen, counts), SeenAlike(T, seen)
    PROVE  Ordered(U, D, seen, counts) /\ SeenAlike(U, seen)
<1>1. Told(U, P) /\ NoMerge(T, U)
  BY GrowInside
<1>2. DOMAIN U = DOMAIN T
  BY DEF GrowsIn
<1>3. SeenAlike(U, seen)
  BY <1>1, <1>2 DEF NoMerge, SeenAlike
<1>4. ASSUME NEW i \in DOMAIN T, NEW j \in DOMAIN T, Longer(U[j], U[i]),
             Mark(U[j], U[i]) = Fingerprint, i \notin D
      PROVE  Late(U, seen, counts, i, j)
  <2>1. /\ T[i] \in HashValue /\ U[i] \in HashValue /\ T[j] \in HashValue /\ U[j] \in HashValue
        /\ Starts(U[j], U[i])
    BY <1>2, <1>4 DEF GrowsIn, IsTable, Longer
  <2>2. CASE i \in P
    <3>1. j \in P
      BY <1>1, <1>2, <2>1, <2>2 DEF Told
    <3> QED  BY <1>4, <2>2, <3>1 DEF Within
  <2>3. CASE i \notin P /\ j \notin P
    <3>1. U[i] = T[i] /\ U[j] = T[j]
      BY <2>3 DEF GrowsIn
    <3> QED  BY <1>4, <3>1 DEF Ordered, Late
  <2>4. CASE i \notin P /\ j \in P
    <3>1. U[i] = T[i] /\ Starts(U[j], T[j])
      BY <2>4 DEF GrowsIn
    <3>2. ~Starts(T[i], T[j])
      BY <2>4 DEF Told
    <3>3. Longer(T[j], T[i])
      <4>1. Starts(T[j], T[i]) \/ Longer(T[i], T[j])
        BY <2>1, <3>1, StartsOfOne
      <4>2. Starts(T[j], T[i])
        BY <3>2, <4>1 DEF Longer
      <4>3. Len(T[i]) \in Nat /\ Len(T[j]) \in Nat
        BY <2>1 DEF HashValue
      <4>4. T[i] # T[j]
        <5>1. Starts(T[j], T[j])
          BY <2>1 DEF Starts, HashValue
        <5> QED  BY <3>2, <5>1
      <4> QED  BY <2>1, <4>2, <4>3, <4>4, StartsSame DEF Longer
    <3>4. Mark(T[j], T[i]) = Fingerprint
      BY <1>4, <2>1, <3>1, <3>3, LongerStays
    <3>5. Late(T, seen, counts, i, j)
      BY <1>4, <3>3, <3>4 DEF Ordered
    <3>6. MetAfter(counts, U[i], U[j])
      <4>1. PICK g \in DOMAIN counts : \E m \in 1..counts[g] : Starts(T[j], T[i] \o Stamp(g, m))
        BY <3>5 DEF Late, MetAfter
      <4>2. PICK m \in 1..counts[g] : Starts(T[j], T[i] \o Stamp(g, m))
        BY <4>1
      <4>3. Starts(U[j], U[i] \o Stamp(g, m))
        BY <2>1, <3>1, <4>2 DEF Starts, HashValue
      <4> QED  BY <4>3 DEF MetAfter
    <3> QED  BY <3>5, <3>6 DEF Late
  <2> QED  BY <2>2, <2>3, <2>4
<1>5. Ordered(U, D, seen, counts)
  BY <1>2, <1>4 DEF Ordered
<1> QED  BY <1>3, <1>5

-----------------------------------------------------------------------------
(* The two ways a region's table grows after its stamp: one symbol is perturbed, and the
   turns of its context_propagate add a number, above the marks, to the nodes of G. *)
LEMMA AppendedOne ==
    ASSUME NEW s \in HashValue, NEW m \in Nat
    PROVE  /\ Append(s, m) \in HashValue /\ Len(Append(s, m)) = Len(s) + 1
           /\ Longer(Append(s, m), s) /\ Starts(Append(s, m), s) /\ Mark(Append(s, m), s) = m
<1>1. s \in Seq(Nat) /\ Len(s) \in Nat
  BY DEF HashValue
<1>2. /\ Append(s, m) \in Seq(Nat) /\ Len(Append(s, m)) = Len(s) + 1
      /\ Append(s, m)[Len(s) + 1] = m
      /\ \A k \in 1..Len(s) : Append(s, m)[k] = s[k]
  BY <1>1
<1> QED  BY <1>1, <1>2 DEF HashValue, Starts, Longer, Mark

\* Starts of a hash with one number more, and what goes on from it.
LEMMA AppendedSplits ==
    ASSUME NEW s \in HashValue, NEW t \in HashValue, NEW m \in Nat
    PROVE  /\ Starts(Append(s, m), t) => Starts(s, t) \/ t = Append(s, m)
           /\ Starts(t, Append(s, m)) => Longer(t, s) /\ Mark(t, s) = m
<1>1. /\ Append(s, m) \in HashValue /\ Len(Append(s, m)) = Len(s) + 1
      /\ Longer(Append(s, m), s) /\ Starts(Append(s, m), s) /\ Mark(Append(s, m), s) = m
  BY AppendedOne
<1>2. Len(s) \in Nat /\ Len(t) \in Nat
  BY DEF HashValue
<1>3. ASSUME Starts(Append(s, m), t)  PROVE Starts(s, t) \/ t = Append(s, m)
  <2>1. Starts(s, t) \/ Longer(t, s)
    BY <1>1, <1>3, StartsOfOne
  <2>2. CASE Longer(t, s)
    <3>1. Len(Append(s, m)) <= Len(t)
      BY <1>1, <1>2, <2>2 DEF Longer
    <3> QED  BY <1>1, <1>3, <3>1, StartsSame
  <2> QED  BY <2>1, <2>2
<1>4. ASSUME Starts(t, Append(s, m))  PROVE Longer(t, s) /\ Mark(t, s) = m
  BY <1>1, <1>4, LongerStays
<1> QED  BY <1>3, <1>4

\* Every hash starts itself and adds nothing to itself.
LEMMA LongerThanSelf ==
    ASSUME NEW s \in HashValue
    PROVE  ~Longer(s, s) /\ Starts(s, s)
  BY DEF HashValue, Longer, Starts

\* A region fresh from its stamp, of which one node is perturbed.
Perturbing(T, P, idx) ==
    /\ IsTable(T) /\ P \subseteq DOMAIN T /\ idx \in P
    /\ \A i, j \in P : ~Longer(T[j], T[i])
    /\ Told(T, P)

\* The table with that node perturbed.
PerturbedTable(T, idx) == [T EXCEPT ![idx] = Append(@, Perturbed)]

\* No other node has the hash of i.
Alone(H, i) == \A j \in DOMAIN H \ {i} : H[j] # H[i]

\* The perturbed node is alone with its hash, and no hashes are merged.
LEMMA PerturbTells ==
    ASSUME NEW T, NEW P, NEW idx, NEW G, Perturbing(T, P, idx)
    PROVE  LET U == PerturbedTable(T, idx)
           IN /\ GrowsIn(T, U, P)
              /\ \A i, j \in P : T[i] # T[j] => U[i] # U[j]
              /\ Within(U, P, G)
              /\ Alone(U, idx)
<1> DEFINE U == PerturbedTable(T, idx)
<1>1. \A i \in DOMAIN T : T[i] \in HashValue
  BY DEF Perturbing, IsTable
<1>2. /\ DOMAIN U = DOMAIN T /\ U[idx] = Append(T[idx], 0)
      /\ \A i \in DOMAIN T : i # idx => U[i] = T[i]
      /\ idx \in P /\ idx \in DOMAIN T /\ P \subseteq DOMAIN T
  BY DEF Perturbing, PerturbedTable, Perturbed
<1> HIDE DEF U
<1>3. U[idx] \in HashValue /\ Longer(U[idx], T[idx]) /\ Mark(U[idx], T[idx]) = 0 /\ Starts(U[idx], T[idx])
  BY <1>1, <1>2, AppendedOne
<1>4. \A i \in DOMAIN T : U[i] \in HashValue /\ Starts(U[i], T[i])
  BY <1>1, <1>2, <1>3, LongerThanSelf
<1>5. GrowsIn(T, U, P)
  BY <1>1, <1>2, <1>4 DEF GrowsIn, IsTable
<1>6. ASSUME NEW i \in P, i # idx, Starts(T[i], U[idx])  PROVE FALSE
  <2>1. Longer(T[i], T[idx])
    BY <1>1, <1>2, <1>6, AppendedSplits
  <2> QED  BY <1>2, <2>1 DEF Perturbing
<1>7. ASSUME NEW j \in DOMAIN T, j # idx  PROVE U[j] # U[idx]
  <2>1. SUFFICES ASSUME T[j] = U[idx]  PROVE FALSE
    BY <1>2, <1>7
  <2>2. Starts(T[j], U[idx])
    <3>1. Starts(U[idx], U[idx])
      BY <1>3, LongerThanSelf
    <3> QED  BY <2>1, <3>1
  <2>3. CASE j \in P
    BY <1>6, <1>7, <2>2, <2>3
  <2>4. CASE j \notin P
    <3>1. Starts(T[j], T[idx])
      BY <1>3, <2>1
    <3> QED  BY <1>2, <2>4, <3>1 DEF Perturbing, Told
  <2> QED  BY <2>3, <2>4
<1>8. ASSUME NEW i \in P, NEW j \in P, T[i] # T[j]  PROVE U[i] # U[j]
  <2>1. i # j
    BY <1>8
  <2>2. CASE i = idx \/ j = idx
    BY <1>2, <1>7, <2>1, <2>2
  <2>3. CASE i # idx /\ j # idx
    BY <1>2, <1>8, <2>3
  <2> QED  BY <2>2, <2>3
<1>9. ASSUME NEW i \in P, NEW j \in P, Longer(U[j], U[i])  PROVE Mark(U[j], U[i]) = 0
  <2>1. i # j
    BY <1>2, <1>4, <1>9, LongerThanSelf
  <2>2. CASE i = idx
    <3>1. Starts(T[j], U[idx])
      BY <1>2, <1>9, <2>1, <2>2 DEF Longer
    <3> QED  BY <1>6, <2>1, <2>2, <3>1
  <2>3. CASE j = idx
    <3>1. Starts(Append(T[idx], 0), T[i]) /\ U[i] = T[i]
      BY <1>2, <1>9, <2>1, <2>3 DEF Longer
    <3>2. Starts(T[idx], T[i]) \/ T[i] = U[idx]
      BY <1>1, <1>2, <3>1, AppendedSplits
    <3>3. T[i] # U[idx]
      BY <1>2, <1>7, <2>1, <2>3
    <3>4. T[i] = T[idx]
      <4>1. ~Longer(T[idx], T[i])
        BY <1>2 DEF Perturbing
      <4>2. Len(T[i]) \in Nat /\ Len(T[idx]) \in Nat
        BY <1>1, <1>2 DEF HashValue
      <4>3. Len(T[idx]) <= Len(T[i])
        BY <3>2, <3>3, <4>1, <4>2 DEF Longer
      <4> QED  BY <1>1, <1>2, <3>2, <3>3, <4>3, StartsSame
    <3> QED  BY <1>3, <2>3, <3>1, <3>4
  <2>4. CASE i # idx /\ j # idx
    BY <1>2, <1>9, <2>4 DEF Perturbing
  <2> QED  BY <2>2, <2>3, <2>4
<1>10. Within(U, P, G)
  BY <1>9 DEF Within, Fingerprint, Perturbed
<1>11. Alone(U, idx)
  BY <1>2, <1>7 DEF Alone
<1> QED  BY <1>5, <1>8, <1>10, <1>11 DEF U

\* A turn of propagate over P, which adds the numbers r to the nodes of G.
Sweeping(T, P, G, r) ==
    /\ IsTable(T) /\ P \subseteq DOMAIN T /\ G \subseteq P
    /\ \A i \in G : r[i] \in Nat /\ r[i] > 1
    /\ Within(T, P, G)

\* The table after it.
SweptTable(T, G, r) == [i \in DOMAIN T |-> IF i \in G THEN Append(T[i], r[i]) ELSE T[i]]

\* A turn merges no hashes, and keeps what Within says.
LEMMA SweepTells ==
    ASSUME NEW T, NEW P, NEW G, NEW r, Sweeping(T, P, G, r)
    PROVE  LET U == SweptTable(T, G, r)
           IN /\ GrowsIn(T, U, P)
              /\ \A i, j \in P : T[i] # T[j] => U[i] # U[j]
              /\ Within(U, P, G)
<1> DEFINE U == SweptTable(T, G, r)
<1>1. /\ \A i \in DOMAIN T : T[i] \in HashValue
      /\ \A i \in G : r[i] \in Nat /\ r[i] > 1
      /\ P \subseteq DOMAIN T /\ G \subseteq P
  BY DEF Sweeping, IsTable
<1>2. /\ DOMAIN U = DOMAIN T
      /\ \A i \in G : U[i] = Append(T[i], r[i])
      /\ \A i \in DOMAIN T : i \notin G => U[i] = T[i]
  BY <1>1 DEF SweptTable
<1> HIDE DEF U
<1>3. \A i \in G : /\ U[i] \in HashValue /\ Len(U[i]) = Len(T[i]) + 1
                   /\ Longer(U[i], T[i]) /\ Mark(U[i], T[i]) = r[i] /\ Starts(U[i], T[i])
  <2> TAKE i \in G
  <2>1. T[i] \in HashValue /\ r[i] \in Nat /\ U[i] = Append(T[i], r[i])
    BY <1>1, <1>2
  <2> QED  BY <2>1, AppendedOne
<1>4. \A i \in DOMAIN T : U[i] \in HashValue /\ Starts(U[i], T[i])
  BY <1>1, <1>2, <1>3, LongerThanSelf
<1>5. GrowsIn(T, U, P)
  BY <1>1, <1>2, <1>4 DEF GrowsIn, IsTable
\* Nothing of P goes on from a value that was swept.
<1>6. ASSUME NEW i \in G, NEW j \in P, Starts(T[j], U[i])  PROVE FALSE
  <2>1. Longer(T[j], T[i]) /\ Mark(T[j], T[i]) = r[i]
    <3>1. T[i] \in HashValue /\ T[j] \in HashValue /\ r[i] \in Nat /\ Starts(T[j], Append(T[i], r[i]))
      BY <1>1, <1>2, <1>6
    <3> QED  BY <3>1, AppendedSplits
  <2>2. r[i] = 0
    BY <1>1, <2>1 DEF Sweeping, Within, Perturbed
  <2> QED  BY <1>1, <2>2
<1>7. ASSUME NEW i \in P, NEW j \in P, T[i] # T[j], U[i] = U[j]  PROVE FALSE
  <2>0. U[i] \in HashValue /\ U[j] \in HashValue
    BY <1>1, <1>4
  <2>1. CASE i \in G /\ j \in G
    <3>1. Append(T[i], r[i]) = Append(T[j], r[j])
      BY <1>2, <1>7, <2>1
    <3>2. Len(T[i]) = Len(T[j])
      <4>1. Len(T[i]) \in Nat /\ Len(T[j]) \in Nat /\ Len(U[i]) = Len(U[j])
        BY <1>1, <1>7 DEF HashValue
      <4> QED  BY <1>3, <2>1, <4>1
    <3>3. Starts(U[i], T[i]) /\ Starts(U[i], T[j])
      BY <1>3, <1>7, <2>1
    <3>4. T[i] \in HashValue /\ T[j] \in HashValue
      BY <1>1
    <3>5. Starts(T[i], T[j]) \/ Starts(T[j], T[i])
      BY <2>0, <3>3, <3>4, StartsOfOne DEF Longer
    <3>6. Len(T[i]) <= Len(T[j]) /\ Len(T[j]) <= Len(T[i])
      BY <3>2, <3>4 DEF HashValue
    <3> QED  BY <1>7, <3>4, <3>5, <3>6, StartsSame
  <2>2. CASE i \in G /\ j \notin G
    <3>1. T[j] = U[i]
      BY <1>1, <1>2, <1>7, <2>2
    <3>2. Starts(T[j], U[i])
      BY <2>0, <3>1, LongerThanSelf
    <3> QED  BY <1>6, <2>2, <3>2
  <2>3. CASE i \notin G /\ j \in G
    <3>1. T[i] = U[j]
      BY <1>1, <1>2, <1>7, <2>3
    <3>2. Starts(T[i], U[j])
      BY <2>0, <3>1, LongerThanSelf
    <3> QED  BY <1>6, <2>3, <3>2
  <2>4. CASE i \notin G /\ j \notin G
    BY <1>1, <1>2, <1>7, <2>4
  <2> QED  BY <2>1, <2>2, <2>3, <2>4
<1>8. ASSUME NEW i \in P, NEW j \in P, Longer(U[j], U[i])
      PROVE  Mark(U[j], U[i]) # Fingerprint /\ (Mark(U[j], U[i]) = Perturbed \/ i \notin G)
  <2>1. /\ T[i] \in HashValue /\ T[j] \in HashValue /\ U[i] \in HashValue /\ U[j] \in HashValue
        /\ Starts(U[j], U[i]) /\ Starts(U[j], T[j]) /\ Starts(U[i], T[i])
    BY <1>1, <1>4, <1>8 DEF Longer
  <2>2. Len(T[i]) \in Nat /\ Len(T[j]) \in Nat /\ Len(U[i]) \in Nat /\ Len(U[j]) \in Nat
        /\ Len(U[i]) < Len(U[j])
    BY <1>8, <2>1 DEF HashValue, Longer
  <2>3. CASE i \in G
    <3>1. CASE j \in G
      <4>1. U[j] = Append(T[j], r[j]) /\ r[j] \in Nat /\ U[i] # U[j]
        BY <1>1, <1>2, <2>2, <3>1
      <4>2. Starts(T[j], U[i])
        BY <2>1, <4>1, AppendedSplits
      <4> QED  BY <1>6, <2>3, <4>2
    <3>2. CASE j \notin G
      <4>1. U[j] = T[j]
        BY <1>1, <1>2, <3>2
      <4> QED  BY <1>6, <2>1, <2>3, <4>1
    <3> QED  BY <3>1, <3>2
  <2>4. CASE i \notin G
    <3>1. U[i] = T[i]
      BY <1>1, <1>2, <2>4
    <3>2. CASE Longer(T[j], T[i])
      <4>1. Mark(U[j], U[i]) = Mark(T[j], T[i])
        BY <2>1, <3>1, <3>2, LongerStays
      <4> QED  BY <2>4, <3>2, <4>1 DEF Sweeping, Within
    <3>3. CASE ~Longer(T[j], T[i])
      <4>1. j \in G
        BY <1>1, <1>2, <1>8, <3>1, <3>3
      <4>2. U[j] = Append(T[j], r[j]) /\ r[j] \in Nat /\ U[i] # U[j] /\ r[j] > 1
        BY <1>1, <1>2, <2>2, <4>1
      <4>3. Starts(T[j], T[i])
        BY <2>1, <3>1, <4>2, AppendedSplits
      <4>4. T[i] = T[j]
        BY <2>1, <2>2, <3>3, <4>3, StartsSame DEF Longer
      <4>5. Mark(U[j], U[i]) = r[j]
        BY <1>3, <3>1, <4>1, <4>4
      <4> QED  BY <2>4, <4>2, <4>5 DEF Fingerprint
    <3> QED  BY <3>2, <3>3
  <2> QED  BY <2>3, <2>4
<1>9. Within(U, P, G)
  BY <1>8 DEF Within
<1> QED  BY <1>5, <1>7, <1>9 DEF U

\* hash_mix numbers the values from 2 on.
LEMMA MixedNumbers ==
    ASSUME NEW table, IsFiniteSet(DOMAIN table)
    PROVE  /\ DOMAIN hash_mix(table) = DOMAIN table
           /\ \A n \in DOMAIN table : hash_mix(table)[n] \in Nat /\ hash_mix(table)[n] > 1
<1> DEFINE values == {table[n] : n \in DOMAIN table}
           f == [n \in DOMAIN table |-> table[n]]
           number == [v \in values |-> Cardinality({w \in values : Before(w, v)}) + 2]
<1>1. f \in Surjection(DOMAIN table, values)
  BY DEF Surjection
<1>2. IsFiniteSet(values)
  <2> HIDE DEF values, f
  <2> QED  BY <1>1, FS_Surjection
<1>3. hash_mix(table) = [n \in DOMAIN table |-> number[table[n]]]
  BY DEF hash_mix
<1>4. \A n \in DOMAIN table : table[n] \in values
  OBVIOUS
<1> HIDE DEF values
<1>5. ASSUME NEW v \in values  PROVE number[v] \in Nat /\ number[v] > 1
  <2>1. {w \in values : Before(w, v)} \in SUBSET values
    OBVIOUS
  <2>2. Cardinality({w \in values : Before(w, v)}) \in Nat
    BY <1>2, <2>1, FS_Subset, FS_CardinalityType
  <2>3. number[v] = Cardinality({w \in values : Before(w, v)}) + 2
    OBVIOUS
  <2> QED  BY <2>2, <2>3
<1> HIDE DEF number
<1> QED  BY <1>3, <1>4, <1>5

\* Sequences that are put one after another give a sequence.
Chaining(S) == << >> \in S /\ \A x, y \in S : x \o y \in S

\* FlattenSeq puts the sequences one after another, however many there are.
LEMMA FlattenWithin ==
    ASSUME NEW S, Chaining(S), NEW seqs \in Seq(S)
    PROVE  FlattenSeq(seqs) \in S
<1>0. PICK N \in Nat : N = Len(seqs)
  OBVIOUS
<1> DEFINE FlatUpTo(n, f) == f = [i \in 1..n |-> IF i = 1 THEN seqs[i] ELSE f[i - 1] \o seqs[i]]
           Missing == {n \in 1..N : ~\E f : FlatUpTo(n, f) /\ f[n] \in S}
<1>1. N \in Nat /\ \A i \in 1..N : seqs[i] \in S
  BY <1>0
<1>2. CASE N = 0
  <2>1. seqs = << >>
    BY <1>0, <1>2, EmptySeq
  <2> QED  BY <1>0, <1>2, <2>1 DEF FlattenSeq, Chaining
<1>3. CASE N # 0
  <2>1. Missing = {}
    <3> SUFFICES ASSUME Missing # {}  PROVE FALSE
      OBVIOUS
    <3>1. Missing \in SUBSET Nat
      <4>1. Missing \subseteq 1..N
        BY Zenon
      <4> HIDE DEF Missing
      <4> QED  BY <4>1
    <3>2. PICK n \in Missing : \A m \in Missing : n <= m
      <4> HIDE DEF Missing
      <4> QED  BY <3>1, SetHasFirst
    <3>3. n \in 1..N /\ ~\E f : FlatUpTo(n, f) /\ f[n] \in S
      BY <3>2
    <3>4. CASE n = 1
      <4> DEFINE one == [i \in 1..1 |-> seqs[i]]
      <4>1. FlatUpTo(1, one) /\ one[1] \in S
        BY <1>1, <3>3
      <4> QED  BY <3>3, <3>4, <4>1
    <3>5. CASE n # 1
      <4>1. n - 1 \in 1..N /\ n - 1 \notin Missing
        <5>1. n \in Nat /\ n - 1 \in 1..N /\ ~(n <= n - 1)
          BY <1>1, <3>3, <3>5
        <5> HIDE DEF Missing
        <5> QED  BY <3>2, <5>1
      <4>2. PICK f : FlatUpTo(n - 1, f) /\ f[n - 1] \in S
        BY <4>1
      <4>0. PICK last : last = f[n - 1] \o seqs[n]
        OBVIOUS
      <4> DEFINE more == [i \in 1..n |-> IF i = n THEN last ELSE f[i]]
      <4>3. /\ \A i \in 1..n : i # n => i \in 1..(n - 1) /\ more[i] = f[i]
            /\ more[n] = last
            /\ \A i \in 1..n : i # 1 => more[i - 1] = f[i - 1]
        BY <1>1, <3>3, <3>5
      <4>4. \A i \in 1..n : more[i] = IF i = 1 THEN seqs[i] ELSE more[i - 1] \o seqs[i]
        <5> TAKE i \in 1..n
        <5>1. CASE i = n
          <6>1. more[i - 1] = f[n - 1] /\ more[i] = last
            BY <5>1, <3>5, <4>3
          <6> HIDE DEF more
          <6> QED  BY <5>1, <3>5, <4>0, <6>1
        <5>2. CASE i # n
          <6>1. i \in 1..(n - 1) /\ more[i] = f[i]
            BY <4>3, <5>2
          <6>2. f[i] = IF i = 1 THEN seqs[i] ELSE f[i - 1] \o seqs[i]
            BY <4>2, <6>1
          <6> HIDE DEF more
          <6> QED  BY <4>3, <6>1, <6>2
        <5> QED  BY <5>1, <5>2
      <4>5. FlatUpTo(n, more)
        BY <4>4
      <4>6. more[n] \in S
        <5> HIDE DEF more
        <5>1. f[n - 1] \in S /\ seqs[n] \in S
          BY <1>1, <3>3, <4>2
        <5>2. last \in S
          BY <4>0, <5>1, Zenon DEF Chaining
        <5>3. more[n] = last
          BY <3>3, <4>3
        <5> QED  BY <5>2, <5>3
      <4> QED
        <5> HIDE DEF more
        <5> QED  BY <3>3, <4>5, <4>6
    <3> QED  BY <3>4, <3>5
  <2>2. PICK f : FlatUpTo(N, f) /\ f[N] \in S
    <3>1. N \in 1..N /\ N \notin Missing
      <4>1. N \in 1..N
        BY <1>1, <1>3
      <4> HIDE DEF Missing
      <4> QED  BY <2>1, <4>1
    <3> HIDE DEF FlatUpTo
    <3> QED  BY <3>1
  <2> DEFINE all == CHOOSE g : FlatUpTo(N, g)
  <2>3. FlatUpTo(N, all)
    BY <2>2
  <2>4. FlattenSeq(seqs) = all[N]
    BY <1>0, <1>3 DEF FlattenSeq
  <2>5. all[N] = f[N]
    <3> DEFINE Apart == {n \in 1..N : all[n] # f[n]}
    <3>1. Apart = {}
      <4> SUFFICES ASSUME Apart # {}  PROVE FALSE
        OBVIOUS
      <4>1. Apart \in SUBSET Nat
        <5>1. Apart \subseteq 1..N
          BY Zenon
        <5> HIDE DEF Apart
        <5> QED  BY <5>1
      <4>2. PICK n \in Apart : \A m \in Apart : n <= m
        <5> HIDE DEF Apart
        <5> QED  BY <4>1, SetHasFirst
      <4> HIDE DEF all
      <4>3. n \in 1..N /\ all[n] # f[n]
        BY <4>2
      <4>4. /\ all[n] = IF n = 1 THEN seqs[n] ELSE all[n - 1] \o seqs[n]
            /\ f[n] = IF n = 1 THEN seqs[n] ELSE f[n - 1] \o seqs[n]
        <5>1. \A i \in 1..N : all[i] = IF i = 1 THEN seqs[i] ELSE all[i - 1] \o seqs[i]
          <6>1. all = [i \in 1..N |-> IF i = 1 THEN seqs[i] ELSE all[i - 1] \o seqs[i]]
            BY <2>3
          <6> QED  BY <6>1, Zenon
        <5>2. \A i \in 1..N : f[i] = IF i = 1 THEN seqs[i] ELSE f[i - 1] \o seqs[i]
          <6>1. f = [i \in 1..N |-> IF i = 1 THEN seqs[i] ELSE f[i - 1] \o seqs[i]]
            BY <2>2
          <6> QED  BY <6>1, Zenon
        <5> QED  BY <4>3, <5>1, <5>2
      <4>5. n # 1
        BY <4>3, <4>4
      <4>6. n - 1 \in 1..N /\ ~(n <= n - 1)
        BY <1>1, <4>3, <4>5
      <4>7. all[n - 1] = f[n - 1]
        <5>1. n - 1 \notin Apart
          <6> HIDE DEF Apart
          <6> QED  BY <4>2, <4>6
        <5> QED  BY <4>6, <5>1
      <4> QED  BY <4>3, <4>4, <4>7
    <3>2. N \in 1..N
      BY <1>1, <1>3
    <3> HIDE DEF all
    <3> QED  BY <3>1, <3>2
  <2> QED  BY <2>2, <2>4, <2>5
<1> QED  BY <1>2, <1>3

\* The hash of a region is one.
LEMMA RegionHashTyped ==
    ASSUME NEW symbols, IsFiniteSet(symbols), \A i \in symbols : d_hash_table[i] \in HashValue
    PROVE  symbols_hash(symbols) \in HashValue
<1> DEFINE At(k) == {i \in symbols : k = 1 + Cardinality({j \in symbols :
                                         Before(d_hash_table[j], d_hash_table[i])})}
           Met(k) == LET h == d_hash_table[CHOOSE i \in At(k) : TRUE]
                     IN IF At(k) = {} THEN << >> ELSE <<Cardinality(At(k)), Len(h)>> \o h
           seqs == [k \in 1..Cardinality(symbols) |-> Met(k)]
<1>1. symbols_hash(symbols) = FlattenSeq(seqs)
  BY DEF symbols_hash
<1>2. Cardinality(symbols) \in Nat
  BY FS_CardinalityType
<1>3. ASSUME NEW k \in 1..Cardinality(symbols)  PROVE Met(k) \in Seq(Nat)
  <2>1. CASE At(k) = {}
    <3>1. Met(k) = << >>
      BY <2>1
    <3> QED  BY <3>1
  <2>2. CASE At(k) # {}
    <3>1. At(k) \in SUBSET symbols
      OBVIOUS
    <3> HIDE DEF At
    <3>2. Cardinality(At(k)) \in Nat
      BY <3>1, FS_Subset, FS_CardinalityType
    <3>3. PICK h : h = d_hash_table[CHOOSE i \in At(k) : TRUE]
      OBVIOUS
    <3>4. h \in Seq(Nat) /\ Len(h) \in Nat
      BY <2>2, <3>1, <3>3 DEF HashValue
    <3>5. PICK c \in Nat : c = Cardinality(At(k))
      BY <3>2
    <3>6. Met(k) = <<c, Len(h)>> \o h
      BY <2>2, <3>3, <3>5
    <3>7. <<c, Len(h)>> \in Seq(Nat)
      BY <3>4
    <3> HIDE DEF Met
    <3> QED  BY <3>4, <3>6, <3>7
  <2> QED  BY <2>1, <2>2
<1>4. seqs \in Seq(Seq(Nat))
  <2> HIDE DEF Met
  <2> QED  BY <1>2, <1>3
<1> HIDE DEF seqs
<1>5. PICK S : S = Seq(Nat)
  OBVIOUS
<1>6. Chaining(S)
  BY <1>5 DEF Chaining
<1>7. seqs \in Seq(S)
  BY <1>4, <1>5
<1>8. FlattenSeq(seqs) \in S
  BY ONLY <1>6, <1>7, FlattenWithin
<1> QED  BY <1>1, <1>5, <1>8 DEF HashValue

-----------------------------------------------------------------------------
(* The order of hashes is one, and the lowest tied hash exists when there is a tie. *)
LEMMA BeforeMeans ==
    ASSUME NEW s \in HashValue, NEW t \in HashValue
    PROVE  Before(s, t) <=>
             \/ Longer(t, s)
             \/ \E p \in 1..Len(s) : /\ p <= Len(t) /\ s[p] < t[p]
                                     /\ \A q \in 1..(p - 1) : s[q] = t[q]
<1> DEFINE apart == {i \in DOMAIN s \intersect DOMAIN t : s[i] # t[i]}
<1>1. /\ Len(s) \in Nat /\ Len(t) \in Nat /\ DOMAIN s = 1..Len(s) /\ DOMAIN t = 1..Len(t)
      /\ \A i \in 1..Len(s) : s[i] \in Nat
      /\ \A i \in 1..Len(t) : t[i] \in Nat
  BY DEF HashValue
<1>2. Before(s, t) <=> IF apart = {} THEN Len(s) < Len(t) ELSE s[Min(apart)] < t[Min(apart)]
  BY DEF Before
<1>3. apart \in SUBSET Nat /\ \A i \in apart : i \in 1..Len(s) /\ i <= Len(t) /\ s[i] # t[i]
  BY <1>1
<1>4. \A i \in 1..Len(s) : i <= Len(t) /\ s[i] # t[i] => i \in apart
  BY <1>1
<1> HIDE DEF apart
<1>5. CASE apart = {}
  <2>1. \A i \in 1..Len(s) : i <= Len(t) => s[i] = t[i]
    BY <1>4, <1>5
  <2>2. Longer(t, s) <=> Len(s) < Len(t)
    BY <1>1, <2>1 DEF Longer, Starts
  <2>3. \A p \in 1..Len(s) : p <= Len(t) => ~(s[p] < t[p])
    BY <1>1, <2>1
  <2> QED  BY <1>2, <1>5, <2>2, <2>3
<1>6. CASE apart # {}
  <2>1. PICK p \in apart : \A q \in apart : p <= q
    BY <1>3, <1>6, SetHasFirst
  <2>2. Min(apart) = p
    <3>1. \E x \in apart : \A y \in apart : x <= y
      BY <2>1
    <3>2. Min(apart) \in apart /\ \A y \in apart : Min(apart) <= y
      BY <3>1 DEF Min
    <3>3. p <= Min(apart) /\ Min(apart) <= p /\ p \in Nat /\ Min(apart) \in Nat
      BY <1>3, <2>1, <3>2
    <3> QED  BY <3>3
  <2>3. p \in 1..Len(s) /\ p <= Len(t) /\ s[p] # t[p] /\ p \in Nat
    BY <1>3, <2>1
  <2>4. \A q \in 1..(p - 1) : s[q] = t[q]
    <3> TAKE q \in 1..(p - 1)
    <3>1. q \in 1..Len(s) /\ q <= Len(t) /\ ~(p <= q)
      BY <1>1, <2>3
    <3>2. q \notin apart
      BY <2>1, <3>1
    <3> QED  BY <1>4, <3>1, <3>2
  <2>5. ~Longer(t, s)
    BY <2>3 DEF Longer, Starts
  <2>6. ASSUME NEW o \in 1..Len(s), o <= Len(t), s[o] < t[o], \A q \in 1..(o - 1) : s[q] = t[q]
        PROVE  o = p
    <3>1. o \in apart
      BY <1>1, <1>4, <2>6
    <3>2. p <= o
      BY <2>1, <3>1
    <3>3. ~(p < o)
      <4>1. SUFFICES ASSUME p < o  PROVE FALSE
        OBVIOUS
      <4>2. p \in 1..(o - 1)
        BY <2>3, <4>1
      <4> QED  BY <2>3, <2>6, <4>2
    <3> QED  BY <2>3, <3>2, <3>3
  <2>7. Before(s, t) <=> s[p] < t[p]
    BY <1>2, <1>6, <2>2
  <2> QED  BY <2>3, <2>4, <2>5, <2>6, <2>7
<1> QED  BY <1>5, <1>6

\* Nothing is before itself, and what is before something is before all that follows it.
LEMMA BeforeIsOrder ==
    ASSUME NEW s \in HashValue, NEW t \in HashValue, NEW u \in HashValue
    PROVE  /\ ~Before(s, s)
           /\ Before(s, t) /\ Before(t, u) => Before(s, u)
<1>1. /\ Len(s) \in Nat /\ Len(t) \in Nat /\ Len(u) \in Nat
      /\ \A i \in 1..Len(s) : s[i] \in Nat
      /\ \A i \in 1..Len(t) : t[i] \in Nat
      /\ \A i \in 1..Len(u) : u[i] \in Nat
  BY DEF HashValue
<1>2. ~Before(s, s)
  <2>1. ~Longer(s, s) /\ \A p \in 1..Len(s) : ~(s[p] < s[p])
    BY <1>1, LongerThanSelf
  <2> QED  BY <2>1, BeforeMeans
<1>3. ASSUME Before(s, t), Before(t, u)  PROVE Before(s, u)
  <2>1. CASE Longer(t, s) /\ Longer(u, t)
    <3>1. Longer(u, s)
      BY <2>1, LongerStays DEF Longer
    <3> QED  BY <3>1, BeforeMeans
  <2>2. ASSUME NEW p \in 1..Len(s), p <= Len(t), s[p] < t[p], \A q \in 1..(p - 1) : s[q] = t[q],
               Longer(u, t)
        PROVE  Before(s, u)
    <3>1. p \in 1..Len(t) /\ p <= Len(u) /\ \A q \in 1..Len(t) : u[q] = t[q]
      BY <1>1, <2>2 DEF Longer, Starts
    <3>2. \A q \in 1..(p - 1) : s[q] = u[q]
      <4> TAKE q \in 1..(p - 1)
      <4>1. q \in 1..Len(t)
        BY <1>1, <2>2
      <4> QED  BY <2>2, <3>1, <4>1
    <3>3. s[p] < u[p]
      BY <2>2, <3>1
    <3> QED  BY <3>1, <3>2, <3>3, BeforeMeans
  <2>3. ASSUME NEW p \in 1..Len(t), p <= Len(u), t[p] < u[p], \A q \in 1..(p - 1) : t[q] = u[q],
               Longer(t, s)
        PROVE  Before(s, u)
    <3>1. Len(s) < Len(t) /\ \A q \in 1..Len(s) : t[q] = s[q]
      BY <2>3 DEF Longer, Starts
    <3>2. CASE p <= Len(s)
      <4>1. p \in 1..Len(s) /\ s[p] < u[p]
        BY <2>3, <3>1, <3>2
      <4>2. \A q \in 1..(p - 1) : s[q] = u[q]
        <5> TAKE q \in 1..(p - 1)
        <5>1. q \in 1..Len(s)
          BY <1>1, <3>2
        <5> QED  BY <2>3, <3>1, <5>1
      <4> QED  BY <2>3, <4>1, <4>2, BeforeMeans
    <3>3. CASE ~(p <= Len(s))
      <4>1. \A q \in 1..Len(s) : u[q] = s[q]
        <5> TAKE q \in 1..Len(s)
        <5>1. q \in 1..(p - 1)
          BY <1>1, <3>3
        <5> QED  BY <2>3, <3>1, <5>1
      <4>2. Longer(u, s)
        BY <1>1, <2>3, <3>3, <4>1 DEF Longer, Starts
      <4> QED  BY <4>2, BeforeMeans
    <3> QED  BY <3>2, <3>3
  <2>4. ASSUME NEW p \in 1..Len(s), p <= Len(t), s[p] < t[p], \A q \in 1..(p - 1) : s[q] = t[q],
               NEW o \in 1..Len(t), o <= Len(u), t[o] < u[o], \A q \in 1..(o - 1) : t[q] = u[q]
        PROVE  Before(s, u)
    <3>1. CASE p <= o
      <4>1. t[p] <= u[p] /\ p <= Len(u) /\ p \in 1..Len(t) /\ p \in 1..Len(u)
        BY <1>1, <2>4, <3>1
      <4>2. s[p] < u[p]
        BY <1>1, <2>4, <4>1
      <4>3. \A q \in 1..(p - 1) : s[q] = u[q]
        <5> TAKE q \in 1..(p - 1)
        <5>1. q \in 1..(o - 1)
          BY <1>1, <3>1
        <5> QED  BY <2>4, <5>1
      <4> QED  BY <4>1, <4>2, <4>3, BeforeMeans
    <3>2. CASE o < p
      <4>1. o \in 1..(p - 1) /\ o \in 1..Len(s)
        BY <1>1, <3>2
      <4>2. s[o] < u[o]
        BY <2>4, <4>1
      <4>3. \A q \in 1..(o - 1) : s[q] = u[q]
        <5> TAKE q \in 1..(o - 1)
        <5>1. q \in 1..(p - 1)
          BY <1>1, <3>2
        <5> QED  BY <2>4, <5>1
      <4> QED  BY <2>4, <4>1, <4>2, <4>3, BeforeMeans
    <3> QED  BY <1>1, <3>1, <3>2
  <2>5. Longer(t, s) \/ \E p \in 1..Len(s) : /\ p <= Len(t) /\ s[p] < t[p]
                                             /\ \A q \in 1..(p - 1) : s[q] = t[q]
    BY <1>3, BeforeMeans
  <2>6. Longer(u, t) \/ \E p \in 1..Len(t) : /\ p <= Len(u) /\ t[p] < u[p]
                                             /\ \A q \in 1..(p - 1) : t[q] = u[q]
    BY <1>3, BeforeMeans
  <2> QED  BY <2>1, <2>2, <2>3, <2>4, <2>5, <2>6
<1> QED  BY <1>2, <1>3

\* If there is no lowest tied hash there are no ties.
LEMMA NoneTied ==
    ASSUME NEW table, NEW symbols, IsFiniteSet(symbols),
           \A i \in symbols : table[i] \in HashValue,
           LowestTied(table, symbols) = {}
    PROVE  \A i, j \in symbols : i # j => table[i] # table[j]
<1> DEFINE tied == {i \in symbols : \E j \in symbols \ {i} : table[i] = table[j]}
           Below(i) == {j \in tied : Before(table[j], table[i])}
           rank(i) == Cardinality(Below(i))
<1>1. SUFFICES ASSUME tied # {}  PROVE FALSE
  OBVIOUS
<1>2. tied \subseteq symbols /\ \A i \in tied : \E j \in tied : Before(table[j], table[i])
  BY DEF LowestTied
<1>3. IsFiniteSet(tied) /\ \A i \in tied : table[i] \in HashValue
  <2>1. tied \in SUBSET symbols
    OBVIOUS
  <2> QED  BY <2>1, FS_Subset
<1> HIDE DEF tied
<1>4. \A i \in tied : IsFiniteSet(Below(i)) /\ rank(i) \in Nat
  <2> TAKE i \in tied
  <2>1. Below(i) \in SUBSET tied
    OBVIOUS
  <2> HIDE DEF Below
  <2> QED  BY <1>3, <2>1, FS_Subset, FS_CardinalityType
<1> DEFINE ranks == {rank(i) : i \in tied}
<1>5. PICK i \in tied : \A j \in tied : rank(i) <= rank(j)
  <2>1. ranks \in SUBSET Nat /\ ranks # {}
    <3> HIDE DEF rank
    <3> QED  BY <1>1, <1>4
  <2>2. PICK r \in ranks : \A q \in ranks : r <= q
    <3> HIDE DEF ranks
    <3> QED  BY <2>1, SetHasFirst
  <2> HIDE DEF rank
  <2> QED  BY <2>2
<1>6. PICK j \in tied : Before(table[j], table[i])
  BY <1>2
<1>7. Below(j) \subseteq Below(i)
  <2>1. \A k \in tied : Before(table[k], table[j]) => Before(table[k], table[i])
    BY <1>3, <1>6, BeforeIsOrder
  <2> QED  BY <2>1
<1>8. j \in Below(i) /\ j \notin Below(j)
  BY <1>3, <1>6, BeforeIsOrder
<1>9. rank(j) <= rank(i) /\ rank(j) # rank(i)
  <2>1. IsFiniteSet(Below(i)) /\ Below(j) \in SUBSET Below(i) /\ Below(j) # Below(i)
    BY <1>4, <1>7, <1>8
  <2> HIDE DEF Below
  <2> QED  BY <2>1, FS_Subset
<1>10. rank(i) \in Nat /\ rank(j) \in Nat /\ rank(i) <= rank(j)
  BY <1>4, <1>5
<1> HIDE DEF rank
<1> QED  BY <1>9, <1>10

\* Hashes are sequences of numbers that start with the class of their node.
HashesTyped ==
    \A i \in Numbers : /\ d_hash_table[i] \in HashValue
                       /\ d_hash_table[i][1] = input.class[d_nodes[i]]
                       /\ Len(d_hash_table[i]) > 0

\* The nodes a turn of context_propagate adds to.
Growing == {i \in call.processing : options.cp \/ d_graph[i] # << >>}

\* No region has a node of D, and none will: D has no symbol and no edge to what is left.
OutOfReach(D) ==
    /\ D \intersect d_symbols = {}
    /\ D \intersect d_visited = {}
    /\ \A x \in Numbers \ D : Neighbours(x) \intersect D = {}

\* The regions that a call has met are whole.
VisitedClosed ==
    /\ d_visited \subseteq d_processing
    /\ \A x \in d_visited : Neighbours(x) \subseteq d_visited

\* A symbol that rebuild_graph will settle.
SomeAlone == \E s \in d_symbols : Alone(d_hash_table, s)

\* What holds of the table between two regions. The nodes that a call has left out, whose
\* hashes the others have gone on from, are out of reach of every later region.
BetweenTurns ==
    /\ \E D : OutOfReach(D) /\ Ordered(d_hash_table, D, d_visited, hash_count)
    /\ SeenAlike(d_hash_table, d_visited)
    /\ VisitedClosed
    /\ d_symbols \intersect d_visited # {} => SomeAlone

\* What holds of it while the hashes of a region are propagated.
InRegion ==
    /\ call.processing \subseteq d_visited
    /\ Told(d_hash_table, call.processing)
    /\ Within(d_hash_table, call.processing, Growing)

\* A node that is no longer processed, and so never hashed again, has a hash of its own:
\* what rebuild_graph settles can not be tied later by those it keeps (kernel.cpp:306-351).
SettledStayApart ==
    Refining => \A i \in Numbers \ d_processing : Alone(d_hash_table, i)

\* The invariant. Its last conjunct but one is what makes rounds useful: unless nothing has
\* been propagated since the context hashes, some symbol is alone with its hash.
TablesInv ==
    /\ IsCounting(hash_count)
    /\ phase # "build" => HashesTyped
    /\ phase \in {"build", "context", "loop"} => d_visited = {}
    /\ phase = "context" => /\ call.processing = Numbers /\ d_processing = Numbers
                            /\ Within(d_hash_table, Numbers, Growing)
    /\ phase \in {"loop", "specific", "region"} => BetweenTurns
    /\ phase = "region" => InRegion
    /\ phase = "loop" => d_hash_table = d_context_hash \/ d_symbols = {} \/ SomeAlone
    /\ SettledStayApart

\* A turn of propagate adds a number above the marks to each growing node.
LEMMA PropagateSweeps ==
    ASSUME KernelInv, phase # "build"
    PROVE  \E r : /\ \A i \in Growing : r[i] \in Nat /\ r[i] > 1
                  /\ propagate(call.processing) = SweptTable(d_hash_table, Growing, r)
<1> DEFINE P == call.processing
<1>1. /\ P \subseteq Numbers /\ IsFiniteSet(P) /\ DOMAIN d_hash_table = Numbers
  <2>1. P \in SUBSET Numbers /\ WalkTypeOK /\ DOMAIN d_hash_table = Numbers
    BY StartedFacts
  <2> QED  BY <2>1, NumbersFinite, FS_Subset
<1>2. CASE options.cp
  <2> DEFINE seed == hash_mix([i \in P |-> d_hash_table[i]])
             up == Sweep(P, seed, OperandHashes)
             down == Sweep(P, up, LAMBDA i, numbers : hash_parents(d_reversed_graph[i], numbers))
  <2>1. \E table : DOMAIN table = P /\ down = hash_mix(table)
    <3> HIDE DEF up
    <3> QED  BY DEF Sweep
  <2>2. propagate(P) = [i \in DOMAIN d_hash_table |->
                          IF i \in P THEN hash_combine(d_hash_table[i], down[i]) ELSE d_hash_table[i]]
    BY <1>2 DEF propagate, ContextSweeps
  <2> HIDE DEF down
  <2>3. \A i \in P : down[i] \in Nat /\ down[i] > 1
    BY <1>1, <2>1, MixedNumbers
  <2>4. Growing = P
    BY <1>2 DEF Growing
  <2>5. propagate(P) = SweptTable(d_hash_table, Growing, down)
    BY <2>2, <2>4 DEF SweptTable, hash_combine
  <2> QED  BY <2>3, <2>4, <2>5
<1>3. CASE ~options.cp
  <2> DEFINE seed == hash_mix([i \in P |-> d_hash_table[i]])
             next == hash_mix([i \in P |->
                       <<seed[i], Len(d_graph[i])>> \o OperandHashes(i, seed)
                           \o hash_parents(d_reversed_graph[i], seed)])
  <2>1. \E table : DOMAIN table = P /\ next = hash_mix(table)
    <3> HIDE DEF seed
    <3> QED  OBVIOUS
  <2>2. propagate(P) = [i \in DOMAIN d_hash_table |->
                          IF i \in P /\ d_graph[i] # << >>
                          THEN hash_combine(d_hash_table[i], next[i])
                          ELSE d_hash_table[i]]
    BY <1>3 DEF propagate, PlainStep
  <2> HIDE DEF next
  <2>3. \A i \in P : next[i] \in Nat /\ next[i] > 1
    BY <1>1, <2>1, MixedNumbers
  <2>4. \A i : i \in Growing <=> i \in P /\ d_graph[i] # << >>
    BY <1>3 DEF Growing
  <2>5. propagate(P) = SweptTable(d_hash_table, Growing, next)
    BY <2>2, <2>4 DEF SweptTable, hash_combine
  <2> QED  BY <2>3, <2>4, <2>5
<1> QED  BY <1>2, <1>3

\* Edges lead to nodes that are processed.
LEMMA NeighboursProcessed ==
    ASSUME EdgesInv, phase # "build", d_processing \subseteq Numbers, NEW x \in d_processing
    PROVE  Neighbours(x) \subseteq d_processing
<1>1. /\ d_graph[x] \in Seq(Numbers) /\ d_reversed_graph[x] \in Seq(Numbers \X Nat)
      /\ x \in Numbers
  BY DEF EdgesInv, EntriesTyped
<1>2. ASSUME NEW y \in Numbers \ d_processing
      PROVE  Times(d_graph[x], {y}) = 0 /\ Times(d_reversed_graph[x], {y} \X Nat) = 0
  <2>1. d_graph[y] = << >> /\ d_reversed_graph[y] = << >>
    BY DEF EdgesInv, Pruned
  <2>2. Times(d_graph[y], {x}) = 0 /\ Times(d_reversed_graph[y], {x} \X Nat) = 0
    BY <2>1, TimesOfNone
  <2>3. /\ Times(d_graph[x], {y}) = Times(d_reversed_graph[y], {x} \X Nat)
        /\ Times(d_graph[y], {x}) = Times(d_reversed_graph[x], {y} \X Nat)
    BY <1>1 DEF EdgesInv, Mirrored, Edges, Uses
  <2> QED  BY <2>2, <2>3
<1>3. ASSUME NEW q, NEW T, q \in Seq(T), NEW U, Times(q, U) = 0
      PROVE  \A k \in DOMAIN q : q[k] \notin U
  <2>0. Len(q) \in Nat /\ DOMAIN q = 1..Len(q)
    BY <1>3
  <2>1. {k \in DOMAIN q : q[k] \in U} \in SUBSET (1..Len(q)) /\ IsFiniteSet(1..Len(q))
    BY <2>0, FS_Interval
  <2>2. IsFiniteSet({k \in DOMAIN q : q[k] \in U})
    BY <2>1, FS_Subset
  <2>3. {k \in DOMAIN q : q[k] \in U} = {}
    BY <1>3, <2>2, FS_EmptySet DEF Times
  <2> QED  BY <2>3
<1>4. ASSUME NEW y \in Range(d_graph[x])  PROVE y \in d_processing
  <2>1. PICK k \in DOMAIN d_graph[x] : d_graph[x][k] = y
    BY DEF Range
  <2>2. y \in Numbers
    BY <1>1, <2>1
  <2>3. CASE y \notin d_processing
    <3>1. Times(d_graph[x], {y}) = 0
      BY <1>2, <2>2, <2>3
    <3>2. d_graph[x][k] \notin {y}
      BY <1>1, <1>3, <3>1
    <3> QED  BY <2>1, <3>2
  <2> QED  BY <2>3
<1>5. ASSUME NEW p \in Range(d_reversed_graph[x])  PROVE p[1] \in d_processing
  <2>1. PICK k \in DOMAIN d_reversed_graph[x] : d_reversed_graph[x][k] = p
    BY DEF Range
  <2>2. p \in Numbers \X Nat
    BY <1>1, <2>1
  <2>3. p[1] \in Numbers /\ p \in {p[1]} \X Nat
    BY <2>2
  <2>4. CASE p[1] \notin d_processing
    <3>1. Times(d_reversed_graph[x], {p[1]} \X Nat) = 0
      BY <1>2, <2>3, <2>4
    <3>2. d_reversed_graph[x][k] \notin {p[1]} \X Nat
      BY <1>1, <1>3, <3>1
    <3> QED  BY <2>1, <2>3, <3>2
  <2> QED  BY <2>4
<1> QED  BY <1>4, <1>5 DEF Neighbours

\* A region: it has all of what it is connected to and no dead node.
LEMMA RegionShape ==
    ASSUME KernelInv, EdgesInv, phase # "build", VisitedClosed,
           NEW D, OutOfReach(D), NEW s \in d_symbols \ d_visited
    PROVE  /\ s \in Component(s) /\ Component(s) \subseteq d_processing
           /\ Component(s) \subseteq Numbers
           /\ Component(s) \intersect d_visited = {}
           /\ Component(s) \intersect D = {}
           /\ \A x \in Component(s) : Neighbours(x) \subseteq d_visited \union Component(s)
<1> DEFINE to == [i \in Numbers |-> Neighbours(i) \intersect (Numbers \ d_visited)]
<1>1. /\ Len(d_nodes) \in Nat /\ s \in d_processing /\ d_processing \subseteq Numbers
      /\ Numbers = 1..Len(d_nodes) /\ WalkTypeOK
  BY StartedFacts DEF Partition, WalkTypeOK, Numbers
<1>2. Component(s) = Reached({s}, to, Len(d_nodes))
  BY DEF Component
<1>3. \A i \in Numbers : to[i] = Neighbours(i) \intersect (Numbers \ d_visited)
  OBVIOUS
<1> HIDE DEF to
<1>4. Component(s) \subseteq Numbers \ d_visited
  BY <1>1, RegionWithin
<1>5. s \in Component(s) /\ \A x \in Component(s) : to[x] \subseteq Component(s)
  <2>1. {s} \in SUBSET (1..Len(d_nodes)) /\ \A i \in 1..Len(d_nodes) : to[i] \subseteq 1..Len(d_nodes)
    BY <1>1, <1>3
  <2>2. {s} \subseteq Reached({s}, to, Len(d_nodes))
        /\ \A i \in Reached({s}, to, Len(d_nodes)) : to[i] \subseteq Reached({s}, to, Len(d_nodes))
    BY <1>1, <2>1, ReachedClosed
  <2> QED  BY <1>2, <2>2
<1>6. Component(s) \subseteq d_processing
  <2>1. \A i \in d_processing : to[i] \subseteq d_processing
    BY <1>1, <1>3, NeighboursProcessed
  <2>2. PICK S : S = d_processing
    OBVIOUS
  <2>3. {s} \subseteq S /\ \A i \in S : to[i] \subseteq S
    BY <1>1, <2>1, <2>2
  <2>4. Len(d_nodes) \in Nat
    BY <1>1
  <2>5. Reached({s}, to, Len(d_nodes)) \subseteq S
    BY ONLY <2>3, <2>4, ReachedWithin
  <2> QED  BY <1>2, <2>2, <2>5
<1>7. Component(s) \subseteq Numbers \ D
  <2>1. \A i \in Numbers \ D : to[i] \subseteq Numbers \ D
    BY <1>3 DEF OutOfReach
  <2>2. {s} \subseteq Numbers \ D
    BY <1>1 DEF OutOfReach
  <2>3. PICK S : S = Numbers \ D
    OBVIOUS
  <2>4. {s} \subseteq S /\ \A i \in S : to[i] \subseteq S
    BY <2>1, <2>2, <2>3
  <2> QED  BY <1>1, <1>2, <2>3, <2>4, ReachedWithin
<1>8. ASSUME NEW x \in Component(s)
      PROVE  Neighbours(x) \subseteq d_visited \union Component(s)
  <2>1. Neighbours(x) \subseteq Numbers
    BY <1>1, <1>6, NeighboursProcessed
  <2>2. to[x] = Neighbours(x) \intersect (Numbers \ d_visited) /\ to[x] \subseteq Component(s)
    BY <1>3, <1>4, <1>5
  <2> QED  BY <2>1, <2>2
<1> QED  BY <1>4, <1>5, <1>6, <1>7, <1>8

-----------------------------------------------------------------------------
(* Every step keeps the invariant, and merges no two hashes. *)
StepRefines == NoMerge(d_hash_table, d_hash_table')

\* A step that leaves the table alone merges nothing.
LEMMA NothingMerges ==
    ASSUME d_hash_table' = d_hash_table
    PROVE  StepRefines
  BY DEF StepRefines, NoMerge

\* A node that is alone with its hash stays alone.
LEMMA AloneStays ==
    ASSUME NEW H, NEW T, NoMerge(H, T), DOMAIN T = DOMAIN H, NEW i \in DOMAIN H, Alone(H, i)
    PROVE  Alone(T, i)
  BY DEF NoMerge, Alone

\* What only looks at the graph, the table and the symbols.
LEMMA NeighboursStay ==
    ASSUME UNCHANGED <<d_nodes, d_graph, d_reversed_graph>>
    PROVE  Numbers' = Numbers /\ \A x : Neighbours(x)' = Neighbours(x)
  BY DEF Numbers, Neighbours


\* The table, as the lemmas about tables want it.
LEMMA TableTyped ==
    ASSUME KernelInv, TablesInv, phase # "build"
    PROVE  /\ IsTable(d_hash_table) /\ DOMAIN d_hash_table = Numbers
           /\ IsCounting(hash_count)
           /\ call.processing \subseteq Numbers /\ Growing \subseteq call.processing
  BY StartedFacts DEF TablesInv, HashesTyped, IsTable, Growing

\* The hashes of fresh nodes have equal lengths.
LEMMA StartTables ==
    ASSUME KernelInv, TablesInv, StartApply
    PROVE  TablesInv'
<1>1. /\ phase = "build" /\ phase' = "context" /\ UNCHANGED graphVars /\ UNCHANGED options
      /\ d_hash_table' = [i \in Numbers |-> hash_node(i)]
      /\ d_processing' = Numbers /\ d_visited' = d_visited /\ hash_count' = hash_count
      /\ call'.processing = Numbers
      /\ d_visited = {} /\ IsCounting(hash_count) /\ WalkTypeOK
  BY DEF StartApply, TablesInv, KernelInv, WalkInv
<1>2. Numbers' = Numbers /\ input' = input /\ d_nodes' = d_nodes
  BY <1>1 DEF graphVars, Numbers
<1>3. ASSUME NEW i \in Numbers
      PROVE  /\ hash_node(i) \in HashValue /\ Len(hash_node(i)) = 2
             /\ hash_node(i)[1] = input.class[d_nodes[i]]
  <2>1. d_nodes[i] \in DagNode /\ input \in Inputs /\ input \in InputType
    BY <1>1, InputsAssumption DEF WalkTypeOK, Numbers
  <2>2. input.class[d_nodes[i]] \in Nat /\ input.assertions \in Seq(DagNode)
    BY <2>1 DEF InputType
  <2>3. Cardinality({j \in DOMAIN input.assertions : input.assertions[j] = d_nodes[i]}) \in Nat
    <3>1. Len(input.assertions) \in Nat
      BY <2>2
    <3>2. {j \in DOMAIN input.assertions : input.assertions[j] = d_nodes[i]}
             \in SUBSET (1..Len(input.assertions))
      BY <2>2
    <3>3. IsFiniteSet(1..Len(input.assertions))
      BY <3>1, FS_Interval
    <3> QED  BY <3>2, <3>3, FS_Subset, FS_CardinalityType
  <2>4. PICK a, b \in Nat : hash_node(i) = <<a, b>> /\ a = input.class[d_nodes[i]]
    BY <2>2, <2>3 DEF hash_node
  <2> QED  BY <2>4 DEF HashValue
<1>4. HashesTyped'
  <2>1. \A i \in Numbers : d_hash_table'[i] = hash_node(i)
    BY <1>1
  <2> QED  BY <1>2, <1>3, <2>1 DEF HashesTyped
<1>5. Within(d_hash_table', Numbers', Growing')
  <2>1. \A i, j \in Numbers : ~Longer(d_hash_table'[j], d_hash_table'[i])
    BY <1>1, <1>3 DEF Longer
  <2> QED  BY <1>2, <2>1 DEF Within
<1>6. SettledStayApart'
  BY <1>1 DEF SettledStayApart, Refining
<1> QED  BY <1>1, <1>2, <1>4, <1>5, <1>6 DEF TablesInv

\* Hashes that go on from typed ones are typed.
LEMMA GrownTyped ==
    ASSUME HashesTyped, NEW T, IsTable(T), DOMAIN T = Numbers,
           \A i \in Numbers : Starts(T[i], d_hash_table[i])
    PROVE  \A i \in Numbers : /\ T[i] \in HashValue
                              /\ T[i][1] = input.class[d_nodes[i]]
                              /\ Len(T[i]) > 0
<1> TAKE i \in Numbers
<1>1. /\ d_hash_table[i] \in HashValue /\ T[i] \in HashValue
      /\ d_hash_table[i][1] = input.class[d_nodes[i]] /\ Len(d_hash_table[i]) > 0
  BY DEF HashesTyped, IsTable
<1>2. Len(d_hash_table[i]) \in Nat /\ Len(T[i]) \in Nat
  BY <1>1 DEF HashValue
<1>3. 1 \in 1..Len(d_hash_table[i]) /\ Len(T[i]) > 0 /\ Starts(T[i], d_hash_table[i])
  BY <1>1, <1>2 DEF Starts
<1> QED  BY <1>1, <1>3 DEF Starts

\* What a turn of propagate does to the table.
LEMMA PropagateGrows ==
    ASSUME KernelInv, TablesInv, Propagate
    PROVE  /\ GrowsIn(d_hash_table, d_hash_table', call.processing)
           /\ \A i, j \in call.processing : d_hash_table[i] # d_hash_table[j]
                                               => d_hash_table'[i] # d_hash_table'[j]
           /\ Within(d_hash_table', call.processing, Growing)
           /\ Told(d_hash_table, call.processing)
           /\ HashesTyped'
<1>1. /\ phase \in {"context", "region"} /\ UNCHANGED graphVars
      /\ d_hash_table' = propagate(call.processing)
  BY DEF Propagate
<1>2. PICK r : /\ \A i \in Growing : r[i] \in Nat /\ r[i] > 1
               /\ d_hash_table' = SweptTable(d_hash_table, Growing, r)
  BY <1>1, PropagateSweeps
<1>3. /\ IsTable(d_hash_table) /\ DOMAIN d_hash_table = Numbers
      /\ call.processing \subseteq Numbers /\ Growing \subseteq call.processing
      /\ HashesTyped
  BY <1>1, TableTyped DEF TablesInv
<1>4. Within(d_hash_table, call.processing, Growing)
  BY <1>1 DEF TablesInv, InRegion
<1>5. Told(d_hash_table, call.processing)
  BY <1>1, <1>3 DEF TablesInv, InRegion, Told
<1>6. Sweeping(d_hash_table, call.processing, Growing, r)
  BY <1>2, <1>3, <1>4 DEF Sweeping
<1>7. /\ GrowsIn(d_hash_table, d_hash_table', call.processing)
      /\ \A i, j \in call.processing : d_hash_table[i] # d_hash_table[j]
                                         => d_hash_table'[i] # d_hash_table'[j]
      /\ Within(d_hash_table', call.processing, Growing)
  BY <1>2, <1>6, SweepTells
<1>8. HashesTyped'
  <2>1. Numbers' = Numbers /\ input' = input /\ d_nodes' = d_nodes
    BY <1>1 DEF graphVars, Numbers
  <2>2. IsTable(d_hash_table') /\ DOMAIN d_hash_table' = Numbers
        /\ \A i \in Numbers : Starts(d_hash_table'[i], d_hash_table[i])
    <3>1. \A i \in Numbers : Starts(d_hash_table[i], d_hash_table[i])
      BY <1>3, LongerThanSelf DEF HashesTyped
    <3> QED  BY <1>3, <1>7, <3>1 DEF GrowsIn
  <2>3. PICK T : T = d_hash_table'
    OBVIOUS
  <2>4. \A i \in Numbers : /\ T[i] \in HashValue
                           /\ T[i][1] = input.class[d_nodes[i]]
                           /\ Len(T[i]) > 0
    BY <1>3, <2>2, <2>3, GrownTyped
  <2> QED  BY <2>1, <2>3, <2>4 DEF HashesTyped
<1> QED  BY <1>5, <1>7, <1>8

\* What has no more equals than before stays settled, and stays alone.
LEMMA SettledKept ==
    ASSUME SettledStayApart, Refining, NoMerge(d_hash_table, d_hash_table'),
           DOMAIN d_hash_table' = Numbers, DOMAIN d_hash_table = Numbers,
           Numbers' = Numbers, d_processing' = d_processing
    PROVE  SettledStayApart'
  BY AloneStays DEF SettledStayApart

\* The same of a symbol that is alone.
LEMMA SomeAloneKept ==
    ASSUME NoMerge(d_hash_table, d_hash_table'), d_symbols \subseteq Numbers,
           DOMAIN d_hash_table' = Numbers, DOMAIN d_hash_table = Numbers,
           d_symbols' = d_symbols, SomeAlone
    PROVE  SomeAlone'
<1>1. PICK s \in d_symbols : Alone(d_hash_table, s)
  BY DEF SomeAlone
<1>2. Alone(d_hash_table', s)
  BY <1>1, AloneStays
<1> QED  BY <1>1, <1>2 DEF SomeAlone

\* A turn of context_propagate, over the whole graph or over a region.
LEMMA PropagateTables ==
    ASSUME KernelInv, TablesInv, Propagate
    PROVE  TablesInv' /\ StepRefines
<1> DEFINE P == call.processing
<1>1. /\ phase \in {"context", "region"} /\ UNCHANGED graphVars /\ UNCHANGED options
      /\ UNCHANGED <<d_processing, d_symbols, d_visited, hash_count>>
  BY DEF Propagate
<1>2. /\ GrowsIn(d_hash_table, d_hash_table', P)
      /\ \A i, j \in P : d_hash_table[i] # d_hash_table[j] => d_hash_table'[i] # d_hash_table'[j]
      /\ Within(d_hash_table', P, Growing) /\ Told(d_hash_table, P)
      /\ HashesTyped'
  BY PropagateGrows
<1>3. Told(d_hash_table', P) /\ NoMerge(d_hash_table, d_hash_table')
  BY <1>2, GrowInside
<1>4. /\ IsTable(d_hash_table) /\ DOMAIN d_hash_table = Numbers /\ d_symbols \subseteq Numbers
      /\ DOMAIN d_hash_table' = Numbers /\ IsCounting(hash_count)
  BY <1>1, <1>2, StartedFacts, TableTyped DEF GrowsIn
<1>5. Numbers' = Numbers /\ \A x : Neighbours(x)' = Neighbours(x)
  BY <1>1, NeighboursStay DEF graphVars
<1>6. SomeAlone => SomeAlone'
  BY <1>1, <1>3, <1>4, SomeAloneKept
<1>7. phase = "region" => BetweenTurns'
  <2> SUFFICES ASSUME phase = "region"  PROVE BetweenTurns'
    OBVIOUS
  <2>1. BetweenTurns
    BY DEF TablesInv
  <2>2. PICK D : OutOfReach(D) /\ Ordered(d_hash_table, D, d_visited, hash_count)
    BY <2>1 DEF BetweenTurns
  <2>3. Ordered(d_hash_table', D, d_visited, hash_count) /\ SeenAlike(d_hash_table', d_visited)
    BY <1>2, <2>1, <2>2, GrowOrdered DEF BetweenTurns
  <2>4. OutOfReach(D)'
    BY <1>1, <1>5, <2>2 DEF OutOfReach
  <2>5. VisitedClosed'
    BY <1>1, <1>5, <2>1 DEF BetweenTurns, VisitedClosed
  <2> QED  BY <1>1, <1>6, <2>1, <2>3, <2>4, <2>5 DEF BetweenTurns
<1>8. phase = "region" => SettledStayApart'
  BY <1>1, <1>3, <1>4, <1>5, SettledKept DEF TablesInv, Refining
<1>9. phase = "context" => d_visited' = {} /\ call.processing = Numbers /\ d_processing' = Numbers
  BY <1>1 DEF TablesInv
<1> DEFINE count == DistinctHashes(d_hash_table', call.symbols)
<1>10. CASE count # call.count
  <2>1. call' = [call EXCEPT !.count = count] /\ phase' = phase
    BY <1>10 DEF Propagate
  <2> HIDE DEF count
  <2>2. call'.processing = P
    BY <2>1
  <2>3. Growing' = Growing
    BY <1>1, <2>2 DEF Growing, graphVars
  <2>4. CASE phase = "context"
    <3>1. SettledStayApart'
      BY <2>1, <2>4 DEF SettledStayApart, Refining
    <3> QED  BY <1>1, <1>2, <1>3, <1>4, <1>5, <1>9, <2>1, <2>2, <2>3, <2>4, <3>1
             DEF TablesInv, StepRefines
  <2>5. CASE phase = "region"
    <3>1. InRegion'
      BY <1>1, <1>2, <1>3, <2>2, <2>3, <2>5 DEF TablesInv, InRegion
    <3> QED  BY <1>1, <1>2, <1>3, <1>4, <1>7, <1>8, <2>1, <2>5, <3>1 DEF TablesInv, StepRefines
  <2> QED  BY <1>1, <2>4, <2>5
<1>11. CASE count = call.count
  <2>1. /\ phase' = IF phase = "context" THEN "loop" ELSE "specific"
        /\ d_context_hash' = IF phase = "context" THEN d_hash_table' ELSE d_context_hash
    BY <1>11 DEF Propagate
  <2> HIDE DEF count
  <2>2. CASE phase = "context"
    <3>1. OutOfReach({})'
      BY DEF OutOfReach
    <3>2. Ordered(d_hash_table', {}, d_visited', hash_count')
      BY <1>2, <1>4, <1>9, <2>2 DEF Ordered, Within
    <3>3. SeenAlike(d_hash_table', d_visited')
      BY <1>9, <2>2 DEF SeenAlike
    <3>4. VisitedClosed' /\ d_symbols' \intersect d_visited' = {}
      BY <1>9, <2>2 DEF VisitedClosed
    <3>5. BetweenTurns'
      BY <3>1, <3>2, <3>3, <3>4 DEF BetweenTurns
    <3>6. SettledStayApart'
      BY <1>5, <1>9, <2>2 DEF SettledStayApart
    <3> QED  BY <1>1, <1>2, <1>3, <1>4, <1>9, <2>1, <2>2, <3>5, <3>6 DEF TablesInv, StepRefines
  <2>3. CASE phase = "region"
    BY <1>1, <1>2, <1>3, <1>4, <1>7, <1>8, <2>1, <2>3 DEF TablesInv, StepRefines
  <2> QED  BY <1>1, <2>2, <2>3
<1> QED  BY <1>10, <1>11

\* The three things that Region mixes into a hash are the stamp.
LEMMA StampAppends ==
    ASSUME NEW s \in HashValue, NEW h \in HashValue, NEW n \in Nat
    PROVE  hash_combine(s \o <<Fingerprint, Len(h)>> \o h, n) = s \o Stamp(h, n)
<1> DEFINE b == <<Fingerprint, Len(h)>>
<1>1. s \in Seq(Nat) /\ h \in Seq(Nat) /\ b \in Seq(Nat) /\ <<n>> \in Seq(Nat)
  <2>1. Len(h) \in Nat
    BY DEF HashValue
  <2> QED  BY <2>1 DEF HashValue, Fingerprint
<1> HIDE DEF b
<1>2. PICK N : N = Nat
  OBVIOUS
<1>3. s \in Seq(N) /\ h \in Seq(N) /\ b \in Seq(N) /\ <<n>> \in Seq(N) /\ n \in N
  BY <1>1, <1>2
<1>4. b \o h \in Seq(N) /\ s \o b \in Seq(N)
  BY ONLY <1>3
<1>5. (s \o b) \o h \in Seq(N)
  BY ONLY <1>3, <1>4
<1>6. Append((s \o b) \o h, n) = ((s \o b) \o h) \o <<n>>
  BY ONLY <1>3, <1>5, AppendIsConcat
<1>7. Append(b \o h, n) = (b \o h) \o <<n>>
  BY ONLY <1>3, <1>4, AppendIsConcat
<1>8. (s \o b) \o h = s \o (b \o h)
  BY ONLY <1>3, ConcatAssociative
<1>9. (s \o (b \o h)) \o <<n>> = s \o ((b \o h) \o <<n>>)
  BY ONLY <1>3, <1>4, ConcatAssociative
<1> QED  BY <1>6, <1>7, <1>8, <1>9 DEF b, Stamp, hash_combine

\* So WithRegion stamps the region.
LEMMA RegionStamps ==
    ASSUME IsTable(d_hash_table), IsCounting(hash_count), NEW P, NEW h \in HashValue
    PROVE  WithRegion(P, h) = StampedTable(d_hash_table, P, h, CountOfIn(hash_count, h))
<1>1. CountOf(h) = CountOfIn(hash_count, h) /\ CountOf(h) \in Nat
  BY CountsGrow DEF CountOf, CountOfIn
<1>2. ASSUME NEW i \in DOMAIN d_hash_table
      PROVE  hash_combine(d_hash_table[i] \o <<Fingerprint, Len(h)>> \o h, CountOf(h))
                = d_hash_table[i] \o Stamp(h, CountOf(h))
  BY <1>1, StampAppends DEF IsTable
<1> QED  BY <1>1, <1>2 DEF WithRegion, StampedTable

\* The parts of Region, by name.
RegionSymbols(s) == {i \in Component(s) : IsSymbol(i)}
RegionHash(s) == symbols_hash(RegionSymbols(s))
RegionTable(s) == WithRegion(Component(s), RegionHash(s))

\* What a region does, in these terms.
LEMMA RegionOpens ==
    ASSUME TablesInv, NEW s, Region(s)
    PROVE  /\ phase = "specific" /\ s \in d_symbols \ d_visited
           /\ UNCHANGED graphVars /\ UNCHANGED options
           /\ UNCHANGED <<d_processing, d_symbols, d_context_hash>>
           /\ d_visited' = d_visited \union Component(s)
           /\ hash_count' = CountedIn(hash_count, RegionHash(s))
           /\ \/ /\ LowestTied(RegionTable(s), RegionSymbols(s)) = {}
                 /\ d_hash_table' = RegionTable(s) /\ phase' = phase /\ call' = call
              \/ \E idx \in LowestTied(RegionTable(s), RegionSymbols(s)) :
                    /\ d_hash_table' = PerturbedTable(RegionTable(s), idx)
                    /\ call'.processing = Component(s)
                    /\ phase' = "region"
<1> DEFINE P == Component(s)
           S == {i \in P : IsSymbol(i)}
           h == symbols_hash(S)
           T == WithRegion(P, h)
           C == LowestTied(T, S)
<1>1. /\ phase = "specific" /\ s \in d_symbols \ d_visited
      /\ UNCHANGED graphVars /\ UNCHANGED options
      /\ UNCHANGED <<d_processing, d_symbols, d_context_hash>>
      /\ d_visited' = d_visited \union P
      /\ hash_count' = [g \in DOMAIN hash_count \union {h} |->
                          IF g = h THEN CountOf(h) ELSE hash_count[g]]
      /\ \/ C = {} /\ d_hash_table' = T /\ UNCHANGED <<phase, call>>
         \/ \E idx \in C :
              /\ d_hash_table' = [T EXCEPT ![idx] = hash_combine(@, Perturbed)]
              /\ call' = [processing |-> P, symbols |-> S, count |-> 0]
              /\ phase' = "region"
  BY DEF Region
<1>2. P = Component(s) /\ S = RegionSymbols(s) /\ h = RegionHash(s) /\ T = RegionTable(s)
      /\ C = LowestTied(RegionTable(s), RegionSymbols(s))
  BY DEF RegionSymbols, RegionHash, RegionTable
<1> HIDE DEF P, S, h, T, C
<1>3. hash_count' = CountedIn(hash_count, h)
  BY <1>1 DEF CountedIn, CountOfIn, CountOf
<1>4. CASE C = {} /\ d_hash_table' = T /\ UNCHANGED <<phase, call>>
  BY <1>1, <1>2, <1>3, <1>4
<1>5. ASSUME NEW idx \in C,
             d_hash_table' = [T EXCEPT ![idx] = hash_combine(@, Perturbed)],
             call' = [processing |-> P, symbols |-> S, count |-> 0],
             phase' = "region"
      PROVE  /\ d_hash_table' = PerturbedTable(T, idx)
             /\ call'.processing = P
  BY <1>5 DEF PerturbedTable, hash_combine
<1> QED  BY <1>1, <1>2, <1>3, <1>4, <1>5

\* The table with the region's fingerprint.
Fingerprinted(s, T) ==
    /\ IsTable(T) /\ DOMAIN T = Numbers
    /\ \A i \in Numbers : Starts(T[i], d_hash_table[i])
    /\ NoMerge(d_hash_table, T)
    /\ Told(T, Component(s)) /\ \A i, j \in Component(s) : ~Longer(T[j], T[i])
    /\ \E D : /\ OutOfReach(D) /\ D \intersect Component(s) = {}
              /\ Ordered(T, D, d_visited \union Component(s), CountedIn(hash_count, RegionHash(s)))
    /\ SeenAlike(T, d_visited \union Component(s))
    /\ IsCounting(CountedIn(hash_count, RegionHash(s)))

\* The fingerprint of a region, given the invariant.
LEMMA RegionFingerprints ==
    ASSUME KernelInv, EdgesInv, TablesInv, phase = "specific", NEW s \in d_symbols \ d_visited
    PROVE  Fingerprinted(s, RegionTable(s))
<1> DEFINE P == Component(s)
           h == RegionHash(s)
<1>1. BetweenTurns /\ VisitedClosed
  BY DEF TablesInv, BetweenTurns
<1>2. PICK D : OutOfReach(D) /\ Ordered(d_hash_table, D, d_visited, hash_count)
  BY <1>1 DEF BetweenTurns
<1>3. P \subseteq Numbers /\ P \intersect d_visited = {} /\ P \intersect D = {}
  BY <1>1, <1>2, RegionShape
<1>4. IsTable(d_hash_table) /\ DOMAIN d_hash_table = Numbers /\ IsCounting(hash_count)
  BY TableTyped
<1>5. h \in HashValue
  <2>1. RegionSymbols(s) \in SUBSET Numbers
    BY <1>3 DEF RegionSymbols
  <2>2. IsFiniteSet(RegionSymbols(s))
    BY <2>1, StartedFacts, NumbersFinite, FS_Subset
  <2>3. \A i \in RegionSymbols(s) : d_hash_table[i] \in HashValue
    BY <1>4, <2>1 DEF IsTable
  <2> QED  BY <2>2, <2>3, RegionHashTyped DEF RegionHash
<1>6. PICK T : T = StampedTable(d_hash_table, P, h, CountOfIn(hash_count, h))
  OBVIOUS
<1>7. RegionTable(s) = T
  BY <1>4, <1>5, <1>6, RegionStamps DEF RegionTable
<1>8. Stamping(d_hash_table, D, d_visited, hash_count, P, h)
  BY <1>1, <1>2, <1>3, <1>4, <1>5 DEF Stamping, BetweenTurns
<1> HIDE DEF P, h
<1>9. /\ DOMAIN T = DOMAIN d_hash_table
      /\ \A i \in DOMAIN d_hash_table : T[i] \in HashValue /\ Starts(T[i], d_hash_table[i])
  BY <1>6, <1>8, StampedFacts
<1>10. Told(T, P) /\ (\A i, j \in P : ~Longer(T[j], T[i])) /\ NoMerge(d_hash_table, T)
  BY <1>6, <1>8, StampTells
<1>11. /\ Ordered(T, D, d_visited \union P, CountedIn(hash_count, h))
       /\ SeenAlike(T, d_visited \union P)
  BY <1>6, <1>8, StampOrders
<1>12. IsCounting(CountedIn(hash_count, h))
  BY <1>4, <1>5, CountsGrow
<1> QED  BY <1>2, <1>3, <1>4, <1>7, <1>9, <1>10, <1>11, <1>12 DEF P, h, Fingerprinted, IsTable

\* A region without ties leaves each of its symbols alone with its hash.
LEMMA RegionAlone ==
    ASSUME KernelInv, TablesInv, phase = "specific",
           NEW s \in d_symbols, s \in Component(s), Component(s) \subseteq Numbers,
           NEW T, Fingerprinted(s, T), LowestTied(T, RegionSymbols(s)) = {}
    PROVE  Alone(T, s)
<1>1. WalkTypeOK /\ d_symbols \subseteq SymbolNumbers /\ s \in Numbers /\ IsSymbol(s)
  BY StartedFacts DEF Partition, SymbolNumbers
<1>2. \A i \in Numbers : T[i] \in HashValue /\ T[i][1] = input.class[d_nodes[i]]
  BY GrownTyped DEF TablesInv, Fingerprinted
<1>3. \A i, j \in RegionSymbols(s) : i # j => T[i] # T[j]
  <2>1. RegionSymbols(s) \in SUBSET Numbers
    BY DEF RegionSymbols
  <2>2. IsFiniteSet(RegionSymbols(s)) /\ \A i \in RegionSymbols(s) : T[i] \in HashValue
    BY <1>1, <1>2, <2>1, NumbersFinite, FS_Subset
  <2> QED  BY <2>2, NoneTied
<1>4. ASSUME NEW j \in Numbers, j # s, T[j] = T[s]
      PROVE  FALSE
  <2>1. j \in Component(s)
    <3>1. Starts(T[j], T[s])
      BY <1>1, <1>2, <1>4, LongerThanSelf
    <3> QED  BY <3>1 DEF Fingerprinted, Told
  <2>2. CASE IsSymbol(j)
    BY <1>1, <1>3, <1>4, <2>1, <2>2 DEF RegionSymbols
  <2>3. CASE ~IsSymbol(j)
    <3>1. d_nodes[j] \in DagNode \ input.symbol /\ d_nodes[s] \in input.symbol /\ input \in Inputs
      BY <1>1, <2>3 DEF IsSymbol, WalkTypeOK, Numbers
    <3>2. input.class[d_nodes[s]] # input.class[d_nodes[j]]
      BY <3>1, InputsAssumption
    <3> QED  BY <1>1, <1>2, <1>4, <3>2
  <2> QED  BY <2>2, <2>3
<1> QED  BY <1>4 DEF Alone, Fingerprinted

\* A region's table, fingerprinted and perhaps grown inside the region.
LEMMA RegionGrown ==
    ASSUME KernelInv, EdgesInv, TablesInv, NEW s, Region(s),
           NEW T, Fingerprinted(s, T), NEW G,
           GrowsIn(T, d_hash_table', Component(s)),
           \A i, j \in Component(s) : T[i] # T[j] => d_hash_table'[i] # d_hash_table'[j],
           Within(d_hash_table', Component(s), G),
           SomeAlone'
    PROVE  /\ HashesTyped' /\ BetweenTurns' /\ SettledStayApart' /\ StepRefines
           /\ Told(d_hash_table', Component(s))
<1> DEFINE P == Component(s)
<1>1. /\ phase = "specific" /\ s \in d_symbols \ d_visited
      /\ UNCHANGED graphVars /\ UNCHANGED options
      /\ UNCHANGED <<d_processing, d_symbols, d_context_hash>>
      /\ d_visited' = d_visited \union P
      /\ hash_count' = CountedIn(hash_count, RegionHash(s))
      /\ phase' \in {"specific", "region"}
  BY RegionOpens
<1>2. Numbers' = Numbers /\ \A x : Neighbours(x)' = Neighbours(x)
  BY <1>1, NeighboursStay DEF graphVars
<1>3. input' = input /\ d_nodes' = d_nodes
  BY <1>1 DEF graphVars
<1>4. BetweenTurns /\ VisitedClosed /\ HashesTyped /\ SettledStayApart
  BY <1>1 DEF TablesInv, BetweenTurns
<1>5. /\ IsTable(T) /\ DOMAIN T = Numbers /\ NoMerge(d_hash_table, T) /\ Told(T, P)
      /\ \A i \in Numbers : Starts(T[i], d_hash_table[i])
      /\ SeenAlike(T, d_visited')
  BY <1>1 DEF Fingerprinted
<1>6. PICK D : /\ OutOfReach(D) /\ D \intersect P = {}
               /\ Ordered(T, D, d_visited', hash_count')
  BY <1>1 DEF Fingerprinted
<1>7. /\ P \subseteq d_processing /\ P \subseteq Numbers
      /\ \A x \in P : Neighbours(x) \subseteq d_visited'
  BY <1>1, <1>4, <1>6, RegionShape
<1> HIDE DEF P
<1>8. PICK U : U = d_hash_table'
  OBVIOUS
<1>9. Told(U, P) /\ NoMerge(T, U)
  BY <1>5, <1>8, GrowInside DEF P
<1>10. Ordered(U, D, d_visited', hash_count') /\ SeenAlike(U, d_visited')
  BY <1>5, <1>6, <1>8, GrowOrdered DEF P
<1>11. IsTable(U) /\ DOMAIN U = Numbers /\ DOMAIN d_hash_table = Numbers
  BY <1>1, <1>5, <1>8, StartedFacts DEF GrowsIn
<1>12. NoMerge(d_hash_table, U)
  BY <1>5, <1>9, <1>11 DEF NoMerge
<1>13. HashesTyped'
  <2>1. \A i \in Numbers : Starts(U[i], d_hash_table[i])
    <3> TAKE i \in Numbers
    <3>1. U[i] \in HashValue /\ T[i] \in HashValue /\ d_hash_table[i] \in HashValue
      BY <1>4, <1>5, <1>11 DEF IsTable, HashesTyped
    <3>2. Starts(U[i], T[i])
      <4>1. i \notin P => U[i] = T[i]
        BY <1>5, <1>8 DEF GrowsIn, P
      <4>2. i \in P => Starts(U[i], T[i])
        BY <1>8 DEF GrowsIn, P
      <4> QED  BY <3>1, <4>1, <4>2, LongerThanSelf
    <3> QED  BY <1>5, <3>1, <3>2, StartsTransitive
  <2>2. \A i \in Numbers : /\ U[i] \in HashValue
                           /\ U[i][1] = input.class[d_nodes[i]]
                           /\ Len(U[i]) > 0
    BY <1>4, <1>11, <2>1, GrownTyped
  <2> QED  BY <1>2, <1>3, <1>8, <2>2 DEF HashesTyped
<1>14. OutOfReach(D)'
  BY <1>1, <1>2, <1>6 DEF OutOfReach
<1>15. VisitedClosed'
  <2>1. d_visited' \subseteq d_processing'
    BY <1>1, <1>4, <1>7 DEF VisitedClosed, P
  <2>2. \A x \in d_visited' : Neighbours(x) \subseteq d_visited'
    BY <1>1, <1>4, <1>7 DEF VisitedClosed, P
  <2> QED  BY <1>2, <2>1, <2>2 DEF VisitedClosed
<1>16. BetweenTurns'
  BY <1>8, <1>10, <1>14, <1>15 DEF BetweenTurns
<1>17. SettledStayApart'
  BY <1>1, <1>2, <1>4, <1>8, <1>11, <1>12, SettledKept DEF Refining
<1> QED  BY <1>8, <1>9, <1>12, <1>13, <1>16, <1>17 DEF StepRefines, P

\* A region: its fingerprint, and the perturbation of one of its tied symbols if it has any.
LEMMA RegionTables ==
    ASSUME KernelInv, EdgesInv, TablesInv, NEW s, Region(s)
    PROVE  TablesInv' /\ StepRefines
<1> DEFINE P == Component(s)
<1>1. /\ phase = "specific" /\ s \in d_symbols \ d_visited
      /\ UNCHANGED graphVars /\ UNCHANGED options
      /\ UNCHANGED <<d_processing, d_symbols, d_context_hash>>
      /\ d_visited' = d_visited \union P
      /\ hash_count' = CountedIn(hash_count, RegionHash(s))
  BY RegionOpens
<1>2. \/ /\ LowestTied(RegionTable(s), RegionSymbols(s)) = {}
         /\ d_hash_table' = RegionTable(s) /\ phase' = phase /\ call' = call
      \/ \E idx \in LowestTied(RegionTable(s), RegionSymbols(s)) :
            /\ d_hash_table' = PerturbedTable(RegionTable(s), idx)
            /\ call'.processing = Component(s)
            /\ phase' = "region"
  BY RegionOpens
<1>3. PICK T : T = RegionTable(s)
  OBVIOUS
<1>4. Fingerprinted(s, T)
  BY <1>1, <1>3, RegionFingerprints
<1>5. /\ s \in P /\ P \subseteq Numbers /\ P \subseteq d_processing
  <2>1. VisitedClosed /\ \E D : OutOfReach(D)
    BY <1>1 DEF TablesInv, BetweenTurns
  <2> QED  BY <1>1, <2>1, RegionShape
<1>6. /\ IsTable(T) /\ DOMAIN T = Numbers /\ Told(T, P)
      /\ \A i, j \in P : ~Longer(T[j], T[i])
      /\ IsCounting(hash_count')
  BY <1>1, <1>4 DEF Fingerprinted
<1>7. CASE /\ LowestTied(T, RegionSymbols(s)) = {}
           /\ d_hash_table' = T /\ phase' = phase /\ call' = call
  <2>1. Alone(T, s)
    BY <1>1, <1>4, <1>5, <1>7, RegionAlone
  <2>2. SomeAlone'
    BY <1>1, <1>7, <2>1 DEF SomeAlone
  <2>3. GrowsIn(T, d_hash_table', P)
    BY <1>5, <1>6, <1>7, LongerThanSelf DEF GrowsIn, IsTable
  <2>4. /\ \A i, j \in P : T[i] # T[j] => d_hash_table'[i] # d_hash_table'[j]
        /\ Within(d_hash_table', P, P)
    BY <1>6, <1>7 DEF Within
  <2>5. HashesTyped' /\ BetweenTurns' /\ SettledStayApart' /\ StepRefines
    BY <1>4, <2>2, <2>3, <2>4, RegionGrown
  <2> QED  BY <1>1, <1>6, <1>7, <2>5 DEF TablesInv
<1>8. ASSUME NEW idx \in LowestTied(T, RegionSymbols(s)),
             d_hash_table' = PerturbedTable(T, idx),
             call'.processing = P,
             phase' = "region"
      PROVE  TablesInv' /\ StepRefines
  <2>1. idx \in P /\ IsSymbol(idx)
    BY <1>8 DEF LowestTied, RegionSymbols
  <2>2. idx \in d_symbols
    BY <1>1, <1>5, <2>1, StartedFacts DEF Partition, SymbolNumbers
  <2>3. Perturbing(T, P, idx)
    BY <1>5, <1>6, <2>1 DEF Perturbing
  <2>4. PICK G : G = {i \in P : options.cp \/ d_graph[i] # << >>}
    OBVIOUS
  <2>5. G = Growing'
    BY <1>1, <1>8, <2>4 DEF Growing, graphVars
  <2> HIDE DEF P
  <2>6. /\ GrowsIn(T, d_hash_table', P)
        /\ \A i, j \in P : T[i] # T[j] => d_hash_table'[i] # d_hash_table'[j]
        /\ Within(d_hash_table', P, G)
        /\ Alone(d_hash_table', idx)
    BY <1>8, <2>3, PerturbTells
  <2>7. SomeAlone'
    BY <1>1, <2>2, <2>6 DEF SomeAlone
  <2>8. /\ HashesTyped' /\ BetweenTurns' /\ SettledStayApart' /\ StepRefines
        /\ Told(d_hash_table', P)
    BY <1>4, <2>6, <2>7, RegionGrown DEF P
  <2>9. InRegion'
    BY <1>1, <1>8, <2>5, <2>6, <2>8 DEF InRegion
  <2> QED  BY <1>1, <1>6, <1>8, <2>8, <2>9 DEF TablesInv
<1> QED  BY <1>2, <1>3, <1>7, <1>8

\* Where only the phase changes, what is said of the table stays.
LEMMA TablesFrame ==
    ASSUME UNCHANGED <<input, d_nodes, d_graph, d_reversed_graph, d_hash_table>>,
           UNCHANGED <<d_processing, d_symbols, d_visited, hash_count>>
    PROVE  /\ Numbers' = Numbers
           /\ HashesTyped => HashesTyped'
           /\ BetweenTurns => BetweenTurns'
           /\ (\A i \in Numbers \ d_processing : Alone(d_hash_table, i)) => SettledStayApart'
<1>1. Numbers' = Numbers /\ \A x : Neighbours(x)' = Neighbours(x)
  BY NeighboursStay
<1>2. HashesTyped => HashesTyped'
  BY <1>1 DEF HashesTyped
<1>3. BetweenTurns => BetweenTurns'
  <2> SUFFICES ASSUME BetweenTurns  PROVE BetweenTurns'
    OBVIOUS
  <2>1. PICK D : OutOfReach(D) /\ Ordered(d_hash_table, D, d_visited, hash_count)
    BY DEF BetweenTurns
  <2>2. OutOfReach(D)' /\ VisitedClosed'
    BY <1>1, <2>1 DEF BetweenTurns, OutOfReach, VisitedClosed
  <2>3. SomeAlone => SomeAlone'
    BY DEF SomeAlone
  <2> QED  BY <2>1, <2>2, <2>3 DEF BetweenTurns
<1>4. (\A i \in Numbers \ d_processing : Alone(d_hash_table, i)) => SettledStayApart'
  BY <1>1 DEF SettledStayApart
<1> QED  BY <1>1, <1>2, <1>3, <1>4

\* After the last region, no node that the call has met starts like another that was
\* fingerprinted since: the others are those that no region is made of.
LEMMA SpecificDoneTables ==
    ASSUME KernelInv, TablesInv, SpecificDone
    PROVE  TablesInv' /\ StepRefines
<1>1. /\ phase = "specific" /\ phase' = "loop" /\ d_symbols \subseteq d_visited
      /\ d_visited' = d_visited \ d_processing /\ hash_count' = << >>
      /\ UNCHANGED graphVars
      /\ UNCHANGED <<d_hash_table, d_context_hash, d_processing, d_symbols>>
  BY DEF SpecificDone
<1>2. BetweenTurns /\ VisitedClosed /\ HashesTyped /\ SettledStayApart
  BY <1>1 DEF TablesInv, BetweenTurns
<1>3. d_visited' = {} /\ d_visited \subseteq Numbers /\ DOMAIN d_hash_table = Numbers
  BY <1>1, <1>2, StartedFacts DEF VisitedClosed
<1>4. Numbers' = Numbers /\ (\A x : Neighbours(x)' = Neighbours(x))
      /\ input' = input /\ d_nodes' = d_nodes
  BY <1>1, NeighboursStay DEF graphVars
<1>5. PICK D : OutOfReach(D) /\ Ordered(d_hash_table, D, d_visited, hash_count)
  BY <1>2 DEF BetweenTurns
<1>6. PICK E : E = Numbers \ d_visited
  OBVIOUS
<1>7. OutOfReach(E)'
  BY <1>1, <1>2, <1>3, <1>4, <1>6 DEF OutOfReach, VisitedClosed
<1>8. Ordered(d_hash_table', E, d_visited', hash_count')
  <2> SUFFICES ASSUME NEW i \in Numbers, NEW j \in Numbers,
                      Longer(d_hash_table[j], d_hash_table[i]),
                      Mark(d_hash_table[j], d_hash_table[i]) = Fingerprint
               PROVE  i \in E
    BY <1>1, <1>3 DEF Ordered
  <2>1. i \in D \/ Late(d_hash_table, d_visited, hash_count, i, j)
    BY <1>3, <1>5 DEF Ordered
  <2>2. i \notin d_visited
    BY <1>5, <2>1 DEF OutOfReach, Late
  <2> QED  BY <1>6, <2>2
<1>9. SeenAlike(d_hash_table', d_visited') /\ VisitedClosed'
  BY <1>3 DEF SeenAlike, VisitedClosed
<1>10. BetweenTurns'
  BY <1>3, <1>7, <1>8, <1>9 DEF BetweenTurns
<1>11. d_symbols = {} \/ SomeAlone'
  BY <1>1, <1>2 DEF BetweenTurns, SomeAlone
<1>12. HashesTyped' /\ SettledStayApart'
  BY <1>1, <1>2, <1>4 DEF HashesTyped, SettledStayApart, Refining
<1>13. IsCounting(hash_count')
  BY <1>1 DEF IsCounting
<1> QED  BY <1>1, <1>3, <1>10, <1>11, <1>12, <1>13, NothingMerges DEF TablesInv

\* rebuild_graph drops neighbours only.
LEMMA NeighboursShrink ==
    ASSUME EntriesTyped, rebuild_graph, DOMAIN d_graph = Numbers, DOMAIN d_reversed_graph = Numbers,
           NEW x \in Numbers
    PROVE  Neighbours(x)' \subseteq Neighbours(x)
<1>1. ASSUME NEW q, NEW T, q \in Seq(T), NEW S
      PROVE  Range(Only(q, S)) \subseteq Range(q)
  <2>1. q \in Seq(Range(q))
    BY <1>1 DEF Range
  <2>2. PICK R : R = Range(q)
    OBVIOUS
  <2>3. Only(q, S) \in Seq(R \intersect S)
    BY <2>1, <2>2, OnlyTyped
  <2> QED  BY <2>2, <2>3 DEF Range
<1>2. d_graph[x] \in Seq(Numbers) /\ d_reversed_graph[x] \in Seq(Numbers \X Nat)
  BY DEF EntriesTyped
<1>3. \/ d_graph'[x] = d_graph[x]
      \/ d_graph'[x] = << >>
      \/ d_graph'[x] = Only(d_graph[x], Kept)
  BY DEF rebuild_graph, PrunedGraph
<1>4. \/ d_reversed_graph'[x] = d_reversed_graph[x]
      \/ d_reversed_graph'[x] = << >>
      \/ d_reversed_graph'[x] = Only(d_reversed_graph[x], Kept \X Nat)
  BY DEF rebuild_graph, PrunedReversedGraph
<1>5. Range(<< >>) = {}
  BY DEF Range
<1>6. Range(d_graph'[x]) \subseteq Range(d_graph[x])
  BY <1>1, <1>2, <1>3, <1>5
<1>7. Range(d_reversed_graph'[x]) \subseteq Range(d_reversed_graph[x])
  BY <1>1, <1>2, <1>4, <1>5
<1> QED  BY <1>6, <1>7 DEF Neighbours

\* rebuild_graph settles the nodes that are alone, so that what is left stays apart from
\* them; it takes no node into reach, for it adds no edge.
LEMMA PruneTables ==
    ASSUME KernelInv, EdgesInv, TablesInv, RefineWithPruning
    PROVE  TablesInv' /\ StepRefines
<1>1. /\ phase = "loop" /\ phase' = "specific" /\ rebuild_graph
      /\ UNCHANGED <<input, visit, node2index, d_nodes, options, d_hash_table, hash_count>>
  BY DEF RefineWithPruning
<1>2. /\ BetweenTurns /\ HashesTyped /\ SettledStayApart /\ d_visited = {} /\ IsCounting(hash_count)
  BY <1>1 DEF TablesInv
<1>3. /\ d_processing' = Ambiguous(d_processing) /\ d_visited' = {}
  BY <1>1, <1>2 DEF rebuild_graph, Kept
<1>4. /\ Partition /\ Partition' /\ SymbolNumbers' = SymbolNumbers /\ d_processing' \subseteq d_processing
      /\ DOMAIN d_graph = Numbers /\ DOMAIN d_reversed_graph = Numbers
      /\ DOMAIN d_hash_table = Numbers
  BY <1>1, StartedFacts, RebuildPartitions
<1>5. d_symbols' \subseteq d_symbols
  BY <1>4 DEF Partition
<1>6. Numbers' = Numbers
  BY <1>1 DEF Numbers
<1>7. PICK D : OutOfReach(D) /\ Ordered(d_hash_table, D, d_visited, hash_count)
  BY <1>2 DEF BetweenTurns
<1>8. OutOfReach(D)'
  <2>1. D \intersect d_symbols' = {} /\ D \intersect d_visited' = {}
    BY <1>3, <1>5, <1>7 DEF OutOfReach
  <2>2. ASSUME NEW x \in Numbers \ D  PROVE Neighbours(x)' \intersect D = {}
    <3>1. Neighbours(x)' \subseteq Neighbours(x)
      BY <1>1, <1>4, NeighboursShrink DEF EdgesInv
    <3> QED  BY <1>7, <3>1 DEF OutOfReach
  <2> QED  BY <1>6, <2>1, <2>2 DEF OutOfReach
<1>9. BetweenTurns'
  <2>1. VisitedClosed' /\ SeenAlike(d_hash_table', d_visited')
    BY <1>3 DEF VisitedClosed, SeenAlike
  <2>2. Ordered(d_hash_table', D, d_visited', hash_count')
    BY <1>1, <1>2, <1>3, <1>7
  <2> QED  BY <1>3, <1>8, <2>1, <2>2 DEF BetweenTurns
<1>10. ASSUME NEW i \in Numbers \ d_processing'
       PROVE  Alone(d_hash_table, i)
  <2>1. \A j \in Numbers \ d_processing : Alone(d_hash_table, j)
    BY <1>1, <1>2 DEF SettledStayApart, Refining
  <2>2. CASE i \in d_processing
    <3>1. \A j \in d_processing \ {i} : d_hash_table[i] # d_hash_table[j]
      BY <1>3, <1>10, <2>2 DEF Ambiguous
    <3>2. \A j \in Numbers \ d_processing : d_hash_table[i] # d_hash_table[j]
      BY <1>4, <2>1, <2>2, <1>10 DEF Alone
    <3> QED  BY <1>4, <3>1, <3>2 DEF Alone
  <2> QED  BY <1>10, <2>1, <2>2
<1>11. SettledStayApart'
  BY <1>1, <1>6, <1>10 DEF SettledStayApart
<1>12. HashesTyped'
  BY <1>1, <1>2, <1>6 DEF HashesTyped
<1> QED  BY <1>1, <1>2, <1>9, <1>11, <1>12, NothingMerges DEF TablesInv

\* The steps that leave the table and the graph alone.
LEMMA QuietTables ==
    ASSUME TablesInv, RefineInPlace \/ RefineDone \/ Rename \/ RenameThrows
    PROVE  TablesInv' /\ StepRefines
<1>1. /\ UNCHANGED <<input, d_nodes, d_graph, d_reversed_graph, d_hash_table>>
      /\ UNCHANGED <<d_processing, d_symbols, d_visited, hash_count>>
      /\ phase \in {"loop", "rename"}
      /\ phase' \in {"specific", "rename", "done", "error"}
      /\ phase' = "specific" => phase = "loop"
  BY DEF RefineInPlace, RefineDone, Rename, RenameThrows, graphVars, refineVars
<1>2. /\ IsCounting(hash_count) /\ HashesTyped
      /\ phase = "loop" => BetweenTurns
      /\ \A i \in Numbers \ d_processing : Alone(d_hash_table, i)
  BY <1>1 DEF TablesInv, SettledStayApart, Refining
<1>3. HashesTyped' /\ (BetweenTurns => BetweenTurns') /\ SettledStayApart'
  BY <1>1, <1>2, TablesFrame
<1> QED  BY <1>1, <1>2, <1>3, NothingMerges DEF TablesInv

\* Before apply there is no table.
LEMMA TablesInitially ==
    ASSUME Init
    PROVE  TablesInv
<1>1. phase = "build" /\ d_visited = {} /\ hash_count = << >>
  BY DEF Init, Fresh
<1>2. IsCounting(hash_count)
  BY <1>1 DEF IsCounting
<1> QED  BY <1>1, <1>2 DEF TablesInv, SettledStayApart, Refining

\* Nor does the walk of the constructor touch one.
LEMMA BuildTables ==
    ASSUME TablesInv, Build
    PROVE  TablesInv' /\ StepRefines
  BY NothingMerges DEF Build, kernelVars, TablesInv, SettledStayApart, Refining

\* A step that changes nothing.
LEMMA TablesStutter ==
    ASSUME TablesInv, UNCHANGED vars
    PROVE  TablesInv' /\ StepRefines
<1>1. /\ UNCHANGED <<input, d_nodes, d_graph, d_reversed_graph, d_hash_table>>
      /\ UNCHANGED <<d_processing, d_symbols, d_visited, hash_count>>
      /\ UNCHANGED <<phase, options, call, d_context_hash>>
  BY DEF vars, graphVars, kernelVars
<1>2. Numbers' = Numbers /\ (HashesTyped => HashesTyped') /\ (BetweenTurns => BetweenTurns')
  BY <1>1, TablesFrame
<1>3. Growing' = Growing
  BY <1>1 DEF Growing
<1>4. InRegion' = InRegion /\ SomeAlone' = SomeAlone
  BY <1>1, <1>3 DEF InRegion, SomeAlone
<1>5. SettledStayApart'
  BY <1>1, <1>2 DEF TablesInv, SettledStayApart, Refining
<1> QED  BY <1>1, <1>2, <1>3, <1>4, <1>5, NothingMerges DEF TablesInv

\* Every step keeps the invariant; none but the start of apply merges two hashes.
LEMMA TablesInductive ==
    ASSUME KernelInv, EdgesInv, TablesInv, [Next]_vars
    PROVE  TablesInv' /\ (phase # "build" => StepRefines)
<1>1. CASE Build
  BY <1>1, BuildTables
<1>2. CASE StartApply
  BY <1>2, StartTables DEF StartApply
<1>3. CASE Propagate
  BY <1>3, PropagateTables
<1>4. CASE PropagateThrows
  BY <1>4, PropagateThrowsNever
<1>5. CASE \E s \in d_symbols : Region(s)
  BY <1>5, RegionTables
<1>6. CASE SpecificDone
  BY <1>6, SpecificDoneTables
<1>7. CASE RefineWithPruning
  BY <1>7, PruneTables
<1>8. CASE RefineInPlace \/ RefineDone \/ Rename \/ RenameThrows
  BY <1>8, QuietTables
<1>9. CASE UNCHANGED vars
  BY <1>9, TablesStutter
<1> QED
  BY <1>1, <1>2, <1>3, <1>4, <1>5, <1>6, <1>7, <1>8, <1>9 DEF Next, Step, Stopped

\* So the invariants hold of a first kernel at any time.
LEMMA EdgesInvariant == Spec => []EdgesInv
<1>1. Init => EdgesInv
  BY EdgesInitially
<1>2. KernelInv /\ EdgesInv /\ [Next]_vars => EdgesInv'
  BY EdgesInductive
<1> QED
  BY <1>1, <1>2, KernelInvariant, PTL DEF Spec

\* The same of the tables.
LEMMA TablesInvariant == Spec => []TablesInv
<1>1. Init => TablesInv
  BY TablesInitially
<1>2. KernelInv /\ EdgesInv /\ TablesInv /\ [Next]_vars => TablesInv'
  BY TablesInductive
<1> QED
  BY <1>1, <1>2, KernelInvariant, EdgesInvariant, PTL DEF Spec

(***************************************************************************)
(* Whatever the input, the flags and the choices of specific_propagate:    *)
(* two nodes that have different hashes never have the same one again, in  *)
(* no call of propagate (kernel.cpp:157-299), although a round mixes       *)
(* something into the nodes of some regions and nothing into the others.   *)
(***************************************************************************)
THEOREM HashesStayApart == Spec => ApartForGood
<1>1. ASSUME KernelInv, EdgesInv, TablesInv, [Next]_vars
      PROVE  [ phase # "build" => \A i, j \in Numbers :
                 d_hash_table[i] # d_hash_table[j] => d_hash_table'[i] # d_hash_table'[j] ]_vars
  <2> SUFFICES ASSUME phase # "build", NEW i \in Numbers, NEW j \in Numbers,
                      d_hash_table[i] # d_hash_table[j]
               PROVE  d_hash_table'[i] # d_hash_table'[j]
    OBVIOUS
  <2>1. StepRefines /\ DOMAIN d_hash_table = Numbers
    BY <1>1, TablesInductive, StartedFacts
  <2> QED  BY <2>1 DEF StepRefines, NoMerge
<1> QED
  BY <1>1, KernelInvariant, EdgesInvariant, TablesInvariant, PTL DEF Spec, ApartForGood

(***************************************************************************)
(* Every round of the pruning loop of apply but the first settles a        *)
(* symbol, so that the loop ends after at most one round more than there   *)
(* are symbols.                                                            *)
(***************************************************************************)
THEOREM RoundsResolve == Spec => EveryRoundResolves
<1>1. ASSUME KernelInv, TablesInv, [Next]_vars
      PROVE  [ phase = "loop" /\ phase' = "specific" /\ d_hash_table # d_context_hash /\ options.sbp
                 => Len(d_unique_symbols') > Len(d_unique_symbols) ]_vars
  <2> SUFFICES ASSUME phase = "loop", phase' = "specific", d_hash_table # d_context_hash, options.sbp
               PROVE  Len(d_unique_symbols') > Len(d_unique_symbols)
    OBVIOUS
  <2>1. RefineWithPruning
    BY <1>1 DEF Next, Step, Stopped, Build, StartApply, Propagate, PropagateThrows, Region,
                SpecificDone, RefineInPlace, RefineDone, Rename, RenameThrows, vars, kernelVars
  <2>2. /\ ~Refined /\ rebuild_graph /\ UNCHANGED <<input, d_nodes>>
    BY <2>1 DEF RefineWithPruning
  <2>3. Started /\ Partition /\ WalkTypeOK /\ d_processing \subseteq Numbers
        /\ d_symbols \subseteq Numbers /\ DOMAIN d_hash_table = Numbers
    BY <1>1, StartedFacts
  <2>4. d_symbols # {}
    <3>1. SUFFICES ASSUME d_symbols = {}  PROVE FALSE
      OBVIOUS
    <3>2. Range(d_unique_symbols) = SymbolNumbers
      BY <2>3, <3>1 DEF Partition
    <3>3. Len(d_unique_symbols) = Cardinality(SymbolNumbers)
      <4>1. Len(d_unique_symbols) \in Nat /\ DOMAIN d_unique_symbols = 1..Len(d_unique_symbols)
        BY <2>3 DEF Partition
      <4>2. /\ d_unique_symbols \in Injection(1..Len(d_unique_symbols), SymbolNumbers)
            /\ d_unique_symbols \in Surjection(1..Len(d_unique_symbols), SymbolNumbers)
        BY <2>3, <3>2, <4>1 DEF Partition, Range, IsInjective, Injection, Surjection
      <4>3. IsFiniteSet(1..Len(d_unique_symbols))
            /\ Cardinality(1..Len(d_unique_symbols)) = Len(d_unique_symbols)
        <5>1. \A n \in Nat : IsFiniteSet(1..n) /\ Cardinality(1..n) = n
          BY FS_Interval
        <5> QED  BY <4>1, <5>1
      <4> QED  BY <4>2, <4>3, FS_Surjection
    <3> QED  BY <2>2, <2>3, <3>3 DEF Refined, Started
  <2>5. PICK s \in d_symbols : Alone(d_hash_table, s)
    BY <1>1, <2>4 DEF TablesInv, SomeAlone
  <2>6. d_visited = {}
    BY <1>1 DEF TablesInv
  <2>7. s \notin Kept
    BY <2>3, <2>5, <2>6 DEF Kept, Ambiguous, Alone
  <2>8. /\ Partition' /\ SymbolNumbers' = SymbolNumbers
        /\ \/ d_unique_symbols' = d_unique_symbols
           \/ Len(d_unique_symbols') > Len(d_unique_symbols)
    BY <2>2, <2>3, RebuildPartitions
  <2>9. s \in SymbolNumbers /\ s \notin Range(d_unique_symbols)
    BY <2>3, <2>5 DEF Partition
  <2>10. s \notin d_symbols'
    BY <2>2, <2>7 DEF rebuild_graph
  <2>11. d_unique_symbols' # d_unique_symbols
    BY <2>8, <2>9, <2>10 DEF Partition, Range
  <2> QED  BY <2>8, <2>11
<1> QED
  BY <1>1, KernelInvariant, TablesInvariant, PTL DEF Spec, EveryRoundResolves

(***************************************************************************)
(* What is settled stays settled: a node that rebuild_graph has taken out  *)
(* of d_processing, and whose hash is never touched again, keeps a hash of *)
(* its own while the others go on to be hashed.                            *)
(***************************************************************************)
THEOREM SettledNodesStayApart == Spec => []SettledStayApart
<1>1. TablesInv => SettledStayApart
  BY DEF TablesInv
<1> QED
  BY <1>1, TablesInvariant, PTL
=============================================================================
