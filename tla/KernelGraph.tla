---------------------------- MODULE KernelGraph ----------------------------
(***************************************************************************)
(* The constructor of the normalization kernel (Kernel::Kernel,            *)
(* src/src/kernel/kernel.cpp): it walks the assertion DAG with an explicit *)
(* stack, numbers every reachable node after its operands and records, by  *)
(* number, the operands of each node (d_graph) and, with operand position, *)
(* the nodes it is an operand of (d_reversed_graph).                       *)
(*                                                                         *)
(* Numbers start at 1 here and at 0 in the code; the code's SIZE_MAX, the  *)
(* mark of a node that is on the stack with its operands above it, is 0.   *)
(***************************************************************************)
EXTENDS Naturals, Sequences, FiniteSets, Functions, Selection

CONSTANTS
    DagNode,  \* DAG nodes: the hash-consed terms of the parser
    NoNode,   \* stands for "no function symbol"
    Inputs    \* the assertion DAGs a kernel may be built from

(***************************************************************************)
(* An input is what the constructor reads of the node manager:             *)
(*   assertions  the assertion list, never empty and without repetitions,  *)
(*               as NodeManager::simplify_assertions leaves it             *)
(*   operands    operand list of each node                                 *)
(*   uf          function symbol of an uninterpreted application, or NoNode*)
(*   class       hash_node: equal iff sort, kind, operand count and, of a  *)
(*               constant, text are equal                                  *)
(*   commutative nodes whose kind is_commutative lists                     *)
(*   leading     those of them whose operand 1 stands apart (rounding mode *)
(*               of fp.add and fp.mul, body of a quantifier)               *)
(*   symbol      variables, arrays, uninterpreted constants and functions  *)
(*   height      height of the term: it makes the DAG acyclic              *)
(***************************************************************************)
InputType ==
    [assertions : Seq(DagNode), operands : [DagNode -> Seq(DagNode)],
     uf : [DagNode -> DagNode \union {NoNode}], class : [DagNode -> Nat],
     commutative : SUBSET DagNode, leading : SUBSET DagNode,
     symbol : SUBSET DagNode, height : [DagNode -> Nat]]

\* The nodes the walk visits from n: operands, then the function symbol.
Successors(f, n) ==
    IF f.uf[n] = NoNode THEN f.operands[n] ELSE Append(f.operands[n], f.uf[n])

ASSUME NoNodeAssumption == NoNode \notin DagNode

ASSUME InputsAssumption ==
    \A f \in Inputs :
        /\ f \in InputType
        /\ f.assertions # << >> /\ IsInjective(f.assertions)
        /\ \A n \in DagNode : f.uf[n] # NoNode => f.uf[n] \in f.symbol
        /\ \A n \in f.symbol, m \in DagNode \ f.symbol : f.class[n] # f.class[m]
        /\ \A n \in DagNode : \A c \in Range(Successors(f, n)) :
              f.height[c] < f.height[n]

VARIABLES
    input,             \* the assertion DAG of this kernel
    visit,             \* the stack of nodes still to be looked at
    node2index,        \* number of a node; 0 while its operands are visited
    d_nodes,           \* numbered nodes, operands first
    d_graph,           \* operands (and function symbol) of each number
    d_reversed_graph   \* <<parent, operand position>> pairs of each number

graphVars == <<input, visit, node2index, d_nodes, d_graph, d_reversed_graph>>

Pending == 0
Top == visit[Len(visit)]
Popped == SubSeq(visit, 1, Len(visit) - 1)
Seen(n) == n \in DOMAIN node2index
\* Mutant: a node that has its number is taken for one that waits for it.
IsPendingOrNumbered(n) == Seen(n)

IsPending(n) == Seen(n) /\ node2index[n] = Pending
IsNumbered(n) == Seen(n) /\ node2index[n] # Pending

GraphInit ==
    /\ input \in Inputs
    /\ visit = input.assertions
    /\ node2index = << >>
    /\ d_nodes = << >>
    /\ d_graph = << >>
    /\ d_reversed_graph = << >>

\* Mutant: the function symbol of an application is not pushed.
ExpandOperandsOnly ==
    /\ visit # << >>
    /\ ~Seen(Top)
    /\ node2index' = [m \in DOMAIN node2index \union {Top} |->
                        IF m = Top THEN Pending ELSE node2index[m]]
    /\ visit' = visit \o input.operands[Top]
    /\ UNCHANGED <<input, d_nodes, d_graph, d_reversed_graph>>

\* First visit: mark the node and push what it is built from.
Expand ==
    /\ visit # << >>
    /\ ~Seen(Top)
    /\ node2index' = [m \in DOMAIN node2index \union {Top} |->
                        IF m = Top THEN Pending ELSE node2index[m]]
    /\ visit' = visit \o Successors(input, Top)
    /\ UNCHANGED <<input, d_nodes, d_graph, d_reversed_graph>>

(***************************************************************************)
(* The operand position recorded in the reversed graph. Operands of a      *)
(* commutative node share position 0. When the operand itself is an fp.add,*)
(* an fp.mul or a quantifier the code records min(i, 0): the test is on    *)
(* the operand's kind, and the minimum is 0 for every i.                   *)
(***************************************************************************)
OperandPosition(parent, i) ==
    LET child == Successors(input, parent)[i] IN
    IF i > Len(input.operands[parent]) THEN i - 1
    ELSE IF child \in input.leading \/ parent \in input.commutative THEN 0
    ELSE i - 1

\* The edges node n, about to get number k, adds to the entry of number c.
NewParentEdges(n, k, c) ==
    LET s == Successors(input, n)
        at == Only([i \in 1..Len(s) |-> i], {i \in 1..Len(s) : node2index[s[i]] = c})
    IN [j \in 1..Len(at) |-> <<k, OperandPosition(n, at[j])>>]

\* Second visit: everything below the node has its number, and it gets its own.
Number ==
    /\ visit # << >>
    /\ IsPending(Top)
    /\ LET n == Top
           k == Len(d_nodes) + 1
           s == Successors(input, n)
       IN /\ d_nodes' = Append(d_nodes, n)
          /\ d_graph' = Append(d_graph, [i \in 1..Len(s) |-> node2index[s[i]]])
          /\ d_reversed_graph' =
                Append([c \in 1..Len(d_reversed_graph) |->
                          d_reversed_graph[c] \o NewParentEdges(n, k, c)], << >>)
          /\ node2index' = [node2index EXCEPT ![n] = k]
    /\ visit' = Popped
    /\ UNCHANGED input

\* A later copy of a node that already has its number.
Skip ==
    /\ visit # << >>
    /\ IsNumbered(Top)
    /\ visit' = Popped
    /\ UNCHANGED <<input, node2index, d_nodes, d_graph, d_reversed_graph>>

GraphNext == Expand \/ Number \/ Skip

GraphSpec == GraphInit /\ [][GraphNext]_graphVars

-----------------------------------------------------------------------------
Numbers == 1..Len(d_nodes)

\* Of the walk itself: the refinement that follows changes none of these.
WalkTypeOK ==
    /\ input \in Inputs
    /\ visit \in Seq(DagNode)
    /\ DOMAIN node2index \subseteq DagNode
    /\ \A n \in DOMAIN node2index : node2index[n] \in Nat
    /\ d_nodes \in Seq(DagNode)

GraphTypeOK ==
    /\ WalkTypeOK
    /\ DOMAIN d_graph = Numbers
    /\ DOMAIN d_reversed_graph = Numbers

(***************************************************************************)
(* No step of the walk uses a number that is not there yet: when a node is *)
(* about to be numbered, every operand and the function symbol have their  *)
(* numbers (node2index.at does not throw and never yields SIZE_MAX).       *)
(***************************************************************************)
OperandsNumberedFirst ==
    visit # << >> /\ IsPending(Top) =>
        \A c \in Range(Successors(input, Top)) : IsNumbered(c)

(***************************************************************************)
(* Shared subterms, repeated operands and an assertion inside another one  *)
(* do not give a node two numbers: d_nodes and node2index are inverse to   *)
(* each other.                                                             *)
(***************************************************************************)
NumberedOnce ==
    /\ \A i \in Numbers : Seen(d_nodes[i]) /\ node2index[d_nodes[i]] = i
    /\ \A n \in DOMAIN node2index :
          IsNumbered(n) => node2index[n] \in Numbers /\ d_nodes[node2index[n]] = n
=============================================================================
