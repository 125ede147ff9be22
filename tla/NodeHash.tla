------------------------------ MODULE NodeHash ------------------------------
(***************************************************************************)
(* The hash helpers of the kernel (src/src/util/node_helper.cpp) over      *)
(* ideal hash values. hash_mix is taken to be injective on the values a run*)
(* meets: a hash value is the sequence of the numbers mixed into it, so two*)
(* nodes have equal hashes exactly when the same things, in the same order,*)
(* were mixed into both. What is mixed in is marked, so that a sequence can*)
(* be read in one way only: 0 is a perturbation, 1 begins the fingerprint  *)
(* of a region, a greater number is what a sweep of propagate adds. Only   *)
(* two uses are made of a hash, and both are here: it is compared for      *)
(* equality, and it is ordered. The order of real hashes is arbitrary but  *)
(* depends on the value alone; the lexicographic order below is one such   *)
(* order.                                                                  *)
(***************************************************************************)
EXTENDS Naturals, Sequences, FiniteSetsExt

HashValue == Seq(Nat)

\* The marks of what is not a number of a sweep.
Perturbed == 0
Fingerprint == 1

\* An operand position is below PositionBase.
PositionBase == 16

Before(s, t) ==
    LET apart == {i \in DOMAIN s \intersect DOMAIN t : s[i] # t[i]}
    IN IF apart = {} THEN Len(s) < Len(t) ELSE s[Min(apart)] < t[Min(apart)]

\* Stands for hash_mix on a table of sequences: equal ones get equal numbers,
\* others numbers in their order, all of them above the marks.
hash_mix(table) ==
    LET values == {table[n] : n \in DOMAIN table}
        number == [v \in values |-> Cardinality({w \in values : Before(w, v)}) + 2]
    IN [n \in DOMAIN table |-> number[table[n]]]

hash_combine(seed, value) == Append(seed, value)

\* The numbers of s, the lowest first: the k-th is the least with k of them up to it.
InOrder(s) ==
    LET UpTo(v) == Cardinality({i \in DOMAIN s : s[i] <= v})
    IN [k \in DOMAIN s |-> Min({v \in {s[i] : i \in DOMAIN s} : UpTo(v) >= k})]

\* What the operands of a node add to it: their hashes in operand order.
hash_children(children, table) ==
    [i \in DOMAIN children |-> table[children[i]]]

\* Mutant: the operands of a commutative node are mixed in operand order.
hash_communative_in_order(children, table) == hash_children(children, table)

\* The same for a commutative node: a sum over the operands, so their bag.
hash_communative_children(children, table) ==
    InOrder(hash_children(children, table))

\* What the users of a node add to it: the bag of their hashes, each with the
\* position the node has among their operands.
hash_parents(parents, table) ==
    InOrder([i \in DOMAIN parents |->
               table[parents[i][1]] * PositionBase + parents[i][2]])
=============================================================================
