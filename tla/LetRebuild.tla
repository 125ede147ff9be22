----------------------------- MODULE LetRebuild -----------------------------
(***************************************************************************)
(* Writing a formula: rebuildLetBindings gives every shared term a let     *)
(* binding L0, L1, ...  Terms without quantifiers are bound as far out as  *)
(* their variables allow (first pass), terms with quantifiers at the root  *)
(* (second pass).  The nodes are copies which both passes change in place. *)
(*                                                                         *)
(* The formula is built here node by node, as reading does it: a node is   *)
(* made once, its operands come before it, the last node is the root.      *)
(***************************************************************************)
EXTENDS Naturals, Sequences, FiniteSets, SequencesExt, FiniteSetsExt, Functions

CONSTANTS Variables,   \* the quantified variables
          Quantifiers, \* "forall" and "exists", or one of them
          MaxTerms     \* bound on the nodes that are not leaves

ASSUME TermsBound == MaxTerms \in Nat

VARIABLE dag

Leaf(op) == [op |-> op, kids |-> <<>>]

\* A symbol and the quantified variables.
Leaves == <<Leaf("symbol")>> \o SetToSeq({Leaf(v) : v \in Variables})

NumLeaves == Len(Leaves)
Root      == Len(dag)

(***************************************************************************)
(* Kinds of nodes, as the predicates of rebuildLetBindings name them.      *)
(***************************************************************************)
IsVar(n)       == n.op \in Variables
IsQuanted(n)   == n.op \in {"forall", "exists"}
IsAttribute(n) == n.op = "!"
IsBinder(n)    == n.op = ":pattern"

Terms(d)  == {i \in DOMAIN d : ~IsBinder(d[i]) /\ ~IsAttribute(d[i])}
UsedIn(d) == UNION {ToSet(d[i].kids) : i \in DOMAIN d}
Unused(d) == {i \in DOMAIN d : i > NumLeaves} \ UsedIn(d)

\* The order in which a depth first search with a stack finishes: the last
\* operand first.
RECURSIVE Finished(_, _, _)
Finished(kids, i, done) ==
    IF i \in ToSet(done) THEN done
    ELSE Append(FoldRight(LAMBDA k, acc : Finished(kids, k, acc), kids[i], done), i)

\* The nodes of a formula, in the order of the first traversal.
Nodes(d) ==
    Finished([i \in DOMAIN d |-> IF IsBinder(d[i]) THEN <<>> ELSE d[i].kids], Len(d), <<>>)

Refs(d, i) ==
    Cardinality({<<j, k>> \in ToSet(Nodes(d)) \X (1..3) :
                    /\ ~IsBinder(d[j])
                    /\ k \in DOMAIN d[j].kids
                    /\ d[j].kids[k] = i})

IsSuitableForLet(d, i) ==
    /\ ~IsBinder(d[i]) /\ ~IsVar(d[i]) /\ ~IsAttribute(d[i])
    /\ d[i].op # "symbol"
    /\ Refs(d, i) > 1

\* Outer quantifiers before inner ones.
Quanted(d) == Reverse(SelectSeq(Nodes(d), LAMBDA i : IsQuanted(d[i])))

MaxLevel == MaxTerms + 1

\* Mutant: a term is bound with the first of its variables.
LevelOfFirst(d) ==
    LET own(i) == IF IsQuanted(d[i]) THEN MaxLevel
                  ELSE Max({0} \cup {q \in DOMAIN Quanted(d) : i \in ToSet(Tail(d[Quanted(d)[q]].kids))})
        Level[i \in DOMAIN d] ==
            LET below == {Level[d[i].kids[k]] : k \in DOMAIN d[i].kids} \ {0}
            IN  IF d[i].kids = <<>> \/ below = {} THEN own(i)
                ELSE IF MaxLevel \in below \cup {own(i)} THEN MaxLevel ELSE Min(below)
    IN  Level

\* let_level: the variables of the i-th quantifier have level i, a term the
\* highest level of its operands, a quantifier and what is above it the last.
LetLevel(d) ==
    LET own(i) == IF IsQuanted(d[i]) THEN MaxLevel
                  ELSE Max({0} \cup {q \in DOMAIN Quanted(d) : i \in ToSet(Tail(d[Quanted(d)[q]].kids))})
        Level[i \in DOMAIN d] ==
            Max({own(i)} \cup {Level[d[i].kids[k]] : k \in DOMAIN d[i].kids})
    IN  Level

(***************************************************************************)
(* The result.  An operand of a written node is a node or the number of a  *)
(* let variable; lets[i] are the nodes bound around the body of quantifier *)
(* i, chain those bound around the root, in the order of the bindings.     *)
(***************************************************************************)
AsNode(i) == [let |-> FALSE, is |-> i]
AsLet(n)  == [let |-> TRUE, is |-> n]

Place(s, x) == SelectInSeq(s, LAMBDA y : y = x)

\* Mutant: the second pass counts from the start again.
NumbersRestarted(first, second) ==
    [i \in ToSet(first \o second) |->
       IF i \in ToSet(first) THEN Place(first, i) ELSE Place(second, i)]

\* The numbers of the let variables, in the order in which they are made.
Numbers(first, second) ==
    [i \in ToSet(first \o second) |-> Place(first \o second, i)]

rebuildLetBindings(d) ==
    LET nodes  == Nodes(d)
        level  == LetLevel(d)
        first  == SelectSeq(nodes, LAMBDA i : IsSuitableForLet(d, i) /\ level[i] < MaxLevel)
        atRoot == SelectSeq(first, LAMBDA i : level[i] = 0)
        \* the second traversal enters neither let variables nor quantifiers
        rest   == Finished([i \in DOMAIN d |->
                              IF IsBinder(d[i]) \/ IsQuanted(d[i]) THEN <<>>
                              ELSE SelectSeq(d[i].kids, LAMBDA k : k \notin ToSet(first))],
                           Len(d), <<>>)
        second == SelectSeq(rest, LAMBDA i : IsSuitableForLet(d, i))
        \* its replacements stay in a node that is also below a quantifier
        entered == {i \in ToSet(rest) : ~IsQuanted(d[i]) /\ ~IsBinder(d[i])}
        kid(i, k) ==
            IF k \in ToSet(first) \/ (i \in entered /\ k \in ToSet(second))
            THEN AsLet(Numbers(first, second)[k]) ELSE AsNode(k)
    IN  [number |-> Numbers(first, second),
         kids  |-> [i \in DOMAIN d |-> [p \in DOMAIN d[i].kids |-> kid(i, d[i].kids[p])]],
         lets  |-> [i \in DOMAIN d |->
                      IF IsQuanted(d[i])
                      THEN SelectSeq(first, LAMBDA j : level[j] # 0 /\ Quanted(d)[level[j]] = i)
                      ELSE <<>>],
         chain |-> atRoot \o second]

(***************************************************************************)
(* What is written, read again.  env are the variables in scope and, for   *)
(* the numbers of the let variables in scope, the terms they stand for.    *)
(***************************************************************************)
\* The formula written out without any let.
Unfolded(d) ==
    LET Term[i \in DOMAIN d] == <<d[i].op, [k \in DOMAIN d[i].kids |-> Term[d[i].kids[k]]]>>
    IN  Term[Len(d)]

Unbound == <<"unbound", <<>> >>

RECURSIVE Read(_, _, _, _), ReadChain(_, _, _, _)
Read(d, r, arg, env) ==
    LET n      == d[arg.is]
        scope  == IF IsQuanted(n) THEN [env EXCEPT !.vars = @ \cup {n.kids[2]}] ELSE env
        inBody == ReadChain(d, r, r.lets[arg.is], scope)
    IN  CASE arg.let -> IF arg.is \in DOMAIN env.lets THEN env.lets[arg.is] ELSE Unbound
          [] ~arg.let /\ IsVar(n) /\ arg.is \notin env.vars -> Unbound
          [] OTHER -> <<n.op, [k \in DOMAIN n.kids |->
                                 Read(d, r, r.kids[arg.is][k], IF k = 1 THEN inBody ELSE scope)]>>

\* The bindings of a chain, each in the scope of those before it.
ReadChain(d, r, chain, env) ==
    FoldLeft(LAMBDA e, j :
               [e EXCEPT !.lets = [n \in DOMAIN e.lets \cup {r.number[j]} |->
                                     IF n = r.number[j] THEN Read(d, r, AsNode(j), e)
                                     ELSE e.lets[n]]],
             env, chain)

Written(d) ==
    LET r == rebuildLetBindings(d)
    IN  Read(d, r, AsNode(Len(d)),
             ReadChain(d, r, r.chain, [vars |-> {}, lets |-> <<>>]))

RECURSIVE HasUnbound(_)
HasUnbound(t) == t = Unbound \/ \E k \in DOMAIN t[2] : HasUnbound(t[2][k])

(***************************************************************************)
(* Building a formula.                                                     *)
(***************************************************************************)
Init == dag = Leaves

\* Equal nodes are one node; of the nodes not yet used, no more than the
\* remaining ones can take up.
Add(nodes) ==
    /\ Len(dag) + Len(nodes) <= NumLeaves + MaxTerms
    /\ dag' = dag \o nodes
    /\ Last(nodes) \notin ToSet(dag)
    /\ Cardinality(Unused(dag')) <= NumLeaves + MaxTerms + 1 - Len(dag')

AddOper(a, b) ==
    /\ a <= b
    /\ Add(<<[op |-> "f", kids |-> <<a, b>>]>>)

AddQuantifier(kind, body, v) == Add(<<[op |-> kind, kids |-> <<body, v>>]>>)

AddAnnotated(kind, body, v) ==
    Add(<<Leaf(":pattern"),
          [op |-> "!", kids |-> <<body, Len(dag) + 1>>],
          [op |-> kind, kids |-> <<Len(dag) + 2, v>>]>>)

Next ==
    \/ \E a, b \in Terms(dag) : AddOper(a, b)
    \/ \E body \in Terms(dag), v \in {i \in DOMAIN dag : IsVar(dag[i])} :
          \E kind \in Quantifiers : \/ AddQuantifier(kind, body, v)
                                     \/ AddAnnotated(kind, body, v)

Spec == Init /\ [][Next]_dag

(***************************************************************************)
(* What rebuilding promises.                                               *)
(***************************************************************************)
FreeVariables(d) ==
    LET Free[i \in DOMAIN d] ==
            IF IsVar(d[i]) THEN {i}
            ELSE UNION {Free[d[i].kids[k]] : k \in DOMAIN d[i].kids}
                   \ (IF IsQuanted(d[i]) THEN {d[i].kids[2]} ELSE {})
    IN  Free[Len(d)]

\* What is asserted: all variables bound, every node used.
IsFormula(d) == Len(d) > NumLeaves /\ FreeVariables(d) = {} /\ Cardinality(Unused(d)) = 1

(* Whatever is shared: either the written formula, read again, is the      *)
(* formula, or a let variable is used where it is not bound.  It is never  *)
(* another formula (rebuildLetBindings, LET_CHAIN).                        *)
NeverAnotherFormula ==
    IsFormula(dag) => Written(dag) = Unfolded(dag) \/ HasUnbound(Written(dag))

\* No variable is bound by two quantifiers: only the expansion of a function
\* whose body has a quantifier makes such formulas.
BoundOnce(d) ==
    \A i, j \in DOMAIN d :
        IsQuanted(d[i]) /\ IsQuanted(d[j]) /\ d[i].kids[2] = d[j].kids[2] => i = j

\* No operator above a quantifier is used both inside and outside of others.
QuantifiersApart(d) ==
    LET outside == ToSet(Finished([i \in DOMAIN d |-> IF IsQuanted(d[i]) THEN <<>> ELSE d[i].kids],
                                  Len(d), <<>>))
        inside  == UNION {ToSet(Finished([i \in DOMAIN d |-> d[i].kids], q, <<>>)) \ {q} :
                            q \in {i \in DOMAIN d : IsQuanted(d[i])}}
    IN  \A i \in inside \cap outside : IsQuanted(d[i]) \/ LetLevel(d)[i] # MaxLevel

(* In formulas without these two kinds of sharing every let variable is    *)
(* bound where it is used, and the written formula means what it should.   *)
LetsMeanTheSame ==
    IsFormula(dag) /\ BoundOnce(dag) /\ QuantifiersApart(dag) => Written(dag) = Unfolded(dag)
=============================================================================
