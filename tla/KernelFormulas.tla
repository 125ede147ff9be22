--------------------------- MODULE KernelFormulas ---------------------------
(***************************************************************************)
(* Small assertion DAGs for the kernel. Terms are hash-consed, as the      *)
(* parser makes them: two nodes never have the same kind and operands.     *)
(***************************************************************************)
EXTENDS Naturals, Sequences, Functions

MCDagNode ==
    {"a", "b", "c", "d", "f", "g", "one", "u", "v", "t1", "t2", "t3", "t4", "t5", "t6",
     "t7", "t8", "t9", "t10", "t11"}

\* Kinds, as hash_node tells them apart.
Variable == 1
Le == 2
Eq == 3
Function == 4
Apply == 5
One == 6
Or == 7
Not == 8
Exists == 9
Implies == 10
Plus == 11
And == 12

\* A formula from its terms: term |-> <<kind, operands>>, where function[n] is the
\* function the application n is of.
FormulaOver(assertions, terms, function) ==
    LET operands == [n \in MCDagNode |-> IF n \in DOMAIN terms THEN terms[n][2] ELSE << >>]
        kind == [n \in MCDagNode |->
                   IF n \in DOMAIN terms THEN terms[n][1]
                   ELSE IF n \in {"f", "g"} THEN Function ELSE IF n = "one" THEN One ELSE Variable]
        h[n \in MCDagNode] ==
            IF n \notin DOMAIN terms THEN 0
            ELSE CHOOSE k \in 1..4 :
                   /\ \A c \in Range(operands[n]) : h[c] < k
                   /\ k = 1 \/ \E c \in Range(operands[n]) : h[c] = k - 1
    IN [assertions |-> assertions, operands |-> operands,
        uf |-> [n \in MCDagNode |-> IF kind[n] = Apply THEN function[n] ELSE "none"],
        class |-> kind,
        commutative |-> {n \in MCDagNode : kind[n] \in {Eq, Or, And, Plus, Exists}},
        leading |-> {n \in MCDagNode : kind[n] = Exists},
        symbol |-> {n \in MCDagNode : kind[n] \in {Variable, Function}},
        height |-> h]

Formula(assertions, terms, function) ==
    FormulaOver(assertions, terms, [n \in MCDagNode |-> function])

Binary(k, x, y) == <<k, <<x, y>>>>

\* x = y, written with its operands in either order.
Pair(x, y) == Formula(<<"t1">>, [t1 |-> Binary(Eq, x, y)], "none")

\* a <= b, b <= c : nothing to perturb.
Chain(assertions) == Formula(assertions,
    [t1 |-> Binary(Le, "a", "b"), t2 |-> Binary(Le, "b", "c")], "none")

\* a <= b, b <= c, c <= a : three symbols that a rotation exchanges.
Cycle(assertions) == Formula(assertions,
    [t1 |-> Binary(Le, "a", "b"), t2 |-> Binary(Le, "b", "c"),
     t3 |-> Binary(Le, "c", "a")], "none")

\* a = b, c = d : two regions with the same fingerprint.
TwoPairs(assertions) == Formula(assertions,
    [t1 |-> Binary(Eq, "a", "b"), t2 |-> Binary(Eq, "c", "d")], "none")

\* f(a) = f(b), f(a) = 1 : a function symbol, and an asymmetry one level up.
Applied(assertions, x, y) == Formula(assertions,
    [t1 |-> <<Apply, <<"a">>>>, t2 |-> <<Apply, <<"b">>>>,
     t3 |-> Binary(Eq, x, y), t4 |-> Binary(Eq, "t1", "one")], "f")

\* (or (not a) b), (or (not b) a) : shared terms.
Shared(assertions, x, y) == Formula(assertions,
    [t1 |-> <<Not, <<"a">>>>, t2 |-> <<Not, <<"b">>>>,
     t3 |-> Binary(Or, x, y), t4 |-> Binary(Or, "t2", "a")], "none")

\* (<= (+ a a b) c), (<= b c) : a repeated operand.
Repeated(assertions) == Formula(assertions,
    [t1 |-> <<Plus, <<"a", "a", "b">>>>, t2 |-> Binary(Le, "t1", "c"),
     t3 |-> Binary(Le, "b", "c")], "none")

\* (exists c (c <= a)), a = b : a bound symbol, and an operand that stands apart.
Quantified(assertions) == Formula(assertions,
    [t1 |-> Binary(Le, "c", "a"), t2 |-> Binary(Exists, "t1", "c"),
     t3 |-> Binary(Eq, "a", "b")], "none")

\* (=> (exists c (c <= a)) (exists d (d <= b))), a = b.
Implication(assertions) == Formula(assertions,
    [t1 |-> Binary(Le, "c", "a"), t2 |-> Binary(Le, "d", "b"),
     t3 |-> Binary(Exists, "t1", "c"), t4 |-> Binary(Exists, "t2", "d"),
     t5 |-> Binary(Implies, "t3", "t4"), t6 |-> Binary(Eq, "a", "b")], "none")

\* (or (not (<= a 1)) c), (or (not (<= b 1)) c) : a difference between a and b has to
\* pass three levels.
Deep(assertions) == Formula(assertions,
    [t1 |-> Binary(Le, "a", "one"), t2 |-> Binary(Le, "b", "one"),
     t3 |-> <<Not, <<"t1">>>>, t4 |-> <<Not, <<"t2">>>>,
     t5 |-> Binary(Or, "t3", "c"), t6 |-> Binary(Or, "t4", "c")], "none")

\* a <= b <= c <= d <= a with a = b and c = d : four symbols that refinement
\* cannot tell apart although a and b are not interchangeable.
Ladder(assertions) == Formula(assertions,
    [t1 |-> Binary(Le, "a", "b"), t2 |-> Binary(Le, "b", "c"),
     t3 |-> Binary(Le, "c", "d"), t4 |-> Binary(Le, "d", "a"),
     t5 |-> Binary(Eq, "a", "b"), t6 |-> Binary(Eq, "c", "d")], "none")

\* With p for (and (f a a) (f b b)) and q for (and (f a b) (f b a)): (not c), (=> c p),
\* (=> d q), (not p), (not q). Only the last sweep tells p from q, and by then c and d
\* are long told apart.
Crossed(assertions) == Formula(assertions,
    [t1 |-> <<Apply, <<"a", "a">>>>, t2 |-> <<Apply, <<"b", "b">>>>,
     t3 |-> <<Apply, <<"a", "b">>>>, t4 |-> <<Apply, <<"b", "a">>>>,
     t5 |-> Binary(And, "t1", "t2"), t6 |-> Binary(And, "t3", "t4"), t7 |-> <<Not, <<"c">>>>,
     t8 |-> Binary(Implies, "c", "t5"), t9 |-> Binary(Implies, "d", "t6"),
     t10 |-> <<Not, <<"t5">>>>, t11 |-> <<Not, <<"t6">>>>], "f")
=============================================================================
