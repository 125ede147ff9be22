---------------------------- MODULE SortFormulas ----------------------------
(***************************************************************************)
(* Small scripts for the kernel with declared sorts U and V, or datatypes  *)
(* D and E. They call their sorts so, unless the new names are asked about.*)
(***************************************************************************)
EXTENDS KernelFormulas, TLC

MCDeclaredSort == {"U", "V", "D", "E"}

BuiltIn == [at |-> "plain", of |-> "none"]
Declared(s) == [at |-> "declared", of |-> s]
ArrayOver(s) == [at |-> "array", of |-> s]

\* A script from a formula, the sorts of some nodes and the datatypes.
Script(formula, sorts, blocks) ==
    [input |-> formula,
     declared |-> [sort |-> [n \in MCDagNode |-> IF n \in DOMAIN sorts THEN sorts[n] ELSE BuiltIn],
                   called |-> [s \in MCDeclaredSort |-> <<"", s>>],
                   blocks |-> blocks]]

\* The script with other names for some of its sorts.
Calling(script, names) == [script EXCEPT !.declared.called = names @@ @]

Plain(formula) == Script(formula, << >>, << >>)

\* a = b in U, c = d in V : two sorts that can be exchanged.
TwoSorts(assertions) ==
    Script(TwoPairs(assertions),
           [a |-> Declared("U"), b |-> Declared("U"), c |-> Declared("V"), d |-> Declared("V")],
           << >>)

\* a = b between arrays over U, c = d between arrays over V, f(u) with u in U and g(v)
\* with v in V.
ArraysAndSorts(assertions) ==
    Script(FormulaOver(assertions,
             [t1 |-> Binary(Eq, "a", "b"), t2 |-> Binary(Eq, "c", "d"),
              t3 |-> <<Apply, <<"u">>>>, t4 |-> <<Apply, <<"v">>>>],
             [n \in MCDagNode |-> IF n = "t3" THEN "f" ELSE "g"]),
           [a |-> ArrayOver("U"), b |-> ArrayOver("U"), c |-> ArrayOver("V"), d |-> ArrayOver("V"),
            u |-> Declared("U"), v |-> Declared("V")],
           << >>)

\* f(a) = b, f(b) = a with f from U to U, and c = d in V.
FunctionOnSort(assertions) ==
    Script(Formula(assertions,
             [t1 |-> <<Apply, <<"a">>>>, t2 |-> <<Apply, <<"b">>>>,
              t3 |-> Binary(Eq, "t1", "b"), t4 |-> Binary(Eq, "t2", "a"),
              t5 |-> Binary(Eq, "c", "d")], "f"),
           [n \in {"a", "b", "f", "t1", "t2"} |-> Declared("U")]
             @@ [n \in {"c", "d"} |-> Declared("V")],
           << >>)

Enumeration(names) == [c \in DOMAIN names |-> [name |-> names[c], selectors |-> << >>]]

\* a = f, b = g where f and g are two of the three constructors of D.
Enumerated(assertions) ==
    Script(FormulaOver(assertions,
             [t1 |-> <<Apply, << >>>>, t2 |-> <<Apply, << >>>>,
              t3 |-> Binary(Eq, "a", "t1"), t4 |-> Binary(Eq, "b", "t2")],
             [n \in MCDagNode |-> IF n = "t1" THEN "f" ELSE "g"]),
           [n \in {"a", "b", "f", "g", "t1", "t2"} |-> Declared("D")],
           <<<<[name |-> "D", ctors |-> Enumeration(<<"f", "g", "u">>)]>>>>)

\* f(a) = 1, g(b) = 1 where f selects from D and g from E, of two blocks.
Selected(assertions) ==
    LET type(t, ctor, selector) ==
            [name |-> t, ctors |-> <<[name |-> ctor,
                selectors |-> <<[name |-> selector, sort |-> BuiltIn]>>]>>]
    IN Script(FormulaOver(assertions,
                [t1 |-> <<Apply, <<"a">>>>, t2 |-> <<Apply, <<"b">>>>,
                 t3 |-> Binary(Eq, "t1", "one"), t4 |-> Binary(Eq, "t2", "one")],
                [n \in MCDagNode |-> IF n = "t1" THEN "f" ELSE "g"]),
              [a |-> Declared("D"), b |-> Declared("E")],
              <<<<type("D", "u", "f")>>, <<type("E", "v", "g")>>>>)

\* a = b between arrays over U, and no node of sort U.
ArraysOnly == Script(Pair("a", "b"), [a |-> ArrayOver("U"), b |-> ArrayOver("U")], << >>)

\* As Selected, with a second selector in either constructor, one of them an array over
\* sort (no node has the sort U), and a third type nobody uses.
HalfSelected(assertions, sort) ==
    LET type(t, ctor, selectors) ==
            [name |-> t, ctors |-> <<[name |-> ctor, selectors |-> selectors]>>]
        plain(selector) == [name |-> selector, sort |-> BuiltIn]
    IN Script(Selected(assertions).input,
              [a |-> Declared("D"), b |-> Declared("E")],
              <<<<type("D", "u", <<plain("f"), [name |-> "rest", sort |-> sort]>>)>>,
                <<type("V", "w", <<plain("only")>>),
                  type("E", "v", IF sort = BuiltIn THEN <<plain("g"), plain("other")>>
                                                   ELSE <<plain("g")>>)>>>>)
=============================================================================
