---------------------------- MODULE ScriptOutput ----------------------------
(***************************************************************************)
(* From a parser that has read a script to the text that is printed of it: *)
(* NodeManager::simplify_assertions, what Kernel::apply makes of the names *)
(* and of the tables of functions, and Parser::dumpSMT2. The numbers given *)
(* follow from hashes (modules Kernel, SymbolNaming): here a new name is   *)
(* <<prefix, what it stands for>>, another one for every thing renamed.    *)
(***************************************************************************)
EXTENDS Naturals, Sequences, FiniteSets, SequencesExt, Selection

\* An element that keeps the name it was read with.
AsRead(name) == <<"", name>>

\* The assertions are joined by and; of none it is true, which names nothing.
SimplifyAssertions(p) == UNION {p.assertions[i] : i \in DOMAIN p.assertions}

\* The functions a set of nodes applies by their node: these are operands of the
\* application, so that the kernel visits them and their bodies.
OperandFunctions(nodes) == {n.id : n \in {m \in nodes : m.at \in {"apply", "rec"}}}

\* The functions in the kernel's graph.
VisitedFunctions(p, asserted) ==
    Reached(OperandFunctions(asserted),
            [id \in DOMAIN p.funs |-> OperandFunctions(p.funs[id].body)],
            Len(p.funs))

\* The kernel's graph: the nodes of the assertions and of the bodies they lead to.
Graph(p) ==
    LET asserted == SimplifyAssertions(p)
        funs == VisitedFunctions(p, asserted)
    IN [asserted |-> asserted, funs |-> funs,
        nodes |-> asserted \union UNION {p.funs[id].body : id \in funs}]

VisitedOf(p, g, kind) == {id \in g.funs : p.funs[id].kind = kind}

\* The names of the nodes of the graph of one sort.
NamesAt(g, at) == {n.name : n \in {m \in g.nodes : m.at = at}}

(***************************************************************************)
(* Where Kernel::apply throws std::out_of_range: a definition whose name   *)
(* is no definition's any more; an application of a declared function when *)
(* no symbol was named, that is without subgraph pruning.                  *)
(***************************************************************************)
DefFunIds(p) ==
    {f \in {p.function_names[i] : i \in DOMAIN p.function_names} :
        p.funs[p.fun_key_map[[of |-> f, dup |-> 0]]].kind = "def"}

UnknownDefinition(p, g) ==
    \E id \in VisitedOf(p, g, "def") : p.funs[id].name.of \notin DefFunIds(p)

UnnamedFunction(g, pruning) == ~pruning /\ NamesAt(g, "uf") # {}

KernelThrows(p, g, pruning) == UnknownDefinition(p, g) \/ UnnamedFunction(g, pruning)

(***************************************************************************)
(* The names of the nodes of the graph once renamed.                       *)
(***************************************************************************)
\* Variables and declared functions are renamed as the symbols are; an application of
\* a definition with the definition; an application of a recursive function is not.
NodeName(n, pruning) ==
    CASE n.at = "var" -> IF pruning THEN <<"S", n.name>> ELSE AsRead(n.name)
      [] n.at = "uf" -> <<"UF", n.name>>
      [] n.at = "apply" -> <<"FDEF", n.name>>
      [] n.at = "rec" -> AsRead(n.name)

Printed(nodes, pruning) == {NodeName(n, pruning) : n \in nodes}

\* function_names_map: by old name, what is written later in the place of what was.
FunctionNamesMap(p, g) ==
    LET named(kind) == {p.funs[id].name : id \in VisitedOf(p, g, kind)}
    IN [n \in NamesAt(g, "uf") \union named("rec") \union named("def") |->
            CASE n \in named("def") -> <<"FDEF", n>>
              [] n \in named("rec") \ named("def") -> <<"FREC", n>>
              [] OTHER -> <<"UF", n>>]

(***************************************************************************)
(* The tables after the kernel and the text printed from them.             *)
(***************************************************************************)
Declaration(name, rec, body) == [declares |-> name, rec |-> rec, uses |-> body]

\* Variables that were not named leave var_names.
DeclaredVariables(g, pruning) ==
    IF pruning
    THEN SetToSeq({Declaration(<<"S", v>>, FALSE, {}) : v \in NamesAt(g, "var")})
    ELSE << >>

\* The functions of function_names that have a new name, once for each time they are
\* in it: the declared, the recursive and the defined ones, by what they are now.
DeclaredFunctions(p, names, kind, pruning) ==
    LET known == Only(p.function_names,
                      {f \in Range(p.function_names) :
                          /\ [of |-> f, dup |-> 0] \in DOMAIN names
                          /\ p.funs[p.fun_key_map[[of |-> f, dup |-> 0]]].kind = kind})
    IN [i \in DOMAIN known |->
            LET old == [of |-> known[i], dup |-> 0] IN
            Declaration(names[old], kind = "rec",
                        Printed(p.funs[p.fun_key_map[old]].body, pruning))]

\* The definitions before the functions they may apply.
DefinitionsFirst(p, g, pruning) ==
    LET names == FunctionNamesMap(p, g)
    IN [declarations |-> DeclaredVariables(g, pruning)
                         \o DeclaredFunctions(p, names, "def", pruning)
                         \o DeclaredFunctions(p, names, "dec", pruning)
                         \o DeclaredFunctions(p, names, "rec", pruning),
        asserted |-> Printed(g.asserted, pruning)]

\* dumpSMT2: variables, functions, assertions.
DumpSMT2(p, g, pruning) ==
    LET names == FunctionNamesMap(p, g)
    IN [declarations |-> DeclaredVariables(g, pruning)
                         \o DeclaredFunctions(p, names, "dec", pruning)
                         \o DeclaredFunctions(p, names, "rec", pruning)
                         \o DeclaredFunctions(p, names, "def", pruning),
        asserted |-> Printed(g.asserted, pruning)]
=============================================================================
