----------------------------- MODULE KernelSorts -----------------------------
(***************************************************************************)
(* Kernel::apply on inputs with declared sorts and datatypes: between the  *)
(* first context_propagate and the refinement loop, sort_propagate refines *)
(* a graph in which every declared sort that some node has is a vertex     *)
(* below the nodes of that sort, until the sorts are told apart, and names *)
(* them (src/src/kernel/kernel.cpp). In the code the sorts' vertices come  *)
(* before the nodes; here they follow them, so that the nodes keep their   *)
(* numbers.                                                                *)
(***************************************************************************)
EXTENDS Kernel, DatatypeBlocks

CONSTANTS
    DeclaredSort,   \* what declare-sort and declare-datatypes declare
    Scripts         \* the scripts read: an input and its declarations

(***************************************************************************)
(* The declarations of a script:                                           *)
(*   sort    the sort of each node: built in, declared, or an array that   *)
(*           has a declared sort as index or element                       *)
(*   called  the name of each declared sort in the script                  *)
(*   blocks  datatype_blocks, whose constructors and selectors are         *)
(*           function symbols (module DatatypeBlocks)                      *)
(***************************************************************************)
ASSUME ScriptsAssumption ==
    \A s \in Scripts :
        /\ s.input \in Inputs
        /\ s.declared.sort \in [DagNode -> NodeSort(DeclaredSort)]
        /\ DOMAIN s.declared.called = DeclaredSort /\ IsInjective(s.declared.called)
        /\ \A t \in TypeDecls(s.declared.blocks) : t.name \in DeclaredSort

VARIABLES
    declared,      \* the declarations of this script
    sortsNamed,    \* sort_propagate has run
    sortName,      \* the new names of the declared sorts some node has
    told           \* the hashes before anything was perturbed (history)

sortVars == <<declared, sortsNamed, sortName, told>>
allVars == <<vars, sortVars>>

\* A kernel as its constructor starts, in a process that may have had others.
LaterKernel ==
    /\ Fresh
    /\ \E s \in Scripts : input = s.input /\ declared = s.declared
    /\ sortsNamed = FALSE
    /\ sortName = << >>
    /\ told = << >>

SortsInit == LaterKernel /\ pre_size = 0

SortOf(i) == declared.sort[d_nodes[i]]
OfDeclaredSort(i) == SortOf(i).at = "declared"
VisitedSorts == {SortOf(i).of : i \in {j \in Numbers : OfDeclaredSort(j)}}
IsDatatype(s) == s \in {t.name : t \in TypeDecls(declared.blocks)}

\* The sorts' vertices.
SortAt == SetToSeq(VisitedSorts)
Vertex(s) == Len(d_nodes) + CHOOSE k \in DOMAIN SortAt : SortAt[k] = s
Vertices == {Vertex(s) : s \in VisitedSorts}
SortOfVertex(v) == SortAt[v - Len(d_nodes)]

-----------------------------------------------------------------------------
\* The place of a type's block among the blocks, which enters its hash twice.
BlockOf(s) ==
    CHOOSE b \in DOMAIN declared.blocks : \E t \in Range(declared.blocks[b]) : t.name = s

SeedOf(s) == IF IsDatatype(s) THEN <<0, BlockOf(s), BlockOf(s)>> ELSE <<0>>

NodesOf(s) == SetToSortSeq({i \in Numbers : OfDeclaredSort(i) /\ SortOf(i).of = s}, <)

SortsPending == phase = "loop" /\ ~sortsNamed /\ VisitedSorts # {}

SortPropagate ==
    /\ SortsPending
    /\ phase' = "sorts"
    /\ d_graph' =
          [i \in Numbers |-> IF OfDeclaredSort(i) THEN Append(d_graph[i], Vertex(SortOf(i).of))
                                                  ELSE d_graph[i]]
          \o [k \in DOMAIN SortAt |-> << >>]
    /\ d_reversed_graph' =
          d_reversed_graph
          \o [k \in DOMAIN SortAt |-> LET users == NodesOf(SortAt[k])
                                      IN [j \in DOMAIN users |-> <<users[j], 0>>]]
    /\ d_hash_table' = d_hash_table \o [k \in DOMAIN SortAt |-> SeedOf(SortAt[k])]
    /\ call' = [processing |-> Numbers \union Vertices,
                symbols |-> Vertices \union {i \in d_symbols : ~OfDeclaredSort(i)},
                count |-> 0]
    /\ UNCHANGED <<input, visit, node2index, d_nodes, options, pre_size, error, d_context_hash,
                   d_processing, d_symbols, d_symbol_num, d_unique_symbols, d_visited,
                   hash_count, newName, output, sortVars>>

-----------------------------------------------------------------------------
(***************************************************************************)
(* The names. Constructors and selectors that are used then get their place*)
(* in the blocks as part of their hash: the type's name or the             *)
(* constructor's hash, and a selector's place in its constructor.          *)
(***************************************************************************)
NamedSorts(table) ==
    [s \in VisitedSorts |->
        LET before == {r \in VisitedSorts :
                         /\ IsDatatype(r) = IsDatatype(s)
                         /\ Before(table[Vertex(r)], table[Vertex(s)])}
        IN <<IF IsDatatype(s) THEN "DT" ELSE "SORT", Cardinality(before)>>]

VisitedTypes == {t \in TypeDecls(declared.blocks) : t.name \in VisitedSorts}
PlacesOf(i) == {p \in MemberPlaces(VisitedTypes) : MemberAt(p) = d_nodes[i]}

WithPlaces(table, named) ==
    LET typed(i, p) == hash_combine(table[i], named[p.type][2])
    IN [i \in Numbers |->
          IF PlacesOf(i) = {} THEN table[i]
          ELSE LET p == CHOOSE q \in PlacesOf(i) : TRUE
               IN IF p.at = 0 THEN typed(i, p)
                  ELSE IF p.ctor.name \in Range(d_nodes)
                       THEN hash_combine(table[i] \o typed(node2index[p.ctor.name], p), p.at - 1)
                       ELSE hash_combine(typed(i, p), p.at - 1)]

\* The graph as it was before the sorts' vertices were added.
WithoutSorts ==
    /\ d_graph' = [i \in Numbers |-> IF OfDeclaredSort(i) THEN Front(d_graph[i]) ELSE d_graph[i]]
    /\ d_reversed_graph' = SubSeq(d_reversed_graph, 1, Len(d_nodes))

(***************************************************************************)
(* One turn of the loop of context_propagate, and where it ends either the *)
(* perturbation of one of the sorts that are still equal, or the end. Which*)
(* of them comes first depends on the numbering and is left open.          *)
(***************************************************************************)
SortTurn ==
    /\ phase = "sorts"
    /\ ~StaticTableTooSmall
    /\ pre_size' = IF options.cp THEN pre_size ELSE StaticTableSize
    /\ LET table == propagate(call.processing)
           count == DistinctHashes(table, call.symbols)
           tied == LowestTied(table, Vertices)
       IN \/ /\ count # call.count
             /\ d_hash_table' = table
             /\ call' = [call EXCEPT !.count = count]
             /\ UNCHANGED <<phase, d_graph, d_reversed_graph, sortVars>>
          \/ /\ count = call.count
             /\ \E v \in tied : d_hash_table' = [table EXCEPT ![v] = hash_combine(@, Perturbed)]
             /\ call' = [call EXCEPT !.count = 0]
             /\ told' = IF told = << >> THEN table ELSE told
             /\ UNCHANGED <<phase, d_graph, d_reversed_graph, declared, sortsNamed, sortName>>
          \/ /\ count = call.count
             /\ tied = {}
             /\ sortName' = NamedSorts(table)
             /\ sortsNamed' = TRUE
             /\ d_hash_table' = WithPlaces(table, sortName')
             /\ WithoutSorts
             /\ call' = NoCall
             /\ phase' = "loop"
             /\ told' = IF told = << >> THEN table ELSE told
             /\ UNCHANGED declared
    /\ UNCHANGED <<input, visit, node2index, d_nodes, options, error, d_context_hash,
                   d_processing, d_symbols, d_symbol_num, d_unique_symbols, d_visited,
                   hash_count, newName, output>>

\* The static table has at best as many places as the graph has nodes: none is left for
\* the sorts' vertices.
SortTurnThrows ==
    /\ phase = "sorts"
    /\ StaticTableTooSmall
    /\ phase' = "error"
    /\ error' = "hash_table_at"
    /\ UNCHANGED <<graphVars, options, pre_size, refineVars, d_context_hash, d_symbol_num,
                   call, hash_count, newName, output, sortVars>>

\* The rest of apply.
OtherStep == ~SortsPending /\ Step /\ UNCHANGED sortVars

SortsStep ==
    \/ OtherStep
    \/ SortPropagate
    \/ SortTurn
    \/ SortTurnThrows

SortsNext == SortsStep \/ (~SortsPending /\ Stopped /\ UNCHANGED sortVars)

SortsSpec == SortsInit /\ [][SortsNext]_allVars

-----------------------------------------------------------------------------
(***************************************************************************)
(* What is written besides the assertions: sorts, datatypes, and every     *)
(* symbol with its sort.                                                   *)
(***************************************************************************)
ArraysOver == {SortOf(i).of : i \in {j \in Numbers : SortOf(j).at = "array"}}

WrittenDeclarations ==
    LET functions == [n \in {d_nodes[i] : i \in {j \in Named : IsUFName(j)}} |->
                        CanonicalName(node2index[n])]
        unused == UnusedSorts(sortName, declared.called, ArraysOver, declared.blocks)
        names == SortNames(sortName, declared.called, unused)
        rank == [name \in Range(functions) |-> name[2]]
        types == WrittenTypes(declared.blocks, sortName, declared.called, functions, names, rank)
    IN [sorts |-> {n \in Range(sortName) : n[1] = "SORT"}
                  \union (IF UnusedDeclared(unused, types) THEN {UnusedSort} ELSE {}),
        types |-> types,
        symbols |-> {<<CanonicalName(i), SortText(SortOf(i), names)>> : i \in Named}]

(***************************************************************************)
(* What makes apply throw, and nothing else does: without context          *)
(* propagation a static table that the first propagation of the process    *)
(* made too short, for the formula or for the formula and its declared     *)
(* sorts, and without pruning an applied function. The errors do not hide  *)
(* behind each other, and no input with one of them gets through.          *)
(***************************************************************************)
ThrowsExactlyWhen ==
    LET needed == Len(d_nodes) + Cardinality(VisitedSorts) IN
    /\ error = "hash_table_at" => ~options.cp /\ StaticTableSize < needed
    /\ error = "function_names_at" => ~options.sbp /\ AppliedFunctions # {}
    /\ phase = "done" => /\ options.cp \/ pre_size >= needed
                         /\ options.sbp \/ AppliedFunctions = {}

(***************************************************************************)
(* What is written declares every sort it uses, and no sort, constructor   *)
(* or selector twice, but for five cases (base_parser.cpp:2859, kernel.cpp:*)
(* 599, 706, 728 and 849): the declarations are dropped when no node has a *)
(* declared sort, although arrays may be over one; a selector that nobody  *)
(* applies may be an array over a sort no node has; it may have a sort     *)
(* itself that no node has and that the script calls DT.. or SORT.., which *)
(* is taken for a new name; a datatype no node has that is called so stays,*)
(* and its name may be one of the new ones; and the selectors without a    *)
(* name are counted from 0 in every type.                                  *)
(***************************************************************************)
MembersWritten(types) ==
    FlattenSeq([t \in DOMAIN types |->
        FlattenSeq([c \in DOMAIN types[t].ctors |->
            LET ctor == types[t].ctors[c]
            IN <<ctor.name>> \o [k \in DOMAIN ctor.selectors |-> ctor.selectors[k].name]])])

SortsWritten(w) ==
    UNION {ToSet(x[2]) : x \in w.symbols}
    \union UNION {UNION {UNION {ToSet(k.sort) : k \in ToSet(c.selectors)} : c \in ToSet(t.ctors)}
                    : t \in ToSet(w.types)}

SelectorsUsed(ctor) == {k.name : k \in ToSet(ctor.selectors)} \intersect Range(d_nodes)
StaysWritten(ctor) == ctor.name \in Range(d_nodes) \/ SelectorsUsed(ctor) # {}

NamelessIn(t) ==
    \E c \in ToSet(t.ctors) :
        StaysWritten(c) /\ \E k \in ToSet(c.selectors) : k.name \notin SelectorsUsed(c)

\* The types written: those some node has, and those taken for such.
TypesTakenForVisited ==
    {t \in TypeDecls(declared.blocks) :
        VisitedSorts # {} /\ t.name \notin VisitedSorts /\ StartsAsNew(declared.called[t.name])}
KeptTypes == VisitedTypes \union TypesTakenForVisited

ArraysLeftOut == VisitedSorts = {} /\ ArraysOver # {}

\* A sort that a selector nobody applies has, or is an array over, is written with the
\* name it has in the script, and nothing that is declared has this name.
SelectorLeftOut ==
    \E t \in VisitedTypes : \E c \in ToSet(t.ctors) : \E k \in ToSet(c.selectors) :
        /\ StaysWritten(c)
        /\ k.sort.at # "plain"
        /\ k.sort.of \notin VisitedSorts \union ArraysOver
        /\ declared.called[k.sort.of] \notin
              Range(sortName) \union {declared.called[u.name] : u \in TypesTakenForVisited}
        /\ \/ StartsAsNew(declared.called[k.sort.of])
           \/ \A p \in MemberPlaces(KeptTypes) :
                 p.at > 0 => p.ctor.selectors[p.at].sort # [at |-> "declared", of |-> k.sort.of]

DeclaredOnceExactlyWhen ==
    phase = "done" /\ options.sbp =>
        LET w == WrittenDeclarations
            typeNames == [t \in DOMAIN w.types |-> w.types[t].name]
            declaredNow == w.sorts \union Range(typeNames) \union {<<"Array", 0>>}
        IN /\ SortsWritten(w) \subseteq declaredNow <=> ~ArraysLeftOut /\ ~SelectorLeftOut
           /\ IsInjective(typeNames) /\ w.sorts \intersect Range(typeNames) = {}
                <=> \A t \in TypesTakenForVisited : declared.called[t.name] \notin Range(sortName)
           /\ IsInjective(MembersWritten(w.types))
                <=> Cardinality({t \in VisitedTypes : NamelessIn(t)}) < 2
=============================================================================
