---------------------------- MODULE KernelSession ----------------------------
(***************************************************************************)
(* One process that normalizes several formulas, one kernel after another: *)
(* the C++ and C interfaces (src/src/api) make a kernel in every           *)
(* apply_kernel. The kernels share nothing but the static table of         *)
(* propagate, which the first kernel without context propagation creates.  *)
(***************************************************************************)
EXTENDS KernelSorts

CONSTANT Sessions   \* what a process may do: a sequence of scripts, each with its flags

ASSUME SessionsAssumption ==
    /\ Sessions \subseteq Seq([script : Scripts, options : Modes])
    /\ << >> \notin Sessions

VARIABLES
    session,   \* what this process does
    earlier    \* what its earlier kernels made of theirs

sessionVars == <<allVars, session, earlier>>

\* Context hashes by node, so that they can be compared across numberings.
ContextByNode ==
    [n \in {d_nodes[i] : i \in DOMAIN d_context_hash} |-> d_context_hash[node2index[n]]]

\* The whole text written, if apply has returned.
WrittenScript == IF phase = "done" THEN <<output, WrittenDeclarations>> ELSE << >>

Result ==
    [input |-> input, declared |-> declared, options |-> options, phase |-> phase,
     written |-> WrittenScript, context |-> ContextByNode]

SessionInit ==
    /\ session \in Sessions
    /\ earlier = << >>
    /\ SortsInit
    /\ [input |-> input, declared |-> declared] = session[1].script
    /\ options = session[1].options

KernelStep ==
    /\ SortsStep
    /\ UNCHANGED <<session, earlier>>

\* The members of a kernel as its constructor finds them (Fresh, of the next state,
\* but for its input and flags).
NewKernel ==
    /\ visit' = input'.assertions
    /\ phase' = "build"
    /\ error' = "none"
    /\ d_processing' = {}
    /\ d_symbols' = {}
    /\ d_symbol_num' = 0
    /\ d_visited' = {}
    /\ call' = NoCall
    /\ node2index' = << >>
    /\ d_nodes' = << >>
    /\ d_graph' = << >>
    /\ d_reversed_graph' = << >>
    /\ d_hash_table' = << >>
    /\ d_context_hash' = << >>
    /\ d_unique_symbols' = << >>
    /\ hash_count' = << >>
    /\ newName' = << >>
    /\ output' = << >>
    /\ sortsNamed' = FALSE
    /\ sortName' = << >>
    /\ told' = << >>

\* The next apply_kernel, whether the one before it returned or threw.
NextKernel ==
    /\ phase \in {"done", "error"}
    /\ Len(earlier) + 1 < Len(session)
    /\ earlier' = Append(earlier, Result)
    /\ input' = session[Len(earlier) + 2].script.input
    /\ declared' = session[Len(earlier) + 2].script.declared
    /\ options' = session[Len(earlier) + 2].options
    /\ NewKernel
    /\ UNCHANGED <<pre_size, session>>

\* The last kernel has returned or thrown, or one goes round for ever.
SessionOver ==
    /\ \/ phase \in {"done", "error"} /\ Len(earlier) + 1 = Len(session)
       \/ HeldUp /\ ~SortsPending
    /\ UNCHANGED sessionVars

SessionNext == KernelStep \/ NextKernel \/ SessionOver

SessionSpec == SessionInit /\ [][SessionNext]_sessionVars

-----------------------------------------------------------------------------
\* Two inputs that state one formula: assertions and the operands of
\* commutative nodes may come in another order.
Permuted(s, t) ==
    /\ Len(s) = Len(t)
    /\ \A x \in Range(s) \union Range(t) :
          Times(s, {x}) = Times(t, {x})

SameFormula(f, g) ==
    /\ Permuted(f.assertions, g.assertions)
    /\ \A n \in DagNode :
          IF n \in f.commutative THEN Permuted(f.operands[n], g.operands[n])
                                 ELSE f.operands[n] = g.operands[n]
    /\ [f EXCEPT !.assertions = << >>, !.operands = << >>]
          = [g EXCEPT !.assertions = << >>, !.operands = << >>]

\* An earlier kernel of this process had the same formula and the same flags.
Counterparts ==
    {e \in Range(earlier) :
        e.options = options /\ e.declared = declared /\ SameFormula(e.input, input)}

(***************************************************************************)
(* The symmetries of the script: permutations of its symbols and of its    *)
(* sorts that map every term to a term of the formula, with the sort it    *)
(* should have, the assertions to themselves, and the members of each type *)
(* to those of a type of the same block. A sort that keeps the name it has *)
(* in the script stays where it is.                                        *)
(***************************************************************************)
Terms == Range(d_nodes)
Symbols == Terms \intersect input.symbol

IsImage(n, m, image) ==
    /\ input.class[m] = input.class[n]
    /\ input.uf[n] # NoNode => input.uf[m] = image[input.uf[n]]
    /\ LET moved == [k \in DOMAIN input.operands[n] |-> image[input.operands[n][k]]]
       IN IF n \in input.commutative THEN Permuted(moved, input.operands[m])
                                     ELSE moved = input.operands[m]

\* Where the terms go when the symbols go where p says; NoNode if nowhere.
Image(p) ==
    LET image[i \in 0..Len(d_nodes)] ==   \* of the first i nodes
            IF i = 0 THEN << >>
            ELSE LET before == image[i - 1]
                     n == d_nodes[i]
                     fits == {m \in Terms : IsImage(n, m, before)}
                 IN [k \in DOMAIN before \union {n} |->
                       IF k # n THEN before[k]
                       ELSE IF n \in Symbols THEN p[n]
                       ELSE IF fits = {} THEN NoNode ELSE CHOOSE m \in fits : TRUE]
    IN image[Len(d_nodes)]

Moved(sort, q) == IF sort.at = "plain" THEN sort ELSE [sort EXCEPT !.of = q[@]]

MemberMoved(n, m, p) == (n \in Symbols <=> m \in Symbols) /\ (n \in Symbols => p[n] = m)

CtorMoved(c, d, p, q) ==
    /\ MemberMoved(c.name, d.name, p)
    /\ DOMAIN c.selectors = DOMAIN d.selectors
    /\ \A k \in DOMAIN c.selectors :
          /\ MemberMoved(c.selectors[k].name, d.selectors[k].name, p)
          /\ d.selectors[k].sort = Moved(c.selectors[k].sort, q)

TypeMoved(t, u, p, q) ==
    /\ u.name = q[t.name]
    /\ BlockOf(u.name) = BlockOf(t.name)
    /\ Len(t.ctors) = Len(u.ctors)
    /\ \A c \in Range(t.ctors) : \E d \in Range(u.ctors) : CtorMoved(c, d, p, q)

IsSymmetry(p, q) ==
    LET image == Image(p) IN
    /\ NoNode \notin Range(image)
    /\ Permuted([k \in DOMAIN input.assertions |-> image[input.assertions[k]]], input.assertions)
    /\ \A n \in Terms : declared.sort[image[n]] = Moved(declared.sort[n], q)
    /\ \A t \in VisitedTypes : \E u \in VisitedTypes : TypeMoved(t, u, p, q)
    /\ \A s \in DeclaredSort \ VisitedSorts : StartsAsNew(declared.called[s]) => q[s] = s

\* What propagation makes of node or sort i before anything is perturbed.
ToldApart(i) == IF told = << >> THEN d_context_hash[i] ELSE told[i]

\* Symbols, and sorts, that propagation leaves equal can be exchanged.
TiesAreSymmetries ==
    /\ \A i, j \in SymbolNumbers :
          ToldApart(i) = ToldApart(j) =>
              \E p \in Permutations(Symbols), q \in Permutations(DeclaredSort) :
                  p[d_nodes[i]] = d_nodes[j] /\ IsSymmetry(p, q)
    /\ \A s, t \in VisitedSorts :
          ToldApart(Vertex(s)) = ToldApart(Vertex(t)) =>
              \E p \in Permutations(Symbols), q \in Permutations(DeclaredSort) :
                  q[s] = t /\ IsSymmetry(p, q)

\* A sort that is equal to another one is written elsewhere than at a node of that sort:
\* within an array sort, or as the sort of a selector nobody applies.
TiedSortWithin ==
    LET selected == {p.ctor.selectors[p.at] : p \in {m \in MemberPlaces(VisitedTypes) : m.at > 0}}
        within == ArraysOver \union {x.sort.of : x \in {y \in selected : y.name \notin Symbols}}
    IN \E s, t \in VisitedSorts :
          s # t /\ ToldApart(Vertex(s)) = ToldApart(Vertex(t)) /\ s \in within

(***************************************************************************)
(* README: the program "mitigates variance caused by" reordered assertions *)
(* and commutative operands. With both flags on, as they are by default, if*)
(* the symbols and the sorts that propagation leaves equal can be          *)
(* exchanged, two presentations of the script are written identically,     *)
(* declarations included, whichever region is met first and whichever of   *)
(* several equal symbols or sorts is perturbed. Excepted are array sorts   *)
(* over such sorts, as no vertex connects them to the sort that is chosen, *)
(* and formulas some of whose nodes are tied to the end: what they hang on *)
(* may have been pruned before it told them apart.                         *)
(***************************************************************************)
OrderIndependent ==
    phase = "done" /\ options.cp /\ options.sbp =>
        \A e \in Counterparts :
            e.phase = "done" /\ e.written # WrittenScript =>
                TiesLeft \/ TiedSortWithin \/ ~TiesAreSymmetries

(***************************************************************************)
(* For every formula, with ties or not, and with every flag: what context  *)
(* propagation computes for a node depends on the formula alone, not on the*)
(* numbers the walk gave out, nor on the number of turns another           *)
(* presentation takes, nor on what an earlier kernel left behind.          *)
(***************************************************************************)
ContextOrderIndependent ==
    phase \in {"rename", "done"} =>
        \A e \in Counterparts : e.phase = "done" => e.context = ContextByNode

(***************************************************************************)
(* stabilizer_api.h:79 says that stabilizers "can be configured            *)
(* independently": no access of a kernel fails because of the formula that *)
(* an earlier kernel of the process had. (Declared sorts are one too many  *)
(* for the static table in any process.)                                   *)
(***************************************************************************)
InstancesIndependent == error = "hash_table_at" => VisitedSorts # {}
=============================================================================
