----------------------------- MODULE TermTable -----------------------------
(***************************************************************************)
(* The term table of the parser (NodeManager and DAGNode): nodes are       *)
(* created through a table of buckets, so that equal terms are one node.   *)
(* A node remembers the hash it had when it was inserted.  Reading a       *)
(* script renames the variables of quantifiers and turns declarations into *)
(* definitions in place, writing it renames symbols and reorders operands  *)
(* in place: the table keeps the old hashes.  Every parser of the process  *)
(* has a table of its own, all of them share the static nodes.             *)
(***************************************************************************)
EXTENDS Naturals, Sequences, FiniteSets

CONSTANTS Symbols,        \* names that scripts declare
          DefinitionKinds, \* "FUNC_DEF" and "FUNC_REC", or one of them
          MaxNodes,       \* bound on the nodes of a table besides the static ones
          MaxApplications, \* bound on the applications of a parser
          MaxQuantifiers, \* bound on the quantifiers read by the process
          MaxParsers      \* bound on the parsers the process creates

ASSUME TableBounds == /\ DefinitionKinds \subseteq {"FUNC_DEF", "FUNC_REC"}
                      /\ MaxNodes \in Nat
                      /\ MaxApplications \in Nat
                      /\ MaxQuantifiers \in Nat
                      /\ MaxParsers \in Nat \ {0}

VARIABLES heap,        \* the nodes: heap[i] is the node with address i
          table,       \* nodes and node_buckets of the living parser
          parser,      \* how many parsers the process has created
          phase,       \* "reading" a script or "writing" its result
          vars,        \* var_names: symbol |-> place in the table
          funs,        \* fun_key_map: symbol |-> node
          qvars,       \* num_quant_vars of the parser
          quantifiers, \* the static quant_counter of mkOper
          got          \* what the last call of createNode was asked for and gave

state == <<heap, table, parser, phase, vars, funs, qvars, quantifiers, got>>

None == <<>>     \* no hash computed yet, no call of createNode

(***************************************************************************)
(* Nodes.  A name is a tuple, so that generated names differ from the      *)
(* symbols of scripts: <<"a">>, <<"QVAR", 0>>, <<"Q", 1, 0>>.              *)
(* Hashes are ideal: two are equal iff what is mixed into them is.         *)
(***************************************************************************)
Node(sort, kind, name, kids) ==
    [sort |-> sort, kind |-> kind, name |-> name, kids |-> kids,
     chash |-> <<>>, cached |-> None]

\* The constructor that reads a constant.
Constant(text) ==
    LET is == CASE text = "true"    -> <<"Bool", "CONST_TRUE">>
                [] text = "false"   -> <<"Bool", "CONST_FALSE">>
                [] text = "pi"      -> <<"Real", "CONST_PI">>
                [] text = "e"       -> <<"Real", "CONST_E">>
                [] text = "inf"     -> <<"Real", "INFINITY">>
                [] text = "NaN"     -> <<"Ext", "NAN">>
                [] text = "epsilon" -> <<"Real", "EPSILON">>
                [] text = "NULL"    -> <<"Null", "NULL">>
                [] OTHER            -> <<"Null", "ERROR">>
    IN  Node(is[1], is[2], <<text>>, <<>>)

\* In the order in which initializeStaticNodes inserts them.
StaticNodes ==
    << Constant("NULL"), Node("Unknown", "UNKNOWN", <<"unknown">>, <<>>),
       Node("Null", "ERROR", <<"error">>, <<>>),
       Constant("true"), Constant("false"), Constant("e"), Constant("pi"),
       Constant("NaN"), Constant("EPSILON"),
       Node("Ext", "POS_EPSILON", <<"+EPSILON">>, <<>>),
       Node("Ext", "NEG_EPSILON", <<"-EPSILON">>, <<>>),
       Node("Str", "INFINITY", <<"INF">>, <<>>),
       Node("Str", "POS_INFINITY", <<"+INF">>, <<>>),
       Node("Str", "NEG_INFINITY", <<"-INF">>, <<>>),
       Node("Int", "INFINITY", <<"INF">>, <<>>),
       Node("Int", "POS_INFINITY", <<"+INF">>, <<>>),
       Node("Int", "NEG_INFINITY", <<"-INF">>, <<>>),
       Node("Real", "INFINITY", <<"INF">>, <<>>),
       Node("Real", "POS_INFINITY", <<"+INF">>, <<>>),
       Node("Real", "NEG_INFINITY", <<"-INF">>, <<>>) >>

NumStatic == Len(StaticNodes)
NullNode  == 1
TrueNode  == 4

HashFields(n) == <<n.sort, n.kind, n.name, Len(n.kids), n.chash>>

\* hashCode: computed once, then remembered.
HashCode(n) == IF n.cached = None THEN HashFields(n) ELSE n.cached
Hashed(n)   == [n EXCEPT !.cached = HashCode(n)]

\* The comparison of everything but the operands in isEquivalentTo.
Alike(m, n) ==
    /\ m.kind = n.kind
    /\ Len(m.kids) = Len(n.kids)
    /\ m.sort = n.sort
    /\ m.name = n.name
    /\ m.chash # <<>> /\ n.chash # <<>> => m.chash = n.chash

\* As many nodes as there can be.
HeapBound == NumStatic + MaxNodes + MaxApplications

\* The nested comparisons.  The set of visited pairs makes them end on cyclic
\* definitions; a comparison as deep as there are nodes has met every pair it
\* can tell apart.
SameTerm(h) ==
    LET Same[n \in 0..HeapBound] ==
            [a \in DOMAIN h |-> [b \in DOMAIN h |->
               \/ a = b
               \/ /\ Alike(h[a], h[b])
                  /\ \/ n = 0
                     \/ \A k \in DOMAIN h[a].kids :
                           Same[n - 1][h[a].kids[k]][h[b].kids[k]]]]
    IN  Same[HeapBound]

\* isEquivalentTo.
Equivalent(h, i, j) ==
    \/ i = j
    \/ /\ Alike(h[i], h[j])
       /\ \A k \in DOMAIN h[i].kids : SameTerm(h)[h[i].kids[k]][h[j].kids[k]]

(***************************************************************************)
(* insertNodeToBucket.  The place of an entry in the table is its index in *)
(* nodes; kind and hash are those under which the node was inserted.       *)
(***************************************************************************)
Entry(i, n) == [kind |-> n.kind, hash |-> HashCode(n), node |-> i]

\* Mutants: an entry is taken for the node whenever the hashes agree; operators
\* are never looked up.
FoundByHash(h, tbl, i) ==
    {p \in DOMAIN tbl : tbl[p].kind = h[i].kind /\ tbl[p].hash = HashCode(h[i])}

FoundLeaves(h, tbl, i) ==
    {p \in FoundByHash(h, tbl, i) : h[i].kids = <<>> /\ Equivalent(h, tbl[p].node, i)}

\* The places where node i of h is looked for and found.
Found(h, tbl, i) ==
    {p \in DOMAIN tbl : /\ tbl[p].kind = h[i].kind
                        /\ tbl[p].hash = HashCode(h[i])
                        /\ Equivalent(h, tbl[p].node, i)}

Least(S) == CHOOSE p \in S : \A q \in S : p <= q

\* createNode(n) in a table tbl: the heap, the table and the node it returns.
CreateNode(h, tbl, n) ==
    LET kids  == {n.kids[k] : k \in DOMAIN n.kids}
        known == [i \in DOMAIN h |-> IF i \in kids THEN Hashed(h[i]) ELSE h[i]]
        node  == Hashed([n EXCEPT !.chash = [k \in DOMAIN n.kids |-> known[n.kids[k]].cached]])
        all   == Append(known, node)
        at    == Found(all, tbl, Len(all))
    IN  IF at # {}
        THEN [heap |-> known, table |-> tbl, node |-> tbl[Least(at)].node]
        ELSE [heap |-> all, table |-> Append(tbl, Entry(Len(all), node)), node |-> Len(all)]

\* Mutants: the place before; the place after the last.
GetIndexBefore(h, tbl, i) == Least(Found(h, tbl, i)) - 1
GetIndexAfter(h, tbl, i) == Len(tbl) + 1

\* getIndex: by the present kind and the remembered hash.
GetIndex(h, tbl, i) == Least(Found(h, tbl, i))

\* initializeStaticNodes of a new parser.
StaticTable(h) == [i \in 1..NumStatic |-> Entry(i, h[i])]

(***************************************************************************)
(* Reading.                                                                *)
(***************************************************************************)
Init ==
    /\ heap = [i \in 1..NumStatic |-> Hashed(StaticNodes[i])]
    /\ table = StaticTable(heap)
    /\ parser = 1
    /\ phase = "reading"
    /\ vars = <<>>
    /\ funs = <<>>
    /\ qvars = 0
    /\ quantifiers = 0
    /\ got = None

\* The bounds on nodes.
Room == /\ Len(table') <= NumStatic + MaxNodes
        /\ Len(heap') - Len(table') <= MaxApplications

\* The step of a call of createNode from heap h.
Create(h, n) ==
    LET r == CreateNode(h, table, n)
    IN  /\ heap' = r.heap
        /\ table' = r.table
        /\ got' = [asked |-> n, node |-> r.node]

Kinds(S) == {i \in DOMAIN heap : heap[i].kind \in S}

\* What may be an operand: variables, operators, applications, quantifiers, true.
Terms == Kinds({"VAR", "QUANT_VAR", "OP", "FUNC_APPLY", "FORALL"}) \cup {TrueNode}

Leaves == Kinds({"VAR", "QUANT_VAR"}) \cup {TrueNode}

\* mkVar of a new name; a known name is found by its place in the table.
MkVar(s) ==
    /\ phase = "reading"
    /\ s \notin DOMAIN vars
    /\ Create(heap, Node("Bool", "VAR", <<s>>, <<>>))
    /\ vars' = [x \in DOMAIN vars \cup {s} |->
                  IF x = s THEN GetIndex(heap', table', got'.node) ELSE vars[x]]
    /\ Room
    /\ UNCHANGED <<parser, phase, funs, qvars, quantifiers>>

\* Mutant: the counter stands still.
MkQuantVarUncounted ==
    /\ phase = "reading"
    /\ Create(heap, Node("Bool", "QUANT_VAR", <<"QVAR", 0>>, <<>>))
    /\ qvars' = qvars + 1
    /\ Room
    /\ UNCHANGED <<parser, phase, vars, funs, quantifiers>>

\* mkQuantVar.
MkQuantVar ==
    /\ phase = "reading"
    /\ Create(heap, Node("Bool", "QUANT_VAR", <<"QVAR", qvars>>, <<>>))
    /\ qvars' = qvars + 1
    /\ Room
    /\ UNCHANGED <<parser, phase, vars, funs, quantifiers>>

\* mkOper and mkInternalOper of an operator with ordered operands.
MkOper(kids) ==
    /\ phase = "reading"
    /\ Create(heap, Node("Bool", "OP", <<"op">>, kids))
    /\ Room
    /\ UNCHANGED <<parser, phase, vars, funs, qvars, quantifiers>>

\* mkOper of a quantifier: its variable is renamed where it stands, then the
\* node is created.  Expanding a function quantifies its variables once more.
MkQuantifier(body, v) ==
    /\ phase = "reading"
    /\ quantifiers < MaxQuantifiers
    /\ quantifiers' = quantifiers + 1
    /\ Create([heap EXCEPT ![v].name = <<"Q", quantifiers', 0>>],
              Node("Bool", "FORALL", <<"forall">>, <<body, v>>))
    /\ Room
    /\ UNCHANGED <<parser, phase, vars, funs, qvars>>

\* mkFuncDec of a new name.  The parameter is a node named after its sort.
MkFuncDec(s) ==
    /\ phase = "reading"
    /\ s \notin DOMAIN funs
    /\ LET p == CreateNode(heap, table, Node("Bool", "FUNC_PARAM", <<"Bool">>, <<>>))
           r == CreateNode(p.heap, p.table,
                           Node("Bool", "FUNC_DEC", <<s>>, <<NullNode, p.node>>))
       IN  /\ heap' = r.heap
           /\ table' = r.table
           /\ got' = None
           /\ funs' = [x \in DOMAIN funs \cup {s} |-> IF x = s THEN r.node ELSE funs[x]]
    /\ Room
    /\ UNCHANGED <<parser, phase, vars, qvars, quantifiers>>

\* mkFuncDef and mkFuncRec of a declared function: updateFuncDef changes the
\* kind and the operands of the node where it stands.
DefineDeclared(s, body, kind) ==
    /\ phase = "reading"
    /\ s \in DOMAIN funs
    /\ heap[funs[s]].kind = "FUNC_DEC"
    /\ heap' = [heap EXCEPT ![funs[s]].kind = kind,
                            ![funs[s]].kids = <<body, heap[funs[s]].kids[2]>>]
    /\ got' = None
    /\ UNCHANGED <<table, parser, phase, vars, funs, qvars, quantifiers>>

\* mkFuncDef and mkFuncRec of a new name.
DefineNew(s, body, kind) ==
    /\ phase = "reading"
    /\ s \notin DOMAIN funs
    /\ LET p == CreateNode(heap, table, Node("Bool", "FUNC_PARAM", <<"p">>, <<>>))
           r == CreateNode(p.heap, p.table, Node("Bool", kind, <<s>>, <<body, p.node>>))
       IN  /\ heap' = r.heap
           /\ table' = r.table
           /\ got' = None
           /\ funs' = [x \in DOMAIN funs \cup {s} |-> IF x = s THEN r.node ELSE funs[x]]
    /\ Room
    /\ UNCHANGED <<parser, phase, vars, qvars, quantifiers>>

\* mkApplyFunc: a node of its own, never inserted; its hash knows no operands.
MkApply(f, arg) ==
    /\ phase = "reading"
    /\ heap' = Append(heap, [Node("Bool", "FUNC_APPLY", heap[f].name, <<f, arg>>)
                               EXCEPT !.chash = <<>>])
    /\ got' = None
    /\ UNCHANGED <<table, parser, phase, vars, funs, qvars, quantifiers>>
    /\ Room

(***************************************************************************)
(* Writing: Kernel::apply renames and reorders in place, then              *)
(* rebuildLetBindings makes binding variables with names L0, L1, ...       *)
(***************************************************************************)
RenameSymbol(i) ==
    /\ heap[i].name[1] # "S"
    /\ phase' = "writing"
    /\ heap' = [heap EXCEPT ![i].name =
                   <<"S", Cardinality({j \in DOMAIN heap : heap[j].name[1] = "S"})>>]
    /\ got' = None
    /\ UNCHANGED <<table, parser, vars, funs, qvars, quantifiers>>

SortOperands(i) ==
    /\ phase = "writing"
    /\ heap[i].kids[1] # heap[i].kids[2]
    /\ heap' = [heap EXCEPT ![i].kids = <<heap[i].kids[2], heap[i].kids[1]>>]
    /\ got' = None
    /\ UNCHANGED <<table, parser, phase, vars, funs, qvars, quantifiers>>

MkLetBindVar(k, i) ==
    /\ phase = "writing"
    /\ Create(heap, Node("Bool", "LET_BIND_VAR", <<"L", k>>, <<i>>))
    /\ Room
    /\ UNCHANGED <<parser, phase, vars, funs, qvars, quantifiers>>

\* The destructor, NodeManager::clear, and the next parser.  clear turns every
\* node of the table but the static ones into an error node; those that nobody
\* holds any more go with the parser.
Cleared(n) == [n EXCEPT !.kind = "ERROR", !.name = <<"">>, !.kids = <<>>,
                        !.chash = <<>>, !.cached = None]

\* Mutant: clear does not stop at the static nodes.
AllCleared ==
    [i \in 1..NumStatic |->
       IF \E p \in DOMAIN table : table[p].node = i THEN Cleared(heap[i]) ELSE heap[i]]

ClearedHeap ==
    [i \in 1..NumStatic |->
       IF \E p \in DOMAIN table : p > NumStatic /\ table[p].node = i
       THEN Cleared(heap[i]) ELSE heap[i]]

NextParser ==
    /\ parser < MaxParsers
    /\ parser' = parser + 1
    /\ heap' = ClearedHeap
    /\ table' = StaticTable(heap')
    /\ phase' = "reading"
    /\ vars' = <<>> /\ funs' = <<>>
    /\ qvars' = 0
    /\ got' = None
    /\ UNCHANGED quantifiers

Next ==
    \/ \E s \in Symbols : \/ MkVar(s) \/ MkFuncDec(s)
                          \/ \E b \in Terms, k \in DefinitionKinds :
                                DefineDeclared(s, b, k) \/ DefineNew(s, b, k)
    \/ MkQuantVar
    \/ \E a \in Terms, b \in Leaves : MkOper(<<a, b>>)
    \/ \E b \in Terms, v \in Kinds({"QUANT_VAR"}) : MkQuantifier(b, v)
    \/ \E f \in Kinds(DefinitionKinds), a \in Leaves : MkApply(f, a)
    \/ \E i \in Kinds({"VAR", "QUANT_VAR"}) : RenameSymbol(i)
    \/ \E i \in Kinds({"OP"}) : SortOperands(i)
    \/ \E k \in 0..1, i \in Kinds({"OP", "FORALL"}) : MkLetBindVar(k, i)
    \/ NextParser

Spec == Init /\ [][Next]_state

(***************************************************************************)
(* What the table promises.                                                *)
(***************************************************************************)

(* The state has the shape the code gives it: addresses are addresses,     *)
(* places are places, an operand is a node (DAGNode, NodeManager).         *)
TableTypeOK ==
    /\ \A i \in DOMAIN heap : /\ \A k \in DOMAIN heap[i].kids : heap[i].kids[k] \in DOMAIN heap
                              /\ Len(heap[i].name) \in 1..3
    /\ \A p \in DOMAIN table : table[p].node \in DOMAIN heap
    /\ parser \in 1..MaxParsers
    /\ phase \in {"reading", "writing"}
    /\ DOMAIN vars \subseteq Symbols /\ \A s \in DOMAIN vars : vars[s] \in DOMAIN table
    /\ DOMAIN funs \subseteq Symbols /\ \A s \in DOMAIN funs : funs[s] \in DOMAIN heap
    /\ qvars \in Nat /\ quantifiers \in 0..MaxQuantifiers
    /\ got # None => got.node \in DOMAIN heap

Depth == MaxNodes + MaxApplications + 1

\* Node i of h written out as a term, to a depth no script of the model exceeds.
Written(h, i) ==
    LET Term[n \in 0..Depth] ==
            [j \in DOMAIN h |->
               <<h[j].sort, h[j].kind, h[j].name,
                 IF n = 0 THEN <<>>
                 ELSE [k \in DOMAIN h[j].kids |-> Term[n - 1][h[j].kids[k]]]>>]
    IN  Term[Depth][i]

(* createNode returns a node that, written out, is the term it was asked   *)
(* for, although the hashes in the table are those of the nodes before     *)
(* they were renamed and redefined, and although all applications of one   *)
(* function have one hash (insertNodeToBucket, isEquivalentTo).            *)
RequestMet ==
    got # None =>
        LET h == Append(heap, got.asked)
        IN  Written(h, Len(h)) = Written(h, got.node)

\* A node whose hash is no longer that of its fields and operands.
Touched(i) ==
    /\ heap[i].cached # None
    /\ \/ heap[i].cached # HashFields(heap[i])
       \/ /\ heap[i].kind # "FUNC_APPLY"
          /\ heap[i].chash # [k \in DOMAIN heap[i].kids |-> heap[heap[i].kids[k]].cached]

Below(i) ==
    LET Reach[n \in 0..Depth] ==
            IF n = 0 THEN {i}
            ELSE LET R == Reach[n - 1]
                 IN  R \cup UNION {{heap[j].kids[k] : k \in DOMAIN heap[j].kids} : j \in R}
    IN  Reach[Depth]

(* Two nodes of the table are the same term only if a node of one of them  *)
(* was renamed, redefined or reordered in place after it was inserted:     *)
(* otherwise equal terms are one node, which the kernel relies on when it  *)
(* counts nodes (insertNodeToBucket, setName, updateFuncDef,               *)
(* replace_children).                                                      *)
SharedUnlessTouched ==
    \A p, q \in DOMAIN table :
        p < q /\ Equivalent(heap, table[p].node, table[q].node)
            => \E i \in Below(table[p].node) \cup Below(table[q].node) : Touched(i)

(* The static nodes are shared by every parser of the process: whatever is *)
(* read, renamed and written, and whichever parser ends, they stay as they *)
(* were made and at their places (initializeStaticNodes, clear).           *)
StaticsIntact ==
    \A i \in 1..NumStatic : /\ heap[i] = Hashed(StaticNodes[i])
                            /\ table[i] = Entry(i, heap[i])

(* A declared variable is kept by its place in the table: the place leads  *)
(* to the variable, two variables have two places (mkVar, getIndex,        *)
(* getVariables).                                                          *)
PlacesLeadToVariables ==
    /\ \A s \in DOMAIN vars :
          LET n == heap[table[vars[s]].node]
          IN  n.kind = "VAR" /\ (phase = "reading" => n.name = <<s>>)
    /\ \A s, t \in DOMAIN vars : vars[s] = vars[t] => s = t

(* Every quantified variable is a node of its own, and no two ever have    *)
(* one name, through both ways of naming them and through all quantifiers  *)
(* and scripts of the process: else the table would merge variables of     *)
(* different quantifiers (mkQuantVar, mkOper).                             *)
BoundVariablesDistinct ==
    /\ Cardinality(Kinds({"QUANT_VAR"})) = qvars
    /\ \A i, j \in Kinds({"QUANT_VAR"}) : heap[i].name = heap[j].name => i = j
=============================================================================
