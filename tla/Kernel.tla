------------------------------- MODULE Kernel -------------------------------
(***************************************************************************)
(* Kernel::apply (src/src/kernel/kernel.cpp) on inputs without declared    *)
(* sorts, datatypes and function definitions: the graph of KernelGraph is  *)
(* refined by hashing until every symbol has a hash of its own, and the    *)
(* symbols are then renamed in hash order.                                 *)
(*                                                                         *)
(*   build     the constructor's walk                                      *)
(*   context   the first context_propagate, over the whole graph           *)
(*   loop      head of the refinement loop of apply                        *)
(*   specific  inside specific_propagate, between two regions              *)
(*   region    the context_propagate of one region                         *)
(*   rename    refinement is over                                          *)
(*   done, error                                                           *)
(***************************************************************************)
EXTENDS KernelGraph, NodeHash, SequencesExt

CONSTANT Modes   \* [cp, sbp] flags a kernel may be configured with

ASSUME ModesAssumption == Modes \subseteq [cp : BOOLEAN, sbp : BOOLEAN]

VARIABLES
    options,           \* d_context_propagation, d_symmetry_breaking_perturbation
    pre_size,          \* size of propagate's static table; 0: not yet created
    phase,
    error,             \* which checked access threw, or "none"
    d_hash_table,
    d_context_hash,
    d_processing,
    d_symbols,
    d_symbol_num,
    d_unique_symbols,
    d_visited,
    call,              \* arguments and hash_count of context_propagate
    hash_count,        \* of specific_propagate: regions met, by symbols_hash
    newName,           \* canonical names given by apply
    output             \* the assertions as written by dumpSMT2

refineVars == <<d_hash_table, d_processing, d_symbols, d_unique_symbols,
                d_visited, d_graph, d_reversed_graph>>

kernelVars == <<options, pre_size, phase, error, d_hash_table, d_context_hash,
                d_processing, d_symbols, d_symbol_num, d_unique_symbols,
                d_visited, call, hash_count, newName, output>>

vars == <<graphVars, kernelVars>>

IsSymbol(i) == d_nodes[i] \in input.symbol
SymbolNumbers == {i \in Numbers : IsSymbol(i)}
IsUFName(i) == \E n \in DagNode : input.uf[n] = d_nodes[i]
\* Numbers beyond the nodes stand for sorts (module KernelSorts).
is_commutative(i) == i \in Numbers /\ d_nodes[i] \in input.commutative

NoCall == [processing |-> {}, symbols |-> {}, count |-> 0]

\* A kernel as its constructor starts. Of the process it runs in it depends only
\* on pre_size, which a first kernel finds 0.
Fresh ==
    /\ GraphInit
    /\ options \in Modes
    /\ phase = "build"
    /\ error = "none"
    /\ d_hash_table = << >>
    /\ d_context_hash = << >>
    /\ d_processing = {}
    /\ d_symbols = {}
    /\ d_symbol_num = 0
    /\ d_unique_symbols = << >>
    /\ d_visited = {}
    /\ call = NoCall
    /\ hash_count = << >>
    /\ newName = << >>
    /\ output = << >>

Init == Fresh /\ pre_size = 0

Build == phase = "build" /\ GraphNext /\ UNCHANGED kernelVars

-----------------------------------------------------------------------------
(* The hash of a fresh node, mixed once more for each time it is asserted. *)
hash_node(i) ==
    <<input.class[d_nodes[i]],
      Cardinality({j \in DOMAIN input.assertions : input.assertions[j] = d_nodes[i]})>>

(* The rest of the constructor and the call of context_propagate. *)
StartApply ==
    /\ phase = "build"
    /\ visit = << >>
    /\ d_hash_table' = [i \in Numbers |-> hash_node(i)]
    /\ d_processing' = Numbers
    /\ d_symbols' = SymbolNumbers
    /\ d_symbol_num' = Cardinality(SymbolNumbers)
    /\ call' = [processing |-> Numbers, symbols |-> SymbolNumbers, count |-> 0]
    /\ phase' = "context"
    /\ UNCHANGED <<graphVars, options, pre_size, error, d_context_hash,
                   d_unique_symbols, d_visited, hash_count, newName, output>>

-----------------------------------------------------------------------------
OperandHashes(i, numbers) ==
    IF is_commutative(i)
    THEN hash_communative_children(d_graph[i], numbers)
    ELSE hash_children(d_graph[i], numbers)

(***************************************************************************)
(* The two sweeps of propagate, over numbers that stand for the hashes of  *)
(* the processed nodes. A sweep updates the table in place, operands before*)
(* their users (or the reverse), so one sweep carries a difference through *)
(* every level: level k is the sweep seen after the first k levels, those  *)
(* of the operands and one for the sorts (module KernelSorts).             *)
(***************************************************************************)
Levels == 2 + Max({input.height[d_nodes[i]] : i \in Numbers})

Sweep(P, seed, Mixed(_, _)) ==
    LET After(below) == hash_mix([i \in P |-> <<seed[i]>> \o Mixed(i, below)])
        level[k \in 0..(Levels - 1)] == IF k = 0 THEN seed ELSE After(level[k - 1])
    IN After(level[Levels - 1])

ContextSweeps(P) ==
    LET seed == hash_mix([i \in P |-> d_hash_table[i]])
        up == Sweep(P, seed, OperandHashes)
        down == Sweep(P, up, LAMBDA i, numbers : hash_parents(d_reversed_graph[i], numbers))
    IN [i \in DOMAIN d_hash_table |->
          IF i \in P THEN hash_combine(d_hash_table[i], down[i]) ELSE d_hash_table[i]]

(* Without context propagation: one simultaneous step, from which leaves   *)
(* are left out.                                                           *)
PlainStep(P) ==
    LET seed == hash_mix([i \in P |-> d_hash_table[i]])
        next == hash_mix([i \in P |->
                  <<seed[i], Len(d_graph[i])>> \o OperandHashes(i, seed)
                      \o hash_parents(d_reversed_graph[i], seed)])
    IN [i \in DOMAIN d_hash_table |->
          IF i \in P /\ d_graph[i] # << >>
          THEN hash_combine(d_hash_table[i], next[i])
          ELSE d_hash_table[i]]

propagate(P) == IF options.cp THEN ContextSweeps(P) ELSE PlainStep(P)

\* propagate copies into its static table, which the first kernel of the
\* process has sized: pre_hash_table.at throws past its end.
StaticTableSize == IF pre_size = 0 THEN Len(d_nodes) ELSE pre_size
\* Mutant: the table is looked up in either mode.
StaticTableTooSmallInAnyMode == \E i \in call.processing : i > StaticTableSize

StaticTableTooSmall == ~options.cp /\ \E i \in call.processing : i > StaticTableSize

PropagateThrows ==
    /\ phase \in {"context", "region"}
    /\ StaticTableTooSmall
    /\ phase' = "error"
    /\ error' = "hash_table_at"
    /\ pre_size' = StaticTableSize
    /\ UNCHANGED <<graphVars, options, refineVars, d_context_hash, d_symbol_num,
                   call, hash_count, newName, output>>

(***************************************************************************)
(* One turn of context_propagate's loop; it ends when the number of        *)
(* distinct symbol hashes is what it was a turn ago.                       *)
(***************************************************************************)
DistinctHashes(table, S) ==
    IF S = {} THEN 1 ELSE Cardinality({table[i] : i \in S})

Propagate ==
    /\ phase \in {"context", "region"}
    /\ ~StaticTableTooSmall
    /\ pre_size' = IF options.cp THEN pre_size ELSE StaticTableSize
    /\ d_hash_table' = propagate(call.processing)
    /\ LET count == DistinctHashes(d_hash_table', call.symbols)
       IN IF count # call.count
          THEN /\ call' = [call EXCEPT !.count = count]
               /\ UNCHANGED <<phase, d_context_hash>>
          ELSE /\ call' = NoCall
               /\ phase' = IF phase = "context" THEN "loop" ELSE "specific"
               /\ d_context_hash' =
                    IF phase = "context" THEN d_hash_table' ELSE d_context_hash
    /\ UNCHANGED <<graphVars, options, error, d_processing, d_symbols,
                   d_symbol_num, d_unique_symbols, d_visited, hash_count,
                   newName, output>>

-----------------------------------------------------------------------------
(***************************************************************************)
(* specific_propagate takes the regions (connected components of the       *)
(* current graph that hold a symbol) one by one. Which region comes first, *)
(* and which of several equal symbols is perturbed, depends on the order of*)
(* the numbers, that is on how the input is written; both are left open.   *)
(***************************************************************************)
Neighbours(i) == Range(d_graph[i]) \union {p[1] : p \in Range(d_reversed_graph[i])}

Component(s) ==
    Reached({s}, [i \in Numbers |-> Neighbours(i) \intersect (Numbers \ d_visited)], Len(d_nodes))

\* The bag of the hashes of a region's symbols, as one hash value: in hash order, each
\* hash with the number of symbols that have it.
symbols_hash(symbols) ==
    LET At(k) == {i \in symbols : k = 1 + Cardinality({j \in symbols :
                                              Before(d_hash_table[j], d_hash_table[i])})}
        Met(k) == LET h == d_hash_table[CHOOSE i \in At(k) : TRUE]
                  IN IF At(k) = {} THEN << >> ELSE <<Cardinality(At(k)), Len(h)>> \o h
    IN FlattenSeq([k \in 1..Cardinality(symbols) |-> Met(k)])

\* How many regions with this symbols_hash the call has met, this one included.
CountOf(h) == IF h \in DOMAIN hash_count THEN hash_count[h] + 1 ELSE 1

\* Mutant: the fingerprint takes the place of what a node's hash was.
RegionsHashOnly(processing, h) ==
    [i \in DOMAIN d_hash_table |->
       IF i \in processing
       THEN hash_combine(<<Fingerprint, Len(h)>> \o h, CountOf(h))
       ELSE d_hash_table[i]]

WithRegion(processing, h) ==
    [i \in DOMAIN d_hash_table |->
       IF i \in processing
       THEN hash_combine(d_hash_table[i] \o <<Fingerprint, Len(h)>> \o h, CountOf(h))
       ELSE d_hash_table[i]]

\* Mutant: a pair of equal hashes is overlooked.
LowestTiedOfThree(table, symbols) ==
    LET tied == {i \in symbols : \E j, k \in symbols \ {i} :
                   j # k /\ table[i] = table[j] /\ table[i] = table[k]}
    IN {i \in tied : \A j \in tied : ~Before(table[j], table[i])}

\* The symbols with the lowest hash that several of them have.
LowestTied(table, symbols) ==
    LET tied == {i \in symbols : \E j \in symbols \ {i} : table[i] = table[j]}
    IN {i \in tied : \A j \in tied : ~Before(table[j], table[i])}

Region(s) ==
    /\ phase = "specific"
    /\ s \in d_symbols \ d_visited
    /\ LET processing == Component(s)
           symbols == {i \in processing : IsSymbol(i)}
           h == symbols_hash(symbols)
           table == WithRegion(processing, h)
           candidates == LowestTied(table, symbols)
       IN /\ d_visited' = d_visited \union processing
          /\ hash_count' = [g \in DOMAIN hash_count \union {h} |->
                              IF g = h THEN CountOf(h) ELSE hash_count[g]]
          /\ \/ /\ candidates = {}
                /\ d_hash_table' = table
                /\ UNCHANGED <<phase, call>>
             \/ \E idx \in candidates :
                /\ d_hash_table' = [table EXCEPT ![idx] = hash_combine(@, Perturbed)]
                /\ call' = [processing |-> processing, symbols |-> symbols, count |-> 0]
                /\ phase' = "region"
    /\ UNCHANGED <<graphVars, options, pre_size, error, d_context_hash, d_processing,
                   d_symbols, d_symbol_num, d_unique_symbols, newName, output>>

SpecificDone ==
    /\ phase = "specific"
    /\ d_symbols \subseteq d_visited
    /\ d_visited' = d_visited \ d_processing
    /\ hash_count' = << >>
    /\ phase' = "loop"
    /\ UNCHANGED <<graphVars, options, pre_size, error, d_hash_table, d_context_hash,
                   d_processing, d_symbols, d_symbol_num, d_unique_symbols, call,
                   newName, output>>

-----------------------------------------------------------------------------
\* Numbers of P whose hash some other number of P has too.
Ambiguous(P) ==
    {i \in P : \E j \in P \ {i} : d_hash_table[i] = d_hash_table[j]}

\* The order of unique symbols and, at the end, of operands and assertions.
ByHash(table, i, j) ==
    \/ Before(d_context_hash[i], d_context_hash[j])
    \/ d_context_hash[i] = d_context_hash[j] /\ Before(table[i], table[j])

\* The sequences that list S, each element once, in hash order.
Sorted(S) ==
    {q \in [1..Cardinality(S) -> S] :
        /\ IsInjective(q)
        /\ Range(q) = S
        /\ \A i, j \in 1..Cardinality(S) : i < j => ByHash(d_hash_table, q[i], q[j])}

\* Mutant: the pruned graph holds the kept nodes only.
PrunedGraphCompacted(keep) ==
    [i \in keep |-> Only(d_graph[i], keep)]

\* What rebuild_graph leaves of the graph: ambiguous nodes and the edges between them.
PrunedGraph(keep) ==
    [i \in DOMAIN d_graph |->
       IF i \notin d_processing THEN d_graph[i]
       ELSE IF i \notin keep THEN << >>
       ELSE Only(d_graph[i], keep)]

\* Mutant: users that are pruned stay listed.
ReversedGraphUnpruned(keep) ==
    [i \in DOMAIN d_reversed_graph |->
       IF i \in d_processing \ keep THEN << >> ELSE d_reversed_graph[i]]

PrunedReversedGraph(keep) ==
    [i \in DOMAIN d_reversed_graph |->
       IF i \notin d_processing THEN d_reversed_graph[i]
       ELSE IF i \notin keep THEN << >>
       ELSE Only(d_reversed_graph[i], keep \X Nat)]

\* The code marks the ambiguous nodes in d_visited and keeps all marked ones.
Kept == Ambiguous(d_processing) \union (d_visited \intersect d_processing)

\* Mutant: the settled nodes stay among the processed ones.
RebuildKeepsProcessing ==
    LET keep == Kept
    IN /\ d_graph' = PrunedGraph(keep)
       /\ d_reversed_graph' = PrunedReversedGraph(keep)
       /\ d_symbols' = {i \in keep : IsSymbol(i)}
       /\ \E unique_symbols \in Sorted({i \in d_processing \ keep : IsSymbol(i)}) :
             d_unique_symbols' = d_unique_symbols \o unique_symbols
       /\ d_visited' = d_visited \ d_processing
       /\ UNCHANGED d_processing

rebuild_graph ==
    LET keep == Kept
    IN /\ d_graph' = PrunedGraph(keep)
       /\ d_reversed_graph' = PrunedReversedGraph(keep)
       /\ d_symbols' = {i \in keep : IsSymbol(i)}
       /\ \E unique_symbols \in Sorted({i \in d_processing \ keep : IsSymbol(i)}) :
             d_unique_symbols' = d_unique_symbols \o unique_symbols
       /\ d_processing' = keep
       /\ d_visited' = d_visited \ d_processing

\* Mutant: pruning stops as soon as the count is not exceeded.
RefinedAtOnce ==
    IF options.sbp THEN Len(d_unique_symbols) <= d_symbol_num
                   ELSE Ambiguous(d_processing) = {}

\* Mutant: pruning waits for one symbol more than there are.
RefinedOneMore ==
    IF options.sbp THEN Len(d_unique_symbols) = d_symbol_num + 1
                   ELSE Ambiguous(d_processing) = {}

Refined ==
    IF options.sbp THEN Len(d_unique_symbols) = d_symbol_num
                   ELSE Ambiguous(d_processing) = {}

RefineWithPruning ==
    /\ phase = "loop"
    /\ options.sbp
    /\ ~Refined
    /\ rebuild_graph
    /\ phase' = "specific"
    /\ UNCHANGED <<input, visit, node2index, d_nodes, options, pre_size, error,
                   d_hash_table, d_context_hash, d_symbol_num, call, hash_count,
                   newName, output>>

(***************************************************************************)
(* Without pruning the loop waits for all nodes to differ, but a round acts*)
(* on equal symbols only. When no symbols are equal and two nodes of one   *)
(* region are, a round gives both the same further hash, and so does every *)
(* later one: the loop never ends. Those rounds, which differ in the length*)
(* of the hashes alone, are cut off.                                       *)
(***************************************************************************)
HeldUp ==
    /\ phase = "loop"
    /\ ~options.sbp
    /\ Ambiguous(d_symbols) = {}
    /\ \E i, j \in Ambiguous(d_processing) :
          i # j /\ d_hash_table[i] = d_hash_table[j] /\ j \in Component(i)

RefineInPlace ==
    /\ phase = "loop"
    /\ ~options.sbp
    /\ ~Refined
    /\ ~HeldUp
    /\ phase' = "specific"
    /\ UNCHANGED <<graphVars, options, pre_size, error, d_hash_table, d_context_hash,
                   d_processing, d_symbols, d_symbol_num, d_unique_symbols,
                   d_visited, call, hash_count, newName, output>>

RefineDone ==
    /\ phase = "loop"
    /\ Refined
    /\ phase' = "rename"
    /\ UNCHANGED <<graphVars, options, pre_size, error, d_hash_table, d_context_hash,
                   d_processing, d_symbols, d_symbol_num, d_unique_symbols,
                   d_visited, call, hash_count, newName, output>>

-----------------------------------------------------------------------------
(***************************************************************************)
(* Renaming: the k-th function among the unique symbols becomes UF<k>, the *)
(* k-th of the others S<k>. An application takes the new name of its       *)
(* function from function_names_map, with a checked access. Operands of    *)
(* commutative nodes and the assertions are then sorted by hash, a symbol's*)
(* hash now being its number.                                              *)
(***************************************************************************)
Named == Range(d_unique_symbols)

CanonicalName(i) ==
    LET at == CHOOSE k \in DOMAIN d_unique_symbols : d_unique_symbols[k] = i
        before == {k \in 1..at : IsUFName(d_unique_symbols[k]) = IsUFName(i)}
    IN <<IF IsUFName(i) THEN "UF" ELSE "S", Cardinality(before)>>

AppliedFunctions == {i \in Numbers : IsUFName(i)}

FinalHash == [i \in Numbers |->
                IF i \in Named THEN <<CanonicalName(i)[2]>> ELSE d_hash_table[i]]

\* Mutant: nothing is reordered.
InInputOrder(s) == s

InFinalOrder(s) ==
    SortSeq(s, LAMBDA a, b : ByHash(FinalHash, node2index[a], node2index[b]))

\* A node as it is written: operands of a commutative node in hash order, the
\* operand that stands apart first.
OperandOrder(n) ==
    LET s == input.operands[n]
        from == IF n \in input.leading THEN 2 ELSE 1
        rest == SubSeq(s, from, Len(s))
    IN IF n \notin input.commutative THEN s
       ELSE SubSeq(s, 1, from - 1) \o InFinalOrder(rest)

Written ==
    LET text[i \in Numbers] ==
            LET n == d_nodes[i]
                s == OperandOrder(n)
            IN <<input.class[n],
                 IF i \in Named THEN CanonicalName(i)
                 ELSE IF IsSymbol(i) THEN <<"old", n>>
                 ELSE IF input.uf[n] # NoNode THEN CanonicalName(node2index[input.uf[n]])
                 ELSE << >>,
                 [k \in DOMAIN s |-> text[node2index[s[k]]]]>>
        asserted == InFinalOrder(input.assertions)
    IN [k \in DOMAIN asserted |-> text[node2index[asserted[k]]]]

Rename ==
    /\ phase = "rename"
    /\ AppliedFunctions \subseteq Named
    /\ newName' = [i \in Named |-> CanonicalName(i)]
    /\ output' = Written
    /\ phase' = "done"
    /\ UNCHANGED <<graphVars, options, pre_size, error, refineVars, d_context_hash,
                   d_symbol_num, call, hash_count>>

RenameThrows ==
    /\ phase = "rename"
    /\ ~(AppliedFunctions \subseteq Named)
    /\ phase' = "error"
    /\ error' = "function_names_at"
    /\ UNCHANGED <<graphVars, options, pre_size, refineVars, d_context_hash,
                   d_symbol_num, call, hash_count, newName, output>>

\* apply has returned, or has thrown, or goes round for ever.
Stopped == (phase \in {"done", "error"} \/ HeldUp) /\ UNCHANGED vars

Step ==
    \/ Build
    \/ StartApply
    \/ Propagate
    \/ PropagateThrows
    \/ \E s \in d_symbols : Region(s)
    \/ SpecificDone
    \/ RefineWithPruning
    \/ RefineInPlace
    \/ RefineDone
    \/ Rename
    \/ RenameThrows

Next == Step \/ Stopped

Spec == Init /\ [][Next]_vars

(***************************************************************************)
(* The kernel is one thread of control: it goes on as long as it can. This *)
(* is WF_vars(Step) with its ENABLED written out: Step is enabled until    *)
(* apply has returned or thrown or its rounds are cut off (the runs check  *)
(* that there is no deadlock), and evaluating ENABLED would repeat every   *)
(* sweep.                                                                  *)
(***************************************************************************)
RunsOn == []<>(phase \in {"done", "error"} \/ HeldUp) \/ []<><<Step>>_vars
FairSpec == Spec /\ RunsOn

-----------------------------------------------------------------------------
Phases == {"build", "context", "loop", "specific", "region", "rename", "done", "error"}

KernelTypeOK ==
    /\ GraphTypeOK
    /\ options \in Modes
    /\ pre_size \in Nat
    /\ phase \in Phases
    /\ error \in {"none", "hash_table_at", "function_names_at"}
    /\ DOMAIN d_hash_table = IF phase = "build" THEN {} ELSE Numbers
    /\ DOMAIN d_context_hash \in {{}, Numbers}
    /\ d_processing \subseteq Numbers
    /\ d_symbols \subseteq Numbers
    /\ d_symbol_num \in Nat
    /\ d_unique_symbols \in Seq(Numbers)
    /\ d_visited \subseteq Numbers
    /\ call.processing \subseteq Numbers
    /\ call.symbols \subseteq Numbers

Refining == phase \in {"loop", "specific", "region", "rename", "done"}

(***************************************************************************)
(* Pruning loses no symbol and names none twice: at every moment of the    *)
(* refinement a symbol is either listed once in d_unique_symbols or still  *)
(* in d_symbols, and d_symbols are the symbols of the nodes still processed*)
(***************************************************************************)
SymbolsPartitioned ==
    Refining =>
        /\ IsInjective(d_unique_symbols)
        /\ Range(d_unique_symbols) \intersect d_symbols = {}
        /\ Range(d_unique_symbols) \union d_symbols = SymbolNumbers
        /\ d_symbols = d_processing \intersect SymbolNumbers

(***************************************************************************)
(* rebuild_graph prunes the two directions of the graph alike: a processed *)
(* node is as often an operand of a processed node as that node is among   *)
(* its users, and no edge leads out of the processed nodes.                *)
(***************************************************************************)
Times(s, S) == Cardinality({k \in DOMAIN s : s[k] \in S})

EdgesMirrored ==
    Refining =>
        /\ \A i \in Numbers \ d_processing : d_graph[i] = << >> /\ d_reversed_graph[i] = << >>
        /\ \A i, c \in Numbers :
              Times(d_graph[i], {c}) = Times(d_reversed_graph[c], {i} \X Nat)

(***************************************************************************)
(* Propagation only refines: two nodes that have different hashes never have*)
(* the same one again. One of them may be in a region that is reached in a *)
(* round and the other not, or pruned, so that different things, and not   *)
(* equally many, are mixed into the two.                                   *)
(***************************************************************************)
ApartForGood ==
    [][ phase # "build" => \A i, j \in Numbers :
            d_hash_table[i] # d_hash_table[j] => d_hash_table'[i] # d_hash_table'[j] ]_vars

(***************************************************************************)
(* Every round of the pruning loop but the first settles a symbol that the *)
(* round before left tied: the perturbation of specific_propagate is never *)
(* wasted.                                                                 *)
(***************************************************************************)
EveryRoundResolves ==
    [][ phase = "loop" /\ phase' = "specific" /\ d_hash_table # d_context_hash /\ options.sbp
          => Len(d_unique_symbols') > Len(d_unique_symbols) ]_vars

(***************************************************************************)
(* With pruning, the kernel does what SymbolNaming says: no step reorders, *)
(* drops or repeats a settled symbol, nothing is renamed before every      *)
(* symbol is settled, and renaming does not fail half-way.                 *)
(***************************************************************************)
Naming == INSTANCE SymbolNaming WITH
    stage <- CASE phase = "build" -> "collect"
               [] phase = "done" -> "named"
               [] phase = "error" -> "failed"
               [] OTHER -> "settle",
    symbols <- IF phase = "build" THEN {} ELSE SymbolNumbers,
    settled <- d_unique_symbols

ImplementsNaming == Naming!NamingSpec

(***************************************************************************)
(* With one of the flags on, the refinement loops of apply end, whatever is*)
(* perturbed first and whatever ran before. With both off they end unless  *)
(* the symbols are told apart while nodes of one region are not, which     *)
(* happens where plain steps stop before they reach those nodes.           *)
(***************************************************************************)
Terminates == <>(phase \in {"done", "error"} \/ (HeldUp /\ ~options.cp))

(***************************************************************************)
(* kernel.cpp:42 says of the constructor: "Build forward and reverse       *)
(* adjacency with operator-position metadata". So the entry of a node for a*)
(* user whose operands are ordered carries the position it has there.      *)
(***************************************************************************)
PositionsRecorded ==
    phase = "context" =>
        \A k \in Numbers : ~is_commutative(k) =>
            \A i \in DOMAIN d_graph[k] :
                <<k, i - 1>> \in Range(d_reversed_graph[d_graph[k][i]])

(***************************************************************************)
(* pipeline_walkthrough.md:19: "Specific propagation resolves remaining    *)
(* hash collisions." So when the kernel has stopped refining, the          *)
(* comparison that sorts the assertions and the operands of commutative    *)
(* nodes meets no tie, which std::sort would leave in the order of the     *)
(* input.                                                                  *)
(***************************************************************************)
TiesLeft ==
    \E i, j \in Numbers :
        i # j /\ d_context_hash[i] = d_context_hash[j] /\ d_hash_table[i] = d_hash_table[j]

NoTiesLeft == phase = "rename" => ~TiesLeft
=============================================================================
