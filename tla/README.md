# SMTStabilizer: specifications, model checking and proofs

SMTStabilizer reads an SMT-LIB 2 script and writes an equivalent one in which
symbols have canonical names and assertions and commutative operands a
canonical order, so that solvers meet the same text however the script was
written. This directory holds TLA+ specifications of it, TLC configurations
that check them on small instances, and TLAPS proofs for all instances.

All paths below are relative to the source directory `src/src` of the
repository unless they start with `src/`. Everything in the program runs in one
thread.

## 1. The system

| Component | State it keeps | Operations |
|---|---|---|
| Kernel, constructor (`kernel/kernel.cpp:48`) | walk stack, node numbers, `d_nodes`, `d_graph`, `d_reversed_graph` | one walk over the assertion DAG |
| Kernel, refinement (`kernel.cpp:157-351`, `566-619`) | `d_hash_table`, `d_context_hash`, `d_processing`, `d_symbols`, `d_unique_symbols`, `d_visited`; one static table per process | `propagate`, `context_propagate`, `specific_propagate`, `rebuild_graph`, the loops of `apply` |
| Kernel, sorts (`kernel.cpp:360-566`) | sort vertices added to the graph for a while | `sort_propagate` |
| Kernel, renaming (`kernel.cpp:621-1024`) | name maps, datatype blocks, function tables, assertion list | renaming, sorting, rebuilding of the declarations |
| Hash helpers (`util/node_helper.cpp`) | none | `hash_node`, `hash_combine`, `hash_children`, ... |
| Node manager facade (`node/node_manager.h`) | a reference to the parser | `simplify_assertions`, accessors |
| Term table (`parser/dag.cpp`, `dag.h`) | nodes, buckets, static nodes, cached hashes | `createNode`, `insertNodeToBucket`, `isEquivalentTo`, `clear`, `getIndex` |
| Scopes (`parser/base_parser.cpp`, `expr_parser.cpp`) | variable, function, parameter and let maps, depths, modes | quantifiers, definitions, both readings of `let` |
| Script (`base_parser.cpp`) | function tables, assertions, position in the text | one handler per command |
| Let rebuilding, output (`base_parser.cpp:2640-2960`) | levels, counts and copies of nodes | `rebuildLetBindings`, `dumpSMT2` |
| Term construction (`parser/op_parser.cpp`) | quantifier counter | one `mk` function per operator, sort checks |
| Rewriter (`parser/rewrite_parser.cpp`) | none | a rule per operator |
| Numbers, bit-vectors, intervals, values | values | arithmetic, comparison, conversion |
| C++ interface (`api/stabilizer_api.cpp`) | options | `apply_file`, `apply_text` |
| C interface (`api/c_api.cpp`) | handles, options objects, last error, output buffers | create, destroy, setters, apply |
| Command line (`main/main.cpp`) | two flags | one run |

How they interact: `main` or `SMTStabilizer::run_pipeline` makes a parser, which
builds hash-consed terms through the term table and, while it does, through
the constructors and the rewriter. A facade object then rewrites the list of
assertions as one `and` (`node_manager.h:76`), which drops duplicates and orders
them by address; the kernel reads the resulting DAG, refines hashes of its nodes
until every symbol has a hash of its own, renames nodes and sorts operands in
place, replaces the parser's name maps and assertion list, and the parser
rebuilds lets and writes the script.

What is hard here. There is no concurrency. The first hard part is *order*: the
same formula reaches the kernel with its nodes in an order that comes from the
text and from addresses in memory, and every one of a dozen loops could let
that order through to the output. The second is *state that is reused*: marks
(`d_visited`) shared by two functions, a static table that outlives its kernel,
name maps keyed by names that are not unique, hashes cached in nodes that are
changed later, static nodes shared by all parsers. The third is *failure in the
middle*: exceptions leave handlers half done. The refinement loops end on
*counts* only. And a rule of the rewriter, or of the let rebuilding, that is
wrong changes a formula without any error.

What makes each component correct:

- the walk: a node is numbered once, after everything it is built from;
- refinement: no symbol is lost or settled twice, the pruned graph stays
  consistent, what has been told apart stays apart, every round makes progress and
  the loops end;
- renaming: names are given when all symbols are settled; the output depends
  on the formula and not on its presentation; what is used is declared, once;
- term table: one node per term, and lookups keep working after renaming;
- scopes: a name means what its innermost binding says;
- let rebuilding: the written formula is the formula;
- constructors, rewriter, numbers, bit-vectors, intervals: the value is preserved;
- script and interfaces: every call is answered, an error leaves no half-made
  result, and what is printed can be read again.

## 2. Modules

| Module | Models | Form |
|---|---|---|
| `Selection` | two loops that kernel and output share: a filter of a vector, what a walk reaches | operators |
| `KernelGraph` | the constructor's walk, `kernel.cpp:48-96` | state machine; one action per branch of the loop |
| `NodeHash` | `node_helper.cpp` | operators |
| `Kernel` | the rest of the kernel, without declared sorts | state machine that extends `KernelGraph` |
| `SymbolNaming` | what the kernel promises about names | abstract specification, implemented by `Kernel` |
| `DatatypeBlocks` | names of sorts no node has; what is left of datatypes, and how they are written | operators |
| `KernelSorts` | `sort_propagate` and the declarations written | extends `Kernel` with three actions |
| `KernelSession` | several kernels, one after another, in one process | extends `KernelSorts` |
| `TermTable` | the table of nodes, in-place changes of nodes, the end of a parser | state machine |
| `Scopes` | the parser's maps of names | state machine; one action per step of a construct |
| `Script` | the commands, function tables, applications | one action per command |
| `ScriptOutput` | `simplify_assertions`, the kernel's effect on names and function tables, `dumpSMT2` | operators |
| `Stabilizer` | the C interface over the C++ one, and the command line | state machine; composes `Script` and `ScriptOutput` |
| `LetRebuild` | `rebuildLetBindings`, and the reading of what it writes | the formula grows node by node; the algorithm is an operator |
| `Number`, `Interval` | `number.cpp`, `interval.cpp` | operators |
| `Value` | `value.cpp`, and what its operations promise | state machine that asks one question |
| `BitVector`, `BitVectorText` | `bitvector.cpp` (machine words and limbs); the digit strings of `util.cpp` | operators |
| `Rewriter`, `RewriterMeaning` | `rewrite_parser.cpp`; what SMT-LIB says of the same operators | operators, with a semantics to compare |
| `TermMaking` | the `mk` functions of `op_parser.cpp` before they call the rewriter | operators |
| `TermSorts` | from an operator's name to its kind, operands, checks and sort | operators, with the standard's signatures |
| `Operations` | one call of any of these functions | extends `Value` with the other questions |
| `KernelFormulas`, `SortFormulas`, `MC*` | formulas, scripts and bounds of the runs | |
| `SelectionProofs` | the two loops of `Selection` | lemmas |
| `KernelProofs`, `KernelSessionProofs` | the kernel | theorems |
| `ScopesProofs` | the keys of lets; all the maps of names | theorems |
| `TermTableProofs`, `TermMeaningProofs` | the table's entries; the terms it returns, equal terms as one node | theorems |
| `StabilizerProofs` | a whole call: reading, kernel's names, printing | theorems |
| `ValueProofs` | intervals as sets; their arithmetic | theorems |

`KernelSession` composes everything in `kernel/`; `Stabilizer` composes the parser's
script level, the kernel's effect on names and the interfaces; `Operations` composes the pure
functions. The kernel's inner loops are not in `Stabilizer`: what it needs of them is which names
things get, when they throw and that they end, which are properties of the kernel runs.

### Correspondence of state and actions: kernel

Names of variables are those of the members and locals of the code
(`visit`, `node2index`, `d_nodes`, `d_graph`, `d_reversed_graph`,
`d_hash_table`, `d_context_hash`, `d_processing`, `d_symbols`,
`d_symbol_num`, `d_unique_symbols`, `d_visited`, `hash_count`). Numbers start
at 1, and `SIZE_MAX` in `node2index` is 0. `phase` is the program counter: it says
in which function of `apply` the kernel is. `pre_size` is the size of the static
table of `propagate`, 0 before it exists. `call` holds the arguments and the
local count of `context_propagate`. `told` is a history variable: the hashes
before the first perturbation.

| Action | Code |
|---|---|
| `Build` (`Expand`, `Number`, `Skip`) | one turn of the constructor's loop |
| `StartApply` | end of the constructor and call of `context_propagate` |
| `Propagate` | one turn of `context_propagate`: `propagate`, then the count |
| `PropagateThrows` | `pre_hash_table.at` out of range |
| `SortPropagate`, `SortTurn`, `SortTurnThrows` | `sort_propagate`: the vertices are added; one turn of its `context_propagate`, with the perturbation of a tied sort or the end; the access past the static table |
| `Region(s)` | one region of `specific_propagate`, up to the call of `context_propagate` |
| `SpecificDone` | end of `specific_propagate` |
| `RefineWithPruning` | one turn of the loop at `kernel.cpp:614`, `rebuild_graph` included |
| `RefineInPlace` | one turn of the loop at `kernel.cpp:599` |
| `RefineDone` | either loop ends |
| `Rename`, `RenameThrows` | the rest of `apply` |
| `NextKernel` | the next `run_pipeline` of the process |

An action stands for a stretch of code between two loop heads; nothing else
runs in between, so a finer grain would only add states. In the code the sorts' vertices come
before the nodes; the model puts them after, so that nodes keep their numbers, which no comparison
of hashes can see.

### Term table

`heap[i]` is the node with address `i`, `table` the vector `nodes` with the kind and the
hash of each node's bucket, `got` the last call of `createNode` (history). `cached` is a
node's `node_hash`, `chash` its `children_hash`.

| Action | Code |
|---|---|
| `MkVar`, `MkQuantVar`, `MkOper`, `MkQuantifier`, `MkFuncDec`, `DefineNew` | the functions of that name in `op_parser.cpp`, each with its calls of `createNode` |
| `DefineDeclared` | `updateFuncDef`: the node of a declaration becomes a definition where it stands |
| `MkApply` | `mkApplyFunc`: a node outside the table |
| `RenameSymbol`, `SortOperands` | `setName`, `replace_children` as `Kernel::apply` uses them |
| `MkLetBindVar` | `rebuildLetBindings` making a variable |
| `NextParser` | destructor, `clear`, and a new parser over the same static nodes |

`Equivalent` unrolls `isEquivalentTo` as deep as there are nodes: the set of visited pairs
in the code is what makes that end on a recursive definition.

### Scopes

The maps, flags and depths have the names of the parser's
members; `keep_let` is `parsing_preserve_let`. `frames` is what the C++ call stack and
`stateStack` hold: the constructs being read and the keys each of them has bound.
`Meaning` is `parseConstFunc`: the maps in the order in which it asks them.

| Action | Code |
|---|---|
| `DeclareVar`, `DeclareFun` | `mkVar`, `mkFuncDec`, called by the declaration commands |
| `OpenDefine`, `Parameter`, `EndParameters`, `CloseDefine` | `define-fun` and `define-fun-rec`, `base_parser.cpp:1124-1263` |
| `OpenAssert`, `CloseAssert` | `assert`, `base_parser.cpp:805` |
| `OpenQuantifier`, `QuantVar`, `EndVariables`, `CloseQuantifier` | `expr_parser.cpp:213-223` and `parseQuant` |
| `OpenLet` | a let met by `parseExpr`, `expr_parser.cpp:314-330` |
| `ChainLet` | a let that is the whole body of another, pushed on `stateStack` |
| `BindingName`, `BindingValue` | the name of a binding with the test for a duplicate; the end of its value and the insertion |
| `EndBindings`, `CloseLet` | end of the list of bindings; end of the body, with the erasing of keys and the change of depth and mode |

### Script and interfaces

`parser` has the members of `Parser` a script changes, `text` the commands read so far:
the environment reveals the text as it is read, so every script of up to `MaxCommands`
commands is read. `graph` is what the kernel visits.

| Action | Code |
|---|---|
| `DeclareConst`, `DeclareFun`, `DefineFun`, `DefineFunRec`, `AssertTerm`, `Ignore`, `Exit`, `Refuse`, `EndOfText` | one case each of `parseCommand`, `base_parser.cpp:800-1520`, and its end |
| `SetOptions` | the setters of `c_api.cpp` |
| `Call`, `CallWithout`, `UnknownOption` | `stabilizer_apply_text` / `_file` and the start of `main`; missing arguments |
| `CannotOpen`, `ReadOn`, `ReadingFails` | opening the file; parsing; an exception from it |
| `MakeKernel`, `ApplyKernel`, `KernelFails`, `TableTooSmall` | `apply_kernel`, and where it throws |
| `PrintScript`, `NoMemory` | `dumpSMT2` and the copy of the result; `malloc` fails |

`Throw` is the `catch` of `capture` in the C interface, and the missing one in `main`.

### Operations

`Operations` is in two parts. A formula (`dag`) grows by operators, quantifiers and
annotations, and each formula is a question to `rebuildLetBindings`. Or one of the other
functions is asked one question (`asked`, with the questions about values in `Value`), which the model answers as the code does and the
properties judge. The functions are pure, so all there is to explore is the set of questions.
Nothing is recomputed from the answer: `RewriterMeaning`, `Meaning` in `BitVectorText`, `Holds` in
`Interval` and the table `Standard` in `TermSorts` are independent of the code.

### Abstractions

- *Formulas of the kernel.* A node is a model value; a formula is what the kernel reads of the
  DAG (`InputType` in `KernelGraph`). A kind is a number, equal for two nodes when
  sort, kind, operand count and constant text are. A declared sort of a node is `declared.sort`.
- *Hashes.* `hash_mix` is taken to be free of collisions. A hash value is then the
  sequence of what was mixed into it; inside one sweep these sequences are replaced by
  their ranks, which keeps both equality and order and keeps the values small. The
  order of hashes in the program is arbitrary but depends on the values alone; the
  model uses the lexicographic order. Two kernels are compared by these ranks, so a
  difference shows when it changes which nodes of a formula are equal or how they are ordered.
  In `TermTable`, too, hashes are equal exactly when what is mixed into them is.
- *Order.* Which region `specific_propagate` meets first and which of several
  equal symbols or sorts it perturbs depends on the numbering. Both are left open, so a
  property that holds here holds for every order the numbering could give.
- *Output.* `Written` (in `Kernel`) is the list of assertions as nested tuples of kind, name and
  operands: equal exactly when the printed terms are. `WrittenDeclarations` are the
  sorts, datatypes and symbols declared with them.
- *Terms of scripts.* In `Script` a term is the set of what its symbols became: which names are
  there and what they stand for decides what is declared, and nothing else does. In `Scopes`
  the script is the environment: any construct the grammar allows may come next, and what is
  bound is known by the number of its binder; sorts, values and the application of functions are
  left out, and so are symbols with a fixed meaning, which `parseConstFunc` settles first.
- *Names of the output.* In `ScriptOutput` a new name is a prefix with the thing named: that
  different things get different numbers is `ImplementsNaming` of the kernel.
- *Numbers.* Reals are multiples of a small part (`Unit` parts to one); functions of real
  analysis keep their domain, monotony, symmetry and extreme values, which is all that
  interval arithmetic uses of them. Rounding moves a value by at most one part.
- *Texts.* Characters are codes; only what the rewriter's string functions tell apart matters.

## 3. Runs

| Run | Question | Distinct states |
|---|---|---|
| `kernel` | Is one kernel with pruning right? Nine properties. | 1,520 |
| `kernel_session` | Do two presentations of one script, in one process, come out the same, with declared sorts and datatypes? Is what is used declared once? When exactly does `apply` throw? All four settings of the flags. | 14,396 |
| `kernel_later` | With any flags, anywhere in a process: does it end? | 4,160 |
| `term_table` | Does the table give back the term asked for, and share equal ones, although nodes are changed in place? | 250,816 |
| `scopes` | Do the maps follow the scopes of any script, and when exactly is a symbol not read as the script means it? | 390,000 |
| `stabilizer` | Which scripts give a readable output, and is every call answered? | 186,250 |
| `operations` | Does every let rebuilding, rewriting, making, sort check and operation on values keep the meaning? | 251,428 |
| `kernel_positions` | Does the reverse graph record positions, as `kernel.cpp:42` says? It does not. | violated |
| `kernel_ties` | Does specific propagation resolve the collisions that remain, as `pipeline_walkthrough.md:19` says? Not all. | violated |
| `kernel_instances` | Are stabilizers of one process independent, as `stabilizer_api.h:79` says? They are not. | violated |
| `scopes_kept` | Do the bindings of different lets differ where lets are kept, as `base_parser.cpp:1800` says? They do not. | violated |
| `scopes_quantifier` | Is a quantified variable preferred, as `expr_parser.cpp:758` says? It is not. | violated |

### Properties of `kernel`

- `KernelTypeOK`: the vectors of the kernel stay in step with the numbered nodes.
- `OperandsNumberedFirst`, `NumberedOnce`: the walk reads no number that is not
  there, and shared nodes get one number.
- `SymbolsPartitioned`: pruning loses no symbol and settles none twice.
- `EdgesMirrored`: both directions of the graph are pruned alike.
- `ApartForGood`: two nodes whose hashes differ never have equal ones again. A round mixes its
  fingerprints into some regions and nothing into settled nodes, so this is not about one
  sweep but about what can still be mixed into which node.
- `EveryRoundResolves`: a round after the first settles at least one symbol.
- `ImplementsNaming`: refinement of `SymbolNaming`.
- `Terminates`: `apply` returns.

### Properties of `kernel_later` and `kernel_session`

- `Terminates`, here for all flags: with either flag on the loops end. With both off they
  end unless symbols are told apart while nodes of one region are not (`HeldUp`): a round
  perturbs equal symbols only, so nothing changes any more.
- `ThrowsExactlyWhen`: an exception leaves `apply` exactly when the static table is too small
  for the formula and its sorts, or when pruning is off and the formula applies a function.
- `OrderIndependent`: with the default flags, if the symbols and sorts that context propagation
  leaves equal can really be exchanged (`TiesAreSymmetries`) and refinement ends without ties
  (`TiesLeft`), two presentations are written identically, declarations included, whatever is
  perturbed first. The README of the
  program promises an approximation only; this is the case in which it is exact. Excepted
  are arrays over sorts that are equal to others (`TiedSortWithin`). The ladder among the
  formulas is one in which the premise fails and outputs do differ.
- `ContextOrderIndependent`: what context propagation computes is a function of the
  formula alone, for all flags and all formulas, and after any earlier kernel.
- `DeclaredOnceExactlyWhen`: what is written declares the sorts it uses, and no sort, constructor or
  selector twice, but for the five cases the property names: an array sort where nothing has a declared
  sort, a selector whose sort is left with a name nobody declares (as an array over it, or because the
  name begins as the new ones), a type called as a new one is, and two types with nameless selectors.

### Properties of `term_table`

- `RequestMet`: the node returned is, written out, the term that was asked for.
- `SharedUnlessTouched`: two nodes of the table are the same term only if a node below one of
  them was changed in place after it was inserted.
- `StaticsIntact`: the nodes all parsers share never change, and have the same places.
- `PlacesLeadToVariables`: `getIndex` gives each declared variable a place of its own that
  keeps leading to it.
- `BoundVariablesDistinct`: through both counters (one per parser, one per process) and
  through renaming, no two quantified variables have one name.

### Properties of `scopes`

`Lexical` is the reference: what SMT-LIB says a name means, computed from the frames.

- `MapsMirrorScopes`: the maps hold what the open constructs bound and nothing else, and
  the depths and flags follow them.
- `MisreadExactlyWhen`: where lets are expanded, `Meaning` differs from `Lexical` in
  exactly these cases: an earlier binding of the same let in the value of a later one
  (lets are read as sequential, SMT-LIB has them parallel); a name of a function that a
  quantifier or a parameter rebinds; a quantified variable inside of a let or a definition that
  binds the same name. It is both the list of what goes wrong and, within the bounds, the
  evidence that nothing else does.
- `LetKeysOnlyInLets`: kept keys are never erased, and the constructor leaves the mode
  unset (`Init` leaves it open), but a let key is seen only inside of a let.
- `ExpandedKeysDiffer`: an expanded let's key keeps its own value. `LetKeysStay`: no entry
  is exchanged for another while it can be looked up.

### Properties of `stabilizer`

- `OutputReadableExactlyWhen` compares what is printed with what the text means (`DependedOn`,
  `Referent`: computed from the text alone): the printed script declares all it uses, once,
  exactly when the assertions depend on no recursive function, on no function declared
  more than once, and, without pruning, on no constant. It also counts the declarations: those
  the assertions depend on and no others, whatever `push`, `pop` and later commands say.
- `CallsAnswered`: every call returns, and with the status, output and `last_error` that its
  arguments, its script and the failures of the environment ask for. This is the liveness
  property of the interfaces, and the safety of every answer with it.

### Properties of `operations`

- `NeverAnotherFormula`: the written formula, read again, is the formula, or uses a let
  variable where it is not bound, which a reader reports; it is never another formula.
  `LetsMeanTheSame`: it is the formula, unless a variable is bound by two quantifiers
  or an operator above a quantifier is used both inside another one and outside.
- `IntervalsKeepValues`: an operation on intervals holds what it makes of their numbers.
  `IntervalsActAsSets`: intersection, union, subset and order are those of the sets, and difference is
  but for two cases, in which the property says what comes out instead.
- `BitVectorArithmeticRight`, `BitVectorDigitsRight`: arithmetic, comparison, overflow,
  structure, shifts and conversions are those of integers modulo 2^w, both for
  values of one machine word and for longer ones.
- `RewritingSound`, `MakingSound`: what is made of a term has its value for all values of its
  variables. `RewritingComplete`, `MakingComplete`: making the result again changes nothing,
  so reading the output gives the output.
- `StandardTermsRead`, `IllSortedRefused`: the applications the standard gives a sort are read
  with that sort, and printed so that they are read as the same; others are refused by the
  operators that check.

Where the code is wrong the last eight except those cases by predicates with the reason beside them
(`Suited`, `RewriteSuited`, `MakingSuited`, `Misread`, `Unchecked`, and the premises of
`DigitsAreRight` and `ActsAsSets`): section 5 lists them.

### Bounds

*Kernel.* A formula has at most 16 nodes (`MCDagNode`). The formulas are chosen by what they
exercise: no tie at all (`Chain`), one tie (`Pair`), a rotation (`Cycle`), two equal
regions (`TwoPairs`), a function symbol (`Applied`), shared terms (`Shared`), a repeated
operand (`Repeated`), a bound variable and an operand that stands apart
(`Quantified`), ordered operands that are quantifiers (`Implication`), ties that are
not symmetries (`Ladder`), nodes that stay equal above symbols that do not (`Deep`), nodes that are
still tied when all symbols are settled (`Crossed`); and, with
sorts, two exchangeable sorts, a function on a sort, arrays over tied sorts, an
enumeration with an unused constructor, datatypes with used and unused selectors in two blocks,
arrays only, and sorts without a node that the script calls as the kernel calls sorts (`CalledAsNew`:
`SORT9` and `DT9`, which stay apart from the new names, `DT1` and `DT0`, which do not, and `SORT0`). The
names of sorts are pairs of how the text begins and the rest, of which the rest is ordered as a number;
as texts `DT10` would come before `DT2`, which no script here has. The two presentations of a script
keep the order of its datatype blocks, since the index of a block enters the hashes. `PositionBase` (16) is above every operand position. A session
has two kernels: what a kernel leaves to the next one is `pre_size`, which only the first
kernel without context propagation sets, so a third would meet nothing new. `EarlierSizes`
(3, 6, 9) are the sizes of that first formula in `kernel_later`: below, between and above
those of the formulas of the run.

*Term table.* Two symbols that can be exchanged, four nodes besides the twenty static ones, two
applications, two quantifiers, two parsers: enough for two equal terms, a change in place between
them, and a third term over both. `DefinitionKinds` has recursive definitions, which can be cyclic; the
two kinds change nodes in the same way. The theorems of section 6 need none of these bounds. The last
operand of an operator is a leaf, in the model too: an application's hash does not see its own operands,
so exchanging two applications in place would leave the hash as it was, and `Touched`, which looks
at hashes, would have to be wider.

*Scopes.* Two names that can be exchanged, four nested constructs and four binders: a
definition or assertion around two constructs of any sort and one more inside the value of a
binding, which is where two maps can disagree about one name with a third binder between
them; a second name is needed for a list in which an earlier key is seen by a later one.

*Stabilizer.* Scripts of up to four commands out of fourteen (a constant, two functions, each way
of introducing them, assertions of them, an ignored, an ending and a refused command): a
declaration, two introductions of one name and an assertion, or a definition that is
used by another that is asserted, fit into four. A handle answers call after call, so answers
follow each other in any order.

*Operations.* Formulas of five terms besides the leaves, over two variables: a quantifier inside
another one with a shared term at each level. Intervals end at -2, -1, 0, 1, 1.5 or 3, open or
closed, and `Inside` has quarter steps between them; `Unit` is 24, so that halves, thirds and
quarters are whole. Bit-vectors have 1 to 4 bits with machine words of 2 (`WordBits`), so that a size is
below, at and above a word and reaches two limbs. The rewriter is asked about every operator on small
constants and two variables of a sort, the makers under logics with integers, reals, or neither. Sort
checks: the signatures of the standard for core, numbers, bit-vectors, floating-point numbers and
strings, and each with one operand of each other sort.

`CHECK_DEADLOCK FALSE` is set in `scopes` and its two companions (a script may end anywhere, and the
bound on binders ends it), `term_table` (the bounds on nodes end it), `stabilizer` (the
command line exits) and `operations` (a question is asked once). The kernel runs check deadlock: `Stopped`
and `SessionOver` are the ends the code has.

### Fairness

The program is one thread that runs until it returns or throws, so it may be assumed
to take a step as long as it can.

- `RunsOn` (`Kernel`) is weak fairness of `Step` with its enabling
  condition written out (`Step` is enabled until `phase` is `done` or `error`, or the rounds
  that repeat for ever are cut off), because evaluating `ENABLED` would repeat every
  sweep; that nothing deadlocks confirms the condition.
- `Stabilizer` states `WF_vars(Step)`: a call runs in its caller's thread and waits for
  nothing. The caller itself (`Call`, `SetOptions`) is under no obligation.

## 4. Disagreements between the code and its documentation

Each has a run in which TLC finds the state.

1. `kernel_positions`: the test for "commutative from index one" is made on the operand
   instead of the node, and `min(i, 0)` is 0 for every `i` (`kernel.cpp:80-84`). In
   `(=> (exists ..) (exists ..))` both operands get position 0, and symbols that the
   formula tells apart stay tied, so that two orders of the assertions are written
   differently.
2. `kernel_ties`: specific propagation perturbs symbols only, and `rebuild_graph` cuts the
   edges of what is settled. In `Crossed` the assertions include `(not p)` and `(not q)`, where only
   the last downward sweep of `context_propagate` tells `p` from `q`, too late for what is above
   them. `p` and `q` are settled, the two negations lose their only edges, and no symbol is left
   in their regions. They keep one hash, and `std::sort` leaves them in the order of the
   input: two orders of the script are written differently, by the built program too.
3. `kernel_instances`: the static table of `propagate` is sized by the first kernel
   of the process that runs without context propagation; a later, larger one throws.
4. `scopes_kept`: the test for a duplicate comes before the value is read and
   `mkLetBindVar` reuses the variable it finds after it, so `(let ((x (let ((x 1)) (+ x a)))) ..)`
   loses `(+ x a)`. The interfaces read scripts this way: they turn keeping off after the text
   has been parsed (`stabilizer_api.cpp:46`). The command line expands lets.
5. `scopes_quantifier`: a let key, a function or a parameter of the same name is asked
   before the quantified variable: `(define-fun f ((x Int)) Bool (forall ((x Int)) (p x)))`
   is read, and written, with the parameter in the body.

## 5. What the code gets wrong

No comment of the repository promises these, so they are no disagreements; they came up in
modelling. The properties except exactly these cases, by the predicate named with each group, so that
each run shows what remains right. Those of the kernel and of scripts were also seen in
the built program.

*Kernel* (`ThrowsExactlyWhen`, `HeldUp`, `TiedSortWithin`, `DeclaredOnceExactlyWhen`).

- Without context propagation the static table has one place per node; a sort vertex is looked
  up beyond it (`kernel.cpp:159`, `438`), so any declared sort of a node ends the run with
  `std::out_of_range`, unless an earlier kernel made the table large enough.
- Without context propagation and without pruning, `(or (not (<= a 1)) c)` and `(or (not (<= b 1)) c)`
  never come to an end: only equal symbols are perturbed, and nothing changes for the nodes
  that are still equal. Each flag alone is harmless.
- There is no edge from an array sort to the sorts in it, so arrays over tied sorts are
  written in the order of the text even when the formula is symmetric.
- A kept datatype with an unused selector in a kept constructor declares `DT_SEL0`; two such
  datatypes declare it twice.
- A sort used only inside of an array sort is not declared when no node has a declared sort,
  and a selector of such an array keeps the name of the sort, which is not declared.
- Whether a datatype or the sort of a selector has been named is told by the name's beginning
  (`kernel.cpp:706`, `728`). A datatype `DTree` that nothing uses is kept, and a type of the script that is called
  `DT0` may be declared beside a new `DT0`. A sort `SORTX` of an unused selector is written
  as it is, without a declaration.
- An enumeration keeps as many constructors as are used, but at least two: a formula that is
  satisfied by a third value is no longer.
- Without pruning `d_unique_symbols` stays empty: no constant is renamed or declared, while sorts are
  renamed, and with an uninterpreted function the run ends in `std::out_of_range`.

*Scripts* (`OutputReadableExactlyWhen`, `MisreadExactlyWhen`).

- A recursive definition is printed under a new name (`FREC0`), its applications keep the old one.
- A function declared again: applications of the first one are printed with a name that is declared
  twice, those of the second with one that is not declared. If a definition is declared again,
  the command line stops with `std::out_of_range`.
- The C++ interface expands definitions, the command line keeps them, though
  `stabilizer_api.h` says that the defaults are the command line's.
- `push`, `pop` and `reset` are read and ignored; `check-sat-assuming` is refused.

*Let rebuilding* (the premises of `LetsMeanTheSame`).

- A variable bound by two quantifiers takes a let variable out of the first one's scope
  (`base_parser.cpp:2755-2776`).
- An operator above a quantifier that is used inside of another shared quantifier and outside of it is
  used before it is bound (`base_parser.cpp:2804-2840`).
- A symbol of the script that is called `L0` is captured. With two lets a line `!!!` is written to
  the console (`base_parser.cpp:2831`).

*Intervals and numbers* (`Suited`, the premises of `ActsAsSets`); the pipeline does not call them.

- The infinities of `Number` are integers with value 0 (`number.cpp:1189`), so the full interval
  is empty.
- The ends of `sin`, `cos` are closed the wrong way round, `acot`, `coth` and `asech` lose ends or compute
  another function, `tan` misses poles, logarithms start at 0, `sqrt` of an interval that ends in 0
  is empty, `mod` of negative dividends, `atan2` across its cut and powers of a point that is not
  positive are wrong; an integer end 0 of a divisor throws.
- The union of intervals that touch with one open end throws, differences lose all
  when the other lies within. In `difference` a local `rightClosed` shadows the interval's own
  (`interval.cpp:285`) and closes the right part by the lower end of the other: `(1,3)` minus `(0,3)` is
  `[3,3]`, a number neither holds. `isDisjointFrom` of an empty one is false, the count of
  integers between open ends that are not whole is wrong.
- An interval with an open end times the number 0, integer or real, is empty.
- Adding a real to an integer in place changes nothing, dividing in place truncates, square roots of
  integers round down.

*Bit-vectors* (the premises of `DigitsAreRight`): the signed value is not that of two's
complement, negative integers are converted wrongly, rotations by more than the width throw,
hexadecimal and decimal literals are neither cut nor filled (`util.cpp:827`).

*Rewriter* (`RewriteSuited`).

- `(abs (abs x))` becomes `x`; chains like `(<= 0 1 x 1 2)` become an equation of the original
  operands; `(mod x x)` becomes 0; `div` and `mod` truncate and throw for 0; `(is_int 2.0)` is false;
  `(pow2 (- 3))` is 2; `(+ y 1.5 2)` aborts.
- `bvcomp` of constants is a Boolean.
- `str.from_int`, `str.from_code` lose the quotes, `str.is_digit "12"` is true, `str.to_int` of other
  texts is no number, `str.<` compares the quotes too; `str.to_code` and `str.update` throw
  outside of their range, as do negative indices; `str.replace_all` of the
  empty text never ends (`util.cpp:1062`); `is_prime` and its relatives throw for terms.

*Constructors* (`MakingSuited`, `Misread`, `Unchecked`).

- In a logic with neither integers nor reals `(* 0 x y)` becomes `(* x y)` and `(+ 0 0)` throws
  (`op_parser.cpp:1211`).
- `(= p q true)` becomes `(= p q)`, `(distinct p q false)` becomes `(distinct p q)`.
- `sbv_to_int` becomes `ubv_to_int` (`expr_parser.cpp:1275`); `(- x x z)` is printed so that it is
  read back as another term; `max` and `min` drop their last operand (`op_parser.cpp:3979`).
- `re.^`, `nat2bv` and `divisible` are refused; two dozen operators do not check the sorts of
  some operands, and the widths of bit-vectors are not compared.

## 6. Proofs

All theorems are of the same modules that TLC runs, for all values of their constants.

`KernelProofs` holds for every set of nodes, of formulas
(`InputsAssumption`: the DAG is acyclic, the function of an application is a symbol, the
assertion list is not empty and has no repetition) and of flags.

- *The walk.* `WalkInv` is inductive: each node waiting for its operands has a place on the
  stack above which there are only nodes that belong to it (`PendingHavePlaces`), and numbers
  and nodes are inverse to each other. Acyclicity (the height of terms) is what rules out
  that a waiting node is met again above its own place. `WalkCorrect` follows.
- *The kernel.* `KernelInv` adds `Partition`: settled symbols are pairwise different and are
  not among the processed nodes, and together with `d_symbols` they are all symbols.
  `SymbolsPartitioned` alone is not inductive, because it does not say that
  `rebuild_graph` meets no settled symbol again. That all symbols are settled when renaming
  starts follows from the *count* the loop compares, by finiteness and injectivity
  (`AllSettled`). The invariant also says that a first kernel's static table is as long as
  its graph, so `PropagateThrows` cannot happen there.
- *Refinement.* `KernelImplementsNaming`: with pruning, `StartApply` is `Collect`,
  `RefineWithPruning` is `Settle` or a stutter, `Rename` is `Name`, and all else stutters.
  Without pruning it is false: nothing is settled there.

- *Edges.* `EdgesStayMirrored`: `d_graph` and `d_reversed_graph` have each edge equally often. `EdgesMirrored`
  is about the numbers that are left; the inductive invariant `EdgesInv` is about all of them
  (`Mirrored`), since an edge of a vertex that has been pruned would come back into view, and says that
  pruned vertices have no edge in either direction (`Pruned`). `rebuild_graph` filters both vectors of each
  vertex that stays: that a filter keeps each edge as often as it was there is `OnlyCounts`.

- *Hashes.* `HashesStayApart` (`ApartForGood`), `RoundsResolve` (`EveryRoundResolves`) and
  `SettledNodesStayApart`. A hash is a list to which only is added, so two that differ could become equal only
  where one goes on from the other with just what the other is given next: a perturbation, the
  stamp of a region (its fingerprint and the count of regions that had it), or a number of a sweep. None of the
  three properties is inductive: they say nothing of a hash that *starts* another one. `TablesInv` does, for
  the table between any two steps. `Ordered`: if a hash goes on from that of another node with a stamp, then
  that node is out of reach of every later region (`OutOfReach`: no symbol, no edge to
  what is left), or its region is still to come in this call and will get another count (`Late`).
  `Told` and `Within`, while a region is propagated: no hash outside goes on from one inside, and inside one
  hash goes on from another by the perturbation of one node only, or by numbers the other, a leaf, is no longer
  given. `SomeAlone`: once a region has been met, a symbol is alone with its hash, either because its
  region had no tie to perturb or because it was perturbed; `rebuild_graph` settles it. Sweeps need
  only what `hash_mix` promises: equal numbers for equal things mixed, all above the marks. That a
  region is closed under edges is `ReachedClosed`, which `KernelProofs` shares with `StabilizerProofs`.

`KernelSessionProofs` carries this over to the kernel with sorts, as any kernel of a process may
be (`LaterKernel`: `pre_size` starts anywhere). There the simple picture is gone: the table may be shorter
than the graph, and `sort_propagate` makes the graph longer for a while.

- `SortsInv` is inductive. To the walk it adds `Settling`, the `Partition` above over a graph whose
  vertices after the nodes are sorts; `TableFits`, what each phase has already shown of the size of the
  table; and `Errors`, why a kernel that stopped did. Sorts are numbered on from the nodes, so that
  no number of a node changes; that there are finitely many makes the numbering exist.
- `ThrowsForThoseReasons`: `apply` throws for the two reasons of `ThrowsExactlyWhen` and a kernel that
  gets through had neither. `SymbolsStayPartitionedWithSorts` is the partition.

It also goes on to whole processes (`SessionSpec`).

- *Order of writing.* `ContextsOfOneFormula` is `ContextOrderIndependent`: two kernels of a process with
  presentations of one formula (assertions and commutative operands in another order) and the same flags end the
  first `context_propagate` with the same hash at every node. It relates runs of two kernels that never exist
  at the same time, so the invariant `ContextInv` does not compare them: it says of every kernel,
  finished or not, what its hashes are a function of (`IsContextOf`: the table after the turns of
  `IsContext` on a graph of the formula, `IsGraph`). Two such tables are then compared.
- *What the walk leaves.* `IsGraph` says which nodes have numbers (those that every set closed under operands
  and containing the assertions has, `FormulaNodes`), that a row of `d_graph` is the operand list, and that a
  vector of `d_reversed_graph` lists the uses of its node, each once, in *some* order (`RowsRight`,
  `ListsUses`). `NumberingKeepsRows` is the step of `Number`, `WalkReaches` that nothing is left out and
  nothing else is reached.
- *Two graphs.* The nodes give a bijection between the numbers of two presentations (`GraphsAreAlike`). Of
  counterparts, the operands correspond up to order where the kind is commutative (`OperandsAlike`), and the
  users always do with the positions they record, which are 0 where order is free (`ParentsAlike`). So what
  is mixed at counterparts is the same bag, put in one order (`InOrderOf`), and equal things get equal
  numbers in both (`MixAlike`). Level by level the sweeps agree, so turns do (`TurnsAlike`); the counts of
  distinct hashes are then the same in every turn, and one presentation cannot stop before the other
  (`StopTogether`). That a sweep, a recursive function, exists at all is `RecursionExists`.

`TermTableProofs` holds for every set of symbols and any number of nodes, applications,
quantifiers and parsers.

- `TableInv` is inductive. None of the properties is by itself: what an entry leads to depends on
  the *hash it was inserted under*, which is no longer that of the node once the node has been renamed.
  So the invariant speaks of the remembered hash: it is that of the entry whatever the node has become
  (`TableOK`); the place of a variable is that of an entry made for its name (`VarsIn`), which is why two
  variables never share one; and the table has quantified variables for the numbers counted so far only
  (`QuantsIn`), so that asking for the next number never finds an old node, renamed or not. Names
  of quantified variables tell which of the three givers they have (`ReadName`, `QuantName`), and
  each giver's last number is new.
- No entry after the first twenty leads to a static node, which is why `clear` spares them
  (`NextParserInv`); a node whose kind is a static node's is never changed in place (`InPlace`).
- `CreateMakes` says all that is needed of `createNode`: it keeps kinds, names and entries, and
  returns a node of the kind and name asked for which the table has. It needs the comparison of
  terms only in the first step.

`TermMeaningProofs` goes on from there.

- `RequestsMet`: the node that `createNode` returns is the term it was asked for. That is a
  comparison of terms written out, and terms are deep. `isEquivalentTo` and `Written` are both unrolled
  by levels, so one level is compared at a time (`SameByLevels`, `WrittenByLevels`): if there were a
  level at which equivalent nodes are written differently there would be a least one, and below it
  operands agree. Renaming and reordering in place do no harm because each call compares the
  nodes as they are then. `KidsInLists` (operands come from the lists of the model) is the rest of
  the inductive invariant.

- `EqualTermsShared`: two nodes of the table are the same term only if something below one of them was
  changed in place. The property is not inductive, because reordering operands makes
  different nodes alike. `SharedInv` compares the nodes in the heap with the operands
  of every node put back in the order they were made in (`Unsorted`), where sorting does not
  show. There, nodes that nothing below was touched of and that are alike remember the same hash, so the
  lookup in `insertNodeToBucket` finds the first and no second is made. The step for operators
  needs that operands with different hashes are different terms: one of them is a leaf, and leaves have hashes
  of their own, a declared variable by its name and a quantified one by its number
  (`LeavesApart`). Renaming and redefining keep the remembered hash, so they break this, but they
  touch the node. A let variable may be made while operands are sorted; its operands have
  entries, and equal ones are one node. `Below` is closed because a node that was not touched
  is younger than its operands and there are at most `MaxNodes` nodes (`InOrder`, `Bounded`). TLC
  checked the invariant before it was proved.

`ScopesProofs` holds for every set of names and every bound, so for scripts of any depth.

- *Expanded lets.* `KeysInv` is inductive. `ExpandedKeysDiffer` alone is not: when the value
  of a binding has been read, the map must not hold its name although lets may have been
  opened in between. So the invariant says that the map is the union of the keys of the open lets
  (`KeysInMap`, `MapInKeys`), that no two of them share a key (`KeysApart`: else closing
  one would erase the other's), and that the name being bound is not a key of a let around
  it (`NameFree`). Steps of other constructs are `Neutral`. With lets kept the argument
  breaks where keys are not erased, which is what `scopes_kept` shows.
- *All the maps.* `MapsMirrored`, `LetKeysInLets`, `ScopesTyped`, and the action property `LetKeysKept`. The
  properties compare the maps with a search of the frames, and no map says by itself which frame an
  entry is from; so `AllInv` adds, for each map:
  the form of the stack (`StackInv`: a definition or assertion is at the bottom only, a chained let
  is on another let); that depths are numbers of frames (`CountsInv`), without which closing the inner of
  two constructs could clear a flag of the outer; that the mode is right wherever a let is open
  (`ModeInv`); that the parameters in the map are those of the one open definition (`ParamsInv`), which
  `CloseDefine` erases by name; that a quantified name's stack has its variables in the order they
  were bound (`QuantInv`, `Rising`), so that the top of the stack is the innermost; and that the value in
  the map is the value of the key of the open let (`LetValuesInv`).
- *Reading a symbol.* `MisreadExactly`: `parseConstFunc` finds what the script means except where
  `Misread` says, and there it finds something else. That the other map's answer is really another binder
  needs that no two maps hold the same binder (`BoundApart`) and that a new binder is in none of them
  (`BoundBefore`); that the answer is right needs that the maps are asked in the order in which
  constructs can be nested, which is where the exceptions come from.

`StabilizerProofs` is about whole calls, for every set of commands, scripts of any length, both fronts and
all options. `ScriptAssumption` is the only assumption on scripts: no name is both a constant's and a
function's (the standard forbids it, and a parser that is given such a script asks its functions first), and
commands without terms use no names.

- *Reading.* `CallInvariant`: at every step of a call `ReadFrom` holds: there is a `place` that gives each
  function node the command that made it, in order, and every name leads to the last function made under it
  (`KeysLeadToLast`); each body and each assertion is what the uses of its command refer to
  (`TermsRead`, by `ReferentIn`, which knows the text only). What the text means does not depend on what comes
  after (`TermKept`), so each command is a lemma about one more of them (`OneMoreRead`), and a refused one
  takes the text out of the language (`RefusedRightly`).
- *The graph.* What the assertions depend on is the least set closed under reference (`DependsClosed`,
  `DependsLeast`), what the kernel visits is the least one closed under operands (`GraphClosed`). They are not the
  same, since an expanded definition leaves no node: the nodes are those that the names depended on *stand
  for* (`StandsFor`, `GraphNodes`), the functions those whose applications are nodes (`GraphFunctions`).
- *The text.* `OutputReadable`: the four sections of the printed script have a place for each variable and each
  listed function (`Layout`). One direction has two reasons why a script cannot be read, something declared
  twice (`Repeated`) or used under a name that is not declared (`NotDeclared`), and each obstacle is one of
  them. In the other each node has its declaration (`NodesDeclared`), none is there twice
  (`DeclaredOnce`), and those a definition uses come before it, as definitions are printed in the order in
  which they were read and a body leads to earlier functions only. The counts are bijections.
- *The answers.* `AnswersAlwaysRight`: when no call runs the last one was answered as it asks for
  (`AnswersRight`, the safety of `CallsAnswered`; that every call returns stays with TLC). Reading fails
  exactly outside `Accepted`, and the kernel throws exactly where `KernelCopes` says it does
  (`ThrowsUnlessCopes`), which needs what its two reasons mean in the text: a definition's number is missing
  exactly if it was introduced again (`UnknownDefinitionExactly`), an application without a name comes from a
  declared or a self-applying recursive function (`DeclaredApplied`). The invariant `AnswerInv` adds that
  while a call runs nothing outside its script has failed.

`ValueProofs` holds for any ends of intervals. `ValueSpec` is the part of `Operations` that asks about
values; the module is of its own since the rest of `Operations` needs recursive operators. `EndsAssumption`
says that numbers are counted in whole parts, that a whole number has one form as an integer, and that
between two ends there is a number to try.

- *Sets.* `IntervalsAreSets`. An interval is described by which numbers it holds, and each operation is compared
  with the description of its operands at every number. That holds for the ends as they are, open or closed. The
  converses (what is not a subset has a number outside, what meets has a common number) need a number to
  show, which is an end or one that `EndsAssumption` finds between two. The union of a list goes
  through the fold: what has been joined is ordered and holds what the intervals read so far hold.
  The difference is stated with what the code returns in its two wrong cases (`ClosesOpenEnd` and the other
  lying within), so that the theorem has no exception for it.
- *Arithmetic.* `ArithmeticRight` states `IntervalsKeepValues` for the operations in `Kept`: `+`, `-`, `*`, `/`,
  `div` and `mod` with an interval or a number, in place or not, and the functions that grow or fall between
  the ends, with the logarithms, `abs`, `cosh` and negation. A product of two numbers between
  bounds is between the least and the greatest product of the bounds, after it has been cut to whole
  parts as well, and so is a quotient by what is not 0 (`Box` takes these corners). An open corner
  may be met only up to one part of rounding, which is what `Near` allows. The proof found that `Suited` excused
  the product with the integer 0 only: the real 0 turns open ends into the empty interval too.

No theorem of the library that is about induction can be used here, since those take an operator as a
parameter. Where a recursive definition is a function of numbers (a filter, a closure, terms by
levels) the proofs use instead that a set of numbers which is not empty has a least
element (`SetHasFirst`): the least turn of the loop at which a claim would fail.

Only model-checked:

- `OrderIndependent`: `ContextsOfOneFormula` is its first half. The other, that perturbing one or another of
  several exchangeable symbols gives the same text, needs that the symmetries of `TiesAreSymmetries` carry a
  whole refinement along;
- `DeclaredOnceExactlyWhen`: it compares what nested searches of the sorts and datatypes declare;
- `IntervalsKeepValues` for the other functions (periodic ones, roots, those computed by a
  reciprocal, powers, `atan2`), which follow tables of cases of their own;
- everything else asked of `Operations`, and `LetRebuild`: `Rewriter`, `LetRebuild` and
  `BitVectorText` use recursive operators, in which the prover loses its arithmetic;
- all liveness, which the prover does not do: `Terminates` and `CallsAnswered`.

## 7. Not modelled

- The build and packaging: no behaviour of the program.
- The lexer: `Scopes` and `Script` start from commands and names. Escapes of strings and quoted
  symbols, line counts and messages of errors are left out with it.
- Files and the console, except that opening a file and `malloc` may fail.
- GMP and MPFR: numbers are exact to a part, functions keep what interval arithmetic uses. Digit
  strings of several limbs are not printed digit by digit.
- The folding of floating-point constants: the rewriter has rules for the sorts of their operands only.
- In the C interface the getters and the destruction of handles; several handles at once, which
  share `last_error` and the static nodes only.
- Names of testers (`kernel.cpp:688`), and the place of a definition in the script, which enters its hash
  (`kernel.cpp:580`): the formulas of the kernel runs have no definitions, because the interfaces
  expand them and the command line's own reading of them is in `Scopes` and `Script`.
- Tables of names and kinds are modelled where an operator is asked about (`TermSorts`); the
  rest of `kind.h`, and options that nothing reads, are not.
