------------------------- MODULE KernelSessionProofs -------------------------
(***************************************************************************)
(* Proofs about the kernels of one process, with declared sorts and        *)
(* datatypes (KernelSorts and KernelSession), for every set of scripts, of *)
(* flags and of sessions: what makes Kernel::apply throw, and that the     *)
(* hashes of the first context_propagate do not depend on how the formula  *)
(* is written.                                                             *)
(***************************************************************************)
EXTENDS KernelSession, KernelProofs, FunctionTheorems

\* A place of the static table for every node and every declared sort a node has.
Needed == Len(d_nodes) + Cardinality(VisitedSorts)

(***************************************************************************)
(* The static table has been found large enough for what has been          *)
(* propagated so far: the nodes once the first context_propagate is over,  *)
(* the sorts' vertices too once sort_propagate is, and apply goes on to    *)
(* refine only when there are no such vertices or they have been           *)
(* propagated.                                                             *)
(***************************************************************************)
TableFits ==
    /\ phase = "context" => call.processing = Numbers
    /\ phase = "region" => call.processing \subseteq Numbers
    /\ phase = "sorts" => call.processing = Numbers \union Vertices
    /\ phase \in {"loop", "sorts", "specific", "region", "rename", "done"}
          => options.cp \/ Len(d_nodes) <= pre_size
    /\ phase \in {"specific", "region", "rename", "done"} => sortsNamed \/ VisitedSorts = {}
    /\ sortsNamed => options.cp \/ Needed <= pre_size

\* Symbols are settled by pruning alone, and all are when apply starts to rename.
Settling ==
    /\ Partition
    /\ d_processing \subseteq Numbers
    /\ d_symbol_num = Cardinality(SymbolNumbers)
    /\ phase \in {"rename", "done"} /\ options.sbp => Range(d_unique_symbols) = SymbolNumbers

Errors ==
    /\ phase # "error" => error = "none"
    /\ error = "hash_table_at" => ~options.cp /\ StaticTableSize < Needed
    /\ error = "function_names_at" => ~options.sbp /\ AppliedFunctions # {}
    /\ phase = "done" => options.sbp \/ AppliedFunctions = {}

SortsInv ==
    /\ WalkInv
    /\ options \in Modes
    /\ pre_size \in Nat
    /\ phase = "build" => ~sortsNamed
    /\ phase # "build" => Settling
    /\ ~options.sbp \/ phase = "build" => d_unique_symbols = << >>
    /\ TableFits
    /\ Errors

-----------------------------------------------------------------------------
\* The declared sorts some node has are finitely many.
LEMMA VisitedSortsFinite ==
    ASSUME WalkTypeOK
    PROVE  IsFiniteSet(VisitedSorts) /\ Cardinality(VisitedSorts) \in Nat
<1> DEFINE typed == {j \in Numbers : OfDeclaredSort(j)}
           f == [i \in typed |-> SortOf(i).of]
<1>1. IsFiniteSet(typed)
  <2>1. typed \in SUBSET Numbers
    OBVIOUS
  <2> HIDE DEF typed
  <2> QED
    BY <2>1, NumbersFinite, FS_Subset
<1>2. f \in Surjection(typed, VisitedSorts)
  BY DEF Surjection, VisitedSorts
<1> HIDE DEF typed, f
<1> QED
  BY <1>1, <1>2, FS_Surjection, FS_CardinalityType

\* SetToSeq lists a finite set, each element once.
LEMMA SetToSeqLists ==
    ASSUME NEW S, IsFiniteSet(S)
    PROVE  SetToSeq(S) \in Bijection(1..Cardinality(S), S)
<1> DEFINE places == 1..Cardinality(S)
<1>1. Cardinality(S) \in Nat
  BY FS_CardinalityType
<1>2. IsFiniteSet(places) /\ Cardinality(places) = Cardinality(S)
  <2>1. IsFiniteSet(1..Cardinality(S))
        /\ Cardinality(1..Cardinality(S)) =
              IF 1 > Cardinality(S) THEN 0 ELSE Cardinality(S) - 1 + 1
    BY <1>1, FS_Interval
  <2> QED
    BY <1>1, <2>1
<1>3. SetToSeq(S) = CHOOSE f \in [places -> S] : IsInjective(f)
  BY DEF SetToSeq
<1> HIDE DEF places
<1>4. ExistsBijection(places, S)
  BY <1>2, FS_SameCardinalityBij
<1>5. \E f \in [places -> S] : IsInjective(f)
  BY <1>4 DEF ExistsBijection, Bijection, Injection, IsInjective
<1>6. SetToSeq(S) \in Injection(places, S)
  BY <1>3, <1>5 DEF Injection, IsInjective
<1>7. SetToSeq(S) \in Surjection(places, S)
  BY <1>2, <1>6, FS_Injection
<1> QED
  BY <1>6, <1>7 DEF Bijection, places

\* The vertices are numbered on from the nodes, without a gap at the end.
LEMMA VerticesFollow ==
    ASSUME WalkTypeOK
    PROVE  /\ Needed \in Nat /\ Len(d_nodes) \in Nat /\ Len(d_nodes) <= Needed
           /\ \A v \in Vertices : v \in Nat /\ v <= Needed
           /\ Needed > Len(d_nodes) => Needed \in Vertices
<1> DEFINE n == Cardinality(VisitedSorts)
<1>1. Len(d_nodes) \in Nat /\ n \in Nat
  BY VisitedSortsFinite DEF WalkTypeOK
<1>2. SortAt \in Bijection(1..n, VisitedSorts)
  BY VisitedSortsFinite, SetToSeqLists DEF SortAt
<1>3. DOMAIN SortAt = 1..n
  BY <1>2 DEF Bijection, Injection
<1>4. ASSUME NEW s \in VisitedSorts
      PROVE  \E k \in 1..n : SortAt[k] = s /\ Vertex(s) = Len(d_nodes) + k
  <2>1. \E k \in DOMAIN SortAt : SortAt[k] = s
    BY <1>2, <1>3 DEF Bijection, Surjection
  <2> QED
    BY <2>1, <1>3 DEF Vertex
<1>5. ASSUME n > 0
      PROVE  Len(d_nodes) + n \in Vertices
  <2>1. n \in 1..n
    BY <1>1, <1>5
  <2>2. SortAt[n] \in VisitedSorts
    BY <2>1, <1>2 DEF Bijection, Injection
  <2>3. PICK k \in 1..n : SortAt[k] = SortAt[n] /\ Vertex(SortAt[n]) = Len(d_nodes) + k
    BY <1>4, <2>2
  <2>4. k = n
    BY <2>1, <2>3, <1>2 DEF Bijection, Injection, IsInjective
  <2> QED
    BY <2>2, <2>3, <2>4 DEF Vertices
<1>6. ASSUME NEW v \in Vertices
      PROVE  v \in Nat /\ v <= Len(d_nodes) + n
  <2>1. PICK s \in VisitedSorts : v = Vertex(s)
    BY <1>6 DEF Vertices
  <2>2. PICK k \in 1..n : Vertex(s) = Len(d_nodes) + k
    BY <1>4
  <2> HIDE DEF n
  <2> QED
    BY <2>1, <2>2, <1>1
<1>7. Needed = Len(d_nodes) + n
  BY DEF Needed
<1> HIDE DEF n
<1> QED
  BY <1>1, <1>5, <1>6, <1>7

-----------------------------------------------------------------------------
\* What is computed from the script and the walk alone.
LEMMA SameScript ==
    ASSUME UNCHANGED <<input, d_nodes, declared>>
    PROVE  /\ Numbers' = Numbers
           /\ SymbolNumbers' = SymbolNumbers
           /\ AppliedFunctions' = AppliedFunctions
           /\ VisitedSorts' = VisitedSorts
           /\ Vertices' = Vertices
           /\ Needed' = Needed
<1>1. Numbers' = Numbers
  BY DEF Numbers
<1>2. SymbolNumbers' = SymbolNumbers /\ AppliedFunctions' = AppliedFunctions
  BY <1>1 DEF SymbolNumbers, IsSymbol, AppliedFunctions, IsUFName
<1>3. VisitedSorts' = VisitedSorts
  BY <1>1 DEF VisitedSorts, OfDeclaredSort, SortOf
<1>4. Vertices' = Vertices /\ Needed' = Needed
  BY <1>3 DEF Vertices, Vertex, SortAt, Needed
<1> QED
  BY <1>1, <1>2, <1>3, <1>4

\* Steps that settle nothing.
LEMMA NothingSettled ==
    ASSUME SortsInv, phase # "build", phase' # "build",
           UNCHANGED <<input, visit, node2index, d_nodes, options, declared>>,
           UNCHANGED <<d_unique_symbols, d_symbols, d_processing, d_symbol_num>>,
           pre_size' \in Nat,
           phase' \in {"rename", "done"} /\ options.sbp
              => Range(d_unique_symbols) = SymbolNumbers,
           TableFits', Errors'
    PROVE  SortsInv'
<1>1. WalkInv'
  BY WalkInductive DEF SortsInv, walkVars
<1>2. Partition' /\ SymbolNumbers' = SymbolNumbers /\ Numbers' = Numbers
  BY PartitionFrame, SameScript DEF SortsInv, Settling
<1>3. Range(d_unique_symbols') = Range(d_unique_symbols)
  BY DEF Range
<1>4. Settling'
  BY <1>2, <1>3 DEF SortsInv, Settling
<1> QED
  BY <1>1, <1>4 DEF SortsInv

\* A kernel that is being built, with any static table, satisfies the invariant.
LEMMA SortsInitially ==
    ASSUME LaterKernel, pre_size \in Nat
    PROVE  SortsInv
<1>1. WalkInv
  BY WalkInitially DEF LaterKernel, Fresh
<1>2. /\ phase = "build" /\ error = "none" /\ options \in Modes
      /\ d_unique_symbols = << >> /\ ~sortsNamed
  BY DEF LaterKernel, Fresh
<1> QED
  BY <1>1, <1>2 DEF SortsInv, TableFits, Errors

\* The constructor.
LEMMA ConstructorKeeps ==
    ASSUME SortsInv, Build \/ StartApply, UNCHANGED sortVars
    PROVE  SortsInv'
<1>1. /\ phase = "build" /\ WalkInv /\ error = "none" /\ ~sortsNamed
      /\ d_unique_symbols = << >>
  BY DEF SortsInv, Errors, Build, StartApply
<1>2. CASE Build
  <2>1. WalkInv'
    BY <1>1, <1>2, WalkInductive DEF Build
  <2>2. /\ phase' = "build" /\ error' = "none" /\ ~sortsNamed' /\ d_unique_symbols' = << >>
        /\ options' = options /\ pre_size' = pre_size
    BY <1>1, <1>2 DEF Build, kernelVars, sortVars
  <2> QED
    BY <2>1, <2>2 DEF SortsInv, TableFits, Errors
<1>3. CASE StartApply
  <2>1. /\ UNCHANGED <<input, visit, node2index, d_nodes, declared>>
        /\ phase' = "context" /\ error' = "none" /\ ~sortsNamed' /\ d_unique_symbols' = << >>
        /\ options' = options /\ pre_size' = pre_size
        /\ d_processing' = Numbers /\ d_symbols' = SymbolNumbers
        /\ d_symbol_num' = Cardinality(SymbolNumbers)
        /\ call'.processing = Numbers
    BY <1>1, <1>3 DEF StartApply, sortVars, graphVars
  <2>2. WalkInv'
    BY <1>1, <2>1, WalkInductive DEF walkVars
  <2>3. SymbolNumbers' = SymbolNumbers /\ Numbers' = Numbers /\ SymbolNumbers \subseteq Numbers
    BY <1>1, <2>1, SameScript, NumbersFinite DEF WalkInv
  <2>4. Settling'
    BY <2>1, <2>3 DEF Settling, Partition, IsInjective, Range
  <2> QED
    BY <2>1, <2>2, <2>3, <2>4 DEF SortsInv, TableFits, Errors
<1> QED
  BY <1>2, <1>3

\* What the static table holds after a turn of propagate.
LEMMA TableAfter ==
    ASSUME pre_size \in Nat, Len(d_nodes) \in Nat
    PROVE  /\ StaticTableSize \in Nat
           /\ pre_size <= StaticTableSize
  BY DEF StaticTableSize

\* A table that has a place for every node, or for every node and every sort's vertex.
LEMMA LargeEnough ==
    ASSUME WalkTypeOK, pre_size \in Nat, ~options.cp, ~StaticTableTooSmall
    PROVE  /\ call.processing = Numbers => Len(d_nodes) <= StaticTableSize
           /\ call.processing = Numbers \union Vertices => Needed <= StaticTableSize
<1>1. /\ Len(d_nodes) \in Nat /\ Needed \in Nat /\ Len(d_nodes) <= Needed
      /\ Needed > Len(d_nodes) => Needed \in Vertices
  BY VerticesFollow
<1>2. StaticTableSize \in Nat
  BY <1>1, TableAfter
<1>3. \A i \in call.processing : ~(i > StaticTableSize)
  BY DEF StaticTableTooSmall
<1>4. ASSUME Numbers \subseteq call.processing
      PROVE  Len(d_nodes) <= StaticTableSize
  <2>1. CASE Len(d_nodes) = 0
    BY <2>1, <1>2
  <2>2. CASE Len(d_nodes) > 0
    <3>1. Len(d_nodes) \in Numbers
      BY <1>1, <2>2 DEF Numbers
    <3> QED
      BY <3>1, <1>1, <1>2, <1>3, <1>4
  <2> QED
    BY <2>1, <2>2, <1>1
<1>5. ASSUME call.processing = Numbers \union Vertices
      PROVE  Needed <= StaticTableSize
  <2>1. CASE Needed = Len(d_nodes)
    BY <2>1, <1>4, <1>5
  <2>2. CASE Needed > Len(d_nodes)
    BY <2>2, <1>1, <1>2, <1>3, <1>5
  <2> QED
    BY <2>1, <2>2, <1>1
<1> QED
  BY <1>4, <1>5

\* A table without a place for one of those it is asked for.
LEMMA TooSmall ==
    ASSUME WalkTypeOK, pre_size \in Nat, StaticTableTooSmall,
           call.processing \subseteq Numbers \union Vertices
    PROVE  ~options.cp /\ StaticTableSize < Needed
<1>1. /\ Len(d_nodes) \in Nat /\ Needed \in Nat /\ Len(d_nodes) <= Needed
      /\ \A v \in Vertices : v \in Nat /\ v <= Needed
  BY VerticesFollow
<1>2. StaticTableSize \in Nat
  BY <1>1, TableAfter
<1>3. ~options.cp
  BY DEF StaticTableTooSmall
<1>4. PICK i \in call.processing : i > StaticTableSize
  BY DEF StaticTableTooSmall
<1>5. i \in Nat /\ i <= Needed
  BY <1>1, <1>4 DEF Numbers
<1> QED
  BY <1>1, <1>2, <1>3, <1>4, <1>5

\* One turn of context_propagate outside sort_propagate.
LEMMA TurnKeeps ==
    ASSUME SortsInv, Propagate, UNCHANGED sortVars
    PROVE  SortsInv'
<1>1. /\ phase \in {"context", "region"} /\ phase # "build" /\ ~StaticTableTooSmall
      /\ UNCHANGED <<input, visit, node2index, d_nodes, options, declared, sortsNamed>>
      /\ UNCHANGED <<d_unique_symbols, d_symbols, d_processing, d_symbol_num, error>>
      /\ pre_size' = IF options.cp THEN pre_size ELSE StaticTableSize
  BY DEF Propagate, graphVars, sortVars
<1>2. /\ WalkTypeOK /\ pre_size \in Nat /\ Len(d_nodes) \in Nat /\ error = "none" /\ TableFits
      /\ Needed \in Nat
  BY <1>1, VerticesFollow DEF SortsInv, WalkInv, Errors
<1>3. pre_size' \in Nat /\ pre_size <= pre_size'
  BY <1>1, <1>2, TableAfter
<1>4. Numbers' = Numbers /\ VisitedSorts' = VisitedSorts /\ Needed' = Needed
  BY <1>1, SameScript
<1>5. /\ phase' \in {phase, IF phase = "context" THEN "loop" ELSE "specific"}
      /\ phase' = phase => call'.processing = call.processing
  <2> DEFINE count == DistinctHashes(d_hash_table', call.symbols)
  <2>1. CASE count # call.count
    <3>1. call' = [call EXCEPT !.count = count] /\ phase' = phase
      BY <2>1 DEF Propagate
    <3> HIDE DEF count
    <3> QED
      BY <3>1
  <2>2. CASE count = call.count
    BY <2>2, <1>1 DEF Propagate
  <2> QED
    BY <2>1, <2>2
<1>6. phase = "context" => options.cp \/ Len(d_nodes) <= pre_size'
  BY <1>1, <1>2, LargeEnough DEF TableFits
<1>7. TableFits'
  <2>1. sortsNamed => options.cp \/ Needed <= pre_size'
    BY <1>2, <1>3 DEF TableFits
  <2>2. CASE phase = "context"
    BY <2>1, <2>2, <1>1, <1>2, <1>4, <1>5, <1>6 DEF TableFits
  <2>3. CASE phase = "region"
    BY <2>1, <2>3, <1>1, <1>2, <1>3, <1>4, <1>5 DEF TableFits
  <2> QED
    BY <2>2, <2>3, <1>1
<1>8. Errors'
  BY <1>1, <1>2, <1>5 DEF Errors
<1> QED
  BY <1>1, <1>3, <1>5, <1>7, <1>8, NothingSettled

\* The checked access of propagate throws.
LEMMA ThrowKeeps ==
    ASSUME SortsInv, (PropagateThrows /\ UNCHANGED sortVars) \/ SortTurnThrows
    PROVE  SortsInv'
<1>1. /\ phase \in {"context", "region", "sorts"} /\ phase # "build" /\ StaticTableTooSmall
      /\ UNCHANGED <<input, visit, node2index, d_nodes, options, declared, sortsNamed>>
      /\ UNCHANGED <<d_unique_symbols, d_symbols, d_processing, d_symbol_num>>
      /\ phase' = "error" /\ error' = "hash_table_at"
      /\ pre_size' \in {pre_size, StaticTableSize}
  BY DEF PropagateThrows, SortTurnThrows, graphVars, sortVars, refineVars
<1>2. /\ WalkTypeOK /\ pre_size \in Nat /\ Len(d_nodes) \in Nat /\ Needed \in Nat
      /\ TableFits
  BY VerticesFollow DEF SortsInv, WalkInv
<1>3. /\ StaticTableSize \in Nat /\ pre_size <= StaticTableSize
      /\ pre_size' \in Nat /\ pre_size <= pre_size'
  BY <1>1, <1>2, TableAfter
<1>4. StaticTableSize' = StaticTableSize
  BY <1>1 DEF StaticTableSize
<1>5. call.processing \subseteq Numbers \union Vertices
  BY <1>1, <1>2 DEF TableFits
<1>6. ~options.cp /\ StaticTableSize < Needed
  BY <1>1, <1>2, <1>5, TooSmall
<1>7. Needed' = Needed
  BY <1>1, SameScript
<1>8. Errors'
  BY <1>1, <1>4, <1>6, <1>7 DEF Errors
<1>9. TableFits'
  BY <1>1, <1>2, <1>3, <1>7 DEF TableFits
<1> QED
  BY <1>1, <1>3, <1>8, <1>9, NothingSettled

\* The steps of the refinement that neither propagate nor prune.
LEMMA RefinementKeeps ==
    ASSUME SortsInv, UNCHANGED sortVars, ~SortsPending,
           (\E s \in d_symbols : Region(s)) \/ SpecificDone \/ RefineInPlace \/ RefineDone
    PROVE  SortsInv'
<1>1. /\ phase \in {"specific", "loop"} /\ phase # "build"
      /\ UNCHANGED <<input, visit, node2index, d_nodes, options, declared, sortsNamed>>
      /\ UNCHANGED <<d_unique_symbols, d_symbols, d_processing, d_symbol_num, error, pre_size>>
      /\ phase' \in {"specific", "region", "loop", "rename"}
      /\ phase' = "region" => \E s \in d_symbols : Region(s)
      /\ phase' = "rename" => RefineDone
  BY DEF Region, SpecificDone, RefineInPlace, RefineDone, graphVars, sortVars
<1>2. /\ WalkTypeOK /\ pre_size \in Nat /\ error = "none" /\ TableFits /\ Settling
  BY <1>1 DEF SortsInv, WalkInv, Errors
<1>3. Numbers' = Numbers /\ VisitedSorts' = VisitedSorts /\ Needed' = Needed
  BY <1>1, SameScript
<1>4. phase' = "region" => call'.processing \subseteq Numbers
  <2>1. SUFFICES ASSUME NEW s \in d_symbols, Region(s), phase' = "region"
                 PROVE  call'.processing \subseteq Numbers
    BY <1>1
  <2> DEFINE processing == Component(s)
             symbols == {i \in processing : IsSymbol(i)}
             h == symbols_hash(symbols)
             table == WithRegion(processing, h)
             candidates == LowestTied(table, symbols)
  <2>2. processing \subseteq Numbers
    <3>1. s \in Numbers \ d_visited
      BY <2>1, <1>2 DEF Region, Settling, Partition, SymbolNumbers
    <3> QED
      BY <3>1, <1>2, RegionWithin
  <2>3. call' = [processing |-> processing, symbols |-> symbols, count |-> 0]
    BY <2>1 DEF Region
  <2> HIDE DEF processing, symbols
  <2> QED
    BY <2>2, <2>3
<1>5. phase' = "rename" /\ options.sbp => Range(d_unique_symbols) = SymbolNumbers
  BY <1>1, <1>2, AllSettled DEF RefineDone, Refined, Settling
<1>6. sortsNamed \/ VisitedSorts = {}
  BY <1>1, <1>2 DEF TableFits, SortsPending
<1>7. TableFits'
  BY <1>1, <1>2, <1>3, <1>4, <1>6 DEF TableFits
<1>8. Errors'
  BY <1>1, <1>2 DEF Errors
<1> QED
  BY <1>1, <1>2, <1>5, <1>7, <1>8, NothingSettled

\* An iteration with pruning.
LEMMA PruningKeeps ==
    ASSUME SortsInv, UNCHANGED sortVars, ~SortsPending, RefineWithPruning
    PROVE  SortsInv'
<1>1. /\ phase = "loop" /\ phase # "build" /\ phase' = "specific" /\ rebuild_graph /\ options.sbp
      /\ UNCHANGED <<input, visit, node2index, d_nodes, options, declared, sortsNamed>>
      /\ UNCHANGED <<d_symbol_num, error, pre_size>>
  BY DEF RefineWithPruning, sortVars
<1>2. /\ WalkTypeOK /\ pre_size \in Nat /\ error = "none" /\ TableFits /\ Settling
      /\ WalkInv
  BY <1>1 DEF SortsInv, WalkInv, Errors
<1>3. Partition' /\ SymbolNumbers' = SymbolNumbers /\ d_processing' \subseteq d_processing
  BY <1>1, <1>2, RebuildPartitions DEF Settling
<1>4. Numbers' = Numbers /\ VisitedSorts' = VisitedSorts /\ Needed' = Needed
  BY <1>1, SameScript
<1>5. Settling'
  BY <1>1, <1>2, <1>3, <1>4 DEF Settling
<1>6. TableFits'
  BY <1>1, <1>2, <1>4 DEF TableFits, SortsPending
<1>7. Errors'
  BY <1>1, <1>2 DEF Errors
<1>8. WalkInv'
  BY <1>1, <1>2, WalkInductive DEF walkVars
<1> QED
  BY <1>1, <1>2, <1>5, <1>6, <1>7, <1>8 DEF SortsInv

\* Renaming. Without pruning nothing is settled: an application finds no name.
LEMMA RenamingKeeps ==
    ASSUME SortsInv, UNCHANGED sortVars, Rename \/ RenameThrows
    PROVE  SortsInv'
<1>1. /\ phase = "rename" /\ phase # "build" /\ phase' \in {"done", "error"}
      /\ UNCHANGED <<input, visit, node2index, d_nodes, options, declared, sortsNamed>>
      /\ UNCHANGED <<d_unique_symbols, d_symbols, d_processing, d_symbol_num, pre_size>>
  BY DEF Rename, RenameThrows, graphVars, sortVars, refineVars
<1>2. /\ WalkTypeOK /\ pre_size \in Nat /\ error = "none" /\ TableFits /\ Settling
      /\ options.sbp => Range(d_unique_symbols) = SymbolNumbers
      /\ ~options.sbp => Range(d_unique_symbols) = {}
  BY <1>1 DEF SortsInv, WalkInv, Errors, Settling, Range
<1>3. VisitedSorts' = VisitedSorts /\ Needed' = Needed /\ AppliedFunctions' = AppliedFunctions
  BY <1>1, SameScript
<1>4. TableFits'
  BY <1>1, <1>2, <1>3 DEF TableFits
<1>5. Errors'
  <2>1. CASE Rename
    BY <2>1, <1>1, <1>2, <1>3 DEF Errors, Rename, Named
  <2>2. CASE RenameThrows
    <3>1. ~options.sbp /\ AppliedFunctions # {}
      BY <2>2, <1>2, FunctionsAreSymbols DEF RenameThrows, Named
    <3> QED
      BY <3>1, <2>2, <1>1, <1>3 DEF Errors, RenameThrows
  <2> QED
    BY <2>1, <2>2
<1> QED
  BY <1>1, <1>2, <1>4, <1>5, NothingSettled

\* sort_propagate: the vertices enter the table, and the names are given when all are in it.
LEMMA SortsKeep ==
    ASSUME SortsInv, SortPropagate \/ SortTurn
    PROVE  SortsInv'
<1>1. /\ phase \in {"loop", "sorts"} /\ phase # "build"
      /\ UNCHANGED <<input, visit, node2index, d_nodes, options, declared>>
      /\ UNCHANGED <<d_unique_symbols, d_symbols, d_processing, d_symbol_num, error>>
  BY DEF SortPropagate, SortTurn, SortsPending, sortVars
<1>2. /\ WalkTypeOK /\ pre_size \in Nat /\ Len(d_nodes) \in Nat /\ Needed \in Nat
      /\ error = "none" /\ TableFits
  BY <1>1, VerticesFollow DEF SortsInv, WalkInv, Errors
<1>3. Numbers' = Numbers /\ VisitedSorts' = VisitedSorts /\ Needed' = Needed /\ Vertices' = Vertices
  BY <1>1, SameScript
<1>4. CASE SortPropagate
  <2>1. /\ phase = "loop" /\ phase' = "sorts" /\ pre_size' = pre_size /\ sortsNamed' = sortsNamed
        /\ call'.processing = Numbers \union Vertices
    BY <1>4 DEF SortPropagate, SortsPending, sortVars
  <2>2. TableFits'
    BY <2>1, <1>1, <1>2, <1>3 DEF TableFits
  <2>3. Errors'
    BY <2>1, <1>1, <1>2 DEF Errors
  <2> QED
    BY <2>1, <2>2, <2>3, <1>1, <1>2, NothingSettled
<1>5. CASE SortTurn
  <2>1. /\ phase = "sorts" /\ ~StaticTableTooSmall
        /\ pre_size' = IF options.cp THEN pre_size ELSE StaticTableSize
    BY <1>5 DEF SortTurn
  <2>2. pre_size' \in Nat /\ pre_size <= pre_size'
    BY <2>1, <1>2, TableAfter
  <2>3. options.cp \/ Needed <= pre_size'
    BY <2>1, <1>2, LargeEnough DEF TableFits
  <2>4. \/ phase' = "sorts" /\ sortsNamed' = sortsNamed /\ call'.processing = call.processing
        \/ phase' = "loop"
    <3> DEFINE table == propagate(call.processing)
               count == DistinctHashes(table, call.symbols)
               tied == LowestTied(table, Vertices)
    <3>1. \/ call' = [call EXCEPT !.count = count] /\ phase' = phase /\ sortsNamed' = sortsNamed
          \/ call' = [call EXCEPT !.count = 0] /\ phase' = phase /\ sortsNamed' = sortsNamed
          \/ phase' = "loop"
      BY <1>5 DEF SortTurn, sortVars
    <3> HIDE DEF count
    <3>2. [call EXCEPT !.count = count].processing = call.processing
      OBVIOUS
    <3>3. [call EXCEPT !.count = 0].processing = call.processing
      OBVIOUS
    <3> QED
      BY <3>1, <3>2, <3>3, <2>1
  <2>5. TableFits'
    BY <2>1, <2>2, <2>3, <2>4, <1>1, <1>2, <1>3 DEF TableFits
  <2>6. Errors'
    BY <2>4, <1>1, <1>2 DEF Errors
  <2> QED
    BY <2>2, <2>4, <2>5, <2>6, <1>1, NothingSettled
<1> QED
  BY <1>4, <1>5

\* Nothing happens: the invariant stays.
LEMMA SortsStutter ==
    ASSUME SortsInv, UNCHANGED allVars
    PROVE  SortsInv'
<1>1. /\ UNCHANGED <<input, visit, node2index, d_nodes, options, declared, sortsNamed>>
      /\ UNCHANGED <<d_unique_symbols, d_symbols, d_processing, d_symbol_num>>
      /\ UNCHANGED <<error, pre_size, phase, call>>
  BY DEF allVars, vars, graphVars, kernelVars, sortVars
<1>2. /\ Numbers' = Numbers /\ VisitedSorts' = VisitedSorts /\ Needed' = Needed
      /\ Vertices' = Vertices /\ AppliedFunctions' = AppliedFunctions
  BY <1>1, SameScript
<1>3. TableFits'
  BY <1>1, <1>2 DEF SortsInv, TableFits
<1>4. Errors'
  <2>1. StaticTableSize' = StaticTableSize
    BY <1>1 DEF StaticTableSize
  <2> QED
    BY <2>1, <1>1, <1>2 DEF SortsInv, Errors
<1>5. CASE phase = "build"
  <2>1. WalkInv'
    BY <1>1, WalkInductive DEF SortsInv, walkVars
  <2> QED
    BY <2>1, <1>1, <1>3, <1>4, <1>5 DEF SortsInv
<1>6. CASE phase # "build"
  BY <1>1, <1>3, <1>4, <1>6, NothingSettled DEF SortsInv, Settling
<1> QED
  BY <1>5, <1>6

\* Every step, of sorts too, keeps the invariant.
LEMMA SortsInductive ==
    ASSUME SortsInv, [SortsNext]_allVars
    PROVE  SortsInv'
<1>1. CASE OtherStep
  <2>1. Step /\ ~SortsPending /\ UNCHANGED sortVars
    BY <1>1 DEF OtherStep
  <2>2. CASE Build \/ StartApply
    BY <2>1, <2>2, ConstructorKeeps
  <2>3. CASE Propagate
    BY <2>1, <2>3, TurnKeeps
  <2>4. CASE PropagateThrows
    BY <2>1, <2>4, ThrowKeeps
  <2>5. CASE (\E s \in d_symbols : Region(s)) \/ SpecificDone \/ RefineInPlace \/ RefineDone
    BY <2>1, <2>5, RefinementKeeps
  <2>6. CASE RefineWithPruning
    BY <2>1, <2>6, PruningKeeps
  <2>7. CASE Rename \/ RenameThrows
    BY <2>1, <2>7, RenamingKeeps
  <2> QED
    BY <2>1, <2>2, <2>3, <2>4, <2>5, <2>6, <2>7 DEF Step
<1>2. CASE SortPropagate \/ SortTurn
  BY <1>2, SortsKeep
<1>3. CASE SortTurnThrows
  BY <1>3, ThrowKeeps
<1>4. CASE UNCHANGED allVars
  BY <1>4, SortsStutter
<1>5. Stopped /\ UNCHANGED sortVars => UNCHANGED allVars
  BY DEF Stopped, allVars
<1> QED
  BY <1>1, <1>2, <1>3, <1>4, <1>5 DEF SortsNext, SortsStep

-----------------------------------------------------------------------------
(***************************************************************************)
(* For every set of scripts and flags, and whatever size an earlier kernel *)
(* of the process gave the static table: apply throws for the reasons      *)
(* ThrowsExactlyWhen gives and for no other, and what gets through had none*)
(* of them (kernel.cpp:159, 161, 438 and the function_names_map accesses). *)
(***************************************************************************)
THEOREM ThrowsForThoseReasons ==
    LaterKernel /\ pre_size \in Nat /\ [][SortsNext]_allVars => []ThrowsExactlyWhen
<1>1. LaterKernel /\ pre_size \in Nat => SortsInv
  BY SortsInitially
<1>2. SortsInv /\ [SortsNext]_allVars => SortsInv'
  BY SortsInductive
<1>3. SortsInv => ThrowsExactlyWhen
  <2> SUFFICES ASSUME SortsInv
               PROVE  ThrowsExactlyWhen
    OBVIOUS
  <2>1. phase = "done" => options.cp \/ pre_size >= Needed
    <3>1. ASSUME phase = "done", ~options.cp
          PROVE  Needed <= pre_size
      <4>1. Len(d_nodes) <= pre_size /\ (sortsNamed \/ VisitedSorts = {})
        BY <3>1 DEF SortsInv, TableFits
      <4>2. CASE sortsNamed
        BY <4>2, <3>1 DEF SortsInv, TableFits
      <4>3. CASE VisitedSorts = {}
        <5>1. Cardinality(VisitedSorts) = 0
          BY <4>3, FS_EmptySet
        <5>2. Len(d_nodes) \in Nat
          BY DEF SortsInv, WalkInv, WalkTypeOK
        <5> QED
          BY <5>1, <5>2, <4>1 DEF Needed
      <4> QED
        BY <4>1, <4>2, <4>3
    <3>2. Needed \in Nat /\ pre_size \in Nat
      BY VerticesFollow DEF SortsInv, WalkInv
    <3> QED
      BY <3>1, <3>2
  <2> QED
    BY <2>1 DEF SortsInv, Errors, ThrowsExactlyWhen, Needed
<1> QED
  BY <1>1, <1>2, <1>3, PTL

(***************************************************************************)
(* Declared sorts do not disturb the bookkeeping of pruning: the vertices  *)
(* that sort_propagate adds are gone when the refinement starts, and no    *)
(* symbol is lost or settled twice, in a later kernel too.                 *)
(***************************************************************************)
THEOREM SymbolsStayPartitionedWithSorts ==
    LaterKernel /\ pre_size \in Nat /\ [][SortsNext]_allVars => []SymbolsPartitioned
<1>1. LaterKernel /\ pre_size \in Nat => SortsInv
  BY SortsInitially
<1>2. SortsInv /\ [SortsNext]_allVars => SortsInv'
  BY SortsInductive
<1>3. SortsInv => SymbolsPartitioned
  BY DEF SortsInv, Settling, Partition, SymbolsPartitioned, Refining
<1> QED
  BY <1>1, <1>2, <1>3, PTL

-----------------------------------------------------------------------------
\* The places of t are those of s in the order p.
Reorders(p, s, t) ==
    /\ p \in Bijection(DOMAIN s, DOMAIN t)
    /\ \A i \in DOMAIN s : t[p[i]] = s[i]

SameBag(s, t) == \E p : Reorders(p, s, t)

\* Sequences that are permutations of each other have such an order.
LEMMA PermutedReorders ==
    ASSUME NEW T, NEW s \in Seq(T), NEW t \in Seq(T), Permuted(s, t)
    PROVE  SameBag(s, t)
<1> DEFINE At(u, x) == {k \in DOMAIN u : u[k] \in {x}}
           X == Range(s) \union Range(t)
           b == [x \in X |-> CHOOSE c : c \in Bijection(At(s, x), At(t, x))]
           p == [k \in DOMAIN s |-> b[s[k]][k]]
<1>1. /\ Len(s) \in Nat /\ DOMAIN s = 1..Len(s) /\ DOMAIN t = 1..Len(s)
      /\ \A x \in X : Cardinality(At(s, x)) = Cardinality(At(t, x))
  <2>1. Len(s) = Len(t) /\ \A x \in X : Times(s, {x}) = Times(t, {x})
    BY DEF Permuted
  <2>2. \A x : Times(s, {x}) = Cardinality(At(s, x)) /\ Times(t, {x}) = Cardinality(At(t, x))
    BY DEF Times
  <2>3. Len(s) \in Nat /\ DOMAIN s = 1..Len(s) /\ DOMAIN t = 1..Len(t)
    OBVIOUS
  <2> HIDE DEF At, X
  <2> QED  BY <2>1, <2>2, <2>3
<1>2. ASSUME NEW x \in X
      PROVE  b[x] \in Bijection(At(s, x), At(t, x))
  <2>1. IsFiniteSet(1..Len(s))
    BY <1>1, FS_Interval
  <2>2. IsFiniteSet(At(s, x)) /\ IsFiniteSet(At(t, x))
    <3>1. At(s, x) \in SUBSET (1..Len(s)) /\ At(t, x) \in SUBSET (1..Len(s))
      BY <1>1
    <3> QED  BY <2>1, <3>1, FS_Subset
  <2>3. ExistsBijection(At(s, x), At(t, x))
    <3> HIDE DEF At
    <3> QED  BY <1>1, <2>2, FS_SameCardinalityBij
  <2>4. PICK c : c \in Bijection(At(s, x), At(t, x))
    BY <2>3 DEF ExistsBijection
  <2> QED  BY <2>4
<1>3. ASSUME NEW k \in DOMAIN s
      PROVE  /\ s[k] \in X /\ k \in At(s, s[k]) /\ p[k] = b[s[k]][k]
             /\ p[k] \in DOMAIN t /\ t[p[k]] = s[k]
  <2>1. s[k] \in X /\ k \in At(s, s[k])
    BY DEF Range
  <2>2. b[s[k]] \in [At(s, s[k]) -> At(t, s[k])]
    <3> HIDE DEF b, At, X
    <3> QED  BY <1>2, <2>1, Fun_BijectionProperties
  <2>3. b[s[k]][k] \in At(t, s[k])
    <3> HIDE DEF b, At, X
    <3> QED  BY <2>1, <2>2
  <2>4. p[k] = b[s[k]][k]
    OBVIOUS
  <2> HIDE DEF b, p, X
  <2> QED  BY <2>1, <2>3, <2>4
<1>4. p \in [DOMAIN s -> DOMAIN t]
  BY <1>3
<1>5. \A i, j \in DOMAIN s : p[i] = p[j] => i = j
  <2> SUFFICES ASSUME NEW i \in DOMAIN s, NEW j \in DOMAIN s, p[i] = p[j]  PROVE i = j
    BY Zenon
  <2>1. s[i] = s[j] /\ b[s[i]][i] = b[s[i]][j] /\ i \in At(s, s[i]) /\ j \in At(s, s[i])
    <3> HIDE DEF b, p, X, At
    <3> QED  BY <1>3
  <2>2. \A c, d \in At(s, s[i]) : b[s[i]][c] = b[s[i]][d] => c = d
    <3> HIDE DEF b, p, X, At
    <3>1. s[i] \in X
      BY <1>3
    <3> QED  BY <1>2, <3>1, Fun_BijectionProperties
  <2> HIDE DEF b, p, X, At
  <2> QED  BY <2>1, <2>2
<1>6. \A l \in DOMAIN t : \E k \in DOMAIN s : p[k] = l
  <2> TAKE l \in DOMAIN t
  <2>1. t[l] \in X /\ l \in At(t, t[l])
    BY DEF Range
  <2>2. PICK k \in At(s, t[l]) : b[t[l]][k] = l
    <3> HIDE DEF b, p, X, At
    <3> QED  BY <1>2, <2>1, Fun_BijectionProperties, Fun_SurjectionProperties
  <2>3. k \in DOMAIN s /\ s[k] = t[l]
    BY <2>2
  <2> HIDE DEF b, p, X, At
  <2> QED  BY <1>3, <2>2, <2>3
<1>7. Reorders(p, s, t)
  <2> HIDE DEF p
  <2> QED  BY <1>3, <1>4, <1>5, <1>6, Fun_IsBij, Fun_IsSurj DEF Reorders
<1> QED  BY <1>7 DEF SameBag

\* The same bag has the same length, and as many elements in any set.
LEMMA SameBagCounts ==
    ASSUME NEW T, NEW s \in Seq(T), NEW t \in Seq(T), SameBag(s, t)
    PROVE  /\ Len(s) = Len(t)
           /\ \A S : Times(s, S) = Times(t, S)
           /\ {s[i] : i \in DOMAIN s} = {t[i] : i \in DOMAIN t}
<1>1. PICK p : p \in Bijection(DOMAIN s, DOMAIN t) /\ \A i \in DOMAIN s : t[p[i]] = s[i]
  BY DEF SameBag, Reorders
<1>2. /\ p \in [DOMAIN s -> DOMAIN t]
      /\ \A a, b \in DOMAIN s : p[a] = p[b] => a = b
      /\ \A l \in DOMAIN t : \E k \in DOMAIN s : p[k] = l
  BY <1>1, Fun_BijectionProperties, Fun_SurjectionProperties
<1>3. IsFiniteSet(DOMAIN s) /\ Cardinality(DOMAIN s) = Len(s) /\ Cardinality(DOMAIN t) = Len(t)
  <2>1. \A n \in Nat : IsFiniteSet(1..n) /\ Cardinality(1..n) = n
    BY FS_Interval
  <2> QED  BY <2>1
<1>4. Len(s) = Len(t)
  <2>1. ExistsBijection(DOMAIN s, DOMAIN t)
    BY <1>1 DEF ExistsBijection
  <2> QED  BY <1>3, <2>1, FS_Bijection
<1>5. ASSUME NEW S
      PROVE  Times(s, S) = Times(t, S)
  <2> DEFINE A == {k \in DOMAIN s : s[k] \in S}
             B == {k \in DOMAIN t : t[k] \in S}
             q == [k \in A |-> p[k]]
  <2>1. q \in [A -> B]
    BY <1>1, <1>2
  <2>2. \A a, b \in A : q[a] = q[b] => a = b
    BY <1>2
  <2>3. \A l \in B : \E k \in A : q[k] = l
    BY <1>1, <1>2
  <2>4. q \in Bijection(A, B)
    <3> HIDE DEF A, B, q
    <3> QED  BY <2>1, <2>2, <2>3, Fun_IsBij, Fun_IsSurj
  <2>5. IsFiniteSet(A)
    <3>1. A \in SUBSET (DOMAIN s)
      OBVIOUS
    <3> HIDE DEF A
    <3> QED  BY <1>3, <3>1, FS_Subset
  <2>6. Cardinality(A) = Cardinality(B)
    <3> HIDE DEF A, B, q
    <3> QED  BY <2>4, <2>5, FS_Bijection DEF ExistsBijection
  <2> QED  BY <2>6 DEF Times
<1>6. {s[i] : i \in DOMAIN s} = {t[i] : i \in DOMAIN t}
  BY <1>1, <1>2
<1> QED  BY <1>4, <1>5, <1>6

\* Of a bag of numbers there is one order.
LEMMA InOrderOf ==
    ASSUME NEW s \in Seq(Nat), NEW t \in Seq(Nat), SameBag(s, t)
    PROVE  InOrder(s) = InOrder(t)
<1> DEFINE V == {s[i] : i \in DOMAIN s}
           UpTo(u, v) == Cardinality({i \in DOMAIN u : u[i] <= v})
<1>1. /\ DOMAIN s = DOMAIN t /\ V = {t[i] : i \in DOMAIN t}
      /\ \A S : Times(s, S) = Times(t, S)
  <2>1. /\ Len(s) = Len(t)
        /\ \A S : Times(s, S) = Times(t, S)
        /\ V = {t[i] : i \in DOMAIN t}
    BY SameBagCounts
  <2>2. DOMAIN s = 1..Len(s) /\ DOMAIN t = 1..Len(t)
    OBVIOUS
  <2> QED  BY <2>1, <2>2
<1>2. ASSUME NEW v \in V
      PROVE  UpTo(s, v) = UpTo(t, v)
  <2>1. /\ {i \in DOMAIN s : s[i] <= v} = {i \in DOMAIN s : s[i] \in 0..v}
        /\ {i \in DOMAIN t : t[i] <= v} = {i \in DOMAIN t : t[i] \in 0..v}
    OBVIOUS
  <2> QED  BY <1>1, <2>1 DEF Times
<1>3. \A k : {v \in V : UpTo(s, v) >= k} = {v \in V : UpTo(t, v) >= k}
  BY <1>2
<1>4. /\ InOrder(s) = [k \in DOMAIN s |-> Min({v \in V : UpTo(s, v) >= k})]
      /\ InOrder(t) = [k \in DOMAIN s |-> Min({v \in V : UpTo(t, v) >= k})]
  BY <1>1 DEF InOrder
<1> HIDE DEF V, UpTo
<1> QED  BY <1>3, <1>4

(***************************************************************************)
(* The graph of a kernel as its constructor leaves it, as a record: the    *)
(* formula f, its nodes by number, and the edges in both directions.       *)
(***************************************************************************)
NumbersOf(G) == 1..Len(G.nodes)

PlaceOf(f, n, k) ==
    LET child == Successors(f, n)[k] IN
    IF k > Len(f.operands[n]) THEN k - 1
    ELSE IF child \in f.leading \/ n \in f.commutative THEN 0
    ELSE k - 1

\* A set of nodes the walk does not leave, and what every such set has.
ClosedNodes(f, S) ==
    Range(f.assertions) \subseteq S /\ \A n \in S : Range(Successors(f, n)) \subseteq S

FormulaNodes(f) == {n \in DagNode : \A S \in SUBSET DagNode : ClosedNodes(f, S) => n \in S}

\* The places where node c is used, as <<user, which of its operands>>.
UsesIn(G, c) ==
    {u \in NumbersOf(G) \X Nat : u[2] \in DOMAIN G.graph[u[1]] /\ G.graph[u[1]][u[2]] = c}

\* The vector of c in the reversed graph lists its uses.
ListsUses(G, c) ==
    \E b \in Bijection(1..Len(G.reversed[c]), UsesIn(G, c)) :
        \A j \in 1..Len(G.reversed[c]) :
            G.reversed[c][j] = <<b[j][1], PlaceOf(G.f, G.nodes[b[j][1]], b[j][2])>>

\* The operands of every node, and its uses.
RowsRight(G) ==
    /\ \A i \in NumbersOf(G) :
          /\ G.graph[i] \in Seq(NumbersOf(G))
          /\ Len(G.graph[i]) = Len(Successors(G.f, G.nodes[i]))
          /\ \A k \in DOMAIN G.graph[i] : G.nodes[G.graph[i][k]] = Successors(G.f, G.nodes[i])[k]
    /\ \A c \in NumbersOf(G) : G.reversed[c] \in Seq(NumbersOf(G) \X Nat) /\ ListsUses(G, c)

IsGraph(G) ==
    /\ G.f \in Inputs
    /\ G.nodes \in Seq(DagNode)
    /\ \A i, j \in NumbersOf(G) : G.nodes[i] = G.nodes[j] => i = j
    /\ {G.nodes[i] : i \in NumbersOf(G)} = FormulaNodes(G.f)
    /\ RowsRight(G)

\* What the assumption on the inputs says of one, presented in any way.
LEMMA InputTyped ==
    ASSUME NEW f \in Inputs
    PROVE  /\ f \in InputType
           /\ f.assertions \in Seq(DagNode)
           /\ \A n \in DagNode :
                 /\ f.operands[n] \in Seq(DagNode)
                 /\ Successors(f, n) \in Seq(DagNode)
                 /\ Len(Successors(f, n)) >= Len(f.operands[n])
                 /\ \A k \in DOMAIN f.operands[n] : Successors(f, n)[k] = f.operands[n][k]
<1>1. f \in InputType /\ \A n \in DagNode : f.uf[n] # NoNode => f.uf[n] \in f.symbol
  BY InputsAssumption
<1>2. f.assertions \in Seq(DagNode) /\ f.operands \in [DagNode -> Seq(DagNode)]
      /\ f.symbol \in SUBSET DagNode
  BY <1>1 DEF InputType
<1>3. ASSUME NEW n \in DagNode
      PROVE  /\ f.operands[n] \in Seq(DagNode)
             /\ Successors(f, n) \in Seq(DagNode)
             /\ Len(Successors(f, n)) >= Len(f.operands[n])
             /\ \A k \in DOMAIN f.operands[n] : Successors(f, n)[k] = f.operands[n][k]
  <2>1. PICK s \in Seq(DagNode) : s = f.operands[n]
    BY <1>2
  <2>2. CASE f.uf[n] = NoNode
    BY <2>1, <2>2 DEF Successors
  <2>3. CASE f.uf[n] # NoNode
    <3>1. f.uf[n] \in DagNode
      BY <1>1, <1>2, <2>3
    <3>2. PICK d \in DagNode : d = f.uf[n]
      BY <3>1
    <3>3. Append(s, d) \in Seq(DagNode) /\ Len(Append(s, d)) >= Len(s)
          /\ \A k \in DOMAIN s : Append(s, d)[k] = s[k]
      OBVIOUS
    <3> QED  BY <2>1, <2>3, <3>2, <3>3 DEF Successors
  <2> QED  BY <2>2, <2>3
<1> QED  BY <1>1, <1>2, <1>3

\* What presentations of one formula agree on.
LEMMA SameParts ==
    ASSUME NEW f \in Inputs, NEW g \in Inputs, SameFormula(f, g)
    PROVE  /\ f.uf = g.uf /\ f.class = g.class /\ f.commutative = g.commutative
           /\ f.leading = g.leading /\ f.symbol = g.symbol /\ f.height = g.height
           /\ SameBag(f.assertions, g.assertions)
           /\ \A n \in DagNode :
                 /\ SameBag(f.operands[n], g.operands[n])
                 /\ n \notin f.commutative => f.operands[n] = g.operands[n]
<1>1. f \in InputType /\ g \in InputType
  BY InputTyped
<1>2. [f EXCEPT !.assertions = << >>, !.operands = << >>]
        = [g EXCEPT !.assertions = << >>, !.operands = << >>]
  BY DEF SameFormula
<1> DEFINE F == [f EXCEPT !.assertions = << >>, !.operands = << >>]
           H == [g EXCEPT !.assertions = << >>, !.operands = << >>]
<1>3. /\ F.uf = f.uf /\ F.class = f.class /\ F.commutative = f.commutative
      /\ F.leading = f.leading /\ F.symbol = f.symbol /\ F.height = f.height
  BY <1>1 DEF InputType
<1>4. /\ H.uf = g.uf /\ H.class = g.class /\ H.commutative = g.commutative
      /\ H.leading = g.leading /\ H.symbol = g.symbol /\ H.height = g.height
  BY <1>1 DEF InputType
<1>5. /\ f.uf = g.uf /\ f.class = g.class /\ f.commutative = g.commutative
      /\ f.leading = g.leading /\ f.symbol = g.symbol /\ f.height = g.height
  <2>1. F = H
    BY <1>2
  <2> HIDE DEF F, H
  <2> QED  BY <1>3, <1>4, <2>1
<1>6. SameBag(f.assertions, g.assertions)
  <2>1. f.assertions \in Seq(DagNode) /\ g.assertions \in Seq(DagNode)
    BY InputTyped
  <2>2. Permuted(f.assertions, g.assertions)
    BY DEF SameFormula
  <2> QED  BY <2>1, <2>2, PermutedReorders
<1>7. ASSUME NEW n \in DagNode
      PROVE  /\ SameBag(f.operands[n], g.operands[n])
             /\ n \notin f.commutative => f.operands[n] = g.operands[n]
  <2>1. f.operands[n] \in Seq(DagNode) /\ g.operands[n] \in Seq(DagNode)
    BY InputTyped
  <2>2. IF n \in f.commutative THEN Permuted(f.operands[n], g.operands[n])
                               ELSE f.operands[n] = g.operands[n]
    BY DEF SameFormula
  <2>3. CASE n \in f.commutative
    BY <2>1, <2>2, <2>3, PermutedReorders
  <2>4. CASE n \notin f.commutative
    <3>1. f.operands[n] = g.operands[n]
      BY <2>2, <2>4
    <3>2. SameBag(f.operands[n], f.operands[n])
      <4>1. Permuted(f.operands[n], f.operands[n])
        BY DEF Permuted
      <4> QED  BY <2>1, <4>1, PermutedReorders
    <3> QED  BY <3>1, <3>2
  <2> QED  BY <2>3, <2>4
<1> QED  BY <1>5, <1>6, <1>7

\* The successors of a node in two presentations: the same ones at the same places, but for
\* the operands of a commutative node, whose place does not matter.
SameSuccessors(f, g, n, p) ==
    /\ Reorders(p, Successors(f, n), Successors(g, n))
    /\ \A k \in DOMAIN Successors(f, n) : PlaceOf(g, n, p[k]) = PlaceOf(f, n, k)

\* Every node has the same successors in two presentations.
LEMMA SuccessorsAlike ==
    ASSUME NEW f \in Inputs, NEW g \in Inputs, SameFormula(f, g), NEW n \in DagNode
    PROVE  /\ \E p : SameSuccessors(f, g, n, p)
           /\ n \notin f.commutative => Successors(f, n) = Successors(g, n)
<1> DEFINE s == f.operands[n]
           t == g.operands[n]
           x == Successors(f, n)
           y == Successors(g, n)
<1>1. /\ s \in Seq(DagNode) /\ t \in Seq(DagNode) /\ x \in Seq(DagNode) /\ y \in Seq(DagNode)
      /\ x = (IF f.uf[n] = NoNode THEN s ELSE Append(s, f.uf[n]))
      /\ y = (IF f.uf[n] = NoNode THEN t ELSE Append(t, f.uf[n]))
      /\ f.leading = g.leading /\ f.commutative = g.commutative
  BY SameParts, InputTyped DEF Successors
<1>2. n \notin f.commutative => s = t
  BY SameParts
<1>3. PICK p : Reorders(p, s, t)
  BY SameParts DEF SameBag
<1>4. /\ p \in [DOMAIN s -> DOMAIN t]
      /\ \A a, b \in DOMAIN s : p[a] = p[b] => a = b
      /\ \A l \in DOMAIN t : \E k \in DOMAIN s : p[k] = l
      /\ \A k \in DOMAIN s : t[p[k]] = s[k]
  BY <1>3, Fun_BijectionProperties, Fun_SurjectionProperties DEF Reorders
<1>5. Len(s) = Len(t)
  BY <1>1, SameParts, SameBagCounts
<1>6. CASE n \notin f.commutative
  <2>1. x = y
    BY <1>1, <1>2, <1>6
  <2> DEFINE id == [k \in DOMAIN x |-> k]
  <2>2. id \in Bijection(DOMAIN x, DOMAIN y)
    BY <2>1, Fun_IsBij
  <2>3. Reorders(id, x, y)
    BY <2>1, <2>2 DEF Reorders
  <2>4. \A k \in DOMAIN x : PlaceOf(g, n, id[k]) = PlaceOf(f, n, k)
    BY <1>1, <1>2, <1>6, <2>1 DEF PlaceOf
  <2> HIDE DEF id
  <2> QED  BY <2>1, <2>3, <2>4 DEF SameSuccessors
<1>7. CASE n \in f.commutative /\ f.uf[n] = NoNode
  <2>1. x = s /\ y = t
    BY <1>1, <1>7
  <2>2. \A k \in DOMAIN x : k <= Len(s) /\ p[k] <= Len(t) /\ k \in Nat /\ p[k] \in Nat
    BY <1>1, <1>4, <2>1
  <2>3. \A k \in DOMAIN x : PlaceOf(g, n, p[k]) = PlaceOf(f, n, k)
    BY <1>1, <1>4, <1>7, <2>1, <2>2 DEF PlaceOf
  <2> HIDE DEF s, t, x, y
  <2> QED  BY <1>3, <1>7, <2>1, <2>3 DEF SameSuccessors, x, y
<1>8. CASE n \in f.commutative /\ f.uf[n] # NoNode
  <2> DEFINE m == Len(s) + 1
             q == [k \in 1..m |-> IF k = m THEN m ELSE p[k]]
  <2>1. /\ Len(s) \in Nat /\ DOMAIN s = 1..Len(s) /\ DOMAIN t = 1..Len(s)
        /\ x = Append(s, f.uf[n]) /\ y = Append(t, f.uf[n])
    BY <1>1, <1>5, <1>8
  <2>2. /\ DOMAIN x = 1..m /\ DOMAIN y = 1..m
        /\ x[m] = f.uf[n] /\ y[m] = f.uf[n]
        /\ \A k \in 1..Len(s) : x[k] = s[k] /\ y[k] = t[k]
    <3> HIDE DEF s, t, x, y
    <3> QED  BY <1>1, <1>5, <2>1
  <2>3. /\ q[m] = m /\ \A k \in 1..Len(s) : q[k] = p[k] /\ q[k] \in 1..Len(s)
        /\ \A k \in 1..m : k = m \/ k \in 1..Len(s)
    <3> HIDE DEF s, t, x, y
    <3> QED  BY <1>4, <2>1
  <2> HIDE DEF s, t, x, y, q
  <2>4. q \in Bijection(DOMAIN x, DOMAIN y)
    <3>1. q \in [1..m -> 1..m]
      <4>1. m \in 1..m /\ 1..Len(s) \subseteq 1..m
        BY <2>1
      <4>2. \A k \in 1..m : q[k] \in 1..m
        BY <2>3, <4>1
      <4> QED  BY <4>2 DEF q
    <3>2. \A a, b \in 1..m : q[a] = q[b] => a = b
      <4> TAKE a, b \in 1..m
      <4> HAVE q[a] = q[b]
      <4>1. m \notin 1..Len(s)
        BY <2>1
      <4> HIDE DEF m
      <4>2. CASE a = m \/ b = m
        BY <2>3, <4>1, <4>2
      <4>3. CASE a \in 1..Len(s) /\ b \in 1..Len(s)
        BY <1>4, <2>1, <2>3, <4>3
      <4> QED  BY <2>3, <4>2, <4>3
    <3>3. \A l \in 1..m : \E k \in 1..m : q[k] = l
      <4> TAKE l \in 1..m
      <4>1. CASE l = m
        BY <4>1, <2>3
      <4>2. CASE l # m
        <5>1. PICK k \in 1..Len(s) : p[k] = l
          BY <1>4, <2>1, <2>3, <4>2
        <5> QED  BY <2>1, <2>3, <5>1
      <4> QED  BY <4>1, <4>2
    <3> QED  BY <2>2, <3>1, <3>2, <3>3, Fun_IsBij, Fun_IsSurj
  <2>5. \A k \in DOMAIN x : y[q[k]] = x[k]
    BY <1>4, <2>1, <2>2, <2>3
  <2>6. \A k \in DOMAIN x : PlaceOf(g, n, q[k]) = PlaceOf(f, n, k)
    <3> TAKE k \in DOMAIN x
    <3>1. CASE k = m
      <4>1. q[k] = m /\ m > Len(f.operands[n]) /\ m > Len(g.operands[n])
        BY <1>5, <2>1, <2>3, <3>1 DEF s, t
      <4> QED  BY <3>1, <4>1 DEF PlaceOf
    <3>2. CASE k # m
      <4>1. k \in 1..Len(s) /\ q[k] \in 1..Len(s)
        BY <2>2, <2>3, <3>2
      <4>2. ~(k > Len(f.operands[n])) /\ ~(q[k] > Len(g.operands[n]))
        BY <1>5, <2>1, <4>1 DEF s, t
      <4> QED  BY <1>1, <1>8, <4>2 DEF PlaceOf
    <3> QED  BY <3>1, <3>2
  <2> QED  BY <1>8, <2>4, <2>5, <2>6 DEF SameSuccessors, Reorders, x, y
<1> QED  BY <1>6, <1>7, <1>8

\* The same nodes are visited.
LEMMA SameNodes ==
    ASSUME NEW f \in Inputs, NEW g \in Inputs, SameFormula(f, g)
    PROVE  FormulaNodes(f) = FormulaNodes(g)
<1>1. Range(f.assertions) = Range(g.assertions)
  <2>1. f.assertions \in Seq(DagNode) /\ g.assertions \in Seq(DagNode)
    BY InputTyped
  <2>2. {f.assertions[i] : i \in DOMAIN f.assertions}
          = {g.assertions[i] : i \in DOMAIN g.assertions}
    <3>1. SameBag(f.assertions, g.assertions)
      BY SameParts
    <3> QED  BY <2>1, <3>1, SameBagCounts
  <2> QED  BY <2>2 DEF Range
<1>2. \A n \in DagNode : Range(Successors(f, n)) = Range(Successors(g, n))
  <2> TAKE n \in DagNode
  <2>1. Successors(f, n) \in Seq(DagNode) /\ Successors(g, n) \in Seq(DagNode)
    BY InputTyped
  <2>2. SameBag(Successors(f, n), Successors(g, n))
    BY SuccessorsAlike DEF SameSuccessors, SameBag
  <2>3. {Successors(f, n)[i] : i \in DOMAIN Successors(f, n)}
          = {Successors(g, n)[i] : i \in DOMAIN Successors(g, n)}
    BY <2>1, <2>2, SameBagCounts
  <2> QED  BY <2>3 DEF Range
<1>3. \A S \in SUBSET DagNode : ClosedNodes(f, S) <=> ClosedNodes(g, S)
  BY <1>1, <1>2 DEF ClosedNodes
<1> QED  BY <1>3 DEF FormulaNodes

\* Two kernels' graphs of one formula, and the numbers the second gives to the nodes of the
\* first.
GraphsAlike(G, H, s) ==
    /\ IsGraph(G) /\ IsGraph(H)
    /\ SameFormula(G.f, H.f)
    /\ s \in Bijection(NumbersOf(G), NumbersOf(H))
    /\ \A i \in NumbersOf(G) : H.nodes[s[i]] = G.nodes[i]

\* Tables by the numbers of the one and the other.
TablesAlike(G, s, T, U) == \A i \in NumbersOf(G) : U[s[i]] = T[i]

\* There are such numbers.
LEMMA GraphsAreAlike ==
    ASSUME NEW G, NEW H, IsGraph(G), IsGraph(H), SameFormula(G.f, H.f)
    PROVE  \E s : GraphsAlike(G, H, s)
<1> DEFINE s == [i \in NumbersOf(G) |-> CHOOSE j \in NumbersOf(H) : H.nodes[j] = G.nodes[i]]
<1>1. {G.nodes[i] : i \in NumbersOf(G)} = {H.nodes[j] : j \in NumbersOf(H)}
  BY SameNodes DEF IsGraph
<1>2. ASSUME NEW i \in NumbersOf(G)
      PROVE  s[i] \in NumbersOf(H) /\ H.nodes[s[i]] = G.nodes[i]
  <2>1. \E j \in NumbersOf(H) : H.nodes[j] = G.nodes[i]
    <3>1. G.nodes[i] \in {H.nodes[j] : j \in NumbersOf(H)}
      BY <1>1
    <3> QED  BY <3>1
  <2> QED  BY <2>1
<1>3. /\ \A i, j \in NumbersOf(G) : G.nodes[i] = G.nodes[j] => i = j
      /\ \A i, j \in NumbersOf(H) : H.nodes[i] = H.nodes[j] => i = j
  BY DEF IsGraph
<1>4. s \in [NumbersOf(G) -> NumbersOf(H)]
  BY <1>2
<1>5. \A i, j \in NumbersOf(G) : s[i] = s[j] => i = j
  <2> HIDE DEF s
  <2> QED  BY <1>2, <1>3
<1>6. \A j \in NumbersOf(H) : \E i \in NumbersOf(G) : s[i] = j
  <2> TAKE j \in NumbersOf(H)
  <2>1. PICK i \in NumbersOf(G) : G.nodes[i] = H.nodes[j]
    <3>1. H.nodes[j] \in {G.nodes[i] : i \in NumbersOf(G)}
      BY <1>1
    <3> QED  BY <3>1
  <2> HIDE DEF s
  <2> QED  BY <1>2, <1>3, <2>1
<1>7. s \in Bijection(NumbersOf(G), NumbersOf(H))
  <2> HIDE DEF s
  <2> QED  BY <1>4, <1>5, <1>6, Fun_IsBij, Fun_IsSurj
<1>8. GraphsAlike(G, H, s)
  <2> HIDE DEF s
  <2> QED  BY <1>2, <1>7 DEF GraphsAlike
<1> QED  BY <1>8

\* What GraphsAlike says, spelled out.
LEMMA AlikeFacts ==
    ASSUME NEW G, NEW H, NEW s, GraphsAlike(G, H, s)
    PROVE  /\ s \in [NumbersOf(G) -> NumbersOf(H)]
           /\ \A i, j \in NumbersOf(G) : s[i] = s[j] => i = j
           /\ \A j \in NumbersOf(H) : \E i \in NumbersOf(G) : s[i] = j
           /\ \A i \in NumbersOf(G) : G.nodes[i] \in DagNode /\ H.nodes[s[i]] = G.nodes[i]
           /\ \A i \in NumbersOf(H) : H.nodes[i] \in DagNode
           /\ G.f \in Inputs /\ H.f \in Inputs
           /\ G.f.commutative = H.f.commutative
<1>1. s \in Bijection(NumbersOf(G), NumbersOf(H)) /\ SameFormula(G.f, H.f)
      /\ \A i \in NumbersOf(G) : H.nodes[s[i]] = G.nodes[i]
  BY DEF GraphsAlike
<1>2. /\ s \in [NumbersOf(G) -> NumbersOf(H)]
      /\ \A i, j \in NumbersOf(G) : s[i] = s[j] => i = j
      /\ \A j \in NumbersOf(H) : \E i \in NumbersOf(G) : s[i] = j
  BY <1>1, Fun_BijectionProperties, Fun_SurjectionProperties
<1>3. /\ G.f \in Inputs /\ H.f \in Inputs
      /\ \A i \in NumbersOf(G) : G.nodes[i] \in DagNode
      /\ \A i \in NumbersOf(H) : H.nodes[i] \in DagNode
  BY DEF GraphsAlike, IsGraph, NumbersOf
<1> QED  BY <1>1, <1>2, <1>3, SameParts

OperandsIn(G, i, T) ==
    IF G.nodes[i] \in G.f.commutative
    THEN hash_communative_children(G.graph[i], T)
    ELSE hash_children(G.graph[i], T)

\* The hashes of operands are a sequence of numbers.
LEMMA HashChildren ==
    ASSUME NEW N, NEW T \in [N -> Nat], NEW c \in Seq(N)
    PROVE  /\ hash_children(c, T) \in Seq(Nat)
           /\ DOMAIN hash_children(c, T) = DOMAIN c
           /\ \A k \in DOMAIN c : hash_children(c, T)[k] = T[c[k]]
<1>1. \A k \in 1..Len(c) : T[c[k]] \in Nat
  OBVIOUS
<1> QED  BY <1>1 DEF hash_children

\* A successor of a node is a successor of its counterpart.
SameEdges(G, H, s, i, p) ==
    /\ DOMAIN G.graph[i] = DOMAIN Successors(G.f, G.nodes[i])
    /\ DOMAIN H.graph[s[i]] = DOMAIN Successors(H.f, G.nodes[i])
    /\ \A k \in DOMAIN G.graph[i] :
          /\ p[k] \in DOMAIN H.graph[s[i]]
          /\ G.graph[i][k] \in NumbersOf(G)
          /\ H.graph[s[i]][p[k]] = s[G.graph[i][k]]

\* The recorded operands of counterparts are counterparts.
LEMMA EdgesAlike ==
    ASSUME NEW G, NEW H, NEW s, GraphsAlike(G, H, s), NEW i \in NumbersOf(G), NEW p,
           Reorders(p, Successors(G.f, G.nodes[i]), Successors(H.f, G.nodes[i]))
    PROVE  SameEdges(G, H, s, i, p)
<1> DEFINE x == Successors(G.f, G.nodes[i])
           y == Successors(H.f, G.nodes[i])
<1>1. /\ G.nodes[i] \in DagNode /\ G.f \in Inputs /\ H.f \in Inputs
      /\ s[i] \in NumbersOf(H) /\ H.nodes[s[i]] = G.nodes[i]
  BY AlikeFacts
<1>2. x \in Seq(DagNode) /\ y \in Seq(DagNode)
  BY <1>1, InputTyped
<1>3. /\ G.graph[i] \in Seq(NumbersOf(G)) /\ Len(G.graph[i]) = Len(x)
      /\ \A k \in DOMAIN G.graph[i] : G.nodes[G.graph[i][k]] = x[k]
  BY DEF GraphsAlike, IsGraph, RowsRight
<1>4. /\ H.graph[s[i]] \in Seq(NumbersOf(H)) /\ Len(H.graph[s[i]]) = Len(y)
      /\ \A k \in DOMAIN H.graph[s[i]] : H.nodes[H.graph[s[i]][k]] = y[k]
  BY <1>1 DEF GraphsAlike, IsGraph, RowsRight
<1>5. p \in [DOMAIN x -> DOMAIN y] /\ \A k \in DOMAIN x : y[p[k]] = x[k]
  BY Fun_BijectionProperties DEF Reorders
<1> HIDE DEF x, y
<1>6. DOMAIN G.graph[i] = DOMAIN x /\ DOMAIN H.graph[s[i]] = DOMAIN y
  BY <1>2, <1>3, <1>4
<1>7. ASSUME NEW k \in DOMAIN G.graph[i]
      PROVE  /\ p[k] \in DOMAIN H.graph[s[i]]
             /\ G.graph[i][k] \in NumbersOf(G)
             /\ H.graph[s[i]][p[k]] = s[G.graph[i][k]]
  <2>1. p[k] \in DOMAIN H.graph[s[i]] /\ y[p[k]] = x[k]
    BY <1>5, <1>6
  <2>2. PICK c \in NumbersOf(G) : c = G.graph[i][k]
    BY <1>3
  <2>3. PICK d \in NumbersOf(H) : d = H.graph[s[i]][p[k]]
    BY <1>4, <2>1
  <2>4. H.nodes[d] = G.nodes[c]
    BY <1>3, <1>4, <2>1, <2>2, <2>3
  <2>5. H.nodes[d] = H.nodes[s[c]] /\ s[c] \in NumbersOf(H)
    BY <2>4, AlikeFacts
  <2>6. d = s[c]
    BY <2>5 DEF GraphsAlike, IsGraph
  <2> QED  BY <2>1, <2>2, <2>3, <2>6
<1> QED  BY <1>6, <1>7 DEF x, y, SameEdges

\* The hashes of its operands, in operand order, are reordered as they are.
SameOperandHashes(G, H, s, i, T, U, q) ==
    /\ hash_children(G.graph[i], T) \in Seq(Nat)
    /\ hash_children(H.graph[s[i]], U) \in Seq(Nat)
    /\ DOMAIN hash_children(G.graph[i], T) = DOMAIN Successors(G.f, G.nodes[i])
    /\ Reorders(q, hash_children(G.graph[i], T), hash_children(H.graph[s[i]], U))

\* Their hashes are the same ones, in the order of the presentation.
LEMMA HashesReordered ==
    ASSUME NEW G, NEW H, NEW s, GraphsAlike(G, H, s), NEW i \in NumbersOf(G),
           NEW T \in [NumbersOf(G) -> Nat], NEW U \in [NumbersOf(H) -> Nat],
           TablesAlike(G, s, T, U), NEW q,
           Reorders(q, Successors(G.f, G.nodes[i]), Successors(H.f, G.nodes[i]))
    PROVE  SameOperandHashes(G, H, s, i, T, U, q)
<1> DEFINE a == hash_children(G.graph[i], T)
           b == hash_children(H.graph[s[i]], U)
<1>1. s[i] \in NumbersOf(H)
  BY AlikeFacts
<1>2. PICK c \in Seq(NumbersOf(G)) : c = G.graph[i]
  BY DEF GraphsAlike, IsGraph, RowsRight
<1>3. PICK d \in Seq(NumbersOf(H)) : d = H.graph[s[i]]
  BY <1>1 DEF GraphsAlike, IsGraph, RowsRight
<1>4. a \in Seq(Nat) /\ DOMAIN a = DOMAIN c /\ \A k \in DOMAIN c : a[k] = T[c[k]]
  BY <1>2, HashChildren
<1>5. b \in Seq(Nat) /\ DOMAIN b = DOMAIN d /\ \A k \in DOMAIN d : b[k] = U[d[k]]
  BY <1>3, HashChildren
<1>6. /\ DOMAIN c = DOMAIN Successors(G.f, G.nodes[i])
      /\ DOMAIN d = DOMAIN Successors(H.f, G.nodes[i])
      /\ \A k \in DOMAIN c : q[k] \in DOMAIN d /\ c[k] \in NumbersOf(G) /\ d[q[k]] = s[c[k]]
  <2>1. SameEdges(G, H, s, i, q)
    BY EdgesAlike, Zenon
  <2> QED  BY <1>2, <1>3, <2>1 DEF SameEdges
<1> HIDE DEF a, b
<1>7. \A k \in DOMAIN a : b[q[k]] = a[k]
  <2> TAKE k \in DOMAIN a
  <2>1. U[s[c[k]]] = T[c[k]]
    BY <1>4, <1>6 DEF TablesAlike
  <2> QED  BY <1>4, <1>5, <1>6, <2>1
<1>8. Reorders(q, a, b)
  BY <1>4, <1>5, <1>6, <1>7 DEF Reorders
<1> QED  BY <1>4, <1>5, <1>6, <1>8 DEF a, b, SameOperandHashes

\* What the operands of a node add to it does not depend on the presentation.
LEMMA OperandsAlike ==
    ASSUME NEW G, NEW H, NEW s, GraphsAlike(G, H, s), NEW i \in NumbersOf(G),
           NEW T \in [NumbersOf(G) -> Nat], NEW U \in [NumbersOf(H) -> Nat],
           TablesAlike(G, s, T, U)
    PROVE  OperandsIn(H, s[i], U) = OperandsIn(G, i, T)
<1>1. PICK n \in DagNode : n = G.nodes[i]
  BY AlikeFacts
<1>2. /\ G.f \in Inputs /\ H.f \in Inputs /\ SameFormula(G.f, H.f)
      /\ H.nodes[s[i]] = n /\ G.f.commutative = H.f.commutative
  BY <1>1, AlikeFacts DEF GraphsAlike
<1>3. PICK a : a = hash_children(G.graph[i], T)
  OBVIOUS
<1>4. PICK b : b = hash_children(H.graph[s[i]], U)
  OBVIOUS
<1>5. ASSUME NEW q, Reorders(q, Successors(G.f, n), Successors(H.f, n))
      PROVE  /\ a \in Seq(Nat) /\ b \in Seq(Nat) /\ DOMAIN a = DOMAIN Successors(G.f, n)
             /\ Reorders(q, a, b)
  <2>1. Reorders(q, Successors(G.f, G.nodes[i]), Successors(H.f, G.nodes[i]))
    BY <1>1, <1>5
  <2>2. SameOperandHashes(G, H, s, i, T, U, q)
    BY <2>1, HashesReordered, Zenon
  <2> QED  BY <1>1, <1>3, <1>4, <2>2 DEF SameOperandHashes
<1>6. PICK p : Reorders(p, Successors(G.f, n), Successors(H.f, n))
  BY <1>1, <1>2, SuccessorsAlike DEF SameSuccessors
<1>7. a \in Seq(Nat) /\ b \in Seq(Nat) /\ DOMAIN a = DOMAIN Successors(G.f, n) /\ Reorders(p, a, b)
  BY <1>5, <1>6
<1>8. CASE n \in G.f.commutative
  <2>1. InOrder(a) = InOrder(b)
    BY <1>7, InOrderOf DEF SameBag
  <2> QED  BY <1>1, <1>2, <1>3, <1>4, <1>8, <2>1 DEF OperandsIn, hash_communative_children
<1>9. CASE n \notin G.f.commutative
  <2>1. PICK x \in Seq(DagNode) : x = Successors(G.f, n) /\ x = Successors(H.f, n)
    <3>1. Successors(G.f, n) = Successors(H.f, n) /\ Successors(G.f, n) \in Seq(DagNode)
      BY <1>2, <1>9, SuccessorsAlike, InputTyped
    <3> QED  BY <3>1
  <2>2. PICK id : id \in Bijection(DOMAIN x, DOMAIN x) /\ \A k \in DOMAIN x : id[k] = k
    <3>1. [k \in DOMAIN x |-> k] \in Bijection(DOMAIN x, DOMAIN x)
      BY Fun_IsBij
    <3> QED  BY <3>1
  <2>3. Reorders(id, x, x)
    BY <2>2 DEF Reorders
  <2>4. Reorders(id, a, b)
    BY <1>5, <2>1, <2>3
  <2>5. DOMAIN a = DOMAIN x
    BY <1>7, <2>1
  <2>6. Len(b) = Len(a)
    BY <1>7, SameBagCounts DEF SameBag
  <2>7. \A k \in DOMAIN a : b[k] = a[k]
    BY <2>2, <2>4, <2>5 DEF Reorders
  <2>8. a = b
    BY <1>7, <2>6, <2>7
  <2> QED  BY <1>1, <1>2, <1>3, <1>4, <1>9, <2>8 DEF OperandsIn
<1> QED  BY <1>8, <1>9

\* Places that list two sets that correspond correspond.
LEMMA ListsCorrespond ==
    ASSUME NEW D, NEW E, NEW A, NEW B, NEW a \in Bijection(D, A), NEW b \in Bijection(E, B),
           NEW q \in Bijection(A, B)
    PROVE  \E r \in Bijection(D, E) : \A j \in D : b[r[j]] = q[a[j]]
<1> DEFINE r == [j \in D |-> CHOOSE l \in E : b[l] = q[a[j]]]
<1>1. /\ a \in [D -> A] /\ b \in [E -> B] /\ q \in [A -> B]
      /\ \A i, j \in D : a[i] = a[j] => i = j
      /\ \A i, j \in E : b[i] = b[j] => i = j
      /\ \A i, j \in A : q[i] = q[j] => i = j
  BY Fun_BijectionProperties
<1>2. /\ \A x \in A : \E j \in D : a[j] = x
      /\ \A x \in B : \E l \in E : b[l] = x
      /\ \A x \in B : \E y \in A : q[y] = x
  BY Fun_BijectionProperties, Fun_SurjectionProperties
<1>3. \A j \in D : r[j] \in E /\ b[r[j]] = q[a[j]]
  <2> TAKE j \in D
  <2>1. a[j] \in A /\ q[a[j]] \in B
    BY <1>1
  <2>2. PICK l \in E : b[l] = q[a[j]]
    BY <1>2, <2>1
  <2> QED  BY <2>2
<1>4. r \in [D -> E]
  BY <1>3
<1> HIDE DEF r
<1>5. \A i, j \in D : r[i] = r[j] => i = j
  BY <1>1, <1>3
<1>6. \A l \in E : \E j \in D : r[j] = l
  <2> TAKE l \in E
  <2>1. PICK y \in A : q[y] = b[l]
    BY <1>1, <1>2
  <2>2. PICK j \in D : a[j] = y
    BY <1>2
  <2> QED  BY <1>1, <1>3, <2>1, <2>2
<1>7. r \in Bijection(D, E)
  BY <1>4, <1>5, <1>6, Fun_IsBij, Fun_IsSurj
<1> QED  BY <1>3, <1>7

\* The uses of a node are those of its counterpart.
SameUses(G, H, s, c, q) ==
    /\ q \in Bijection(UsesIn(G, c), UsesIn(H, s[c]))
    /\ \A u \in UsesIn(G, c) :
          /\ q[u][1] = s[u[1]]
          /\ PlaceOf(H.f, H.nodes[q[u][1]], q[u][2]) = PlaceOf(G.f, G.nodes[u[1]], u[2])

\* Every node is used by the same nodes, as often, at places that count alike.
LEMMA UsesAlike ==
    ASSUME NEW G, NEW H, NEW s, GraphsAlike(G, H, s), NEW c \in NumbersOf(G)
    PROVE  \E q : SameUses(G, H, s, c, q)
<1> DEFINE N == NumbersOf(G)
           o == [i \in N |-> CHOOSE p : SameSuccessors(G.f, H.f, G.nodes[i], p)]
           q == [u \in UsesIn(G, c) |-> <<s[u[1]], o[u[1]][u[2]]>>]
<1>1. /\ s \in [N -> NumbersOf(H)]
      /\ \A i, j \in N : s[i] = s[j] => i = j
      /\ \A j \in NumbersOf(H) : \E i \in N : s[i] = j
      /\ \A i \in N : G.nodes[i] \in DagNode /\ H.nodes[s[i]] = G.nodes[i]
      /\ G.f \in Inputs /\ H.f \in Inputs /\ SameFormula(G.f, H.f)
  BY AlikeFacts DEF GraphsAlike
<1>2. ASSUME NEW i \in N
      PROVE  /\ SameSuccessors(G.f, H.f, G.nodes[i], o[i])
             /\ SameEdges(G, H, s, i, o[i])
  <2>1. \E p : SameSuccessors(G.f, H.f, G.nodes[i], p)
    <3>1. PICK n \in DagNode : n = G.nodes[i]
      BY <1>1
    <3>2. \E p : SameSuccessors(G.f, H.f, n, p)
      BY <1>1, SuccessorsAlike
    <3> QED  BY <3>1, <3>2
  <2>2. SameSuccessors(G.f, H.f, G.nodes[i], o[i])
    BY <2>1
  <2> HIDE DEF o
  <2>3. Reorders(o[i], Successors(G.f, G.nodes[i]), Successors(H.f, G.nodes[i]))
    BY <2>2 DEF SameSuccessors
  <2>4. SameEdges(G, H, s, i, o[i])
    BY <2>3, EdgesAlike, Zenon
  <2> QED  BY <2>2, <2>4
<1> HIDE DEF o
<1>3. ASSUME NEW i \in N
      PROVE  /\ o[i] \in [DOMAIN G.graph[i] -> DOMAIN H.graph[s[i]]]
             /\ \A k, l \in DOMAIN G.graph[i] : o[i][k] = o[i][l] => k = l
             /\ \A l \in DOMAIN H.graph[s[i]] : \E k \in DOMAIN G.graph[i] : o[i][k] = l
             /\ \A k \in DOMAIN G.graph[i] :
                   /\ G.graph[i][k] \in N
                   /\ H.graph[s[i]][o[i][k]] = s[G.graph[i][k]]
                   /\ PlaceOf(H.f, G.nodes[i], o[i][k]) = PlaceOf(G.f, G.nodes[i], k)
             /\ DOMAIN H.graph[s[i]] \subseteq Nat
  <2>1. PICK x : x = DOMAIN G.graph[i]
    OBVIOUS
  <2>2. PICK y : y = DOMAIN H.graph[s[i]]
    OBVIOUS
  <2>3. /\ o[i] \in Bijection(x, y)
        /\ \A k \in x : PlaceOf(H.f, G.nodes[i], o[i][k]) = PlaceOf(G.f, G.nodes[i], k)
        /\ \A k \in x : G.graph[i][k] \in N /\ H.graph[s[i]][o[i][k]] = s[G.graph[i][k]]
    BY <1>2, <2>1, <2>2 DEF SameSuccessors, Reorders, SameEdges
  <2>4. /\ o[i] \in [x -> y]
        /\ \A k, l \in x : o[i][k] = o[i][l] => k = l
        /\ \A l \in y : \E k \in x : o[i][k] = l
    BY <2>3, Fun_BijectionProperties, Fun_SurjectionProperties
  <2>5. PICK d \in Seq(NumbersOf(H)) : d = H.graph[s[i]]
    BY <1>1 DEF GraphsAlike, IsGraph, RowsRight
  <2>6. y \subseteq Nat
    BY <2>2, <2>5
  <2> QED  BY <2>1, <2>2, <2>3, <2>4, <2>6
<1>4. ASSUME NEW u \in UsesIn(G, c)
      PROVE  /\ u[1] \in N /\ u[2] \in DOMAIN G.graph[u[1]] /\ G.graph[u[1]][u[2]] = c
             /\ u = <<u[1], u[2]>>
             /\ q[u] = <<s[u[1]], o[u[1]][u[2]]>> /\ q[u] \in UsesIn(H, s[c])
  <2>1. /\ u[1] \in N /\ u[2] \in DOMAIN G.graph[u[1]] /\ G.graph[u[1]][u[2]] = c
        /\ u = <<u[1], u[2]>>
    BY DEF UsesIn
  <2>2. q[u] = <<s[u[1]], o[u[1]][u[2]]>>
    OBVIOUS
  <2>3. /\ o[u[1]][u[2]] \in Nat /\ s[u[1]] \in NumbersOf(H)
        /\ o[u[1]][u[2]] \in DOMAIN H.graph[s[u[1]]]
        /\ H.graph[s[u[1]]][o[u[1]][u[2]]] = s[c]
    BY <1>1, <1>3, <2>1
  <2>4. <<s[u[1]], o[u[1]][u[2]]>> \in UsesIn(H, s[c])
    BY <2>3 DEF UsesIn
  <2> QED  BY <2>1, <2>2, <2>4
<1>5. q \in [UsesIn(G, c) -> UsesIn(H, s[c])]
  BY <1>4
<1> HIDE DEF q
<1>6. \A u, v \in UsesIn(G, c) : q[u] = q[v] => u = v
  <2> SUFFICES ASSUME NEW u \in UsesIn(G, c), NEW v \in UsesIn(G, c), q[u] = q[v]
               PROVE  u = v
    OBVIOUS
  <2>1. s[u[1]] = s[v[1]] /\ o[u[1]][u[2]] = o[v[1]][v[2]]
    BY <1>4
  <2>2. u[1] = v[1]
    BY <1>1, <1>4, <2>1
  <2>3. u[2] = v[2]
    BY <1>3, <1>4, <2>1, <2>2
  <2> QED  BY <1>4, <2>2, <2>3
<1>7. \A v \in UsesIn(H, s[c]) : \E u \in UsesIn(G, c) : q[u] = v
  <2> TAKE v \in UsesIn(H, s[c])
  <2>1. /\ v[1] \in NumbersOf(H) /\ v[2] \in DOMAIN H.graph[v[1]] /\ H.graph[v[1]][v[2]] = s[c]
        /\ v = <<v[1], v[2]>>
    BY DEF UsesIn
  <2>2. PICK i \in N : s[i] = v[1]
    BY <1>1, <2>1
  <2>3. PICK k \in DOMAIN G.graph[i] : o[i][k] = v[2]
    <3>1. v[2] \in DOMAIN H.graph[s[i]]
      BY <2>1, <2>2
    <3>2. \A l \in DOMAIN H.graph[s[i]] : \E k \in DOMAIN G.graph[i] : o[i][k] = l
      BY <1>3
    <3> QED  BY <3>1, <3>2, Zenon
  <2>4. s[G.graph[i][k]] = s[c] /\ G.graph[i][k] \in N
    BY <1>3, <2>1, <2>2, <2>3
  <2>5. G.graph[i][k] = c
    BY <1>1, <2>4
  <2>6. k \in Nat
    <3>1. PICK d \in Seq(N) : d = G.graph[i]
      BY DEF GraphsAlike, IsGraph, RowsRight
    <3> QED  BY <3>1
  <2>7. <<i, k>> \in UsesIn(G, c)
    BY <2>3, <2>5, <2>6 DEF UsesIn
  <2>8. q[<<i, k>>] = <<s[i], o[i][k]>>
    BY <1>4, <2>7
  <2> QED  BY <2>1, <2>2, <2>3, <2>7, <2>8
<1>8. q \in Bijection(UsesIn(G, c), UsesIn(H, s[c]))
  BY <1>5, <1>6, <1>7, Fun_IsBij, Fun_IsSurj
<1>9. ASSUME NEW u \in UsesIn(G, c)
      PROVE  /\ q[u][1] = s[u[1]]
             /\ PlaceOf(H.f, H.nodes[q[u][1]], q[u][2]) = PlaceOf(G.f, G.nodes[u[1]], u[2])
  <2>1. q[u][1] = s[u[1]] /\ q[u][2] = o[u[1]][u[2]] /\ u[1] \in N
    BY <1>4
  <2>2. H.nodes[q[u][1]] = G.nodes[u[1]]
    BY <1>1, <2>1
  <2> QED  BY <1>3, <1>4, <2>1, <2>2
<1>10. SameUses(G, H, s, c, q)
  BY <1>8, <1>9 DEF SameUses
<1> QED  BY <1>10

\* What the users of a node add to it does not depend on the presentation.
ParentsIn(G, c, T) == hash_parents(G.reversed[c], T)

LEMMA ParentsAlike ==
    ASSUME NEW G, NEW H, NEW s, GraphsAlike(G, H, s), NEW c \in NumbersOf(G),
           NEW T \in [NumbersOf(G) -> Nat], NEW U \in [NumbersOf(H) -> Nat],
           TablesAlike(G, s, T, U)
    PROVE  ParentsIn(H, s[c], U) = ParentsIn(G, c, T)
<1>1. PICK d \in NumbersOf(H) : d = s[c]
  BY AlikeFacts
<1>2. PICK x \in Seq(NumbersOf(G) \X Nat) : x = G.reversed[c]
  BY DEF GraphsAlike, IsGraph, RowsRight
<1>3. PICK y \in Seq(NumbersOf(H) \X Nat) : y = H.reversed[d]
  BY DEF GraphsAlike, IsGraph, RowsRight
<1>4. PICK a \in Bijection(1..Len(x), UsesIn(G, c)) :
        \A j \in 1..Len(x) : x[j] = <<a[j][1], PlaceOf(G.f, G.nodes[a[j][1]], a[j][2])>>
  BY <1>2 DEF GraphsAlike, IsGraph, RowsRight, ListsUses
<1>5. PICK b \in Bijection(1..Len(y), UsesIn(H, d)) :
        \A j \in 1..Len(y) : y[j] = <<b[j][1], PlaceOf(H.f, H.nodes[b[j][1]], b[j][2])>>
  BY <1>3 DEF GraphsAlike, IsGraph, RowsRight, ListsUses
<1>6. PICK q : SameUses(G, H, s, c, q)
  BY UsesAlike
<1>7. q \in Bijection(UsesIn(G, c), UsesIn(H, d))
  BY <1>1, <1>6 DEF SameUses
<1>8. PICK r \in Bijection(1..Len(x), 1..Len(y)) : \A j \in 1..Len(x) : b[r[j]] = q[a[j]]
  BY <1>4, <1>5, <1>7, ListsCorrespond
<1> DEFINE h == [i \in DOMAIN x |-> T[x[i][1]] * PositionBase + x[i][2]]
           g == [i \in DOMAIN y |-> U[y[i][1]] * PositionBase + y[i][2]]
<1>9. /\ h \in Seq(Nat) /\ g \in Seq(Nat)
      /\ DOMAIN h = 1..Len(x) /\ DOMAIN g = 1..Len(y)
  <2>1. \A i \in 1..Len(x) : x[i] \in NumbersOf(G) \X Nat
    OBVIOUS
  <2>2. \A i \in 1..Len(y) : y[i] \in NumbersOf(H) \X Nat
    OBVIOUS
  <2>3. \A i \in 1..Len(x) : T[x[i][1]] \in Nat /\ x[i][2] \in Nat
    BY <2>1
  <2>4. \A i \in 1..Len(y) : U[y[i][1]] \in Nat /\ y[i][2] \in Nat
    BY <2>2
  <2>5. \A m, n \in Nat : m * PositionBase + n \in Nat
    BY DEF PositionBase
  <2>6. ASSUME NEW i \in 1..Len(x)
        PROVE  h[i] \in Nat
    <3>1. h[i] = T[x[i][1]] * PositionBase + x[i][2]
      OBVIOUS
    <3>2. T[x[i][1]] \in Nat /\ x[i][2] \in Nat
      BY <2>3
    <3> HIDE DEF h
    <3> QED  BY ONLY <2>5, <3>1, <3>2
  <2>7. ASSUME NEW i \in 1..Len(y)
        PROVE  g[i] \in Nat
    <3>1. g[i] = U[y[i][1]] * PositionBase + y[i][2]
      OBVIOUS
    <3>2. U[y[i][1]] \in Nat /\ y[i][2] \in Nat
      BY <2>4
    <3> HIDE DEF g
    <3> QED  BY ONLY <2>5, <3>1, <3>2
  <2>8. /\ DOMAIN h = 1..Len(x) /\ DOMAIN g = 1..Len(y) /\ Len(x) \in Nat /\ Len(y) \in Nat
        /\ h = [i \in DOMAIN h |-> h[i]] /\ g = [i \in DOMAIN g |-> g[i]]
    OBVIOUS
  <2> HIDE DEF g, h
  <2>9. h = [i \in 1..Len(x) |-> h[i]] /\ g = [i \in 1..Len(y) |-> g[i]]
    BY <2>8, Zenon
  <2>10. [i \in 1..Len(x) |-> h[i]] \in Seq(Nat) /\ [i \in 1..Len(y) |-> g[i]] \in Seq(Nat)
    BY <2>6, <2>7, <2>8
  <2> QED  BY <2>8, <2>9, <2>10
<1>10. ASSUME NEW j \in 1..Len(x)
       PROVE  r[j] \in 1..Len(y) /\ g[r[j]] = h[j]
  <2>1. r[j] \in 1..Len(y) /\ a[j] \in UsesIn(G, c)
    <3>1. \A D, E, f : f \in Bijection(D, E) => f \in [D -> E]
      BY Fun_BijectionProperties
    <3>2. r \in [1..Len(x) -> 1..Len(y)] /\ a \in [1..Len(x) -> UsesIn(G, c)]
      BY ONLY <3>1, <1>8, <1>4
    <3> QED  BY ONLY <3>2, j \in 1..Len(x)
  <2>2. /\ b[r[j]] = q[a[j]] /\ q[a[j]][1] = s[a[j][1]]
        /\ PlaceOf(H.f, H.nodes[q[a[j]][1]], q[a[j]][2]) = PlaceOf(G.f, G.nodes[a[j][1]], a[j][2])
    BY <1>6, <1>8, <2>1 DEF SameUses
  <2>3. y[r[j]] = <<b[r[j]][1], PlaceOf(H.f, H.nodes[b[r[j]][1]], b[r[j]][2])>>
    BY <1>5, <2>1
  <2>4. x[j] = <<a[j][1], PlaceOf(G.f, G.nodes[a[j][1]], a[j][2])>>
    BY <1>4
  <2>5. y[r[j]][1] = s[x[j][1]] /\ y[r[j]][2] = x[j][2]
    <3>1. y[r[j]][1] = b[r[j]][1] /\ y[r[j]][2] = PlaceOf(H.f, H.nodes[b[r[j]][1]], b[r[j]][2])
      BY ONLY <2>3
    <3>2. x[j][1] = a[j][1] /\ x[j][2] = PlaceOf(G.f, G.nodes[a[j][1]], a[j][2])
      BY ONLY <2>4
    <3> QED  BY ONLY <2>2, <3>1, <3>2, Zenon
  <2>6. x[j][1] \in NumbersOf(G)
    <3>1. x[j] \in NumbersOf(G) \X Nat
      OBVIOUS
    <3> QED  BY <3>1
  <2>7. U[y[r[j]][1]] = T[x[j][1]]
    <3>1. U[s[x[j][1]]] = T[x[j][1]]
      BY <2>6 DEF TablesAlike
    <3> QED  BY <2>5, <3>1, Zenon
  <2>8. r[j] \in DOMAIN y /\ j \in DOMAIN x
    <3>1. DOMAIN y = 1..Len(y) /\ DOMAIN x = 1..Len(x)
      OBVIOUS
    <3> QED  BY ONLY <2>1, <3>1, j \in 1..Len(x)
  <2>9. h[j] = T[x[j][1]] * PositionBase + x[j][2]
        /\ g[r[j]] = U[y[r[j]][1]] * PositionBase + y[r[j]][2]
    BY <2>8
  <2> HIDE DEF g, h
  <2> QED  BY <2>1, <2>5, <2>7, <2>9
<1>11. ParentsIn(G, c, T) = InOrder(h) /\ ParentsIn(H, s[c], U) = InOrder(g)
  BY <1>1, <1>2, <1>3 DEF ParentsIn, hash_parents
<1> HIDE DEF g, h
<1>12. Reorders(r, h, g)
  BY <1>8, <1>9, <1>10 DEF Reorders
<1>13. InOrder(h) = InOrder(g)
  BY <1>9, <1>12, InOrderOf DEF SameBag
<1> QED  BY <1>11, <1>13

\* hash_mix gives counterparts the same number when it is given the same values.
LEMMA MixAlike ==
    ASSUME NEW G, NEW H, NEW s, GraphsAlike(G, H, s), NEW t, NEW u,
           DOMAIN t = NumbersOf(G), DOMAIN u = NumbersOf(H), TablesAlike(G, s, t, u)
    PROVE  /\ TablesAlike(G, s, hash_mix(t), hash_mix(u))
           /\ hash_mix(t) \in [NumbersOf(G) -> Nat] /\ hash_mix(u) \in [NumbersOf(H) -> Nat]
<1>1. /\ s \in [NumbersOf(G) -> NumbersOf(H)]
      /\ \A j \in NumbersOf(H) : \E i \in NumbersOf(G) : s[i] = j
  BY AlikeFacts
<1>2. IsFiniteSet(NumbersOf(G)) /\ IsFiniteSet(NumbersOf(H))
  <2>1. Len(G.nodes) \in Nat /\ Len(H.nodes) \in Nat
    <3>1. \A x \in Seq(DagNode) : Len(x) \in Nat
      OBVIOUS
    <3> QED  BY <3>1 DEF GraphsAlike, IsGraph
  <2>2. \A n \in Nat : IsFiniteSet(1..n)
    BY FS_Interval
  <2> QED  BY <2>1, <2>2 DEF NumbersOf
<1>3. PICK V : V = {t[i] : i \in NumbersOf(G)}
  OBVIOUS
<1>4. {u[j] : j \in NumbersOf(H)} = V
  BY <1>1, <1>3 DEF TablesAlike
<1>5. PICK number : number = [v \in V |-> Cardinality({w \in V : Before(w, v)}) + 2]
  OBVIOUS
<1>6. hash_mix(t) = [i \in NumbersOf(G) |-> number[t[i]]]
  BY <1>3, <1>5 DEF hash_mix
<1>7. hash_mix(u) = [j \in NumbersOf(H) |-> number[u[j]]]
  BY <1>4, <1>5 DEF hash_mix
<1>8. /\ hash_mix(t) \in [NumbersOf(G) -> Nat] /\ hash_mix(u) \in [NumbersOf(H) -> Nat]
  BY <1>2, <1>6, <1>7, MixedNumbers
<1>9. TablesAlike(G, s, hash_mix(t), hash_mix(u))
  BY <1>1, <1>6, <1>7 DEF TablesAlike
<1> QED  BY <1>8, <1>9

-----------------------------------------------------------------------------
(***************************************************************************)
(* The turns of the first context_propagate over a graph, as Sweep,        *)
(* propagate and Propagate make them.                                      *)
(***************************************************************************)
LevelsOf(G) == 2 + Max({G.f.height[G.nodes[i]] : i \in NumbersOf(G)})

MixedIn(G, up, i, T) == IF up THEN OperandsIn(G, i, T) ELSE ParentsIn(G, i, T)
LevelAfter(G, up, seed, T) ==
    hash_mix([i \in NumbersOf(G) |-> <<seed[i]>> \o MixedIn(G, up, i, T)])

IsSweep(G, up, seed, out) ==
    \E level :
        /\ level[0] = seed
        /\ \A k \in 1..(LevelsOf(G) - 1) : level[k] = LevelAfter(G, up, seed, level[k - 1])
        /\ out = LevelAfter(G, up, seed, level[LevelsOf(G) - 1])

MixedTable(G, T) == hash_mix([i \in NumbersOf(G) |-> T[i]])

PlainOf(G, seed) ==
    hash_mix([i \in NumbersOf(G) |->
        <<seed[i], Len(G.graph[i])>> \o OperandsIn(G, i, seed) \o ParentsIn(G, i, seed)])

IsTurn(G, cp, T, U) ==
    IF cp
    THEN \E up, down :
           /\ IsSweep(G, TRUE, MixedTable(G, T), up)
           /\ IsSweep(G, FALSE, up, down)
           /\ U = [i \in NumbersOf(G) |-> Append(T[i], down[i])]
    ELSE U = [i \in NumbersOf(G) |->
                IF G.graph[i] # << >> THEN Append(T[i], PlainOf(G, MixedTable(G, T))[i]) ELSE T[i]]

\* A table of numbers for each graph, the same for nodes that correspond.
NumbersAlike(G, H, s, T, U) ==
    /\ T \in [NumbersOf(G) -> Nat] /\ U \in [NumbersOf(H) -> Nat]
    /\ TablesAlike(G, s, T, U)

\* What is mixed at a node is mixed at its counterpart.
LEMMA MixedAlike ==
    ASSUME NEW G, NEW H, NEW s, GraphsAlike(G, H, s), NEW T, NEW U,
           NumbersAlike(G, H, s, T, U), NEW i \in NumbersOf(G)
    PROVE  /\ OperandsIn(H, s[i], U) = OperandsIn(G, i, T)
           /\ ParentsIn(H, s[i], U) = ParentsIn(G, i, T)
           /\ \A up : MixedIn(H, up, s[i], U) = MixedIn(G, up, i, T)
<1>1. T \in [NumbersOf(G) -> Nat] /\ U \in [NumbersOf(H) -> Nat] /\ TablesAlike(G, s, T, U)
  BY DEF NumbersAlike
<1>2. OperandsIn(H, s[i], U) = OperandsIn(G, i, T)
  BY <1>1, OperandsAlike
<1>3. ParentsIn(H, s[i], U) = ParentsIn(G, i, T)
  BY <1>1, ParentsAlike
<1> QED  BY <1>2, <1>3, Zenon DEF MixedIn

\* A level of a sweep keeps tables alike.
LEMMA LevelAfterAlike ==
    ASSUME NEW G, NEW H, NEW s, GraphsAlike(G, H, s), NEW seed, NEW other,
           TablesAlike(G, s, seed, other), NEW T, NEW U, NumbersAlike(G, H, s, T, U), NEW up
    PROVE  NumbersAlike(G, H, s, LevelAfter(G, up, seed, T), LevelAfter(H, up, other, U))
<1>1. PICK t : t = [i \in NumbersOf(G) |-> <<seed[i]>> \o MixedIn(G, up, i, T)]
  OBVIOUS
<1>2. PICK u : u = [i \in NumbersOf(H) |-> <<other[i]>> \o MixedIn(H, up, i, U)]
  OBVIOUS
<1>3. ASSUME NEW i \in NumbersOf(G)
      PROVE  u[s[i]] = t[i]
  <2>1. s[i] \in NumbersOf(H)
    BY AlikeFacts
  <2>2. MixedIn(H, up, s[i], U) = MixedIn(G, up, i, T)
    BY MixedAlike
  <2>3. other[s[i]] = seed[i]
    BY DEF TablesAlike
  <2>4. u[s[i]] = <<other[s[i]]>> \o MixedIn(H, up, s[i], U)
    BY <1>2, <2>1, Zenon
  <2>5. t[i] = <<seed[i]>> \o MixedIn(G, up, i, T)
    BY <1>1, Zenon
  <2> QED  BY <2>2, <2>3, <2>4, <2>5, Zenon
<1>4. DOMAIN t = NumbersOf(G) /\ DOMAIN u = NumbersOf(H) /\ TablesAlike(G, s, t, u)
  BY <1>1, <1>2, <1>3, Zenon DEF TablesAlike
<1>5. NumbersAlike(G, H, s, hash_mix(t), hash_mix(u))
  BY <1>4, MixAlike DEF NumbersAlike
<1> QED  BY <1>1, <1>2, <1>5, Zenon DEF LevelAfter

\* Finitely many heights have a maximum.
LEMMA LevelsAlike ==
    ASSUME NEW G, NEW H, NEW s, GraphsAlike(G, H, s)
    PROVE  LevelsOf(H) = LevelsOf(G)
<1>1. /\ s \in [NumbersOf(G) -> NumbersOf(H)]
      /\ \A j \in NumbersOf(H) : \E i \in NumbersOf(G) : s[i] = j
      /\ \A i \in NumbersOf(G) : H.nodes[s[i]] = G.nodes[i]
      /\ H.f.height = G.f.height
  BY AlikeFacts, SameParts DEF GraphsAlike
<1>2. {G.f.height[G.nodes[i]] : i \in NumbersOf(G)} = {H.f.height[H.nodes[i]] : i \in NumbersOf(H)}
  BY <1>1
<1> QED  BY <1>2, Zenon DEF LevelsOf

\* The heights of a graph's nodes have a maximum.
LEMMA HeightsBounded ==
    ASSUME NEW n \in Nat, n # 0, NEW h \in [1..n -> Nat]
    PROVE  Max({h[i] : i \in 1..n}) \in Nat
<1> DEFINE Loose == {m \in 0..n : ~\E b \in Nat : \A i \in 1..m : h[i] <= b}
<1>1. Loose = {}
  <2> SUFFICES ASSUME Loose # {}  PROVE FALSE
    OBVIOUS
  <2>1. Loose \in SUBSET Nat
    OBVIOUS
  <2>2. PICK m \in Loose : \A k \in Loose : m <= k
    <3> HIDE DEF Loose
    <3> QED  BY <2>1, SetHasFirst
  <2>3. m \in 0..n /\ ~\E b \in Nat : \A i \in 1..m : h[i] <= b
    BY <2>2
  <2> HIDE DEF Loose
  <2>4. m # 0
    <3> SUFFICES ASSUME m = 0  PROVE FALSE
      OBVIOUS
    <3>1. \A i \in 1..m : h[i] <= 0
      OBVIOUS
    <3> QED  BY <2>3, <3>1
  <2>5. m - 1 \in 0..n /\ ~(m <= m - 1) /\ m \in 1..n
    BY <2>3, <2>4
  <2>6. PICK b \in Nat : \A i \in 1..(m - 1) : h[i] <= b
    <3>1. m - 1 \notin Loose
      BY <2>2, <2>5
    <3> QED  BY <2>5, <3>1 DEF Loose
  <2>7. PICK c \in Nat : b <= c /\ h[m] <= c
    <3>1. PICK v \in Nat : v = h[m]
      BY <2>5
    <3>2. b + v \in Nat /\ b <= b + v /\ v <= b + v
      OBVIOUS
    <3> QED  BY <3>1, <3>2
  <2>8. \A i \in 1..m : h[i] <= c
    <3> TAKE i \in 1..m
    <3>1. (i = m \/ i \in 1..(m - 1)) /\ i \in 1..n
      BY ONLY n \in Nat, i \in 1..m, <2>3
    <3>2. PICK v \in Nat : v = h[i]
      BY <3>1
    <3> QED  BY <2>6, <2>7, <3>1, <3>2
  <2> QED  BY <2>3, <2>8
<1>2. PICK b \in Nat : \A i \in 1..n : h[i] <= b
  <2>1. n \in 0..n /\ n \notin Loose
    <3> HIDE DEF Loose
    <3> QED  BY <1>1
  <2> QED  BY <2>1
<1>3. PICK V \in SUBSET Nat : V = {h[i] : i \in 1..n}
  <2>1. {h[i] : i \in 1..n} \in SUBSET Nat
    OBVIOUS
  <2> QED  BY <2>1
<1>4. V # {} /\ \A v \in V : v <= b
  <2>1. 1 \in 1..n
    OBVIOUS
  <2> QED  BY <1>2, <1>3, <2>1
<1>5. PICK p \in V : \A q \in V : p >= q
  <2>1. PICK p \in V : \A q \in V : q <= p
    BY <1>4, SetHasLast
  <2> QED  BY <2>1
<1>6. Max(V) = CHOOSE x \in V : \A y \in V : x >= y
  BY DEF Max
<1>7. Max(V) \in V
  BY <1>5, <1>6
<1> QED  BY <1>3, <1>7

\* A sweep has levels.
LEMMA LevelsTyped ==
    ASSUME NEW G, IsGraph(G)
    PROVE  LevelsOf(G) \in Nat /\ LevelsOf(G) >= 2
<1>1. PICK f \in Inputs : f = G.f
  BY DEF IsGraph
<1>2. PICK nodes \in Seq(DagNode) : nodes = G.nodes
  BY DEF IsGraph
<1>3. f.assertions # << >> /\ f.assertions \in Seq(DagNode) /\ f.height \in [DagNode -> Nat]
  BY InputsAssumption, InputTyped DEF InputType
<1>4. Len(nodes) # 0
  <2>1. 1 \in DOMAIN f.assertions
    BY <1>3
  <2>2. f.assertions[1] \in DagNode /\ f.assertions[1] \in Range(f.assertions)
    BY <1>3, <2>1 DEF Range
  <2>3. f.assertions[1] \in FormulaNodes(f)
    BY <2>2 DEF FormulaNodes, ClosedNodes
  <2>4. NumbersOf(G) # {}
    BY <1>1, <2>3 DEF IsGraph
  <2> QED  BY <1>2, <2>4 DEF NumbersOf
<1>5. PICK n \in Nat : n = Len(nodes) /\ n # 0 /\ NumbersOf(G) = 1..n
  BY <1>2, <1>4 DEF NumbersOf
<1>6. PICK h : h = [i \in 1..n |-> f.height[nodes[i]]]
  OBVIOUS
<1>7. h \in [1..n -> Nat]
  BY <1>3, <1>5, <1>6
<1>8. Max({h[i] : i \in 1..n}) \in Nat
  BY <1>5, <1>7, HeightsBounded
<1>9. {h[i] : i \in 1..n} = {G.f.height[G.nodes[i]] : i \in NumbersOf(G)}
  <2>1. \A i \in 1..n : h[i] = G.f.height[G.nodes[i]]
    BY <1>1, <1>2, <1>6, Zenon
  <2> QED  BY <1>5, <2>1
<1>10. PICK m \in Nat : m = Max({h[i] : i \in 1..n})
  BY <1>8
<1>11. LevelsOf(G) = 2 + m
  BY <1>9, <1>10, Zenon DEF LevelsOf
<1> QED  BY <1>11

\* Level by level, the sweeps of two presentations agree.
LEMMA SweepsAlike ==
    ASSUME NEW G, NEW H, NEW s, GraphsAlike(G, H, s), NEW up, NEW seed, NEW other,
           NumbersAlike(G, H, s, seed, other), NEW T, NEW U,
           IsSweep(G, up, seed, T), IsSweep(H, up, other, U)
    PROVE  NumbersAlike(G, H, s, T, U)
<1>1. PICK n \in Nat : n = LevelsOf(G) - 1 /\ n = LevelsOf(H) - 1
  <2>1. LevelsOf(G) \in Nat /\ LevelsOf(G) >= 2 /\ LevelsOf(H) = LevelsOf(G)
    BY LevelsTyped, LevelsAlike DEF GraphsAlike
  <2> QED  BY <2>1
<1>2. PICK a : /\ a[0] = seed
               /\ \A k \in 1..n : a[k] = LevelAfter(G, up, seed, a[k - 1])
               /\ T = LevelAfter(G, up, seed, a[n])
  BY <1>1, Zenon DEF IsSweep
<1>3. PICK b : /\ b[0] = other
               /\ \A k \in 1..n : b[k] = LevelAfter(H, up, other, b[k - 1])
               /\ U = LevelAfter(H, up, other, b[n])
  BY <1>1, Zenon DEF IsSweep
<1>4. TablesAlike(G, s, seed, other)
  BY DEF NumbersAlike
<1> DEFINE Odd == {k \in 0..n : ~NumbersAlike(G, H, s, a[k], b[k])}
<1>5. Odd = {}
  <2> SUFFICES ASSUME Odd # {}  PROVE FALSE
    OBVIOUS
  <2>1. Odd \in SUBSET Nat
    OBVIOUS
  <2>2. PICK k \in Odd : \A j \in Odd : k <= j
    <3> HIDE DEF Odd
    <3> QED  BY <2>1, SetHasFirst
  <2>3. k \in 0..n /\ ~NumbersAlike(G, H, s, a[k], b[k])
    BY <2>2
  <2>4. k # 0
    BY <1>2, <1>3, <2>3
  <2>5. k \in 1..n /\ k - 1 \in 0..n /\ ~(k <= k - 1)
    BY <2>3, <2>4
  <2>6. NumbersAlike(G, H, s, a[k - 1], b[k - 1])
    <3>1. k - 1 \notin Odd
      <4> HIDE DEF Odd
      <4> QED  BY <2>2, <2>5
    <3> QED  BY <2>5, <3>1
  <2>7. NumbersAlike(G, H, s, LevelAfter(G, up, seed, a[k - 1]), LevelAfter(H, up, other, b[k - 1]))
    BY <1>4, <2>6, LevelAfterAlike
  <2> QED  BY <1>2, <1>3, <2>3, <2>5, <2>7
<1>6. NumbersAlike(G, H, s, a[n], b[n])
  <2>1. n \in 0..n /\ n \notin Odd
    <3> HIDE DEF Odd
    <3> QED  BY <1>5
  <2> QED  BY <2>1
<1> QED  BY <1>2, <1>3, <1>4, <1>6, LevelAfterAlike

\* A table for each graph, with the same entries for nodes that correspond.
HashesAlike(G, H, s, T, U) ==
    /\ DOMAIN T = NumbersOf(G) /\ DOMAIN U = NumbersOf(H)
    /\ TablesAlike(G, s, T, U)

\* The successors of counterparts are equally many.
LEMMA LengthsAlike ==
    ASSUME NEW G, NEW H, NEW s, GraphsAlike(G, H, s), NEW i \in NumbersOf(G)
    PROVE  /\ Len(H.graph[s[i]]) = Len(G.graph[i])
           /\ H.graph[s[i]] = << >> <=> G.graph[i] = << >>
<1>1. PICK n \in DagNode : n = G.nodes[i] /\ H.nodes[s[i]] = n
  BY AlikeFacts
<1>2. PICK j \in NumbersOf(H) : j = s[i]
  BY AlikeFacts
<1>3. /\ G.f \in Inputs /\ H.f \in Inputs /\ SameFormula(G.f, H.f)
  BY AlikeFacts DEF GraphsAlike
<1>4. PICK c \in Seq(NumbersOf(G)) : c = G.graph[i] /\ Len(c) = Len(Successors(G.f, n))
  BY <1>1 DEF GraphsAlike, IsGraph, RowsRight
<1>5. PICK d \in Seq(NumbersOf(H)) : d = H.graph[j] /\ Len(d) = Len(Successors(H.f, n))
  BY <1>1, <1>2 DEF GraphsAlike, IsGraph, RowsRight
<1>6. Len(Successors(G.f, n)) = Len(Successors(H.f, n))
  <2>1. Successors(G.f, n) \in Seq(DagNode) /\ Successors(H.f, n) \in Seq(DagNode)
    BY <1>3, InputTyped
  <2>2. SameBag(Successors(G.f, n), Successors(H.f, n))
    BY <1>3, SuccessorsAlike DEF SameSuccessors, SameBag
  <2> QED  BY <2>1, <2>2, SameBagCounts
<1>7. Len(c) = Len(d)
  BY <1>4, <1>5, <1>6
<1>8. c = << >> <=> d = << >>
  BY <1>7
<1> QED  BY <1>2, <1>4, <1>5, <1>7, <1>8

\* A turn keeps tables alike.
LEMMA TurnsAlike ==
    ASSUME NEW G, NEW H, NEW s, GraphsAlike(G, H, s), NEW T, NEW U, HashesAlike(G, H, s, T, U),
           NEW cp, NEW X, NEW Y, IsTurn(G, cp, T, X), IsTurn(H, cp, U, Y)
    PROVE  HashesAlike(G, H, s, X, Y)
<1>1. /\ s \in [NumbersOf(G) -> NumbersOf(H)]
      /\ \A i \in NumbersOf(G) : U[s[i]] = T[i]
  BY AlikeFacts DEF HashesAlike, TablesAlike
<1>2. PICK a : a = MixedTable(G, T)
  OBVIOUS
<1>3. PICK b : b = MixedTable(H, U)
  OBVIOUS
<1>4. NumbersAlike(G, H, s, a, b)
  <2>1. PICK t : t = [i \in NumbersOf(G) |-> T[i]]
    OBVIOUS
  <2>2. PICK u : u = [i \in NumbersOf(H) |-> U[i]]
    OBVIOUS
  <2>3. DOMAIN t = NumbersOf(G) /\ DOMAIN u = NumbersOf(H) /\ TablesAlike(G, s, t, u)
    BY <1>1, <2>1, <2>2 DEF TablesAlike
  <2>4. NumbersAlike(G, H, s, hash_mix(t), hash_mix(u))
    BY <2>3, MixAlike DEF NumbersAlike
  <2> QED  BY <1>2, <1>3, <2>1, <2>2, <2>4, Zenon DEF MixedTable
<1>5. CASE cp
  <2>1. PICK up, down : /\ IsSweep(G, TRUE, a, up) /\ IsSweep(G, FALSE, up, down)
                        /\ X = [i \in NumbersOf(G) |-> Append(T[i], down[i])]
    BY <1>2, <1>5, Zenon DEF IsTurn
  <2>2. PICK vp, vdown : /\ IsSweep(H, TRUE, b, vp) /\ IsSweep(H, FALSE, vp, vdown)
                         /\ Y = [i \in NumbersOf(H) |-> Append(U[i], vdown[i])]
    BY <1>3, <1>5, Zenon DEF IsTurn
  <2>3. NumbersAlike(G, H, s, up, vp)
    BY <1>4, <2>1, <2>2, SweepsAlike
  <2>4. NumbersAlike(G, H, s, down, vdown)
    BY <2>1, <2>2, <2>3, SweepsAlike
  <2>5. \A i \in NumbersOf(G) : Y[s[i]] = X[i]
    <3> TAKE i \in NumbersOf(G)
    <3>1. vdown[s[i]] = down[i] /\ s[i] \in NumbersOf(H) /\ U[s[i]] = T[i]
      BY <1>1, <2>4 DEF NumbersAlike, TablesAlike
    <3>2. Y[s[i]] = Append(U[s[i]], vdown[s[i]]) /\ X[i] = Append(T[i], down[i])
      BY <2>1, <2>2, <3>1, Zenon
    <3> QED  BY <3>1, <3>2, Zenon
  <2> QED  BY <2>1, <2>2, <2>5, Zenon DEF HashesAlike, TablesAlike
<1>6. CASE ~cp
  <2>1. PICK p : p = PlainOf(G, a)
    OBVIOUS
  <2>2. PICK q : q = PlainOf(H, b)
    OBVIOUS
  <2>3. NumbersAlike(G, H, s, p, q)
    <3>1. PICK t : t = [i \in NumbersOf(G) |-> <<a[i], Len(G.graph[i])>>
                          \o OperandsIn(G, i, a) \o ParentsIn(G, i, a)]
      OBVIOUS
    <3>2. PICK u : u = [i \in NumbersOf(H) |-> <<b[i], Len(H.graph[i])>>
                          \o OperandsIn(H, i, b) \o ParentsIn(H, i, b)]
      OBVIOUS
    <3>3. \A i \in NumbersOf(G) : u[s[i]] = t[i]
      <4> TAKE i \in NumbersOf(G)
      <4>1. b[s[i]] = a[i] /\ s[i] \in NumbersOf(H)
        BY <1>1, <1>4 DEF NumbersAlike, TablesAlike
      <4>2. /\ OperandsIn(H, s[i], b) = OperandsIn(G, i, a)
            /\ ParentsIn(H, s[i], b) = ParentsIn(G, i, a)
        BY <1>4, MixedAlike
      <4>3. Len(H.graph[s[i]]) = Len(G.graph[i])
        BY LengthsAlike
      <4>4. u[s[i]] = <<b[s[i]], Len(H.graph[s[i]])>> \o OperandsIn(H, s[i], b)
                        \o ParentsIn(H, s[i], b)
        BY <3>2, <4>1, Zenon
      <4>5. t[i] = <<a[i], Len(G.graph[i])>> \o OperandsIn(G, i, a) \o ParentsIn(G, i, a)
        BY <3>1, Zenon
      <4> QED  BY <4>1, <4>2, <4>3, <4>4, <4>5, Zenon
    <3>4. DOMAIN t = NumbersOf(G) /\ DOMAIN u = NumbersOf(H) /\ TablesAlike(G, s, t, u)
      BY <3>1, <3>2, <3>3, Zenon DEF TablesAlike
    <3>5. NumbersAlike(G, H, s, hash_mix(t), hash_mix(u))
      BY <3>4, MixAlike DEF NumbersAlike
    <3> QED  BY <2>1, <2>2, <3>1, <3>2, <3>5, Zenon DEF PlainOf
  <2>4. X = [i \in NumbersOf(G) |-> IF G.graph[i] # << >> THEN Append(T[i], p[i]) ELSE T[i]]
    BY <1>2, <1>6, <2>1, Zenon DEF IsTurn
  <2>5. Y = [i \in NumbersOf(H) |-> IF H.graph[i] # << >> THEN Append(U[i], q[i]) ELSE U[i]]
    BY <1>3, <1>6, <2>2, Zenon DEF IsTurn
  <2>6. \A i \in NumbersOf(G) : Y[s[i]] = X[i]
    <3> TAKE i \in NumbersOf(G)
    <3>1. q[s[i]] = p[i] /\ s[i] \in NumbersOf(H) /\ U[s[i]] = T[i]
      BY <1>1, <2>3 DEF NumbersAlike, TablesAlike
    <3>2. H.graph[s[i]] = << >> <=> G.graph[i] = << >>
      BY LengthsAlike
    <3>3. CASE G.graph[i] = << >>
      <4>1. X[i] = T[i] /\ Y[s[i]] = U[s[i]]
        BY <2>4, <2>5, <3>1, <3>2, <3>3
      <4> QED  BY <3>1, <4>1
    <3>4. CASE G.graph[i] # << >>
      <4>1. X[i] = Append(T[i], p[i]) /\ Y[s[i]] = Append(U[s[i]], q[s[i]])
        BY <2>4, <2>5, <3>1, <3>2, <3>4, Zenon
      <4> QED  BY <3>1, <4>1, Zenon
    <3> QED  BY <3>3, <3>4
  <2> QED  BY <2>4, <2>5, <2>6, Zenon DEF HashesAlike, TablesAlike
<1> QED  BY <1>5, <1>6

(***************************************************************************)
(* The whole first context_propagate: turns from the hashes of the fresh   *)
(* nodes, until one leaves as many distinct hashes of symbols as the one   *)
(* before.                                                                 *)
(***************************************************************************)
FirstTable(G) ==
    [i \in NumbersOf(G) |->
        <<G.f.class[G.nodes[i]],
          Cardinality({j \in DOMAIN G.f.assertions : G.f.assertions[j] = G.nodes[i]})>>]

SymbolsOf(G) == {i \in NumbersOf(G) : G.nodes[i] \in G.f.symbol}

CountAt(G, run, k) == IF k = 0 THEN 0 ELSE DistinctHashes(run[k], SymbolsOf(G))

\* run[k] is the table after k turns, none of which was the last.
IsRun(G, cp, run, k) ==
    /\ k \in Nat
    /\ run[0] = FirstTable(G)
    /\ \A j \in 1..k : IsTurn(G, cp, run[j - 1], run[j])

GoesOn(G, run, k) == \A j \in 1..k : CountAt(G, run, j) # CountAt(G, run, j - 1)

IsContext(G, cp, T) ==
    \E run, k :
        /\ IsRun(G, cp, run, k) /\ k # 0 /\ T = run[k]
        /\ GoesOn(G, run, k - 1)
        /\ CountAt(G, run, k) = CountAt(G, run, k - 1)

\* The hashes of fresh nodes are those of their counterparts.
LEMMA FirstTablesAlike ==
    ASSUME NEW G, NEW H, NEW s, GraphsAlike(G, H, s)
    PROVE  HashesAlike(G, H, s, FirstTable(G), FirstTable(H))
<1>1. /\ s \in [NumbersOf(G) -> NumbersOf(H)]
      /\ G.f \in Inputs /\ H.f \in Inputs /\ SameFormula(G.f, H.f)
  BY AlikeFacts DEF GraphsAlike
<1>2. PICK a \in Seq(DagNode) : a = G.f.assertions
  BY <1>1, InputTyped
<1>3. PICK b \in Seq(DagNode) : b = H.f.assertions
  BY <1>1, InputTyped
<1>4. \A S : Times(a, S) = Times(b, S)
  <2>1. SameBag(a, b)
    BY <1>1, <1>2, <1>3, SameParts
  <2> QED  BY <2>1, SameBagCounts
<1>5. H.f.class = G.f.class
  BY <1>1, SameParts
<1>6. ASSUME NEW i \in NumbersOf(G)
      PROVE  FirstTable(H)[s[i]] = FirstTable(G)[i]
  <2>1. PICK n : n = G.nodes[i] /\ n = H.nodes[s[i]]
    BY AlikeFacts
  <2>2. s[i] \in NumbersOf(H)
    BY <1>1
  <2>3. FirstTable(G)[i] = <<G.f.class[n], Cardinality({j \in DOMAIN a : a[j] = n})>>
    BY <1>2, <2>1 DEF FirstTable
  <2>4. FirstTable(H)[s[i]] = <<H.f.class[n], Cardinality({j \in DOMAIN b : b[j] = n})>>
    BY <1>3, <2>1, <2>2 DEF FirstTable
  <2>5. /\ {j \in DOMAIN a : a[j] = n} = {j \in DOMAIN a : a[j] \in {n}}
        /\ {j \in DOMAIN b : b[j] = n} = {j \in DOMAIN b : b[j] \in {n}}
    OBVIOUS
  <2>6. Times(a, {n}) = Times(b, {n})
    BY <1>4
  <2> QED  BY <1>5, <2>3, <2>4, <2>5, <2>6 DEF Times
<1> QED  BY <1>6 DEF HashesAlike, TablesAlike, FirstTable

\* Tables that are alike have as many distinct hashes of symbols.
LEMMA CountsAlike ==
    ASSUME NEW G, NEW H, NEW s, GraphsAlike(G, H, s), NEW T, NEW U, HashesAlike(G, H, s, T, U)
    PROVE  DistinctHashes(U, SymbolsOf(H)) = DistinctHashes(T, SymbolsOf(G))
<1>1. /\ s \in [NumbersOf(G) -> NumbersOf(H)]
      /\ \A j \in NumbersOf(H) : \E i \in NumbersOf(G) : s[i] = j
      /\ \A i \in NumbersOf(G) : H.nodes[s[i]] = G.nodes[i] /\ U[s[i]] = T[i]
      /\ H.f.symbol = G.f.symbol
  BY AlikeFacts, SameParts DEF GraphsAlike, HashesAlike, TablesAlike
<1>2. \A i \in NumbersOf(G) : i \in SymbolsOf(G) <=> s[i] \in SymbolsOf(H)
  BY <1>1 DEF SymbolsOf
<1>3. SymbolsOf(G) \subseteq NumbersOf(G) /\ SymbolsOf(H) \subseteq NumbersOf(H)
  BY DEF SymbolsOf
<1>4. SymbolsOf(G) = {} <=> SymbolsOf(H) = {}
  BY <1>1, <1>2, <1>3
<1>5. {T[i] : i \in SymbolsOf(G)} = {U[j] : j \in SymbolsOf(H)}
  BY <1>1, <1>2, <1>3
<1> QED  BY <1>4, <1>5 DEF DistinctHashes

\* After any number of turns the tables are alike.
LEMMA RunsAlike ==
    ASSUME NEW G, NEW H, NEW s, GraphsAlike(G, H, s), NEW cp, NEW a, NEW b, NEW n \in Nat,
           IsRun(G, cp, a, n), IsRun(H, cp, b, n)
    PROVE  \A k \in 0..n : HashesAlike(G, H, s, a[k], b[k])
<1> DEFINE Odd == {k \in 0..n : ~HashesAlike(G, H, s, a[k], b[k])}
<1>1. Odd = {}
  <2> SUFFICES ASSUME Odd # {}  PROVE FALSE
    OBVIOUS
  <2>1. Odd \in SUBSET Nat
    OBVIOUS
  <2>2. PICK k \in Odd : \A j \in Odd : k <= j
    <3> HIDE DEF Odd
    <3> QED  BY <2>1, SetHasFirst
  <2>3. k \in 0..n /\ ~HashesAlike(G, H, s, a[k], b[k])
    BY <2>2
  <2>4. k # 0
    <3>1. HashesAlike(G, H, s, a[0], b[0])
      BY FirstTablesAlike, Zenon DEF IsRun
    <3> QED  BY <2>3, <3>1
  <2>5. k \in 1..n /\ k - 1 \in 0..n /\ ~(k <= k - 1)
    BY <2>3, <2>4
  <2>6. HashesAlike(G, H, s, a[k - 1], b[k - 1])
    <3>1. k - 1 \notin Odd
      <4> HIDE DEF Odd
      <4> QED  BY <2>2, <2>5
    <3> QED  BY <2>5, <3>1
  <2>7. IsTurn(G, cp, a[k - 1], a[k]) /\ IsTurn(H, cp, b[k - 1], b[k])
    BY <2>5 DEF IsRun
  <2> QED  BY <2>3, <2>6, <2>7, TurnsAlike
<1> QED  BY <1>1

\* So the counts, on which it depends whether there is another turn, are the same.
LEMMA CountsOfRuns ==
    ASSUME NEW G, NEW H, NEW s, GraphsAlike(G, H, s), NEW cp, NEW a, NEW b, NEW n \in Nat,
           IsRun(G, cp, a, n), IsRun(H, cp, b, n), NEW k \in 0..n
    PROVE  CountAt(H, b, k) = CountAt(G, a, k)
<1>1. HashesAlike(G, H, s, a[k], b[k])
  BY RunsAlike
<1>2. DistinctHashes(b[k], SymbolsOf(H)) = DistinctHashes(a[k], SymbolsOf(G))
  BY <1>1, CountsAlike
<1> QED  BY <1>2, Zenon DEF CountAt

\* Fewer turns of a run are a run.
LEMMA ShorterRun ==
    ASSUME NEW G, NEW cp, NEW run, NEW n, IsRun(G, cp, run, n), NEW m \in Nat, m <= n
    PROVE  IsRun(G, cp, run, m)
<1>1. n \in Nat
  BY DEF IsRun
<1>2. \A j \in 1..m : j \in 1..n
  BY <1>1
<1> QED  BY <1>2 DEF IsRun

\* So one presentation does not stop before the other, and context propagation leaves
\* both with the same hashes.
LEMMA StopTogether ==
    ASSUME NEW G, NEW H, NEW s, GraphsAlike(G, H, s), NEW cp, NEW a, NEW b, NEW m, NEW n,
           IsRun(G, cp, a, m), IsRun(H, cp, b, n), m # 0, n # 0,
           CountAt(G, a, m) = CountAt(G, a, m - 1), GoesOn(G, a, m - 1),
           CountAt(H, b, n) = CountAt(H, b, n - 1), GoesOn(H, b, n - 1)
    PROVE  m = n
<1>1. m \in Nat /\ n \in Nat
  BY DEF IsRun
<1>2. ASSUME NEW k \in Nat, k # 0, k <= m, k <= n
      PROVE  /\ CountAt(H, b, k) = CountAt(G, a, k)
             /\ CountAt(H, b, k - 1) = CountAt(G, a, k - 1)
  <2>1. IsRun(G, cp, a, k) /\ IsRun(H, cp, b, k)
    BY <1>2, ShorterRun
  <2>2. k \in 0..k /\ k - 1 \in 0..k
    BY <1>2
  <2> QED  BY <2>1, <2>2, CountsOfRuns
<1>3. CASE m < n
  <2>1. m \in 1..(n - 1) /\ m <= m /\ m <= n
    BY <1>1, <1>3
  <2>2. CountAt(H, b, m) = CountAt(G, a, m) /\ CountAt(H, b, m - 1) = CountAt(G, a, m - 1)
    BY <1>1, <1>2, <2>1
  <2> QED  BY <2>1, <2>2 DEF GoesOn
<1>4. CASE n < m
  <2>1. n \in 1..(m - 1) /\ n <= n /\ n <= m
    BY <1>1, <1>4
  <2>2. CountAt(H, b, n) = CountAt(G, a, n) /\ CountAt(H, b, n - 1) = CountAt(G, a, n - 1)
    BY <1>1, <1>2, <2>1
  <2> QED  BY <2>1, <2>2 DEF GoesOn
<1> QED  BY <1>1, <1>3, <1>4

\* Where context_propagate ends, counterparts have the same hash.
LEMMA ContextsAgree ==
    ASSUME NEW G, NEW H, NEW s, GraphsAlike(G, H, s), NEW cp, NEW T, NEW U,
           IsContext(G, cp, T), IsContext(H, cp, U)
    PROVE  HashesAlike(G, H, s, T, U)
<1>1. PICK a, m : /\ IsRun(G, cp, a, m) /\ m # 0 /\ T = a[m]
                  /\ GoesOn(G, a, m - 1)
                  /\ CountAt(G, a, m) = CountAt(G, a, m - 1)
  BY Zenon DEF IsContext
<1>2. PICK b, n : /\ IsRun(H, cp, b, n) /\ n # 0 /\ U = b[n]
                  /\ GoesOn(H, b, n - 1)
                  /\ CountAt(H, b, n) = CountAt(H, b, n - 1)
  BY Zenon DEF IsContext
<1>3. m = n
  BY <1>1, <1>2, StopTogether
<1>4. n \in Nat /\ n \in 0..n
  BY <1>2 DEF IsRun
<1>5. HashesAlike(G, H, s, a[n], b[n])
  BY <1>1, <1>2, <1>3, <1>4, RunsAlike
<1> QED  BY <1>1, <1>2, <1>3, <1>5

ByTurns(F, x, n, level) == level = [k \in 0..n |-> IF k = 0 THEN x ELSE F[level[k - 1]]]

\* A function that is defined by recursion on a number of turns exists.
LEMMA RecursionExists ==
    ASSUME NEW S, NEW F \in [S -> S], NEW x \in S, NEW n \in Nat
    PROVE  \E level \in [0..n -> S] : ByTurns(F, x, n, level)
<1> DEFINE UpTo(m, l) == l \in [0..m -> S] /\ l = [k \in 0..m |-> IF k = 0 THEN x ELSE F[l[k - 1]]]
           Missing == {m \in 0..n : ~\E l : UpTo(m, l)}
<1>1. Missing = {}
  <2> SUFFICES ASSUME Missing # {}  PROVE FALSE
    OBVIOUS
  <2>1. Missing \in SUBSET Nat
    OBVIOUS
  <2>2. PICK m \in Missing : \A k \in Missing : m <= k
    <3> HIDE DEF Missing
    <3> QED  BY <2>1, SetHasFirst
  <2>3. m \in 0..n /\ ~\E l : UpTo(m, l)
    BY <2>2
  <2>4. m # 0
    <3> SUFFICES ASSUME m = 0  PROVE FALSE
      OBVIOUS
    <3>1. UpTo(0, [k \in 0..0 |-> x])
      OBVIOUS
    <3> QED  BY <2>3, <3>1
  <2>5. m - 1 \in 0..n /\ ~(m <= m - 1) /\ m \in Nat /\ m - 1 \in Nat
    BY <2>3, <2>4
  <2>6. PICK l : UpTo(m - 1, l)
    <3>1. m - 1 \notin Missing
      <4> HIDE DEF Missing
      <4> QED  BY <2>2, <2>5
    <3> QED  BY <2>5, <3>1
  <2>7. l \in [0..(m - 1) -> S] /\ l = [k \in 0..(m - 1) |-> IF k = 0 THEN x ELSE F[l[k - 1]]]
    BY <2>6
  <2>8. PICK more : more = [k \in 0..m |-> IF k = m THEN F[l[m - 1]] ELSE l[k]]
    OBVIOUS
  <2>9. F[l[m - 1]] \in S
    BY <2>5, <2>7
  <2>10. \A k \in 0..m : k # m => k \in 0..(m - 1) /\ more[k] = l[k] /\ l[k] \in S
    BY <2>5, <2>7, <2>8
  <2>11. more[m] = F[l[m - 1]] /\ more[m - 1] = l[m - 1]
    BY <2>5, <2>8
  <2>12. more \in [0..m -> S]
    BY <2>8, <2>9, <2>10
  <2>13. \A k \in 0..m : more[k] = IF k = 0 THEN x ELSE F[more[k - 1]]
    <3> TAKE k \in 0..m
    <3>1. CASE k = m
      BY <2>4, <2>11, <3>1
    <3>2. CASE k # m
      <4>1. k \in 0..(m - 1) /\ more[k] = l[k]
        BY <2>10, <3>2
      <4>2. k # 0 => k - 1 \in 0..m /\ k - 1 # m
        BY <2>5, <4>1
      <4>3. k # 0 => more[k - 1] = l[k - 1]
        BY <2>10, <4>2
      <4>4. l[k] = IF k = 0 THEN x ELSE F[l[k - 1]]
        BY <2>7, <4>1
      <4> QED  BY <4>1, <4>3, <4>4
    <3> QED  BY <3>1, <3>2
  <2>14. more = [k \in 0..m |-> IF k = 0 THEN x ELSE F[more[k - 1]]]
    BY <2>12, <2>13
  <2> QED  BY <2>3, <2>12, <2>14
<1>2. n \in 0..n /\ n \notin Missing
  <2> HIDE DEF Missing
  <2> QED  BY <1>1
<1>3. PICK l : UpTo(n, l)
  BY <1>2
<1> QED  BY <1>3 DEF ByTurns

-----------------------------------------------------------------------------
\* The graph of the kernel at hand.
Graph == [f |-> input, nodes |-> d_nodes, graph |-> d_graph, reversed |-> d_reversed_graph]

\* Graph is a graph of the variables.
LEMMA GraphParts ==
    /\ Graph.f = input /\ Graph.nodes = d_nodes /\ Graph.graph = d_graph
    /\ Graph.reversed = d_reversed_graph
    /\ NumbersOf(Graph) = Numbers
    /\ LevelsOf(Graph) = Levels
    /\ SymbolsOf(Graph) = SymbolNumbers
<1>1. /\ Graph.f = input /\ Graph.nodes = d_nodes /\ Graph.graph = d_graph
      /\ Graph.reversed = d_reversed_graph
  BY DEF Graph
<1>2. NumbersOf(Graph) = Numbers
  BY <1>1 DEF NumbersOf, Numbers
<1>3. LevelsOf(Graph) = Levels
  BY <1>1, <1>2 DEF LevelsOf, Levels
<1>4. SymbolsOf(Graph) = SymbolNumbers
  BY <1>1, <1>2 DEF SymbolsOf, SymbolNumbers, IsSymbol
<1> QED  BY <1>1, <1>2, <1>3, <1>4

\* What the model mixes at a node is what is mixed at it in Graph.
LEMMA MixedAt ==
    ASSUME NEW i \in Numbers, NEW T
    PROVE  /\ OperandHashes(i, T) = OperandsIn(Graph, i, T)
           /\ hash_parents(d_reversed_graph[i], T) = ParentsIn(Graph, i, T)
           /\ MixedIn(Graph, TRUE, i, T) = OperandHashes(i, T)
           /\ MixedIn(Graph, FALSE, i, T) = hash_parents(d_reversed_graph[i], T)
<1>1. OperandHashes(i, T) = OperandsIn(Graph, i, T)
  BY GraphParts DEF OperandHashes, OperandsIn, is_commutative
<1>2. hash_parents(d_reversed_graph[i], T) = ParentsIn(Graph, i, T)
  BY GraphParts DEF ParentsIn
<1> QED  BY <1>1, <1>2, Zenon DEF MixedIn

\* hash_mix gives numbers.
LEMMA MixTyped ==
    ASSUME NEW N, IsFiniteSet(N), NEW t, DOMAIN t = N
    PROVE  hash_mix(t) \in [N -> Nat]
<1>1. DOMAIN hash_mix(t) = N /\ \A i \in N : hash_mix(t)[i] \in Nat
  BY MixedNumbers
<1>2. PICK number : hash_mix(t) = [i \in N |-> number[t[i]]]
  <2> DEFINE V == {t[i] : i \in N}
  <2>1. hash_mix(t) = [i \in N |-> [v \in V |-> Cardinality({w \in V : Before(w, v)}) + 2][t[i]]]
    BY DEF hash_mix
  <2> QED  BY <2>1
<1> QED  BY <1>1, <1>2

\* A level gives numbers.
LEMMA LevelTyped ==
    ASSUME IsFiniteSet(Numbers), NEW up, NEW seed, NEW T
    PROVE  LevelAfter(Graph, up, seed, T) \in [Numbers -> Nat]
<1>1. PICK t : t = [i \in Numbers |-> <<seed[i]>> \o MixedIn(Graph, up, i, T)]
  OBVIOUS
<1>2. DOMAIN t = Numbers
  BY <1>1
<1>3. LevelAfter(Graph, up, seed, T) = hash_mix(t)
  BY <1>1, GraphParts, Zenon DEF LevelAfter
<1> QED  BY <1>2, <1>3, MixTyped

\* The recursion of Sweep, level by level.
LEMMA LevelsOfSweep ==
    ASSUME IsGraph(Graph), NEW up, NEW seed \in [Numbers -> Nat], NEW level,
           level = CHOOSE l : l = [k \in 0..(Levels - 1) |->
                                     IF k = 0 THEN seed ELSE LevelAfter(Graph, up, seed, l[k - 1])]
    PROVE  IsSweep(Graph, up, seed, LevelAfter(Graph, up, seed, level[Levels - 1]))
<1>1. PICK n \in Nat : n = Levels - 1
  BY LevelsTyped, GraphParts
<1>2. IsFiniteSet(Numbers)
  <2>1. \A s \in Seq(DagNode) : Len(s) \in Nat
    OBVIOUS
  <2>2. Len(d_nodes) \in Nat
    BY <2>1, GraphParts DEF IsGraph
  <2> QED  BY <2>2, FS_Interval DEF Numbers
<1> DEFINE S == [Numbers -> Nat]
           F == [T \in S |-> LevelAfter(Graph, up, seed, T)]
           Recursive(l) == l = [k \in 0..n |-> IF k = 0 THEN seed
                                               ELSE LevelAfter(Graph, up, seed, l[k - 1])]
<1>3. F \in [S -> S]
  BY <1>2, LevelTyped
<1>4. PICK l \in [0..n -> S] : l = [k \in 0..n |-> IF k = 0 THEN seed ELSE F[l[k - 1]]]
  <2> HIDE DEF S, F
  <2>1. seed \in S
    BY DEF S
  <2>2. \E l \in [0..n -> S] : ByTurns(F, seed, n, l)
    BY <1>3, <2>1, RecursionExists
  <2> QED  BY <2>2, Zenon DEF ByTurns
<1>5. \A k \in 0..n : k # 0 => F[l[k - 1]] = LevelAfter(Graph, up, seed, l[k - 1])
  <2> TAKE k \in 0..n
  <2> HAVE k # 0
  <2>1. k - 1 \in 0..n
    OBVIOUS
  <2>2. l[k - 1] \in S
    BY <2>1
  <2> QED  BY <2>2
<1>6. Recursive(l)
  <2> HIDE DEF F, S
  <2>1. [k \in 0..n |-> IF k = 0 THEN seed ELSE F[l[k - 1]]]
          = [k \in 0..n |-> IF k = 0 THEN seed ELSE LevelAfter(Graph, up, seed, l[k - 1])]
    BY <1>5
  <2> QED  BY <1>4, <2>1
<1>7. level = CHOOSE m : Recursive(m)
  BY <1>1
<1>8. Recursive(level)
  <2> HIDE DEF Recursive
  <2> QED  BY <1>6, <1>7
<1>9. level[0] = seed /\ \A k \in 1..n : level[k] = LevelAfter(Graph, up, seed, level[k - 1])
  <2>1. 0 \in 0..n /\ \A k \in 1..n : k \in 0..n /\ k # 0
    OBVIOUS
  <2>2. \A k \in 0..n : level[k] = IF k = 0 THEN seed ELSE LevelAfter(Graph, up, seed, level[k - 1])
    BY <1>8, Zenon
  <2> QED  BY <2>1, <2>2
<1> HIDE DEF F, S, Recursive
<1>10. LevelsOf(Graph) - 1 = n /\ Levels - 1 = n
  BY <1>1, GraphParts
<1> QED  BY <1>9, <1>10, Zenon DEF IsSweep

\* The two sweeps of the model are sweeps of the graph.
LEMMA SweepUp ==
    ASSUME IsGraph(Graph), NEW seed \in [Numbers -> Nat]
    PROVE  IsSweep(Graph, TRUE, seed, Sweep(Numbers, seed, OperandHashes))
<1> DEFINE After(below) == hash_mix([i \in Numbers |-> <<seed[i]>> \o OperandHashes(i, below)])
           level == CHOOSE l : l = [k \in 0..(Levels - 1) |->
                                      IF k = 0 THEN seed ELSE After(l[k - 1])]
           same == CHOOSE l : l = [k \in 0..(Levels - 1) |->
                                     IF k = 0 THEN seed
                                     ELSE LevelAfter(Graph, TRUE, seed, l[k - 1])]
<1>1. Sweep(Numbers, seed, OperandHashes) = After(level[Levels - 1])
  BY DEF Sweep
<1>2. ASSUME NEW T  PROVE After(T) = LevelAfter(Graph, TRUE, seed, T)
  <2>1. \A i \in Numbers : MixedIn(Graph, TRUE, i, T) = OperandHashes(i, T)
    BY MixedAt
  <2>2. [i \in Numbers |-> <<seed[i]>> \o OperandHashes(i, T)]
          = [i \in Numbers |-> <<seed[i]>> \o MixedIn(Graph, TRUE, i, T)]
    BY <2>1, Zenon
  <2> QED  BY <2>2, GraphParts, Zenon DEF LevelAfter
<1> HIDE DEF After
<1>3. level = same
  BY <1>2, Zenon
<1>4. Sweep(Numbers, seed, OperandHashes) = LevelAfter(Graph, TRUE, seed, same[Levels - 1])
  BY <1>1, <1>2, <1>3, Zenon
<1>5. PICK l : l = same
  OBVIOUS
<1>6. IsSweep(Graph, TRUE, seed, LevelAfter(Graph, TRUE, seed, l[Levels - 1]))
  BY <1>5, LevelsOfSweep
<1> HIDE DEF same, level
<1> QED  BY <1>4, <1>5, <1>6, Zenon

\* The sweep from users to operands.
LEMMA SweepDown ==
    ASSUME IsGraph(Graph), NEW seed \in [Numbers -> Nat]
    PROVE  IsSweep(Graph, FALSE, seed,
                   Sweep(Numbers, seed,
                         LAMBDA i, numbers : hash_parents(d_reversed_graph[i], numbers)))
<1> DEFINE After(below) == hash_mix([i \in Numbers |->
                              <<seed[i]>> \o hash_parents(d_reversed_graph[i], below)])
           level == CHOOSE l : l = [k \in 0..(Levels - 1) |->
                                      IF k = 0 THEN seed ELSE After(l[k - 1])]
           same == CHOOSE l : l = [k \in 0..(Levels - 1) |->
                                     IF k = 0 THEN seed
                                     ELSE LevelAfter(Graph, FALSE, seed, l[k - 1])]
<1>1. Sweep(Numbers, seed, LAMBDA i, numbers : hash_parents(d_reversed_graph[i], numbers))
        = After(level[Levels - 1])
  BY DEF Sweep
<1>2. ASSUME NEW T  PROVE After(T) = LevelAfter(Graph, FALSE, seed, T)
  <2>1. \A i \in Numbers : MixedIn(Graph, FALSE, i, T) = hash_parents(d_reversed_graph[i], T)
    BY MixedAt
  <2>2. [i \in Numbers |-> <<seed[i]>> \o hash_parents(d_reversed_graph[i], T)]
          = [i \in Numbers |-> <<seed[i]>> \o MixedIn(Graph, FALSE, i, T)]
    BY <2>1, Zenon
  <2> QED  BY <2>2, GraphParts, Zenon DEF LevelAfter
<1> HIDE DEF After
<1>3. level = same
  BY <1>2, Zenon
<1>4. Sweep(Numbers, seed, LAMBDA i, numbers : hash_parents(d_reversed_graph[i], numbers))
        = LevelAfter(Graph, FALSE, seed, same[Levels - 1])
  BY <1>1, <1>2, <1>3, Zenon
<1>5. PICK l : l = same
  OBVIOUS
<1>6. IsSweep(Graph, FALSE, seed, LevelAfter(Graph, FALSE, seed, l[Levels - 1]))
  BY <1>5, LevelsOfSweep
<1> HIDE DEF same, level
<1> QED  BY <1>4, <1>5, <1>6, Zenon

\* A sweep gives numbers.
LEMMA SweepTyped ==
    ASSUME IsFiniteSet(Numbers), NEW up, NEW seed, NEW out, IsSweep(Graph, up, seed, out)
    PROVE  out \in [Numbers -> Nat]
  BY LevelTyped DEF IsSweep

\* A turn of Propagate over all numbers is a turn of the graph.
LEMMA PropagateTurns ==
    ASSUME IsGraph(Graph), DOMAIN d_hash_table = Numbers
    PROVE  IsTurn(Graph, options.cp, d_hash_table, propagate(Numbers))
<1>1. IsFiniteSet(Numbers)
  <2>1. \A s \in Seq(DagNode) : Len(s) \in Nat
    OBVIOUS
  <2>2. Len(d_nodes) \in Nat
    BY <2>1, GraphParts DEF IsGraph
  <2> QED  BY <2>2, FS_Interval DEF Numbers
<1>2. PICK seed : seed = hash_mix([i \in Numbers |-> d_hash_table[i]])
  OBVIOUS
<1>3. seed \in [Numbers -> Nat] /\ seed = MixedTable(Graph, d_hash_table)
  <2>1. PICK t : t = [i \in Numbers |-> d_hash_table[i]]
    OBVIOUS
  <2>2. DOMAIN t = Numbers
    BY <2>1
  <2>3. hash_mix(t) \in [Numbers -> Nat]
    BY <1>1, <2>2, MixTyped
  <2> QED  BY <1>2, <2>1, <2>3, GraphParts, Zenon DEF MixedTable
<1>4. CASE options.cp
  <2>1. PICK up : up = Sweep(Numbers, seed, OperandHashes)
    OBVIOUS
  <2>2. IsSweep(Graph, TRUE, seed, up)
    BY <1>3, <2>1, SweepUp
  <2>3. PICK down : down = Sweep(Numbers, up,
                                 LAMBDA i, numbers : hash_parents(d_reversed_graph[i], numbers))
    OBVIOUS
  <2>4. up \in [Numbers -> Nat]
    BY <1>1, <2>2, SweepTyped
  <2>5. IsSweep(Graph, FALSE, up, down)
    BY <2>3, <2>4, SweepDown
  <2>6. propagate(Numbers) = [i \in DOMAIN d_hash_table |->
                                IF i \in Numbers THEN hash_combine(d_hash_table[i], down[i])
                                ELSE d_hash_table[i]]
    BY <1>2, <1>4, <2>1, <2>3 DEF propagate, ContextSweeps
  <2>7. propagate(Numbers) = [i \in NumbersOf(Graph) |-> Append(d_hash_table[i], down[i])]
    BY <2>6, GraphParts DEF hash_combine
  <2> QED  BY <1>3, <1>4, <2>2, <2>5, <2>7, Zenon DEF IsTurn
<1>5. CASE ~options.cp
  <2> DEFINE mix(i) == <<seed[i], Len(d_graph[i])>> \o OperandHashes(i, seed)
                         \o hash_parents(d_reversed_graph[i], seed)
  <2>1. PICK next : next = hash_mix([i \in Numbers |-> mix(i)])
    OBVIOUS
  <2>2. propagate(Numbers) = [i \in DOMAIN d_hash_table |->
                                IF i \in Numbers /\ d_graph[i] # << >>
                                THEN hash_combine(d_hash_table[i], next[i])
                                ELSE d_hash_table[i]]
    BY <1>2, <1>5, <2>1 DEF propagate, PlainStep
  <2>3. next = PlainOf(Graph, seed)
    <3>1. \A i \in Numbers : mix(i) = <<seed[i], Len(d_graph[i])>> \o OperandsIn(Graph, i, seed)
                                        \o ParentsIn(Graph, i, seed)
      BY MixedAt
    <3> HIDE DEF mix
    <3>2. [i \in Numbers |-> mix(i)]
            = [i \in Numbers |-> <<seed[i], Len(d_graph[i])>> \o OperandsIn(Graph, i, seed)
                                   \o ParentsIn(Graph, i, seed)]
      BY <3>1, Zenon
    <3> QED  BY <2>1, <3>2, GraphParts, Zenon DEF PlainOf
  <2>4. propagate(Numbers) = [i \in NumbersOf(Graph) |->
                                IF Graph.graph[i] # << >> THEN Append(d_hash_table[i], next[i])
                                ELSE d_hash_table[i]]
    <3> HIDE DEF mix
    <3> QED  BY <2>2, GraphParts DEF hash_combine
  <2> QED  BY <1>3, <1>5, <2>3, <2>4, Zenon DEF IsTurn
<1> QED  BY <1>4, <1>5

\* The constructor's hashes are the first table.
LEMMA StartsWithFirst == [i \in Numbers |-> hash_node(i)] = FirstTable(Graph)
  BY GraphParts DEF FirstTable, hash_node

-----------------------------------------------------------------------------
\* A bijection is a function that takes every value once.
LEMMA BijectionParts ==
    ASSUME NEW A, NEW B, NEW f \in Bijection(A, B)
    PROVE  /\ f \in [A -> B]
           /\ \A i, j \in A : f[i] = f[j] => i = j
           /\ \A x \in B : \E j \in A : f[j] = x
  BY Fun_BijectionProperties, Fun_SurjectionProperties

Joined(m, n, a, b) == [j \in 1..(m + n) |-> IF j <= m THEN a[j] ELSE b[j - m]]

\* Two lists of different things, one after the other.
LEMMA JoinedLists ==
    ASSUME NEW m \in Nat, NEW n \in Nat, NEW A, NEW B, A \intersect B = {},
           NEW a \in Bijection(1..m, A), NEW b \in Bijection(1..n, B)
    PROVE  Joined(m, n, a, b) \in Bijection(1..(m + n), A \union B)
<1>1. /\ a \in [1..m -> A] /\ b \in [1..n -> B]
      /\ \A i, j \in 1..m : a[i] = a[j] => i = j
      /\ \A i, j \in 1..n : b[i] = b[j] => i = j
  BY Fun_BijectionProperties
<1>2. /\ \A x \in A : \E j \in 1..m : a[j] = x
      /\ \A x \in B : \E j \in 1..n : b[j] = x
  BY Fun_BijectionProperties, Fun_SurjectionProperties
<1>3. PICK c : c = [j \in 1..(m + n) |-> IF j <= m THEN a[j] ELSE b[j - m]]
  OBVIOUS
<1>4. ASSUME NEW j \in 1..(m + n)
      PROVE  /\ \/ j \in 1..m /\ c[j] = a[j] /\ a[j] \in A
                \/ j \notin 1..m /\ j - m \in 1..n /\ c[j] = b[j - m] /\ b[j - m] \in B
             /\ c[j] \in A \union B
  <2>1. CASE j <= m
    <3>1. j \in 1..m
      BY <2>1
    <3>2. a[j] \in A
      BY <1>1, <3>1
    <3>3. c[j] = a[j]
      BY <1>3, <2>1
    <3> QED  BY <3>1, <3>2, <3>3
  <2>2. CASE ~(j <= m)
    <3>1. j - m \in 1..n /\ j \notin 1..m
      BY <2>2
    <3>2. b[j - m] \in B
      BY <1>1, <3>1
    <3>3. c[j] = b[j - m]
      BY <1>3, <2>2
    <3> QED  BY <3>1, <3>2, <3>3
  <2> QED  BY <2>1, <2>2
<1>5. c \in [1..(m + n) -> A \union B]
  BY <1>3, <1>4
<1>6. \A i, j \in 1..(m + n) : c[i] = c[j] => i = j
  <2> SUFFICES ASSUME NEW i \in 1..(m + n), NEW j \in 1..(m + n), c[i] = c[j]
               PROVE  i = j
    OBVIOUS
  <2>1. CASE i \in 1..m
    <3>1. j \in 1..m /\ a[i] = a[j]
      BY <1>4, <2>1
    <3> QED  BY <1>1, <2>1, <3>1
  <2>2. CASE i \notin 1..m
    <3>1. i - m \in 1..n /\ j - m \in 1..n /\ b[i - m] = b[j - m]
      BY <1>4, <2>2
    <3>2. i - m = j - m
      BY <1>1, <3>1
    <3> QED  BY <3>2
  <2> QED  BY <2>1, <2>2
<1>7. \A x \in A \union B : \E j \in 1..(m + n) : c[j] = x
  <2> TAKE x \in A \union B
  <2>1. CASE x \in A
    <3>1. PICK j \in 1..m : a[j] = x
      BY <1>2, <2>1
    <3>2. j \in 1..(m + n) /\ j <= m
      OBVIOUS
    <3> QED  BY <1>3, <3>1, <3>2
  <2>2. CASE x \in B
    <3>1. PICK j \in 1..n : b[j] = x
      BY <1>2, <2>2
    <3>2. j + m \in 1..(m + n) /\ ~(j + m <= m) /\ (j + m) - m = j
      OBVIOUS
    <3> QED  BY <1>3, <3>1, <3>2
  <2> QED  BY <2>1, <2>2
<1>8. c \in Bijection(1..(m + n), A \union B)
  BY <1>5, <1>6, <1>7, Fun_IsBij, Fun_IsSurj
<1> QED  BY <1>3, <1>8 DEF Joined

\* The places that Only keeps of all places are listed once each.
LEMMA OnlyListsPlaces ==
    ASSUME NEW m \in Nat, NEW A \in SUBSET (1..m), NEW at, at = Only([i \in 1..m |-> i], A)
    PROVE  at \in Seq(1..m) /\ at \in Bijection(1..Len(at), A)
<1>1. PICK all \in Seq(1..m) : all = [i \in 1..m |-> i]
  <2>1. [i \in 1..m |-> i] \in Seq(1..m)
    OBVIOUS
  <2> QED  BY <2>1, Zenon
<1>2. at \in Seq((1..m) \intersect A)
  BY <1>1, OnlyTyped
<1>3. at \in Seq(1..m) /\ at \in [1..Len(at) -> A] /\ DOMAIN at = 1..Len(at) /\ Len(at) \in Nat
  BY <1>2
<1>4. ASSUME NEW x \in A
      PROVE  \E j \in DOMAIN at : {k \in DOMAIN at : at[k] \in {x}} = {j}
  <2>1. Times(at, {x}) = Times(all, A \intersect {x})
    <3>1. KeptRight(1..m, all, A, {x})
      BY OnlyKeepsRight, Zenon
    <3> QED  BY <1>1, <3>1 DEF KeptRight
  <2>2. {k \in DOMAIN all : all[k] \in A \intersect {x}} = {x}
    BY <1>1
  <2>3. Times(at, {x}) = 1
    <3>1. Times(all, A \intersect {x}) = Cardinality({x})
      BY <2>2, Zenon DEF Times
    <3> QED  BY <2>1, <3>1, FS_Singleton
  <2>4. PICK P : P = {k \in DOMAIN at : at[k] \in {x}}
    OBVIOUS
  <2>5. IsFiniteSet(P)
    <3>1. IsFiniteSet(1..Len(at)) /\ P \in SUBSET (1..Len(at))
      BY <1>3, <2>4, FS_Interval
    <3> QED  BY <3>1, FS_Subset
  <2>6. Cardinality(P) = 1
    BY <2>3, <2>4 DEF Times
  <2>7. PICK j : P = {j}
    BY <2>5, <2>6, FS_Singleton
  <2> QED  BY <2>4, <2>7
<1>5. \A i, j \in 1..Len(at) : at[i] = at[j] => i = j
  <2> SUFFICES ASSUME NEW i \in 1..Len(at), NEW j \in 1..Len(at), at[i] = at[j]
               PROVE  i = j
    OBVIOUS
  <2>1. at[i] \in A
    BY <1>3
  <2>2. PICK k \in DOMAIN at : {l \in DOMAIN at : at[l] \in {at[i]}} = {k}
    BY <1>4, <2>1
  <2>3. i \in {l \in DOMAIN at : at[l] \in {at[i]}} /\ j \in {l \in DOMAIN at : at[l] \in {at[i]}}
    BY <1>3
  <2> QED  BY <2>2, <2>3
<1>6. \A x \in A : \E j \in 1..Len(at) : at[j] = x
  <2> TAKE x \in A
  <2>1. PICK j \in DOMAIN at : {k \in DOMAIN at : at[k] \in {x}} = {j}
    BY <1>4
  <2>2. j \in {k \in DOMAIN at : at[k] \in {x}}
    BY <2>1
  <2> QED  BY <1>3, <2>2
<1> QED  BY <1>3, <1>5, <1>6, Fun_IsBij, Fun_IsSurj

(***************************************************************************)
(* The step of the walk that numbers a node, as it changes a graph G: node *)
(* n gets the next number k and the operands row, and the vector of each   *)
(* number is continued by its uses in row, whose places are listed by at.  *)
(***************************************************************************)
Numbering(G, J, k, n, row, new, at) ==
    /\ G.f \in Inputs /\ J.f = G.f
    /\ G.nodes \in Seq(DagNode) /\ n \in DagNode /\ k = Len(G.nodes) + 1
    /\ J.nodes = Append(G.nodes, n)
    /\ row \in Seq(NumbersOf(G)) /\ Len(row) = Len(Successors(G.f, n))
    /\ \A j \in DOMAIN row : G.nodes[row[j]] = Successors(G.f, n)[j]
    /\ J.graph[k] = row /\ J.reversed[k] = << >>
    /\ \A c \in NumbersOf(G) :
          /\ J.graph[c] = G.graph[c]
          /\ J.reversed[c] = G.reversed[c] \o new[c]
          /\ new[c] \in Seq({k} \X Nat)
          /\ at[c] \in Bijection(1..Len(new[c]), {j \in DOMAIN row : row[j] = c})
          /\ \A j \in 1..Len(new[c]) : new[c][j] = <<k, PlaceOf(G.f, n, at[c][j])>>

\* The numbers and nodes after the step.
LEMMA NumberingFacts ==
    ASSUME NEW G, NEW J, NEW k, NEW n, NEW row, NEW new, NEW at,
           Numbering(G, J, k, n, row, new, at)
    PROVE  /\ k \in Nat /\ k \notin NumbersOf(G) /\ NumbersOf(J) = NumbersOf(G) \union {k}
           /\ J.nodes[k] = n
           /\ \A i \in NumbersOf(G) : J.nodes[i] = G.nodes[i]
<1>1. PICK nodes \in Seq(DagNode) : nodes = G.nodes
  BY DEF Numbering
<1>2. n \in DagNode /\ k = Len(nodes) + 1 /\ J.nodes = Append(nodes, n)
  BY <1>1 DEF Numbering
<1>3. /\ k \in Nat /\ k \notin 1..Len(nodes) /\ 1..Len(J.nodes) = 1..Len(nodes) \union {k}
      /\ J.nodes[k] = n /\ \A i \in 1..Len(nodes) : J.nodes[i] = nodes[i]
  BY <1>2
<1> QED  BY <1>1, <1>3 DEF NumbersOf

\* What is a use after the step.
LEMMA NumberingUses ==
    ASSUME NEW G, NEW J, NEW k, NEW n, NEW row, NEW new, NEW at,
           Numbering(G, J, k, n, row, new, at), RowsRight(G)
    PROVE  /\ UsesIn(J, k) = {}
           /\ \A c \in NumbersOf(G) :
                 /\ UsesIn(J, c) = UsesIn(G, c)
                                      \union {<<k, j>> : j \in {i \in DOMAIN row : row[i] = c}}
                 /\ UsesIn(G, c) \intersect {<<k, j>> : j \in {i \in DOMAIN row : row[i] = c}} = {}
<1>1. /\ k \in Nat /\ k \notin NumbersOf(G) /\ NumbersOf(J) = NumbersOf(G) \union {k}
  BY NumberingFacts
<1>2. PICK r \in Seq(NumbersOf(G)) : r = row
  BY DEF Numbering
<1>3. J.graph[k] = row /\ \A i \in NumbersOf(G) : J.graph[i] = G.graph[i]
  BY DEF Numbering
<1>4. DOMAIN row \subseteq Nat /\ \A j \in DOMAIN row : row[j] \in NumbersOf(G)
  BY <1>2
<1>5. ASSUME NEW i \in NumbersOf(G)
      PROVE  \A j \in DOMAIN G.graph[i] : G.graph[i][j] \in NumbersOf(G)
  <2>1. PICK d \in Seq(NumbersOf(G)) : d = G.graph[i]
    BY DEF RowsRight
  <2> QED  BY <2>1
<1>6. UsesIn(J, k) = {}
  <2> SUFFICES ASSUME NEW u \in UsesIn(J, k)  PROVE FALSE
    OBVIOUS
  <2>1. u[1] \in NumbersOf(J) /\ u[2] \in DOMAIN J.graph[u[1]] /\ J.graph[u[1]][u[2]] = k
    BY DEF UsesIn
  <2> QED  BY <1>1, <1>3, <1>4, <1>5, <2>1
<1>7. ASSUME NEW c \in NumbersOf(G)
      PROVE  /\ UsesIn(J, c) = UsesIn(G, c)
                                  \union {<<k, j>> : j \in {i \in DOMAIN row : row[i] = c}}
             /\ UsesIn(G, c) \intersect {<<k, j>> : j \in {i \in DOMAIN row : row[i] = c}} = {}
  <2> DEFINE N == {<<k, j>> : j \in {i \in DOMAIN row : row[i] = c}}
  <2>1. ASSUME NEW u \in UsesIn(J, c)
        PROVE  u \in UsesIn(G, c) \/ u \in N
    <3>1. /\ u \in NumbersOf(J) \X Nat /\ u = <<u[1], u[2]>>
          /\ u[2] \in DOMAIN J.graph[u[1]] /\ J.graph[u[1]][u[2]] = c
      BY DEF UsesIn
    <3>2. CASE u[1] = k
      BY <1>3, <3>1, <3>2
    <3>3. CASE u[1] \in NumbersOf(G)
      BY <1>3, <3>1, <3>3 DEF UsesIn
    <3> QED  BY <1>1, <3>1, <3>2, <3>3
  <2>2. ASSUME NEW u \in UsesIn(G, c)
        PROVE  u \in UsesIn(J, c)
    BY <1>1, <1>3 DEF UsesIn
  <2>3. ASSUME NEW u \in N
        PROVE  u \in UsesIn(J, c)
    <3>1. PICK j \in DOMAIN row : u = <<k, j>> /\ row[j] = c
      OBVIOUS
    <3> QED  BY <1>1, <1>3, <1>4, <3>1 DEF UsesIn
  <2>4. UsesIn(G, c) \intersect N = {}
    <3> SUFFICES ASSUME NEW u \in UsesIn(G, c), u \in N  PROVE FALSE
      OBVIOUS
    <3>1. u[1] \in NumbersOf(G) /\ u[1] = k
      BY DEF UsesIn
    <3> QED  BY <1>1, <3>1
  <2> HIDE DEF N
  <2>5. UsesIn(J, c) = UsesIn(G, c) \union N
    BY <2>1, <2>2, <2>3
  <2> QED  BY <2>4, <2>5 DEF N
<1> QED  BY <1>6, <1>7

\* Numbering keeps the rows right.
LEMMA NumberingKeepsRows ==
    ASSUME NEW G, NEW J, NEW k, NEW n, NEW row, NEW new, NEW at,
           Numbering(G, J, k, n, row, new, at), RowsRight(G)
    PROVE  RowsRight(J)
<1>1. /\ k \in Nat /\ k \notin NumbersOf(G) /\ NumbersOf(J) = NumbersOf(G) \union {k}
      /\ J.nodes[k] = n
      /\ \A i \in NumbersOf(G) : J.nodes[i] = G.nodes[i]
  BY NumberingFacts
<1>2. J.f = G.f
  BY DEF Numbering
<1>3. ASSUME NEW i \in NumbersOf(J)
      PROVE  /\ J.graph[i] \in Seq(NumbersOf(J))
             /\ Len(J.graph[i]) = Len(Successors(J.f, J.nodes[i]))
             /\ \A l \in DOMAIN J.graph[i] : J.nodes[J.graph[i][l]] = Successors(J.f, J.nodes[i])[l]
  <2>1. PICK r \in Seq(NumbersOf(G)) :
           /\ r = J.graph[i]
           /\ Len(r) = Len(Successors(J.f, J.nodes[i]))
           /\ \A l \in DOMAIN r : G.nodes[r[l]] = Successors(J.f, J.nodes[i])[l]
    <3>1. CASE i = k
      BY <1>1, <1>2, <3>1 DEF Numbering
    <3>2. CASE i \in NumbersOf(G)
      <4>1. J.graph[i] = G.graph[i] /\ J.nodes[i] = G.nodes[i]
        BY <1>1, <3>2 DEF Numbering
      <4> QED  BY <1>2, <3>2, <4>1 DEF RowsRight
    <3> QED  BY <1>1, <3>1, <3>2
  <2>2. r \in Seq(NumbersOf(J))
    BY <1>1, <2>1, SeqMonotonic
  <2>3. \A l \in DOMAIN r : r[l] \in NumbersOf(G)
    BY <2>1
  <2>4. \A l \in DOMAIN r : J.nodes[r[l]] = G.nodes[r[l]]
    BY <1>1, <2>3
  <2> QED  BY <2>1, <2>2, <2>4
<1>4. ASSUME NEW c \in NumbersOf(J)
      PROVE  J.reversed[c] \in Seq(NumbersOf(J) \X Nat) /\ ListsUses(J, c)
  <2>1. CASE c = k
    <3>1. J.reversed[c] = << >>
      BY <2>1 DEF Numbering
    <3>2. UsesIn(J, c) = {}
      BY <2>1, NumberingUses
    <3>3. << >> \in Seq(NumbersOf(J) \X Nat) /\ Len(<< >>) = 0
      OBVIOUS
    <3>4. PICK none : none = [j \in 1..0 |-> j]
      OBVIOUS
    <3>5. none \in Bijection(1..0, {})
      <4>1. none \in [1..0 -> {}] /\ 1..0 = {}
        BY <3>4
      <4> QED  BY <4>1, Fun_IsBij
    <3>6. ListsUses(J, c)
      BY <3>1, <3>2, <3>3, <3>5 DEF ListsUses
    <3> QED  BY <3>1, <3>3, <3>6
  <2>2. CASE c \in NumbersOf(G)
    <3>1. PICK old \in Seq(NumbersOf(G) \X Nat) : old = G.reversed[c]
      BY <2>2 DEF RowsRight
    <3>2. PICK more \in Seq({k} \X Nat) : more = new[c]
      BY <2>2 DEF Numbering
    <3>3. J.reversed[c] = old \o more
      BY <2>2, <3>1, <3>2 DEF Numbering
    <3>4. PICK a \in Bijection(1..Len(old), UsesIn(G, c)) :
             \A j \in 1..Len(old) : old[j] = <<a[j][1], PlaceOf(G.f, G.nodes[a[j][1]], a[j][2])>>
      BY <2>2, <3>1 DEF RowsRight, ListsUses
    <3> DEFINE places == {j \in DOMAIN row : row[j] = c}
               N == {<<k, j>> : j \in places}
               b == [j \in 1..Len(more) |-> <<k, at[c][j]>>]
               m == Len(old)
               l == Len(more)
               e == [j \in 1..(m + l) |-> IF j <= m THEN a[j] ELSE b[j - m]]
    <3>5. at[c] \in Bijection(1..l, places)
          /\ \A j \in 1..l : more[j] = <<k, PlaceOf(G.f, n, at[c][j])>>
      BY <2>2, <3>2 DEF Numbering
    <3>6. b \in Bijection(1..l, N)
      <4>1. /\ at[c] \in [1..l -> places]
            /\ \A i, j \in 1..l : at[c][i] = at[c][j] => i = j
            /\ \A x \in places : \E j \in 1..l : at[c][j] = x
        <5>1. PICK D : D = 1..l
          OBVIOUS
        <5>2. PICK P : P = places
          OBVIOUS
        <5>3. PICK f \in Bijection(D, P) : f = at[c]
          <6> HIDE DEF places, l
          <6> QED  BY <3>5, <5>1, <5>2
        <5>4. /\ f \in [D -> P]
              /\ \A i, j \in D : f[i] = f[j] => i = j
              /\ \A x \in P : \E j \in D : f[j] = x
          BY <5>3, BijectionParts
        <5> HIDE DEF places, l
        <5> QED  BY <5>1, <5>2, <5>3, <5>4
      <4>2. \A j \in 1..l : b[j] = <<k, at[c][j]>> /\ b[j] \in N
        <5> HIDE DEF places
        <5> QED  BY <4>1
      <4>3. b \in [1..l -> N]
        <5> HIDE DEF places, N
        <5> QED  BY <4>2
      <4>4. \A i, j \in 1..l : b[i] = b[j] => i = j
        <5> HIDE DEF places, N
        <5> QED  BY <4>1, <4>2
      <4>5. \A x \in N : \E j \in 1..l : b[j] = x
        <5> TAKE x \in N
        <5>1. PICK y \in places : x = <<k, y>>
          OBVIOUS
        <5>2. PICK j \in 1..l : at[c][j] = y
          BY <4>1, <5>1
        <5> HIDE DEF places, N
        <5> QED  BY <4>2, <5>1, <5>2
      <4> HIDE DEF places, N, b
      <4> QED  BY <4>3, <4>4, <4>5, Fun_IsBij, Fun_IsSurj
    <3>7. UsesIn(J, c) = UsesIn(G, c) \union N /\ UsesIn(G, c) \intersect N = {}
      BY <2>2, NumberingUses
    <3>8. m \in Nat /\ l \in Nat /\ Len(old \o more) = m + l
      OBVIOUS
    <3>9. e \in Bijection(1..(m + l), UsesIn(J, c))
      <4> HIDE DEF N, b, m, l
      <4>1. a \in Bijection(1..m, UsesIn(G, c))
        BY DEF m
      <4>2. Joined(m, l, a, b) \in Bijection(1..(m + l), UsesIn(G, c) \union N)
        BY <3>6, <3>7, <3>8, <4>1, JoinedLists, Zenon
      <4>3. e = Joined(m, l, a, b)
        BY Zenon DEF Joined, e
      <4> HIDE DEF e
      <4> QED  BY <3>7, <4>2, <4>3, Zenon
    <3>10. old \in Seq(NumbersOf(J) \X Nat) /\ more \in Seq(NumbersOf(J) \X Nat)
      <4>1. /\ NumbersOf(G) \X Nat \subseteq NumbersOf(J) \X Nat
            /\ {k} \X Nat \subseteq NumbersOf(J) \X Nat
        BY <1>1
      <4> QED  BY <4>1, SeqMonotonic
    <3>11. J.reversed[c] \in Seq(NumbersOf(J) \X Nat)
      BY <3>3, <3>10
    <3>12. ASSUME NEW j \in 1..(m + l)
           PROVE  J.reversed[c][j] = <<e[j][1], PlaceOf(J.f, J.nodes[e[j][1]], e[j][2])>>
      <4>1. CASE j <= m
        <5>1. j \in 1..m /\ e[j] = a[j] /\ (old \o more)[j] = old[j]
          BY <3>8, <3>10, <4>1
        <5>2. a[j] \in UsesIn(G, c)
          BY <5>1, Fun_BijectionProperties
        <5>3. J.nodes[a[j][1]] = G.nodes[a[j][1]]
          BY <1>1, <5>2 DEF UsesIn
        <5> HIDE DEF e, b, N
        <5> QED  BY <1>2, <3>3, <3>4, <5>1, <5>3
      <4>2. CASE ~(j <= m)
        <5>1. j - m \in 1..l /\ e[j] = b[j - m] /\ (old \o more)[j] = more[j - m]
          BY <3>8, <3>10, <4>2
        <5>2. b[j - m] = <<k, at[c][j - m]>> /\ more[j - m] = <<k, PlaceOf(G.f, n, at[c][j - m])>>
          BY <3>5, <5>1
        <5> HIDE DEF e, b, N, m, l
        <5>3. e[j][1] = k /\ e[j][2] = at[c][j - m]
          BY <5>1, <5>2
        <5> QED  BY <1>1, <1>2, <3>3, <5>1, <5>2, <5>3
      <4> QED  BY <4>1, <4>2
    <3>13. Len(J.reversed[c]) = m + l
      BY <3>3, <3>8
    <3>14. ListsUses(J, c)
      <4> HIDE DEF e, m, l
      <4> QED  BY <3>9, <3>12, <3>13 DEF ListsUses
    <3> QED  BY <3>11, <3>14
  <2> QED  BY <1>1, <2>1, <2>2
<1> QED  BY <1>3, <1>4 DEF RowsRight

(***************************************************************************)
(* The walk of the constructor stays among the nodes of the formula and    *)
(* leaves no assertion out.                                                *)
(***************************************************************************)
WalkReaches ==
    /\ \A S \in SUBSET DagNode :
          ClosedNodes(input, S) => Range(visit) \subseteq S /\ DOMAIN node2index \subseteq S
    /\ \A n \in Range(input.assertions) : n \in Range(visit) \/ IsNumbered(n)

GraphGrows == GraphTypeOK /\ WalkReaches /\ RowsRight(Graph)

\* An empty walk reaches what it should.
LEMMA GrowingInitially ==
    ASSUME GraphInit
    PROVE  GraphGrows
<1>1. /\ input \in Inputs /\ visit = input.assertions /\ input.assertions \in Seq(DagNode)
      /\ DOMAIN node2index = {} /\ d_nodes = << >> /\ d_graph = << >> /\ d_reversed_graph = << >>
  BY InputTyped DEF GraphInit
<1>2. Numbers = {}
  BY <1>1 DEF Numbers
<1>3. GraphTypeOK
  BY <1>1, <1>2, WalkInitially DEF GraphTypeOK, WalkInv
<1>4. WalkReaches
  BY <1>1 DEF WalkReaches, ClosedNodes
<1>5. RowsRight(Graph)
  BY <1>2, GraphParts DEF RowsRight
<1> QED  BY <1>3, <1>4, <1>5 DEF GraphGrows

\* A popped stack holds what it held but for its top.
LEMMA PoppedFacts ==
    ASSUME WalkTypeOK, visit # << >>
    PROVE  /\ Range(Popped) \subseteq Range(visit)
           /\ Range(visit) \subseteq Range(Popped) \union {Top}
           /\ Top \in Range(visit)
<1>1. /\ visit \in Seq(DagNode) /\ Len(visit) \in Nat \ {0} /\ Top = visit[Len(visit)]
      /\ Popped \in Seq(DagNode) /\ Len(Popped) = Len(visit) - 1
      /\ \A i \in 1..Len(Popped) : Popped[i] = visit[i]
  BY StackFacts DEF WalkTypeOK
<1>2. PICK p \in Seq(DagNode) : p = Popped
  BY <1>1
<1>3. DOMAIN p = 1..(Len(visit) - 1) /\ DOMAIN visit = 1..Len(visit)
  BY <1>1, <1>2
<1>4. \A i \in DOMAIN p : p[i] = visit[i] /\ i \in DOMAIN visit
  BY <1>1, <1>2, <1>3
<1>5. \A i \in DOMAIN visit : i = Len(visit) \/ i \in DOMAIN p
  BY <1>1, <1>3
<1>6. Len(visit) \in DOMAIN visit
  BY <1>1, <1>3
<1> QED  BY <1>1, <1>2, <1>4, <1>5, <1>6 DEF Range

\* Expand: what is pushed belongs to the formula.
LEMMA ExpandGrows ==
    ASSUME WalkInv, GraphGrows, Expand
    PROVE  GraphGrows'
<1>1. PICK n \in DagNode : n = Top
  BY StackFacts DEF WalkInv, Expand
<1>2. /\ UNCHANGED <<input, d_nodes, d_graph, d_reversed_graph>>
      /\ visit # << >> /\ ~Seen(n)
      /\ node2index' = [m \in DOMAIN node2index \union {n} |->
                           IF m = n THEN Pending ELSE node2index[m]]
      /\ visit' = visit \o Successors(input, n)
      /\ WalkTypeOK
  BY <1>1 DEF Expand, WalkInv
<1>3. GraphTypeOK'
  <2>1. WalkTypeOK'
    BY ExpandKeepsWalk DEF WalkInv
  <2> QED  BY <1>2, <2>1 DEF GraphGrows, GraphTypeOK, Numbers
<1>4. Graph' = Graph
  BY <1>2 DEF Graph
<1>5. Range(visit') = Range(visit) \union Range(Successors(input, n)) /\ n \in Range(visit)
  <2>1. PICK s \in Seq(DagNode) : s = Successors(input, n)
    BY <1>2, InputTyped DEF WalkTypeOK
  <2>2. visit \in Seq(DagNode)
    BY <1>2 DEF WalkTypeOK
  <2>3. Range(visit \o s) = Range(visit) \union Range(s)
    <3>1. PICK l \in Nat, m \in Nat : l = Len(visit) /\ m = Len(s)
      BY <2>1, <2>2
    <3>2. /\ DOMAIN visit = 1..l /\ DOMAIN s = 1..m /\ DOMAIN (visit \o s) = 1..(l + m)
          /\ \A i \in 1..l : (visit \o s)[i] = visit[i]
          /\ \A i \in 1..(l + m) : i > l => (visit \o s)[i] = s[i - l]
      BY <2>1, <2>2, <3>1
    <3>3. PICK w : w = visit \o s
      OBVIOUS
    <3>4. \A i \in 1..l : i \in 1..(l + m)
      OBVIOUS
    <3>5. \A i \in 1..(l + m) : i \in 1..l \/ (i > l /\ i - l \in 1..m)
      OBVIOUS
    <3>6. \A i \in 1..m : i + l \in 1..(l + m) /\ i + l > l /\ (i + l) - l = i
      OBVIOUS
    <3>7. \A i \in 1..m : w[i + l] = s[i]
      BY <3>2, <3>3, <3>6
    <3>8. Range(w) \subseteq Range(visit) \union Range(s)
      BY <3>2, <3>3, <3>5 DEF Range
    <3>9. Range(visit) \union Range(s) \subseteq Range(w)
      <4>1. \A x \in Range(visit) : x \in Range(w)
        <5>1. \A i \in 1..l : w[i] = visit[i] /\ i \in DOMAIN w
          BY <3>2, <3>3, <3>4
        <5> QED  BY <3>2, <5>1 DEF Range
      <4>2. \A x \in Range(s) : x \in Range(w)
        <5>1. \A i \in 1..m : w[i + l] = s[i] /\ i + l \in DOMAIN w
          BY <3>2, <3>3, <3>6, <3>7
        <5> QED  BY <3>2, <5>1 DEF Range
      <4> QED  BY <4>1, <4>2
    <3> QED  BY <3>3, <3>8, <3>9
  <2>4. n \in Range(visit)
    BY <1>1, <1>2, PoppedFacts
  <2> QED  BY <1>2, <2>1, <2>3, <2>4
<1>6. \A S \in SUBSET DagNode :
         ClosedNodes(input, S)' => Range(visit') \subseteq S /\ DOMAIN node2index' \subseteq S
  BY <1>2, <1>5 DEF GraphGrows, WalkReaches, ClosedNodes
<1>7. ASSUME NEW m, IsNumbered(m)
      PROVE  IsNumbered(m)'
  BY <1>2, <1>7 DEF IsNumbered, Seen
<1>8. WalkReaches'
  BY <1>2, <1>5, <1>6, <1>7 DEF GraphGrows, WalkReaches
<1> QED  BY <1>3, <1>4, <1>8 DEF GraphGrows

\* Skip: nothing but a numbered node is dropped.
LEMMA SkipGrows ==
    ASSUME WalkInv, GraphGrows, Skip
    PROVE  GraphGrows'
<1>1. /\ UNCHANGED <<input, node2index, d_nodes, d_graph, d_reversed_graph>>
      /\ visit # << >> /\ IsNumbered(Top) /\ visit' = Popped /\ WalkTypeOK
  BY DEF Skip, WalkInv
<1>2. GraphTypeOK'
  <2>1. WalkTypeOK'
    BY SkipKeepsWalk DEF WalkInv
  <2> QED  BY <1>1, <2>1 DEF GraphGrows, GraphTypeOK, Numbers
<1>3. Graph' = Graph
  BY <1>1 DEF Graph
<1>4. Range(visit') \subseteq Range(visit) /\ Range(visit) \subseteq Range(visit') \union {Top}
  BY <1>1, PoppedFacts
<1>5. \A m : IsNumbered(m)' <=> IsNumbered(m)
  BY <1>1 DEF IsNumbered, Seen
<1>6. WalkReaches'
  BY <1>1, <1>4, <1>5 DEF GraphGrows, WalkReaches
<1> QED  BY <1>2, <1>3, <1>6 DEF GraphGrows

\* What the walk looks up where a node gets its number.
LEMMA NumberIsNumbering ==
    ASSUME WalkInv, GraphGrows, Number
    PROVE  \E n, G, J, row, new, at :
              /\ n \in DagNode /\ n = Top /\ G = Graph /\ J = Graph'
              /\ Numbering(G, J, Len(d_nodes) + 1, n, row, new, at)
<1>1. PICK n \in DagNode : n = Top
  BY StackFacts DEF WalkInv, Number
<1>2. PICK k : k = Len(d_nodes) + 1
  OBVIOUS
<1>3. input \in Inputs /\ d_nodes \in Seq(DagNode) /\ k \in Nat
  BY <1>2 DEF WalkInv, WalkTypeOK
<1>4. PICK f \in Inputs : f = input
  BY <1>3
<1>5. PICK s \in Seq(DagNode) : s = Successors(f, n)
  BY InputTyped
<1>6. PICK row : row = [j \in 1..Len(s) |-> node2index[s[j]]]
  OBVIOUS
<1>7. PICK new : new = [c \in Numbers |-> NewParentEdges(n, k, c)]
  OBVIOUS
<1>8. PICK at : at = [c \in Numbers |-> Only([j \in 1..Len(s) |-> j],
                                             {j \in 1..Len(s) : node2index[s[j]] = c})]
  OBVIOUS
<1>9. PICK G : G = Graph
  OBVIOUS
<1>10. PICK J : J = Graph'
  OBVIOUS
<1>11. /\ G.f = f /\ G.nodes = d_nodes /\ G.graph = d_graph /\ G.reversed = d_reversed_graph
       /\ NumbersOf(G) = Numbers
  BY <1>4, <1>9, GraphParts
<1>12. /\ J.f = input' /\ J.nodes = d_nodes' /\ J.graph = d_graph' /\ J.reversed = d_reversed_graph'
  BY <1>10 DEF Graph
<1>13. /\ input' = input /\ d_nodes' = Append(d_nodes, n)
  BY <1>1 DEF Number
<1>14. /\ \A j \in 1..Len(s) : node2index[s[j]] \in Numbers /\ d_nodes[node2index[s[j]]] = s[j]
       /\ d_graph'[k] = row /\ d_reversed_graph'[k] = << >>
       /\ \A c \in Numbers :
             /\ d_graph'[c] = d_graph[c]
             /\ d_reversed_graph'[c] = d_reversed_graph[c] \o NewParentEdges(n, k, c)
  <2>1. \A j \in 1..Len(s) : node2index[s[j]] \in Numbers /\ d_nodes[node2index[s[j]]] = s[j]
    <3>1. \A c \in Range(s) : IsNumbered(c)
      BY <1>1, <1>4, <1>5, TopIsReady DEF OperandsNumberedFirst, Number
    <3>2. \A j \in 1..Len(s) : s[j] \in Range(s)
      BY DEF Range
    <3>3. \A c \in Range(s) : node2index[c] \in Numbers /\ d_nodes[node2index[c]] = c
      BY <3>1 DEF WalkInv, NumberedOnce, IsNumbered, Seen
    <3> QED  BY <3>2, <3>3
  <2>2. PICK edges : edges = [c \in 1..Len(d_reversed_graph) |->
                                d_reversed_graph[c] \o NewParentEdges(n, k, c)]
    OBVIOUS
  <2>3. d_graph' = Append(d_graph, row) /\ d_reversed_graph' = Append(edges, << >>)
    <3>1. d_graph' = Append(d_graph, [j \in 1..Len(s) |-> node2index[s[j]]])
      BY <1>1, <1>4, <1>5 DEF Number
    <3>2. d_reversed_graph' = Append([c \in 1..Len(d_reversed_graph) |->
                                d_reversed_graph[c] \o NewParentEdges(n, k, c)], << >>)
      BY <1>1, <1>2 DEF Number
    <3> QED  BY <1>6, <2>2, <3>1, <3>2
  <2>4. PICK l \in Nat : l = Len(d_nodes) /\ k = l + 1 /\ Numbers = 1..l
    BY <1>2, <1>3 DEF Numbers
  <2>5. DOMAIN d_graph = 1..l /\ DOMAIN d_reversed_graph = 1..l
    BY <2>4 DEF GraphGrows, GraphTypeOK
  <2>6. Len(d_graph) = l /\ Len(d_reversed_graph) = l
    BY <2>5
  <2>7. Len(edges) = l /\ \A c \in 1..l : edges[c] = d_reversed_graph[c] \o NewParentEdges(n, k, c)
    BY <2>2, <2>6
  <2>8. d_graph'[k] = row /\ \A c \in 1..l : d_graph'[c] = d_graph[c]
    BY <2>3, <2>4, <2>6
  <2>9. d_reversed_graph'[k] = << >> /\ \A c \in 1..l : d_reversed_graph'[c] = edges[c]
    BY <2>3, <2>4, <2>7
  <2> QED  BY <2>1, <2>4, <2>7, <2>8, <2>9
<1>15. row \in Seq(Numbers) /\ Len(row) = Len(s) /\ DOMAIN row = 1..Len(s)
       /\ \A j \in DOMAIN row : row[j] = node2index[s[j]]
  BY <1>6, <1>14
<1>16. ASSUME NEW c \in Numbers
       PROVE  /\ new[c] = NewParentEdges(n, k, c)
              /\ new[c] \in Seq({k} \X Nat)
              /\ at[c] \in Bijection(1..Len(new[c]), {j \in DOMAIN row : row[j] = c})
              /\ \A j \in 1..Len(new[c]) : new[c][j] = <<k, PlaceOf(f, n, at[c][j])>>
  <2>1. new[c] = NewParentEdges(n, k, c)
    BY <1>7
  <2>2. new[c] \in Seq({k} \X Nat)
    <3>1. Successors(input, n) \in Seq(DagNode)
      BY <1>4, <1>5
    <3>2. NewParentEdges(n, k, c) \in Seq({k} \X Nat)
      BY <1>3, <3>1, NewEdgesFacts, Zenon
    <3> QED  BY <2>1, <3>2
  <2>3. PICK m \in Nat : m = Len(s)
    OBVIOUS
  <2>4. PICK A \in SUBSET (1..m) : A = {j \in 1..m : node2index[s[j]] = c}
    OBVIOUS
  <2>5. PICK a : a = Only([j \in 1..m |-> j], A)
    OBVIOUS
  <2>6. a \in Seq(1..m) /\ a \in Bijection(1..Len(a), A)
    BY <2>5, OnlyListsPlaces
  <2>7. at[c] = a
    BY <1>8, <2>3, <2>4, <2>5, Zenon
  <2>8. A = {j \in DOMAIN row : row[j] = c}
    BY <1>15, <2>3, <2>4
  <2>9. NewParentEdges(n, k, c) = [j \in 1..Len(a) |-> <<k, OperandPosition(n, a[j])>>]
    <3>1. NewParentEdges(n, k, c) =
            LET t == Only([i \in 1..Len(s) |-> i], {i \in 1..Len(s) : node2index[s[i]] = c})
            IN [j \in 1..Len(t) |-> <<k, OperandPosition(n, t[j])>>]
      BY <1>4, <1>5 DEF NewParentEdges
    <3> QED  BY <2>3, <2>4, <2>5, <3>1, Zenon
  <2>10. \A j \in 1..Len(a) : OperandPosition(n, a[j]) = PlaceOf(f, n, a[j])
    BY <1>4 DEF OperandPosition, PlaceOf
  <2>11. Len(a) \in Nat
    BY <2>6
  <2>12. Len(new[c]) = Len(a) /\ \A j \in 1..Len(a) : new[c][j] = <<k, PlaceOf(f, n, a[j])>>
    BY <2>1, <2>9, <2>10, <2>11
  <2> QED  BY <2>1, <2>2, <2>6, <2>7, <2>8, <2>12
<1>17. ASSUME NEW c \in NumbersOf(G)
       PROVE  /\ J.graph[c] = G.graph[c]
              /\ J.reversed[c] = G.reversed[c] \o new[c]
              /\ new[c] \in Seq({k} \X Nat)
              /\ at[c] \in Bijection(1..Len(new[c]), {j \in DOMAIN row : row[j] = c})
              /\ \A j \in 1..Len(new[c]) : new[c][j] = <<k, PlaceOf(G.f, n, at[c][j])>>
  <2>1. c \in Numbers
    BY <1>11
  <2>2. J.graph[c] = G.graph[c] /\ J.reversed[c] = G.reversed[c] \o NewParentEdges(n, k, c)
    BY <1>11, <1>12, <1>14, <2>1, Zenon
  <2> QED  BY <1>11, <1>16, <2>1, <2>2, Zenon
<1>18. J.f = G.f /\ J.nodes = Append(G.nodes, n) /\ k = Len(G.nodes) + 1
  BY <1>2, <1>4, <1>11, <1>12, <1>13, Zenon
<1>19. /\ row \in Seq(NumbersOf(G)) /\ Len(row) = Len(Successors(G.f, n))
       /\ \A j \in DOMAIN row : G.nodes[row[j]] = Successors(G.f, n)[j]
  BY <1>5, <1>11, <1>14, <1>15
<1>20. J.graph[k] = row /\ J.reversed[k] = << >>
  BY <1>12, <1>14, Zenon
<1>21. G.f \in Inputs /\ G.nodes \in Seq(DagNode)
  BY <1>3, <1>11
<1>22. Numbering(G, J, k, n, row, new, at)
  BY <1>17, <1>18, <1>19, <1>20, <1>21, Zenon DEF Numbering
<1> QED  BY <1>1, <1>2, <1>9, <1>10, <1>22, Zenon

\* Number: the graph grows by a row.
LEMMA NumberGrows ==
    ASSUME WalkInv, GraphGrows, Number
    PROVE  GraphGrows'
<1>1. PICK n, G, J, row, new, at :
              /\ n \in DagNode /\ n = Top /\ G = Graph /\ J = Graph'
              /\ Numbering(G, J, Len(d_nodes) + 1, n, row, new, at)
  BY NumberIsNumbering
<1>2. RowsRight(J)
  <2>1. PICK k : k = Len(d_nodes) + 1
    OBVIOUS
  <2>2. RowsRight(G) /\ Numbering(G, J, k, n, row, new, at)
    BY <1>1, <2>1 DEF GraphGrows
  <2> QED  BY <2>2, NumberingKeepsRows, Zenon
<1>3. RowsRight(Graph)'
  BY <1>1, <1>2
<1>4. /\ input' = input /\ visit # << >> /\ IsPending(n) /\ visit' = Popped /\ WalkTypeOK
      /\ node2index' = [node2index EXCEPT ![n] = Len(d_nodes) + 1]
      /\ Len(d_nodes) \in Nat
  BY <1>1 DEF Number, WalkInv, WalkTypeOK
<1>5. GraphTypeOK'
  <2>1. WalkTypeOK'
    BY NumberKeepsWalk DEF WalkInv
  <2>2. d_nodes' = Append(d_nodes, n) /\ d_nodes \in Seq(DagNode)
    BY <1>1, <1>4 DEF Number, WalkTypeOK
  <2>3. Numbers' = 1..(Len(d_nodes) + 1)
    BY <2>2 DEF Numbers
  <2>4. DOMAIN d_graph = 1..Len(d_nodes) /\ DOMAIN d_reversed_graph = 1..Len(d_nodes)
    BY DEF GraphGrows, GraphTypeOK, Numbers
  <2>5. Len(d_graph) = Len(d_nodes) /\ Len(d_reversed_graph) = Len(d_nodes)
    BY <1>4, <2>4
  <2>6. \E row1, edges : /\ d_graph' = Append(d_graph, row1)
                         /\ DOMAIN edges = 1..Len(d_reversed_graph)
                         /\ d_reversed_graph' = Append(edges, << >>)
    BY DEF Number
  <2>7. DOMAIN d_graph' = 1..(Len(d_nodes) + 1) /\ DOMAIN d_reversed_graph' = 1..(Len(d_nodes) + 1)
    <3>1. PICK row1, edges : /\ d_graph' = Append(d_graph, row1)
                         /\ DOMAIN edges = 1..Len(d_reversed_graph)
                         /\ d_reversed_graph' = Append(edges, << >>)
      BY <2>6
    <3>2. PICK l \in Nat : l = Len(d_nodes)
      BY <1>4
    <3>3. Len(edges) = l /\ Len(d_graph) = l
      BY <2>5, <3>1, <3>2
    <3>4. DOMAIN Append(d_graph, row1) = 1..(l + 1)
      BY <3>3
    <3>5. DOMAIN Append(edges, << >>) = 1..(l + 1)
      BY <3>3
    <3> QED  BY <3>1, <3>2, <3>4, <3>5
  <2> QED  BY <2>1, <2>3, <2>7 DEF GraphTypeOK
<1>6. Range(visit') \subseteq Range(visit) /\ Range(visit) \subseteq Range(visit') \union {n}
  BY <1>1, <1>4, PoppedFacts
<1>7. DOMAIN node2index' = DOMAIN node2index
  BY <1>4
<1>8. IsNumbered(n)' /\ \A m : IsNumbered(m) => IsNumbered(m)'
  <2>1. n \in DOMAIN node2index
    BY <1>4 DEF IsPending, Seen
  <2> QED  BY <1>4, <1>7, <2>1 DEF IsNumbered, Seen, Pending
<1>9. WalkReaches'
  <2>1. \A S \in SUBSET DagNode :
         ClosedNodes(input, S)' => Range(visit') \subseteq S /\ DOMAIN node2index' \subseteq S
    BY <1>4, <1>6, <1>7 DEF GraphGrows, WalkReaches
  <2>2. \A m \in Range(input'.assertions) : m \in Range(visit') \/ IsNumbered(m)'
    BY <1>4, <1>6, <1>8 DEF GraphGrows, WalkReaches
  <2> QED  BY <2>1, <2>2 DEF WalkReaches
<1> QED  BY <1>3, <1>5, <1>9 DEF GraphGrows

\* When the stack is empty the graph is that of the formula.
LEMMA WalkedGraph ==
    ASSUME WalkInv, GraphGrows, visit = << >>
    PROVE  IsGraph(Graph)
<1>1. /\ Graph.f = input /\ Graph.nodes = d_nodes /\ Graph.graph = d_graph
      /\ NumbersOf(Graph) = Numbers
  BY GraphParts
<1>2. /\ input \in Inputs /\ d_nodes \in Seq(DagNode) /\ DOMAIN node2index \subseteq DagNode
      /\ RowsRight(Graph)
  BY DEF WalkInv, WalkTypeOK, GraphGrows
<1>3. \A i \in Numbers : d_nodes[i] \in DOMAIN node2index /\ node2index[d_nodes[i]] = i
                         /\ d_nodes[i] \in DagNode
  BY <1>2 DEF WalkInv, NumberedOnce, Seen
<1>4. PICK N \in SUBSET DagNode : N = {d_nodes[i] : i \in Numbers}
  BY <1>3
<1>5. ClosedNodes(input, N)
  <2>1. Range(input.assertions) \subseteq N
    <3>1. Range(visit) = {}
      BY DEF Range
    <3>2. \A n \in Range(input.assertions) : IsNumbered(n)
      BY <3>1 DEF GraphGrows, WalkReaches
    <3> QED  BY <1>4, <3>2 DEF WalkInv, NumberedOnce, IsNumbered, Seen
  <2>2. ASSUME NEW i \in Numbers
        PROVE  Range(Successors(input, d_nodes[i])) \subseteq N
    <3>1. PICK n \in DagNode : n = d_nodes[i]
      BY <1>3
    <3>2. PICK s \in Seq(DagNode) : s = Successors(input, n)
      BY <1>2, InputTyped
    <3>3. PICK r \in Seq(Numbers) : /\ r = d_graph[i] /\ Len(r) = Len(s)
                                    /\ \A k \in DOMAIN r : d_nodes[r[k]] = s[k]
      BY <1>1, <1>2, <3>1, <3>2 DEF RowsRight
    <3>4. DOMAIN s = DOMAIN r /\ \A k \in DOMAIN r : r[k] \in Numbers
      BY <3>3
    <3>5. \A k \in DOMAIN s : s[k] \in N
      BY <1>4, <3>3, <3>4
    <3> QED  BY <3>1, <3>2, <3>5 DEF Range
  <2> QED  BY <1>4, <2>1, <2>2 DEF ClosedNodes
<1>6. ASSUME NEW S \in SUBSET DagNode, ClosedNodes(input, S)
      PROVE  N \subseteq S
  BY <1>3, <1>4, <1>6 DEF GraphGrows, WalkReaches
<1>7. N = FormulaNodes(input)
  BY <1>5, <1>6 DEF FormulaNodes
<1>8. \A i, j \in Numbers : d_nodes[i] = d_nodes[j] => i = j
  BY <1>3
<1> QED  BY <1>1, <1>2, <1>4, <1>7, <1>8 DEF IsGraph

(***************************************************************************)
(* What context propagation leaves at each node of formula f.              *)
(***************************************************************************)
IsContextOf(f, cp, context) ==
    \E G, T :
        /\ IsGraph(G) /\ G.f = f /\ IsContext(G, cp, T)
        /\ context = [n \in FormulaNodes(f) |-> context[n]]
        /\ \A i \in NumbersOf(G) : context[G.nodes[i]] = T[i]

\* Two presentations of a formula have one context.
LEMMA OneContext ==
    ASSUME NEW f, NEW g, SameFormula(f, g), NEW cp, NEW a, NEW b,
           IsContextOf(f, cp, a), IsContextOf(g, cp, b)
    PROVE  a = b
<1>1. PICK G, T : /\ IsGraph(G) /\ G.f = f /\ IsContext(G, cp, T)
                  /\ a = [n \in FormulaNodes(f) |-> a[n]]
                  /\ \A i \in NumbersOf(G) : a[G.nodes[i]] = T[i]
  BY Zenon DEF IsContextOf
<1>2. PICK H, U : /\ IsGraph(H) /\ H.f = g /\ IsContext(H, cp, U)
                  /\ b = [n \in FormulaNodes(g) |-> b[n]]
                  /\ \A i \in NumbersOf(H) : b[H.nodes[i]] = U[i]
  BY Zenon DEF IsContextOf
<1>3. f \in Inputs /\ g \in Inputs
  BY <1>1, <1>2 DEF IsGraph
<1>4. PICK s : GraphsAlike(G, H, s)
  BY <1>1, <1>2, GraphsAreAlike
<1>5. TablesAlike(G, s, T, U)
  <2>1. HashesAlike(G, H, s, T, U)
    BY <1>1, <1>2, <1>4, ContextsAgree, Zenon
  <2> QED  BY <2>1 DEF HashesAlike
<1>6. FormulaNodes(f) = FormulaNodes(g) /\ FormulaNodes(f) = {G.nodes[i] : i \in NumbersOf(G)}
  BY <1>1, <1>3, SameNodes DEF IsGraph
<1>7. \A n \in FormulaNodes(f) : a[n] = b[n]
  <2> TAKE n \in FormulaNodes(f)
  <2>1. PICK i \in NumbersOf(G) : n = G.nodes[i]
    BY <1>6
  <2>2. s[i] \in NumbersOf(H) /\ H.nodes[s[i]] = n
    BY <1>4, <2>1, AlikeFacts
  <2>3. U[s[i]] = T[i]
    BY <1>5 DEF TablesAlike
  <2> QED  BY <1>1, <1>2, <2>1, <2>2, <2>3
<1>8. [n \in FormulaNodes(f) |-> a[n]] = [n \in FormulaNodes(g) |-> b[n]]
  BY <1>6, <1>7
<1> QED  BY <1>1, <1>2, <1>8, Zenon

\* A run is continued by a turn.
LEMMA RunExtends ==
    ASSUME NEW G, NEW cp, NEW run, NEW k, IsRun(G, cp, run, k), NEW T, IsTurn(G, cp, run[k], T)
    PROVE  \E more : /\ IsRun(G, cp, more, k + 1)
                     /\ more[k + 1] = T
                     /\ \A j \in 0..k : more[j] = run[j]
<1>1. k \in Nat /\ run[0] = FirstTable(G) /\ \A j \in 1..k : IsTurn(G, cp, run[j - 1], run[j])
  BY DEF IsRun
<1>2. PICK more : more = [j \in 0..(k + 1) |-> IF j = k + 1 THEN T ELSE run[j]]
  OBVIOUS
<1>3. more[k + 1] = T /\ \A j \in 0..k : more[j] = run[j]
  BY <1>1, <1>2
<1>4. \A j \in 1..(k + 1) : IsTurn(G, cp, more[j - 1], more[j])
  <2> TAKE j \in 1..(k + 1)
  <2>1. CASE j = k + 1
    <3>1. j - 1 = k /\ k \in 0..k
      BY <1>1, <2>1
    <3>2. more[j - 1] = run[k] /\ more[j] = T
      BY <1>3, <2>1, <3>1
    <3> QED  BY <3>2
  <2>2. CASE j # k + 1
    <3>1. j \in 1..k /\ j \in 0..k /\ j - 1 \in 0..k
      BY <1>1, <2>2
    <3>2. more[j - 1] = run[j - 1] /\ more[j] = run[j]
      BY <1>3, <3>1
    <3> QED  BY <1>1, <3>1, <3>2
  <2> QED  BY <2>1, <2>2
<1>5. k + 1 \in Nat /\ more[0] = FirstTable(G)
  BY <1>1, <1>3
<1> QED  BY <1>3, <1>4, <1>5 DEF IsRun

\* The turns made already count as they did.
LEMMA SameCounts ==
    ASSUME NEW G, NEW run, NEW more, NEW k \in Nat, \A j \in 0..k : more[j] = run[j],
           GoesOn(G, run, k)
    PROVE  GoesOn(G, more, k) /\ CountAt(G, more, k) = CountAt(G, run, k)
<1>1. \A j \in 0..k : CountAt(G, more, j) = CountAt(G, run, j)
  BY DEF CountAt
<1>2. \A j \in 1..k : j \in 0..k /\ j - 1 \in 0..k
  OBVIOUS
<1>3. k \in 0..k
  OBVIOUS
<1> QED  BY <1>1, <1>2, <1>3 DEF GoesOn

-----------------------------------------------------------------------------
\* The first context_propagate, some turns on.
Propagating(G, table, count) ==
    /\ IsGraph(G)
    /\ \E run, k : /\ IsRun(G, options.cp, run, k) /\ GoesOn(G, run, k)
                   /\ table = run[k] /\ count = CountAt(G, run, k)

(***************************************************************************)
(* Of the kernel at hand and of those before it in the process.            *)
(***************************************************************************)
ContextInv ==
    /\ WalkInv
    /\ session \in Sessions
    /\ earlier \in Seq(Range(earlier))
    /\ phase = "build" => GraphGrows
    /\ phase = "context" =>
          /\ DOMAIN d_hash_table = Numbers
          /\ \E count :
                /\ call = [processing |-> Numbers, symbols |-> SymbolNumbers, count |-> count]
                /\ Propagating(Graph, d_hash_table, count)
    /\ phase \notin {"build", "context", "error"} =>
          IsContextOf(input, options.cp, ContextByNode)
    /\ \A e \in Range(earlier) :
          e.phase = "done" => IsContextOf(e.input, e.options.cp, e.context)

\* The walk of every kernel of the process starts anew.
LEMMA StartsAnew == GraphInit' => WalkInv' /\ GraphGrows'
<1>1. GraphInit => WalkInv /\ GraphGrows
  BY WalkInitially, GrowingInitially
<1> QED  BY <1>1, PTL

\* The invariant holds of a process that starts.
LEMMA ContextInitially ==
    ASSUME SessionInit
    PROVE  ContextInv
<1>1. GraphInit /\ phase = "build" /\ session \in Sessions /\ earlier = << >>
  BY DEF SessionInit, SortsInit, LaterKernel, Fresh
<1>2. WalkInv /\ GraphGrows
  BY <1>1, WalkInitially, GrowingInitially
<1>3. Range(earlier) = {} /\ earlier \in Seq(Range(earlier))
  BY <1>1 DEF Range
<1> QED  BY <1>1, <1>2, <1>3 DEF ContextInv

\* Once the context hashes are there nothing changes them.
LEMMA ContextStays ==
    ASSUME ContextInv,
           UNCHANGED <<input, visit, node2index, d_nodes, options, d_context_hash>>,
           UNCHANGED <<session, earlier>>,
           phase' \notin {"build", "context"},
           phase' = "error" \/ phase \notin {"build", "context", "error"}
    PROVE  ContextInv'
<1>1. WalkInv'
  BY WalkInductive DEF ContextInv, walkVars
<1>2. ContextByNode' = ContextByNode
  BY DEF ContextByNode
<1> QED  BY <1>1, <1>2 DEF ContextInv

\* The walk.
LEMMA BuildContext ==
    ASSUME ContextInv, Build, UNCHANGED <<session, earlier>>
    PROVE  ContextInv'
<1>1. phase = "build" /\ phase' = "build" /\ GraphNext /\ WalkInv /\ GraphGrows
  BY DEF Build, kernelVars, ContextInv
<1>2. WalkInv'
  BY <1>1, WalkInductive
<1>3. GraphGrows'
  BY <1>1, ExpandGrows, NumberGrows, SkipGrows DEF GraphNext
<1> QED  BY <1>1, <1>2, <1>3 DEF ContextInv

\* The call of context_propagate: no turn has been made.
LEMMA StartContext ==
    ASSUME ContextInv, StartApply, UNCHANGED <<session, earlier>>
    PROVE  ContextInv'
<1>1. /\ phase = "build" /\ phase' = "context" /\ visit = << >>
      /\ UNCHANGED graphVars /\ options' = options
      /\ d_hash_table' = [i \in Numbers |-> hash_node(i)]
      /\ call' = [processing |-> Numbers, symbols |-> SymbolNumbers, count |-> 0]
      /\ WalkInv /\ GraphGrows
  BY DEF StartApply, ContextInv
<1>2. WalkInv'
  BY <1>1, WalkInductive DEF walkVars, graphVars
<1>3. Numbers' = Numbers /\ SymbolNumbers' = SymbolNumbers /\ Graph' = Graph
  BY <1>1 DEF graphVars, Numbers, SymbolNumbers, IsSymbol, Graph
<1>4. IsGraph(Graph)
  BY <1>1, WalkedGraph
<1>5. DOMAIN d_hash_table' = Numbers
  BY <1>1
<1>6. Propagating(Graph, d_hash_table, 0)'
  <2>1. PICK G : G = Graph
    OBVIOUS
  <2>2. PICK t : t = d_hash_table'
    OBVIOUS
  <2>3. PICK run : run = [j \in {0} |-> t]
    OBVIOUS
  <2>4. t = FirstTable(G)
    BY <1>1, <2>1, <2>2, StartsWithFirst
  <2>5. run[0] = t
    BY <2>3
  <2>6. \A cp : IsRun(G, cp, run, 0)
    BY <2>4, <2>5 DEF IsRun
  <2>7. GoesOn(G, run, 0) /\ CountAt(G, run, 0) = 0
    BY DEF GoesOn, CountAt
  <2>8. Graph' = G /\ d_hash_table' = t /\ IsGraph(G)
    BY <1>3, <1>4, <1>5, <2>1, <2>2
  <2> QED  BY <2>5, <2>6, <2>7, <2>8, Zenon DEF Propagating
<1> QED  BY <1>1, <1>2, <1>3, <1>5, <1>6 DEF ContextInv

\* A turn of the first context_propagate.
LEMMA TurnOfContext ==
    ASSUME ContextInv, Propagate, phase = "context", UNCHANGED <<session, earlier>>
    PROVE  ContextInv'
<1>1. /\ UNCHANGED <<input, visit, node2index, d_nodes, d_graph, d_reversed_graph, options>>
      /\ d_hash_table' = propagate(call.processing)
  BY DEF Propagate, graphVars
<1>2. /\ WalkInv /\ session \in Sessions /\ earlier \in Seq(Range(earlier))
      /\ DOMAIN d_hash_table = Numbers
      /\ \A e \in Range(earlier) : e.phase = "done" => IsContextOf(e.input, e.options.cp, e.context)
  BY DEF ContextInv
<1>30. PICK before : /\ call = [processing |-> Numbers, symbols |-> SymbolNumbers, count |-> before]
                     /\ Propagating(Graph, d_hash_table, before)
  BY DEF ContextInv
<1>31. /\ call.processing = Numbers /\ call.symbols = SymbolNumbers /\ call.count = before
       /\ \A n : [call EXCEPT !.count = n]
                    = [processing |-> Numbers, symbols |-> SymbolNumbers, count |-> n]
  BY <1>30
<1>3. WalkInv'
  BY <1>1, <1>2, WalkInductive DEF walkVars
<1>4. Numbers' = Numbers /\ SymbolNumbers' = SymbolNumbers /\ Graph' = Graph
  BY <1>1 DEF Numbers, SymbolNumbers, IsSymbol, Graph
<1>5. PICK G : G = Graph
  OBVIOUS
<1>6. IsGraph(G) /\ NumbersOf(G) = Numbers /\ SymbolsOf(G) = SymbolNumbers
      /\ G.f = input /\ G.nodes = d_nodes
  BY <1>30, <1>5, GraphParts DEF Propagating
<1>7. PICK cp : cp = options.cp
  OBVIOUS
<1>8. PICK run, k : /\ IsRun(G, cp, run, k) /\ GoesOn(G, run, k)
                    /\ d_hash_table = run[k] /\ before = CountAt(G, run, k)
  BY <1>30, <1>5, <1>7 DEF Propagating
<1>9. PICK T : T = d_hash_table'
  OBVIOUS
<1>10. IsTurn(G, cp, run[k], T)
  <2>1. IsTurn(Graph, options.cp, d_hash_table, propagate(Numbers))
    <3>1. IsGraph(Graph) /\ DOMAIN d_hash_table = Numbers
      BY <1>2, <1>5, <1>6
    <3> QED  BY <3>1, PropagateTurns, Zenon
  <2>2. T = propagate(Numbers)
    BY <1>1, <1>31, <1>9
  <2> QED  BY <1>5, <1>7, <1>8, <2>1, <2>2, Zenon
<1>11. DOMAIN T = Numbers
  BY <1>6, <1>10, Zenon DEF IsTurn
<1>12. PICK more : /\ IsRun(G, cp, more, k + 1) /\ more[k + 1] = T
                   /\ \A j \in 0..k : more[j] = run[j]
  BY <1>8, <1>10, RunExtends
<1>13. k \in Nat
  BY <1>8 DEF IsRun
<1>14. GoesOn(G, more, k) /\ CountAt(G, more, k) = before
  BY <1>8, <1>12, <1>13, SameCounts
<1>15. PICK count : count = DistinctHashes(T, SymbolNumbers)
  OBVIOUS
<1>16. CountAt(G, more, k + 1) = count
  BY <1>6, <1>12, <1>13, <1>15 DEF CountAt
<1>17. IF count # before
       THEN /\ call' = [processing |-> Numbers, symbols |-> SymbolNumbers, count |-> count]
            /\ phase' = "context"
       ELSE phase' = "loop" /\ d_context_hash' = T
  <2>1. count = DistinctHashes(d_hash_table', call.symbols)
    BY <1>31, <1>9, <1>15
  <2> QED  BY <1>9, <1>31, <2>1 DEF Propagate
<1>18. CASE count # before
  <2>1. GoesOn(G, more, k + 1)
    <3>1. \A j \in 1..(k + 1) : j = k + 1 \/ j \in 1..k
      BY <1>13
    <3>2. (k + 1) - 1 = k
      BY <1>13
    <3> QED  BY <1>14, <1>16, <1>18, <3>1, <3>2 DEF GoesOn
  <2>2. Propagating(Graph, d_hash_table, count)'
    <3>1. Graph' = G /\ d_hash_table' = T /\ options'.cp = cp
      BY <1>1, <1>4, <1>5, <1>7, <1>9
    <3> QED  BY <1>6, <1>12, <1>16, <2>1, <3>1, Zenon DEF Propagating
  <2> QED  BY <1>1, <1>2, <1>3, <1>4, <1>9, <1>11, <1>17, <1>18, <2>2 DEF ContextInv
<1>19. CASE count = before
  <2>1. IsContext(G, cp, T)
    <3>1. k + 1 # 0 /\ (k + 1) - 1 = k
      BY <1>13
    <3> QED  BY <1>12, <1>14, <1>16, <1>19, <3>1 DEF IsContext
  <2>2. d_context_hash' = T /\ phase' = "loop"
    BY <1>17, <1>19
  <2>3. \A i \in Numbers : node2index[d_nodes[i]] = i
    BY <1>2 DEF WalkInv, NumberedOnce
  <2>4. PICK context : context = ContextByNode'
    OBVIOUS
  <2>5. FormulaNodes(input) = {d_nodes[i] : i \in Numbers}
    BY <1>6 DEF IsGraph
  <2>6. context = [n \in {d_nodes[i] : i \in Numbers} |-> T[node2index[n]]]
    <3>1. DOMAIN d_context_hash' = Numbers
      BY <1>11, <2>2
    <3> QED  BY <1>1, <2>2, <2>4, <3>1 DEF ContextByNode
  <2>7. context = [n \in FormulaNodes(input) |-> context[n]]
    BY <2>5, <2>6
  <2>8. \A i \in NumbersOf(G) : context[G.nodes[i]] = T[i]
    <3>1. PICK D : D = {d_nodes[i] : i \in Numbers}
      OBVIOUS
    <3>2. \A i \in Numbers : d_nodes[i] \in D
      BY <3>1
    <3>3. \A n \in D : context[n] = T[node2index[n]]
      BY <2>6, <3>1
    <3> QED  BY <1>6, <2>3, <3>2, <3>3
  <2>9. IsContextOf(input, cp, context)
    <3>1. PICK f : f = input
      OBVIOUS
    <3>2. IsGraph(G) /\ G.f = f /\ context = [n \in FormulaNodes(f) |-> context[n]]
      BY <1>6, <2>7, <3>1
    <3>3. IsContextOf(f, cp, context)
      <4> SUFFICES \E H, U : /\ IsGraph(H) /\ H.f = f /\ IsContext(H, cp, U)
                             /\ context = [n \in FormulaNodes(f) |-> context[n]]
                             /\ \A i \in NumbersOf(H) : context[H.nodes[i]] = U[i]
        BY DEF IsContextOf
      <4> WITNESS G, T
      <4> QED  BY <2>1, <2>8, <3>2
    <3> QED  BY <3>1, <3>3
  <2>10. IsContextOf(input, options.cp, ContextByNode)'
    BY <1>1, <1>7, <2>4, <2>9
  <2> QED  BY <1>1, <1>2, <1>3, <2>2, <2>10 DEF ContextInv
<1> QED  BY <1>18, <1>19

\* Every step of apply.
LEMMA StepContext ==
    ASSUME ContextInv, Step, UNCHANGED <<session, earlier>>
    PROVE  ContextInv'
<1>1. CASE Propagate
  <2>1. CASE phase = "context"
    BY <1>1, <2>1, TurnOfContext
  <2>2. CASE phase = "region"
    <3>1. UNCHANGED <<input, visit, node2index, d_nodes, options, d_context_hash>>
          /\ phase' \in {"region", "specific"}
      <4>1. PICK count : count = DistinctHashes(d_hash_table', call.symbols)
        OBVIOUS
      <4> QED  BY <1>1, <2>2, <4>1 DEF Propagate, graphVars
    <3> QED  BY <2>2, <3>1, ContextStays
  <2> QED  BY <1>1, <2>1, <2>2 DEF Propagate
<1>2. CASE PropagateThrows
  <2>1. UNCHANGED <<input, visit, node2index, d_nodes, options, d_context_hash>> /\ phase' = "error"
    BY <1>2 DEF PropagateThrows, graphVars
  <2> QED  BY <2>1, ContextStays
<1>3. ASSUME NEW s \in d_symbols, Region(s)
      PROVE  ContextInv'
  <2>1. UNCHANGED <<input, visit, node2index, d_nodes, options, d_context_hash>>
        /\ phase = "specific" /\ phase' \in {"specific", "region"}
    BY <1>3 DEF Region, graphVars
  <2> QED  BY <2>1, ContextStays
<1>4. CASE SpecificDone \/ RefineInPlace \/ RefineDone
  <2>1. UNCHANGED <<input, visit, node2index, d_nodes, options, d_context_hash>>
        /\ phase \in {"specific", "loop"} /\ phase' \in {"loop", "specific", "rename"}
    BY <1>4 DEF SpecificDone, RefineInPlace, RefineDone, graphVars
  <2> QED  BY <2>1, ContextStays
<1>5. CASE RefineWithPruning
  <2>1. UNCHANGED <<input, visit, node2index, d_nodes, options, d_context_hash>>
        /\ phase = "loop" /\ phase' = "specific"
    BY <1>5 DEF RefineWithPruning
  <2> QED  BY <2>1, ContextStays
<1>6. CASE Rename \/ RenameThrows
  <2>1. UNCHANGED <<input, visit, node2index, d_nodes, options, d_context_hash>>
        /\ phase = "rename" /\ phase' \in {"done", "error"}
    BY <1>6 DEF Rename, RenameThrows, graphVars
  <2> QED  BY <2>1, ContextStays
<1> QED  BY <1>1, <1>2, <1>3, <1>4, <1>5, <1>6, BuildContext, StartContext DEF Step

\* The next kernel of the process.
LEMMA NextContext ==
    ASSUME ContextInv, NextKernel
    PROVE  ContextInv'
<1>1. GraphInit'
  <2>10. PICK R : R = [script : Scripts, options : Modes]
    OBVIOUS
  <2>1. PICK s \in Seq(R) : s = session
    BY <2>10, SessionsAssumption DEF ContextInv
  <2>2. PICK k : k = Len(earlier) + 2 /\ Len(earlier) \in Nat
    <3>1. \A S : \A x \in Seq(S) : Len(x) \in Nat
      OBVIOUS
    <3>2. Len(earlier) \in Nat
      BY <3>1 DEF ContextInv
    <3> QED  BY <3>2
  <2>3. k \in 1..Len(s)
    <3>1. Len(earlier) + 1 < Len(s) /\ Len(s) \in Nat
      BY <2>1 DEF NextKernel
    <3> QED  BY <2>2, <3>1
  <2>4. s[k].script \in Scripts
    <3>1. s[k] \in R
      BY <2>3
    <3> QED  BY <2>10, <3>1
  <2>5. input' = s[k].script.input
    BY <2>1, <2>2 DEF NextKernel
  <2>6. input' \in Inputs
    BY <2>4, <2>5, ScriptsAssumption
  <2> QED  BY <2>6 DEF NextKernel, NewKernel, GraphInit
<1>2. WalkInv' /\ GraphGrows'
  BY <1>1, StartsAnew
<1>3. PICK result : result = Result
  OBVIOUS
<1>4. PICK R : R = Range(earlier)
  OBVIOUS
<1>5. PICK s \in Seq(R) : s = earlier
  BY <1>4 DEF ContextInv
<1>6. earlier' = Append(s, result)
  BY <1>3, <1>5 DEF NextKernel
<1>7. Range(earlier') = R \union {result}
  <2>1. PICK m \in Nat : m = Len(s) /\ DOMAIN s = 1..m
    OBVIOUS
  <2>2. PICK t : t = Append(s, result)
    OBVIOUS
  <2>3. DOMAIN t = 1..(m + 1) /\ t[m + 1] = result /\ \A i \in 1..m : t[i] = s[i]
    BY <2>1, <2>2
  <2>4. (\A i \in 1..(m + 1) : i = m + 1 \/ i \in 1..m) /\ (\A i \in 1..m : i \in 1..(m + 1))
        /\ m + 1 \in 1..(m + 1)
    OBVIOUS
  <2>5. R = Range(s)
    BY <1>4, <1>5
  <2> QED  BY <1>6, <2>1, <2>2, <2>3, <2>4, <2>5 DEF Range
<1>8. earlier' \in Seq(Range(earlier'))
  <2>1. s \in Seq(R \union {result})
    BY SeqMonotonic
  <2> QED  BY <1>6, <1>7, <2>1
<1>9. result.phase = "done" => IsContextOf(result.input, result.options.cp, result.context)
  <2>1. /\ result.phase = phase /\ result.input = input /\ result.options = options
        /\ result.context = ContextByNode
    BY <1>3 DEF Result
  <2> QED  BY <2>1 DEF ContextInv
<1>10. \A e \in Range(earlier') :
          e.phase = "done" => IsContextOf(e.input, e.options.cp, e.context)
  BY <1>4, <1>7, <1>9 DEF ContextInv
<1>11. phase' = "build" /\ session' = session
  BY DEF NextKernel, NewKernel
<1> QED  BY <1>2, <1>8, <1>10, <1>11 DEF ContextInv

\* Every step of a process.
LEMMA ContextInductive ==
    ASSUME ContextInv, [SessionNext]_sessionVars
    PROVE  ContextInv'
<1>1. CASE KernelStep
  <2>1. UNCHANGED <<session, earlier>>
    BY <1>1 DEF KernelStep
  <2>2. CASE OtherStep
    BY <2>1, <2>2, StepContext DEF OtherStep
  <2>3. CASE SortPropagate
    <3>1. UNCHANGED <<input, visit, node2index, d_nodes, options, d_context_hash>>
          /\ phase = "loop" /\ phase' = "sorts"
      BY <2>3 DEF SortPropagate, SortsPending
    <3> QED  BY <2>1, <3>1, ContextStays
  <2>4. CASE SortTurn
    <3>1. UNCHANGED <<input, visit, node2index, d_nodes, options, d_context_hash>>
          /\ phase = "sorts" /\ phase' \in {"sorts", "loop"}
      <4>1. PICK table : table = propagate(call.processing)
        OBVIOUS
      <4>2. PICK count : count = DistinctHashes(table, call.symbols)
        OBVIOUS
      <4>3. PICK tied : tied = LowestTied(table, Vertices)
        OBVIOUS
      <4> QED  BY <2>4, <4>1, <4>2, <4>3 DEF SortTurn
    <3> QED  BY <2>1, <3>1, ContextStays
  <2>5. CASE SortTurnThrows
    <3>1. UNCHANGED <<input, visit, node2index, d_nodes, options, d_context_hash>>
          /\ phase' = "error"
      BY <2>5 DEF SortTurnThrows, graphVars
    <3> QED  BY <2>1, <3>1, ContextStays
  <2> QED  BY <1>1, <2>2, <2>3, <2>4, <2>5 DEF KernelStep, SortsStep
<1>2. CASE NextKernel
  BY <1>2, NextContext
<1>3. CASE UNCHANGED sessionVars
  <2>1. /\ UNCHANGED <<input, visit, node2index, d_nodes, d_graph, d_reversed_graph>>
        /\ UNCHANGED <<options, phase, call, d_hash_table, d_context_hash, session, earlier>>
    BY <1>3 DEF sessionVars, allVars, vars, graphVars, kernelVars
  <2>2. WalkInv'
    BY <2>1, WalkInductive DEF ContextInv, walkVars
  <2>3. /\ Numbers' = Numbers /\ SymbolNumbers' = SymbolNumbers /\ Graph' = Graph
        /\ ContextByNode' = ContextByNode
    BY <2>1 DEF Numbers, SymbolNumbers, IsSymbol, Graph, ContextByNode
  <2>4. GraphGrows' <=> GraphGrows
    <3>1. GraphTypeOK' <=> GraphTypeOK
      BY <2>1, <2>3 DEF GraphTypeOK, WalkTypeOK
    <3>2. WalkReaches' <=> WalkReaches
      BY <2>1 DEF WalkReaches, IsNumbered, Seen
    <3> QED  BY <2>3, <3>1, <3>2 DEF GraphGrows
  <2>5. \A count :
           Propagating(Graph, d_hash_table, count)' <=> Propagating(Graph, d_hash_table, count)
    BY <2>1, <2>3 DEF Propagating
  <2> QED  BY <2>1, <2>2, <2>3, <2>4, <2>5 DEF ContextInv
<1>4. SessionOver => UNCHANGED sessionVars
  BY DEF SessionOver
<1> QED  BY <1>1, <1>2, <1>3, <1>4 DEF SessionNext

(***************************************************************************)
(* For every formula, flags and order of writing: README's promise as far  *)
(* as context propagation goes.                                            *)
(***************************************************************************)
THEOREM ContextsOfOneFormula == SessionSpec => []ContextOrderIndependent
<1>1. SessionInit => ContextInv
  BY ContextInitially
<1>2. ContextInv /\ [SessionNext]_sessionVars => ContextInv'
  BY ContextInductive
<1>3. ContextInv => ContextOrderIndependent
  <2> SUFFICES ASSUME ContextInv, phase \in {"rename", "done"},
                      NEW e \in Counterparts, e.phase = "done"
               PROVE  e.context = ContextByNode
    BY DEF ContextOrderIndependent
  <2>1. e \in Range(earlier) /\ e.options = options /\ SameFormula(e.input, input)
    BY DEF Counterparts
  <2>2. /\ IsContextOf(e.input, e.options.cp, e.context)
        /\ IsContextOf(input, options.cp, ContextByNode)
    BY <2>1 DEF ContextInv
  <2>3. PICK cp : cp = options.cp
    OBVIOUS
  <2>4. PICK a, b, f, g : a = e.context /\ b = ContextByNode /\ f = e.input /\ g = input
    OBVIOUS
  <2>5. IsContextOf(f, cp, a) /\ IsContextOf(g, cp, b) /\ SameFormula(f, g)
    BY <2>1, <2>2, <2>3, <2>4
  <2> QED  BY <2>4, <2>5, OneContext, Zenon
<1> QED  BY <1>1, <1>2, <1>3, PTL DEF SessionSpec
=============================================================================
