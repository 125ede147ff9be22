--------------------------- MODULE DatatypeBlocks ---------------------------
(***************************************************************************)
(* Declared sorts and datatypes: the names Kernel::apply gives to sorts no *)
(* node has, and what it leaves of the datatypes (kernel/kernel.cpp). A    *)
(* type no node has is dropped, unless its own name begins as the new ones;*)
(* a constructor is kept if it or one of its selectors has a new name, that*)
(* is, is applied somewhere; others go, and constructors are added where a *)
(* type would be left without a second one.                                *)
(***************************************************************************)
EXTENDS Naturals, Sequences, FiniteSets, SequencesExt

\* The sort of a term: built in, declared, or an array over a declared sort.
NodeSort(sorts) ==
    {[at |-> "plain", of |-> "none"]} \union [at : {"declared", "array"}, of : sorts]

(***************************************************************************)
(* A block is a sequence of types [name, ctors], a constructor is          *)
(* [name, selectors], a selector [name, sort].                             *)
(***************************************************************************)
TypeDecls(blocks) == UNION {ToSet(blocks[b]) : b \in DOMAIN blocks}

\* Where the name of a constructor (at = 0) or of a selector stands.
MemberPlaces(types) ==
    UNION {UNION {{[type |-> t.name, ctor |-> t.ctors[c], at |-> k] :
                      k \in 0..Len(t.ctors[c].selectors)} : c \in DOMAIN t.ctors} : t \in types}

MemberAt(p) == IF p.at = 0 THEN p.ctor.name ELSE p.ctor.selectors[p.at].name

-----------------------------------------------------------------------------
(***************************************************************************)
(* Sorts. A name is <<what the text begins with, the rest>>: called has    *)
(* the names of the script, named the new ones of the sorts some node has, *)
(* which begin with DT or SORT. Whether a type or a sort has got its new   *)
(* name is seen from how its name begins, so that those of the script that *)
(* begin so as well are taken for new ones.                                *)
(***************************************************************************)
UnusedSort == <<"UNUSED_SORT", 0>>

StartsAsNew(name) == name[1] \in {"DT", "SORT"}

\* The name that a sort, or a type, has after sort_propagate.
NameOf(s, named, called) == IF s \in DOMAIN named THEN named[s] ELSE called[s]

TextBefore(a, b) == IF a[1] = b[1] THEN a[2] < b[2] ELSE a[1] = "DT"

IsKeptType(type, named, called) == named # << >> /\ StartsAsNew(NameOf(type.name, named, called))

\* Sorts without a node that get a name all the same: those in an array that some node
\* is, and those of a selector of a type that is kept.
UnusedSorts(named, called, arraysOver, blocks) ==
    LET kept == {t \in TypeDecls(blocks) : IsKeptType(t, named, called)}
        selected == {p.ctor.selectors[p.at].sort : p \in {q \in MemberPlaces(kept) : q.at > 0}}
    IN IF named = << >> THEN {}
       ELSE (arraysOver \union {sort.of : sort \in
                {x \in selected : x.at = "declared" /\ ~StartsAsNew(NameOf(x.of, named, called))}})
            \ DOMAIN named

\* Every sort's name when the script is written.
SortNames(named, called, unused) ==
    [s \in DOMAIN called |-> IF s \in unused THEN UnusedSort ELSE NameOf(s, named, called)]

SortText(sort, names) ==
    CASE sort.at = "plain" -> << >>
      [] sort.at = "declared" -> <<names[sort.of]>>
      [] sort.at = "array" -> <<<<"Array", 0>>, names[sort.of]>>

-----------------------------------------------------------------------------
(***************************************************************************)
(* Datatypes. functions has the new names of functions, as does names of   *)
(* sorts; rank orders the former.                                          *)
(***************************************************************************)
Unnamed == << >>
NewName(old, functions) == IF old \in DOMAIN functions THEN functions[old] ELSE Unnamed

\* A constructor with its new names; the selectors without one are VAR0, VAR1, ...
Renamed(ctor, functions, names) ==
    LET nameless(k) == {j \in 1..k : ctor.selectors[j].name \notin DOMAIN functions}
    IN [name |-> NewName(ctor.name, functions),
        selectors |-> [k \in DOMAIN ctor.selectors |->
            [name |-> IF k \in nameless(k) THEN <<"VAR", Cardinality(nameless(k)) - 1>>
                      ELSE functions[ctor.selectors[k].name],
             sort |-> SortText(ctor.selectors[k].sort, names)]]]

IsKept(ctor) == ctor.name # Unnamed \/ \E k \in DOMAIN ctor.selectors : ctor.selectors[k].name[1] # "VAR"

\* The order of the texts: "" before "UF..." before "VAR...".
Rank(name, rank) ==
    IF name = Unnamed THEN 0
    ELSE IF name[1] = "VAR" THEN Cardinality(DOMAIN rank) + 1 + name[2] ELSE rank[name]

CtorBefore(a, b, rank) ==
    LET differ == {k \in DOMAIN a.selectors : a.selectors[k].name # b.selectors[k].name}
    IN IF a.name # b.name THEN Rank(a.name, rank) < Rank(b.name, rank)
       ELSE IF Len(a.selectors) # Len(b.selectors) THEN Len(a.selectors) < Len(b.selectors)
       ELSE \E k \in differ : /\ \A j \in differ : k <= j
                              /\ Rank(a.selectors[k].name, rank) < Rank(b.selectors[k].name, rank)

KeptCtors(type, functions, names, rank) ==
    LET renamed == [c \in DOMAIN type.ctors |-> Renamed(type.ctors[c], functions, names)]
    IN SortSeq(SelectSeq(renamed, IsKept), LAMBDA a, b : CtorBefore(a, b, rank))

\* What is added to a type that lost constructors. A type that had two is left two, and
\* one that had a constructor with selectors gets one where those left have none.
AddedCtors(type, kept, con) ==
    LET nullary(c) == type.ctors[c].selectors = << >>
        hasNullary == \E c \in DOMAIN type.ctors : nullary(c)
        onlyNullary == \A c \in DOMAIN type.ctors : nullary(c)
        left == IF Len(type.ctors) >= 2 THEN 2 ELSE 1
        frontIsNullary(k) == IF kept = << >> THEN k = 1 ELSE Head(kept).selectors = << >>
    IN [k \in 1..(IF Len(kept) >= left THEN 0 ELSE left - Len(kept)) |->
            [name |-> <<"CON", con + k - 1>>,
             selectors |->
                IF onlyNullary \/ (hasNullary /\ ~frontIsNullary(k)) THEN << >>
                ELSE <<[name |-> <<"TVAR0 of CON", con + k - 1>>, sort |-> <<UnusedSort>>]>>]]

\* A selector VARi is DT_SELj in the end, counted through the type.
SelectorsNumbered(ctors) ==
    LET nameless(c, k) == {p \in (1..c) \X (1..8) :
                             /\ p[2] \in DOMAIN ctors[p[1]].selectors
                             /\ p[1] < c \/ p[2] <= k
                             /\ ctors[p[1]].selectors[p[2]].name[1] = "VAR"}
    IN [c \in DOMAIN ctors |->
          [ctors[c] EXCEPT !.selectors = [k \in DOMAIN @ |->
              IF @[k].name[1] = "VAR"
              THEN [@[k] EXCEPT !.name = <<"DT_SEL", Cardinality(nameless(c, k)) - 1>>]
              ELSE @[k]]]]

\* A type as it is written; con counts the constructors named CON0, CON1, ... so far.
WrittenType(type, name, functions, names, rank, con) ==
    LET kept == KeptCtors(type, functions, names, rank)
        unnamed == Cardinality({c \in DOMAIN kept : kept[c].name = Unnamed})
        ctors == [c \in DOMAIN kept |->
                    IF c <= unnamed THEN [kept[c] EXCEPT !.name = <<"CON", con + c - 1>>] ELSE kept[c]]
                 \o AddedCtors(type, kept, con + unnamed)
    IN [name |-> name, ctors |-> SelectorsNumbered(ctors)]

\* All types as they are written, block by block.
WrittenTypes(blocks, named, called, functions, names, rank) ==
    LET nameOf(t) == NameOf(t.name, named, called)
        inBlock(block) == SortSeq(SelectSeq(block, LAMBDA t : IsKeptType(t, named, called)),
                                  LAMBDA t, u : TextBefore(nameOf(t), nameOf(u)))
        types == FlattenSeq([b \in DOMAIN blocks |-> inBlock(blocks[b])])
        cons(written) == Cardinality({p \in (DOMAIN written) \X (1..8) :
                            /\ p[2] \in DOMAIN written[p[1]].ctors
                            /\ written[p[1]].ctors[p[2]].name[1] = "CON"})
        done[k \in 0..Len(types)] ==
            IF k = 0 THEN << >>
            ELSE Append(done[k - 1], WrittenType(types[k], nameOf(types[k]), functions, names, rank,
                                                 cons(done[k - 1])))
    IN done[Len(types)]

\* Mutant: the sorts that get the name because no node has them are forgotten.
UnusedDeclaredIfAdded(unused, types) ==
    \E t \in DOMAIN types : \E c \in DOMAIN types[t].ctors :
          \E k \in DOMAIN types[t].ctors[c].selectors :
              types[t].ctors[c].selectors[k].name[1] = "TVAR0 of CON"

\* UNUSED_SORT is declared where a sort or an added selector has that name.
UnusedDeclared(unused, types) ==
    \/ unused # {}
    \/ \E t \in DOMAIN types : \E c \in DOMAIN types[t].ctors :
          \E k \in DOMAIN types[t].ctors[c].selectors :
              types[t].ctors[c].selectors[k].name[1] = "TVAR0 of CON"
=============================================================================
