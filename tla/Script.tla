------------------------------- MODULE Script -------------------------------
(***************************************************************************)
(* The parser's reading of a script, command by command: what the maps of  *)
(* Parser hold after each (parser/base_parser.cpp, parser/op_parser.cpp).  *)
(* A term is the set of what its symbols became: variables, applications   *)
(* of declared, defined and recursive functions; none is folded away (the  *)
(* rewriting of terms is in Rewriter). The text is revealed as it is read, *)
(* so that every script of up to MaxCommands commands is read.             *)
(***************************************************************************)
EXTENDS Naturals, Sequences, FiniteSets, SequencesExt

CONSTANTS
    Commands,      \* the commands a script may have: [command, name, uses]
    MaxCommands    \* the longest script

VARIABLES
    parser,    \* the Parser's members
    text,      \* the commands read so far (history)
    reading    \* "commands", "ended" or "failed"

scriptVars == <<parser, text, reading>>

\* push, pop, reset, reset-assertions, echo, get-...: nothing but a warning.
Ignored == {"push", "pop", "reset", "reset-assertions", "echo", "get-model"}

\* Only definitions, assertions and commands the parser does not know have terms. A name
\* is a constant's or a function's.
ASSUME ScriptAssumption ==
    /\ MaxCommands \in Nat \ {0}
    /\ \A c \in Commands :
          /\ c.uses \in SUBSET {d.name : d \in Commands}
          /\ c.command \in {"declare-const", "declare-fun", "exit"} \union Ignored => c.uses = {}
    /\ \A c, d \in Commands :
          c.command = "declare-const"
          /\ d.command \in {"declare-fun", "define-fun", "define-fun-rec"} => c.name # d.name

\* Function nodes live in a heap; fun_key_map has their indices by name. A name is
\* that of the script, or that with "_dup_k" for a later declaration of it.
Plain(name) == [of |-> name, dup |-> 0]
Var(name) == [at |-> "var", name |-> Plain(name), id |-> 0]
UFApply(name) == [at |-> "uf", name |-> name, id |-> 0]
FuncApply(id, name) == [at |-> "apply", name |-> name, id |-> id]
RecApply(id, name) == [at |-> "rec", name |-> name, id |-> id]
FuncDec(name) == [name |-> name, kind |-> "dec", body |-> {}]

\* A Parser whose option expand_functions is as given; the default is TRUE.
NewParser(expand) ==
    [expand_functions |-> expand, var_names |-> {}, funs |-> << >>, fun_key_map |-> << >>,
     function_names |-> << >>, fun_dup_count_map |-> [f \in {c.name : c \in Commands} |-> 0],
     assertions |-> << >>]

IsFunction(name) == Plain(name) \in DOMAIN parser.fun_key_map
Known(name) == name \in parser.var_names \/ IsFunction(name)

(***************************************************************************)
(* Terms.                                                                  *)
(***************************************************************************)
\* An application: a declared function by its node's name, a recursive one by its
\* node, a defined one by its body where expand_functions says so.
ApplyFun(p, id) ==
    LET fun == p.funs[id] IN
    CASE fun.kind = "dec" -> {UFApply(fun.name)}
      [] fun.kind = "rec" -> {RecApply(id, fun.name)}
      [] fun.kind = "def" -> IF p.expand_functions THEN fun.body ELSE {FuncApply(id, fun.name)}

Term(p, uses) ==
    LET functions == {u \in uses : Plain(u) \in DOMAIN p.fun_key_map}
    IN {Var(u) : u \in uses \ functions}
       \union UNION {ApplyFun(p, p.fun_key_map[Plain(u)]) : u \in functions}

(***************************************************************************)
(* Functions.                                                              *)
(***************************************************************************)
\* map[key] = value of a std::unordered_map.
Put(map, key, value) == [k \in DOMAIN map \union {key} |-> IF k = key THEN value ELSE map[k]]

\* Of a name already there the new node is called name_dup_k and keeps the name's
\* place; the old node, its name unchanged, is filed under name_dup_k.
MkFuncDec(p, f) ==
    LET again == Plain(f) \in DOMAIN p.fun_key_map
        dup == IF again THEN p.fun_dup_count_map[f] + 1 ELSE 0
        name == [of |-> f, dup |-> dup]
        id == Len(p.funs) + 1
    IN [p EXCEPT !.funs = Append(@, FuncDec(name)),
                 !.fun_dup_count_map[f] = dup,
                 !.fun_key_map = IF again
                                 THEN Put(Put(@, name, @[Plain(f)]), Plain(f), id)
                                 ELSE Put(@, name, id)]

MkFuncDef(p, f, body) ==
    LET id == Len(p.funs) + 1 IN
    [p EXCEPT !.funs = Append(@, [name |-> Plain(f), kind |-> "def", body |-> body]),
              !.fun_key_map = Put(@, Plain(f), id)]

\* The declaration made before the body was read becomes the recursive function.
MkFuncRec(p, f, body) ==
    LET id == p.fun_key_map[Plain(f)] IN
    [p EXCEPT !.funs[id] = [@ EXCEPT !.kind = "rec", !.body = body]]

Named(p, f) == [p EXCEPT !.function_names = Append(@, f)]

(***************************************************************************)
(* Commands.                                                               *)
(***************************************************************************)
\* The loop has the next command of the text: c.
Takes(c) ==
    /\ reading = "commands"
    /\ Len(text) < MaxCommands
    /\ text' = Append(text, c)

Reads(c) == Takes(c) /\ reading' = "commands"

\* getSymbol, then mkVar: a constant declared again is the one there is.
DeclareConst(c) ==
    /\ c.command = "declare-const"
    /\ Reads(c)
    /\ parser' = [parser EXCEPT !.var_names = @ \union {c.name}]

DeclareFun(c) ==
    /\ c.command = "declare-fun"
    /\ Reads(c)
    /\ parser' = Named(MkFuncDec(parser, c.name), c.name)

DefineFun(c) ==
    /\ c.command = "define-fun"
    /\ ~IsFunction(c.name)
    /\ \A u \in c.uses : Known(u)
    /\ Reads(c)
    /\ parser' = MkFuncDef(Named(parser, c.name), c.name, Term(parser, c.uses))

\* Declared first, so that its body may apply it: as a declared function.
DefineFunRec(c) ==
    /\ c.command = "define-fun-rec"
    /\ ~IsFunction(c.name)
    /\ \A u \in c.uses : Known(u) \/ u = c.name
    /\ Reads(c)
    /\ LET declared == MkFuncDec(Named(parser, c.name), c.name)
       IN parser' = MkFuncRec(declared, c.name, Term(declared, c.uses))

AssertTerm(c) ==
    /\ c.command = "assert"
    /\ \A u \in c.uses : Known(u)
    /\ Reads(c)
    /\ parser' = [parser EXCEPT !.assertions = Append(@, Term(parser, c.uses))]

\* Nothing but a warning.
Ignore(c) ==
    /\ c.command \in Ignored
    /\ Reads(c)
    /\ UNCHANGED parser

Exit(c) ==
    /\ c.command = "exit"
    /\ Takes(c)
    /\ reading' = "ended"
    /\ UNCHANGED parser

\* The errors thrown while a command is read: an unknown command or symbol;
\* check-sat-assuming, which stops at the ")" of its list; a second definition; a
\* definition of a declared function, which returns before its text was read, so that
\* parseRpar finds no ")". A name of a definition that fails is recorded in
\* function_names, but the parser is gone with the exception.
Refused(c) ==
    \/ c.command \notin {"declare-const", "declare-fun", "define-fun", "define-fun-rec",
                         "assert", "exit"} \union Ignored
    \/ c.command \in {"define-fun", "define-fun-rec"} /\ IsFunction(c.name)
    \/ \E u \in c.uses : ~Known(u) /\ ~(c.command = "define-fun-rec" /\ u = c.name)

Refuse(c) ==
    /\ Refused(c)
    /\ Takes(c)
    /\ reading' = "failed"
    /\ UNCHANGED parser

EndOfText ==
    /\ reading = "commands"
    /\ reading' = "ended"
    /\ UNCHANGED <<parser, text>>

ParseCommand(c) ==
    \/ DeclareConst(c)
    \/ DeclareFun(c)
    \/ DefineFun(c)
    \/ DefineFunRec(c)
    \/ AssertTerm(c)
    \/ Ignore(c)
    \/ Exit(c)
    \/ Refuse(c)

Parse == EndOfText \/ \E c \in Commands : ParseCommand(c)
=============================================================================
