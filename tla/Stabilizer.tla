----------------------------- MODULE Stabilizer -----------------------------
(***************************************************************************)
(* The two ways to run the program: the C interface over the C++ one       *)
(* (api/c_api.cpp, api/stabilizer_api.cpp), a handle that answers call     *)
(* after call, and the command line (main/main.cpp), one script and exit.  *)
(* Both read the script (Script), join its assertions, run the kernel and  *)
(* print (ScriptOutput). Anything may fail: the file, the script, the      *)
(* kernel, the memory for the copy of the result.                          *)
(***************************************************************************)
EXTENDS Script, ScriptOutput

CONSTANTS
    OptionSets,   \* the settings of context_propagation and subgraph_pruning tried
    Fronts        \* the ways to run the program: "c", "cli"

VARIABLES
    front,        \* which of the two this process is
    options,      \* those of the handle, or of the command line
    last_error,   \* the handle's: "" or "some"
    tableMade,    \* an earlier kernel of the process made propagate's static table
    phase,        \* where the call is
    graph,        \* the kernel's graph
    fault,        \* what failed in this call outside the script (history)
    answer        \* [status, output] of the last call

handleVars == <<front, options, last_error, tableMade>>
vars == <<scriptVars, handleVars, phase, graph, fault, answer>>

ASSUME StabilizerAssumption ==
    /\ OptionSets \subseteq [context_propagation : BOOLEAN, subgraph_pruning : BOOLEAN]
    /\ Fronts \subseteq {"c", "cli"}

\* A pointer to a text: null, or the text.
Null == << >>
To(out) == <<out>>
NoGraph == [asserted |-> {}, funs |-> {}, nodes |-> {}]
NoOutput(status) == [status |-> status, output |-> Null]
OK == "OK"
InvalidArgument == "INVALID_ARGUMENT"
RuntimeError == "RUNTIME_ERROR"

\* The command line sets expand_functions before it reads; the interface sets it, in
\* configure_parser, on a parser that has read.
ExpandsFunctions(f) == f # "cli"

Init ==
    /\ front \in Fronts
    /\ options \in OptionSets
    /\ last_error = ""
    /\ tableMade = FALSE
    /\ phase = "idle"
    /\ graph = NoGraph
    /\ fault = "none"
    /\ answer = NoOutput("none")
    /\ parser = NewParser(ExpandsFunctions(front))
    /\ text = << >>
    /\ reading = "ended"

(***************************************************************************)
(* The caller.                                                             *)
(***************************************************************************)
\* stabilizer_set_...: the handle's options are replaced; an earlier answer, got with
\* the old ones, is forgotten here.
SetOptions(o) ==
    /\ front = "c"
    /\ phase = "idle"
    /\ options' = o
    /\ answer' = NoOutput("none")
    /\ text' = << >>
    /\ graph' = NoGraph
    /\ fault' = "none"
    /\ UNCHANGED <<parser, reading, front, last_error, tableMade, phase>>

\* stabilizer_apply_text or _file with a script, which the environment makes up as it
\* is read, or the program started. The output is null until the call returns.
Call ==
    /\ phase = "idle"
    /\ front = "cli" => answer.status = "none"
    /\ phase' = "reading"
    /\ answer' = NoOutput("pending")
    /\ parser' = NewParser(ExpandsFunctions(front))
    /\ text' = << >>
    /\ reading' = "commands"
    /\ graph' = NoGraph
    /\ fault' = "none"
    /\ UNCHANGED handleVars

\* A call without what it needs is answered at once: without a handle there is no
\* last_error to set; an empty text or path is refused by the C++ interface.
CallWithout(what) ==
    /\ front = "c"
    /\ phase = "idle"
    /\ answer' = NoOutput(InvalidArgument)
    /\ last_error' = IF what = "handle" THEN last_error ELSE "some"
    /\ fault' = what
    /\ text' = << >>
    /\ reading' = "ended"
    /\ UNCHANGED <<parser, front, options, tableMade, phase, graph>>

\* main refuses an option it does not know before it reads anything.
UnknownOption ==
    /\ front = "cli"
    /\ phase = "idle"
    /\ answer.status = "none"
    /\ answer' = NoOutput("exit 1")
    /\ fault' = "option"
    /\ UNCHANGED <<scriptVars, handleVars, phase, graph>>

(***************************************************************************)
(* The answers.                                                            *)
(***************************************************************************)
\* An exception: capture turns it into a status and a message, main does not catch it.
Throw ==
    /\ phase' = "idle"
    /\ answer' = NoOutput(IF front = "c" THEN RuntimeError ELSE "aborted")
    /\ last_error' = IF front = "c" THEN "some" ELSE last_error
    /\ graph' = NoGraph

\* The error of an earlier call is left.
StaleErrorReturn(out) ==
    /\ phase' = "idle"
    /\ answer' = [status |-> OK, output |-> To(out)]
    /\ UNCHANGED <<graph, last_error>>

Return(out) ==
    /\ phase' = "idle"
    /\ answer' = [status |-> OK, output |-> To(out)]
    /\ last_error' = ""
    /\ UNCHANGED graph

(***************************************************************************)
(* The steps of a call.                                                    *)
(***************************************************************************)
CannotOpen ==
    /\ phase = "reading"
    /\ text = << >>
    /\ reading = "commands"
    /\ fault' = "file"
    /\ reading' = "failed"
    /\ Throw
    /\ UNCHANGED <<parser, text, front, options, tableMade>>

ReadOn ==
    /\ phase = "reading"
    /\ Parse
    /\ UNCHANGED <<handleVars, phase, graph, fault, answer>>

ReadingFails ==
    /\ phase = "reading"
    /\ reading = "failed"
    /\ Throw
    /\ UNCHANGED <<scriptVars, front, options, tableMade, fault>>

MakeKernel ==
    /\ phase = "reading"
    /\ reading = "ended"
    /\ phase' = "kernel"
    /\ graph' = Graph(parser)
    /\ UNCHANGED <<scriptVars, handleVars, fault, answer>>

\* A kernel without context propagation finds the table an earlier one made, which may
\* be too small for it (module KernelSession).
TableTooSmall ==
    /\ phase = "kernel"
    /\ tableMade
    /\ ~options.context_propagation
    /\ fault' = "table"
    /\ Throw
    /\ UNCHANGED <<scriptVars, front, options, tableMade>>

\* propagate is reached unless a definition's number was not found before it.
MakesTable ==
    tableMade' = (tableMade \/ ~(options.context_propagation \/ UnknownDefinition(parser, graph)))

KernelFails ==
    /\ phase = "kernel"
    /\ KernelThrows(parser, graph, options.subgraph_pruning)
    /\ MakesTable
    /\ Throw
    /\ UNCHANGED <<scriptVars, front, options, fault>>

ApplyKernel ==
    /\ phase = "kernel"
    /\ ~KernelThrows(parser, graph, options.subgraph_pruning)
    /\ MakesTable
    /\ phase' = "printing"
    /\ UNCHANGED <<scriptVars, front, options, last_error, graph, fault, answer>>

PrintScript ==
    /\ phase = "printing"
    /\ Return(DumpSMT2(parser, graph, options.subgraph_pruning))
    /\ UNCHANGED <<scriptVars, front, options, tableMade, fault>>

\* malloc returns null: std::bad_alloc.
NoMemory ==
    /\ phase = "printing"
    /\ front = "c"
    /\ fault' = "memory"
    /\ Throw
    /\ UNCHANGED <<scriptVars, front, options, tableMade>>

Step ==
    \/ CannotOpen
    \/ ReadOn
    \/ ReadingFails
    \/ MakeKernel
    \/ TableTooSmall
    \/ KernelFails
    \/ ApplyKernel
    \/ PrintScript
    \/ NoMemory

Next ==
    \/ \E o \in OptionSets : SetOptions(o)
    \/ Call
    \/ \E what \in {"handle", "text", "output", "empty"} : CallWithout(what)
    \/ UnknownOption
    \/ Step

Spec == Init /\ [][Next]_vars

\* A call runs in its caller's thread and waits for nothing: it goes on.
FairSpec == Spec /\ WF_vars(Step)

(***************************************************************************)
(* What a script means, from its text alone: which commands are read, what *)
(* each use of a name refers to, what the assertions depend on.            *)
(***************************************************************************)
Defining == {"define-fun", "define-fun-rec"}
Introducing == {"declare-const", "declare-fun"} \union Defining

\* The commands up to the first exit.
Live == {i \in DOMAIN text : \A j \in 1..(i - 1) : text[j].command # "exit"}

Introductions(name) == {j \in Live : text[j].command \in Introducing /\ text[j].name = name}

\* What the name u in command i refers to: a recursive function in its own body, or the
\* last of the earlier commands that introduce it.
Before(i, u) ==
    {j \in Introductions(u) : j < i \/ (j = i /\ text[j].command = "define-fun-rec")}
Referent(i, u) == CHOOSE j \in Before(i, u) : \A k \in Before(i, u) : k <= j

\* The language of scripts this program reads: all names known, no command unknown (as
\* check-sat-assuming is in effect), no function defined that is there.
Accepted ==
    \A i \in Live :
        /\ text[i].command \in Introducing \union Ignored \union {"assert", "exit"}
        /\ \A u \in text[i].uses : Before(i, u) # {}
        /\ text[i].command \in Defining => Introductions(text[i].name) \intersect 1..(i - 1) = {}

\* The commands the assertions depend on, themselves included.
DependedOn ==
    Reached({i \in Live : text[i].command = "assert"},
            [i \in Live |-> {Referent(i, u) : u \in text[i].uses}],
            Len(text))

DependedOnAs(commands) == {i \in DependedOn : text[i].command \in commands}
IntroducedAgain(i) == Introductions(text[i].name) # {i}

\* The kernel has no number for a definition whose name was declared again (only where
\* definitions are kept) and no name for any function when symbols are not named.
KernelCopes ==
    /\ front = "cli" => \A i \in DependedOnAs({"define-fun"}) : ~IntroducedAgain(i)
    /\ options.subgraph_pruning \/
          /\ DependedOnAs({"declare-fun"}) = {}
          /\ \A i \in DependedOnAs({"define-fun-rec"}) : text[i].name \notin text[i].uses

(***************************************************************************)
(* Properties.                                                             *)
(***************************************************************************)
\* Every name used in the printed text is declared before it, and nothing twice.
Readable(out) ==
    LET d == out.declarations
        DeclaredBy(i) == {d[j].declares : j \in 1..(i - 1)}
    IN /\ \A i \in DOMAIN d :
            /\ d[i].uses \subseteq DeclaredBy(i) \union (IF d[i].rec THEN {d[i].declares} ELSE {})
            /\ d[i].declares \notin DeclaredBy(i)
       /\ out.asserted \subseteq DeclaredBy(Len(d) + 1)

DeclaredIn(out, prefix) ==
    {i \in DOMAIN out.declarations : out.declarations[i].declares[1] = prefix}

\* The printed script can be read again exactly when what the assertions depend on is
\* free of recursive functions, whose applications keep their old name, of functions
\* declared more than once, which are declared as often with one signature or not at
\* all, and, without subgraph pruning, of constants. It declares those constants the
\* assertions depend on, and the definitions they depend on: none through the
\* interface, which has expanded them (parser/base_parser.cpp, kernel/kernel.cpp).
OutputReadableExactlyWhen ==
    answer.status = OK =>
        LET out == answer.output[1]
            pruning == options.subgraph_pruning
        IN  /\ Readable(out) <=>
                /\ DependedOnAs({"define-fun-rec"}) = {}
                /\ \A i \in DependedOnAs({"declare-fun"}) : ~IntroducedAgain(i)
                /\ pruning \/ DependedOnAs({"declare-const"}) = {}
            /\ Cardinality(DeclaredIn(out, "S")) =
                IF pruning
                THEN Cardinality({text[i].name : i \in DependedOnAs({"declare-const"})})
                ELSE 0
            /\ Cardinality(DeclaredIn(out, "FDEF")) =
                IF front = "cli" THEN Cardinality(DependedOnAs({"define-fun"})) ELSE 0

\* The answer that the arguments, the script and the failures of the call ask for. The
\* output is null and last_error is set unless the call succeeded.
AnswerRight ==
    LET argument == {"handle", "text", "output", "empty"}
        right == /\ fault = "none"
                 /\ Accepted
                 /\ KernelCopes
    IN /\ answer.status =
            IF front = "cli"
            THEN CASE fault = "option" -> "exit 1" [] right -> OK [] OTHER -> "aborted"
            ELSE CASE fault \in argument -> InvalidArgument [] right -> OK [] OTHER -> RuntimeError
       /\ answer.output = Null <=> answer.status # OK
       /\ front = "c" /\ fault # "handle" => (last_error = "" <=> answer.status = OK)

\* Every call that has begun returns with the right answer, whatever failed and
\* whatever the handle answered before (api/c_api.cpp, main/main.cpp).
CallsAnswered == phase # "idle" ~> (phase = "idle" /\ AnswerRight)
=============================================================================
