---------------------------- MODULE MCStabilizer ----------------------------
(* Scripts of up to four commands over a constant c and two functions f and g. *)
EXTENDS Stabilizer

Introduce(command, name, uses) == [command |-> command, name |-> name, uses |-> uses]
Other(command, uses) == [command |-> command, name |-> "none", uses |-> uses]

MCCommands == {
    Introduce("declare-const", "c", {}),
    Introduce("declare-fun", "f", {}),
    Introduce("declare-fun", "g", {}),
    Introduce("define-fun", "f", {"c"}),
    Introduce("define-fun", "g", {}),
    Introduce("define-fun", "g", {"f"}),
    Introduce("define-fun-rec", "f", {"f", "c"}),
    Introduce("define-fun-rec", "f", {"g"}),
    Other("assert", {"c", "f"}),
    Other("assert", {"f"}),
    Other("assert", {"g"}),
    Other("push", {}),
    Other("exit", {}),
    Other("check-sat-assuming", {"c"}) }

MCOptionSets == {
    [context_propagation |-> TRUE, subgraph_pruning |-> TRUE],
    [context_propagation |-> FALSE, subgraph_pruning |-> TRUE],
    [context_propagation |-> TRUE, subgraph_pruning |-> FALSE] }
=============================================================================
