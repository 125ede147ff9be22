---------------------------- MODULE SymbolNaming ----------------------------
(***************************************************************************)
(* What the kernel promises about names, without saying how it orders the  *)
(* symbols (kernel.h: "Renaming symbols and UF/function declarations to    *)
(* canonical names"): the symbols of the formula are collected once; they  *)
(* are then settled in batches, each symbol once and for good; and names   *)
(* are given out only when every symbol is settled.                        *)
(***************************************************************************)
EXTENDS Naturals, Sequences, Functions

VARIABLES
    stage,     \* "collect", "settle" or "named"
    symbols,   \* the numbers of the formula's symbols
    settled    \* the symbols settled so far; a position is a canonical name

namingVars == <<stage, symbols, settled>>

NamingInit ==
    /\ stage = "collect"
    /\ symbols = {}
    /\ settled = << >>

Collect ==
    /\ stage = "collect"
    /\ stage' = "settle"
    /\ symbols' \in SUBSET Nat
    /\ UNCHANGED settled

\* The next batch: behind what is settled already, and never a symbol twice.
Settle ==
    /\ stage = "settle"
    /\ Len(settled') > Len(settled)
    /\ \A k \in DOMAIN settled : settled'[k] = settled[k]
    /\ IsInjective(settled')
    /\ Range(settled') \subseteq symbols
    /\ UNCHANGED <<stage, symbols>>

Name ==
    /\ stage = "settle"
    /\ Range(settled) = symbols
    /\ stage' = "named"
    /\ UNCHANGED <<symbols, settled>>

NamingNext == Collect \/ Settle \/ Name

NamingSpec == NamingInit /\ [][NamingNext]_namingVars
=============================================================================
