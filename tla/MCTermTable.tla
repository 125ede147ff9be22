---------------------------- MODULE MCTermTable ----------------------------
(* Two symbols that can be exchanged, four nodes besides the static ones,  *)
(* two applications, two quantifiers and two parsers.                      *)
EXTENDS TermTable, TLC

SymbolSymmetry == Permutations(Symbols)
=============================================================================
