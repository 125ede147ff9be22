------------------------------ MODULE MCScopes ------------------------------
(* Scripts over interchangeable names.                                     *)
EXTENDS Scopes, TLC

NameSymmetry == Permutations(Name)
=============================================================================
