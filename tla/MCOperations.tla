---------------------------- MODULE MCOperations ----------------------------
(* Numbers in parts of 24; between any two ends of intervals there is a    *)
(* number, and one beyond them all.                                        *)
EXTENDS Operations

MCEnds == {Whole(-2), Whole(-1), Whole(0), Whole(1), Real(36), Whole(3)}

MCInside == {Real(6 * k) : k \in -8..12} \cup MCEnds
=============================================================================
