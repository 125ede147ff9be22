------------------------------ MODULE Selection ------------------------------
(***************************************************************************)
(* Two loops the kernel and the parser's output share: the elements of a   *)
(* vector that pass a test, and the nodes a walk reaches.                  *)
(***************************************************************************)
EXTENDS Naturals, Sequences

\* The elements of s that are in S, in the order of s.
Only(s, S) ==
    LET kept[n \in 0..Len(s)] ==
            IF n = 0 THEN << >>
            ELSE IF s[n] \in S THEN Append(kept[n - 1], s[n])
            ELSE kept[n - 1]
    IN kept[Len(s)]

\* What is reached from start in n steps, where to[i] is what i leads to.
Reached(start, to, n) ==
    LET Grown[k \in 0..n] ==
            IF k = 0 THEN start
            ELSE LET before == Grown[k - 1] IN before \union UNION {to[i] : i \in before}
    IN Grown[n]
=============================================================================
