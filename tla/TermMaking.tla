------------------------------ MODULE TermMaking -----------------------------
(***************************************************************************)
(* The constructors of operator terms: what mkEq, mkAdd and the others do  *)
(* to the operands before rewrite_oper sees them.  They drop operands that *)
(* are neutral and answer at once where an operand decides; what they      *)
(* answer with 0 or 1 depends on the letters of the logic's name.          *)
(***************************************************************************)
EXTENDS RewriterMeaning

\* The logic names integers only, or reals, or neither ("ALL", "QF_BV").
Theories == {"Int", "Real", "neither"}

\* An answer, or operands for the rewriter.
Done(term)      == [rewrite |-> FALSE, is |-> "answer", kids |-> <<term>>]
Rewrite(op, np) == [rewrite |-> TRUE, is |-> op, kids |-> np]

Numeral(n, theory) == CASE theory = "Int"     -> Int1(n)
                        [] theory = "Real"    -> Real1(n * Parts)
                        [] theory = "neither" -> Thrown

\* None left, one left, or more for the rewriter.
Reduced(op, np, none) == CASE np = <<>>   -> Done(none)
                           [] Len(np) = 1 -> Done(np[1])
                           [] OTHER       -> Rewrite(op, np)

Without(p, x) == SelectSeq(p, LAMBDA y : y # x)

(***************************************************************************)
(* Booleans.                                                               *)
(***************************************************************************)
\* True is dropped from an equation, False from a distinction, however many
\* other operands there are.
MakeEq(p)       == Reduced("=", Without(p, True), True)
MakeDistinct(p) == Reduced("distinct", Without(p, False), False)

MakeAnd(p) == IF Len(p) > 1 /\ False \in ToSet(p) THEN Done(False)
              ELSE Reduced("and", IF Len(p) > 1 THEN Without(p, True) ELSE p, True)
MakeOr(p)  == IF Len(p) > 1 /\ True \in ToSet(p) THEN Done(True)
              ELSE Reduced("or", IF Len(p) > 1 THEN Without(p, False) ELSE p, False)
MakeXor(p) == Reduced("xor", IF Len(p) > 1 THEN Without(p, False) ELSE p, False)

\* A mutant: drops True wherever it is.
ImpliesWithoutTrue(p) ==
    IF False \in ToSet(Front(p)) THEN Done(True) ELSE Reduced("=>", Without(p, True), True)

MakeImplies(p) ==
    IF False \in ToSet(Front(p)) THEN Done(True)
    ELSE Reduced("=>", Append(Without(Front(p), True), Last(p)), True)

(***************************************************************************)
(* Numbers.                                                                *)
(***************************************************************************)
MakeAdd(p, theory) ==
    Reduced("+", IF Len(p) > 1 THEN SelectSeq(p, LAMBDA x : ~IsZero(x)) ELSE p, Numeral(0, theory))

\* A zero decides the product where the logic says what a zero is; otherwise
\* it is dropped, as a one is.
MakeMul(p, theory) ==
    LET zero == \E i \in DOMAIN p : IsZero(p[i])
        np   == SelectSeq(p, LAMBDA x : ~IsZero(x) /\ ~IsOne(x))
    IN  CASE Len(p) = 1 -> Done(p[1])
          [] Len(p) > 1 /\ zero /\ theory # "neither" -> Done(Numeral(0, theory))
          [] OTHER -> IF Len(np) = 2 /\ IsCInt(np[1]) /\ IsCInt(np[2])
                      THEN Done(Int1(ToInt(np[1]) * ToInt(np[2])))
                      ELSE Reduced("*", np, Numeral(1, theory))

MakeSub(p) ==
    LET two == Len(p) = 2
    IN  CASE Len(p) = 1 -> Rewrite("neg", p)
          [] two /\ IsCInt(p[1]) /\ IsCInt(p[2])   -> Done(Int1(ToInt(p[1]) - ToInt(p[2])))
          [] two /\ IsCReal(p[1]) /\ IsCReal(p[2]) -> Done(Real1(ToReal(p[1]) - ToReal(p[2])))
          [] OTHER -> CASE two /\ IsZero(p[1]) -> Rewrite("neg", Tail(p))
                        [] two /\ ~IsZero(p[1]) /\ IsZero(p[2]) -> Done(p[1])
                        [] OTHER -> Rewrite("-", p)

MakeIand(p) == IF Len(p) = 2 /\ IsCInt(p[1]) /\ IsCInt(p[2]) THEN Done(Int1(AndOf(ToInt(p[1]), ToInt(p[2]))))
               ELSE Rewrite("iand", p)

\* The loop over the operands ends before the last one.
MakeMaxMin(op, p) == IF Len(p) = 1 THEN Done(p[1]) ELSE Rewrite(op, Front(p))

(***************************************************************************)
(* Comparisons of bit-vectors: of constants, and of a term with itself.    *)
(***************************************************************************)
\* A mutant: the operands the other way round.
ComparisonSwapped(op, l, r) == Rewrite(op, <<r, l>>)

MakeBvComparison(op, l, r) ==
    LET reflexive == op \in {"bvule", "bvuge", "bvsle", "bvsge"}
        constants == op # "bvult" /\ IsCBV(l) /\ IsCBV(r)
    IN  IF l = r /\ ~constants THEN Done(Truth(reflexive)) ELSE Rewrite(op, <<l, r>>)

(***************************************************************************)
(* From the operator that was read to the term.                            *)
(***************************************************************************)
Prepared(op, p, theory) ==
    CASE op = "="        -> MakeEq(p)
      [] op = "distinct" -> MakeDistinct(p)
      [] op = "and"      -> MakeAnd(p)
      [] op = "or"       -> MakeOr(p)
      [] op = "xor"      -> MakeXor(p)
      [] op = "=>"       -> MakeImplies(p)
      [] op = "+"        -> MakeAdd(p, theory)
      [] op = "*"        -> MakeMul(p, theory)
      [] op = "-"        -> MakeSub(p)
      [] op = "iand"     -> MakeIand(p)
      [] op \in {"max", "min"} -> MakeMaxMin(op, p)
      [] op \in {"bvult", "bvule", "bvugt", "bvuge", "bvslt", "bvsle", "bvsgt", "bvsge"} ->
           MakeBvComparison(op, p[1], p[2])
      \* parseOper makes the unsigned conversion of both
      [] op = "sbv_to_int" -> Rewrite("ubv_to_int", p)
      [] OTHER -> Rewrite(op, p)

Make(op, p, theory, floating) ==
    LET made == Prepared(op, p, theory)
    IN  IF made.rewrite THEN RewriteOper(made.is, made.kids, floating) ELSE made.kids[1]

(***************************************************************************)
(* What is asked, and where the answer is right.                           *)
(***************************************************************************)
Asked3(ops, operands, theories) ==
    [about : {"making"}, op : ops, of : operands, theory : theories, floating : {TRUE}]

MakingQuestions ==
         Asked3({"and", "or", "xor", "=>", "=", "distinct"}, Tuples({True, False, p0, q0}, 4), {"Int"})
    \cup Asked3({"+", "-", "*", "iand", "max", "min", "="}, Tuples({Int1(0), Int1(1), Int1(2), x0, y0}, 3), Theories)
    \cup Asked3({"+", "-", "*"}, Tuples({Real1(0), Real1(8), Real1(12), r0}, 3), Theories)
    \cup Asked3({"-"}, On({Int1(2), x0, Keep("neg", <<x0>>)}), {"Int"})
    \cup Asked3({"bvult", "bvule", "bvugt", "bvuge", "bvslt", "bvsle", "bvsgt", "bvsge"},
                On2(Words \cup {u0, v0}, Words \cup {u0, v0}), {"neither"})
    \cup Asked3({"sbv_to_int", "ubv_to_int"}, On(Words \cup {u0}), {"neither"})
    \cup Asked3({"ite"}, {True, False, p0} \X {x0, Int1(1)} \X {y0, Int1(1)}, {"Int"})

Result(q) == Make(q.op, q.of, q.theory, q.floating)

MakingSuited(q, result) ==
    LET made == Prepared(q.op, q.of, q.theory)
    IN  /\ q.op = "="        => True \notin ToSet(q.of) \/ Len(q.of) = 2
        /\ q.op = "distinct" => False \notin ToSet(q.of) \/ Len(q.of) = 2
        /\ q.op = "*" /\ q.theory = "neither" => \A i \in DOMAIN q.of : ~IsZero(q.of[i])
        /\ q.op \notin {"max", "min", "sbv_to_int"}
        /\ made.rewrite => RewriteSuited([op |-> made.is, of |-> made.kids, floating |-> q.floating], result)

\* The term that is made has the value of what was read.
MakingKeepsMeaning(q, result) ==
    MakingSuited(q, result) /\ result # Thrown =>
        \A rho \in ValuationsFor(q) :
            LET op   == IF q.op = "-" /\ Len(q.of) = 1 THEN "neg" ELSE q.op
                read == Denotes(op, [i \in DOMAIN q.of |-> InValuation(q.of[i], rho)])
            IN  read # Unspecified => Same(InValuation(result, rho), read)

\* Read again as it is printed, it is made again.  What is left of a
\* difference of three whose first two cancel is printed with its zero.
MakingIsDone(q, result) ==
    /\ MakingSuited(q, result) /\ result # Thrown /\ result.is \notin {"const", "var"}
    /\ q.op = "-" /\ Len(q.of) > 2 => ~IsZero(result.kids[1])
    =>
        Make(result.is, result.kids, q.theory, q.floating) = result
=============================================================================
