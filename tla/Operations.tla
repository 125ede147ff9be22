----------------------------- MODULE Operations -----------------------------
(***************************************************************************)
(* The functions of the library, one call after another: rebuilding of the *)
(* lets of a formula (LetRebuild), operations on numbers and intervals     *)
(* (Value), on bit-vectors (BitVectorText), the rewriter (RewriterMeaning),*)
(* the making of terms (TermMaking) and the reading of their sorts         *)
(* (TermSorts).  They keep nothing from one call to the next except the    *)
(* terms: a formula grows term by term, any other function is asked once   *)
(* and what it answers is judged by the properties.                        *)
(***************************************************************************)
EXTENDS LetRebuild, Value, TermMaking

Sorting == INSTANCE TermSorts

operationVars == <<dag, asked>>

OperationsInit == Init /\ asked = NotAsked

\* The formula grows by a term.
GrowFormula == asked = NotAsked /\ Next /\ UNCHANGED asked

\* A function is asked a question before any formula is written.
Ask(questions) == dag = Leaves /\ AskOne(questions) /\ UNCHANGED dag

AskValues    == Ask(ValueQuestions)
AskBitVector == Ask(BitVectorQuestions)
AskRewriter  == Ask(RewriteQuestions)
AskMaking    == Ask(MakingQuestions)
AskSorts     == Ask(Sorting!SortQuestions)

OperationsNext ==
    \/ GrowFormula
    \/ AskValues
    \/ AskBitVector
    \/ AskRewriter
    \/ AskMaking
    \/ AskSorts

OperationsSpec == OperationsInit /\ [][OperationsNext]_operationVars

(***************************************************************************)
(* What the functions promise, besides IntervalsKeepValues and             *)
(* IntervalsActAsSets (Value).                                             *)
(***************************************************************************)

(* Arithmetic, comparisons and overflow checks on bit-vectors are those of *)
(* the integers the bits stand for, in one word and in several             *)
(* (bitvector.cpp, util.cpp).                                              *)
BitVectorArithmeticRight ==
    asked.about = "bits" => ArithmeticIsRight(asked.op, asked.of, asked.with)

(* Structure, rotations, shifts and conversions of bit-vectors are those   *)
(* of their digits (bitvector.cpp, util.cpp).                              *)
BitVectorDigitsRight == asked.about = "digits" => DigitsAreRight(asked.of, asked.with)

(* What the rewriter makes of a term has the term's value wherever its     *)
(* variables have one (rewrite_parser.cpp).                                *)
RewritingSound == asked.about = "rewrite" => RewritingKeepsMeaning(asked, RewriteResult(asked))

(* One pass of the rewriter is enough: what it returned it returns again   *)
(* (rewrite_parser.cpp, rewrite_oper).                                     *)
RewritingComplete == asked.about = "rewrite" => RewritingIsDone(asked, RewriteResult(asked))

(* A term made by the parser has the value that was written                *)
(* (op_parser.cpp, expr_parser.cpp).                                       *)
MakingSound == asked.about = "making" => MakingKeepsMeaning(asked, Result(asked))

(* Making a term again from what was made of it changes nothing            *)
(* (op_parser.cpp).                                                        *)
MakingComplete == asked.about = "making" => MakingIsDone(asked, Result(asked))

(* Applications the standard gives a sort are read, have that sort and are *)
(* written so that they are read as the same (op_parser.cpp, kind.cpp).    *)
StandardTermsRead == asked.about = "sorts" => Sorting!StandardIsRead(asked)

(* Applications with an operand of a wrong sort are refused, by the        *)
(* operators that look at their operands (op_parser.cpp).                  *)
IllSortedRefused == asked.about = "sorts" => Sorting!OthersAreRefused(asked)
=============================================================================
