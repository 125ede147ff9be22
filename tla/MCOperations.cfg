SPECIFICATION OperationsSpec
CHECK_DEADLOCK FALSE
CONSTANTS
    Variables = {"v", "w"}
    Quantifiers = {"forall"}
    MaxTerms = 5
    Unit = 24
    HalfPi = 30
    Ends <- MCEnds
    Inside <- MCInside
    WordBits = 2
    Sizes = {1, 2, 3, 4}
INVARIANT NeverAnotherFormula LetsMeanTheSame IntervalsKeepValues IntervalsActAsSets BitVectorArithmeticRight BitVectorDigitsRight RewritingSound RewritingComplete MakingSound MakingComplete StandardTermsRead IllSortedRefused
