CONSTANTS
    DagNode <- MCDagNode
    NoNode = "none"
    Inputs <- MCInputs
    Modes <- WithPruning
SPECIFICATION FairSpec
INVARIANT KernelTypeOK OperandsNumberedFirst NumberedOnce SymbolsPartitioned EdgesMirrored
PROPERTY ApartForGood EveryRoundResolves ImplementsNaming Terminates
