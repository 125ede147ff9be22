CONSTANTS
    DagNode <- MCDagNode
    NoNode = "none"
    Inputs <- MCInputs
    Modes <- WithPruning
SPECIFICATION Spec
INVARIANT NoTiesLeft
