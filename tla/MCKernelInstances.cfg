CONSTANTS
    DagNode <- MCDagNode
    NoNode = "none"
    Inputs <- MCInputs
    DeclaredSort <- MCDeclaredSort
    Scripts <- MCScripts
    Modes <- AllModes
    Sessions <- MCSessions
SPECIFICATION SessionSpec
INVARIANT InstancesIndependent
