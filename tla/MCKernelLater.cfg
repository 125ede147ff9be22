CONSTANTS
    DagNode <- MCDagNode
    NoNode = "none"
    Inputs <- MCInputs
    Modes <- AllModes
SPECIFICATION LaterSpec
PROPERTY Terminates
