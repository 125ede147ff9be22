CONSTANTS
    Commands <- MCCommands
    MaxCommands = 4
    OptionSets <- MCOptionSets
    Fronts = {"c", "cli"}
SPECIFICATION FairSpec
INVARIANT OutputReadableExactlyWhen
PROPERTY CallsAnswered
CHECK_DEADLOCK FALSE
