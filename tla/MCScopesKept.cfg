SPECIFICATION Spec
CHECK_DEADLOCK FALSE
CONSTANTS
    Name = {x, y}
    MaxDepth = 4
    MaxBinders = 4
INVARIANT BindVarsDiffer
