SPECIFICATION Spec
CONSTANT Symbols = {a, b}
SYMMETRY SymbolSymmetry
CONSTANT DefinitionKinds = {"FUNC_REC"}
CONSTANT MaxNodes = 4
CONSTANT MaxApplications = 2
CONSTANT MaxQuantifiers = 2
CONSTANT MaxParsers = 2
CHECK_DEADLOCK FALSE
INVARIANT TableTypeOK RequestMet SharedUnlessTouched StaticsIntact PlacesLeadToVariables BoundVariablesDistinct
