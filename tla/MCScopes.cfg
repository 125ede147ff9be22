SPECIFICATION Spec
CHECK_DEADLOCK FALSE
SYMMETRY NameSymmetry
CONSTANTS
    Name = {x, y}
    MaxDepth = 4
    MaxBinders = 4
INVARIANT ScopesTypeOK MapsMirrorScopes MisreadExactlyWhen LetKeysOnlyInLets ExpandedKeysDiffer
PROPERTY LetKeysStay
