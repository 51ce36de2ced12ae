SPECIFICATION Spec
CONSTANTS
    Nodes = {n1, n2, n3}
    nil = nil
    NULL = NULL
    Keys = {1, 2, 3}
    CmpMagnitudes = {1}
    Spare = 0
INVARIANTS
    LastNodeIsRoot
