SPECIFICATION Spec
CONSTANTS
    Nodes = {n1, n2, n3, n4}
    nil = nil
    NULL = NULL
    Keys = {1, 2, 3}
    CmpMagnitudes = {1}
    Spare = 2
SYMMETRY NodeSymmetry
INVARIANTS
    TypeOK
    SearchTree
    RedBlack
    CacheIsExtreme
    NodesApart
    WalkStaysInTree
    AssertsHold
PROPERTIES
    FreedIsReturned
    LostOnlyThroughPrevious
    ImplementsOrderedBag
