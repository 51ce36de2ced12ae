SPECIFICATION BalanceSpec
CONSTANTS
    Nodes = {1, 2, 3, 4, 5, 6}
    nil = nil
    NULL = NULL
    Keys = {1, 2, 3, 4, 5, 6}
    CmpMagnitudes = {1}
    Spare = 3
INVARIANT TreeIsSound
PROPERTY EveryCallReturns
