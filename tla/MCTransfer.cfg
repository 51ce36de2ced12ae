SPECIFICATION Spec
CONSTANTS
    MaxSize = 3
    MaxInterrupts = 2
    MaxStream = 6
INVARIANTS
    TypeOK
    CountedIsPrefix
    CountIsExact
    OkIsComplete
PROPERTIES
    EveryCallReturns
