\* Up to three components behind the header, trees of up to three nodes.
SPECIFICATION PoolSpec
CONSTANTS
    Width = 7
    PtrSize = 2
    MaxComponents = 3
    Counts = {1, 3}
    Headers <- MCHeaders
    Descs <- MCDescs
    Bases <- MCBases
    TreeArgs <- MCTreeArgs
INVARIANTS
    SoundIffFits
    NothingLeaked
    EveryObjectOnce
    NodesAreReadable
PROPERTY ImplementsFreeStack
