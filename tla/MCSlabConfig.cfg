\* Sizes of 15 bits and pages of 128 bytes; the defaults are those of the code.
SPECIFICATION ConfigSpec
CONSTANTS
    Width = 15
    PtrSize = 8
    PageSize = 128
    ObjSizes = {1, 24, 4088, 32760, 32767}
    ObjAligns = {0, 1, 8, 12, 64, 16384}
    Amounts = {0, 1, 3}
    StoreCapacities = {0, 2, 4}
    BatchCapacities = {0, 1, 256}
    AcquireCounts = {0, 3}
INVARIANT ConfigInv
PROPERTY CallEnds
CHECK_DEADLOCK FALSE
