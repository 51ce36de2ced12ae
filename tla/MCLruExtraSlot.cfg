SPECIFICATION Spec
CONSTANTS
    Keys = {k1, k2, k3, k4}
    ObjCount = 2
INVARIANTS
    ExtraSlotIsForPromote
