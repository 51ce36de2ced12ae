\* Two paths and two names, texts up to two characters over the limit.
SPECIFICATION Spec
CONSTANTS
    Paths = {p1, p2}
    Names = {n1, n2}
    Blocks = {1, 2, 3}
    Limit = 4
    NameLimit = 2
INVARIANT PathInv
