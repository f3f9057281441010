SPECIFICATION Spec
CONSTANTS
    k1 = k1
    k2 = k2
    k3 = k3
    w1 = w1
    w2 = w2
    None = None
    Workers = {w1, w2}
    Keys = {k1, k2}
    Poison = {}
    CanFail = TRUE
    CanHint = TRUE
    MaxLog = 3
    MaxInterruptions = 2
SYMMETRY FullSymmetry
INVARIANTS
    TypeOK
    NoSilentLoss
    StatusIsTrue
    HandInv
PROPERTIES
    SettlesInOrder
