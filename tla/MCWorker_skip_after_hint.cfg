SPECIFICATION Spec
CONSTANTS
    k1 = k1
    k2 = k2
    w1 = w1
    w2 = w2
    k3 = k3
    None = None
    Workers = {w1, w2}
    Keys = {k1, k2}
    Poison = {}
    CanFail = FALSE
    CanHint = TRUE
    MaxLog = 2
    MaxInterruptions = 1
SYMMETRY WorkerSymmetry
PROPERTIES
    SkipsOnlySettled
