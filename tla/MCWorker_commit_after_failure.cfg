SPECIFICATION Spec
CONSTANTS
    k1 = k1
    k2 = k2
    w1 = w1
    k3 = k3
    w2 = w2
    None = None
    Workers = {w1}
    Keys = {k1, k2}
    Poison = {}
    CanFail = TRUE
    CanHint = FALSE
    MaxLog = 2
    MaxInterruptions = 0
INVARIANTS
    CommitsOnlySuccess
