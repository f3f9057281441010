SPECIFICATION FairSpec
CONSTANTS
    r1 = r1
    r2 = r2
    k1 = k1
    p1 = p1
    w1 = w1
    None = None
    Requests = {r1, r2}
    KeyOf <- Sent
    Processes = {p1}
    CanExpire = TRUE
    MaxCopies = 1
    Workers = {w1}
    Poison = {}
    CanHint = FALSE
    MaxInterruptions = 1
    GatewayFails = TRUE
    WorkerFails = FALSE
INVARIANTS
    SafePayIInv
    OutcomeInv
    SameTransaction
PROPERTIES
    Honest
    OutcomeStays
    PromisesKept
CHECK_DEADLOCK FALSE
