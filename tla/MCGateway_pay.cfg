SPECIFICATION FairSpec
CONSTANTS
    r1 = r1
    r2 = r2
    k1 = k1
    p1 = p1
    p2 = p2
    None = None
    Requests = {r1, r2}
    KeyOf <- Repeated
    Processes = {p1, p2}
    CanFail = TRUE
    CanExpire = TRUE
    MaxCopies = 2
INVARIANTS
    TypeOK
    GatewayIInv
    QueuedIsForwarded
    OneTransactionPerKey
    AnswersAgree
    DecisionsStand
PROPERTIES
    StatusForward
    RequestsEnd
CHECK_DEADLOCK FALSE
