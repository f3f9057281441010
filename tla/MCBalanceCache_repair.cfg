SPECIFICATION CacheFairSpec
CONSTANTS
    w1 = w1
    w2 = w2
    w3 = w3
    alice = alice
    bob = bob
    shop = shop
    equity_usd = equity_usd
    equity_eur = equity_eur
    equity_xx = equity_xx
    usd = usd
    eur = eur
    xx = xx
    k1 = k1
    k2 = k2
    k3 = k3
    k4 = k4
    k5 = k5
    Null = Null
    Workers = {w1, w2}
    Accounts <- MCAccounts
    SystemAccounts <- MCSystemAccounts
    Currencies = {usd, eur, xx}
    CurrencyCodes = {usd, eur}
    BookedCurrencies = {usd}
    Equity <- MCEquity
    Payments <- RepairPayments
    OpeningBalance = 3
    MaxAmount = 8
    CanFault = TRUE
    CanExpire = TRUE
    MaxFaults = 1
    Reconciles = TRUE
INVARIANTS
    CacheTypeOK
PROPERTIES
    DriftIsRepaired
    RepairStands
    SessionsComplete
