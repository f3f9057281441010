SPECIFICATION CacheSpec
CONSTANTS
    w1 = w1
    w2 = w2
    w3 = w3
    alice = alice
    bob = bob
    shop = shop
    equity_usd = equity_usd
    equity_eur = equity_eur
    equity_xx = equity_xx
    usd = usd
    eur = eur
    xx = xx
    k1 = k1
    k2 = k2
    k3 = k3
    k4 = k4
    k5 = k5
    Null = Null
    Workers = {w1, w2}
    Accounts <- MCAccounts
    SystemAccounts <- MCSystemAccounts
    Currencies = {usd, eur, xx}
    CurrencyCodes = {usd, eur}
    BookedCurrencies = {usd}
    Equity <- MCEquity
    Payments <- CachePayments
    OpeningBalance = 3
    MaxAmount = 8
    CanFault = FALSE
    CanExpire = FALSE
    MaxFaults = 0
    Reconciles = FALSE
SYMMETRY WorkerSymmetry
INVARIANTS
    ExactWhenQuiet
