\* Identical requests, a reused key, a freeze, a fault or a crash.
SPECIFICATION FairSpec
CONSTANTS
    Users <- MCUsers
    Admins <- MCAdmins
    Wallets <- MCWallets
    Owner <- MCOwner
    Currencies = {"USD", "EUR"}
    NoCurrency = "none"
    Currency <- MCCurrency
    Opening <- MCOpening
    Keys <- MCKeys
    NoKey = "none"
    Requests = {1, 2, 3}
    Req <- RetryScenario
    Configs <- WideLimits
    MaxBalance = 9
    LastDay = 0
    MaxFaults = 1
    Allocated = 0
    MaxAudits = 1
INVARIANTS
    ExactlyOnce
    ReceiptsAreDurable
PROPERTIES
    StoredAnswersNeverChange
    EveryRequestEnds
