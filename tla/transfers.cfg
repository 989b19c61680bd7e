\* Opposing transfers around midnight, limits that are edited, a fault or a crash.
SPECIFICATION Spec
CONSTANTS
    Users <- MCUsers
    Admins <- MCAdmins
    Wallets <- MCWallets
    Owner <- MCOwner
    Currencies = {"USD", "EUR"}
    NoCurrency = "none"
    Currency <- MCCurrency
    Opening <- MCOpening
    Keys <- MCKeys
    NoKey = "none"
    Requests = {1, 2, 3}
    Req <- SpendingScenario
    Configs <- MovingLimits
    MaxBalance = 9
    LastDay = 1
    MaxFaults = 1
    Allocated = 0
    MaxAudits = 0
INVARIANTS
    TypeOK
    HandlersAreIsolated
    LedgerChain
    DecisionsStand
    LegsMatchTransactions
    DeadlocksAreExplained
    DailyLimitsHold
    ReferencesCountCommits
PROPERTIES
    ServesAtomically
