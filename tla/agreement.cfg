\* Identical concurrent requests that are told different things.
SPECIFICATION Spec
CONSTANTS
    Users <- MCUsers
    Admins <- MCAdmins
    Wallets <- MCWallets
    Owner <- MCOwner
    Currencies = {"USD", "EUR"}
    NoCurrency = "none"
    Currency <- MCCurrency
    Opening <- MCOpening
    Keys <- MCKeys
    NoKey = "none"
    Requests = {1, 2, 3}
    Req <- RefusalScenario
    Configs <- WideLimits
    MaxBalance = 9
    LastDay = 0
    MaxFaults = 0
    Allocated = 0
    MaxAudits = 0
INVARIANTS
    IdenticalRequestsAgree
