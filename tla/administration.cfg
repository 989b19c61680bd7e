\* Adjustments beside a transfer, freezes, a duplicate wallet that cannot be unfrozen.
SPECIFICATION Spec
CONSTANTS
    Users <- MCUsers
    Admins <- MCAdmins
    Wallets <- ThreeWallets
    Owner <- ThreeOwners
    Currencies = {"USD", "EUR"}
    NoCurrency = "none"
    Currency <- ThreeUSD
    Opening <- ThreeOpenings
    Keys <- MCKeys
    NoKey = "none"
    Requests = {1, 2, 3, 4}
    Req <- AdminScenario
    Configs <- WideLimits
    MaxBalance = 9
    LastDay = 0
    MaxFaults = 0
    Allocated = 0
    MaxAudits = 3
INVARIANTS
    AuditsTellAll
    HandlersAreCleared
PROPERTIES
    ServesAtomically
    FrozenMoneyStays
