\* A refusal whose failure record is lost to a deadlock.
SPECIFICATION Spec
CONSTANTS
    Users <- MCUsers
    Admins <- MCAdmins
    Wallets <- MCWallets
    Owner <- MCOwner
    Currencies = {"USD", "EUR"}
    NoCurrency = "none"
    Currency <- MCCurrency
    Opening <- MCOpening
    Keys <- MCKeys
    NoKey = "none"
    Requests = {1, 2, 3}
    Req <- TransferScenario
    Configs <- WideLimits
    MaxBalance = 9
    LastDay = 0
    MaxFaults = 0
    Allocated = 0
    MaxAudits = 0
INVARIANTS
    FailuresAreRecorded
