\* Forms sent again and edited, freezes, and a reader of the lists.  Nobody has
\* to click, so the site may come to rest.
SPECIFICATION WebSpec
CONSTANTS
    Users <- MCUsers
    Admins <- MCAdmins
    Wallets = {1, 2}
    Owner <- MCOwner
    Currencies = {"USD", "EUR"}
    NoCurrency = "none"
    Currency <- MCCurrency
    Opening <- MCOpening
    Keys = {"f1", "f2", "f3", "k1"}
    NoKey = "none"
    Requests = {1, 2, 3, 4, 5, 6, 7}
    Req <- Scenario
    Configs <- NoLimits
    MaxBalance = 9
    LastDay = 0
    Allocated = 1
    MaxAudits = 1
    FormKeys <- MCFormKeys
    MaxPosts = 3
    Readings <- MCReadings
    PageSize = 1
INVARIANTS
    WebOK
    ConfirmedTransfers
    RepeatsGetTheStoredAnswer
    MissesAreCounted
    HistoriesTellBalances
PROPERTIES
    KeepsPromise
CHECK_DEADLOCK FALSE
