\* Creations, a freeze and an unfreeze race for one slot.
SPECIFICATION FairActivationSpec
CONSTANTS
    Users = {"alice", "admin"}
    Admins = {"admin"}
    Currencies = {"USD", "EUR", "JPY"}
    Supported = {"USD", "EUR"}
    NoCurrency = "none"
    Opening <- MCOpening
    Requests = {1, 2, 3, 4, 5, 6}
    Req <- WideScenario
    MaxFaults = 1
INVARIANTS
    TypeOK
    ClaimsHold
    OneActiveWallet
PROPERTIES
    ActivatesAtomically
    EveryCallEnds
