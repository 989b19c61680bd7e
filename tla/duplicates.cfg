\* An unfreeze meets a wallet created after it looked for one.
SPECIFICATION ActivationSpec
CONSTANTS
    Users = {"alice", "admin"}
    Admins = {"admin"}
    Currencies = {"USD", "EUR", "JPY"}
    Supported = {"USD", "EUR"}
    NoCurrency = "none"
    Opening <- FrozenOpening
    Requests = {1, 2}
    Req <- RaceScenario
    MaxFaults = 0
INVARIANTS
    DuplicatesAreConflicts
