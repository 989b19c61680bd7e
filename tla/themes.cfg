\* Two tabs choose themes while pages are opened.
SPECIFICATION Spec
CONSTANTS
    Themes = {"emerald", "dark", "gold", "blue"}
    DefaultTheme = "emerald"
    Values = {"emerald", "dark", "gold", "blue", "retired"}
    NoTheme = "none"
    Pages = {1, 2, 3}
    Browsers = {"laptop", "phone"}
    BrowserOf <- MCBrowserOf
    Requests = {1, 2, 3, 4, 5}
    Req <- TwoTabs
    OpeningAccount = "retired"
    OpeningSession <- UsedSession
    OpeningPages <- UsedPages
    MaxFaults = 1
INVARIANTS
    TypeOK
    AccountKeepsSaves
    SessionKeepsSaves
    PageKeepsSaves
