\* Two quick clicks, both saved.
SPECIFICATION Spec
CONSTANTS
    Themes = {"emerald", "dark", "gold", "blue"}
    DefaultTheme = "emerald"
    Values = {"emerald", "dark", "gold", "blue", "retired"}
    NoTheme = "none"
    Pages = {1, 2, 3}
    Browsers = {"laptop", "phone"}
    BrowserOf <- MCBrowserOf
    Requests = {1, 2}
    Req <- QuickClicks
    OpeningAccount = "dark"
    OpeningSession <- UsedSession
    OpeningPages <- UsedPages
    MaxFaults = 0
INVARIANTS
    SessionFollowsAccount
