--------------------------- MODULE MCThemePreference ---------------------------
(* Instances of ThemePreference for TLC.                                    *)
EXTENDS ThemePreference, TLC

Save(p, t) == [op |-> "SAVE", page |-> p, theme |-> t]
OpenPage(p) == [op |-> "OPEN", page |-> p, theme |-> "emerald"]

\* Tabs 1 and 2 share a browser, tab 3 is another one of the same user.
MCBrowserOf == 1 :> "laptop" @@ 2 :> "laptop" @@ 3 :> "phone"

\* The laptop has been in use; the phone has just signed in.
UsedSession == "laptop" :> "dark" @@ "phone" :> "none"
UsedPages   == 1 :> "dark" @@ 2 :> "dark" @@ 3 :> "none"

\* Two tabs choose, one of them a retired theme too, while a page is reloaded
\* and another is opened elsewhere.
TwoTabs == <<Save(1, "gold"), Save(2, "blue"), Save(2, "retired"), OpenPage(1),
             OpenPage(3)>>

\* Two quick clicks in one tab.
QuickClicks == <<Save(1, "gold"), Save(1, "blue")>>
=============================================================================
