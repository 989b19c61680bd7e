---------------------------- MODULE ThemePreference ----------------------------
(****************************************************************************)
(* The theme of one user: kept in the account and in the session of each    *)
(* browser, shown by each open page (src/accounts and                       *)
(* src/static/js/theme.js).                                                 *)
(*                                                                          *)
(* A save writes the account at once and the session when its response      *)
(* leaves; the page has applied the choice before it asks, and takes it     *)
(* back if it is told of an error.  A page that is opened prefers the       *)
(* session's theme, and writes the one it settles for back to the session.  *)
(****************************************************************************)
EXTENDS Naturals

CONSTANTS
    Themes,          \* the keys of the registry
    DefaultTheme,
    Values,          \* what can be stored or sent: Themes, and retired ones
    NoTheme,         \* no theme in a session, no page in a tab
    Pages,           \* browser tabs
    Browsers,        \* each with a session of its own
    BrowserOf,       \* BrowserOf[p]: the browser of tab p
    Requests,        \* clicks on a theme, and openings of a page
    Req,             \* Req[r]: what request r asks for
    OpeningAccount,  \* what is stored and shown when observation starts
    OpeningSession,
    OpeningPages,
    MaxFaults        \* bound: server errors and lost connections

Request == [op : {"SAVE", "OPEN"}, page : Pages, theme : Values]

ASSUME ThemeAssumption ==
    /\ DefaultTheme \in Themes /\ Themes \subseteq Values /\ NoTheme \notin Values
    /\ BrowserOf \in [Pages -> Browsers]
    /\ Req \in [Requests -> Request]
    /\ OpeningAccount \in Values
    /\ OpeningSession \in [Browsers -> Values \cup {NoTheme}]
    /\ OpeningPages \in [Pages -> Themes \cup {NoTheme}]
    /\ MaxFaults \in Nat

VARIABLES
    account,   \* User.theme
    session,   \* session[b]: selected_theme in the session row of browser b
    shown,     \* shown[p]: data-theme of the document in tab p
    pc,        \* pc[r]: what request r is about to do
    held,      \* held[r]: previousTheme of a click while its document listens;
               \*          the theme that an opening has settled for
    older,     \* older[r]: the saves that were over when r was clicked
    faults     \* server errors and lost connections so far

vars == <<account, session, shown, pc, held, older, faults>>

Saves == {r \in Requests : Req[r].op = "SAVE"}
Browser(r) == BrowserOf[Req[r].page]

valid_theme(value) == IF value \in Themes THEN value ELSE DefaultTheme
\* What an opened page shows; and the same by a handler that trusts the database.
AsStored(s, a) == IF s # NoTheme THEN s ELSE a
Selected(s, a) == valid_theme(IF s # NoTheme THEN s ELSE a)

Ended == {"saved", "unheard", "failed", "opened"}
AtServer == {"store", "session"}
Places == {"ready", "answer", "error", "render", "deliver"} \cup AtServer \cup Ended

GoTo(r, place) == pc' = [pc EXCEPT ![r] = place]

\* The tab of r shows a theme; a click whose document is gone shows nothing.
Show(r, theme) == shown' = [shown EXCEPT ![Req[r].page] =
                                IF theme = NoTheme THEN @ ELSE theme]

Init ==
    /\ account = OpeningAccount
    /\ session = OpeningSession
    /\ shown = OpeningPages
    /\ pc = [r \in Requests |-> "ready"]
    /\ held = [r \in Requests |-> NoTheme]
    /\ older = [r \in Requests |-> {}]
    /\ faults = 0

-----------------------------------------------------------------------------
(* Saving a theme.                                                          *)

\* The page previews the choice and posts it; and the same by a page that takes
\* note of its theme when it shows the choice already.
ClickShowsFirst(r) ==
    /\ pc[r] = "ready" /\ r \in Saves
    /\ shown[Req[r].page] # NoTheme
    /\ Show(r, Req[r].theme)
    /\ held' = [held EXCEPT ![r] = shown'[Req[r].page]]
    /\ older' = [older EXCEPT ![r] = {s \in Saves : pc[s] \in Ended}]
    /\ GoTo(r, "store")
    /\ UNCHANGED <<account, session, faults>>
Click(r) ==
    /\ pc[r] = "ready" /\ r \in Saves
    /\ shown[Req[r].page] # NoTheme
    /\ held' = [held EXCEPT ![r] = shown[Req[r].page]]
    /\ Show(r, Req[r].theme)
    /\ older' = [older EXCEPT ![r] = {s \in Saves : pc[s] \in Ended}]
    /\ GoTo(r, "store")
    /\ UNCHANGED <<account, session, faults>>

\* update_theme: the UPDATE of the account is committed at once.
Store(r) ==
    /\ pc[r] = "store"
    /\ Req[r].theme \in Themes
    /\ account' = Req[r].theme
    /\ GoTo(r, "session")
    /\ UNCHANGED <<session, shown, held, older, faults>>

Refuse(r) ==
    /\ pc[r] = "store"
    /\ Req[r].theme \notin Themes
    /\ GoTo(r, "error")
    /\ UNCHANGED <<account, session, shown, held, older, faults>>

\* The session row is written when the response leaves.
SaveSession(r) ==
    /\ pc[r] = "session"
    /\ session' = [session EXCEPT ![Browser(r)] = Req[r].theme]
    /\ GoTo(r, "answer")
    /\ UNCHANGED <<account, shown, held, older, faults>>

\* The page reports it, if it is still listening.
Saved(r) ==
    /\ pc[r] = "answer"
    /\ GoTo(r, IF held[r] = NoTheme THEN "unheard" ELSE "saved")
    /\ UNCHANGED <<account, session, shown, held, older, faults>>

\* applyTheme(previousTheme).
Restore(r) ==
    /\ pc[r] = "error"
    /\ Show(r, held[r])
    /\ GoTo(r, "failed")
    /\ UNCHANGED <<account, session, held, older, faults>>

-----------------------------------------------------------------------------
(* Opening a page.                                                          *)

\* theme_context, from the session and user rows the request has loaded; and the
\* same by a handler that writes the session every time.
OpenAndWrite(r) ==
    /\ pc[r] = "ready" /\ r \notin Saves
    /\ held' = [held EXCEPT ![r] = Selected(session[Browser(r)], account)]
    /\ GoTo(r, "render")
    /\ UNCHANGED <<account, session, shown, older, faults>>
Open(r) ==
    /\ pc[r] = "ready" /\ r \notin Saves
    /\ held' = [held EXCEPT ![r] = Selected(session[Browser(r)], account)]
    /\ GoTo(r, IF session[Browser(r)] = Selected(session[Browser(r)], account)
               THEN "deliver" ELSE "render")
    /\ UNCHANGED <<account, session, shown, older, faults>>

\* The session row is written when the response leaves; and the same by a
\* handler that brings the account in line too.
RespondAndRepair(r) ==
    /\ pc[r] = "render"
    /\ session' = [session EXCEPT ![Browser(r)] = held[r]]
    /\ account' = held[r]
    /\ GoTo(r, "deliver")
    /\ UNCHANGED <<shown, held, older, faults>>
Respond(r) ==
    /\ pc[r] = "render"
    /\ session' = [session EXCEPT ![Browser(r)] = held[r]]
    /\ GoTo(r, "deliver")
    /\ UNCHANGED <<account, shown, held, older, faults>>

\* The new document replaces the old one, with the clicks it was waiting for.
Deliver(r) ==
    /\ pc[r] = "deliver"
    /\ Show(r, held[r])
    /\ held' = [s \in Requests |-> IF s \in Saves /\ Req[s].page = Req[r].page
                                   THEN NoTheme ELSE held[s]]
    /\ GoTo(r, "opened")
    /\ UNCHANGED <<account, session, older, faults>>

-----------------------------------------------------------------------------
\* The database refuses a statement of a save: a server error.
ServerError(r) ==
    /\ faults < MaxFaults
    /\ pc[r] \in AtServer
    /\ faults' = faults + 1
    /\ GoTo(r, "error")
    /\ UNCHANGED <<account, session, shown, held, older>>

\* The page loses the connection, and the server does not notice.
Disconnect(r) ==
    /\ faults < MaxFaults
    /\ pc[r] \in AtServer \cup {"answer"} /\ held[r] # NoTheme
    /\ faults' = faults + 1
    /\ Show(r, held[r])
    /\ held' = [held EXCEPT ![r] = NoTheme]
    /\ UNCHANGED <<account, session, pc, older>>

Proceed(r) == \/ Store(r) \/ Refuse(r) \/ SaveSession(r) \/ Saved(r) \/ Restore(r)
              \/ Respond(r) \/ Deliver(r)

Finished ==
    /\ \A r \in Requests : pc[r] \in Ended
    /\ UNCHANGED vars

Next ==
    \/ \E r \in Requests : \/ Click(r) \/ Open(r) \/ Proceed(r)
                           \/ ServerError(r) \/ Disconnect(r)
    \/ Finished

Spec == Init /\ [][Next]_vars

-----------------------------------------------------------------------------
\* A theme of the registry, none, or one the user has clicked on.
Shows(theme) == \/ theme \in Themes \cup {NoTheme}
                \/ \E r \in Saves : pc[r] # "ready" /\ Req[r].theme = theme

\* No page shows, or is about to settle for, a theme that is not in the
\* registry, unless the user has clicked on it.
TypeOK ==
    /\ account \in Values
    /\ session \in [Browsers -> Values \cup {NoTheme}]
    /\ shown \in [Pages -> Values \cup {NoTheme}]
    /\ pc \in [Requests -> Places]
    /\ held \in [Requests -> Values \cup {NoTheme}]
    /\ older \in [Requests -> SUBSET Saves]
    /\ faults \in 0..MaxFaults
    /\ \A r \in Requests \ Saves : held[r] \in Themes \cup {NoTheme}
    /\ \A r \in Saves : Shows(held[r])
    /\ \A p \in Pages : Shows(shown[p])

\* Every choice of a value was over when some save of S was clicked that has
\* been confirmed since.
Superseded(value, S) ==
    \E r \in S : /\ pc[r] = "saved"
                 /\ \A s \in Saves : Req[s].theme = value => s \in older[r]

\* A save that has been confirmed is not undone by one that was over before it
\* was made, nor by any page that is opened: not in the account, ...
AccountKeepsSaves == ~Superseded(account, Saves)

\* ... and not in the session it was made in, if that session held a theme of the
\* registry from the start.  (A page that finds none there, or a retired one,
\* writes what it has settled for, over whatever was saved in between.)
SessionKeepsSaves ==
    \A b \in Browsers : OpeningSession[b] \in Themes =>
        ~Superseded(session[b], {r \in Saves : Browser(r) = b})

\* The clicks made in tab p; those given up, because the page was told of an
\* error or its document is gone; and those that stand.
Clicks(p) == {r \in Saves : Req[r].page = p /\ pc[r] # "ready"}
GivenUp(r) == pc[r] = "failed" \/ held[r] = NoTheme
Standing(p) == {r \in Clicks(p) : ~GivenUp(r)}

\* No click that was given up overlapped another one of the tab: if it did, the
\* theme that it brought back may be older than a choice made since.
Calm(p) == \A s, t \in Clicks(p) :
               s # t /\ GivenUp(s) => s \in older[t] \/ t \in older[s]

\* A page that has confirmed a choice shows it or one that was not over when it
\* was made, never one that failed: a failed click brings back the theme that
\* was confirmed before it (theme.js:40-59).
PageKeepsSaves ==
    \A p \in Pages : Calm(p) =>
        \A r \in Standing(p) : pc[r] = "saved" =>
            \E s \in Standing(p) : Req[s].theme = shown[p] /\ s \notin older[r]

\* No request is under way.
Quiet == \A r \in Requests : pc[r] \in Ended \cup {"ready"}

\* With nothing under way and no error, the session in which a theme was saved
\* and the account agree, for one browser
\* (tests/integration/test_theme_preferences.py:34-41).
SessionFollowsAccount ==
    Quiet /\ faults = 0 => \A r \in Saves : pc[r] = "saved" => session[Browser(r)] = account
=============================================================================
