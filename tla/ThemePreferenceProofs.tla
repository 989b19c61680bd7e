------------------------- MODULE ThemePreferenceProofs -------------------------
(* Theorems about ThemePreference, for every set of tabs, browsers and       *)
(* requests.                                                                 *)
EXTENDS ThemePreference, TLAPS

\* A save that has written the account and not met an error since.
Stored == {"session", "answer", "saved", "unheard"}

\* The account holds the choice of a save that was not over when r was clicked.
Current(r) == \E s \in Saves : Req[s].theme = account /\ s \notin older[r]

\* What is known of a save: whatever was over when it was clicked is over now,
\* it was not itself, and once it has written the account, no older save has.
Ordered ==
    \A r \in Saves : /\ \A s \in older[r] : pc[s] \in Ended
                     /\ r \notin older[r]
                     /\ pc[r] \in Stored => Current(r)

\* An opening never stands where a save does.
Separate ==
    \A r \in Requests : pc[r] \in AtServer \cup {"answer", "error"} => r \in Saves

IInv == TypeOK /\ Ordered /\ Separate

USE ThemeAssumption

\* What a request names has its type.
LEMMA RequestTypes ==
    ASSUME NEW r \in Requests
    PROVE  /\ Req[r].theme \in Values
           /\ Req[r].page \in Pages
           /\ Browser(r) \in Browsers
PROOF BY DEF Request, Browser

\* A page that opens settles for a theme of the registry.
LEMMA SelectedIsValid == \A s, a : Selected(s, a) \in Themes
PROOF BY DEF Selected, valid_theme

\* The initial states satisfy the invariant.
LEMMA InitKeeps == Init => IInv
PROOF
<1> SUFFICES ASSUME Init PROVE IInv
  OBVIOUS
<1>1. TypeOK
  BY DEF Init, TypeOK, Shows, Places, Saves
<1>2. Ordered
  BY DEF Init, Ordered, Stored, Saves
<1>3. Separate
  BY DEF Init, Separate, AtServer
<1> QED
  BY <1>1, <1>2, <1>3 DEF IInv

\* A tab shows what it is told to, or what it showed.
LEMMA ShowKeeps ==
    ASSUME TypeOK, NEW r \in Requests, NEW v \in Values \cup {NoTheme}, Show(r, v)
    PROVE  /\ shown' \in [Pages -> Values \cup {NoTheme}]
           /\ \A p \in Pages : shown'[p] = shown[p] \/ shown'[p] = v
PROOF BY RequestTypes DEF TypeOK, Show

\* What the user has clicked on stays clicked on.
LEMMA ShowsLasts ==
    ASSUME \A s \in Saves : pc[s] # "ready" => pc'[s] # "ready"
    PROVE  \A v : Shows(v) => \/ v \in Themes \cup {NoTheme}
                              \/ \E s \in Saves : pc'[s] # "ready" /\ Req[s].theme = v
PROOF BY DEF Shows, Saves

\* A step that leaves the account and the clicks alone keeps the order of the
\* saves, if what is over stays over and nothing new is stored.
LEMMA OrderLasts ==
    ASSUME IInv, UNCHANGED <<account, older>>,
           \A s \in Saves : /\ pc[s] \in Ended => pc'[s] \in Ended
                            /\ pc'[s] \in Stored => pc[s] \in Stored
    PROVE  Ordered'
PROOF
<1> SUFFICES ASSUME NEW s \in Saves
             PROVE  /\ \A q \in older[s] : pc'[q] \in Ended
                    /\ s \notin older[s]
                    /\ pc'[s] \in Stored => Current(s)
  BY DEF Ordered, Current, Saves
<1>1. older[s] \subseteq Saves
  BY DEF IInv, TypeOK, Saves
<1> QED
  BY <1>1 DEF IInv, Ordered

\* A step of one request that shows nothing it did not hold, writes at most the
\* session, and does not store anything in the account.
LEMMA QuietStep ==
    ASSUME IInv, NEW r \in Requests, NEW place \in Places \ {"ready"}, GoTo(r, place),
           pc[r] \notin Ended,
           place \in Stored => pc[r] \in Stored,
           place \in AtServer \cup {"answer", "error"} => r \in Saves,
           UNCHANGED <<account, older>>, faults' \in 0..MaxFaults,
           session' \in [Browsers -> Values \cup {NoTheme}],
           shown' \in [Pages -> Values \cup {NoTheme}],
           \A p \in Pages : shown'[p] = shown[p] \/ shown'[p] = held[r],
           held' \in [Requests -> Values \cup {NoTheme}],
           \A s \in Requests : held'[s] = held[s] \/ held'[s] = NoTheme
                                \/ (s \notin Saves /\ held'[s] \in Themes)
    PROVE  IInv'
PROOF
<1> USE DEF IInv
<1>1. pc' \in [Requests -> Places] /\ pc'[r] = place
      /\ \A s \in Requests \ {r} : pc'[s] = pc[s]
  BY DEF GoTo, TypeOK
<1>2. \A s \in Saves : pc[s] # "ready" => pc'[s] # "ready"
  BY <1>1 DEF Saves
<1>3. \A p \in Pages : Shows(shown[p])'
  <2> SUFFICES ASSUME NEW p \in Pages PROVE Shows(shown[p])'
    OBVIOUS
  <2>1. Shows(held[r])
    BY DEF TypeOK, Shows
  <2>2. Shows(shown'[p])
    BY <2>1 DEF TypeOK
  <2>3. \/ shown'[p] \in Themes \cup {NoTheme}
        \/ \E s \in Saves : pc'[s] # "ready" /\ Req[s].theme = shown'[p]
    BY <2>2, <1>2, ShowsLasts
  <2> QED
    BY <2>3 DEF Shows, Saves
<1>4. \A s \in Saves : Shows(held[s])'
  <2> SUFFICES ASSUME NEW s \in Saves PROVE Shows(held[s])'
    BY DEF Saves
  <2>1. Shows(held'[s])
    BY DEF TypeOK, Shows, Saves
  <2>2. \/ held'[s] \in Themes \cup {NoTheme}
        \/ \E q \in Saves : pc'[q] # "ready" /\ Req[q].theme = held'[s]
    BY <2>1, <1>2, ShowsLasts
  <2> QED
    BY <2>2 DEF Shows, Saves
<1>5. TypeOK'
  <2>1. \A s \in Requests \ Saves : held'[s] \in Themes \cup {NoTheme}
    BY DEF TypeOK
  <2> QED
    BY <1>1, <1>3, <1>4, <2>1 DEF TypeOK, Saves
<1>6. Ordered'
  BY <1>1, OrderLasts DEF Saves
<1>7. Separate'
  BY <1>1 DEF Separate
<1> QED
  BY <1>5, <1>6, <1>7

\* The steps of a page or a handler that leave the account alone.
LEMMA ProceedKeeps ==
    ASSUME IInv, NEW r \in Requests,
           \/ Refuse(r) \/ SaveSession(r) \/ Saved(r) \/ Restore(r)
           \/ Respond(r) \/ Deliver(r) \/ ServerError(r)
    PROVE  IInv'
PROOF
<1> USE DEF IInv, Stored, AtServer, Ended, Places
<1>0. /\ held[r] \in Values \cup {NoTheme} /\ faults \in 0..MaxFaults
      /\ session \in [Browsers -> Values \cup {NoTheme}]
      /\ shown \in [Pages -> Values \cup {NoTheme}]
      /\ held \in [Requests -> Values \cup {NoTheme}]
  BY DEF TypeOK
<1>1. CASE Refuse(r)
  BY <1>0, <1>1, QuietStep DEF Refuse, Separate
<1>2. CASE SaveSession(r)
  <2>1. session' \in [Browsers -> Values \cup {NoTheme}]
    BY <1>0, <1>2, RequestTypes DEF SaveSession
  <2> QED
    BY <1>0, <1>2, <2>1, QuietStep DEF SaveSession, Separate
<1>3. CASE Saved(r)
  BY <1>0, <1>3, QuietStep DEF Saved, Separate
<1>4. CASE Restore(r)
  <2>1. /\ shown' \in [Pages -> Values \cup {NoTheme}]
        /\ \A p \in Pages : shown'[p] = shown[p] \/ shown'[p] = held[r]
    BY <1>0, <1>4, ShowKeeps DEF Restore
  <2> QED
    BY <1>0, <1>4, <2>1, QuietStep DEF Restore
<1>5. CASE Respond(r)
  <2>1. session' \in [Browsers -> Values \cup {NoTheme}]
    BY <1>0, <1>5, RequestTypes DEF Respond
  <2> QED
    BY <1>0, <1>5, <2>1, QuietStep DEF Respond
<1>6. CASE Deliver(r)
  <2>1. /\ shown' \in [Pages -> Values \cup {NoTheme}]
        /\ \A p \in Pages : shown'[p] = shown[p] \/ shown'[p] = held[r]
    BY <1>0, <1>6, ShowKeeps DEF Deliver
  <2>2. /\ held' \in [Requests -> Values \cup {NoTheme}]
        /\ \A s \in Requests : held'[s] = held[s] \/ held'[s] = NoTheme
    BY <1>0, <1>6 DEF Deliver
  <2> QED
    BY <1>0, <1>6, <2>1, <2>2, QuietStep DEF Deliver
<1>7. CASE ServerError(r)
  <2>1. faults' \in 0..MaxFaults
    BY <1>0, <1>7 DEF ServerError
  <2> QED
    BY <1>0, <1>7, <2>1, QuietStep DEF ServerError, Separate
<1> QED
  BY <1>1, <1>2, <1>3, <1>4, <1>5, <1>6, <1>7

\* An opening settles for a theme of the registry.
LEMMA OpenKeeps == ASSUME IInv, NEW r \in Requests, Open(r) PROVE IInv'
PROOF
<1> USE DEF IInv, Stored, AtServer, Ended, Places
<1>1. /\ faults \in 0..MaxFaults
      /\ session \in [Browsers -> Values \cup {NoTheme}]
      /\ shown \in [Pages -> Values \cup {NoTheme}]
      /\ held \in [Requests -> Values \cup {NoTheme}]
  BY DEF TypeOK
<1>2. Selected(session[Browser(r)], account) \in Themes
  BY SelectedIsValid
<1>3. /\ held' \in [Requests -> Values \cup {NoTheme}]
      /\ \A s \in Requests : held'[s] = held[s] \/ (s \notin Saves /\ held'[s] \in Themes)
  BY <1>1, <1>2 DEF Open
<1>4. \E place \in {"render", "deliver"} : GoTo(r, place)
  BY DEF Open
<1> QED
  BY <1>1, <1>3, <1>4, QuietStep DEF Open

\* A lost connection changes what the page shows, and nothing at the server.
LEMMA DisconnectKeeps == ASSUME IInv, NEW r \in Requests, Disconnect(r) PROVE IInv'
PROOF
<1> USE DEF IInv, Stored, AtServer, Ended, Places
<1>1. /\ held[r] \in Values \cup {NoTheme}
      /\ session \in [Browsers -> Values \cup {NoTheme}]
  BY DEF TypeOK
<1>2. /\ shown' \in [Pages -> Values \cup {NoTheme}]
      /\ \A p \in Pages : shown'[p] = shown[p] \/ shown'[p] = held[r]
  BY <1>1, ShowKeeps DEF Disconnect
<1>3. /\ held' \in [Requests -> Values \cup {NoTheme}]
      /\ \A s \in Requests : held'[s] = held[s] \/ held'[s] = NoTheme
  BY DEF Disconnect, TypeOK
<1>4. GoTo(r, pc[r])
  BY DEF Disconnect, GoTo, TypeOK
<1>5. faults' \in 0..MaxFaults
  BY DEF Disconnect, TypeOK
<1> QED
  BY <1>1, <1>2, <1>3, <1>4, <1>5, QuietStep DEF Disconnect, Separate

\* A click is younger than all that is over.
LEMMA ClickKeeps == ASSUME IInv, NEW r \in Requests, Click(r) PROVE IInv'
PROOF
<1> USE DEF IInv
<1>1. /\ pc' \in [Requests -> Places] /\ pc'[r] = "store"
      /\ \A s \in Requests \ {r} : pc'[s] = pc[s]
  BY DEF Click, GoTo, TypeOK, Places, AtServer
<1>2. \A s \in Saves : pc[s] # "ready" => pc'[s] # "ready"
  BY <1>1 DEF Saves
<1>3. /\ shown' \in [Pages -> Values \cup {NoTheme}]
      /\ \A p \in Pages : shown'[p] = shown[p] \/ shown'[p] = Req[r].theme
  BY RequestTypes, ShowKeeps DEF Click
<1>4. \A p \in Pages : Shows(shown[p])'
  <2> SUFFICES ASSUME NEW p \in Pages PROVE Shows(shown[p])'
    OBVIOUS
  <2>1. CASE shown'[p] = Req[r].theme
    BY <1>1, <2>1 DEF Shows, Click, Saves
  <2>2. CASE shown'[p] = shown[p]
    BY <1>2, <2>2, ShowsLasts DEF TypeOK, Shows, Saves
  <2> QED
    BY <1>3, <2>1, <2>2
<1>5. /\ held' \in [Requests -> Values \cup {NoTheme}]
      /\ held'[r] = shown[Req[r].page]
      /\ \A s \in Requests \ {r} : held'[s] = held[s]
  BY RequestTypes DEF Click, TypeOK
<1>6. \A s \in Saves : Shows(held[s])'
  <2> SUFFICES ASSUME NEW s \in Saves PROVE Shows(held[s])'
    BY DEF Saves
  <2>1. Shows(held'[s])
    BY <1>5, RequestTypes DEF TypeOK, Saves
  <2>2. \/ held'[s] \in Themes \cup {NoTheme}
        \/ \E q \in Saves : pc'[q] # "ready" /\ Req[q].theme = held'[s]
    BY <2>1, <1>2, ShowsLasts
  <2> QED
    BY <2>2 DEF Shows, Saves
<1>7. /\ older' \in [Requests -> SUBSET Saves]
      /\ older'[r] = {s \in Saves : pc[s] \in Ended}
      /\ \A s \in Requests \ {r} : older'[s] = older[s]
  BY DEF Click, TypeOK
<1>8. TypeOK'
  <2>1. \A s \in Requests \ Saves : held'[s] \in Themes \cup {NoTheme}
    BY <1>5 DEF TypeOK, Click
  <2>2. account' \in Values /\ session' \in [Browsers -> Values \cup {NoTheme}]
        /\ faults' \in 0..MaxFaults
    BY DEF TypeOK, Click
  <2> QED
    BY <1>1, <1>3, <1>4, <1>5, <1>6, <1>7, <2>1, <2>2 DEF TypeOK, Saves
<1>9. Ordered'
  <2> SUFFICES ASSUME NEW s \in Saves
               PROVE  /\ \A q \in older'[s] : pc'[q] \in Ended
                      /\ s \notin older'[s]
                      /\ pc'[s] \in Stored => Current(s)'
    BY DEF Ordered, Saves
  <2>1. pc[r] = "ready" /\ r \notin {q \in Saves : pc[q] \in Ended}
    BY DEF Click, Ended
  <2>2. \A q \in Saves : pc[q] \in Ended => pc'[q] \in Ended
    BY <1>1, <2>1 DEF Saves
  <2>3. CASE s = r
    BY <1>1, <1>7, <2>1, <2>2, <2>3 DEF Stored
  <2>4. CASE s # r
    <3>1. older'[s] = older[s] /\ pc'[s] = pc[s] /\ older[s] \subseteq Saves
      BY <1>1, <1>7, <2>4 DEF TypeOK, Saves
    <3>2. Current(s) => Current(s)'
      BY <3>1 DEF Current, Click, Saves
    <3> QED
      BY <2>2, <3>1, <3>2 DEF Ordered
  <2> QED
    BY <2>3, <2>4
<1>10. Separate'
  BY <1>1 DEF Separate, Click
<1> QED
  BY <1>8, <1>9, <1>10

\* What the account is given is the choice of a save that is not over.
LEMMA StoreKeeps == ASSUME IInv, NEW r \in Requests, Store(r) PROVE IInv'
PROOF
<1> USE DEF IInv
<1>1. /\ pc' \in [Requests -> Places] /\ pc'[r] = "session"
      /\ \A s \in Requests \ {r} : pc'[s] = pc[s]
  BY DEF Store, GoTo, TypeOK, Places, AtServer
<1>2. r \in Saves /\ pc[r] = "store" /\ pc[r] \notin Ended
  BY DEF Store, Separate, AtServer, Ended
<1>3. \A s \in Saves : pc[s] # "ready" => pc'[s] # "ready"
  BY <1>1 DEF Saves
<1>4. TypeOK'
  <2>1. \A p \in Pages : Shows(shown[p])'
    BY <1>3, ShowsLasts DEF TypeOK, Shows, Store, Saves
  <2>2. \A s \in Saves : Shows(held[s])'
    BY <1>3, ShowsLasts DEF TypeOK, Shows, Store, Saves
  <2> QED
    BY <1>1, <2>1, <2>2 DEF TypeOK, Store, Saves
<1>5. Ordered'
  <2> SUFFICES ASSUME NEW s \in Saves
               PROVE  /\ \A q \in older'[s] : pc'[q] \in Ended
                      /\ s \notin older'[s]
                      /\ pc'[s] \in Stored => Current(s)'
    BY DEF Ordered, Saves
  <2>1. older' = older /\ older[s] \subseteq Saves /\ account' = Req[r].theme
    BY DEF Store, TypeOK, Saves
  <2>2. \A q \in older[s] : pc[q] \in Ended /\ q # r
    BY <1>2 DEF Ordered
  <2>3. \A q \in older[s] : pc'[q] \in Ended
    BY <1>1, <2>1, <2>2 DEF Saves
  <2>4. Current(s)'
    BY <1>2, <2>1, <2>2 DEF Current, Saves
  <2> QED
    BY <2>1, <2>3, <2>4 DEF Ordered
<1>6. Separate'
  BY <1>1, <1>2 DEF Separate
<1> QED
  BY <1>4, <1>5, <1>6

\* Every step keeps the invariant.
LEMMA NextKeeps == IInv /\ [Next]_vars => IInv'
PROOF
<1> SUFFICES ASSUME IInv, [Next]_vars PROVE IInv'
  OBVIOUS
<1>1. ASSUME NEW r \in Requests, Proceed(r) PROVE IInv'
  BY <1>1, StoreKeeps, ProceedKeeps DEF Proceed
<1>2. CASE UNCHANGED vars
  BY <1>2 DEF vars, IInv, TypeOK, Shows, Ordered, Current, Separate, Saves
<1> QED
  BY <1>1, <1>2, ClickKeeps, OpenKeeps, ProceedKeeps, DisconnectKeeps DEF Next, Finished

\* The invariant holds in every reachable state.
LEMMA Invariance == Spec => []IInv
PROOF
<1> QED
  BY InitKeeps, NextKeeps, PTL DEF Spec

\* Every variable keeps its type, and a page shows only themes of the registry
\* and those clicked on in it or in another.
THEOREM TypesHold == Spec => []TypeOK
PROOF
<1>1. IInv => TypeOK
  BY DEF IInv
<1> QED
  BY <1>1, Invariance, PTL

\* However many tabs and browsers save and open pages at once, and whatever
\* fails, a confirmed save is not undone in the account by an older one.
THEOREM AccountHolds == Spec => []AccountKeepsSaves
PROOF
<1>1. IInv => AccountKeepsSaves
  BY DEF IInv, Ordered, Current, Stored, AccountKeepsSaves, Superseded
<1> QED
  BY <1>1, Invariance, PTL

-----------------------------------------------------------------------------
(* The session of a browser that had a theme of the registry from the start. *)

\* A save that has written the session.
Written == {"answer", "saved", "unheard"}

\* Those sessions hold a theme of the registry, so no page writes to them: what
\* they hold after a save is its choice, or that of one that was not over when
\* it was clicked.
SessionInv ==
    \A b \in Browsers : OpeningSession[b] \in Themes =>
        /\ session[b] \in Themes
        /\ \A r \in Requests : Browser(r) = b =>
               /\ pc[r] # "render"
               /\ r \in Saves /\ pc[r] \in Stored => Req[r].theme \in Themes
               /\ r \in Saves /\ pc[r] \in Written =>
                      \E s \in Saves : Req[s].theme = session[b] /\ s \notin older[r]

\* A step that leaves the sessions alone keeps it, if nothing new is stored or
\* written and no page of such a session is about to write.
LEMMA SessionLasts ==
    ASSUME SessionInv, UNCHANGED session,
           \A r \in Requests :
               /\ pc'[r] = "render" => pc[r] = "render" \/ session[Browser(r)] \notin Themes
               /\ r \in Saves /\ pc'[r] \in Stored =>
                      pc[r] \in Stored \/ Req[r].theme \in Themes
               /\ r \in Saves /\ pc'[r] \in Written =>
                      pc[r] \in Written /\ older'[r] = older[r]
    PROVE  SessionInv'
PROOF
<1> SUFFICES ASSUME NEW b \in Browsers, OpeningSession[b] \in Themes,
                    NEW r \in Requests, Browser(r) = b
             PROVE  /\ session'[b] \in Themes
                    /\ pc'[r] # "render"
                    /\ r \in Saves /\ pc'[r] \in Stored => Req[r].theme \in Themes
                    /\ r \in Saves /\ pc'[r] \in Written =>
                           \E s \in Saves : Req[s].theme = session'[b] /\ s \notin older'[r]
  BY DEF SessionInv, Browser, Saves
<1> QED
  BY DEF SessionInv

\* The session is written with the choice of a save that is not over.
LEMMA SaveSessionKeepsIt ==
    ASSUME IInv, SessionInv, NEW q \in Requests, SaveSession(q)
    PROVE  SessionInv'
PROOF
<1>1. /\ pc'[q] = "answer" /\ \A r \in Requests \ {q} : pc'[r] = pc[r]
      /\ session'[Browser(q)] = Req[q].theme
      /\ \A b \in Browsers \ {Browser(q)} : session'[b] = session[b]
      /\ older' = older
  BY RequestTypes DEF SaveSession, GoTo, IInv, TypeOK
<1>2. q \in Saves /\ pc[q] = "session" /\ pc[q] \notin Ended /\ pc[q] \in Stored
  BY DEF SaveSession, IInv, Separate, AtServer, Ended, Stored
<1> SUFFICES ASSUME NEW b \in Browsers, OpeningSession[b] \in Themes
             PROVE  /\ session'[b] \in Themes
                    /\ \A r \in Requests : Browser(r) = b =>
                           /\ pc'[r] # "render"
                           /\ r \in Saves /\ pc'[r] \in Stored => Req[r].theme \in Themes
                           /\ r \in Saves /\ pc'[r] \in Written =>
                                  \E s \in Saves : /\ Req[s].theme = session'[b]
                                                   /\ s \notin older'[r]
  BY DEF SessionInv, Browser, Saves
<1>3. session'[b] \in Themes
  BY <1>1, <1>2 DEF SessionInv
<1>4. ASSUME NEW r \in Requests, Browser(r) = b
      PROVE  /\ pc'[r] # "render"
             /\ r \in Saves /\ pc'[r] \in Stored => Req[r].theme \in Themes
  BY <1>1, <1>2, <1>4 DEF SessionInv
<1>5. ASSUME NEW r \in Saves, Browser(r) = b, pc'[r] \in Written
      PROVE  \E s \in Saves : Req[s].theme = session'[b] /\ s \notin older'[r]
  <2>1. r \in Requests
    BY DEF Saves
  <2>2. CASE b = Browser(q)
    <3>1. q \notin older[r]
      BY <1>2 DEF IInv, Ordered
    <3> QED
      BY <1>1, <1>2, <2>2, <3>1
  <2>3. CASE b # Browser(q)
    BY <1>1, <1>5, <2>1, <2>3 DEF SessionInv
  <2> QED
    BY <2>2, <2>3
<1> QED
  BY <1>3, <1>4, <1>5

\* A page answered in another session does not touch these.
LEMMA RespondKeepsIt ==
    ASSUME IInv, SessionInv, NEW q \in Requests, Respond(q)
    PROVE  SessionInv'
PROOF
<1>1. /\ pc'[q] = "deliver" /\ \A r \in Requests \ {q} : pc'[r] = pc[r]
      /\ \A b \in Browsers \ {Browser(q)} : session'[b] = session[b]
      /\ older' = older /\ pc[q] = "render"
  BY DEF Respond, GoTo, IInv, TypeOK
<1> SUFFICES ASSUME NEW b \in Browsers, OpeningSession[b] \in Themes
             PROVE  /\ session'[b] \in Themes
                    /\ \A r \in Requests : Browser(r) = b =>
                           /\ pc'[r] # "render"
                           /\ r \in Saves /\ pc'[r] \in Stored => Req[r].theme \in Themes
                           /\ r \in Saves /\ pc'[r] \in Written =>
                                  \E s \in Saves : /\ Req[s].theme = session'[b]
                                                   /\ s \notin older'[r]
  BY DEF SessionInv, Browser, Saves
<1>2. Browser(q) # b
  BY <1>1 DEF SessionInv
<1> QED
  BY <1>1, <1>2 DEF SessionInv

\* Every step keeps it.
LEMMA NextKeepsSessions == IInv /\ SessionInv /\ [Next]_vars => SessionInv'
PROOF
<1> SUFFICES ASSUME IInv, SessionInv, [Next]_vars PROVE SessionInv'
  OBVIOUS
<1> USE DEF Stored, Written
<1>0. /\ pc \in [Requests -> Places] /\ older \in [Requests -> SUBSET Saves]
      /\ \A s \in Saves : s \in Requests
  BY DEF IInv, TypeOK, Saves
<1>1. ASSUME NEW q \in Requests, Click(q) PROVE SessionInv'
  BY <1>0, <1>1, SessionLasts DEF Click, GoTo
<1>2. ASSUME NEW q \in Requests, Open(q) PROVE SessionInv'
  <2>1. session[Browser(q)] \in Themes =>
            session[Browser(q)] = Selected(session[Browser(q)], account)
    BY DEF Selected, valid_theme
  <2> QED
    BY <1>0, <1>2, <2>1, SessionLasts DEF Open, GoTo
<1>3. ASSUME NEW q \in Requests, Store(q) PROVE SessionInv'
  BY <1>0, <1>3, SessionLasts DEF Store, GoTo
<1>4. ASSUME NEW q \in Requests, Refuse(q) PROVE SessionInv'
  BY <1>0, <1>4, SessionLasts DEF Refuse, GoTo
<1>5. ASSUME NEW q \in Requests, Saved(q) PROVE SessionInv'
  BY <1>0, <1>5, SessionLasts DEF Saved, GoTo
<1>6. ASSUME NEW q \in Requests, Restore(q) PROVE SessionInv'
  BY <1>0, <1>6, SessionLasts DEF Restore, GoTo
<1>7. ASSUME NEW q \in Requests, Deliver(q) PROVE SessionInv'
  BY <1>0, <1>7, SessionLasts DEF Deliver, GoTo
<1>8. ASSUME NEW q \in Requests, ServerError(q) PROVE SessionInv'
  BY <1>0, <1>8, SessionLasts DEF ServerError, GoTo
<1>9. ASSUME NEW q \in Requests, Disconnect(q) PROVE SessionInv'
  BY <1>0, <1>9, SessionLasts DEF Disconnect
<1>10. CASE UNCHANGED vars
  BY <1>0, <1>10, SessionLasts DEF vars
<1> QED
  BY <1>1, <1>2, <1>3, <1>4, <1>5, <1>6, <1>7, <1>8, <1>9, <1>10,
     SaveSessionKeepsIt, RespondKeepsIt DEF Next, Proceed, Finished

\* In a session that held a theme of the registry from the start, a confirmed
\* save is not undone by an older one, nor by any page, whatever fails.
THEOREM SessionsHold == Spec => []SessionKeepsSaves
PROOF
<1>1. Init => SessionInv
  BY RequestTypes DEF Init, SessionInv, Stored, Written
<1>2. SessionInv => SessionKeepsSaves
  BY DEF SessionInv, Written, SessionKeepsSaves, Superseded, Browser, Saves
<1>3. SessionInv /\ IInv /\ [Next]_vars => SessionInv'
  BY NextKeepsSessions
<1> QED
  BY <1>1, <1>2, <1>3, Invariance, PTL DEF Spec

-----------------------------------------------------------------------------
(* What a page shows after it has confirmed a choice.                        *)

\* The choice s, which the page still stands by, is not older than r, ...
NotOlder(p, s, r) == s \in Standing(p) /\ s \notin older[r]

\* ... the page shows such a choice, and a click made when r was over would, if
\* it failed, bring back one made before it.  This holds from the moment r is
\* clicked, for a tab where no failed click overlapped another one.
PageAt(p) ==
    Calm(p) => \A r \in Standing(p) :
        /\ \E t \in Clicks(p) : Req[t].theme = shown[p] /\ NotOlder(p, t, r)
        /\ \A s \in Standing(p) : r \in older[s] =>
               \E t \in Clicks(p) : /\ t # s /\ s \notin older[t]
                                    /\ Req[t].theme = held[s] /\ NotOlder(p, t, r)

PageInv == \A p \in Pages : PageAt(p)

\* A step that does not touch the page or its clicks keeps it.
LEMMA PageLasts ==
    ASSUME NEW p \in Pages, PageAt(p), shown'[p] = shown[p], Clicks(p)' = Clicks(p),
           \A s \in Clicks(p) : /\ older'[s] = older[s]
                                /\ held'[s] = held[s]
                                /\ GivenUp(s)' <=> GivenUp(s)
    PROVE  PageAt(p)'
PROOF
<1>1. Standing(p)' = Standing(p) /\ Standing(p) \subseteq Clicks(p)
  BY DEF Standing
<1>2. Calm(p)' => Calm(p)
  BY DEF Calm
<1>3. \A t \in Clicks(p), r \in Standing(p) : NotOlder(p, t, r) => NotOlder(p, t, r)'
  BY <1>1 DEF NotOlder
<1> SUFFICES ASSUME Calm(p)', NEW r \in Standing(p)
             PROVE  /\ \E t \in Clicks(p)' : Req[t].theme = shown'[p] /\ NotOlder(p, t, r)'
                    /\ \A s \in Standing(p)' : r \in older'[s] =>
                           \E t \in Clicks(p)' : /\ t # s /\ s \notin older'[t]
                                                 /\ Req[t].theme = held'[s]
                                                 /\ NotOlder(p, t, r)'
  BY <1>1 DEF PageAt
<1>4. \E t \in Clicks(p)' : Req[t].theme = shown'[p] /\ NotOlder(p, t, r)'
  BY <1>2, <1>3 DEF PageAt
<1>5. ASSUME NEW s \in Standing(p), r \in older'[s]
      PROVE  \E t \in Clicks(p)' : /\ t # s /\ s \notin older'[t]
                                   /\ Req[t].theme = held'[s]
                                   /\ NotOlder(p, t, r)'
  <2>1. s \in Clicks(p) /\ r \in older[s] /\ held'[s] = held[s]
    BY <1>1, <1>5
  <2>2. PICK t \in Clicks(p) : /\ t # s /\ s \notin older[t]
                               /\ Req[t].theme = held[s] /\ NotOlder(p, t, r)
    BY <1>2, <1>5, <2>1 DEF PageAt
  <2> QED
    BY <1>3, <2>1, <2>2
<1> QED
  BY <1>1, <1>4, <1>5

\* A click that is given up brings back a choice that still stands: all others
\* that stand were over when it was made.
LEMMA GivingUpKeepsIt ==
    ASSUME IInv, NEW p \in Pages, PageAt(p), NEW q \in Standing(p), pc[q] \notin Ended,
           shown'[p] = held[q], Clicks(p)' = Clicks(p), GivenUp(q)',
           \A s \in Clicks(p) : older'[s] = older[s],
           \A s \in Clicks(p) \ {q} : held'[s] = held[s] /\ (GivenUp(s)' <=> GivenUp(s))
    PROVE  PageAt(p)'
PROOF
<1>1. /\ Standing(p)' = Standing(p) \ {q} /\ Standing(p) \subseteq Clicks(p)
      /\ Clicks(p) \subseteq Saves
  BY DEF Standing, Clicks
<1> SUFFICES ASSUME Calm(p)', NEW r \in Standing(p)'
             PROVE  /\ \E t \in Clicks(p)' : Req[t].theme = shown'[p] /\ NotOlder(p, t, r)'
                    /\ \A s \in Standing(p)' : r \in older'[s] =>
                           \E t \in Clicks(p)' : /\ t # s /\ s \notin older'[t]
                                                 /\ Req[t].theme = held'[s]
                                                 /\ NotOlder(p, t, r)'
  BY DEF PageAt
<1>2. Calm(p)
  <2>1. \A s \in Clicks(p) : GivenUp(s) => GivenUp(s)'
    OBVIOUS
  <2> QED
    BY <2>1 DEF Calm
<1>3. \A s \in Standing(p) \ {q} : s \in older[q]
  <2> SUFFICES ASSUME NEW s \in Standing(p) \ {q} PROVE s \in older[q]
    OBVIOUS
  <2>1. q \in older'[s] \/ s \in older'[q]
    BY <1>1 DEF Calm
  <2>2. q \notin older[s]
    BY <1>1 DEF IInv, Ordered
  <2> QED
    BY <1>1, <2>1, <2>2
<1>4. r \in Standing(p) /\ r # q /\ r \in older[q] /\ older'[r] = older[r]
  BY <1>1, <1>3
<1>5. \A t \in Clicks(p) : t # q /\ NotOlder(p, t, r) => NotOlder(p, t, r)'
  BY <1>1, <1>4 DEF NotOlder
<1>6. PICK u \in Clicks(p) : u # q /\ Req[u].theme = held[q] /\ NotOlder(p, u, r)
  BY <1>2, <1>4 DEF PageAt
<1>7. ASSUME NEW s \in Standing(p)', r \in older'[s]
      PROVE  \E t \in Clicks(p)' : /\ t # s /\ s \notin older'[t]
                                   /\ Req[t].theme = held'[s] /\ NotOlder(p, t, r)'
  <2>1. s \in Standing(p) \ {q} /\ s \in Clicks(p) /\ r \in older[s] /\ held'[s] = held[s]
    BY <1>1, <1>7
  <2>2. PICK t \in Clicks(p) : /\ t # s /\ s \notin older[t]
                               /\ Req[t].theme = held[s] /\ NotOlder(p, t, r)
    BY <1>2, <1>4, <2>1 DEF PageAt
  <2>3. t # q
    BY <1>3, <2>1, <2>2
  <2> QED
    BY <1>5, <2>1, <2>2, <2>3
<1> QED
  BY <1>5, <1>6, <1>7

\* The page shows the choice it has just been given, and notes what it showed.
LEMMA ClickKeepsPage ==
    ASSUME IInv, NEW q \in Requests, Click(q), PageAt(Req[q].page)
    PROVE  PageAt(Req[q].page)'
PROOF
<1> DEFINE p == Req[q].page
<1>0. PageAt(p)
  OBVIOUS
<1>1. /\ q \in Saves /\ pc[q] = "ready" /\ pc'[q] = "store"
      /\ \A s \in Requests \ {q} : pc'[s] = pc[s]
      /\ p \in Pages /\ shown[p] # NoTheme
  BY RequestTypes DEF Click, GoTo, IInv, TypeOK
<1>2. /\ held'[q] = shown[p] /\ \A s \in Requests \ {q} : held'[s] = held[s]
      /\ older'[q] = {s \in Saves : pc[s] \in Ended}
      /\ \A s \in Requests \ {q} : older'[s] = older[s]
  BY DEF Click, IInv, TypeOK
<1>3. shown'[p] = Req[q].theme
  BY <1>1, RequestTypes DEF Click, Show, IInv, TypeOK, ThemeAssumption
<1>4. /\ q \notin Clicks(p) /\ Clicks(p) \subseteq Requests
      /\ Clicks(p)' = Clicks(p) \cup {q}
  BY <1>1 DEF Clicks, Saves
<1>5. /\ \A s \in Clicks(p) : s # q /\ (GivenUp(s)' <=> GivenUp(s))
      /\ ~GivenUp(q)'
  BY <1>1, <1>2, <1>4 DEF GivenUp
<1>6. Standing(p)' = Standing(p) \cup {q} /\ Standing(p) \subseteq Clicks(p)
  BY <1>4, <1>5 DEF Standing
<1>7. \A s \in Clicks(p)' : q \notin older'[s]
  BY <1>1, <1>2, <1>4 DEF IInv, Ordered, Clicks, Ended
<1>8. Calm(p)' => Calm(p)
  BY <1>2, <1>4, <1>5 DEF Calm
<1> HIDE DEF p
<1> SUFFICES ASSUME Calm(p)', NEW r \in Standing(p)'
             PROVE  /\ \E t \in Clicks(p)' : Req[t].theme = shown'[p] /\ NotOlder(p, t, r)'
                    /\ \A s \in Standing(p)' : r \in older'[s] =>
                           \E t \in Clicks(p)' : /\ t # s /\ s \notin older'[t]
                                                 /\ Req[t].theme = held'[s]
                                                 /\ NotOlder(p, t, r)'
  BY DEF PageAt, p
<1>9. NotOlder(p, q, r)'
  BY <1>4, <1>6, <1>7 DEF NotOlder
<1>10. ASSUME NEW s \in Standing(p)', r \in older'[s]
       PROVE  \E t \in Clicks(p)' : /\ t # s /\ s \notin older'[t]
                                    /\ Req[t].theme = held'[s] /\ NotOlder(p, t, r)'
  <2>1. r \in Standing(p) /\ r # q /\ older'[r] = older[r]
    BY <1>2, <1>4, <1>6, <1>7, <1>10
  <2>2. \A t \in Clicks(p) : NotOlder(p, t, r) => NotOlder(p, t, r)'
    BY <1>6, <2>1 DEF NotOlder
  <2>3. \A t \in Clicks(p) : t # q /\ older'[t] = older[t]
    BY <1>2, <1>4
  <2>4. CASE s = q
    <3>1. PICK t \in Clicks(p) : Req[t].theme = shown[p] /\ NotOlder(p, t, r)
      BY <1>0, <1>8, <2>1 DEF PageAt
    <3> QED
      BY <1>2, <1>4, <1>7, <2>2, <2>3, <2>4, <3>1
  <2>5. CASE s # q
    <3>1. s \in Standing(p) /\ s \in Clicks(p) /\ r \in older[s] /\ held'[s] = held[s]
      BY <1>2, <1>4, <1>6, <1>10, <2>5
    <3>2. PICK t \in Clicks(p) : /\ t # s /\ s \notin older[t]
                                 /\ Req[t].theme = held[s] /\ NotOlder(p, t, r)
      BY <1>0, <1>8, <2>1, <3>1 DEF PageAt
    <3> QED
      BY <1>4, <2>2, <2>3, <3>1, <3>2
  <2> QED
    BY <2>4, <2>5
<1> QED
  BY <1>3, <1>4, <1>9, <1>10

\* A click touches its own page only.
LEMMA ClickKeepsPages ==
    ASSUME IInv, PageInv, NEW q \in Requests, Click(q)
    PROVE  PageInv'
PROOF
<1> SUFFICES ASSUME NEW p \in Pages PROVE PageAt(p)'
  BY DEF PageInv
<1>1. CASE p = Req[q].page
  BY <1>1, ClickKeepsPage DEF PageInv
<1>2. CASE p # Req[q].page
  <2>1. shown'[p] = shown[p]
    BY <1>2 DEF Click, Show, IInv, TypeOK
  <2>2. \A s \in Requests \ {q} : /\ pc'[s] = pc[s] /\ older'[s] = older[s]
                                  /\ held'[s] = held[s]
    BY DEF Click, GoTo, IInv, TypeOK
  <2>3. Clicks(p)' = Clicks(p) /\ Clicks(p) \subseteq Requests \ {q}
    BY <1>2, <2>2 DEF Clicks, Saves
  <2>4. \A s \in Clicks(p) : GivenUp(s)' <=> GivenUp(s)
    BY <2>2, <2>3 DEF GivenUp
  <2> QED
    BY <2>1, <2>2, <2>3, <2>4, PageLasts DEF PageInv
<1> QED
  BY <1>1, <1>2

\* A step that shows nothing new, and gives no click up, touches none.
LEMMA QuietKeepsPages ==
    ASSUME PageInv, UNCHANGED <<shown, older>>,
           \A s \in Saves : /\ held'[s] = held[s]
                            /\ pc'[s] = "ready" <=> pc[s] = "ready"
                            /\ pc'[s] = "failed" <=> pc[s] = "failed"
    PROVE  PageInv'
PROOF
<1> SUFFICES ASSUME NEW p \in Pages PROVE PageAt(p)'
  BY DEF PageInv
<1>1. Clicks(p)' = Clicks(p) /\ Clicks(p) \subseteq Saves
  BY DEF Clicks, Saves
<1>2. \A s \in Clicks(p) : GivenUp(s)' <=> GivenUp(s)
  BY <1>1 DEF GivenUp
<1> QED
  BY <1>1, <1>2, PageLasts DEF PageInv

\* A click that fails touches its own page only, and if its document is gone, none.
LEMMA FailingKeepsPages ==
    ASSUME IInv, PageInv, NEW q \in Requests, Restore(q) \/ Disconnect(q)
    PROVE  PageInv'
PROOF
<1>1. /\ q \in Saves /\ pc[q] # "ready" /\ pc[q] # "failed" /\ pc[q] \notin Ended
      /\ pc'[q] # "ready" /\ Show(q, held[q]) /\ older' = older
  BY DEF Restore, Disconnect, IInv, Separate, TypeOK, GoTo, AtServer, Ended
<1>2. \A s \in Requests \ {q} : pc'[s] = pc[s] /\ held'[s] = held[s]
  BY DEF Restore, Disconnect, IInv, TypeOK, GoTo
<1>3. pc'[q] = "failed" \/ held'[q] = NoTheme
  BY DEF Restore, Disconnect, IInv, TypeOK, GoTo
<1>4. held[q] = NoTheme => held'[q] = NoTheme
  BY DEF Restore, Disconnect
<1> SUFFICES ASSUME NEW p \in Pages PROVE PageAt(p)'
  BY DEF PageInv
<1>5. PageAt(p)
  BY DEF PageInv
<1>6. /\ Clicks(p)' = Clicks(p) /\ Clicks(p) \subseteq Requests
      /\ q \in Clicks(p) <=> p = Req[q].page
  BY <1>1, <1>2 DEF Clicks, Saves
<1>7. \A s \in Clicks(p) \ {q} : GivenUp(s)' <=> GivenUp(s)
  BY <1>2, <1>6 DEF GivenUp
<1>8. CASE p # Req[q].page
  <2>1. shown'[p] = shown[p]
    BY <1>1, <1>8 DEF Show, IInv, TypeOK
  <2> QED
    BY <1>1, <1>2, <1>5, <1>6, <1>7, <1>8, <2>1, PageLasts
<1>9. CASE p = Req[q].page /\ held[q] = NoTheme
  <2>1. shown'[p] = shown[p]
    BY <1>1, <1>9 DEF Show, IInv, TypeOK
  <2>2. GivenUp(q)' /\ GivenUp(q)
    BY <1>4, <1>9 DEF GivenUp
  <2> QED
    BY <1>1, <1>2, <1>4, <1>5, <1>6, <1>7, <1>9, <2>1, <2>2, PageLasts
<1>10. CASE p = Req[q].page /\ held[q] # NoTheme
  <2>1. shown'[p] = held[q]
    BY <1>1, <1>10 DEF Show, IInv, TypeOK
  <2>2. q \in Standing(p) /\ GivenUp(q)'
    BY <1>1, <1>3, <1>6, <1>10 DEF Standing, GivenUp
  <2> QED
    BY <1>1, <1>2, <1>5, <1>6, <1>7, <2>1, <2>2, GivingUpKeepsIt
<1> QED
  BY <1>8, <1>9, <1>10

\* A new document has no click to answer for, and leaves other tabs alone.
LEMMA DeliverKeepsPages ==
    ASSUME IInv, PageInv, NEW q \in Requests, Deliver(q)
    PROVE  PageInv'
PROOF
<1> SUFFICES ASSUME NEW p \in Pages PROVE PageAt(p)'
  BY DEF PageInv
<1>1. /\ \A s \in Requests \ {q} : pc'[s] = pc[s]
      /\ pc[q] = "deliver" /\ pc'[q] = "opened" /\ older' = older
  BY DEF Deliver, GoTo, IInv, TypeOK
<1>2. Clicks(p)' = Clicks(p) /\ Clicks(p) \subseteq Saves
  BY <1>1 DEF Clicks, Saves
<1>3. CASE p = Req[q].page
  <2>1. \A s \in Clicks(p) : held'[s] = NoTheme
    BY <1>3 DEF Clicks, Saves, Deliver
  <2>2. Standing(p)' = {}
    BY <1>2, <2>1 DEF Standing, GivenUp
  <2> QED
    BY <2>2 DEF PageAt
<1>4. CASE p # Req[q].page
  <2>1. shown'[p] = shown[p]
    BY <1>4 DEF Deliver, Show, IInv, TypeOK
  <2>2. \A s \in Clicks(p) : held'[s] = held[s]
    BY <1>4 DEF Clicks, Saves, Deliver
  <2>3. \A s \in Clicks(p) : GivenUp(s)' <=> GivenUp(s)
    BY <1>1, <1>2, <2>2 DEF GivenUp, Saves
  <2> QED
    BY <1>1, <1>2, <2>1, <2>2, <2>3, PageLasts DEF PageInv
<1> QED
  BY <1>3, <1>4

\* Every step keeps it.
LEMMA NextKeepsPages == IInv /\ PageInv /\ [Next]_vars => PageInv'
PROOF
<1> SUFFICES ASSUME IInv, PageInv, [Next]_vars PROVE PageInv'
  OBVIOUS
<1>0. pc \in [Requests -> Places] /\ \A s \in Saves : s \in Requests
  BY DEF IInv, TypeOK, Saves
<1>1. ASSUME NEW q \in Requests, Open(q) PROVE PageInv'
  <2>1. \A s \in Saves : held'[s] = held[s]
    BY <1>0, <1>1 DEF Open, IInv, TypeOK
  <2> QED
    BY <1>0, <1>1, <2>1, QuietKeepsPages DEF Open, GoTo
<1>2. ASSUME NEW q \in Requests, Store(q) PROVE PageInv'
  BY <1>0, <1>2, QuietKeepsPages DEF Store, GoTo
<1>3. ASSUME NEW q \in Requests, Refuse(q) PROVE PageInv'
  BY <1>0, <1>3, QuietKeepsPages DEF Refuse, GoTo
<1>4. ASSUME NEW q \in Requests, SaveSession(q) PROVE PageInv'
  BY <1>0, <1>4, QuietKeepsPages DEF SaveSession, GoTo
<1>5. ASSUME NEW q \in Requests, Saved(q) PROVE PageInv'
  BY <1>0, <1>5, QuietKeepsPages DEF Saved, GoTo
<1>6. ASSUME NEW q \in Requests, Respond(q) PROVE PageInv'
  BY <1>0, <1>6, QuietKeepsPages DEF Respond, GoTo
<1>7. ASSUME NEW q \in Requests, ServerError(q) PROVE PageInv'
  BY <1>0, <1>7, QuietKeepsPages DEF ServerError, GoTo, AtServer
<1>8. CASE UNCHANGED vars
  BY <1>8, QuietKeepsPages DEF vars
<1> QED
  BY <1>1, <1>2, <1>3, <1>4, <1>5, <1>6, <1>7, <1>8, ClickKeepsPages,
     FailingKeepsPages, DeliverKeepsPages DEF Next, Proceed, Finished

\* However many clicks are under way and whatever fails, a page that has confirmed
\* a choice shows it, or one that was not over when it was made and has not failed,
\* unless a failed click of the tab overlapped another one.
THEOREM PagesHold == Spec => []PageKeepsSaves
PROOF
<1>1. Init => PageInv
  BY DEF Init, PageInv, PageAt, Standing, Clicks, Saves
<1>2. PageInv => PageKeepsSaves
  BY DEF PageInv, PageAt, PageKeepsSaves, Standing, NotOlder
<1>3. PageInv /\ IInv /\ [Next]_vars => PageInv'
  BY NextKeepsPages
<1> QED
  BY <1>1, <1>2, <1>3, Invariance, PTL DEF Spec
=============================================================================
