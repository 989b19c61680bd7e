------------------------------- MODULE WebForms -------------------------------
(****************************************************************************)
(* Customers and administrators in front of the money operations: the pages *)
(* of src/wallets/web.py and src/administration/web.py, each form with the  *)
(* hidden key it was rendered with, and the API beside them.                *)
(*                                                                          *)
(* A browser may send any rendering of a form again at any time: the user   *)
(* clicks twice, reloads, goes back, or never got the answer.  So a form is *)
(* not used up when it is sent, and answers need not be lost to be asked    *)
(* for again.  A post passes the form's own checks, then the service, whose *)
(* money and failure transactions are single steps here, as AtomicWallet    *)
(* has them; between these steps other posts and administrators go on.      *)
(****************************************************************************)
EXTENDS AtomicWallet, Bags, BagsExt

CONSTANTS
    FormKeys,    \* keys that come from forms; the API sends the others
    MaxPosts     \* bound: posts in a behaviour

ASSUME FormsAssumption ==
    /\ FormKeys \subseteq UsedKeys
    /\ \A r \in Requests : KeyOf(Req[r]) \in FormKeys =>
          /\ Req[r].key # NoKey
          \* the forms take the currency from the wallet that was chosen
          /\ Req[r].op \in {"DEPOSIT", "WITHDRAWAL"} => Req[r].currency = Currency[Req[r].wallet]
    /\ MaxPosts \in Nat

VARIABLES
    offered,     \* offered[k]: wallets some rendering of form k lets choose
    confirmable, \* requests whose confirmation page has been shown
    posts,       \* the POSTs in progress, a bag: a double click sends two
    clicks,      \* POSTs so far
    asked,       \* history: requests sent, transfers once they are confirmed
    page         \* history: the last answer to a repeated request

forms == <<offered, confirmable, posts, clicks, asked, page>>

IsForm(r) == KeyOf(Req[r]) \in FormKeys
Asks(p) == Req[p.request]
KeyFor(p) == KeyOf(Asks(p))

\* The wallet choices of a form that is rendered now.  The adjustment form is
\* on the page of a wallet, whatever its status.
Selectable(k) ==
    {w \in Wallets : \/ k[2] = "BALANCE_ADJUSTMENT"
                     \/ Owner[w] = k[1] /\ wallet[w].status = "ACTIVE"}

NoPage == [request |-> 0, answer |-> NoAnswer]

FormsInit ==
    /\ offered = [k \in FormKeys |-> {}]
    /\ confirmable = {}
    /\ posts = EmptyBag
    /\ clicks = 0
    /\ asked = {}
    /\ page = NoPage

-----------------------------------------------------------------------------
(* The browser.                                                             *)

\* Opening a page renders its form with a fresh key.
GetForm(k) ==
    /\ offered[k] = {}
    /\ offered' = [offered EXCEPT ![k] = Selectable(k)]
    /\ UNCHANGED <<tables, context, confirmable, posts, clicks, asked, page>>

\* The key holds the answer to this very request.
Answered(r) == /\ Stored(KeyOf(Req[r]))
               /\ idem[KeyOf(Req[r])].fingerprint = Fingerprint(Req[r])

NeedsConfirmation(r, confirmed) == IsForm(r) /\ Req[r].op = "TRANSFER" /\ ~confirmed

\* repeated is history: whether the request is one that has its answer already.
Post(r, confirmed, stage) ==
    /\ clicks < MaxPosts
    /\ clicks' = clicks + 1
    /\ posts' = BagAdd(posts, [request |-> r, confirmed |-> confirmed, stage |-> stage,
                               code |-> NoCode, repeated |-> Answered(r)])
    /\ asked' = IF NeedsConfirmation(r, confirmed) THEN asked ELSE asked \cup {r}
    /\ UNCHANGED <<tables, context, offered, confirmable, page>>

\* The user fills a rendering of the form, perhaps an old one.
SubmitForm(r) == IsForm(r) /\ Req[r].wallet \in offered[KeyOf(Req[r])] /\ Post(r, FALSE, "form")

\* The button of a confirmation page: its hidden fields repeat the values shown.
ConfirmTransfer(r) == r \in confirmable /\ Post(r, TRUE, "form")

CallApi(r) == ~IsForm(r) /\ Post(r, FALSE, "service")

-----------------------------------------------------------------------------
(* The view: form.is_valid and the confirmation page.                       *)

GoOn(p, stage, code) ==
    /\ posts' = BagAdd(BagRemove(posts, p), [p EXCEPT !.stage = stage, !.code = code])
    /\ UNCHANGED <<clicks, asked, page>>

Tell(p, a) ==
    /\ posts' = BagRemove(posts, p)
    /\ page' = IF p.repeated THEN [request |-> p.request, answer |-> a] ELSE NoPage
    /\ UNCHANGED <<clicks, asked>>

\* The form is rendered again under the answer, with the key it was sent with.
\* Receipts carry no form; adjustments redirect to a page with a fresh key.
RenderAgain(k) ==
    offered' = IF k \in FormKeys /\ k[2] # "BALANCE_ADJUSTMENT"
               THEN [offered EXCEPT ![k] = @ \cup Selectable(k)]
               ELSE offered

\* An answer that writes nothing.
TellError(p, code) ==
    /\ Tell(p, ErrorAnswer(code))
    /\ RenderAgain(KeyFor(p))
    /\ UNCHANGED <<tables, context, confirmable>>

\* Wallets are queried anew for each post, and amounts are positive except in
\* adjustments.
FormIsValid(q) ==
    /\ q.wallet \in Selectable(KeyOf(q))
    /\ q.op \in Audited => q.amount > 0

InvalidForm(p) ==
    /\ p.stage = "form"
    /\ ~FormIsValid(Asks(p))
    /\ TellError(p, "invalid_form")

\* The page has a button only if the recipient wallet exists.
ShowConfirmation(p) ==
    /\ p.stage = "form"
    /\ FormIsValid(Asks(p))
    /\ NeedsConfirmation(p.request, p.confirmed)
    /\ Tell(p, ErrorAnswer("confirm"))
    /\ confirmable' = confirmable \cup (IF Asks(p).peer \in Wallets THEN {p.request} ELSE {})
    /\ UNCHANGED <<tables, context, offered>>

EnterServiceUnconfirmed(p) ==
    /\ p.stage = "form"
    /\ FormIsValid(Asks(p))
    /\ GoOn(p, "service", NoCode)
    /\ UNCHANGED <<tables, context, offered, confirmable>>
EnterService(p) ==
    /\ p.stage = "form"
    /\ FormIsValid(Asks(p))
    /\ ~NeedsConfirmation(p.request, p.confirmed)
    /\ GoOn(p, "service", NoCode)
    /\ UNCHANGED <<tables, context, offered, confirmable>>

-----------------------------------------------------------------------------
(* The service.                                                             *)

Serving(p) == p.stage = "service" /\ EarlyError(Asks(p)) = Accepted

Verdict(q) == BusinessError(q, wallet, DailyCompletedTotal(transactions, q.wallet, q.op, today),
                            config)

RefuseAtOnce(p) ==
    /\ p.stage = "service"
    /\ EarlyError(Asks(p)) # Accepted
    /\ TellError(p, EarlyError(Asks(p)))

\* The stored receipt, or the refusal on record.
TellStored(p) ==
    /\ Serving(p)
    /\ Answered(p.request)
    /\ LET stored == idem[KeyFor(p)].answer IN
       IF stored.code = Accepted
       THEN Tell(p, stored) /\ UNCHANGED <<tables, context, offered, confirmable>>
       ELSE TellError(p, stored.code)

TellConflict(p) ==
    /\ Serving(p)
    /\ Stored(KeyFor(p)) /\ ~Answered(p.request)
    /\ TellError(p, "conflict")

PerformOverRefusal(p) ==
    /\ Serving(p)
    /\ Stored(KeyFor(p)) => idem[KeyFor(p)].answer.code # Accepted
    /\ Verdict(Asks(p)) = Accepted
    /\ \E reference \in NextReferences : PostMoney(Asks(p), wallet, reference)
    /\ Tell(p, idem'[KeyFor(p)].answer)
    /\ UNCHANGED <<context, offered, confirmable>>
PerformRequest(p) ==
    /\ p.stage = "service"
    /\ Perform(Asks(p))
    /\ Tell(p, idem'[KeyFor(p)].answer)
    /\ UNCHANGED <<offered, confirmable>>

\* The rollback of a refused request gives its key up before the failure record
\* claims it again; adjustments leave no record.
RefuseBeforeReplay(p) ==
    /\ Serving(p)
    /\ Verdict(Asks(p)) # Accepted
    /\ IF Asks(p).op \in Audited
       THEN /\ GoOn(p, "refused", Verdict(Asks(p)))
            /\ UNCHANGED <<tables, context, offered, confirmable>>
       ELSE TellError(p, Verdict(Asks(p)))
RefuseByRules(p) ==
    /\ Serving(p)
    /\ ~Stored(KeyFor(p))
    /\ Verdict(Asks(p)) # Accepted
    /\ IF Asks(p).op \in Audited
       THEN /\ GoOn(p, "refused", Verdict(Asks(p)))
            /\ UNCHANGED <<tables, context, offered, confirmable>>
       ELSE TellError(p, Verdict(Asks(p)))

RecordRefusal(p) ==
    /\ p.stage = "refused"
    /\ ~Stored(KeyFor(p))
    /\ \E reference \in NextReferences : PostFailure(Asks(p), p.code, reference)
    /\ Tell(p, ErrorAnswer(p.code))
    /\ RenderAgain(KeyFor(p))
    /\ UNCHANGED <<context, confirmable>>

\* Somebody answered the key meanwhile, or the failure transaction failed and
\* the error was swallowed.
SkipRecord(p) == p.stage = "refused" /\ TellError(p, p.code)

\* A deadlock, a lost connection, a balance past max_digits: the money
\* transaction is rolled back and the error page has no form.
ServerError(p) ==
    /\ p.stage = "service"
    /\ Tell(p, ErrorAnswer("server_error"))
    /\ UNCHANGED <<tables, context, offered, confirmable>>

-----------------------------------------------------------------------------
Browse(r) == SubmitForm(r) \/ ConfirmTransfer(r) \/ CallApi(r)
Check(p)  == InvalidForm(p) \/ ShowConfirmation(p) \/ EnterService(p)
Serve(p)  == \/ RefuseAtOnce(p) \/ TellStored(p) \/ TellConflict(p) \/ PerformRequest(p)
             \/ RefuseByRules(p) \/ RecordRefusal(p) \/ SkipRecord(p) \/ ServerError(p)

FormsNext ==
    \/ \E k \in FormKeys : GetForm(k)
    \/ \E r \in Requests : Browse(r)
    \/ \E p \in BagToSet(posts) : Check(p) \/ Serve(p)
    \/ \E w \in Wallets, freeze \in BOOLEAN : SetFrozen(w, freeze) /\ UNCHANGED forms

FormsSpec == TablesInit /\ FormsInit /\ [][FormsNext]_<<tables, context, forms>>

-----------------------------------------------------------------------------
(* Properties.                                                              *)

\* Posts and pages have their types.
FormsOK ==
    LET codes == Codes \cup {"invalid_form", "confirm"} IN
    /\ offered \in [FormKeys -> SUBSET Wallets]
    /\ confirmable \subseteq {r \in Requests : Req[r].op = "TRANSFER"}
    /\ IsABag(posts)
    /\ BagToSet(posts) \subseteq
          [request : Requests, confirmed : BOOLEAN, repeated : BOOLEAN,
           stage : {"form", "service", "refused"}, code : BusinessCodes \cup {NoCode}]
    /\ clicks \in 0..MaxPosts
    /\ asked \subseteq Requests
    /\ page.request \in Requests \cup {0}
    /\ page.answer \in [code : codes, reference : Refs, balance : 0..MaxBalance]

\* A transfer from the pages moves only what its user has seen on a confirmation
\* page, with a recipient that existed (README.md:166), although the page keeps
\* nothing on the server: a post that skips it, or that was edited after it, is
\* shown it again.
ConfirmedTransfers ==
    \A k \in FormKeys :
        k[2] = "TRANSFER" /\ Stored(k) /\ idem[k].answer.code = Accepted =>
            \E r \in confirmable :
                /\ KeyOf(Req[r]) = k
                /\ LET t == transactions[idem[k].transaction]
                   IN  t = TransactionRow(Req[r], t.reference, "COMPLETED", t.created)

\* Whoever repeats a request after it was answered on record gets that answer
\* (README.md:84): the receipt of money that moved, or the refusal, even if the
\* rules would decide otherwise by now.  Short of a server error there are two
\* exceptions, both on the pages: a transfer without confirmation is shown the
\* confirmation page, and the form does not know a wallet that an administrator
\* has frozen meanwhile, so that the receipt cannot be had again.
RepeatsGetTheStoredAnswer ==
    page # NoPage =>
        \/ page.answer = idem[KeyFor(page)].answer
        \/ page.answer.code \in {"server_error", "confirm"}
        \/ /\ page.answer.code = "invalid_form"
           /\ \E a \in DOMAIN audits : /\ audits[a].wallet = Asks(page).wallet
                                       /\ audits[a].action = "FREEZE"

-----------------------------------------------------------------------------
(* Refinement.                                                              *)

RequestKey    == [r \in Requests |-> KeyOf(Req[r])]
RequestEffect == [r \in Requests |->
    [w \in Wallets |-> IF w \in Touched(Req[r]) THEN Delta(Req[r], w) ELSE 0]]
OpeningBalance == [w \in Wallets |-> Opening[w].balance]

Fate(k) == IF ~Stored(k) THEN "open"
           ELSE IF idem[k].answer.code = Accepted THEN "moved" ELSE "refused"

Promise == INSTANCE FormPromise WITH
    Forms    <- UsedKeys,
    Orders   <- Requests,
    FormOf   <- RequestKey,
    Accounts <- Wallets,
    Effect   <- RequestEffect,
    Start    <- OpeningBalance,
    fate     <- [k \in UsedKeys |-> Fate(k)],
    balance  <- [w \in Wallets |-> wallet[w].balance]

\* Every form, and every key of an API client, is decided once: by one of the
\* orders it was sent with.  A refused form that is rendered again and corrected
\* keeps its key, so it can be sent as often as the user likes and will not move
\* money any more, unless its refusal went unrecorded.
KeepsPromise == Promise!Spec
=============================================================================
