---------------------------- MODULE WalletDirectory ----------------------------
(****************************************************************************)
(* What creating, freezing and unfreezing wallets promises: a user has at   *)
(* most one active wallet in a currency, every call takes effect in one     *)
(* step or not at all, and a refusal is true when it is decided.            *)
(*                                                                          *)
(* Wallets are numbered in the order they are committed.  Balances belong   *)
(* to MoneyService.                                                         *)
(****************************************************************************)
EXTENDS Integers, Sequences

CONSTANTS
    Users,       \* accounts.User rows
    Admins,      \* the users with is_staff or role ADMIN
    Currencies,  \* three-letter codes a client may send
    Supported,   \* those listed in SUPPORTED_CURRENCIES
    NoCurrency,  \* NULL in the active_currency column
    Opening,     \* the wallets there are when observation starts
    Requests,    \* calls of create_wallet and set_wallet_frozen
    Req          \* Req[r]: what call r asks for

Statuses == {"ACTIVE", "FROZEN", "CLOSED"}

\* active_currency is the column of unique_active_wallet_currency.
Row == [owner : Users, currency : Currencies, status : Statuses,
        active : Currencies \cup {NoCurrency}]

\* A CREATE has no use for the wallet and the reason, the others for the
\* currency.  Of a reason it only matters whether it is blank.
Call == [op : {"CREATE", "FREEZE", "UNFREEZE"}, actor : Users,
         currency : Currencies, wallet : Nat \ {0}, reason : BOOLEAN]

\* Wallet.save keeps active_currency in step with the status.
ActiveCurrency(currency, status) == IF status = "ACTIVE" THEN currency ELSE NoCurrency
Saved(row) == [row EXCEPT !.active = ActiveCurrency(row.currency, row.status)]

ASSUME DirectoryAssumption ==
    /\ Admins \subseteq Users
    /\ Supported \subseteq Currencies
    /\ NoCurrency \notin Currencies
    /\ Req \in [Requests -> Call]
    /\ Opening \in Seq(Row)
    /\ \A i \in DOMAIN Opening :
          Opening[i].active = ActiveCurrency(Opening[i].currency, Opening[i].status)
    /\ \A i, j \in DOMAIN Opening :
          /\ Opening[i].owner = Opening[j].owner
          /\ Opening[i].active = Opening[j].active
          /\ Opening[i].active # NoCurrency
          => i = j

VARIABLES
    wallets,   \* committed wallets_wallet rows
    audits,    \* committed freeze and unfreeze rows of the audit table
    answer     \* answer[r]: what call r returned or raised

directory == <<wallets, audits, answer>>

NoAnswer == ""
Done == "ok"
Refusals == {"unsupported_currency", "permission_denied", "reason_required",
             "not_found", "conflict"}
Answers == Refusals \cup {NoAnswer, Done, "server_error"}

-----------------------------------------------------------------------------
\* A slot of the unique constraint is occupied.
Occupied(u, c) == \E i \in DOMAIN wallets : wallets[i].owner = u /\ wallets[i].active = c

\* ... by a wallet other than w.
OccupiedByOther(w) ==
    \E i \in DOMAIN wallets \ {w} : /\ wallets[i].owner = wallets[w].owner
                                    /\ wallets[i].active = wallets[w].currency

Expected(q) == IF q.op = "FREEZE" THEN "ACTIVE" ELSE "FROZEN"
Target(q)   == IF q.op = "FREEZE" THEN "FROZEN" ELSE "ACTIVE"

\* Refusals decided before the first row is read.
EarlyRefusal(q) ==
    IF q.op = "CREATE" /\ q.currency \notin Supported THEN "unsupported_currency"
    ELSE IF q.op # "CREATE" /\ q.actor \notin Admins THEN "permission_denied"
    ELSE IF q.op # "CREATE" /\ ~q.reason THEN "reason_required"
    ELSE Done

\* The two ConflictErrors of set_wallet_frozen.
StatusConflict(q) ==
    \/ wallets[q.wallet].status # Expected(q)
    \/ q.op = "UNFREEZE" /\ OccupiedByOther(q.wallet)

NewRow(q) == [owner |-> q.actor, currency |-> q.currency, status |-> "ACTIVE",
              active |-> ActiveCurrency(q.currency, "ACTIVE")]

\* save(update_fields=["status", "active_currency", ...]), and the same without
\* the second of these columns.
WithStatusOnly(row, s) == [row EXCEPT !.status = s]
WithStatus(row, s) == Saved([row EXCEPT !.status = s])

\* The writes of a call that succeeds.
Write(q) ==
    IF q.op = "CREATE"
    THEN wallets' = Append(wallets, NewRow(q)) /\ UNCHANGED audits
    ELSE /\ wallets' = [wallets EXCEPT ![q.wallet] = WithStatus(@, Target(q))]
         /\ audits' = Append(audits, [wallet |-> q.wallet, action |-> q.op,
                                      administrator |-> q.actor])

Answer(r, a) == answer' = [answer EXCEPT ![r] = a]

-----------------------------------------------------------------------------
Init ==
    /\ wallets = Opening
    /\ audits = <<>>
    /\ answer = [r \in Requests |-> NoAnswer]

\* A new wallet takes a free slot.
Create(r) ==
    /\ Req[r].op = "CREATE"
    /\ ~Occupied(Req[r].actor, Req[r].currency)
    /\ Write(Req[r])

\* A change of status starts from the expected one, and an unfrozen wallet
\* takes a free slot.
ChangeStatus(r) ==
    /\ Req[r].op # "CREATE"
    /\ Req[r].wallet \in DOMAIN wallets
    /\ ~StatusConflict(Req[r])
    /\ Write(Req[r])

Serve(r) ==
    /\ answer[r] = NoAnswer
    /\ EarlyRefusal(Req[r]) = Done
    /\ Create(r) \/ ChangeStatus(r)
    /\ Answer(r, Done)

\* Why a call may be refused, in terms of the wallets at that moment.
Reason(q, code) ==
    \/ EarlyRefusal(q) # Done /\ code = EarlyRefusal(q)
    \/ q.op = "CREATE" /\ Occupied(q.actor, q.currency) /\ code = "conflict"
    \/ q.op # "CREATE" /\ q.wallet \notin DOMAIN wallets /\ code = "not_found"
    \/ /\ q.op # "CREATE" /\ q.wallet \in DOMAIN wallets
       /\ StatusConflict(q) /\ code = "conflict"

Refuse(r) ==
    /\ answer[r] = NoAnswer
    /\ \E code \in Refusals : Reason(Req[r], code) /\ Answer(r, code)
    /\ UNCHANGED <<wallets, audits>>

\* An unexpected error, which leaves no trace.
Fail(r) ==
    /\ answer[r] = NoAnswer
    /\ Answer(r, "server_error")
    /\ UNCHANGED <<wallets, audits>>

Next == \E r \in Requests : Serve(r) \/ Refuse(r) \/ Fail(r)

Spec == Init /\ [][Next]_directory

-----------------------------------------------------------------------------
\* One active wallet for each owner and currency, whatever races were run for
\* it (src/README.md:156).  It needs the marker column to follow the status as
\* well as the constraint on the marker.
OneActiveWallet ==
    \A i, j \in DOMAIN wallets :
        /\ wallets[i].status = "ACTIVE" /\ wallets[j].status = "ACTIVE"
        /\ wallets[i].owner = wallets[j].owner
        /\ wallets[i].currency = wallets[j].currency
        => i = j
=============================================================================
