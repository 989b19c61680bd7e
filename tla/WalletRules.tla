------------------------------ MODULE WalletRules ------------------------------
(****************************************************************************)
(* The business rules of src/wallets/services.py, without state: what a     *)
(* money request asks for, which checks refuse it and in which order, and   *)
(* the rows it writes when it is accepted.  The modules that give these     *)
(* rules a database (AtomicWallet, MoneyService) extend this one.           *)
(*                                                                          *)
(* Amounts are integers: the code quantizes every amount to 0.0001 before   *)
(* it is used, so one unit here is one ten-thousandth of a currency unit.   *)
(* Descriptions, reasons and display messages are left out; two requests    *)
(* that differ only there are given different amounts instead.              *)
(****************************************************************************)
EXTENDS Integers, Sequences, FiniteSetsExt

CONSTANTS
    Users,       \* accounts.User rows
    Admins,      \* the users with is_staff or role ADMIN
    Wallets,     \* primary keys of the wallets_wallet table
    Owner,       \* Owner[w]: the user a wallet belongs to
    Currencies,  \* currency codes
    NoCurrency,  \* a request of an operation that takes no currency
    Currency,    \* Currency[w]: fixed when the wallet is created
    Opening,     \* Opening[w]: balance and status when observation starts
    Keys,        \* idempotency keys a client sends
    NoKey,       \* a request without an Idempotency-Key header
    Requests,    \* HTTP requests, each handled by one worker thread
    Req,         \* Req[r]: what request r asks for
    Configs,     \* values the FinancialConfiguration rows take
    MaxBalance,  \* largest value of a DecimalField(19, 4)
    LastDay      \* bound: the business days are 0..LastDay

\* The types of src/transactions/models.py:12-16.
Ops == {"DEPOSIT", "WITHDRAWAL", "TRANSFER", "BALANCE_ADJUSTMENT"}

\* Operations that carry a daily limit and need funds in the source wallet.
Spending == {"WITHDRAWAL", "TRANSFER"}

\* Operations wrapped by @audited_financial_failure.
Audited == {"DEPOSIT", "WITHDRAWAL", "TRANSFER"}

Statuses == {"ACTIVE", "FROZEN", "CLOSED"}

Days == 0..LastDay

WalletRow == [balance : 0..MaxBalance, status : Statuses]

\* What a handler receives.  wallet is the wallet_id or sender_id argument and
\* peer the recipient_id; a request of the other operations has peer = wallet.
\* currency is the currency argument of a deposit or a withdrawal.
Request == [op : Ops, actor : Users, wallet : Nat \ {0}, peer : Nat \ {0},
            amount : Int, currency : Currencies \cup {NoCurrency},
            key : Keys \cup {NoKey}]

Config == [single : [Audited -> Nat], daily : [Spending -> Nat]]

ASSUME RulesAssumption ==
    /\ Admins \subseteq Users
    /\ Wallets \subseteq Nat \ {0}
    /\ Owner \in [Wallets -> Users]
    /\ Currency \in [Wallets -> Currencies]
    /\ MaxBalance \in Nat
    /\ Opening \in [Wallets -> WalletRow]
    /\ NoKey \notin Keys
    /\ Req \in [Requests -> Request]
    /\ \A r \in Requests :
          /\ Req[r].op # "TRANSFER" => Req[r].peer = Req[r].wallet
          /\ Req[r].op \in {"TRANSFER", "BALANCE_ADJUSTMENT"} => Req[r].currency = NoCurrency
    /\ Configs \subseteq Config
    /\ LastDay \in Nat

-----------------------------------------------------------------------------
(* Requests.                                                                *)

Abs(n) == IF n < 0 THEN -n ELSE n

\* The columns of unique_actor_operation_key.
KeyOf(q) == <<q.actor, q.op, q.key>>

\* The hashed payload: everything the request asks for except actor and key.
FingerprintWithoutAmount(q) == <<q.wallet, q.peer, 0, q.currency>>
Fingerprint(q) == <<q.wallet, q.peer, q.amount, q.currency>>

\* The wallet rows the operation selects FOR UPDATE; an id without a row
\* selects nothing.
Touched(q) == {q.wallet, q.peer} \cap Wallets

\* What an accepted request adds to the balance of wallet w.
Delta(q, w) ==
    IF q.op = "WITHDRAWAL" \/ (q.op = "TRANSFER" /\ w = q.wallet)
    THEN -q.amount ELSE q.amount

-----------------------------------------------------------------------------
(* Refusals.                                                                *)

Accepted == "ok"

\* Refusals raised before the first SQL statement.  No trace of them is kept:
\* without a key or a positive amount _persist_failure returns at once.
EarlyError(q) ==
    IF q.op = "BALANCE_ADJUSTMENT" /\ q.actor \notin Admins THEN "permission_denied"
    ELSE IF q.amount = 0 \/ (q.op \in Audited /\ q.amount < 0) THEN "invalid_amount"
    ELSE IF q.key = NoKey THEN "idempotency_key_required"
    ELSE Accepted

\* Refusals by the checks on the locked rows, and the two ConflictErrors, told
\* apart here by their message: an inactive wallet and a reused key.
BusinessCodes == {"same_wallet", "not_found", "permission_denied", "self_transfer",
                  "inactive", "currency_mismatch", "limit_exceeded",
                  "daily_limit_exceeded", "insufficient_funds"}

\* _require_active, for each wallet of the operation.
SenderInactive(q, view) == view[q.wallet].status # "ACTIVE"
Inactive(q, view) == \E w \in Touched(q) : view[w].status # "ACTIVE"

UnfundedWithdrawal(q, view) == q.op = "WITHDRAWAL" /\ view[q.wallet].balance < q.amount
Unfunded(q, view) == q.op \in Spending /\ view[q.wallet].balance < q.amount

\* The checks of deposit, withdraw and transfer, which come in the same order
\* in the three.  view is the wallet rows as the handler read them, spent the
\* day's completed total of the source wallet, c the configuration.
CustomerError(q, view, spent, c) ==
    IF q.op = "TRANSFER" /\ q.wallet = q.peer THEN "same_wallet"
    ELSE IF ~({q.wallet, q.peer} \subseteq Wallets) THEN "not_found"
    ELSE IF Owner[q.wallet] # q.actor THEN "permission_denied"
    ELSE IF q.op = "TRANSFER" /\ Owner[q.peer] = q.actor THEN "self_transfer"
    ELSE IF Inactive(q, view) THEN "inactive"
    ELSE IF IF q.op = "TRANSFER" THEN Currency[q.peer] # Currency[q.wallet]
                                 ELSE q.currency # Currency[q.wallet]
         THEN "currency_mismatch"
    ELSE IF q.amount > c.single[q.op] THEN "limit_exceeded"
    ELSE IF q.op \in Spending /\ spent + q.amount > c.daily[q.op] THEN "daily_limit_exceeded"
    ELSE IF Unfunded(q, view) THEN "insufficient_funds"
    ELSE Accepted

\* Everything a client can be told; NoCode while it has been told nothing.
NoCode == ""
Codes == BusinessCodes \cup {"invalid_amount", "idempotency_key_required", "conflict",
                             "server_error", Accepted, NoCode}

\* The checks of adjust_balance: any status, any currency, no limit.
AdjustmentError(q, view) ==
    IF q.wallet \notin Wallets THEN "not_found"
    ELSE IF view[q.wallet].balance + q.amount < 0 THEN "insufficient_funds"
    ELSE Accepted

BusinessError(q, view, spent, c) ==
    IF q.op = "BALANCE_ADJUSTMENT" THEN AdjustmentError(q, view)
                                   ELSE CustomerError(q, view, spent, c)

\* A balance past max_digits raises decimal.InvalidOperation when it is saved,
\* which is no DomainError.
Overflows(q, view) == \E w \in Touched(q) : view[w].balance + Delta(q, w) > MaxBalance

-----------------------------------------------------------------------------
(* Rows.                                                                    *)

NoWallet == 0
NoRef == [day |-> 0, n |-> 0]

\* TXN-<day>-<n>.
Refs == [day : Days, n : Nat]

SourceOf(q) ==
    IF q.wallet \in Wallets /\ Delta(q, q.wallet) < 0 THEN q.wallet ELSE NoWallet

DestinationOf(q) ==
    IF q.peer \in Wallets /\ (q.op = "TRANSFER" \/ Delta(q, q.peer) > 0) THEN q.peer
    ELSE NoWallet

\* A transactions_transaction row; created is the day of created_at.
TransactionRow(q, ref, status, day) ==
    [reference |-> ref, type |-> q.op, status |-> status, amount |-> Abs(q.amount),
     source |-> SourceOf(q), destination |-> DestinationOf(q), actor |-> q.actor,
     created |-> day]

\* The ledger leg of wallet w for transaction number i.
LedgerRowByOperation(q, w, i, before) ==
    [transaction |-> i, direction |-> IF q.op = "WITHDRAWAL" THEN "DEBIT" ELSE "CREDIT",
     amount |-> Abs(q.amount), before |-> before, after |-> before + Delta(q, w)]
LedgerRow(q, w, i, before) ==
    [transaction |-> i, direction |-> IF Delta(q, w) < 0 THEN "DEBIT" ELSE "CREDIT",
     amount |-> Abs(q.amount), before |-> before, after |-> before + Delta(q, w)]

\* What the caller is told: a receipt, or an error code without a reference.
Receipt(ref, balance) == [code |-> Accepted, reference |-> ref, balance |-> balance]
ErrorAnswer(code) == [code |-> code, reference |-> NoRef, balance |-> 0]

\* WalletRepository.daily_completed_total over the transactions tx.
TotalByReferenceDay(tx, w, op, since) ==
    MapThenSumSet(LAMBDA i : tx[i].amount,
                  {i \in DOMAIN tx : /\ tx[i].source = w
                                     /\ tx[i].type = op
                                     /\ tx[i].status = "COMPLETED"
                                     /\ tx[i].reference.day >= since})
DailyCompletedTotal(tx, w, op, since) ==
    MapThenSumSet(LAMBDA i : tx[i].amount,
                  {i \in DOMAIN tx : /\ tx[i].source = w
                                     /\ tx[i].type = op
                                     /\ tx[i].status = "COMPLETED"
                                     /\ tx[i].created >= since})
=============================================================================
