------------------------------ MODULE WalletTables ------------------------------
(****************************************************************************)
(* The committed database of the wallet service, the history of its         *)
(* settings, and what must always be true of them.  AtomicWallet serves     *)
(* requests on these tables one at a time; MoneyService serves them with    *)
(* concurrent transactions.                                                 *)
(****************************************************************************)
EXTENDS WalletRules

CONSTANTS
    Allocated,   \* ReferenceSequence ids given out when observation starts
    MaxAudits    \* bound: freezes start only while fewer audit rows exist

ASSUME TablesAssumption == Allocated \in Nat /\ MaxAudits \in Nat

VARIABLES
    wallet,        \* wallet[w]: balance and status
    transactions,  \* Transaction rows, in commit order
    ledger,        \* ledger[w]: WalletTransaction rows of wallet w
    idem,          \* idem[k]: IdempotencyRecord of key k, or NoRecord
    sequence,      \* sequence[d]: ReferenceSequence.last_value, 0 without a row
    audits,        \* AdministrativeAudit rows
    ids,           \* AUTO_INCREMENT of ReferenceSequence: ids given out so far
    config,        \* the FinancialConfiguration in force
    inForce,       \* history: every configuration that was ever in force
    today          \* the business day, timezone.localdate()

tables   == <<wallet, transactions, ledger, idem, sequence, audits>>
\* What no database transaction writes; InnoDB never rolls ids back.
context  == <<ids, config, inForce, today>>

NoAnswer == ErrorAnswer(NoCode)
NoRecord == [fingerprint |-> <<0, 0, 0, NoCurrency>>, transaction |-> 0,
             answer |-> NoAnswer]

UsedKeys  == {KeyOf(Req[r]) : r \in Requests}
Stored(k) == idem[k] # NoRecord

AuditRowSwapped(w, action, i, before, after) ==
    [wallet |-> w, action |-> action, transaction |-> i, before |-> after, after |-> before]
AuditRow(w, action, i, before, after) ==
    [wallet |-> w, action |-> action, transaction |-> i, before |-> before, after |-> after]

TablesInit ==
    /\ wallet = Opening
    /\ transactions = <<>>
    /\ ledger = [w \in Wallets |-> <<>>]
    /\ idem = [k \in UsedKeys |-> NoRecord]
    /\ sequence = [d \in Days |-> 0]
    /\ audits = <<>>
    /\ ids = Allocated
    /\ config \in Configs
    /\ inForce = {config}
    /\ today = 0

-----------------------------------------------------------------------------
(* What a database transaction writes when it commits.                      *)

\* The writes of an accepted request: balances, transaction, ledger legs, the
\* answer under its key, the counter, and the audit row of an adjustment.  view
\* is the wallet rows as the handler read them; reference is its reference.
PostMoney(q, view, reference) ==
    LET i        == Len(transactions) + 1
        after(w) == view[w].balance + Delta(q, w)
    IN
    /\ wallet' = [w \in Wallets |-> IF w \in Touched(q)
                                    THEN [wallet[w] EXCEPT !.balance = after(w)]
                                    ELSE wallet[w]]
    /\ transactions' = Append(transactions, TransactionRow(q, reference, "COMPLETED", today))
    /\ ledger' = [w \in Wallets |-> IF w \in Touched(q)
                                    THEN Append(ledger[w], LedgerRow(q, w, i, view[w].balance))
                                    ELSE ledger[w]]
    /\ idem' = [idem EXCEPT ![KeyOf(q)] =
                  [fingerprint |-> Fingerprint(q), transaction |-> i,
                   answer |-> Receipt(reference, after(q.wallet))]]
    /\ sequence' = [sequence EXCEPT ![reference.day] = @ + 1]
    /\ audits' = IF q.op = "BALANCE_ADJUSTMENT"
                 THEN Append(audits, AuditRow(q.wallet, q.op, i, view[q.wallet].balance,
                                              after(q.wallet)))
                 ELSE audits

\* The failure record of a refused request.
PostFailure(q, code, reference) ==
    /\ transactions' = Append(transactions, TransactionRow(q, reference, "FAILED", today))
    /\ idem' = [idem EXCEPT ![KeyOf(q)] =
                  [fingerprint |-> Fingerprint(q), transaction |-> Len(transactions) + 1,
                   answer |-> ErrorAnswer(code)]]
    /\ sequence' = [sequence EXCEPT ![reference.day] = @ + 1]
    /\ UNCHANGED <<wallet, ledger, audits>>

-----------------------------------------------------------------------------
(* Administrators and time.                                                 *)

\* set_wallet_frozen, when it succeeds; refused, it writes nothing.
SetFrozen(w, freeze) ==
    LET target == IF freeze THEN "FROZEN" ELSE "ACTIVE" IN
    /\ Len(audits) < MaxAudits
    /\ wallet[w].status = IF freeze THEN "ACTIVE" ELSE "FROZEN"
    /\ freeze \/ ~\E v \in Wallets \ {w} : /\ Owner[v] = Owner[w]
                                           /\ Currency[v] = Currency[w]
                                           /\ wallet[v].status = "ACTIVE"
    /\ wallet' = [wallet EXCEPT ![w].status = target]
    /\ audits' = Append(audits, AuditRow(w, IF freeze THEN "FREEZE" ELSE "UNFREEZE", 0, 0, 0))
    /\ UNCHANGED <<transactions, ledger, idem, sequence, context>>

\* The limits are rows an administrator edits.
ChangeConfig ==
    /\ config' \in Configs \ {config}
    /\ inForce' = inForce \cup {config'}
    /\ UNCHANGED <<tables, ids, today>>

NextDay ==
    /\ today < LastDay
    /\ today' = today + 1
    /\ UNCHANGED <<tables, ids, config, inForce>>

-----------------------------------------------------------------------------
(* Types.                                                                   *)

TransactionRows == [reference : Refs, type : Ops, status : {"COMPLETED", "FAILED"},
                    amount : Nat \ {0}, source : Wallets \cup {NoWallet},
                    destination : Wallets \cup {NoWallet}, actor : Users, created : Days]

LedgerRows == [transaction : Nat, direction : {"DEBIT", "CREDIT"}, amount : Nat \ {0},
               before : 0..MaxBalance, after : 0..MaxBalance]

Answers == [code : Codes, reference : Refs, balance : 0..MaxBalance]

IdemRecords == [fingerprint : Nat \X Nat \X Int \X (Currencies \cup {NoCurrency}), transaction : Nat,
                answer : Answers]

AuditRows == [wallet : Wallets, action : {"FREEZE", "UNFREEZE", "BALANCE_ADJUSTMENT"},
              transaction : Nat, before : 0..MaxBalance, after : 0..MaxBalance]

\* The tables have their types.  For the balances this is the promise of the
\* CHECK constraint wallet_balance_nonnegative (src/wallets/models.py:25) and of
\* max_digits: the code never relies on the database to refuse a balance.
TablesOK ==
    /\ wallet \in [Wallets -> WalletRow]
    /\ transactions \in Seq(TransactionRows)
    /\ ledger \in [Wallets -> Seq(LedgerRows)]
    /\ idem \in [UsedKeys -> IdemRecords]
    /\ sequence \in [Days -> Nat]
    /\ audits \in Seq(AuditRows)
    /\ ids \in Nat
    /\ config \in Configs
    /\ inForce \subseteq Configs
    /\ today \in Days

-----------------------------------------------------------------------------
(* The ledger.                                                              *)

\* Each ledger entry of a wallet starts from the balance the previous one left,
\* and the wallet's balance is what the last one left: no interleaving of
\* deposits, withdrawals, transfers and adjustments loses an update, although
\* the handler writes back a balance it read some statements earlier.
LedgerChain ==
    \A w \in Wallets :
        LET entries == ledger[w]
            left(i) == IF i = 0 THEN Opening[w].balance ELSE entries[i].after
        IN  /\ \A i \in DOMAIN entries : entries[i].before = left(i - 1)
            /\ wallet[w].balance = left(Len(entries))

LegsOf(i) == {l \in Wallets \X (1..Len(transactions)) :
                 l[2] \in DOMAIN ledger[l[1]] /\ ledger[l[1]][l[2]].transaction = i}

\* A completed transaction has one debit leg on its source and one credit leg
\* on its destination, both for its amount, and no other; a failed one has
\* none.  So money is moved between wallets, never made, and a refused request
\* moved nothing.
LegsMatchTransactions ==
    \A i \in DOMAIN transactions :
        LET t == transactions[i]
            legs == {[wallet |-> l[1], direction |-> ledger[l[1]][l[2]].direction,
                      amount |-> ledger[l[1]][l[2]].amount] : l \in LegsOf(i)}
            leg(w, d) == IF w = NoWallet THEN {}
                         ELSE {[wallet |-> w, direction |-> d, amount |-> t.amount]}
            due == IF t.status = "FAILED" THEN {}
                   ELSE leg(t.source, "DEBIT") \cup leg(t.destination, "CREDIT")
        IN  legs = due /\ Cardinality(LegsOf(i)) = Cardinality(due)

\* Customers cannot move the money of a wallet that is not active, even when
\* it is frozen between their check and their commit; only an administrator's
\* adjustment can (README.md:157).
FrozenMoneyStays ==
    [][\A w \in Wallets :
          wallet'[w].balance # wallet[w].balance =>
              \/ wallet[w].status = "ACTIVE"
              \/ transactions'[Len(transactions')].type = "BALANCE_ADJUSTMENT"]_tables

SpentOn(w, op, d) ==
    MapThenSumSet(LAMBDA i : transactions[i].amount,
                  {i \in DOMAIN transactions : /\ transactions[i].source = w
                                               /\ transactions[i].type = op
                                               /\ transactions[i].status = "COMPLETED"
                                               /\ transactions[i].created = d})

\* What leaves a wallet in a day by withdrawals, or by transfers, stays within
\* a daily limit that was in force, whichever requests run at the same time,
\* around midnight, or while the limit is being edited.
DailyLimitsHold ==
    \A w \in Wallets, op \in Spending, d \in Days :
        SpentOn(w, op, d) > 0 => \E c \in inForce : SpentOn(w, op, d) <= c.daily[op]

\* The references a day has issued, in commit order.
OfDay(d) == {i \in DOMAIN transactions : transactions[i].reference.day = d}
Rank(i)  == Cardinality({j \in OfDay(transactions[i].reference.day) : j <= i})

\* No two transactions carry the same reference, and from the second of a day
\* on it tells how many of that day have committed, failed ones included: a
\* rollback gives its number back, although README.md:160 allows gaps.  The
\* counter agrees with the transactions at every moment.
ReferencesCountCommits ==
    /\ \A d \in Days : Cardinality(OfDay(d)) = sequence[d]
    /\ \A i \in DOMAIN transactions : Rank(i) > 1 => transactions[i].reference.n = Rank(i)
    /\ \A i, j \in DOMAIN transactions :
          transactions[i].reference = transactions[j].reference => i = j

-----------------------------------------------------------------------------
(* Idempotency.                                                             *)

\* Every transaction row belongs to exactly one idempotency record, of its own
\* actor and operation, and every record points at a transaction: identical
\* requests, concurrent or retried after a crash, execute once between them.
ExactlyOnce ==
    /\ \A k \in UsedKeys :
          Stored(k) => /\ idem[k].transaction \in DOMAIN transactions
                       /\ LET t == transactions[idem[k].transaction]
                          IN  /\ t.actor = k[1] /\ t.type = k[2]
                              /\ (t.status = "COMPLETED") <=> (idem[k].answer.code = Accepted)
    /\ \A j, k \in UsedKeys :
          Stored(j) /\ Stored(k) /\ idem[j].transaction = idem[k].transaction => j = k
    /\ \A i \in DOMAIN transactions :
          \E k \in UsedKeys : Stored(k) /\ idem[k].transaction = i

\* Once a key has an answer it keeps it: neither a retry nor the failure
\* record of a concurrent identical request overwrites it.
StoredAnswersNeverChange ==
    [][\A k \in UsedKeys : Stored(k) => idem'[k] = idem[k]]_tables

-----------------------------------------------------------------------------
(* Administration.                                                          *)

\* The audit table tells the status of every wallet and every adjustment: the
\* last freeze or unfreeze row of a wallet names its status, and each
\* adjustment transaction has one row, with the balances of its ledger leg.
AuditsTellAll ==
    /\ \A w \in Wallets :
          LET moves == {i \in DOMAIN audits : /\ audits[i].wallet = w
                                              /\ audits[i].action \in {"FREEZE", "UNFREEZE"}}
          IN  wallet[w].status =
                 IF moves = {} THEN Opening[w].status
                 ELSE IF audits[Max(moves)].action = "FREEZE" THEN "FROZEN" ELSE "ACTIVE"
    /\ \A i \in DOMAIN transactions :
          transactions[i].type = "BALANCE_ADJUSTMENT" =>
             \E a \in DOMAIN audits :
                /\ audits[a].transaction = i
                /\ \A b \in DOMAIN audits : audits[b].transaction = i => b = a
                /\ \E j \in DOMAIN ledger[audits[a].wallet] :
                      LET leg == ledger[audits[a].wallet][j]
                      IN  /\ leg.transaction = i
                          /\ leg.before = audits[a].before
                          /\ leg.after = audits[a].after
=============================================================================
