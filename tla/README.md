# The digital wallet in TLA+

A verification project for the digital wallet and money transfer system in
`src/`, a Django application on MySQL. TLA+ modules model how its money
operations, the pages and lists in front of them, the creation and freezing of
wallets, and the theme preference run against the database and the browser; TLC checks them on small instances, and
TLAPS proves every safety property the passing runs check, the three refinements
among them, for every instance.

## 1. The system

### Components

| Component | State it keeps | Operations | Talks to |
|---|---|---|---|
| Money operations (`wallets/services.py`) | `Wallet.balance`, `Transaction`, `WalletTransaction` (the ledger) | `deposit`, `withdraw`, `transfer`, `adjust_balance` | idempotency, references, limits, audits |
| Idempotency and failure records (`_begin_idempotency`, `_persist_failure`, `TransactionRepository.idempotency`) | `IdempotencyRecord`, FAILED `Transaction` rows | claim a key, replay, refuse a reused key, record a refusal | money operations, references |
| References (`TransactionRepository.next_reference`) | `ReferenceSequence`, one row a day | allocate | money operations, failure records |
| Rules and configuration (`FinancialConfiguration`, `ConfigurationRepository`) | limits, supported currencies | read; edited in the Django admin | money operations, wallet creation |
| Freezing (`set_wallet_frozen`) | `Wallet.status`, `AdministrativeAudit` | freeze, unfreeze | wallets |
| Wallet creation (`create_wallet`) | `Wallet`, its nullable `active_currency` | create | freezing, through one UNIQUE constraint |
| Transaction states (`transition_transaction`) | `Transaction.status` | transition | no caller in the application |
| Amounts (`common/domain/money.py`) | none | quantize to 0.0001 | all money operations |
| REST API, web forms | the hidden fields of each rendering of a form: its key, and on a confirmation page the values | GET and POST handlers, the two-step transfer confirmation | services |
| History (`customer_transactions`, `TransactionListAPIView`, `failed_transactions`, `pagination.html`) | none; the filter and the page are in the address | list, filter, turn the page | transactions |
| Theme preference (`accounts/services.py`, `context_processors.py`, `static/js/theme.js`) | `User.theme`, the theme in each session, the theme each page shows | choose a theme, open a page | database, session, browser |
| Accounts | `User`, session | sign-in, registration | Django |
| Django admin, demo data, settings, templates | none of their own | - | - |

Components share nothing but MySQL. Every request is served by one worker
thread and one connection; what happens between two SQL statements of a request
is whatever the other workers do. There are no queues, timers or callbacks.

### What is hard about it

* **Concurrency.** Handlers read rows, decide in Python, and write back values
  computed from what they read. Correctness rests on row locks, on the order
  they are taken in, and on what holds for how long.
* **Two transactions per refused request.** A refusal rolls the money
  transaction back, idempotency key included, and records the failure in a
  second transaction that claims the key again.
* **Deadlock.** `INSERT IGNORE` on a key that another transaction is inserting
  waits for, and then holds, a *shared* lock; `SELECT ... FOR UPDATE` upgrades
  it. Audit transactions lock the counter before the wallets, money
  transactions after them.
* **Time.** Daily limits and references depend on the date, read at several
  moments of one request.
* **Failure.** Workers die and connections drop at any statement, before or
  after the commit; clients retry with the same key.
* **Browsers.** A form can be sent twice, edited and sent again, or sent from an
  old rendering; its hidden key is all that ties these posts together, and the
  confirmation of a transfer leaves no trace on the server.
* **Lists that move.** A page is two queries, a history several pages, and rows
  are added in between.
* **Two copies of one choice.** The theme is written to the account at once and
  to the session when the response leaves, and shown before either.
* **MySQL itself.** What `LAST_INSERT_ID()` returns depends on whether the
  upsert inserted the day's row.

The hazards, each at the line where it bites, with the properties that watch
it, are listed in `PROJECT.json`.

### What makes each component correct

* Money operations: no update is lost, money moves between wallets and is never
  made, balances stay in range, frozen wallets keep their money, daily limits
  hold; all of it as if requests were served one at a time.
* Idempotency: a key executes once, its answer never changes, a receipt is true
  of the request it is given to, identical requests agree, refusals are recorded.
* References: unique, and in step with the counter.
* Freezing: status and adjustments are all accounted for in the audit table.
* Creation and freezing together: a user has at most one active wallet in a
  currency, and whoever loses the race for it is told a reason that is true.
* Forms: a form is decided once, whatever it is sent with and however often; a
  repeat is given the answer on record; a transfer moves what was confirmed.
* Histories: the reader is shown every row, rows are those he filtered by, and
  together they tell what became of his money.
* Themes: a choice reported as saved is not undone by an older one, neither in
  the account nor in the session nor on the page, and pages show only themes that
  exist.
* All: every request ends, and deadlocks happen only where they are understood.

## 2. The modules

| Module | Models | Lines of the source it stands for |
|---|---|---|
| `WalletRules` | the rules without state: what a request asks for, the checks in their order, the rows written | `wallets/services.py`, `wallets/models.py`, `transactions/models.py`, `common/domain/*` |
| `WalletTables` | the committed tables, the writes of each kind of commit, administrators and time, and the properties of the tables | the writes in `wallets/services.py` |
| `AtomicWallet` | **abstract specification**: each request is served in one step on the current tables, or leaves no trace | what the services promise |
| `MoneyService` | **detailed specification**: one process per request, one step per statement that waits for or takes a row lock | `wallets/services.py`, `*/repositories.py`, InnoDB |
| `MCMoneyService` | instances for TLC: wallets, scenarios of requests, limits | |
| `MoneyServiceProofs`, `TablesProofs`, `AtomicityProofs` | its theorems: locks and handlers; what the tables promise; that it implements `AtomicWallet` | |
| `RulesProofs` | lemmas about the rules, the writes and the sums, for all proofs about money | |
| `FormPromise` | **abstract specification**: a form with a key moves money by one of the orders it was sent with, or is refused and never moves any | what a page promises |
| `WebForms` | **detailed specification** of that: renderings, posts in progress, validation, confirmation, answers; each service call is one or two steps on the tables | `wallets/web.py`, `wallets/forms.py`, `administration/web.py`, `administration/forms.py`, `wallets/api.py` |
| `History` | one reader of a list of transactions, query by query | `wallets/web.py`, `wallets/api.py`, `wallets/serializers.py`, `partials/pagination.html`, Django's `Paginator` |
| `Website` | `WebForms` and `History` on one database | |
| `MCWebsite` | instances for TLC | |
| `HistoryProofs`, `WebsiteProofs` | theorems about the reader and the histories; about the forms, and of the whole site | |
| `WalletDirectory` | **abstract specification**: each creation, freeze and unfreeze takes effect in one step, refused only for a reason that holds | `create_wallet`, `set_wallet_frozen`, `Wallet.save` |
| `WalletActivation` | **detailed specification**: the same calls statement by statement, against the unique index on (owner, active_currency) | the same, InnoDB |
| `MCWalletActivation`, `WalletActivationProofs` | instances, theorems | |
| `ThemePreference` | clicks, saves and page openings of one user in several tabs and browsers | `accounts/services.py`, `accounts/context_processors.py`, `static/js/theme.js` |
| `MCThemePreference`, `ThemePreferenceProofs` | instances, theorems | |

`MoneyService` extends `WalletTables` extends `WalletRules`; `AtomicWallet`
extends `WalletTables` too and is instantiated in `MoneyService` with the same
tables, so the refinement mapping is the identity on the tables and forgets
locks, handlers and copies. `WalletActivation` extends `WalletDirectory` and
implements it in the same way. `WebForms` and `History` extend `AtomicWallet`:
the pages are put in front of the specification that `MoneyService` implements,
not in front of its locks, so that what TLC enumerates is the order of posts,
answers and pages. `Website` composes the two; `WebForms` instantiates
`FormPromise` with `fate` read off the idempotency records and `balance` off the
wallets, while `asked`, which no code keeps, has the same name in both.
`ThemePreference` stands alone: it touches no
table the others touch.

Freezing appears twice, because it meets two sets of neighbours: money
operations, with which it shares a row lock and nothing else (`MoneyService`,
one step), and creations, with which it shares the unique index
(`WalletActivation`, a step a statement).

### State and code

| TLA+ | Code |
|---|---|
| `wallet[w]` | balance and status of a `Wallet` row |
| `transactions` | `Transaction` rows in commit order; `created` is the day of `created_at` |
| `ledger[w]` | `WalletTransaction` rows of a wallet |
| `idem[k]` | `IdempotencyRecord` of (actor, operation, key); `NoRecord` when there is none |
| `sequence[d]` | `ReferenceSequence.last_value`; 0 when the day has no row |
| `ids` | `AUTO_INCREMENT` of `ReferenceSequence` |
| `audits` | `AdministrativeAudit` rows |
| `config`, `inForce`, `today` | the limits, every value they ever had, `timezone.localdate()` |
| `exclusive[r]`, `shared[r]` | InnoDB row locks of the request's open transaction |
| `pc[r]`, `err[r]` | the statement reached; the `DomainError` being handled (which also tells the money transaction from the audit transaction) |
| `seen[r]`, `ref[r]` | the handler's `wallet` objects and its reference |
| `answer[r]` | what the client is told |

For `WebForms`, `offered[k]` is what the renderings of form k let the user
choose, `confirmable` the requests whose confirmation page has been shown
(hidden fields, in the browser only), and `posts` a bag of the POSTs in progress:
a bag, because a double click sends two equal ones. `asked` and `page` are
history: what users have sent, and the last answer given to a request that had
its answer already (a post's `repeated` says so). For `History`, `reader` is
where one reader stands, with the `query` that is in the address; `wanted` and
`shown` are history.

For `WalletActivation`, `wallets` are the rows in commit order with their marker
`active` (the column `active_currency`), `rowLocks` are the calls holding the
lock of `lock_many`, and `shared` and `exclusive` those holding locks on the
entry of their slot in the unique index. For `ThemePreference`, `account` is
`User.theme`, `session[b]` is `selected_theme` in the session of browser b,
`shown[p]` is `data-theme` of the document in tab p, `held[r]` is
`previousTheme` of a click while its document listens (and the theme an opened
page has settled for), and `older[r]`, which no code keeps, records the saves
that were over when r was clicked.

### Actions and code

`Begin`/`RefuseEarly` are the checks before the first SQL statement.
`InsertKey`, `MeetInsert`, `ShareKey`, `ReadRecord` are
`TransactionRepository.idempotency` under InnoDB; `Replay`, `RefuseReusedKey`
are the rest of `_begin_idempotency`, and `SkipAudit` its counterpart in
`_persist_failure`. `LockWallet` is one row of `lock_many`; `Reject`, `Accept`
and `Overflow` are the checks; `StampReference`, `TakeReference` are
`next_reference`, before and after it gets the counter's row; `Collide` is
`UNIQUE(reference)` refusing the row; `CommitMoney` is the writes and the
commit. `LockParent` and `CommitFailure` are the insert of a FAILED row, with
the shared locks its foreign keys take, and the commit of the audit
transaction. `Refuse` is what the `audited_financial_failure` decorator and
`transaction.atomic` do with a `DomainError`; `Abort` what they do with any
other exception. `DeadlockVictim` is InnoDB's deadlock detection, `Fault` a lost
connection or a lock wait timeout, `Crash` the death of a worker.
`FreezeOrUnfreeze`, `ChangeConfig` and `NextDay` are administrators and time.

In `WalletActivation`, `RefuseEarly` is the checks before the first statement,
`LockRow` and `NotFound` are `lock_many`, `Check` the status and the unlocked
query for another active wallet. `Scan`, `ShareSlot`, `Duplicate` and
`ClaimSlot` are what InnoDB does with the INSERT of `create_wallet` and with the
UPDATE of `active_currency`: look for a duplicate, wait for its lock, fail, or
put the entry in (for a freeze, mark it deleted). `Commit` is the write, the
audit row and the commit; `Lookup` is the query by which `create_wallet`, after
its failed insert has been rolled back, tells a conflict from another error.

In `WebForms`, `GetForm` renders a page with a fresh key, `SubmitForm`,
`ConfirmTransfer` and `CallApi` are the three ways to send a request.
`InvalidForm`, `ShowConfirmation` and `EnterService` are `form.is_valid()` and the
branches after it in `_money_view`, `transfer_web` and `adjust_wallet`.
`RefuseAtOnce`, `TellStored`, `TellConflict`, `PerformRequest` and
`RefuseByRules` are the ways through a service, and `RecordRefusal` and
`SkipRecord` those through `_persist_failure` after a refusal; between
`RefuseByRules` and these the key is free, and other posts go on. `ServerError` is
an exception that is no `DomainError`. Every answer but a receipt, a server
error and the confirmation page renders the form again with the key it was sent
with (`RenderAgain`); the adjustment form redirects and gets a fresh one.

In `History`, `OpenList` asks for the first page, `CountRows` and `FetchPage` are
the two queries of `Paginator`, and `NextPage` follows the link, which keeps the
query in the API and drops it on the pages.

In `ThemePreference`, `Click`, `Saved` and `Restore` are the listener of
`theme.js` around its `await`; `Store`, `Refuse` and `SaveSession` are
`update_theme` and the session middleware; `Open`, `Respond` and `Deliver` are
`theme_context`, the middleware and the document that replaces the old one.
`ServerError` and `Disconnect` are the two ways into the `catch` branch: the
server answers with an error, or its answer is lost while it goes on.

### Abstractions, and why they are sound

* **Writes happen at the commit.** Every row a transaction writes is locked
  exclusively before it is written and until the commit, and at READ COMMITTED
  (Django's default for MySQL) nobody sees it before. The date of `created_at`
  is read in that step.
* **Checks are one step.** After the last wallet lock a handler only makes plain
  reads (limits, the day's total) until it asks for the counter. The day's total
  cannot change under it, since only holders of the source wallet's lock commit
  to it. The single and the daily limit are two queries (`services.py:175,178`
  and `214,217`), which the model takes from one `config`. One edit between them
  is covered: it changes one row, so what the handler reads is the configuration
  before or after it. With two edits between them the code can compare with an
  old value of one limit and a new one of the other, which no `config` held
  together; each was in force by itself, which is all that `DailyLimitsHold`
  asks of the daily one. Such a mixture is not modelled.
* **Freezing is one step**: it waits for one row lock and for nothing after it.
* **Row locks only.** Gap and insert-intention locks are left out; the deadlock
  they can cause between two upserts of a day's first row, and lock wait
  timeouts, are instances of `Fault`.
* **Locks on the rows of users** are left out. Foreign keys take shared ones.
  Exclusive ones are taken by the UPDATE of the theme
  (`accounts/repositories.py:7`) and of `last_login` at sign-in, each a
  transaction of one statement that waits for nothing more, and by an edit of a
  user in the Django admin, which afterwards refers to the editor's own row in
  its log. They can delay a money transaction, a deadlock with one would be an
  instance of `Fault`, and a service reads the user only as the request found
  it (roles are constants of the model).
* **Foreign keys.** The shared locks taken for a money transaction's own rows
  are on wallets it has already locked; only the audit transaction takes new ones.
* **Amounts are integers**, already quantized. Descriptions, reasons and
  messages are left out; requests that differ only there are given different
  amounts. The check for a blank reason goes with them.
* **`ConflictError("... currently processing")`** cannot be raised: a record is
  only ever committed together with its response.
* **AUTO_INCREMENT.** The upsert reserves an id when it starts, keeps it out of
  circulation whatever happens, and uses it only if it inserts the day's row. A
  generated id takes precedence over `LAST_INSERT_ID(1)` in the value the next
  `SELECT LAST_INSERT_ID()` returns (`NextNumber`).

* **Services in front of pages.** `WebForms` takes a service call as the steps of
  `AtomicWallet`, which the runs of `MoneyService` show it to be. A fault or a
  deadlock is `ServerError`, and a failure record that is lost `SkipRecord`.
  Answers are not lost: a browser that never saw one may send the form again, and
  any rendering can be sent at any time. `confirmed=yes` is posted only from a
  confirmation page that was shown, with the values it shows. The server keeps no
  trace of that page (`wallets/web.py:72`), so a POST composed by hand could claim
  it without one; such requests are not modelled, and `ConfirmedTransfers` is about
  users of the pages.
* **Order of the lists.** `created_at` is taken under the lock of the day's
  counter, which is held to the commit, so that newest first is the reverse of
  the order of the rows in `transactions`.
* **Filters** are sets of the values they let through. The text searches (part of
  a reference, part of a failure code) are not told apart, and amounts and days are
  compared as wholes. A filter that cannot be read, such as an amount that is no
  number, ends in an error before anything is listed.
* **The unique index.** A duplicate scan takes a shared lock on an entry that is
  live, uncommitted, or marked deleted by a freeze; if there is no entry there is
  nothing to lock. An entry once there stays (purge is left out), which only adds
  waiting. Only those who hold a lock make others wait. In InnoDB an exclusive
  request that is queued also does, so that a call that shares the entry can find
  its own upgrade behind another's request; the deadlocks this adds end one of
  the calls as `Fault` does.
* **Calls are there from the start.** Before its first statement a call of
  `WalletActivation` shares nothing with the others, so starting late is the same
  as taking the first step late.
* **A page reads session and account in one step**, though they are two queries,
  the session first. If the session holds a theme, the account does not matter;
  if it holds none, what is left out is a save that runs from its first to its
  last statement between the two queries of a session's first page.
* **Sessions that end** are left out; a later login is a browser whose session
  holds no theme yet. A click in a tab whose session has ended meanwhile (a logout
  in another tab, an expiry) is outside the model and would break
  `AccountKeepsSaves`: `@login_required` (`accounts/web.py:27`) redirects the
  request to the login page, and `theme.js:49-54` looks only at the status of
  what it is given in the end, the login page's 200, and reports the theme as
  saved though nothing was stored.

## 3. The runs

| Run | Question | Answer |
|---|---|---|
| `transfers` | Opposing transfers and a second one that competes for the funds and the day's limit, around midnight, while the limit is edited between 2 and 4 and one statement or worker fails: types, isolation, the ledger and its legs, whether a decision stands until its commit, daily limits, references, which deadlocks exist, and `AtomicWallet` | all hold |
| `retries` | Two identical withdrawals, a third with the same key and another payload that cannot be paid, one freeze, one fault or crash: exactly once, durable receipts, answers that never change, and under fairness every request ends | all hold |
| `administration` | Two adjustments (one can exceed the largest balance), a transfer into the wallet they adjust, an adjustment by a customer, freezes, an unfreeze that a duplicate wallet forbids: the audit table, clearance, frozen money, and `AtomicWallet` | all hold |
| `website` | Three posts out of seven requests: a form that asks for too much and is corrected, a transfer form that is edited, an adjustment, an API call with and one without a key; one freeze; a reader of a list: types, confirmed transfers, repeats, rows missed, histories, and `FormPromise` | all hold |
| `activation` | Two creations, two freezes, an unfreeze and a refused call around one slot, one fault or crash: types, claims, one active wallet, `WalletDirectory`, and every call ends | all hold |
| `themes` | Two tabs of one browser save themes, one of them retired, a page is reloaded, another browser opens its first, one error or lost connection: what is shown exists, saves are kept in account and session, and a page that has confirmed a choice keeps it | all hold |
| `agreement` | Do identical concurrent requests get the same answer | **no**, see below |
| `unrecorded` | Is every answered business refusal on record | **no** |
| `collisions` | Does the counter hand out new references only | **no** |
| `duplicates` | Is an unfreeze that fails beside another active wallet told of a conflict | **no** |
| `quick_clicks` | Do session and account agree once all saves are confirmed | **no** |
| `lost_filter` | Is a filtered history filtered on every page | **no** |

`AtomicWallet` is checked in two runs because they move different things under
the handlers: the date, the limits and faults in one, administrators and the
range of balances in the other. Withdrawals meet a freeze in `retries`; deposits
appear in `agreement` and `website`. The two runs of `Website` may come to rest, so
deadlock is not checked there: nobody has to click.

What `website` says of repeats deserves its wording. The answer on record is given
again, except that a form checks the wallet's status first (`forms.py:16`):
once an administrator has frozen the wallet, the user who sends a completed form
again is told to select a valid choice, and cannot have his receipt again that
way. And `MissesAreCounted` is as strong as the code allows: a row added between
the COUNT and the SELECT of the last page pushes one row off its end, and the
reader has no link that leads to it.

### The disagreements

* `agreement`. `README.md:84` and `test_concurrency_expanded.py:49` say
  identical requests return the stored result. The rollback of a refused request
  deletes its key before the failure record claims it again
  (`services.py:103`). In between an identical request can take the key, find
  the funds a deposit has brought meanwhile, and succeed: one client is told
  `insufficient_funds`, the other gets a receipt.
* `unrecorded`. `README.md:162` says refusals are recorded. The audit
  transaction holds the counter while it waits for the wallets, a money
  transaction holds the wallets while it waits for the counter; if InnoDB rolls
  the audit transaction back, `services.py:90` swallows that, and the refusal
  has no record.
* `collisions`. `README.md:160` speaks of an atomic daily counter. The first
  reference of a day is not 1 but the id of the counter's new row, say k, while
  `last_value` is 1. The counter later reaches k; that request is refused by
  `UNIQUE(reference)`, rolls the counter back, and every later request of the
  day meets the same number. Collisions indeed cannot commit, and so nothing
  else can either until midnight.
* `duplicates`. `test_admin_and_states_expanded.py:60` expects a `ConflictError`
  of an unfreeze beside another active wallet. The query of `services.py:251`
  locks nothing; when a creation commits between it and the UPDATE, the unique
  constraint raises an `IntegrityError`, and the administrator gets a server
  error. `create_wallet` translates that error (line 125), `set_wallet_frozen`
  does not. No second active wallet appears.
* `quick_clicks`. `README.md:168` says database and session preserve the choice.
  Two clicks in quick succession may reach the account in one order and the
  session in the other; both are reported as saved, the next page shows one theme
  and the next login the other. Nobody else is needed.
* `lost_filter`. `README.md:166` speaks of complete history filters and
  pagination. The links of `pagination.html` are `?page=N` and nothing else: the
  second page of a filtered list is the second page of the unfiltered one. The
  links of the API keep the query.

One observation on forms has no run, because the code promises nothing else: a
refusal on record decides its form for good (`KeepsPromise`). The page comes back
with the error and the key it was sent with, and whatever the user corrects, the
next post has another payload under a used key and is answered with a conflict
until the page is opened anew.

`PageKeepsSaves` has a hypothesis, `Calm`, because of `theme.js:56`. A click that
fails takes the page back to the theme it found. If another click of the tab was
made, and perhaps saved, in between, the page ends with a theme that neither
click chose while it has reported the other as saved. Without the hypothesis TLC
finds this with two clicks in one tab. No document promises otherwise, so it is no
disagreement; what the property says is that this is the only way: as long as
no click that fails overlaps another one of its tab, a confirmed choice stays
until a later click that has not failed replaces it. Several clicks may be under
way together if all of them are saved, and a click that fails after a saved one
brings the saved one back. A click whose document is replaced while it waits
counts as one that fails.

Another observation on themes follows from the model and has no run. The first
page of a session, still being rendered, overwrites in the session a theme saved
meanwhile from another tab (`context_processors.py:9`). So does a page that has found a retired theme
in the session, since it settles for another one and writes that back. This case
came out of the proof: `SessionKeepsSaves` once spoke of every session that held
some theme from the start, no invariant could be found for that, and TLC, given
a session with a retired theme, shows the page overwriting a confirmed save. The
property is therefore about sessions that hold a theme of the registry when
observation starts.

### Bounds

| Bound | Value | Why it is enough |
|---|---|---|
| requests of `MoneyService` | 3 or 4 | two suffice for every pairwise race; the third makes a lock upgrade deadlock, a deadlock across a transfer and an audit, and a competitor for the funds |
| wallets | 2 or 3 | a transfer and its opposite; a duplicate in one currency |
| `MaxBalance` | 9 | an adjustment in `administration` can pass it, nothing else comes near |
| `MaxPosts` | 3 | a post, its repeat or edit beside it, and a third that changes what the rules decide between them; 7 requests to choose from |
| `PageSize`, `Readings` | 1; two lists, a third in `lost_filter` | with at most 3 rows, pages of one row make lists of up to three pages, and every row added shifts them; one list is filtered and keeps its filter, one needs none, and one loses it |
| calls of `WalletActivation` | 6 | a freeze that vacates the slot, three calls that want it, a freeze of the newcomer, a refusal; three insertions can share the entry and deadlock |
| requests of `ThemePreference` | 5 | two saves in two tabs of one browser, a refused one, a reload of a tab that is waiting, a first page elsewhere |
| `LastDay` | 0 or 1 | one midnight: no request looks back more than a day |
| `Configs` | one or two | an edit that tightens or loosens a limit |
| `MaxFaults` | 0 or 1 | a fault of one request already meets every state of the others; with deadlocks, several requests can fail |
| `MaxAudits` | 0 to 3 | freezes start while fewer audit rows exist: a freeze and an unfreeze beside adjustments |
| `Allocated` | 0 or 1 | ids of the counter's table used before; 1 makes the collision short |

Actions are symmetric in users and keys, but the scenarios name them, so no
symmetry set is declared.

### Fairness

`FairSpec` adds weak fairness of each request's own steps (`Handle`): the
operating system runs every worker thread, and a lock that stays free is
granted. It adds weak fairness of breaking deadlocks: InnoDB detects them as
they close. Nothing is assumed of faults, crashes, administrators, limits or
the date. Strong fairness is not needed, because requests are finite and each
ends after finitely many steps; a service with endless traffic could starve a
waiter only as far as InnoDB's lock queue lets it, which is not modelled.

`retries` and `FairSpec` go together: safety does not depend on fairness, and
the run checks both. `Website` states no fairness; users come and go.

`FairActivationSpec` assumes the same of the calls of `WalletActivation`.
`ThemePreference` states no fairness: nothing in it waits for anything, so that a
click that is carried on ends is no property of the code.

## 4. The proofs

The theorems hold for all values of the constants that satisfy the named
assumptions. These are shapes (of wallets, requests, limits, forms, pages), and
that bounds are natural numbers. One is finiteness: `HistoryAssumption` wants
finitely many wallets, since a sum over infinitely many balances means nothing.
Requests, users, tabs and forms may be infinitely many.

Every safety property and every action property of a passing run has its
theorem, and so has each refinement:

| Run | Theorems |
|---|---|
| `transfers` | `TypesHold`, `IsolationHolds`, `LedgerHolds`, `DeadlocksHold` (`MoneyServiceProofs`), `DecisionsHold`, `LimitsHold`, `ReferencesHold`, `LegsHold` (`TablesProofs`), `ServiceIsAtomic` (`AtomicityProofs`) |
| `retries` | `OnceHolds`, `ReceiptsHold` (`TablesProofs`), `StoredAnswersHold` (`MoneyServiceProofs`) |
| `administration` | `ClearanceHolds`, `FrozenMoneyHolds` (`MoneyServiceProofs`), `AuditsHold` (`TablesProofs`), `ServiceIsAtomic` |
| `website` | `TypesHold`, `ConfirmationHolds`, `RepeatsHold`, `PromiseIsKept`, `MissesHold`, `SiteTellsBalances` (`WebsiteProofs`), `HistoriesHold` (`HistoryProofs`) |
| `activation` | `TypesHold`, `ClaimsAreKept`, `OneWalletHolds`, `ImplementsDirectory` (`WalletActivationProofs`) |
| `themes` | `TypesHold`, `AccountHolds`, `SessionsHold`, `PagesHold` (`ThemePreferenceProofs`) |

Only model-checked: the liveness properties (`EveryRequestEnds`,
`EveryCallEnds`), since the prover does not handle fairness; and what the six
runs that expect a violation show.

### Money operations: locks

`MoneyServiceProofs` rests on the inductive invariant

    IInv == TypeOK /\ HandlersAreIsolated /\ HandlersAreCleared

None of its parts is inductive alone. Balances stay in range only because the
handler checked the values it writes from (`Cleared`), and the check is worth
something at the commit only because the row has not changed since (`Isolated`),
which holds because no two transactions hold conflicting locks and nobody writes
a row without its lock. `Isolated` in turn needs the types of lock sets and the
early checks of `Cleared`.

The argument for isolation has one lemma for each way a step can look from
outside: `Bystander` (a step that touches none of a request's locked rows leaves
it isolated), `StepOfOne` (a step of another request that leaves the tables
alone), `EndOfOne` (one that ends a transaction without writing), and
`CommitIsolated`, the only step that writes rows others may depend on. The lemma
of each action then only shows that it has one of these shapes. What is proved of
the tables uses two consequences: `CommitFromCurrentRows` (a commit starts from
balances that are still the current ones) and `OnlyCommitsWrite`.

`DeadlocksHold` needs one more invariant, `LocksAreOrderly`: a transaction holds
no key but its own, locks its wallets from the least on, holds a counter only in
its last statement, and takes shared locks on wallets only after a refusal. Take
a deadlock of money transactions with different keys. All of them are waiting for
a wallet (`WaitingForWallets`), and whoever blocks one of them waits for a greater
wallet than that one does. Then those that wait for a greater wallet than some
member does are a deadlock without that member, and a cycle of the waits-for
graph has no smaller one in it. The argument counts nothing, so it needs neither
finitely many requests nor finitely many wallets.

### Money operations: tables

`TablesProofs` adds to `IInv`, one property at a time, what the tables keep:

* `DecisionsHold`: between its checks and its commit, the rows, the day's total and
  some limit that is or was in force would let a request pass once more. Locked
  rows do not change; the total of a wallet grows only by commits that hold its
  lock, and falls at midnight. `LimitsHold` follows: at the commit the sum of the
  day grows by one row that the decision has room for.
* `OnceHolds` and `ReceiptsHold`: a record is written with its transaction and under
  the lock of its key, and never again (`AnswersAreOnRecord`, `RecordsTellWork`).
* `ReferencesHold`: the number taken is the counter's next while its lock is held.
* `LegsHold`: ledger rows name transactions that exist (`LegsBelong`), so those with
  the next transaction's number are the ones its own commit adds, and no commit
  adds a leg to an older transaction.
* `AuditsHold`: the same for audit rows (`AuditsBelong`), with the status a wallet's
  freezes and unfreezes leave it in.

`AtomicityProofs` proves `ServiceIsAtomic`: `Spec => Atomic!Spec`. The mapping is the
identity on the tables, so every step but the two commits and the administrator's
is a stutter. `CommitMoney` is `Perform`, because the decision still stands of the
committed tables; `CommitFailure` is `Record`, because only refusals by the checks
come that far and their key is unanswered (`RefusalsStand`); and the reference
either takes is one `AtomicWallet` allows, though it was stamped before the
counter was waited for and perhaps on the day before (`NumbersStand`).

### Sums

The totals are `MapThenSumSet` of the community modules, which come without
theorems, and its recursion is hidden behind a `CHOOSE`. `RulesProofs` proves what is
needed of it (a sum exists, does not depend on the order, and changes by what one
element changes by) without induction over data: each lemma takes a least
counterexample, which exists because the subsets of a finite set are well
founded, and refutes it.

### Creation and freezing

`WalletActivationProofs` proves, from `DirectoryAssumption` (the shapes of calls
and of the opening wallets, whose slots are taken once) and `FaultsAssumption`:

* `TypesHold` (`TypeOK`), which includes that the marker column is that of the
  status;
* `ClaimsAreKept` (`ClaimsHold`): between the check and the commit of a call
  nobody else changes its wallet's status or takes its slot;
* `OneWalletHolds` (`OneActiveWallet`);
* `ImplementsDirectory` (`ActivatesAtomically`): `ActivationSpec` implements
  `WalletDirectory`.

The invariant is `IInv == TypeOK /\ ClaimsHold /\ OneActiveWallet`. That no
second wallet becomes active rests on `ClaimsHold` alone (the slot a call has
claimed is free and locked until it commits), not on the query; `ClaimsHold`
needs `TypeOK` for the marker. For the refinement every action is shown to be
one of the abstract ones or a stutter: `Commit` is `Serve`, because the check
still holds at the commit, and each refusal is `Refuse` with a reason that holds
at that moment. That every call ends is checked by TLC only.

### Forms

`WebsiteProofs` proves about `Website`, and so about forms and a reader at once,
from the invariant

    FormsInv == TablesOK /\ FormsOK /\ FormsFit

`FormsFit` says how far a post has come: what stands behind a confirmation was
shown on one, what is in a service has passed the form, a form's choices are
wallets that are active or have been frozen since, and a record answers a request
with its key and its payload. Bags are the difficulty: two equal posts are two
copies of one element, so every step is first shown to replace a post by a post
of its next stage.

* `SiteIsAtomic`: `WebSpec => Spec` of `AtomicWallet`: whatever is posted, the site
  does to the tables only what `AtomicWallet` allows, so what is proved of that
  specification holds behind the site.
* `PromiseIsKept`: the site implements `FormPromise`; each action is one of its
  steps or a stutter.
* `ConfirmationHolds`: a transfer that has moved money was shown on a confirmation
  page as it was performed.
* `RepeatsHold`: who repeats an answered request is told what is on record, apart
  from the three exceptions the property names.

### Readers and histories

`HistoryProofs` proves about a reader beside `AtomicWallet`. `MissesAreCounted` needs
`ReaderFits`: as long as the filter is kept, every row wanted is still in the list;
before a page is fetched, those that stand before it have been shown; and after,
those on it, as far as they stand within its count. Rows are only added in
front, so a row's `Position` only grows, and by as many as were added. This is why
the model takes the page from positions rather than from a sorted sequence: a
sequence has to be sorted by recursion, which nothing could be proved about. The
last page shown, what is wanted and was not shown stands behind the count, and
the rows behind the count are as many as came in since it was taken.
`SiteIsRead` carries this over to the site (`MissesHold`).

`HistoriesHold` says that for every user and currency the balances are the opening
balances plus what the completed rows of his history tell him. By `RowTellsMove` a
performed request moves at most one of his wallets in the currency (a transfer
to oneself is refused), by exactly what its row tells him, so both sums change
alike.

### Themes

`ThemePreferenceProofs` proves from `ThemeAssumption`

* `TypesHold` (`TypeOK`: a page shows only themes of the registry and those clicked
  on) and `AccountHolds` (`AccountKeepsSaves`). The invariant is `TypeOK /\ Ordered
  /\ Separate`: `Ordered` says that the saves that were over when r was clicked are
  over still, and that once r has written the account, the account holds the choice
  of a save that was not among them; `Separate` says that no opening stands where a
  save does.
* `SessionsHold` (`SessionKeepsSaves`), from `SessionInv`: a session that held a theme of
  the registry from the start holds one always, so no page is ever about to write to
  it, and what it holds once r has written is the choice of a save that was not
  over when r was clicked.
* `PagesHold` (`PageKeepsSaves`), from `PageInv`. From the click of r on, and not only
  once it is confirmed, the page shows a standing choice that is not older than r;
  and every click s made when r was over would bring back such a choice too, one
  that was itself made before s. When s fails in a calm tab, all other standing
  clicks were over when s was made, so the choice that comes back is older than
  none of them, and stands.

## 5. What is not modelled, and the plan

Not modelled, each for a reason:

* `transition_transaction` (`services.py:234-240`): it lets a PENDING row go to one
  of three states, and nothing writes a PENDING row or calls it. On the rows the
  services write, COMPLETED and FAILED, it always refuses. A model would be about
  rows the program does not have.
* The rounding in `money()` (`common/domain/money.py`): the serializers and the
  forms reject more than four decimals before it, so quantizing changes no value
  that gets there; what it rejects is in `EarlyError`.
* The two date filters of the API turn a day into instants in the local zone,
  half open; the pages use the database's conversion of the same. The model has
  days.
* Searches by text, lists of users, wallets and audits, serializers, templates and
  styles: input and output, without state of their own.
* Sign-in, registration and sessions, which are Django's (the duplicate check of
  an email is its `validate_unique`); roles are constants of the model.
* The Django admin, whose only effect here is `ChangeConfig`; the demo data
  command, one transaction of inserts on a development database; and the
  settings.
* That the account keeps a theme whose save failed while the session was written
  (`accounts/services.py:9`) happens in the model, and no property says it should
  not, because nothing in the code or its documents does.

What is left: everything the passing runs check is now proved or, being liveness,
out of the prover's reach. The next theorems worth having are about the runs that
fail: the weakest conditions under which `IdenticalRequestsAgree` and
`SessionFollowsAccount` do hold (no refused request of that key in between; one
save at a time), stated as properties and proved, so that the project says not
only where the code departs from its documents but also how far.
