---------------------------- MODULE MCMoneyService ----------------------------
(****************************************************************************)
(* Small instances of MoneyService.  A configuration chooses the wallets,   *)
(* the requests, the limits and the bounds.  Wallet and request ids are     *)
(* numbers, so a table of wallets and a scenario of requests are tuples.    *)
(****************************************************************************)
EXTENDS MoneyService

MCUsers   == {"alice", "bob", "admin"}
MCAdmins  == {"admin"}
MCWallets == {1, 2}
MCOwner   == <<"alice", "bob">>
MCCurrency == <<"USD", "USD">>
MCOpening == <<[balance |-> 3, status |-> "ACTIVE"], [balance |-> 2, status |-> "ACTIVE"]>>
MCKeys    == {"k1", "k2", "k3"}

\* Alice's second, frozen wallet in the currency of her active one.
ThreeWallets  == {1, 2, 3}
ThreeOwners   == <<"alice", "bob", "alice">>
ThreeUSD      == <<"USD", "USD", "USD">>
ThreeOpenings == MCOpening \o <<[balance |-> 1, status |-> "FROZEN"]>>

Limits(single, daily) ==
    [single |-> [op \in Audited |-> single], daily |-> [op \in Spending |-> daily]]
WideLimits  == {Limits(9, 9)}

Withdrawal(u, w, n, k)  == [op |-> "WITHDRAWAL", actor |-> u, wallet |-> w, peer |-> w,
                            amount |-> n, currency |-> "USD", key |-> k]
Deposit(u, w, n, k)     == [Withdrawal(u, w, n, k) EXCEPT !.op = "DEPOSIT"]
Transfer(u, w, p, n, k) == [op |-> "TRANSFER", actor |-> u, wallet |-> w, peer |-> p,
                            amount |-> n, currency |-> "none", key |-> k]

Adjustment(u, w, n, k)  == [Transfer(u, w, w, n, k) EXCEPT !.op = "BALANCE_ADJUSTMENT"]

\* Opposing transfers, and a withdrawal that only fits before one of them.
TransferScenario == <<Transfer("alice", 1, 2, 2, "k1"),
                      Transfer("bob", 2, 1, 1, "k1"),
                      Withdrawal("alice", 1, 3, "k2")>>

\* Three requests with one key, two of them identical, the third with another
\* payload and refused unless it comes too late.
RetryScenario == <<Withdrawal("alice", 1, 2, "k1"),
                   Withdrawal("alice", 1, 2, "k1"),
                   Withdrawal("alice", 1, 4, "k1")>>

\* Three identical requests that are refused unless the deposit comes first.
RefusalScenario == <<Withdrawal("alice", 1, 4, "k1"),
                     Withdrawal("alice", 1, 4, "k1"),
                     Deposit("alice", 1, 1, "k2")>>

\* Two transfers that do not fit one day's limit together until it is raised,
\* and an opposing one.
SpendingScenario == <<Transfer("alice", 1, 2, 2, "k1"),
                      Transfer("alice", 1, 2, 2, "k2"),
                      Transfer("bob", 2, 1, 1, "k1")>>
MovingLimits == {Limits(2, 2), Limits(2, 4)}

\* Adjustments, one of them past the largest balance and one by a customer, and a
\* transfer into the wallet they adjust.
AdminScenario == <<Adjustment("admin", 1, -2, "k1"),
                   Adjustment("admin", 1, 7, "k2"),
                   Transfer("bob", 2, 1, 1, "k1"),
                   Adjustment("alice", 1, 1, "k1")>>
=============================================================================
