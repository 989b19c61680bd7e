------------------------------- MODULE MCWebsite -------------------------------
(* An instance of Website for TLC.                                          *)
EXTENDS Website

MCUsers    == {"alice", "bob", "admin"}
MCAdmins   == {"admin"}
MCOwner    == <<"alice", "bob">>
MCCurrency == <<"USD", "USD">>
MCOpening  == <<[balance |-> 3, status |-> "ACTIVE"], [balance |-> 2, status |-> "ACTIVE"]>>

NoLimits == {[single |-> [op \in Audited |-> 9], daily |-> [op \in Spending |-> 9]]}

Withdrawal(n, k) == [op |-> "WITHDRAWAL", actor |-> "alice", wallet |-> 1, peer |-> 1,
                     amount |-> n, currency |-> "USD", key |-> k]
Deposit(n, k)    == [Withdrawal(n, k) EXCEPT !.op = "DEPOSIT"]
Transfer(n, k)   == [op |-> "TRANSFER", actor |-> "alice", wallet |-> 1, peer |-> 2,
                     amount |-> n, currency |-> "none", key |-> k]
Adjustment(n, k) == [op |-> "BALANCE_ADJUSTMENT", actor |-> "admin", wallet |-> 1, peer |-> 1,
                     amount |-> n, currency |-> "none", key |-> k]

\* Form f1 withdraws more than there is and is corrected; form f2 transfers and
\* is edited; the page of wallet 1 adjusts it; two API calls, one without a key.
Scenario == <<Withdrawal(4, "f1"), Withdrawal(2, "f1"), Transfer(2, "f2"), Transfer(3, "f2"),
              Adjustment(-2, "f3"), Deposit(1, "k1"), Deposit(1, "none")>>

MCFormKeys == {<<"alice", "WITHDRAWAL", "f1">>, <<"alice", "TRANSFER", "f2">>,
               <<"admin", "BALANCE_ADJUSTMENT", "f3">>}

WithStatus(st) == [Everything EXCEPT !.statuses = {st}]

\* Alice reads the API with a filter, the administrator all the failures.
\* (Without a filter her page and the API list the same rows in the same way.)
MCReadings == {[view |-> "api", user |-> "alice", filter |-> WithStatus("COMPLETED")],
               [view |-> "failed", user |-> "admin", filter |-> Everything]}

\* Alice's page with a filter.
FilteredPage == {[view |-> "web", user |-> "alice", filter |-> WithStatus("COMPLETED")]}
=============================================================================
