-------------------------- MODULE MCWalletActivation --------------------------
(* Instances of WalletActivation for TLC.                                   *)
EXTENDS WalletActivation

Wallet(u, c, s) == [owner |-> u, currency |-> c, status |-> s,
                    active |-> ActiveCurrency(c, s)]
CreateWallet(u, c) ==
    [op |-> "CREATE", actor |-> u, currency |-> c, wallet |-> 1, reason |-> FALSE]
StatusCall(op, u, w) ==
    [op |-> op, actor |-> u, currency |-> "USD", wallet |-> w, reason |-> TRUE]
Freeze(u, w)   == StatusCall("FREEZE", u, w)
Unfreeze(u, w) == StatusCall("UNFREEZE", u, w)

\* An active wallet of alice and a frozen one in the same currency.
MCOpening == <<Wallet("alice", "USD", "ACTIVE"), Wallet("alice", "USD", "FROZEN")>>

\* The active wallet is frozen while two creations and an unfreeze want its
\* slot.
SlotScenario == <<Freeze("admin", 1), CreateWallet("alice", "USD"),
                  CreateWallet("alice", "USD"), Unfreeze("admin", 2)>>

\* The same, with a freeze of the wallet a creation may have made, and a call
\* that is refused at once.
WideScenario == SlotScenario \o <<Freeze("admin", 3), Freeze("alice", 2)>>

\* Only a frozen wallet, to be unfrozen while another is created.
FrozenOpening == <<Wallet("alice", "USD", "FROZEN")>>
RaceScenario  == <<CreateWallet("alice", "USD"), Unfreeze("admin", 1)>>
=============================================================================
