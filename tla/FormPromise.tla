------------------------------ MODULE FormPromise ------------------------------
(****************************************************************************)
(* What a page with a money form promises its user: however often the form  *)
(* is sent, edited, sent again or sent twice at once, it is decided once.   *)
(* It moves money by exactly one of the orders it was sent with, or it is   *)
(* refused and never moves any.  WebForms implements this specification.    *)
(****************************************************************************)
EXTENDS Integers

CONSTANTS
    Forms,       \* rendered forms, each with its own hidden key
    Orders,      \* what forms can be sent with
    FormOf,      \* FormOf[o]: the form of order o
    Accounts,    \* what money is kept in
    Effect,      \* Effect[o][a]: what order o adds to account a
    Start        \* Start[a]: the balance of account a at the beginning

VARIABLES
    asked,       \* the orders users have sent
    fate,        \* fate[f]: "open", "moved" or "refused"
    balance      \* balance[a]

promised == <<asked, fate, balance>>

Init ==
    /\ asked = {}
    /\ fate = [f \in Forms |-> "open"]
    /\ balance = Start

Ask(o) == asked' = asked \cup {o} /\ UNCHANGED <<fate, balance>>

Decide(f, outcome) ==
    /\ fate[f] = "open"
    /\ fate' = [fate EXCEPT ![f] = outcome]
    /\ UNCHANGED asked

\* A form carries out one of the orders it was sent with, if the money is there.
Move(o) ==
    /\ Decide(FormOf[o], "moved")
    /\ balance' = [a \in Accounts |-> balance[a] + Effect[o][a]]
    /\ \A a \in Accounts : balance'[a] >= 0

Refuse(o) == Decide(FormOf[o], "refused") /\ UNCHANGED balance

Next ==
    \/ \E o \in Orders : Ask(o)
    \/ \E o \in asked : Move(o) \/ Refuse(o)

Spec == Init /\ [][Next]_promised
=============================================================================
