------------------------------ MODULE AtomicWallet ------------------------------
(****************************************************************************)
(* What the money operations promise: each request is served in one step,   *)
(* by the rules applied to the tables as they are at that moment, or leaves *)
(* no trace.  No locks, no copies, no second transaction.  MoneyService     *)
(* implements this specification.                                           *)
(****************************************************************************)
EXTENDS WalletTables

\* A request that is put on record takes the next number of the current day, or
\* of an earlier one when midnight passed while it waited; the first of a day
\* takes some id of its counter's table.  UNIQUE(reference) holds.
NextReferences ==
    LET counted == {d \in 0..today : sequence[d] > 0}
        next    == {[day |-> d, n |-> sequence[d] + 1] : d \in counted}
        first   == [day : (0..today) \ counted, n : 1..ids]
    IN  (next \cup first) \ {transactions[i].reference : i \in DOMAIN transactions}

\* An accepted request: it passes every check on the current tables, under a
\* configuration that is or was in force.
Perform(q) ==
    /\ EarlyError(q) = Accepted
    /\ ~Stored(KeyOf(q))
    /\ \E c \in inForce :
          BusinessError(q, wallet, DailyCompletedTotal(transactions, q.wallet, q.op, today), c)
              = Accepted
    /\ ~Overflows(q, wallet)
    /\ \E reference \in NextReferences : PostMoney(q, wallet, reference)
    /\ UNCHANGED context

\* A refused request of an audited operation is put on record, whatever has
\* become of the reason for its refusal in the meantime.
Record(q) ==
    /\ EarlyError(q) = Accepted
    /\ q.op \in Audited
    /\ ~Stored(KeyOf(q))
    /\ \E code \in BusinessCodes, reference \in NextReferences : PostFailure(q, code, reference)
    /\ UNCHANGED context

\* The database gives out an id, which may come to nothing.
GiveOutId == ids' = ids + 1 /\ UNCHANGED <<tables, config, inForce, today>>

Init == TablesInit

\* Implied by the specification and said all the same: TLC tries the disjuncts
\* in order, and most steps of an implementation are of this kind.
Stutter == UNCHANGED <<tables, context>>

Next ==
    \/ Stutter
    \/ GiveOutId
    \/ ChangeConfig
    \/ NextDay
    \/ \E w \in Wallets, freeze \in BOOLEAN : SetFrozen(w, freeze)
    \/ \E r \in Requests : Perform(Req[r]) \/ Record(Req[r])

Spec == Init /\ [][Next]_<<tables, context>>
=============================================================================
