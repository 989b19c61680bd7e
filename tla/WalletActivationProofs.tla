------------------------ MODULE WalletActivationProofs ------------------------
(****************************************************************************)
(* Proofs about WalletActivation, for every set of users, wallets, calls    *)
(* and supported currencies and every number of faults.                     *)
(****************************************************************************)
EXTENDS WalletActivation, TLAPS

\* The inductive invariant.
IInv == TypeOK /\ ClaimsHold /\ OneActiveWallet

-----------------------------------------------------------------------------
(* Rows and slots.                                                          *)

\* What a call names has its type.
LEMMA CallTypes ==
    ASSUME NEW r \in Requests
    PROVE  /\ Req[r] \in Call
           /\ Req[r].op \in {"CREATE", "FREEZE", "UNFREEZE"}
           /\ Req[r].actor \in Users /\ Req[r].currency \in Currencies
           /\ Req[r].wallet \in Nat \ {0}
  BY DirectoryAssumption DEF Call

\* The rows have their type.
LEMMA RowTypes ==
    ASSUME TypeOK, NEW i \in DOMAIN wallets
    PROVE  wallets[i].owner \in Users /\ wallets[i].currency \in Currencies
<1>1. wallets[i] \in Row
  BY DEF TypeOK
<1> QED
  BY <1>1 DEF Row

\* A row is in the slot of its owner and currency exactly while it is active.
LEMMA ActiveRows ==
    ASSUME TypeOK, NEW i \in DOMAIN wallets, NEW c \in Currencies
    PROVE  wallets[i].active = c <=> wallets[i].status = "ACTIVE" /\ wallets[i].currency = c
  BY DirectoryAssumption DEF TypeOK, ActiveCurrency, Row

\* The first row of a slot: what a commit of a creation appends.
LEMMA AppendedRow ==
    ASSUME TypeOK, NEW r \in Requests, wallets' = Append(wallets, NewRow(Req[r]))
    PROVE  /\ wallets' \in Seq(Row)
           /\ DOMAIN wallets' = DOMAIN wallets \cup {Len(wallets) + 1}
           /\ Len(wallets) + 1 \notin DOMAIN wallets
           /\ \A i \in DOMAIN wallets : wallets'[i] = wallets[i]
           /\ wallets'[Len(wallets) + 1] = NewRow(Req[r])
           /\ NewRow(Req[r]) = [owner |-> Req[r].actor, currency |-> Req[r].currency,
                                status |-> "ACTIVE", active |-> Req[r].currency]
<1>1. NewRow(Req[r]) = [owner |-> Req[r].actor, currency |-> Req[r].currency,
                        status |-> "ACTIVE", active |-> Req[r].currency]
  BY DEF NewRow, ActiveCurrency
<1>2. NewRow(Req[r]) \in Row
  BY <1>1, CallTypes DEF Row, Statuses
<1>3. wallets \in Seq(Row)
  BY DEF TypeOK
<1> QED
  BY <1>1, <1>2, <1>3

\* What a commit of a freeze or an unfreeze writes.
LEMMA ChangedRow ==
    ASSUME TypeOK, NEW r \in Requests, NEW w \in DOMAIN wallets,
           Req[r].op # "CREATE",
           wallets' = [wallets EXCEPT ![w] = WithStatus(@, Target(Req[r]))]
    PROVE  /\ wallets' \in Seq(Row)
           /\ DOMAIN wallets' = DOMAIN wallets
           /\ \A i \in DOMAIN wallets \ {w} : wallets'[i] = wallets[i]
           /\ wallets'[w] = [owner |-> wallets[w].owner, currency |-> wallets[w].currency,
                             status |-> Target(Req[r]),
                             active |-> ActiveCurrency(wallets[w].currency, Target(Req[r]))]
<1>1. wallets \in Seq(Row) /\ wallets[w] \in Row
  BY DEF TypeOK
<1>2. Target(Req[r]) \in {"ACTIVE", "FROZEN"}
  BY DEF Target
<1> DEFINE moved == [owner |-> wallets[w].owner, currency |-> wallets[w].currency,
                     status |-> Target(Req[r]), active |-> wallets[w].active]
<1>3. [wallets[w] EXCEPT !.status = Target(Req[r])] = moved
  BY <1>1 DEF Row
<1>4. Saved(moved) =
         [owner |-> wallets[w].owner, currency |-> wallets[w].currency,
          status |-> Target(Req[r]),
          active |-> ActiveCurrency(wallets[w].currency, Target(Req[r]))]
  BY DEF Saved
<1>5. WithStatus(wallets[w], Target(Req[r])) =
         [owner |-> wallets[w].owner, currency |-> wallets[w].currency,
          status |-> Target(Req[r]),
          active |-> ActiveCurrency(wallets[w].currency, Target(Req[r]))]
  BY <1>3, <1>4 DEF WithStatus
<1>6. WithStatus(wallets[w], Target(Req[r])) \in Row
  BY <1>1, <1>2, <1>5 DEF Row, Statuses, ActiveCurrency
<1> QED
  BY <1>1, <1>5, <1>6

-----------------------------------------------------------------------------
(* Steps that leave the wallets alone.                                      *)

\* A step of call r that writes no wallet keeps every claim if it keeps r's own
\* and takes no lock that another call holds.
LEMMA QuietStep ==
    ASSUME IInv, NEW r \in Requests,
           wallets' = wallets,
           \A s \in Requests \ {r} : /\ pc'[s] = pc[s] /\ answer'[s] = answer[s]
                                     /\ s \in rowLocks' <=> s \in rowLocks
                                     /\ s \in exclusive' <=> s \in exclusive,
           rowLocks' \subseteq Requests, exclusive' \subseteq Requests,
           Claimed(r)',
           r \in rowLocks' => r \in rowLocks \/ SameRow(rowLocks, r) = {},
           r \in exclusive' => r \in exclusive \/ SameSlot(exclusive \cup shared, r) = {}
    PROVE  ClaimsHold' /\ OneActiveWallet'
<1>1. \A s \in Requests : SlotOf(s)' = SlotOf(s) /\ SlotTaken(s)' = SlotTaken(s)
  BY DEF SlotOf, SlotTaken, Occupied
<1>2. \A s \in Requests \ {r} : Claimed(s)'
  <2> SUFFICES ASSUME NEW s \in Requests \ {r} PROVE Claimed(s)'
    OBVIOUS
  <2>1. Claimed(s)
    BY DEF IInv, ClaimsHold
  <2> QED
    BY <1>1, <2>1 DEF Claimed
<1>3. \A a, b \in rowLocks' : Req[a].wallet = Req[b].wallet => a = b
  <2>1. \A a, b \in rowLocks : Req[a].wallet = Req[b].wallet => a = b
    BY DEF IInv, ClaimsHold
  <2> QED
    BY <2>1 DEF SameRow
<1>4. \A a, b \in exclusive' : SlotOf(a)' = SlotOf(b)' => a = b
  <2>1. \A a, b \in exclusive : SlotOf(a) = SlotOf(b) => a = b
    BY DEF IInv, ClaimsHold
  <2> QED
    BY <1>1, <2>1 DEF SameSlot
<1>5. OneActiveWallet'
  BY DEF IInv, OneActiveWallet
<1> QED
  BY <1>2, <1>3, <1>4, <1>5 DEF ClaimsHold

\* The end of a transaction that wrote nothing, with or without an answer, is
\* such a step.
LEMMA QuietEnd ==
    ASSUME IInv, NEW r \in Requests, NEW place \in Places \ (InTransaction \cup {"refused"}),
           ReleaseAll(r), GoTo(r, place), wallets' = wallets, UNCHANGED audits,
           \/ UNCHANGED answer /\ pc[r] \in InTransaction \cup {"lookup"}
           \/ place = "done" /\ \E a \in Answers : Answer(r, a),
           place = "lookup" => Req[r].op = "CREATE",
           faults' \in 0..MaxFaults
    PROVE  IInv'
<1> USE DEF IInv, TypeOK, ReleaseAll, GoTo, Answer
<1>1. TypeOK'
  BY DEF Places
<1>2. Claimed(r)
  BY DEF ClaimsHold
<1>3. Claimed(r)'
  BY <1>2 DEF Claimed, Places, InTransaction
<1>4. ClaimsHold' /\ OneActiveWallet'
  BY <1>3, QuietStep
<1> QED
  BY <1>1, <1>4

\* An exception from the database ends a transaction.
LEMMA AbortKeeps ==
    ASSUME IInv, NEW r \in Requests, pc[r] \in InTransaction \cup {"lookup"},
           Abort(r), faults' \in 0..MaxFaults
    PROVE  IInv'
<1>1. CASE Req[r].op = "CREATE" /\ pc[r] # "lookup"
  BY <1>1, QuietEnd DEF Abort, Places, InTransaction, directory
<1>2. CASE ~(Req[r].op = "CREATE" /\ pc[r] # "lookup")
  BY <1>2, QuietEnd DEF Abort, End, Places, InTransaction, Answers
<1> QED
  BY <1>1, <1>2

-----------------------------------------------------------------------------
(* The steps of a call.                                                     *)

\* The initial states satisfy the invariant.
LEMMA InitKeeps == ActivationInit => IInv
<1> SUFFICES ASSUME ActivationInit PROVE IInv
  OBVIOUS
<1> USE DirectoryAssumption, FaultsAssumption DEF ActivationInit, Init
<1>1. TypeOK
  BY DEF TypeOK, Answers, Places, Start, InTransaction
<1>2. ClaimsHold
  BY DEF ClaimsHold, Claimed, Start, InTransaction
<1>3. OneActiveWallet
  <2> SUFFICES ASSUME NEW i \in DOMAIN wallets, NEW j \in DOMAIN wallets,
                      wallets[i].status = "ACTIVE", wallets[j].status = "ACTIVE",
                      wallets[i].owner = wallets[j].owner,
                      wallets[i].currency = wallets[j].currency
               PROVE  i = j
    BY DEF OneActiveWallet
  <2>1. wallets[i].active = wallets[i].currency /\ wallets[j].active = wallets[j].currency
    BY DEF ActiveCurrency
  <2>2. wallets[i] \in Row
    OBVIOUS
  <2>3. wallets[i].currency \in Currencies
    BY <2>2 DEF Row
  <2> QED
    BY <2>1, <2>2, <2>3
<1> QED
  BY <1>1, <1>2, <1>3 DEF IInv

\* A call refused at once has no lock to release.
LEMMA RefuseEarlyKeeps == ASSUME IInv, NEW r \in Requests, RefuseEarly(r) PROVE IInv'
<1>1. EarlyRefusal(Req[r]) \in Answers
  BY DEF EarlyRefusal, Answers, Refusals, Done
<1>2. UNCHANGED <<wallets, audits, faults>> /\ ReleaseAll(r) /\ GoTo(r, "done")
      /\ Answer(r, EarlyRefusal(Req[r]))
  BY DEF RefuseEarly, End
<1> QED
  BY <1>1, <1>2, QuietEnd DEF Places, InTransaction, IInv, TypeOK

\* The lock of a row is granted to one call at a time.
LEMMA LockRowKeeps == ASSUME IInv, NEW r \in Requests, LockRow(r) PROVE IInv'
<1> USE DEF LockRow, GoTo, directory
<1>1. TypeOK'
  BY DEF IInv, TypeOK, Places, InTransaction
<1>2. Claimed(r)'
  BY DEF IInv, TypeOK, ClaimsHold, Claimed, InTransaction
<1> QED
  BY <1>1, <1>2, QuietStep DEF IInv, TypeOK

\* A call that finds no wallet ends.
LEMMA NotFoundKeeps == ASSUME IInv, NEW r \in Requests, NotFound(r) PROVE IInv'
<1>1. UNCHANGED <<wallets, audits, faults>> /\ ReleaseAll(r) /\ GoTo(r, "done")
      /\ Answer(r, "not_found")
  BY DEF NotFound, End
<1> QED
  BY <1>1, QuietEnd DEF Places, InTransaction, Answers, Refusals, IInv, TypeOK

\* The status is that of the locked row.
LEMMA CheckKeeps == ASSUME IInv, NEW r \in Requests, Check(r) PROVE IInv'
<1>1. CASE StatusConflict(Req[r])
  <2>1. UNCHANGED <<wallets, audits, faults>> /\ ReleaseAll(r) /\ GoTo(r, "done")
        /\ Answer(r, "conflict")
    BY <1>1 DEF Check, End
  <2> QED
    BY <2>1, QuietEnd DEF Places, InTransaction, Answers, Refusals, IInv, TypeOK
<1>2. CASE ~StatusConflict(Req[r])
  <2> USE <1>2 DEF Check, GoTo, directory, locks
  <2>1. TypeOK'
    BY DEF IInv, TypeOK, Places, InTransaction
  <2>2. Claimed(r)'
    BY DEF IInv, TypeOK, ClaimsHold, Claimed, InTransaction, StatusConflict
  <2> QED
    BY <2>1, <2>2, QuietStep DEF IInv, TypeOK
<1> QED
  BY <1>1, <1>2

\* The steps at the index.
LEMMA ScanKeeps == ASSUME IInv, NEW r \in Requests, Scan(r) PROVE IInv'
<1> USE DEF Scan, GoTo, directory, locks
<1>1. TypeOK'
  BY DEF IInv, TypeOK, Places, InTransaction
<1>2. Claimed(r)'
  BY DEF IInv, TypeOK, ClaimsHold, Claimed, InTransaction, Expected
<1> QED
  BY <1>1, <1>2, QuietStep DEF IInv, TypeOK

\* The lock of an entry that is not live.
LEMMA ShareSlotKeeps == ASSUME IInv, NEW r \in Requests, ShareSlot(r) PROVE IInv'
<1> USE DEF ShareSlot, GoTo, directory
<1>1. TypeOK'
  BY DEF IInv, TypeOK, Places, InTransaction
<1>2. Claimed(r)'
  BY DEF IInv, TypeOK, ClaimsHold, Claimed, InTransaction
<1> QED
  BY <1>1, <1>2, QuietStep DEF IInv, TypeOK

\* A live entry ends the insertion.
LEMMA DuplicateKeeps == ASSUME IInv, NEW r \in Requests, Duplicate(r) PROVE IInv'
  BY AbortKeeps DEF Duplicate, InTransaction, IInv, TypeOK

\* A slot is claimed by one call at a time, and only while it is free.
LEMMA ClaimSlotKeeps == ASSUME IInv, NEW r \in Requests, ClaimSlot(r) PROVE IInv'
<1> USE DEF ClaimSlot, GoTo, directory
<1>1. TypeOK'
  BY DEF IInv, TypeOK, Places, InTransaction
<1>2. SlotTaken(r)' = SlotTaken(r)
  BY DEF SlotTaken, SlotOf, Occupied
<1>3. Claimed(r)'
  BY <1>2 DEF IInv, TypeOK, ClaimsHold, Claimed, InTransaction
<1> QED
  BY <1>1, <1>3, QuietStep DEF IInv, TypeOK

\* create_wallet looks for the reason of a failed insertion, and ends.
LEMMA LookupKeeps == ASSUME IInv, NEW r \in Requests, Lookup(r) PROVE IInv'
<1> DEFINE told == IF SlotTaken(r) THEN "conflict" ELSE "server_error"
<1>1. UNCHANGED <<wallets, audits, faults>> /\ ReleaseAll(r) /\ GoTo(r, "done")
      /\ Answer(r, told)
  BY DEF Lookup, End
<1>2. told \in Answers
  BY DEF Answers, Refusals
<1> HIDE DEF told
<1> QED
  BY <1>1, <1>2, QuietEnd DEF Places, InTransaction, IInv, TypeOK

\* What can go wrong under a call.
LEMMA DeadlockVictimKeeps ==
    ASSUME IInv, NEW r \in Requests, DeadlockVictim(r) PROVE IInv'
<1>1. Blockers(r) # {}
  BY DEF DeadlockVictim, Cycle, Stuck
<1>2. pc[r] \in InTransaction
  BY <1>1 DEF Blockers, InTransaction
<1> QED
  BY <1>2, AbortKeeps DEF DeadlockVictim, IInv, TypeOK

\* A fault ends the transaction it hits.
LEMMA FaultKeeps == ASSUME IInv, NEW r \in Requests, Fault(r) PROVE IInv'
<1>1. faults' \in 0..MaxFaults
  BY FaultsAssumption DEF Fault, IInv, TypeOK
<1> QED
  BY <1>1, AbortKeeps DEF Fault

\* A crash releases what the call had locked.
LEMMA CrashKeeps == ASSUME IInv, NEW r \in Requests, Crash(r) PROVE IInv'
<1>1. faults' \in 0..MaxFaults
  BY FaultsAssumption DEF Crash, IInv, TypeOK
<1>2. UNCHANGED <<wallets, audits, answer>> /\ ReleaseAll(r) /\ GoTo(r, "dead")
  BY DEF Crash, directory
<1> QED
  BY <1>1, <1>2, QuietEnd DEF Crash, Places, InTransaction

-----------------------------------------------------------------------------
(* The commit.                                                              *)

\* What a commit writes: one row, in the slot of the call, which is active
\* afterwards unless the call is a freeze.
WrittenRow(r, k) ==
    /\ k \in DOMAIN wallets'
    /\ DOMAIN wallets' = DOMAIN wallets \cup {k}
    /\ \A i \in DOMAIN wallets \ {k} : wallets'[i] = wallets[i]
    /\ <<wallets'[k].owner, wallets'[k].currency>> = SlotOf(r)
    /\ wallets'[k].status = IF Fills(r) THEN "ACTIVE" ELSE "FROZEN"
    /\ wallets'[k].active = ActiveCurrency(wallets'[k].currency, wallets'[k].status)
    /\ IF Req[r].op = "CREATE" THEN k \notin DOMAIN wallets
       ELSE /\ k = Req[r].wallet /\ k \in DOMAIN wallets
            /\ <<wallets[k].owner, wallets[k].currency>> = SlotOf(r)

\* Every commit writes such a row.
LEMMA CommitWrites ==
    ASSUME IInv, NEW r \in Requests, Commit(r)
    PROVE  /\ \E k : WrittenRow(r, k)
           /\ wallets' \in Seq(Row)
           /\ TypeOK'
<1>1. Claimed(r) /\ TypeOK /\ pc[r] = "write" /\ Write(Req[r])
  BY DEF IInv, ClaimsHold, Commit
<1>2. /\ rowLocks' \subseteq Requests /\ shared' \subseteq Requests
      /\ exclusive' \subseteq Requests /\ faults' \in 0..MaxFaults
      /\ answer' \in [Requests -> Answers] /\ pc' \in [Requests -> Places]
  BY <1>1 DEF Commit, TypeOK, ReleaseAll, Answer, GoTo, Places, Answers
<1>3. CASE Req[r].op = "CREATE"
  <2> DEFINE k == Len(wallets) + 1
             q == Req[r]
  <2>1. wallets' = Append(wallets, NewRow(q)) /\ audits' = audits
    BY <1>1, <1>3 DEF Write
  <2>2. /\ wallets' \in Seq(Row)
        /\ DOMAIN wallets' = DOMAIN wallets \cup {k} /\ k \notin DOMAIN wallets
        /\ \A i \in DOMAIN wallets : wallets'[i] = wallets[i]
        /\ wallets'[k].owner = q.actor /\ wallets'[k].currency = q.currency
        /\ wallets'[k].status = "ACTIVE" /\ wallets'[k].active = q.currency
    <3>1. /\ wallets' \in Seq(Row)
          /\ DOMAIN wallets' = DOMAIN wallets \cup {k} /\ k \notin DOMAIN wallets
          /\ \A i \in DOMAIN wallets : wallets'[i] = wallets[i]
          /\ wallets'[k] = [owner |-> q.actor, currency |-> q.currency,
                            status |-> "ACTIVE", active |-> q.currency]
      BY <1>1, <2>1, AppendedRow
    <3> QED
      BY <3>1
  <2> HIDE DEF k
  <2>3. SlotOf(r) = <<q.actor, q.currency>> /\ Fills(r)
    BY <1>3 DEF SlotOf, Fills
  <2>4. WrittenRow(r, k)
    BY <1>3, <2>2, <2>3 DEF WrittenRow, ActiveCurrency
  <2>5. \A i \in DOMAIN wallets' :
           wallets'[i].active = ActiveCurrency(wallets'[i].currency, wallets'[i].status)
    BY <1>1, <2>2 DEF TypeOK, ActiveCurrency
  <2>6. TypeOK'
    BY <1>1, <1>2, <2>1, <2>2, <2>5 DEF TypeOK
  <2> QED
    BY <2>2, <2>4, <2>6
<1>4. CASE Req[r].op # "CREATE"
  <2> DEFINE w == Req[r].wallet
             q == Req[r]
  <2>1. /\ wallets' = [wallets EXCEPT ![w] = WithStatus(@, Target(q))]
        /\ audits' = Append(audits, [wallet |-> w, action |-> q.op,
                                     administrator |-> q.actor])
    BY <1>1, <1>4 DEF Write
  <2>2. w \in DOMAIN wallets
    BY <1>1, <1>4 DEF Claimed
  <2>3. /\ wallets' \in Seq(Row)
        /\ DOMAIN wallets' = DOMAIN wallets
        /\ \A i \in DOMAIN wallets \ {w} : wallets'[i] = wallets[i]
        /\ wallets'[w].owner = wallets[w].owner /\ wallets'[w].currency = wallets[w].currency
        /\ wallets'[w].status = Target(q)
        /\ wallets'[w].active = ActiveCurrency(wallets[w].currency, Target(q))
    <3>1. /\ wallets' \in Seq(Row)
          /\ DOMAIN wallets' = DOMAIN wallets
          /\ \A i \in DOMAIN wallets \ {w} : wallets'[i] = wallets[i]
          /\ wallets'[w] = [owner |-> wallets[w].owner, currency |-> wallets[w].currency,
                            status |-> Target(q),
                            active |-> ActiveCurrency(wallets[w].currency, Target(q))]
      BY <1>1, <1>4, <2>1, <2>2, ChangedRow
    <3> QED
      BY <3>1
  <2>4. Target(q) = IF Fills(r) THEN "ACTIVE" ELSE "FROZEN"
    BY <1>4, CallTypes DEF Target, Fills
  <2>5. SlotOf(r) = <<wallets[w].owner, wallets[w].currency>>
    BY <1>4 DEF SlotOf
  <2>6. WrittenRow(r, w)
    BY <1>4, <2>2, <2>3, <2>4, <2>5 DEF WrittenRow
  <2>7. \A i \in DOMAIN wallets' :
           wallets'[i].active = ActiveCurrency(wallets'[i].currency, wallets'[i].status)
    BY <1>1, <2>2, <2>3 DEF TypeOK
  <2>8. q.actor \in Admins
    BY <1>1, <1>4 DEF Claimed, EarlyRefusal, Done, InTransaction
  <2>9. audits' \in Seq([wallet : Nat \ {0}, action : {"FREEZE", "UNFREEZE"},
                         administrator : Admins])
    BY <1>1, <1>4, <2>1, <2>8, CallTypes DEF TypeOK
  <2>10. TypeOK'
    BY <1>1, <1>2, <2>3, <2>7, <2>9 DEF TypeOK
  <2> QED
    BY <2>3, <2>6, <2>10
<1> QED
  BY <1>3, <1>4

\* The call that commits is the only one with its slot and its row, so the
\* claims of the others survive.
LEMMA CommitKeeps == ASSUME IInv, NEW r \in Requests, Commit(r) PROVE IInv'
<1>1. TypeOK' /\ TypeOK /\ OneActiveWallet
  BY CommitWrites DEF IInv
<1>2. PICK k : WrittenRow(r, k)
  BY CommitWrites
<1>3. /\ r \in exclusive /\ (Fills(r) => ~SlotTaken(r))
      /\ Req[r].op # "CREATE" => r \in rowLocks
  BY DEF IInv, ClaimsHold, Claimed, Commit
<1>4. /\ \A s \in Requests : Claimed(s)
      /\ \A a, b \in rowLocks : Req[a].wallet = Req[b].wallet => a = b
      /\ \A a, b \in exclusive : SlotOf(a) = SlotOf(b) => a = b
  BY DEF IInv, ClaimsHold
<1>5. /\ rowLocks' = rowLocks \ {r} /\ exclusive' = exclusive \ {r}
      /\ pc'[r] = "done" /\ \A s \in Requests \ {r} : pc'[s] = pc[s] /\ answer'[s] = answer[s]
  BY <1>1 DEF Commit, ReleaseAll, GoTo, Answer, TypeOK
<1>6. \A i \in DOMAIN wallets : /\ i \in DOMAIN wallets'
                                /\ wallets'[i].owner = wallets[i].owner
                                /\ wallets'[i].currency = wallets[i].currency
  BY <1>2 DEF WrittenRow
<1>7. \A s \in Requests \ {r} :
         Req[s].op = "CREATE" \/ Req[s].wallet \in DOMAIN wallets => SlotOf(s)' = SlotOf(s)
  BY <1>6 DEF SlotOf
<1>8. \A s \in Requests \ {r} : Claimed(s)'
  <2> SUFFICES ASSUME NEW s \in Requests \ {r} PROVE Claimed(s)'
    OBVIOUS
  <2>1. Claimed(s)
    BY <1>4
  <2>2. /\ pc[s] \in {"refused", "lookup", "dead"} \cup InTransaction => answer[s] = NoAnswer
        /\ pc[s] \in InTransaction \cup {"lookup"} => EarlyRefusal(Req[s]) = Done
        /\ pc[s] = "refused" => EarlyRefusal(Req[s]) # Done
        /\ pc[s] \in {"lock", "check"} => Req[s].op # "CREATE"
        /\ pc[s] = "lookup" => Req[s].op = "CREATE"
        /\ pc[s] = "write" <=> s \in exclusive
    BY <2>1 DEF Claimed
  <2>3. ASSUME pc[s] \in {"check", "scan", "claim", "write"}, Req[s].op # "CREATE"
        PROVE  s \in rowLocks' /\ Req[s].wallet \in DOMAIN wallets
    BY <1>5, <2>1, <2>3 DEF Claimed
  <2>4. ASSUME pc[s] \in {"scan", "claim", "write"}, Req[s].op # "CREATE"
        PROVE  wallets'[Req[s].wallet].status = Expected(Req[s])
    <3>1. wallets[Req[s].wallet].status = Expected(Req[s])
      BY <2>1, <2>4 DEF Claimed
    <3>2. Req[s].wallet # k
      BY <1>2, <1>3, <1>4, <1>5, <2>3, <2>4 DEF WrittenRow
    <3> QED
      BY <1>2, <2>3, <2>4, <3>1, <3>2 DEF WrittenRow
  <2>5. ASSUME pc[s] = "write", Fills(s)
        PROVE  ~SlotTaken(s)'
    <3>1. ~SlotTaken(s) /\ s \in exclusive
      BY <2>1, <2>5 DEF Claimed
    <3>2. SlotOf(s)' = SlotOf(s)
      BY <1>7, <2>3, <2>5
    <3>3. SlotOf(s) # SlotOf(r)
      BY <1>3, <1>4, <3>1
    <3>4. ASSUME NEW i \in DOMAIN wallets', wallets'[i].owner = SlotOf(s)[1],
                 wallets'[i].active = SlotOf(s)[2]
          PROVE  FALSE
      <4>1. CASE i = k
        <5>1. wallets'[k].active \in {wallets'[k].currency, NoCurrency}
          BY <1>2 DEF WrittenRow, ActiveCurrency
        <5>2. SlotOf(s) = <<SlotOf(s)[1], SlotOf(s)[2]>> /\ SlotOf(s)[2] \in Currencies
          <6>1. CASE Req[s].op = "CREATE"
            BY <6>1, CallTypes DEF SlotOf
          <6>2. CASE Req[s].op # "CREATE"
            BY <1>1, <2>3, <2>5, <6>2, RowTypes DEF SlotOf
          <6> QED
            BY <6>1, <6>2
        <5>3. wallets'[k].active = wallets'[k].currency
          BY <3>4, <4>1, <5>1, <5>2, DirectoryAssumption
        <5> QED
          BY <1>2, <3>3, <3>4, <4>1, <5>2, <5>3 DEF WrittenRow
      <4>2. CASE i # k
        BY <1>2, <3>1, <3>4, <4>2 DEF WrittenRow, SlotTaken, Occupied
      <4> QED
        BY <4>1, <4>2
    <3> QED
      BY <3>2, <3>4 DEF SlotTaken, Occupied
  <2> QED
    BY <1>5, <1>6, <2>2, <2>3, <2>4, <2>5 DEF Claimed, Fills
<1>9. Claimed(r)'
  BY <1>5 DEF Claimed, InTransaction
<1>10. \A a, b \in exclusive' : SlotOf(a)' = SlotOf(b)' => a = b
  <2>1. \A a \in exclusive' : /\ a \in exclusive
                              /\ SlotOf(a)' = SlotOf(a)
    BY <1>1, <1>4, <1>5, <1>7 DEF TypeOK, Claimed
  <2> QED
    BY <1>4, <2>1
<1>11. OneActiveWallet'
  <2> SUFFICES ASSUME NEW i \in DOMAIN wallets', NEW j \in DOMAIN wallets',
                      wallets'[i].status = "ACTIVE", wallets'[j].status = "ACTIVE",
                      wallets'[i].owner = wallets'[j].owner,
                      wallets'[i].currency = wallets'[j].currency
               PROVE  i = j
    BY DEF OneActiveWallet
  <2>1. ASSUME NEW a \in DOMAIN wallets, a # k, wallets[a].status = "ACTIVE", Fills(r),
               <<wallets[a].owner, wallets[a].currency>> = SlotOf(r)
        PROVE  FALSE
    <3>1. wallets[a].currency \in Currencies
      BY <1>1, RowTypes
    <3>2. wallets[a].active = wallets[a].currency
      BY <1>1, <2>1, <3>1, ActiveRows
    <3>3. SlotOf(r)[1] = wallets[a].owner /\ SlotOf(r)[2] = wallets[a].currency
      BY <2>1
    <3> QED
      BY <1>3, <2>1, <3>2, <3>3 DEF SlotTaken, Occupied
  <2>2. CASE i # k /\ j # k
    BY <1>1, <1>2, <2>2 DEF WrittenRow, OneActiveWallet
  <2>3. CASE i = k /\ j # k
    BY <1>2, <2>1, <2>3 DEF WrittenRow
  <2>4. CASE i # k /\ j = k
    BY <1>2, <2>1, <2>4 DEF WrittenRow
  <2> QED
    BY <2>2, <2>3, <2>4
<1> QED
  BY <1>1, <1>4, <1>5, <1>8, <1>9, <1>10, <1>11 DEF IInv, ClaimsHold

-----------------------------------------------------------------------------
(* The theorems.                                                            *)

\* Every step keeps the invariant.
LEMMA NextKeeps == IInv /\ [ActivationNext]_vars => IInv'
<1> SUFFICES ASSUME IInv, [ActivationNext]_vars PROVE IInv'
  OBVIOUS
<1>1. ASSUME NEW r \in Requests, Handle(r) PROVE IInv'
  BY <1>1, RefuseEarlyKeeps, LockRowKeeps, NotFoundKeeps, CheckKeeps,
     ScanKeeps, ShareSlotKeeps, DuplicateKeeps, ClaimSlotKeeps, CommitKeeps, LookupKeeps
     DEF Handle
<1>2. ASSUME NEW r \in Requests, DeadlockVictim(r) \/ Fault(r) \/ Crash(r) PROVE IInv'
  BY <1>2, DeadlockVictimKeeps, FaultKeeps, CrashKeeps
<1>3. CASE UNCHANGED vars
  BY <1>3 DEF vars, directory, locks, IInv, TypeOK, ClaimsHold, Claimed, OneActiveWallet,
     SlotTaken, SlotOf, Occupied
<1> QED
  BY <1>1, <1>2, <1>3 DEF ActivationNext, Finished

\* The invariant holds in every reachable state.
LEMMA Invariance == ActivationSpec => []IInv
<1> QED
  BY InitKeeps, NextKeeps, PTL DEF ActivationSpec

\* Wallet rows, audit rows and answers keep their types, and active_currency
\* follows the status, whatever the calls and their interleaving.
THEOREM TypesHold == ActivationSpec => []TypeOK
<1>1. IInv => TypeOK
  BY DEF IInv
<1> QED
  BY <1>1, Invariance, PTL

\* What a call has checked under its locks is still true when it commits.
THEOREM ClaimsAreKept == ActivationSpec => []ClaimsHold
<1>1. IInv => ClaimsHold
  BY DEF IInv
<1> QED
  BY <1>1, Invariance, PTL

\* A user never has two active wallets in a currency.
THEOREM OneWalletHolds == ActivationSpec => []OneActiveWallet
<1>1. IInv => OneActiveWallet
  BY DEF IInv
<1> QED
  BY <1>1, Invariance, PTL

-----------------------------------------------------------------------------
(* The implementation of WalletDirectory.                                   *)

\* A refusal is a step of the directory if its reason holds.
LEMMA RefusalMaps ==
    ASSUME NEW r \in Requests, NEW code \in Refusals, answer[r] = NoAnswer,
           End(r, code), Directory!Reason(Req[r], code)
    PROVE  Directory!Next
<1>1. Directory!Refuse(r)
  BY DEF End, Answer, Directory!Refuse, Directory!Answer, NoAnswer, Directory!NoAnswer,
     Refusals, Directory!Refusals
<1> QED
  BY <1>1 DEF Directory!Next

\* An exception from the database is an error of the directory, or nothing yet.
LEMMA AbortMaps ==
    ASSUME NEW r \in Requests, answer[r] = NoAnswer, Abort(r)
    PROVE  [Directory!Next]_directory
<1>1. CASE Req[r].op = "CREATE" /\ pc[r] # "lookup"
  BY <1>1 DEF Abort
<1>2. CASE End(r, "server_error")
  <2>1. Directory!Fail(r)
    BY <1>2 DEF End, Answer, Directory!Fail, Directory!Answer, NoAnswer, Directory!NoAnswer
  <2> QED
    BY <2>1 DEF Directory!Next
<1> QED
  BY <1>1, <1>2 DEF Abort

\* The commit of a call serves it.
LEMMA CommitMaps ==
    ASSUME IInv, NEW r \in Requests, Commit(r)
    PROVE  Directory!Next
<1> DEFINE q == Req[r]
<1>1. Claimed(r) /\ pc[r] = "write" /\ Write(q) /\ Answer(r, Done)
  BY DEF IInv, ClaimsHold, Commit
<1>2. answer[r] = NoAnswer /\ EarlyRefusal(q) = Done /\ (Fills(r) => ~SlotTaken(r))
  BY <1>1 DEF Claimed, InTransaction
<1>3. Directory!Write(q)
  BY <1>1 DEF Write, NewRow, WithStatus, Saved, Target, ActiveCurrency,
     Directory!Write, Directory!NewRow, Directory!WithStatus, Directory!Saved,
     Directory!Target, Directory!ActiveCurrency
<1>4. CASE q.op = "CREATE"
  <2>1. ~Occupied(q.actor, q.currency)
    BY <1>2, <1>4 DEF Fills, SlotTaken, SlotOf
  <2>2. Directory!Create(r)
    BY <1>3, <1>4, <2>1 DEF Directory!Create, Occupied, Directory!Occupied
  <2> QED
    BY <1>1, <1>2, <2>2 DEF Directory!Next, Directory!Serve, Directory!Answer, Answer,
       EarlyRefusal, Directory!EarlyRefusal, Done, Directory!Done,
       NoAnswer, Directory!NoAnswer
<1>5. CASE q.op # "CREATE"
  <2>1. q.wallet \in DOMAIN wallets /\ wallets[q.wallet].status = Expected(q)
    BY <1>1, <1>5 DEF Claimed
  <2>2. ~(q.op = "UNFREEZE" /\ OccupiedByOther(q.wallet))
    BY <1>2, <1>5 DEF Fills, SlotTaken, SlotOf, Occupied, OccupiedByOther
  <2>3. ~Directory!StatusConflict(q)
    BY <2>1, <2>2 DEF Directory!StatusConflict, Expected, Directory!Expected,
       OccupiedByOther, Directory!OccupiedByOther
  <2>4. Directory!ChangeStatus(r)
    BY <1>3, <1>5, <2>1, <2>3 DEF Directory!ChangeStatus
  <2> QED
    BY <1>1, <1>2, <2>4 DEF Directory!Next, Directory!Serve, Directory!Answer, Answer,
       EarlyRefusal, Directory!EarlyRefusal, Done, Directory!Done,
       NoAnswer, Directory!NoAnswer
<1> QED
  BY <1>4, <1>5

\* A call that ends with a refusal, for the reason it gives.
LEMMA RefuseEarlyMaps ==
    ASSUME IInv, NEW r \in Requests, RefuseEarly(r) PROVE Directory!Next
<1>1. answer[r] = NoAnswer
  BY DEF IInv, ClaimsHold, Claimed, RefuseEarly
<1>2. EarlyRefusal(Req[r]) # Done
  BY DEF RefuseEarly, IInv, ClaimsHold, Claimed
<1>3. EarlyRefusal(Req[r]) \in Refusals
  BY <1>2 DEF EarlyRefusal, Refusals, Done
<1>4. Directory!Reason(Req[r], EarlyRefusal(Req[r]))
  BY <1>2 DEF Directory!Reason, EarlyRefusal, Directory!EarlyRefusal,
     Done, Directory!Done
<1> QED
  BY <1>1, <1>3, <1>4, RefusalMaps DEF RefuseEarly

\* The wallet is missing when its absence is reported.
LEMMA NotFoundMaps ==
    ASSUME IInv, NEW r \in Requests, NotFound(r) PROVE Directory!Next
<1>1. answer[r] = NoAnswer /\ Req[r].op # "CREATE"
  BY DEF IInv, ClaimsHold, Claimed, NotFound, InTransaction
<1>2. Directory!Reason(Req[r], "not_found")
  BY <1>1 DEF NotFound, Directory!Reason
<1> QED
  BY <1>1, <1>2, RefusalMaps DEF NotFound, Refusals

\* The conflict is there when it is reported, and a passed check changes nothing.
LEMMA CheckMaps ==
    ASSUME IInv, NEW r \in Requests, Check(r) PROVE [Directory!Next]_directory
<1>1. CASE ~StatusConflict(Req[r])
  BY <1>1 DEF Check
<1>2. CASE StatusConflict(Req[r])
  <2>1. /\ answer[r] = NoAnswer /\ Req[r].op # "CREATE"
        /\ Req[r].wallet \in DOMAIN wallets
    BY DEF IInv, ClaimsHold, Claimed, Check, InTransaction
  <2>2. Directory!StatusConflict(Req[r])
    BY <1>2 DEF StatusConflict, Directory!StatusConflict, Expected, Directory!Expected,
       OccupiedByOther, Directory!OccupiedByOther
  <2>3. Directory!Reason(Req[r], "conflict")
    BY <2>1, <2>2 DEF Directory!Reason
  <2> QED
    BY <1>2, <2>1, <2>3, RefusalMaps DEF Check, Refusals
<1> QED
  BY <1>1, <1>2

\* The slot is taken when create_wallet says so.
LEMMA LookupMaps ==
    ASSUME IInv, NEW r \in Requests, Lookup(r) PROVE [Directory!Next]_directory
<1>1. answer[r] = NoAnswer /\ Req[r].op = "CREATE"
  BY DEF IInv, ClaimsHold, Claimed, Lookup
<1>2. CASE ~SlotTaken(r)
  BY <1>1, <1>2, AbortMaps DEF Lookup, Abort
<1>3. CASE SlotTaken(r)
  <2>1. Directory!Occupied(Req[r].actor, Req[r].currency)
    BY <1>1, <1>3 DEF SlotTaken, SlotOf, Occupied, Directory!Occupied
  <2>2. Directory!Reason(Req[r], "conflict")
    BY <1>1, <2>1 DEF Directory!Reason
  <2> QED
    BY <1>1, <1>3, <2>2, RefusalMaps DEF Lookup, Refusals
<1> QED
  BY <1>2, <1>3

\* Every step of the calls is a step of the directory or leaves it alone.
LEMMA StepMaps == IInv /\ [ActivationNext]_vars => [Directory!Next]_(Directory!directory)
<1> SUFFICES ASSUME IInv, [ActivationNext]_vars PROVE [Directory!Next]_directory
  BY DEF directory, Directory!directory
<1>1. ASSUME NEW r \in Requests, \/ LockRow(r) \/ Scan(r) \/ ShareSlot(r)
                                \/ ClaimSlot(r) \/ Crash(r)
      PROVE  UNCHANGED directory
  BY <1>1 DEF LockRow, Scan, ShareSlot, ClaimSlot, Crash
<1>2. ASSUME NEW r \in Requests, Duplicate(r) \/ DeadlockVictim(r) \/ Fault(r)
      PROVE  [Directory!Next]_directory
  <2>1. pc[r] \in InTransaction \cup {"lookup"} /\ Abort(r)
    BY <1>2 DEF Duplicate, DeadlockVictim, Fault, Cycle, Stuck, Blockers, InTransaction
  <2>2. answer[r] = NoAnswer
    BY <2>1 DEF IInv, ClaimsHold, Claimed
  <2> QED
    BY <2>1, <2>2, AbortMaps
<1>3. ASSUME NEW r \in Requests, \/ RefuseEarly(r) \/ NotFound(r) \/ Check(r)
                                \/ Commit(r) \/ Lookup(r)
      PROVE  [Directory!Next]_directory
  BY <1>3, RefuseEarlyMaps, NotFoundMaps, CheckMaps, CommitMaps, LookupMaps
<1>4. CASE UNCHANGED vars
  BY <1>4 DEF vars
<1> QED
  BY <1>1, <1>2, <1>3, <1>4 DEF ActivationNext, Handle, Finished

\* Creating, freezing and unfreezing wallets implements the directory: calls
\* take effect in one step, and every refusal is true when it is decided.
THEOREM ImplementsDirectory == ActivationSpec => ActivatesAtomically
<1>1. ActivationInit => Directory!Init
  BY DEF ActivationInit, Init, Directory!Init, NoAnswer, Directory!NoAnswer
<1> QED
  BY <1>1, StepMaps, Invariance, PTL DEF ActivationSpec, ActivatesAtomically, Directory!Spec
=============================================================================
