------------------------------ MODULE AtomicityProofs ------------------------------
(****************************************************************************)
(* Proof that MoneyService implements AtomicWallet: seen through its        *)
(* committed tables it serves one request at a time.                        *)
(****************************************************************************)
EXTENDS TablesProofs

-----------------------------------------------------------------------------
(* Numbers.                                                                 *)

\* The reference a request carries is of today or of an earlier day; until the
\* day has a counter its number is an id that has been given out.
NumberStands(r) ==
    pc[r] \in {"sequence", "write", "parents"} =>
        /\ ref[r].day <= today
        /\ pc[r] = "sequence" \/ sequence[ref[r].day] = 0 => ref[r].n \in 1..ids
NumbersStand == \A r \in Requests : NumberStands(r)

\* Ids are given out and counters go up, never back.
LEMMA NumbersGrow ==
    ASSUME IInv, [Next]_vars
    PROVE  /\ ids \in Nat /\ ids' \in Nat /\ ids <= ids'
           /\ \A d \in Days : sequence'[d] = 0 => sequence[d] = 0
<1>1. ids \in Nat /\ sequence \in [Days -> Nat]
  BY DEF IInv, TypeOK, TablesOK
<1>2. ids' = ids \/ ids' = ids + 1
  BY DEF Next, Handle, Claim, Execute, Begin, RefuseEarly, InsertKey, MeetInsert, ShareKey, Replay,
     RefuseReusedKey, SkipAudit, LockWallet, Reject, Accept, Overflow, Collide, StampReference,
     TakeReference, LockParent, CommitMoney, CommitFailure, Reply, DeadlockVictim, Fault, Crash,
     FreezeOrUnfreeze, SetFrozen, ChangeConfig, NextDay, Finished, vars, context
<1>3. ASSUME NEW s \in Requests, CommitMoney(s) \/ CommitFailure(s), NEW d \in Days
      PROVE  sequence'[d] = 0 => sequence[d] = 0
  BY <1>1, <1>3, CommitsFileAnswer
<1> QED
  BY <1>1, <1>2, <1>3, OnlyCommitsFile

\* While the request stands still its number stays good.
LEMMA NumberKept ==
    ASSUME IInv, [Next]_vars, NEW r \in Requests, NumberStands(r), pc'[r] = pc[r], ref'[r] = ref[r]
    PROVE  NumberStands(r)'
<1>1. ref[r] \in Refs
  BY DEF IInv, TypeOK
<1>2. /\ ids \in Nat /\ ids' \in Nat /\ ids <= ids' /\ today \in Int /\ today' \in Int /\ today <= today'
      /\ sequence'[ref[r].day] = 0 => sequence[ref[r].day] = 0
      /\ ref[r].day \in Int
  BY <1>1, NumbersGrow, ContextGrows, RulesAssumption DEF IInv, Refs, Days
<1> QED
  BY <1>2 DEF NumberStands

\* A step of the request itself: its number is an id, and then the counter's
\* unless the day has none.
LEMMA NumberByOwnStep ==
    ASSUME IInv, [Next]_vars, NEW r \in Requests, NumberStands(r),
           Handle(r) \/ DeadlockVictim(r) \/ Fault(r) \/ Crash(r)
    PROVE  NumberStands(r)'
<1>1. TypeOK /\ Cleared(r) /\ ref[r] \in Refs
  BY DEF IInv, HandlersAreCleared, TypeOK
<1>2. ids \in Nat /\ today \in Int
  BY <1>1, RulesAssumption DEF TypeOK, TablesOK, Days
<1>3. CASE pc'[r] \notin {"sequence", "write", "parents"}
  BY <1>3 DEF NumberStands
<1>4. CASE StampReference(r)
  <2>1. /\ ref'[r] = [day |-> today, n |-> ids'] /\ ids' = ids + 1 /\ today' = today
    BY <1>1, <1>4 DEF StampReference, TypeOK
  <2> QED
    BY <1>2, <2>1 DEF NumberStands
<1>5. CASE TakeReference(r)
  <2>1. /\ ref' = [ref EXCEPT ![r].n = NextNumber(ref[r].day, @)]
        /\ pc[r] = "sequence" /\ UNCHANGED <<ids, today, sequence>>
    BY <1>5 DEF TakeReference, tables, context
  <2>2. /\ ref'[r].day = ref[r].day
        /\ ref'[r].n = NextNumber(ref[r].day, ref[r].n)
    BY <1>1, <2>1 DEF Refs, TypeOK
  <2>3. pc[r] = "sequence" /\ ids' = ids /\ today' = today /\ sequence' = sequence
    BY <2>1
  <2>4. ref[r].day <= today /\ ref[r].n \in 1..ids
    BY <2>3 DEF NumberStands
  <2>5. sequence[ref[r].day] = 0 => ref'[r].n = ref[r].n
    BY <2>2 DEF NextNumber
  <2>6. pc'[r] # "sequence"
    BY <1>1, <1>5 DEF TakeReference, GoTo, TypeOK
  <2> QED
    BY <2>2, <2>3, <2>4, <2>5, <2>6 DEF NumberStands
<1>6. CASE LockParent(r)
  <2>1. pc'[r] = pc[r] /\ ref'[r] = ref[r]
    BY <1>6 DEF LockParent, locals
  <2> QED
    BY <2>1, NumberKept
<1>7. CASE Claim(r)
  <2>1. pc'[r] \notin {"sequence", "write", "parents"}
    BY <1>1, <1>7 DEF Claim, Begin, RefuseEarly, InsertKey, MeetInsert, ShareKey, Replay,
       RefuseReusedKey, SkipAudit, Refuse, Answer, GoTo, TypeOK
  <2> QED
    BY <1>3, <2>1
<1>8. CASE \/ LockWallet(r) \/ Reject(r) \/ Accept(r) \/ Overflow(r) \/ Collide(r) \/ CommitMoney(r)
           \/ CommitFailure(r) \/ Reply(r) \/ DeadlockVictim(r) \/ Fault(r) \/ Crash(r)
  <2>1. pc'[r] \notin {"sequence", "write", "parents"}
    BY <1>1, <1>8 DEF LockWallet, Reject, Accept, Overflow, Collide, CommitMoney, CommitFailure,
       Reply, DeadlockVictim, Fault, Crash, Refuse, Abort, Answer, GoTo, TypeOK
  <2> QED
    BY <1>3, <2>1
<1> QED
  BY <1>4, <1>5, <1>6, <1>7, <1>8 DEF Handle, Execute

\* Every step keeps the numbers good.
LEMMA NumberStep == IInv /\ NumbersStand /\ [Next]_vars => NumbersStand'
<1> SUFFICES ASSUME IInv, NumbersStand, [Next]_vars, NEW r \in Requests PROVE NumberStands(r)'
  BY DEF NumbersStand
<1>1. NumberStands(r) /\ TypeOK
  BY DEF NumbersStand, IInv
<1>2. CASE Handle(r) \/ DeadlockVictim(r) \/ Fault(r) \/ Crash(r)
  BY <1>1, <1>2, NumberByOwnStep
<1>3. ASSUME NEW s \in Requests \ {r}, Handle(s) \/ DeadlockVictim(s) \/ Fault(s) \/ Crash(s)
      PROVE  pc'[r] = pc[r] /\ ref'[r] = ref[r]
  BY <1>1, <1>3 DEF Handle, Claim, Execute, Begin, RefuseEarly, InsertKey, MeetInsert,
     ShareKey, Replay, RefuseReusedKey, SkipAudit, LockWallet, Reject, Accept, Overflow, Collide,
     StampReference, TakeReference, LockParent, CommitMoney, CommitFailure, Reply,
     DeadlockVictim, Fault, Crash, Refuse, Abort, Answer, GoTo, EndTransaction, TypeOK, locals
<1>4. ASSUME ~\E s \in Requests : Handle(s) \/ DeadlockVictim(s) \/ Fault(s) \/ Crash(s)
      PROVE  pc'[r] = pc[r] /\ ref'[r] = ref[r]
  BY <1>4 DEF Next, FreezeOrUnfreeze, Idle, Finished, vars, locals
<1>5. CASE pc'[r] = pc[r] /\ ref'[r] = ref[r]
  BY <1>1, <1>5, NumberKept
<1> QED
  BY <1>2, <1>3, <1>4, <1>5

\* No request carries a number at the start.
LEMMA NumbersInit == Init => NumbersStand
BY DEF Init, NumbersStand, NumberStands

-----------------------------------------------------------------------------
(* The steps of the abstract specification.                                 *)

\* A request commits under a reference that the abstract specification offers.
LEMMA ReferenceIsNext ==
    ASSUME IInv, NumbersStand, NEW s \in Requests, CommitMoney(s) \/ CommitFailure(s)
    PROVE  ref[s] \in Atomic!NextReferences
<1>1. /\ pc[s] \in {"write", "parents"} /\ ~Collides(s)
      /\ ref[s] \in Refs /\ sequence \in [Days -> Nat] /\ today \in Days
  BY DEF CommitMoney, CommitFailure, IInv, TypeOK, TablesOK
<1>2. /\ sequence[ref[s].day] = 0 \/ ref[s].n = sequence[ref[s].day] + 1
      /\ ref[s].day <= today
      /\ sequence[ref[s].day] = 0 => ref[s].n \in 1..ids
  BY <1>1 DEF IInv, HandlersAreIsolated, Isolated, NumbersStand, NumberStands
<1>3. ref[s] \notin {transactions[i].reference : i \in DOMAIN transactions}
  BY <1>1 DEF Collides
<1>4. /\ ref[s] = [day |-> ref[s].day, n |-> ref[s].n]
      /\ ref[s].day \in 0..today /\ sequence[ref[s].day] \in Nat
  BY <1>1, <1>2, RulesAssumption DEF Refs, Days
<1> DEFINE counted == {d \in 0..today : sequence[d] > 0}
<1>5. CASE sequence[ref[s].day] = 0
  <2>1. ref[s] \in [day : (0..today) \ counted, n : 1..ids]
    BY <1>2, <1>4, <1>5
  <2> QED
    BY <1>3, <2>1 DEF Atomic!NextReferences
<1>6. CASE sequence[ref[s].day] # 0
  <2>1. ref[s].day \in counted /\ ref[s].n = sequence[ref[s].day] + 1
    BY <1>2, <1>4, <1>6
  <2>2. ref[s] \in {[day |-> d, n |-> sequence[d] + 1] : d \in counted}
    BY <1>4, <2>1
  <2> QED
    BY <1>3, <2>2 DEF Atomic!NextReferences
<1> QED
  BY <1>5, <1>6

\* What a request writes from the rows it has read is what it would write from
\* the committed rows: it has locked them.
LEMMA PostsCommittedRows ==
    ASSUME IInv, NEW s \in Requests, CommitMoney(s)
    PROVE  Atomic!PostMoney(Req[s], wallet, ref[s])
<1> DEFINE q == Req[s]
<1>1. /\ \A w \in Touched(q) : w \in Wallets /\ seen[s][w] = wallet[w]
      /\ q.wallet \in Touched(q)
  BY CommitFromCurrentRows DEF CommitMoney, IInv, HandlersAreCleared, Cleared, Touched
<1>2. PostMoney(q, seen[s], ref[s])
  BY DEF CommitMoney
<1> HIDE DEF q
<1>3. PostMoney(q, wallet, ref[s])
  <2>1. wallet' = [w \in Wallets |-> IF w \in Touched(q)
                                     THEN [wallet[w] EXCEPT !.balance = wallet[w].balance + Delta(q, w)]
                                     ELSE wallet[w]]
    BY <1>1, <1>2 DEF PostMoney
  <2>2. ledger' = [w \in Wallets |-> IF w \in Touched(q)
                                     THEN Append(ledger[w], LedgerRow(q, w, Len(transactions) + 1,
                                                                      wallet[w].balance))
                                     ELSE ledger[w]]
    BY <1>1, <1>2 DEF PostMoney
  <2> QED
    BY <1>1, <1>2, <2>1, <2>2 DEF PostMoney
<1> QED
  BY <1>3 DEF q, PostMoney, Atomic!PostMoney, Atomic!Touched, Touched, Atomic!Delta, Delta,
     Atomic!TransactionRow, TransactionRow, Atomic!LedgerRow, LedgerRow, Atomic!KeyOf, KeyOf,
     Atomic!Fingerprint, Fingerprint, Atomic!Receipt, Receipt, Atomic!AuditRow, AuditRow,
     Atomic!SourceOf, SourceOf, Atomic!DestinationOf, DestinationOf, Atomic!Abs, Abs,
     Atomic!Accepted, Accepted, Atomic!NoWallet, NoWallet

\* An accepted request's commit is the abstract service of the request.
LEMMA CommitPerforms ==
    ASSUME IInv, DecisionsStand, NumbersStand, NEW s \in Requests, CommitMoney(s)
    PROVE  Atomic!Perform(Req[s])
<1> DEFINE q == Req[s]
<1>1. pc[s] = "write" /\ err[s] = Accepted /\ EarlyError(q) = Accepted /\ ~Stored(KeyOf(q))
  BY DEF CommitMoney, IInv, HandlersAreCleared, Cleared, HandlersAreIsolated, Isolated,
     InTransaction, IdemKey
<1>2. /\ \E c \in inForce :
            BusinessError(q, wallet, DailyCompletedTotal(transactions, q.wallet, q.op, today), c)
               = Accepted
      /\ ~Overflows(q, wallet)
  BY <1>1 DEF DecisionsStand, Decided, SpentToday
<1>3. ref[s] \in Atomic!NextReferences /\ Atomic!PostMoney(q, wallet, ref[s])
  BY ReferenceIsNext, PostsCommittedRows
<1>4. UNCHANGED context
  BY DEF CommitMoney
<1> HIDE DEF q
<1>5. Atomic!EarlyError(q) = Atomic!Accepted
  BY <1>1 DEF EarlyError, Atomic!EarlyError, Accepted, Atomic!Accepted, Audited, Atomic!Audited
<1>6. ~Atomic!Stored(Atomic!KeyOf(q))
  BY <1>1 DEF Stored, Atomic!Stored, KeyOf, Atomic!KeyOf, NoRecord, Atomic!NoRecord, NoAnswer,
     Atomic!NoAnswer, ErrorAnswer, Atomic!ErrorAnswer, NoCode, Atomic!NoCode, NoRef, Atomic!NoRef
<1>7. \A tx, w, op, d : Atomic!DailyCompletedTotal(tx, w, op, d) = DailyCompletedTotal(tx, w, op, d)
  BY DEF DailyCompletedTotal, Atomic!DailyCompletedTotal, MapThenSumSet, Atomic!MapThenSumSet,
     MapThenFoldSet, Atomic!MapThenFoldSet
<1>8. \A view, spent, c : Atomic!BusinessError(q, view, spent, c) = BusinessError(q, view, spent, c)
  BY DEF BusinessError, Atomic!BusinessError, CustomerError, Atomic!CustomerError, AdjustmentError,
     Atomic!AdjustmentError, Inactive, Atomic!Inactive, Touched, Atomic!Touched, Unfunded,
     Atomic!Unfunded, Spending, Atomic!Spending, Accepted, Atomic!Accepted
<1>9. ~Atomic!Overflows(q, wallet)
  BY <1>2 DEF Overflows, Atomic!Overflows, Touched, Atomic!Touched, Delta, Atomic!Delta
<1>10. \E c \in inForce :
          Atomic!BusinessError(q, wallet,
             Atomic!DailyCompletedTotal(transactions, q.wallet, q.op, today), c) = Atomic!Accepted
  BY <1>2, <1>7, <1>8 DEF Accepted, Atomic!Accepted
<1> QED
  BY <1>3, <1>4, <1>5, <1>6, <1>9, <1>10 DEF Atomic!Perform, context, Atomic!context, q

\* The commit of a failure record puts the refused request on record.
LEMMA FailureRecords ==
    ASSUME IInv, RefusalsStand, NumbersStand, NEW s \in Requests, CommitFailure(s)
    PROVE  Atomic!Record(Req[s])
<1> DEFINE q == Req[s]
<1>1. /\ pc[s] = "parents" /\ err[s] # Accepted
      /\ EarlyError(q) = Accepted /\ ~Stored(KeyOf(q))
  BY DEF CommitFailure, IInv, HandlersAreCleared, Cleared, HandlersAreIsolated, Isolated,
     InTransaction, IdemKey
<1>2. q.op \in Audited /\ err[s] \in BusinessCodes
  BY <1>1 DEF RefusalsStand, Refused, IdemKey
<1>3. ref[s] \in Atomic!NextReferences
  BY ReferenceIsNext
<1>4. PostFailure(q, err[s], ref[s]) /\ UNCHANGED context
  BY DEF CommitFailure
<1> HIDE DEF q
<1>5. Atomic!EarlyError(q) = Atomic!Accepted
  BY <1>1 DEF EarlyError, Atomic!EarlyError, Accepted, Atomic!Accepted, Audited, Atomic!Audited
<1>6. ~Atomic!Stored(Atomic!KeyOf(q))
  BY <1>1 DEF Stored, Atomic!Stored, KeyOf, Atomic!KeyOf, NoRecord, Atomic!NoRecord, NoAnswer,
     Atomic!NoAnswer, ErrorAnswer, Atomic!ErrorAnswer, NoCode, Atomic!NoCode, NoRef, Atomic!NoRef
<1>7. Atomic!PostFailure(q, err[s], ref[s])
  BY <1>4 DEF PostFailure, Atomic!PostFailure, TransactionRow, Atomic!TransactionRow, KeyOf,
     Atomic!KeyOf, Fingerprint, Atomic!Fingerprint, ErrorAnswer, Atomic!ErrorAnswer, NoRef,
     Atomic!NoRef, SourceOf, Atomic!SourceOf, DestinationOf, Atomic!DestinationOf, Abs, Atomic!Abs,
     Delta, Atomic!Delta, NoWallet, Atomic!NoWallet
<1>8. q.op \in Atomic!Audited /\ err[s] \in Atomic!BusinessCodes
  BY <1>2 DEF Audited, Atomic!Audited, BusinessCodes, Atomic!BusinessCodes
<1> QED
  BY <1>3, <1>4, <1>5, <1>6, <1>7, <1>8 DEF Atomic!Record, context, Atomic!context, q

\* Freezing is the same step for both.
LEMMA FreezeMaps ==
    ASSUME NEW w \in Wallets, NEW freeze \in BOOLEAN, FreezeOrUnfreeze(w, freeze)
    PROVE  Atomic!SetFrozen(w, freeze)
BY DEF FreezeOrUnfreeze, SetFrozen, Atomic!SetFrozen, AuditRow, Atomic!AuditRow, context,
   Atomic!context

\* Every step of the service is a step of the abstract specification.
LEMMA AtomicStep ==
    ASSUME IInv, DecisionsStand, RefusalsStand, NumbersStand, [Next]_vars
    PROVE  [Atomic!Next]_<<tables, context>>
<1>1. ASSUME NEW s \in Requests, CommitMoney(s) \/ CommitFailure(s) PROVE Atomic!Next
  BY <1>1, CommitPerforms, FailureRecords DEF Atomic!Next
<1>2. ASSUME NEW w \in Wallets, NEW freeze \in BOOLEAN, FreezeOrUnfreeze(w, freeze)
      PROVE  Atomic!Next
  BY <1>2, FreezeMaps DEF Atomic!Next
<1>3. CASE ChangeConfig
  BY <1>3 DEF ChangeConfig, Atomic!ChangeConfig, Atomic!Next, tables, Atomic!tables
<1>4. CASE NextDay
  BY <1>4 DEF NextDay, Atomic!NextDay, Atomic!Next, tables, Atomic!tables
<1>5. ASSUME NEW s \in Requests, StampReference(s) PROVE Atomic!Next
  BY <1>5 DEF StampReference, Atomic!GiveOutId, Atomic!Next, tables, Atomic!tables
<1>6. ASSUME NEW s \in Requests, Handle(s) \/ DeadlockVictim(s) \/ Fault(s) \/ Crash(s),
             ~StampReference(s), ~CommitMoney(s), ~CommitFailure(s)
      PROVE  UNCHANGED <<tables, context>>
  BY <1>6 DEF Handle, Claim, Execute, Begin, RefuseEarly, InsertKey, MeetInsert, ShareKey, Replay,
     RefuseReusedKey, SkipAudit, LockWallet, Reject, Accept, Overflow, Collide, TakeReference,
     LockParent, Reply, DeadlockVictim, Fault, Crash
<1>7. CASE UNCHANGED vars
  BY <1>7 DEF vars
<1> QED
  BY <1>1, <1>2, <1>3, <1>4, <1>5, <1>6, <1>7 DEF Next, Finished

\* The concurrent service implements the one that serves a request at a time.
THEOREM ServiceIsAtomic == Spec => ServesAtomically
<1>1. Init => Atomic!Init
  BY DEF Init, TablesInit, Atomic!Init, Atomic!TablesInit, UsedKeys, Atomic!UsedKeys, KeyOf,
     Atomic!KeyOf, NoRecord, Atomic!NoRecord, NoAnswer, Atomic!NoAnswer, ErrorAnswer,
     Atomic!ErrorAnswer, NoCode, Atomic!NoCode, NoRef, Atomic!NoRef, Days, Atomic!Days
<1>2. IInv /\ DecisionsStand /\ RefusalsStand /\ NumbersStand /\ [Next]_vars
        => [Atomic!Next]_<<Atomic!tables, Atomic!context>>
  BY AtomicStep DEF tables, context, Atomic!tables, Atomic!context
<1> QED
  BY InitInvariant, InductiveInvariant, DecisionsHold, RefusalsInit, RefusalStep, NumbersInit,
     NumberStep, <1>1, <1>2, PTL DEF Spec, ServesAtomically, Atomic!Spec
=============================================================================
