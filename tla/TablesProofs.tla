------------------------------ MODULE TablesProofs ------------------------------
(****************************************************************************)
(* Proofs about MoneyService: what its committed tables promise.            *)
(****************************************************************************)
EXTENDS MoneyServiceProofs

-----------------------------------------------------------------------------
(* The day's total.                                                         *)

\* What a daily total adds up.
Amounts(tx) == [i \in DOMAIN tx |-> tx[i].amount]
Counted(tx, w, op, since) ==
    {i \in DOMAIN tx : /\ tx[i].source = w
                       /\ tx[i].type = op
                       /\ tx[i].status = "COMPLETED"
                       /\ tx[i].created >= since}

AmountIn(tx, C) == MapThenSumSet(LAMBDA i : tx[i].amount, C)

\* The specifications' way to add up amounts is a sum.
LEMMA AmountIsSum ==
    ASSUME NEW tx, NEW C \in SUBSET DOMAIN tx
    PROVE  AmountIn(tx, C) = SumOf(Amounts(tx), C)
<1> DEFINE P(g) == g = [s \in SUBSET C |->
                          IF s = {} THEN 0 ELSE tx[Picked(s)].amount + g[Others(s)]]
<1>1. AmountIn(tx, C) = (CHOOSE g : P(g))[C]
  BY DEF AmountIn, MapThenSumSet, MapThenFoldSet, Picked, Others
<1>2. \A s \in SUBSET C : s # {} => Amounts(tx)[Picked(s)] = tx[Picked(s)].amount
  BY PickedIsIn DEF Amounts
<1>3. \A g : P(g) <=> SumsUp(Amounts(tx), g, C)
  BY <1>2 DEF SumsUp, Step
<1>4. (CHOOSE g : P(g)) = (CHOOSE g : SumsUp(Amounts(tx), g, C))
  BY <1>3
<1> QED
  BY <1>1, <1>4, SumIsChosen

\* The daily total is the sum of the counted amounts.
LEMMA TotalIsSum ==
    ASSUME NEW tx, NEW w, NEW op, NEW since
    PROVE  DailyCompletedTotal(tx, w, op, since) = SumOf(Amounts(tx), Counted(tx, w, op, since))
<1>1. DailyCompletedTotal(tx, w, op, since) = AmountIn(tx, Counted(tx, w, op, since))
  BY DEF DailyCompletedTotal, AmountIn, Counted
<1>2. Counted(tx, w, op, since) \in SUBSET DOMAIN tx
  BY DEF Counted
<1> QED
  BY <1>1, <1>2, AmountIsSum

\* Sets of transactions are finite and their amounts natural numbers.
LEMMA AmountsAreNatural ==
    ASSUME NEW tx \in Seq(TransactionRows)
    PROVE  /\ \A C \in SUBSET DOMAIN tx : IsFiniteSet(C)
           /\ \A i \in DOMAIN tx : Amounts(tx)[i] \in Nat
<1>1. DOMAIN tx = 1..Len(tx) /\ Len(tx) \in Nat
  OBVIOUS
<1>2. \A i \in DOMAIN tx : tx[i] \in TransactionRows
  OBVIOUS
<1>3. \A i \in DOMAIN tx : Amounts(tx)[i] \in Nat
  BY <1>2 DEF Amounts, TransactionRows
<1>4. IsFiniteSet(DOMAIN tx)
  BY <1>1, FS_Interval
<1> QED
  BY <1>3, <1>4, FS_Subset

\* The total of a later day is no larger: what was checked on one day before
\* midnight would also pass after it.
LEMMA TotalIsAntitone ==
    ASSUME NEW tx \in Seq(TransactionRows), NEW w, NEW op, NEW d \in Int, NEW e \in Int, d <= e
    PROVE  /\ DailyCompletedTotal(tx, w, op, d) \in Nat
           /\ DailyCompletedTotal(tx, w, op, e) \in Nat
           /\ DailyCompletedTotal(tx, w, op, e) <= DailyCompletedTotal(tx, w, op, d)
<1>1. \A i \in DOMAIN tx : tx[i].created \in Int
  <2>1. \A i \in DOMAIN tx : tx[i] \in TransactionRows
    OBVIOUS
  <2> QED
    BY <2>1, RulesAssumption DEF TransactionRows, Days
<1>2. /\ Counted(tx, w, op, e) \in SUBSET Counted(tx, w, op, d)
      /\ Counted(tx, w, op, d) \in SUBSET DOMAIN tx
  BY <1>1 DEF Counted
<1>3. /\ IsFiniteSet(Counted(tx, w, op, d)) /\ IsFiniteSet(Counted(tx, w, op, e))
      /\ \A i \in Counted(tx, w, op, d) : Amounts(tx)[i] \in Nat
  BY <1>2, AmountsAreNatural
<1> QED
  BY <1>2, <1>3, TotalIsSum, SumType, SumIsMonotone

\* A transaction of another wallet, or a failed one, does not change the total.
LEMMA TotalIsLocal ==
    ASSUME NEW tx \in Seq(TransactionRows), NEW row \in TransactionRows, NEW w, NEW op, NEW since,
           row.source # w \/ row.type # op \/ row.status = "FAILED"
    PROVE  DailyCompletedTotal(Append(tx, row), w, op, since) = DailyCompletedTotal(tx, w, op, since)
<1> DEFINE ty == Append(tx, row)
<1>1. /\ DOMAIN ty = DOMAIN tx \cup {Len(tx) + 1}
      /\ \A i \in DOMAIN tx : ty[i] = tx[i]
      /\ ty[Len(tx) + 1] = row
  OBVIOUS
<1> HIDE DEF ty
<1>2. Counted(ty, w, op, since) = Counted(tx, w, op, since)
  BY <1>1 DEF Counted
<1>3. \A i \in Counted(tx, w, op, since) : Amounts(ty)[i] = Amounts(tx)[i]
  BY <1>1 DEF Amounts, Counted
<1>4. SumOf(Amounts(ty), Counted(tx, w, op, since)) = SumOf(Amounts(tx), Counted(tx, w, op, since))
  BY <1>3, SumIsExtensional
<1>5. DailyCompletedTotal(ty, w, op, since) = DailyCompletedTotal(tx, w, op, since)
  BY <1>2, <1>4, TotalIsSum
<1> QED
  BY <1>5 DEF ty

\* A request that passes its checks passes them with a smaller total too.
LEMMA SmallerTotalPasses ==
    ASSUME NEW r \in Requests, NEW view, NEW c \in Configs, NEW more \in Nat, NEW less \in Nat,
           less <= more, BusinessError(Req[r], view, more, c) = Accepted
    PROVE  BusinessError(Req[r], view, less, c) = Accepted
<1>1. Req[r] \in Request /\ c \in Config
  BY RulesAssumption
<1>2. Req[r].op \in Spending => /\ c.daily[Req[r].op] \in Nat
                                /\ Req[r].amount \in Int
  BY <1>1 DEF Config, Request
<1>3. CASE Req[r].op = "BALANCE_ADJUSTMENT"
  BY <1>3 DEF BusinessError
<1>4. CASE Req[r].op # "BALANCE_ADJUSTMENT"
  BY <1>2, <1>4 DEF BusinessError, CustomerError, Accepted
<1> QED
  BY <1>3, <1>4

-----------------------------------------------------------------------------
(* Decisions.                                                               *)

\* The checks look at the rows of the request's wallets and at no other.
LEMMA SameRowsSameVerdict ==
    ASSUME NEW q, NEW u, NEW v, NEW spent, NEW c, \A w \in Touched(q) : u[w] = v[w]
    PROVE  /\ BusinessError(q, u, spent, c) = Accepted => BusinessError(q, v, spent, c) = Accepted
           /\ Overflows(q, u) <=> Overflows(q, v)
<1>1. Overflows(q, u) <=> Overflows(q, v)
  BY DEF Overflows
<1>2. q.wallet \in Wallets => u[q.wallet] = v[q.wallet]
  BY DEF Touched
<1>3. Inactive(q, u) <=> Inactive(q, v)
  BY DEF Inactive
<1>4. AdjustmentError(q, u) = Accepted => AdjustmentError(q, v) = Accepted
  BY <1>2 DEF AdjustmentError, Accepted
<1>5. CustomerError(q, u, spent, c) = Accepted => CustomerError(q, v, spent, c) = Accepted
  BY <1>2, <1>3 DEF CustomerError, Accepted, Unfunded
<1> QED
  BY <1>1, <1>4, <1>5 DEF BusinessError

\* A transaction row that a request writes belongs to wallets it has locked.
LEMMA CommitsWriteOwnRows ==
    ASSUME IInv, NEW s \in Requests, CommitMoney(s) \/ CommitFailure(s)
    PROVE  \E status \in {"COMPLETED", "FAILED"} :
              LET row == TransactionRow(Req[s], ref[s], status, today)
              IN  /\ row \in TransactionRows
                  /\ transactions' = Append(transactions, row)
                  /\ CommitMoney(s) => status = "COMPLETED"
                  /\ CommitFailure(s) => status = "FAILED" /\ UNCHANGED wallet
                  /\ UNCHANGED context
                  /\ row.source \in Touched(Req[s]) \cup {NoWallet}
<1>1. EarlyError(Req[s]) = Accepted
  BY DEF IInv, HandlersAreCleared, Cleared, InTransaction, CommitMoney, CommitFailure
<1>2. SourceOf(Req[s]) \in Touched(Req[s]) \cup {NoWallet}
  BY DEF SourceOf, Touched
<1>3. \A status \in {"COMPLETED", "FAILED"} :
         /\ TransactionRow(Req[s], ref[s], status, today) \in TransactionRows
         /\ TransactionRow(Req[s], ref[s], status, today).source = SourceOf(Req[s])
  BY <1>1, RowTypes DEF TransactionRow, IInv
<1>4. CASE CommitMoney(s)
  <2>1. pc[s] = "write"
    BY <1>4 DEF CommitMoney
  <2> QED
    BY <1>2, <1>3, <1>4, <2>1 DEF CommitMoney, CommitFailure, PostMoney
<1>5. CASE CommitFailure(s)
  <2>1. pc[s] = "parents"
    BY <1>5 DEF CommitFailure
  <2> QED
    BY <1>2, <1>3, <1>5, <2>1 DEF CommitMoney, CommitFailure, PostFailure
<1> QED
  BY <1>4, <1>5

\* The date, the ids and the limits that were in force only ever grow.
LEMMA ContextGrows ==
    ASSUME TypeOK, [Next]_vars
    PROVE  /\ inForce \subseteq inForce'
           /\ today \in Int /\ today' \in Int /\ today <= today'
           /\ UNCHANGED tables \/ UNCHANGED context
<1>1. today \in Int /\ ids \in Int
  BY RulesAssumption DEF TypeOK, TablesOK, Days
<1>2. ASSUME NEW r \in Requests, Handle(r) \/ DeadlockVictim(r) \/ Fault(r) \/ Crash(r)
      PROVE  /\ UNCHANGED <<inForce, today>>
             /\ UNCHANGED tables \/ UNCHANGED context
  BY <1>2 DEF Handle, Claim, Execute, Begin, RefuseEarly, InsertKey, MeetInsert, ShareKey, Replay,
     RefuseReusedKey, SkipAudit, LockWallet, Reject, Accept, Overflow, Collide, StampReference,
     TakeReference, LockParent, CommitMoney, CommitFailure, Reply, DeadlockVictim, Fault, Crash,
     context
<1>3. ASSUME NEW w \in Wallets, NEW freeze \in BOOLEAN, FreezeOrUnfreeze(w, freeze)
      PROVE  UNCHANGED context
  BY <1>3 DEF FreezeOrUnfreeze, SetFrozen
<1>4. CASE ChangeConfig \/ NextDay
  BY <1>1, <1>4 DEF ChangeConfig, NextDay
<1>5. CASE UNCHANGED vars
  BY <1>1, <1>5 DEF vars, context
<1> QED
  BY <1>1, <1>2, <1>3, <1>4, <1>5 DEF Next, Finished, context

\* What was decided stays decided while the request holds its locks: the rows
\* it looked at cannot change, the day's total of its wallet cannot grow.
LEMMA DecisionKept ==
    ASSUME IInv, [Next]_vars, NEW r \in Requests,
           pc[r] \in {"stamp", "sequence", "write"}, err[r] = Accepted, Decided(r),
           ~CommitMoney(r), ~CommitFailure(r)
    PROVE  /\ \E c \in inForce' : BusinessError(Req[r], wallet', SpentToday(r)', c) = Accepted
           /\ ~Overflows(Req[r], wallet')
<1> DEFINE q == Req[r]
           total(tx, d) == DailyCompletedTotal(tx, q.wallet, q.op, d)
<1>1. PICK c \in inForce : BusinessError(q, wallet, total(transactions, today), c) = Accepted
  BY DEF Decided, SpentToday
<1>2. /\ ~Overflows(q, wallet) /\ c \in Configs
      /\ Isolated(r) /\ q.wallet \in Wallets /\ q.wallet \in Touched(q)
      /\ transactions \in Seq(TransactionRows) /\ wallet \in [Wallets -> WalletRow]
      /\ \A w \in Touched(q) : w \in Wallets /\ WalletLock(w) \in exclusive[r]
  BY RequestTypes DEF Decided, IInv, HandlersAreIsolated, HandlersAreCleared, Isolated, Cleared,
     TypeOK, TablesOK, Touched
<1>3. today \in Int /\ today' \in Int /\ today <= today' /\ c \in inForce'
  BY ContextGrows DEF IInv
<1>4. ASSUME NEW s \in Requests, CommitMoney(s)
      PROVE  /\ \A w \in Touched(q) : w \notin Touched(Req[s])
             /\ \A w \in Touched(q) : wallet'[w] = wallet[w]
  <2>1. \A w \in Touched(Req[s]) : WalletLock(w) \in exclusive[s]
    BY <1>4 DEF IInv, HandlersAreIsolated, HandlersAreCleared, Isolated, Cleared, CommitMoney
  <2>2. s # r
    BY <1>4
  <2>3. \A w \in Touched(q) : w \notin Touched(Req[s])
    BY <1>2, <2>1, <2>2 DEF Isolated
  <2> QED
    BY <1>2, <1>4, <2>3 DEF CommitMoney, PostMoney
<1>5. ASSUME NEW s \in Requests, CommitMoney(s) \/ CommitFailure(s)
      PROVE  /\ \A w \in Touched(q) : wallet'[w] = wallet[w]
             /\ total(transactions', today') = total(transactions, today)
  <2>1. PICK status \in {"COMPLETED", "FAILED"} :
           LET row == TransactionRow(Req[s], ref[s], status, today)
           IN  /\ row \in TransactionRows
               /\ transactions' = Append(transactions, row)
               /\ CommitMoney(s) => status = "COMPLETED"
               /\ CommitFailure(s) => status = "FAILED" /\ UNCHANGED wallet
               /\ UNCHANGED context
               /\ row.source \in Touched(Req[s]) \cup {NoWallet}
    BY <1>5, CommitsWriteOwnRows
  <2> DEFINE row == TransactionRow(Req[s], ref[s], status, today)
  <2>2. row.source # q.wallet \/ row.status = "FAILED"
    <3>1. CASE CommitMoney(s)
      <4>1. q.wallet \notin Touched(Req[s]) /\ q.wallet # NoWallet
        BY <1>2, <1>4, <3>1, RulesAssumption DEF NoWallet
      <4> QED
        BY <2>1, <4>1
    <3>2. CASE CommitFailure(s)
      BY <2>1, <3>2 DEF TransactionRow
    <3> QED
      BY <1>5, <3>1, <3>2
  <2>3. row \in TransactionRows /\ transactions' = Append(transactions, row) /\ today' = today
    BY <2>1 DEF context
  <2> HIDE DEF row
  <2>4. total(transactions', today') = total(transactions, today)
    BY <1>2, <2>2, <2>3, TotalIsLocal
  <2> QED
    BY <1>4, <1>5, <2>1, <2>4
<1>6. ASSUME NEW w \in Wallets, NEW freeze \in BOOLEAN, FreezeOrUnfreeze(w, freeze)
      PROVE  /\ \A v \in Touched(q) : wallet'[v] = wallet[v]
             /\ total(transactions', today') = total(transactions, today)
  <2>1. w \notin Touched(q)
    BY <1>2, <1>6 DEF FreezeOrUnfreeze
  <2> QED
    BY <1>2, <1>6, <2>1 DEF FreezeOrUnfreeze, SetFrozen, context
<1>7. CASE UNCHANGED tables
  <2>1. wallet' = wallet /\ transactions' = transactions
    BY <1>7 DEF tables
  <2>2. /\ total(transactions, today) \in Nat
        /\ total(transactions, today') \in Nat
        /\ total(transactions, today') <= total(transactions, today)
    BY <1>2, <1>3, TotalIsAntitone
  <2>3. BusinessError(q, wallet, total(transactions, today'), c) = Accepted
    BY <1>1, <1>2, <2>2, SmallerTotalPasses
  <2> QED
    BY <1>2, <1>3, <2>1, <2>3 DEF SpentToday
<1>8. CASE /\ \A v \in Touched(q) : wallet'[v] = wallet[v]
           /\ total(transactions', today') = total(transactions, today)
  <2>1. /\ BusinessError(q, wallet', total(transactions', today'), c) = Accepted
        /\ ~Overflows(q, wallet')
    BY <1>1, <1>2, <1>8, SameRowsSameVerdict
  <2> QED
    BY <1>3, <2>1 DEF SpentToday
<1> QED
  BY <1>5, <1>6, <1>7, <1>8, OnlyCommitsWrite

\* A request gets to its decision by Accept, and to later places by a step of
\* its own that is no commit, or by nothing at all.
LEMMA DecisionGained ==
    ASSUME IInv, [Next]_vars, NEW r \in Requests,
           pc'[r] \in {"stamp", "sequence", "write"}, err'[r] = Accepted
    PROVE  \/ Accept(r)
           \/ /\ pc[r] \in {"stamp", "sequence", "write"} /\ err[r] = Accepted
              /\ ~CommitMoney(r) /\ ~CommitFailure(r)
<1>1. TypeOK /\ Cleared(r)
  BY DEF IInv, HandlersAreCleared
<1>2. ASSUME NEW s \in Requests, Handle(s) \/ DeadlockVictim(s) \/ Fault(s) \/ Crash(s)
      PROVE  \/ Accept(r)
             \/ /\ pc[r] \in {"stamp", "sequence", "write"} /\ err[r] = Accepted
                /\ pc[r] = pc'[r] \/ pc[r] \in {"stamp", "sequence"}
  <2>1. CASE s # r
    <3>1. pc'[r] = pc[r] /\ err'[r] = err[r]
      BY <1>1, <1>2, <2>1 DEF Handle, Claim, Execute, Begin, RefuseEarly, InsertKey, MeetInsert,
         ShareKey, Replay, RefuseReusedKey, SkipAudit, LockWallet, Reject, Accept, Overflow, Collide,
         StampReference, TakeReference, LockParent, CommitMoney, CommitFailure, Reply,
         DeadlockVictim, Fault, Crash, Refuse, Abort, Answer, GoTo, TypeOK, locals
    <3> QED
      BY <3>1
  <2>2. CASE s = r /\ Claim(r)
    BY <1>1, <2>2 DEF Claim, Begin, RefuseEarly, InsertKey, MeetInsert, ShareKey, Replay,
       RefuseReusedKey, SkipAudit, Refuse, Answer, GoTo, TypeOK, locals
  <2>3. CASE s = r /\ Execute(r)
    BY <1>1, <2>3 DEF Execute, LockWallet, Reject, Overflow, Collide,
       StampReference, TakeReference, LockParent, CommitMoney, CommitFailure, Reply,
       Refuse, Abort, Answer, GoTo, Cleared, TypeOK, locals
  <2>4. CASE s = r /\ (DeadlockVictim(r) \/ Fault(r) \/ Crash(r))
    BY <1>1, <2>4 DEF DeadlockVictim, Fault, Crash, Abort, Answer, GoTo, TypeOK
  <2> QED
    BY <1>2, <2>1, <2>2, <2>3, <2>4 DEF Handle
<1>4. CommitMoney(r) \/ CommitFailure(r) => pc'[r] = "reply"
  BY <1>1 DEF CommitMoney, CommitFailure, Answer, GoTo, TypeOK
<1>3. CASE ~\E s \in Requests : Handle(s) \/ DeadlockVictim(s) \/ Fault(s) \/ Crash(s)
  <2>1. UNCHANGED <<pc, err>>
    BY <1>3 DEF Next, FreezeOrUnfreeze, Idle, Finished, vars, locals
  <2> QED
    BY <1>4, <2>1
<1> QED
  BY <1>2, <1>3, <1>4

\* A request is accepted on rows it has locked, so the committed rows accept it.
LEMMA AcceptDecides ==
    ASSUME IInv, NEW r \in Requests, Accept(r), config \in inForce
    PROVE  Decided(r)'
<1>1. Isolated(r) /\ Cleared(r) /\ TypeOK
  BY DEF IInv, HandlersAreIsolated, HandlersAreCleared
<1>2. /\ BusinessError(Req[r], seen[r], SpentToday(r), config) = Accepted
      /\ ~Overflows(Req[r], seen[r])
      /\ UNCHANGED <<wallet, transactions, today, inForce>>
      /\ EarlyError(Req[r]) = Accepted /\ seen[r] \in [Wallets -> WalletRow]
  BY <1>1 DEF Accept, Checking, Verdict, Cleared, InTransaction, TypeOK, tables, context
<1>3. ~(Req[r].op = "TRANSFER" /\ Req[r].wallet = Req[r].peer)
  BY <1>2, AcceptedRequest
<1>4. \A w \in Touched(Req[r]) : seen[r][w] = wallet[w]
  <2>1. ToLock(r) = {w \in Touched(Req[r]) : WalletLock(w) \notin exclusive[r]}
    BY <1>3, Zenon DEF ToLock
  <2> QED
    BY <1>1, <2>1, RequestTypes DEF Accept, Checking, Isolated
<1>5. /\ BusinessError(Req[r], wallet, SpentToday(r), config) = Accepted
      /\ ~Overflows(Req[r], wallet)
  BY <1>2, <1>4, SameRowsSameVerdict
<1>6. SpentToday(r)' = SpentToday(r) /\ config \in inForce' /\ wallet' = wallet
  BY <1>2 DEF SpentToday
<1> QED
  BY <1>5, <1>6 DEF Decided

\* The limits in force are among those that ever were.
LEMMA ConfigInForce ==
    /\ Init => config \in inForce
    /\ config \in inForce /\ [Next]_vars => (config \in inForce)'
<1>1. ASSUME config \in inForce, [Next]_vars PROVE (config \in inForce)'
  <2>1. ASSUME NEW r \in Requests, Handle(r) \/ DeadlockVictim(r) \/ Fault(r) \/ Crash(r)
        PROVE  UNCHANGED <<config, inForce>>
    BY <2>1 DEF Handle, Claim, Execute, Begin, RefuseEarly, InsertKey, MeetInsert, ShareKey, Replay,
       RefuseReusedKey, SkipAudit, LockWallet, Reject, Accept, Overflow, Collide, StampReference,
       TakeReference, LockParent, CommitMoney, CommitFailure, Reply, DeadlockVictim, Fault, Crash,
       context
  <2>2. ASSUME NEW w \in Wallets, NEW freeze \in BOOLEAN, FreezeOrUnfreeze(w, freeze)
        PROVE  UNCHANGED <<config, inForce>>
    BY <2>2 DEF FreezeOrUnfreeze, SetFrozen, context
  <2>3. CASE ChangeConfig
    BY <2>3 DEF ChangeConfig
  <2>4. CASE NextDay \/ UNCHANGED vars
    BY <1>1, <2>4 DEF NextDay, vars, context
  <2> QED
    BY <1>1, <2>1, <2>2, <2>3, <2>4 DEF Next, Finished
<1> QED
  BY <1>1 DEF Init, TablesInit

\* Every step preserves the decisions that have been made.
LEMMA DecisionStep ==
    IInv /\ config \in inForce /\ DecisionsStand /\ [Next]_vars => DecisionsStand'
<1> SUFFICES ASSUME IInv, config \in inForce, DecisionsStand, [Next]_vars, NEW r \in Requests,
                    pc'[r] \in {"stamp", "sequence", "write"}, err'[r] = Accepted
             PROVE  Decided(r)'
  BY DEF DecisionsStand, Decided
<1>1. CASE Accept(r)
  BY <1>1, AcceptDecides
<1>2. CASE ~Accept(r)
  <2>1. /\ pc[r] \in {"stamp", "sequence", "write"} /\ err[r] = Accepted
        /\ ~CommitMoney(r) /\ ~CommitFailure(r) /\ Decided(r)
    BY <1>2, DecisionGained DEF DecisionsStand
  <2> QED
    BY <2>1, DecisionKept DEF Decided
<1> QED
  BY <1>1, <1>2

\* What every request has been allowed stays allowed until it commits, by the
\* locks it holds and because a day's total only shrinks when the day ends.
THEOREM DecisionsHold == Spec => []DecisionsStand
<1>1. Init => DecisionsStand
  BY DEF Init, DecisionsStand, Decided
<1> QED
  BY InitInvariant, InductiveInvariant, ConfigInForce, <1>1, DecisionStep, PTL DEF Spec

-----------------------------------------------------------------------------
(* Daily limits.                                                            *)

\* What is spent from a wallet on day d, by one operation.
SpentRows(tx, w, op, d) ==
    {i \in DOMAIN tx : /\ tx[i].source = w
                       /\ tx[i].type = op
                       /\ tx[i].status = "COMPLETED"
                       /\ tx[i].created = d}

\* The amount spent is a sum too, and today's is part of the total the checks
\* look at.
LEMMA SpentIsPartOfTotal ==
    ASSUME NEW tx \in Seq(TransactionRows), NEW w, NEW op, NEW d \in Int
    PROVE  /\ AmountIn(tx, SpentRows(tx, w, op, d)) = SumOf(Amounts(tx), SpentRows(tx, w, op, d))
           /\ AmountIn(tx, SpentRows(tx, w, op, d)) \in Nat
           /\ AmountIn(tx, SpentRows(tx, w, op, d)) <= DailyCompletedTotal(tx, w, op, d)
<1>1. \A i \in DOMAIN tx : tx[i].created \in Int
  <2>1. \A i \in DOMAIN tx : tx[i] \in TransactionRows
    OBVIOUS
  <2> QED
    BY <2>1, RulesAssumption DEF TransactionRows, Days
<1>2. /\ SpentRows(tx, w, op, d) \in SUBSET DOMAIN tx
      /\ SpentRows(tx, w, op, d) \in SUBSET Counted(tx, w, op, d)
      /\ Counted(tx, w, op, d) \in SUBSET DOMAIN tx
  BY <1>1 DEF SpentRows, Counted
<1>3. /\ IsFiniteSet(SpentRows(tx, w, op, d)) /\ IsFiniteSet(Counted(tx, w, op, d))
      /\ \A i \in Counted(tx, w, op, d) : Amounts(tx)[i] \in Nat
  BY <1>2, AmountsAreNatural
<1>4. SumOf(Amounts(tx), SpentRows(tx, w, op, d)) \in Nat
  BY <1>2, <1>3, SumType
<1> QED
  BY <1>2, <1>3, <1>4, AmountIsSum, TotalIsSum, SumIsMonotone

\* One more transaction adds its amount to what its wallet has spent by its
\* operation on its day, if it is completed, and to nothing else.
LEMMA SpentGrowsByRow ==
    ASSUME NEW tx \in Seq(TransactionRows), NEW row \in TransactionRows, NEW w, NEW op, NEW d \in Int
    PROVE  LET ty   == Append(tx, row)
               mine == row.source = w /\ row.type = op /\ row.status = "COMPLETED" /\ row.created = d
           IN  AmountIn(ty, SpentRows(ty, w, op, d)) =
                  AmountIn(tx, SpentRows(tx, w, op, d)) + (IF mine THEN row.amount ELSE 0)
<1> DEFINE ty   == Append(tx, row)
           n    == Len(tx) + 1
           mine == row.source = w /\ row.type = op /\ row.status = "COMPLETED" /\ row.created = d
           old  == SpentRows(tx, w, op, d)
           new  == SpentRows(ty, w, op, d)
<1>1. /\ DOMAIN ty = DOMAIN tx \cup {n} /\ n \notin DOMAIN tx
      /\ \A i \in DOMAIN tx : ty[i] = tx[i]
      /\ ty[n] = row
      /\ ty \in Seq(TransactionRows)
  OBVIOUS
<1> HIDE DEF ty, n
<1>2. new = IF mine THEN old \cup {n} ELSE old
  BY <1>1 DEF SpentRows
<1>3. old \in SUBSET DOMAIN tx /\ new \in SUBSET DOMAIN ty /\ n \notin old
  BY <1>1 DEF SpentRows
<1>4. /\ AmountIn(tx, old) = SumOf(Amounts(tx), old) /\ AmountIn(tx, old) \in Nat
      /\ AmountIn(ty, new) = SumOf(Amounts(ty), new) /\ AmountIn(ty, new) \in Nat
  BY <1>1, SpentIsPartOfTotal
<1>5. SumOf(Amounts(ty), old) = SumOf(Amounts(tx), old)
  <2>1. \A i \in old : Amounts(ty)[i] = Amounts(tx)[i]
    BY <1>1, <1>3 DEF Amounts
  <2> QED
    BY <2>1, SumIsExtensional
<1>6. CASE mine
  <2>1. IsFiniteSet(new) /\ n \in new /\ \A i \in new : Amounts(ty)[i] \in Nat
    BY <1>1, <1>2, <1>3, <1>6, AmountsAreNatural
  <2>2. Amounts(ty)[n] = row.amount /\ new \ {n} = old
    BY <1>1, <1>2, <1>3, <1>6 DEF Amounts
  <2> HIDE DEF new, old
  <2>3. SumOf(Amounts(ty), new) = row.amount + SumOf(Amounts(ty), old)
    BY <2>1, <2>2, SumTakesOut
  <2>4. row.amount \in Nat
    BY DEF TransactionRows
  <2> QED
    BY <1>4, <1>5, <1>6, <2>3, <2>4 DEF ty, new, old
<1>7. CASE ~mine
  BY <1>2, <1>4, <1>5, <1>7 DEF ty
<1> QED
  BY <1>6, <1>7

\* A committed spending was within a limit that is or was in force, counting
\* all that its wallet has spent this day by then.
LEMMA SpendingIsChecked ==
    ASSUME IInv, NEW s \in Requests, CommitMoney(s), Decided(s), Req[s].op \in Spending
    PROVE  LET q == Req[s] IN
           /\ SourceOf(q) = q.wallet /\ Abs(q.amount) = q.amount /\ q.amount \in Nat
           /\ \E c \in inForce : /\ c.daily[q.op] \in Nat
                                 /\ DailyCompletedTotal(transactions, q.wallet, q.op, today)
                                       + q.amount <= c.daily[q.op]
<1> DEFINE q == Req[s]
           total == DailyCompletedTotal(transactions, q.wallet, q.op, today)
<1>1. /\ Cleared(s) /\ pc[s] = "write" /\ err[s] = Accepted
      /\ q \in Request
      /\ inForce \subseteq Configs /\ Configs \subseteq Config
  BY RulesAssumption DEF IInv, HandlersAreCleared, Cleared, CommitMoney, TypeOK, TablesOK
<1>2. /\ EarlyError(q) = Accepted /\ q.wallet \in Wallets
  BY <1>1 DEF Cleared, InTransaction
<1>3. q.amount \in Nat /\ q.amount # 0
  BY <1>1, <1>2 DEF EarlyError, Accepted, Spending, Audited, Request
<1>4. SourceOf(q) = q.wallet /\ Abs(q.amount) = q.amount
  BY <1>2, <1>3 DEF SourceOf, Delta, Spending, Abs
<1>5. PICK c \in inForce : BusinessError(q, wallet, total, c) = Accepted
  BY <1>1 DEF Decided, SpentToday
<1>6. CustomerError(q, wallet, total, c) = Accepted
  BY <1>5 DEF BusinessError, Spending
<1>7. c.daily[q.op] \in Nat
  BY <1>1 DEF Config
<1> HIDE DEF total
<1>8. ~(total + q.amount > c.daily[q.op])
  BY <1>6 DEF CustomerError, Accepted
<1>9. total \in Nat
  BY TotalIsAntitone, RulesAssumption DEF total, IInv, TypeOK, TablesOK, Days
<1> QED
  BY <1>3, <1>4, <1>7, <1>8, <1>9 DEF total

\* Every step keeps what was spent on each day within the limits.
LEMMA LimitsStep ==
    ASSUME IInv, DecisionsStand, DailyLimitsHold, [Next]_vars
    PROVE  DailyLimitsHold'
<1>1. /\ transactions \in Seq(TransactionRows) /\ inForce \subseteq inForce'
      /\ Days \subseteq Int /\ today \in Int /\ inForce \subseteq Configs /\ Configs \subseteq Config
  BY ContextGrows, RulesAssumption DEF IInv, TypeOK, TablesOK, Days
<1> SUFFICES ASSUME NEW w \in Wallets, NEW op \in Spending, NEW d \in Days, SpentOn(w, op, d)' > 0
             PROVE  \E c \in inForce' : SpentOn(w, op, d)' <= c.daily[op]
  BY DEF DailyLimitsHold
<1> DEFINE before == AmountIn(transactions, SpentRows(transactions, w, op, d))
           after  == AmountIn(transactions', SpentRows(transactions', w, op, d))
<1>2. SpentOn(w, op, d) = before /\ SpentOn(w, op, d)' = after
  <2>1. SpentOn(w, op, d) = before
    BY DEF SpentOn, AmountIn, SpentRows
  <2>2. SpentOn(w, op, d)' = after
    BY DEF SpentOn, AmountIn, SpentRows, MapThenSumSet, MapThenFoldSet
  <2> QED
    BY <2>1, <2>2
<1>3. before \in Nat /\ before <= DailyCompletedTotal(transactions, w, op, d)
      /\ DailyCompletedTotal(transactions, w, op, d) \in Nat
  BY <1>1, SpentIsPartOfTotal, TotalIsAntitone
<1>4. CASE after = before
  BY <1>1, <1>2, <1>4 DEF DailyLimitsHold
<1>5. ASSUME NEW s \in Requests, CommitMoney(s) \/ CommitFailure(s), after # before
      PROVE  \E c \in inForce' : after <= c.daily[op]
  <2>1. PICK status \in {"COMPLETED", "FAILED"} :
           LET row == TransactionRow(Req[s], ref[s], status, today)
           IN  /\ row \in TransactionRows
               /\ transactions' = Append(transactions, row)
               /\ CommitMoney(s) => status = "COMPLETED"
               /\ CommitFailure(s) => status = "FAILED"
    BY <1>5, CommitsWriteOwnRows
  <2> DEFINE row == TransactionRow(Req[s], ref[s], status, today)
             mine == row.source = w /\ row.type = op /\ row.status = "COMPLETED" /\ row.created = d
  <2>2. row \in TransactionRows /\ transactions' = Append(transactions, row)
    BY <2>1
  <2> HIDE DEF row, mine
  <2>3. after = before + (IF mine THEN row.amount ELSE 0)
    BY <1>1, <2>2, SpentGrowsByRow DEF mine
  <2> USE DEF row, mine
  <2>4. mine
    BY <1>3, <1>5, <2>3
  <2>5. CommitMoney(s)
    BY <1>5, <2>1, <2>4 DEF TransactionRow
  <2>6. /\ Req[s].op = op /\ d = today
        /\ row.amount = Abs(Req[s].amount) /\ SourceOf(Req[s]) = w
    BY <2>4 DEF TransactionRow
  <2>7. Decided(s)
    BY DEF DecisionsStand
  <2>8. PICK c \in inForce : /\ c.daily[op] \in Nat
                             /\ DailyCompletedTotal(transactions, w, op, d) + row.amount <= c.daily[op]
                             /\ row.amount \in Nat
    BY <2>5, <2>6, <2>7, SpendingIsChecked
  <2> HIDE DEF row, mine
  <2>9. after <= c.daily[op]
    BY <1>3, <2>3, <2>4, <2>8
  <2> QED
    BY <1>1, <2>9
<1>6. CASE UNCHANGED transactions
  BY <1>4, <1>6
<1>7. ASSUME NEW v \in Wallets, NEW freeze \in BOOLEAN, FreezeOrUnfreeze(v, freeze)
      PROVE  UNCHANGED transactions
  BY <1>7 DEF FreezeOrUnfreeze, SetFrozen
<1> QED
  BY <1>2, <1>4, <1>5, <1>6, <1>7, OnlyCommitsWrite DEF tables

\* Whatever runs at the same time, around midnight or while limits are edited,
\* no wallet spends more in a day than a limit that was in force.
THEOREM LimitsHold == Spec => []DailyLimitsHold
<1>1. Init => DailyLimitsHold
  <2> SUFFICES ASSUME Init, NEW w \in Wallets, NEW op \in Spending, NEW d \in Days
               PROVE  ~(SpentOn(w, op, d) > 0)
    BY DEF DailyLimitsHold
  <2>1. SpentRows(transactions, w, op, d) = {} /\ {} \in SUBSET DOMAIN transactions
    BY DEF Init, TablesInit, SpentRows
  <2>2. AmountIn(transactions, SpentRows(transactions, w, op, d)) = 0
    BY <2>1, AmountIsSum, SumOfNothing
  <2> QED
    BY <2>2 DEF SpentOn, AmountIn, SpentRows
<1>2. Init => DecisionsStand
  BY DEF Init, DecisionsStand, Decided
<1> QED
  BY InitInvariant, InductiveInvariant, ConfigInForce, DecisionStep, <1>1, <1>2, LimitsStep, PTL
  DEF Spec

-----------------------------------------------------------------------------
(* Idempotency.                                                             *)

\* A commit files one transaction under a key that had no record, and answers
\* its client with the answer it files.
LEMMA CommitsFileAnswer ==
    ASSUME IInv, NEW s \in Requests, CommitMoney(s) \/ CommitFailure(s)
    PROVE  \E status \in {"COMPLETED", "FAILED"}, a \in Answers :
              /\ transactions' = Append(transactions, TransactionRow(Req[s], ref[s], status, today))
              /\ TransactionRow(Req[s], ref[s], status, today) \in TransactionRows
              /\ idem' = [idem EXCEPT ![IdemKey(s)] =
                             [fingerprint |-> Fingerprint(Req[s]),
                              transaction |-> Len(transactions) + 1, answer |-> a]]
              /\ answer' = [answer EXCEPT ![s] = a]
              /\ sequence' = [sequence EXCEPT ![ref[s].day] = @ + 1]
              /\ (status = "COMPLETED") <=> (a.code = Accepted)
              /\ a.code = Accepted => a.reference = ref[s]
              /\ ~Stored(IdemKey(s)) /\ IdemKey(s) \in UsedKeys
              /\ ref[s] \in Refs
<1>1. /\ TypeOK /\ Isolated(s) /\ Cleared(s) /\ ref[s] \in Refs
      /\ IdemKey(s) \in UsedKeys
  BY RequestTypes DEF IInv, HandlersAreIsolated, HandlersAreCleared, TypeOK
<1>2. pc[s] \in {"write", "parents"}
  BY DEF CommitMoney, CommitFailure
<1>3. /\ EarlyError(Req[s]) = Accepted /\ ~Stored(IdemKey(s))
      /\ pc[s] = "parents" => err[s] # Accepted
      /\ pc[s] = "write" => /\ Req[s].wallet \in Wallets /\ Req[s].wallet \in Touched(Req[s])
                            /\ \A w \in Touched(Req[s]) :
                                  seen[s][w].balance + Delta(Req[s], w) \in 0..MaxBalance
  BY <1>1, <1>2 DEF Cleared, Isolated, InTransaction, Touched
<1>4. \A status \in {"COMPLETED", "FAILED"} :
         TransactionRow(Req[s], ref[s], status, today) \in TransactionRows
  BY <1>1, <1>3, RowTypes DEF IInv
<1>5. CASE CommitMoney(s)
  <2> DEFINE a == Receipt(ref[s], seen[s][Req[s].wallet].balance + Delta(Req[s], Req[s].wallet))
  <2>1. a \in Answers /\ a.code = Accepted /\ a.reference = ref[s]
    <3>1. pc[s] = "write"
      BY <1>5 DEF CommitMoney
    <3> QED
      BY <1>1, <1>3, <3>1, AnswerTypes DEF Receipt
  <2>2. /\ transactions' = Append(transactions, TransactionRow(Req[s], ref[s], "COMPLETED", today))
        /\ idem' = [idem EXCEPT ![IdemKey(s)] =
                       [fingerprint |-> Fingerprint(Req[s]),
                        transaction |-> Len(transactions) + 1, answer |-> a]]
        /\ answer' = [answer EXCEPT ![s] = a]
        /\ sequence' = [sequence EXCEPT ![ref[s].day] = @ + 1]
    BY <1>5 DEF CommitMoney, PostMoney, IdemKey, Answer
  <2> HIDE DEF a
  <2> QED
    BY <1>1, <1>3, <1>4, <2>1, <2>2
<1>6. CASE CommitFailure(s)
  <2> DEFINE a == ErrorAnswer(err[s])
  <2>1. a \in Answers /\ a.code # Accepted
    <3>1. pc[s] = "parents"
      BY <1>6 DEF CommitFailure
    <3> QED
      BY <1>1, <1>3, <3>1, AnswerTypes DEF ErrorAnswer, TypeOK
  <2>2. /\ transactions' = Append(transactions, TransactionRow(Req[s], ref[s], "FAILED", today))
        /\ idem' = [idem EXCEPT ![IdemKey(s)] =
                       [fingerprint |-> Fingerprint(Req[s]),
                        transaction |-> Len(transactions) + 1, answer |-> a]]
        /\ answer' = [answer EXCEPT ![s] = a]
        /\ sequence' = [sequence EXCEPT ![ref[s].day] = @ + 1]
    BY <1>6 DEF CommitFailure, PostFailure, IdemKey, Answer
  <2> HIDE DEF a
  <2> QED
    BY <1>1, <1>3, <1>4, <2>1, <2>2
<1> QED
  BY <1>5, <1>6

\* The steps that leave transactions and idempotency records alone.
LEMMA OnlyCommitsFile ==
    ASSUME [Next]_vars
    PROVE  \/ \E s \in Requests : CommitMoney(s) \/ CommitFailure(s)
           \/ UNCHANGED <<transactions, idem, sequence>>
BY OnlyCommitsWrite DEF tables, FreezeOrUnfreeze, SetFrozen

\* What one idempotency record says of the transaction it names.
RecordFits(k, record, tx) ==
    /\ record.transaction \in DOMAIN tx
    /\ LET t == tx[record.transaction]
       IN  /\ t.actor = k[1] /\ t.type = k[2]
           /\ (t.status = "COMPLETED") <=> (record.answer.code = Accepted)

\* Every step keeps transactions and idempotency records in one-to-one
\* correspondence.
LEMMA OnceStep == IInv /\ ExactlyOnce /\ [Next]_vars => ExactlyOnce'
<1> SUFFICES ASSUME IInv, ExactlyOnce, [Next]_vars PROVE ExactlyOnce'
  OBVIOUS
<1>1. ASSUME NEW s \in Requests, CommitMoney(s) \/ CommitFailure(s) PROVE ExactlyOnce'
  <2>1. PICK status \in {"COMPLETED", "FAILED"}, a \in Answers :
              /\ transactions' = Append(transactions, TransactionRow(Req[s], ref[s], status, today))
              /\ TransactionRow(Req[s], ref[s], status, today) \in TransactionRows
              /\ idem' = [idem EXCEPT ![IdemKey(s)] =
                             [fingerprint |-> Fingerprint(Req[s]),
                              transaction |-> Len(transactions) + 1, answer |-> a]]
              /\ (status = "COMPLETED") <=> (a.code = Accepted)
              /\ ~Stored(IdemKey(s)) /\ IdemKey(s) \in UsedKeys
    BY <1>1, CommitsFileAnswer
  <2> DEFINE n      == Len(transactions) + 1
             key    == IdemKey(s)
             row    == TransactionRow(Req[s], ref[s], status, today)
             record == [fingerprint |-> Fingerprint(Req[s]), transaction |-> n, answer |-> a]
  <2>2. /\ transactions \in Seq(TransactionRows) /\ idem \in [UsedKeys -> IdemRecords]
        /\ n \in Nat /\ n # 0 /\ n \notin DOMAIN transactions
    BY DEF IInv, TypeOK, TablesOK
  <2>3. /\ DOMAIN transactions' = DOMAIN transactions \cup {n}
        /\ \A i \in DOMAIN transactions : transactions'[i] = transactions[i]
        /\ transactions'[n] = row
    BY <2>1, <2>2
  <2>4. RecordFits(key, record, transactions') /\ record # NoRecord /\ record.transaction = n
    BY <2>1, <2>2, <2>3 DEF RecordFits, TransactionRow, IdemKey, KeyOf, NoRecord
  <2>5. /\ idem'[key] = record
        /\ \A k \in UsedKeys \ {key} : idem'[k] = idem[k]
    BY <2>1, <2>2
  <2> HIDE DEF n, row, record, key
  <2>6. ASSUME NEW k \in UsedKeys, Stored(k)'
        PROVE  RecordFits(k, idem'[k], transactions')
    BY <2>3, <2>4, <2>5, <2>6 DEF ExactlyOnce, RecordFits, Stored
  <2>7. \A k \in UsedKeys \ {key} : Stored(k)' => Stored(k) /\ idem'[k].transaction \in DOMAIN transactions
    BY <2>5 DEF ExactlyOnce, Stored
  <2>8. ASSUME NEW j \in UsedKeys, NEW k \in UsedKeys, Stored(j)', Stored(k)',
               idem'[j].transaction = idem'[k].transaction
        PROVE  j = k
    <3>1. (j = key) <=> (k = key)
      BY <2>2, <2>4, <2>5, <2>7, <2>8
    <3> QED
      BY <2>5, <2>7, <2>8, <3>1 DEF ExactlyOnce
  <2>9. ASSUME NEW i \in DOMAIN transactions'
        PROVE  \E k \in UsedKeys : Stored(k)' /\ idem'[k].transaction = i
    <3>1. CASE i = n
      BY <2>1, <2>4, <2>5, <3>1 DEF Stored, key
    <3>2. CASE i # n
      <4>1. PICK k \in UsedKeys : Stored(k) /\ idem[k].transaction = i
        BY <2>3, <3>2 DEF ExactlyOnce
      <4>2. k # key
        BY <2>1, <4>1 DEF key
      <4> QED
        BY <2>5, <4>1, <4>2 DEF Stored
    <3> QED
      BY <3>1, <3>2
  <2> QED
    BY <2>6, <2>8, <2>9 DEF ExactlyOnce, RecordFits
<1>2. CASE UNCHANGED <<transactions, idem, sequence>>
  BY <1>2 DEF ExactlyOnce, Stored
<1> QED
  BY <1>1, <1>2, OnlyCommitsFile

\* Every transaction belongs to one key and every key to one transaction, by
\* whatever retries, duplicates and crashes it came about.
THEOREM OnceHolds == Spec => []ExactlyOnce
<1>1. Init => ExactlyOnce
  BY DEF Init, TablesInit, ExactlyOnce, Stored
<1> QED
  BY InitInvariant, InductiveInvariant, <1>1, OnceStep, PTL DEF Spec

-----------------------------------------------------------------------------
(* Receipts.                                                                *)

\* An answer without an error code is the stored answer to this very request.
AnswersAreOnRecord ==
    \A r \in Requests :
        answer[r].code = Accepted =>
            /\ idem[IdemKey(r)].answer = answer[r]
            /\ idem[IdemKey(r)].fingerprint = Fingerprint(Req[r])

\* A record of success names a completed transaction of a request with its key
\* and its payload.
RecordsTellWork ==
    \A k \in UsedKeys :
        Stored(k) /\ idem[k].answer.code = Accepted =>
            \E r \in Requests :
                /\ IdemKey(r) = k
                /\ Fingerprint(Req[r]) = idem[k].fingerprint
                /\ LET t == transactions[idem[k].transaction]
                   IN  t = TransactionRow(Req[r], idem[k].answer.reference, "COMPLETED", t.created)

\* Having been told nothing is not success.
LEMMA NothingIsNoSuccess == NoAnswer.code # Accepted /\ NoRecord.answer.code # Accepted
<1>1. NoCode # Accepted
  BY DEF NoCode, Accepted
<1> QED
  BY <1>1 DEF NoRecord, NoAnswer, ErrorAnswer

\* Requests with one key and one payload ask for the same transaction.
LEMMA SamePayloadSameWork ==
    ASSUME NEW r \in Requests, NEW s \in Requests, IdemKey(r) = IdemKey(s),
           Fingerprint(Req[r]) = Fingerprint(Req[s]), NEW reference, NEW status, NEW day
    PROVE  TransactionRow(Req[r], reference, status, day) = TransactionRow(Req[s], reference, status, day)
<1>1. /\ Req[r].op = Req[s].op /\ Req[r].actor = Req[s].actor
      /\ Req[r].wallet = Req[s].wallet /\ Req[r].peer = Req[s].peer
      /\ Req[r].amount = Req[s].amount
  BY DEF IdemKey, KeyOf, Fingerprint
<1>2. \A w : Delta(Req[r], w) = Delta(Req[s], w)
  BY <1>1 DEF Delta
<1> QED
  BY <1>1, <1>2 DEF TransactionRow, SourceOf, DestinationOf

\* A request is told of success only by its own commit or by the stored answer
\* to its payload.
LEMMA SuccessHasTwoSources ==
    ASSUME IInv, [Next]_vars, NEW r \in Requests, answer'[r].code = Accepted
    PROVE  \/ answer'[r] = answer[r]
           \/ CommitMoney(r)
           \/ /\ answer'[r] = idem[IdemKey(r)].answer
              /\ idem[IdemKey(r)].fingerprint = Fingerprint(Req[r])
              /\ UNCHANGED tables
<1>1. TypeOK /\ Cleared(r)
  BY DEF IInv, HandlersAreCleared
<1>2. ASSUME NEW s \in Requests, s # r, Handle(s) \/ DeadlockVictim(s) \/ Fault(s) \/ Crash(s)
      PROVE  answer'[r] = answer[r]
  BY <1>1, <1>2 DEF Handle, Claim, Execute, Begin, RefuseEarly, InsertKey, MeetInsert,
     ShareKey, Replay, RefuseReusedKey, SkipAudit, LockWallet, Reject, Accept, Overflow, Collide,
     StampReference, TakeReference, LockParent, CommitMoney, CommitFailure, Reply,
     DeadlockVictim, Fault, Crash, Refuse, Abort, Answer, TypeOK, locals
<1>3. ASSUME NEW code, Refuse(r, code), code # Accepted PROVE answer'[r] = answer[r]
  BY <1>1, <1>3 DEF Refuse, Answer, ErrorAnswer, TypeOK
<1>4. ASSUME Abort(r) PROVE FALSE
  BY <1>1, <1>4 DEF Abort, Answer, ErrorAnswer, Accepted, TypeOK
<1>5. CASE Claim(r)
  <2>1. CASE Begin(r) \/ InsertKey(r) \/ MeetInsert(r) \/ ShareKey(r)
    BY <2>1 DEF Begin, InsertKey, MeetInsert, ShareKey, locals
  <2>2. CASE RefuseEarly(r)
    BY <1>1, <2>2 DEF RefuseEarly, Answer, ErrorAnswer, TypeOK
  <2>3. CASE Replay(r)
    <3>1. CASE idem[IdemKey(r)].answer.code = Accepted
      BY <1>1, <2>3, <3>1 DEF Replay, Answer, TypeOK
    <3>2. CASE idem[IdemKey(r)].answer.code # Accepted
      BY <1>3, <2>3, <3>2 DEF Replay
    <3> QED
      BY <3>1, <3>2
  <2>4. CASE RefuseReusedKey(r)
    BY <1>3, <2>4 DEF RefuseReusedKey, Accepted
  <2>5. CASE SkipAudit(r)
    BY <1>1, <2>5 DEF SkipAudit, Answer, ErrorAnswer, TypeOK
  <2> QED
    BY <1>5, <2>1, <2>2, <2>3, <2>4, <2>5 DEF Claim
<1>6. CASE Execute(r)
  <2>1. CASE \/ LockWallet(r) \/ Accept(r) \/ StampReference(r) \/ TakeReference(r)
             \/ LockParent(r) \/ Reply(r)
    BY <2>1 DEF LockWallet, Accept, StampReference, TakeReference, LockParent, Reply, locals
  <2>2. CASE Reject(r)
    BY <1>3, <2>2 DEF Reject
  <2>3. CASE Overflow(r) \/ Collide(r)
    BY <1>4, <2>3 DEF Overflow, Collide
  <2>4. CASE CommitFailure(r)
    BY <1>1, <2>4 DEF CommitFailure, Answer, ErrorAnswer, Cleared, TypeOK
  <2> QED
    BY <1>6, <2>1, <2>2, <2>3, <2>4 DEF Execute
<1>7. CASE DeadlockVictim(r) \/ Fault(r) \/ Crash(r)
  BY <1>1, <1>4, <1>7, NothingIsNoSuccess DEF DeadlockVictim, Fault, Crash, TypeOK
<1>8. CASE ~\E s \in Requests : Handle(s) \/ DeadlockVictim(s) \/ Fault(s) \/ Crash(s)
  BY <1>8 DEF Next, FreezeOrUnfreeze, Idle, Finished, vars, locals
<1> QED
  BY <1>2, <1>5, <1>6, <1>7, <1>8 DEF Handle

\* Every step keeps the answers on record.
LEMMA OnRecordStep ==
    IInv /\ AnswersAreOnRecord /\ [Next]_vars => AnswersAreOnRecord'
<1> SUFFICES ASSUME IInv, AnswersAreOnRecord, [Next]_vars, NEW r \in Requests,
                    answer'[r].code = Accepted
             PROVE  /\ idem'[IdemKey(r)].answer = answer'[r]
                    /\ idem'[IdemKey(r)].fingerprint = Fingerprint(Req[r])
  BY DEF AnswersAreOnRecord, IdemKey
<1>1. /\ answer \in [Requests -> Answers] /\ idem \in [UsedKeys -> IdemRecords]
      /\ IdemKey(r) \in UsedKeys
  BY RequestTypes DEF IInv, TypeOK, TablesOK
<1>2. CASE CommitMoney(r)
  BY <1>1, <1>2, CommitsFileAnswer
<1>3. CASE answer'[r] = answer[r] /\ ~CommitMoney(r)
  <2>1. idem[IdemKey(r)].answer = answer[r] /\ idem[IdemKey(r)].fingerprint = Fingerprint(Req[r])
    BY <1>3 DEF AnswersAreOnRecord
  <2>2. Stored(IdemKey(r))
    BY <1>3, <2>1, NothingIsNoSuccess DEF Stored
  <2>3. idem'[IdemKey(r)] = idem[IdemKey(r)]
    <3>1. ASSUME NEW s \in Requests, CommitMoney(s) \/ CommitFailure(s)
          PROVE  idem'[IdemKey(r)] = idem[IdemKey(r)]
      BY <1>1, <2>2, <3>1, CommitsFileAnswer
    <3> QED
      BY <3>1, OnlyCommitsFile
  <2> QED
    BY <1>3, <2>1, <2>3
<1>4. CASE /\ answer'[r] = idem[IdemKey(r)].answer
           /\ idem[IdemKey(r)].fingerprint = Fingerprint(Req[r])
           /\ UNCHANGED tables
  BY <1>4 DEF tables
<1> QED
  BY <1>2, <1>3, <1>4, SuccessHasTwoSources

\* Every step keeps the records true to the transactions they name.
LEMMA WorkStep ==
    IInv /\ ExactlyOnce /\ RecordsTellWork /\ [Next]_vars => RecordsTellWork'
<1> SUFFICES ASSUME IInv, ExactlyOnce, RecordsTellWork, [Next]_vars PROVE RecordsTellWork'
  OBVIOUS
<1>1. ASSUME NEW s \in Requests, CommitMoney(s) \/ CommitFailure(s), NEW k \in UsedKeys,
             Stored(k)', idem'[k].answer.code = Accepted
      PROVE  \E r \in Requests :
                /\ IdemKey(r) = k
                /\ Fingerprint(Req[r]) = idem'[k].fingerprint
                /\ LET t == transactions'[idem'[k].transaction]
                   IN  t = TransactionRow(Req[r], idem'[k].answer.reference, "COMPLETED", t.created)
  <2>1. PICK status \in {"COMPLETED", "FAILED"}, a \in Answers :
              /\ transactions' = Append(transactions, TransactionRow(Req[s], ref[s], status, today))
              /\ idem' = [idem EXCEPT ![IdemKey(s)] =
                             [fingerprint |-> Fingerprint(Req[s]),
                              transaction |-> Len(transactions) + 1, answer |-> a]]
              /\ (status = "COMPLETED") <=> (a.code = Accepted)
              /\ a.code = Accepted => a.reference = ref[s]
    BY <1>1, CommitsFileAnswer
  <2> DEFINE n   == Len(transactions) + 1
             row == TransactionRow(Req[s], ref[s], status, today)
  <2>2. transactions \in Seq(TransactionRows) /\ idem \in [UsedKeys -> IdemRecords]
    BY DEF IInv, TypeOK, TablesOK
  <2>3. /\ \A i \in DOMAIN transactions : transactions'[i] = transactions[i]
        /\ transactions'[n] = row
    BY <2>1, <2>2
  <2>4. CASE k = IdemKey(s)
    <3>1. /\ idem'[k].fingerprint = Fingerprint(Req[s]) /\ idem'[k].transaction = n
          /\ idem'[k].answer = a
      BY <2>1, <2>2, <2>4
    <3>2. row = TransactionRow(Req[s], a.reference, "COMPLETED", row.created)
      BY <1>1, <2>1, <3>1 DEF TransactionRow
    <3> HIDE DEF row, n
    <3> QED
      BY <2>3, <2>4, <3>1, <3>2
  <2>5. CASE k # IdemKey(s)
    <3>1. idem'[k] = idem[k] /\ Stored(k) /\ idem[k].answer.code = Accepted
      BY <1>1, <2>1, <2>2, <2>5 DEF Stored
    <3>2. idem[k].transaction \in DOMAIN transactions
      BY <3>1 DEF ExactlyOnce
    <3> HIDE DEF row, n
    <3> QED
      BY <2>3, <3>1, <3>2 DEF RecordsTellWork
  <2> QED
    BY <2>4, <2>5
<1>2. CASE UNCHANGED <<transactions, idem, sequence>>
  BY <1>2 DEF RecordsTellWork, Stored, IdemKey
<1> QED
  BY <1>1, <1>2, OnlyCommitsFile DEF RecordsTellWork, IdemKey

\* A client that is told its money moved has a completed transaction, and the
\* stored answer to show for it, that does what it asked for.
THEOREM ReceiptsHold == Spec => []ReceiptsAreDurable
<1>1. Init => ExactlyOnce /\ AnswersAreOnRecord /\ RecordsTellWork
  BY NothingIsNoSuccess
  DEF Init, TablesInit, ExactlyOnce, AnswersAreOnRecord, RecordsTellWork, Stored
<1>2. ASSUME IInv, AnswersAreOnRecord, RecordsTellWork PROVE ReceiptsAreDurable
  <2> SUFFICES ASSUME NEW r \in Requests, answer[r].code = Accepted
               PROVE  LET record == idem[IdemKey(r)]
                          done   == transactions[record.transaction]
                      IN  /\ record.answer = answer[r]
                          /\ done = TransactionRow(Req[r], answer[r].reference, "COMPLETED", done.created)
    BY DEF ReceiptsAreDurable
  <2>1. /\ idem[IdemKey(r)].answer = answer[r]
        /\ idem[IdemKey(r)].fingerprint = Fingerprint(Req[r])
        /\ IdemKey(r) \in UsedKeys
    BY <1>2, RequestTypes DEF AnswersAreOnRecord
  <2>2. Stored(IdemKey(r))
    BY <2>1, NothingIsNoSuccess DEF Stored
  <2>3. PICK s \in Requests :
                /\ IdemKey(s) = IdemKey(r)
                /\ Fingerprint(Req[s]) = Fingerprint(Req[r])
                /\ LET t == transactions[idem[IdemKey(r)].transaction]
                   IN  t = TransactionRow(Req[s], answer[r].reference, "COMPLETED", t.created)
    BY <1>2, <2>1, <2>2 DEF RecordsTellWork
  <2> QED
    BY <2>1, <2>3, SamePayloadSameWork
<1> QED
  BY InitInvariant, InductiveInvariant, <1>1, <1>2, OnceStep, OnRecordStep, WorkStep, PTL DEF Spec

-----------------------------------------------------------------------------
(* References.                                                              *)

\* One more commit on its day, and its place in the order of that day.
LEMMA DayCounts ==
    ASSUME IInv, NEW s \in Requests, CommitMoney(s) \/ CommitFailure(s),
           NEW n, n = Len(transactions) + 1, NEW d, d = ref[s].day
    PROVE  /\ transactions'[n].reference = ref[s]
           /\ DOMAIN transactions' = DOMAIN transactions \cup {n}
           /\ n \in Nat /\ \A i \in DOMAIN transactions : i < n /\ i \in Nat
           /\ \A i \in DOMAIN transactions : transactions'[i] = transactions[i]
           /\ sequence' = [sequence EXCEPT ![d] = @ + 1]
           /\ d \in Days /\ sequence \in [Days -> Nat]
           /\ OfDay(d)' = OfDay(d) \cup {n}
           /\ \A e \in Days \ {d} : OfDay(e)' = OfDay(e)
           /\ \A e \in Days : IsFiniteSet(OfDay(e)) /\ n \notin OfDay(e)
           /\ \A i \in DOMAIN transactions : transactions[i].reference.day \in Days
<1>1. PICK status \in {"COMPLETED", "FAILED"} :
        /\ transactions' = Append(transactions, TransactionRow(Req[s], ref[s], status, today))
        /\ sequence' = [sequence EXCEPT ![ref[s].day] = @ + 1]
        /\ ref[s] \in Refs
  BY CommitsFileAnswer
<1>2. /\ transactions \in Seq(TransactionRows) /\ sequence \in [Days -> Nat] /\ d \in Days
  BY <1>1 DEF IInv, TypeOK, TablesOK, Refs
<1>3. /\ DOMAIN transactions' = DOMAIN transactions \cup {n}
      /\ n \in Nat /\ \A i \in DOMAIN transactions : i < n /\ i \in Nat
      /\ \A i \in DOMAIN transactions : transactions'[i] = transactions[i]
      /\ transactions'[n].reference = ref[s]
  BY <1>1, <1>2 DEF TransactionRow
<1>4. \A i \in DOMAIN transactions : transactions[i].reference.day \in Days
  <2>1. \A i \in DOMAIN transactions : transactions[i] \in TransactionRows
    BY <1>2
  <2> QED
    BY <2>1 DEF TransactionRows, Refs
<1>5. /\ OfDay(d)' = OfDay(d) \cup {n}
      /\ \A e \in Days \ {d} : OfDay(e)' = OfDay(e)
      /\ \A e \in Days : OfDay(e) \in SUBSET DOMAIN transactions /\ n \notin OfDay(e)
  BY <1>3 DEF OfDay
<1>6. \A e \in Days : IsFiniteSet(OfDay(e))
  BY <1>2, <1>5, AmountsAreNatural
<1> QED
  BY <1>1, <1>2, <1>3, <1>4, <1>5, <1>6

\* The new transaction counts all of its day, and older ones count as before.
LEMMA RankOfCommit ==
    ASSUME IInv, NEW s \in Requests, CommitMoney(s) \/ CommitFailure(s),
           NEW n, n = Len(transactions) + 1, NEW d, d = ref[s].day
    PROVE  /\ Rank(n)' = Cardinality(OfDay(d)) + 1
           /\ \A i \in DOMAIN transactions : Rank(i)' = Rank(i)
<1>1. /\ transactions'[n].reference = ref[s] /\ d \in Days
      /\ n \in Nat /\ \A i \in DOMAIN transactions : i < n /\ i \in Nat
      /\ \A i \in DOMAIN transactions : transactions'[i] = transactions[i]
      /\ OfDay(d)' = OfDay(d) \cup {n}
      /\ \A e \in Days \ {d} : OfDay(e)' = OfDay(e)
      /\ \A e \in Days : IsFiniteSet(OfDay(e)) /\ n \notin OfDay(e)
      /\ \A i \in DOMAIN transactions : transactions[i].reference.day \in Days
  BY DayCounts
<1>2. \A e : OfDay(e) \subseteq DOMAIN transactions
  BY DEF OfDay
<1>3. {j \in OfDay(d)' : j <= n} = OfDay(d) \cup {n}
  BY <1>1, <1>2
<1>4. Rank(n)' = Cardinality(OfDay(d) \cup {n})
  <2>1. transactions'[n].reference.day = d
    BY <1>1
  <2> QED
    BY <1>3, <2>1 DEF Rank, OfDay
<1>5. Cardinality(OfDay(d) \cup {n}) = Cardinality(OfDay(d)) + 1
  BY <1>1, FS_AddElement
<1>6. ASSUME NEW i \in DOMAIN transactions, NEW e, e = transactions[i].reference.day
      PROVE  Rank(i)' = Rank(i)
  <2>1. e \in Days /\ i \in Nat /\ i < n /\ transactions'[i].reference.day = e
    BY <1>1, <1>6
  <2>2. OfDay(e)' = OfDay(e) \/ OfDay(e)' = OfDay(e) \cup {n}
    BY <1>1, <2>1
  <2>3. {j \in OfDay(e)' : j <= i} = {j \in OfDay(e) : j <= i}
    BY <1>1, <2>1, <2>2
  <2> QED
    BY <1>6, <2>1, <2>3 DEF Rank, OfDay
<1> QED
  BY <1>4, <1>5, <1>6

\* Every step keeps references unique and the counters in agreement with them.
LEMMA ReferenceStep ==
    IInv /\ ReferencesCountCommits /\ [Next]_vars => ReferencesCountCommits'
<1> SUFFICES ASSUME IInv, ReferencesCountCommits, [Next]_vars PROVE ReferencesCountCommits'
  OBVIOUS
<1>1. ASSUME NEW s \in Requests, CommitMoney(s) \/ CommitFailure(s),
             NEW n, n = Len(transactions) + 1, NEW d, d = ref[s].day
      PROVE  ReferencesCountCommits'
  <2>1. /\ transactions'[n].reference = ref[s] /\ d \in Days /\ sequence \in [Days -> Nat]
        /\ DOMAIN transactions' = DOMAIN transactions \cup {n}
        /\ \A i \in DOMAIN transactions : transactions'[i] = transactions[i]
        /\ sequence' = [sequence EXCEPT ![d] = @ + 1]
        /\ OfDay(d)' = OfDay(d) \cup {n}
        /\ \A e \in Days \ {d} : OfDay(e)' = OfDay(e)
        /\ \A e \in Days : IsFiniteSet(OfDay(e)) /\ n \notin OfDay(e)
    BY <1>1, DayCounts
  <2>2. /\ Rank(n)' = Cardinality(OfDay(d)) + 1
        /\ \A i \in DOMAIN transactions : Rank(i)' = Rank(i)
    BY <1>1, RankOfCommit
  <2>3. sequence[d] = 0 \/ ref[s].n = sequence[d] + 1
    BY <1>1 DEF CommitMoney, CommitFailure, IInv, HandlersAreIsolated, Isolated
  <2>4. \A i \in DOMAIN transactions : transactions[i].reference # ref[s]
    BY <1>1 DEF CommitMoney, CommitFailure, Collides
  <2>5. \A e \in Days : Cardinality(OfDay(e)) = sequence[e] /\ sequence[e] \in Nat
    BY <2>1 DEF ReferencesCountCommits
  <2>6. Cardinality(OfDay(d) \cup {n}) = Cardinality(OfDay(d)) + 1
    BY <2>1, FS_AddElement
  <2>7. \A e \in Days : Cardinality(OfDay(e)') = sequence'[e]
    <3>1. ASSUME NEW e \in Days \ {d} PROVE Cardinality(OfDay(e)') = sequence'[e]
      BY <2>1, <2>5
    <3>2. Cardinality(OfDay(d)') = sequence'[d]
      BY <2>1, <2>5, <2>6
    <3> QED
      BY <3>1, <3>2
  <2>8. \A i \in DOMAIN transactions' : Rank(i)' > 1 => transactions'[i].reference.n = Rank(i)'
    <3>1. ASSUME NEW i \in DOMAIN transactions, Rank(i)' > 1
          PROVE  transactions'[i].reference.n = Rank(i)'
      BY <2>1, <2>2, <3>1 DEF ReferencesCountCommits
    <3>2. Rank(n)' > 1 => transactions'[n].reference.n = Rank(n)'
      BY <2>1, <2>2, <2>3, <2>5
    <3> QED
      BY <2>1, <3>1, <3>2
  <2>9. \A i, j \in DOMAIN transactions' :
           transactions'[i].reference = transactions'[j].reference => i = j
    BY <2>1, <2>4 DEF ReferencesCountCommits
  <2> QED
    BY <2>7, <2>8, <2>9 DEF ReferencesCountCommits
<1>2. CASE UNCHANGED <<transactions, idem, sequence>>
  BY <1>2 DEF ReferencesCountCommits, Rank, OfDay
<1> QED
  BY <1>1, <1>2, OnlyCommitsFile

\* No two transactions share a reference, and within a day references number
\* the commits without gaps from the second on.
THEOREM ReferencesHold == Spec => []ReferencesCountCommits
<1>1. ASSUME Init PROVE ReferencesCountCommits
  <2>1. transactions = <<>> /\ sequence = [d \in Days |-> 0]
    BY <1>1 DEF Init, TablesInit
  <2>2. \A d \in Days : OfDay(d) = {}
    BY <2>1 DEF OfDay
  <2> QED
    BY <2>1, <2>2, FS_EmptySet DEF ReferencesCountCommits
<1> QED
  BY InitInvariant, InductiveInvariant, <1>1, ReferenceStep, PTL DEF Spec

-----------------------------------------------------------------------------
(* Legs.                                                                    *)

Legs(i) == {[wallet |-> l[1], direction |-> ledger[l[1]][l[2]].direction,
             amount |-> ledger[l[1]][l[2]].amount] : l \in LegsOf(i)}
Leg(w, direction, amount) ==
    IF w = NoWallet THEN {} ELSE {[wallet |-> w, direction |-> direction, amount |-> amount]}
Due(t) == IF t.status = "FAILED" THEN {}
          ELSE Leg(t.source, "DEBIT", t.amount) \cup Leg(t.destination, "CREDIT", t.amount)
Balanced(i) == Legs(i) = Due(transactions[i])
               /\ Cardinality(LegsOf(i)) = Cardinality(Due(transactions[i]))

\* Ledger rows belong to transactions, and a wallet has no more of them than
\* there are transactions.
LegsBelong ==
    \A w \in Wallets : /\ Len(ledger[w]) <= Len(transactions)
                       /\ \A j \in DOMAIN ledger[w] :
                             ledger[w][j].transaction \in DOMAIN transactions

\* The invariant transaction by transaction.
LEMMA LegsByTransaction == LegsMatchTransactions <=> \A i \in DOMAIN transactions : Balanced(i)
BY DEF LegsMatchTransactions, Balanced, Legs, Leg, Due

\* What a commit does to transactions and ledger: one row, and for a completed
\* one a leg on each of its wallets, from the balance the wallet has.
LEMMA CommitsWriteLegs ==
    ASSUME IInv, NEW s \in Requests, CommitMoney(s) \/ CommitFailure(s),
           NEW n, n = Len(transactions) + 1
    PROVE  \E status \in {"COMPLETED", "FAILED"} :
              LET legs == IF status = "FAILED" THEN {} ELSE Touched(Req[s])
              IN  /\ transactions' = Append(transactions, TransactionRow(Req[s], ref[s], status, today))
                  /\ TransactionRow(Req[s], ref[s], status, today) \in TransactionRows
                  /\ CommitMoney(s) <=> status = "COMPLETED"
                  /\ ledger \in [Wallets -> Seq(LedgerRows)]
                  /\ ledger' = [w \in Wallets |->
                                  IF w \in legs
                                  THEN Append(ledger[w], LedgerRow(Req[s], w, n, wallet[w].balance))
                                  ELSE ledger[w]]
                  /\ \A w \in legs : LedgerRow(Req[s], w, n, wallet[w].balance) \in LedgerRows
<1>1. /\ ledger \in [Wallets -> Seq(LedgerRows)] /\ wallet \in [Wallets -> WalletRow] /\ n \in Nat
      /\ EarlyError(Req[s]) = Accepted
  BY DEF IInv, TypeOK, TablesOK, HandlersAreCleared, Cleared, InTransaction, CommitMoney,
     CommitFailure
<1>2. \A status \in {"COMPLETED", "FAILED"} :
         TransactionRow(Req[s], ref[s], status, today) \in TransactionRows
  BY <1>1, RowTypes DEF IInv
<1>3. CASE CommitMoney(s)
  <2>1. \A w \in Touched(Req[s]) : /\ w \in Wallets /\ seen[s][w] = wallet[w]
                                   /\ wallet[w].balance \in 0..MaxBalance
                                   /\ wallet[w].balance + Delta(Req[s], w) \in 0..MaxBalance
    BY <1>1, <1>3, CommitFromCurrentRows DEF IInv, HandlersAreCleared, Cleared, CommitMoney, WalletRow
  <2>2. \A w \in Touched(Req[s]) : LedgerRow(Req[s], w, n, wallet[w].balance) \in LedgerRows
    BY <1>1, <2>1, RowTypes DEF IInv
  <2>3. ledger' = [w \in Wallets |->
                     IF w \in Touched(Req[s])
                     THEN Append(ledger[w], LedgerRow(Req[s], w, n, wallet[w].balance))
                     ELSE ledger[w]]
    BY <1>3, <2>1 DEF CommitMoney, PostMoney
  <2>4. transactions' = Append(transactions, TransactionRow(Req[s], ref[s], "COMPLETED", today))
    BY <1>3 DEF CommitMoney, PostMoney
  <2> QED
    BY <1>1, <1>2, <1>3, <2>2, <2>3, <2>4
<1>4. CASE CommitFailure(s)
  <2>1. /\ ~CommitMoney(s) /\ ledger' = ledger
        /\ transactions' = Append(transactions, TransactionRow(Req[s], ref[s], "FAILED", today))
    BY <1>4 DEF CommitMoney, CommitFailure, PostFailure
  <2>2. ledger' = [w \in Wallets |->
                     IF w \in {} THEN Append(ledger[w], LedgerRow(Req[s], w, n, wallet[w].balance))
                     ELSE ledger[w]]
    BY <1>1, <2>1
  <2> QED
    BY <1>1, <1>2, <2>1, <2>2
<1> QED
  BY <1>3, <1>4

\* A freeze and every other step that commits nothing leaves them alone.
LEMMA OnlyCommitsPost ==
    ASSUME [Next]_vars
    PROVE  \/ \E s \in Requests : CommitMoney(s) \/ CommitFailure(s)
           \/ UNCHANGED <<transactions, ledger>>
BY OnlyCommitsWrite DEF tables, FreezeOrUnfreeze, SetFrozen

\* A one-to-one image has as many elements.
LEMMA ImageCounts ==
    ASSUME NEW S, IsFiniteSet(S), NEW f, DOMAIN f = S,
           \A x, y \in S : f[x] = f[y] => x = y, f = [x \in S |-> f[x]]
    PROVE  Cardinality({f[x] : x \in S}) = Cardinality(S)
<1> DEFINE T == {f[x] : x \in S}
<1>1. f \in Surjection(S, T) /\ f \in Injection(S, T)
  BY DEF Surjection, Injection, IsInjective
<1> HIDE DEF T
<1>2. Cardinality(T) = Cardinality(S)
  BY <1>1, FS_Surjection
<1> QED
  BY <1>2 DEF T

\* The leg a request owes each of its wallets.
DueLeg(q) == [w \in Touched(q) |-> [wallet |-> w, direction |-> IF Delta(q, w) < 0 THEN "DEBIT" ELSE "CREDIT",
                                    amount |-> Abs(q.amount)]]

\* A completed request that passed its checks owes one leg to each of its
\* wallets: a debit of its source and a credit of its destination.
LEMMA LegsOfRequest ==
    ASSUME NEW r \in Requests, EarlyError(Req[r]) = Accepted,
           {Req[r].wallet, Req[r].peer} \subseteq Wallets,
           ~(Req[r].op = "TRANSFER" /\ Req[r].wallet = Req[r].peer),
           NEW reference, NEW day
    PROVE  /\ Due(TransactionRow(Req[r], reference, "COMPLETED", day))
                = {DueLeg(Req[r])[w] : w \in Touched(Req[r])}
           /\ Cardinality(Due(TransactionRow(Req[r], reference, "COMPLETED", day)))
                = Cardinality(Touched(Req[r]))
<1> DEFINE q == Req[r]
<1>1. /\ q.amount \in Int /\ q.amount # 0 /\ q.op \in Ops
      /\ q.op \in Audited => q.amount > 0
      /\ q.op # "TRANSFER" => q.peer = q.wallet
      /\ NoWallet \notin Wallets
  BY RulesAssumption DEF Request, EarlyError, Accepted, NoWallet, Audited
<1>2. Touched(q) = {q.wallet, q.peer}
  BY DEF Touched
<1>3. Due(TransactionRow(q, reference, "COMPLETED", day))
        = Leg(SourceOf(q), "DEBIT", Abs(q.amount)) \cup Leg(DestinationOf(q), "CREDIT", Abs(q.amount))
  BY DEF Due, TransactionRow
<1> DEFINE paid == Due(TransactionRow(q, reference, "COMPLETED", day)) = {DueLeg(q)[w] : w \in Touched(q)}
<1>4. ASSUME q.op = "TRANSFER" PROVE paid
  <2>1. /\ Delta(q, q.wallet) = -q.amount /\ Delta(q, q.peer) = q.amount
        /\ q.amount > 0 /\ q.wallet # q.peer
    BY <1>1, <1>4 DEF Delta, Audited
  <2>2. SourceOf(q) = q.wallet /\ DestinationOf(q) = q.peer
    BY <1>1, <1>4, <2>1 DEF SourceOf, DestinationOf
  <2>3. /\ Leg(q.wallet, "DEBIT", Abs(q.amount)) = {DueLeg(q)[q.wallet]}
        /\ Leg(q.peer, "CREDIT", Abs(q.amount)) = {DueLeg(q)[q.peer]}
    BY <1>1, <1>2, <2>1 DEF Leg, DueLeg
  <2> QED
    BY <1>2, <1>3, <2>2, <2>3
<1>5. ASSUME q.op # "TRANSFER" PROVE paid
  <2>1. q.peer = q.wallet /\ Touched(q) = {q.wallet} /\ Delta(q, q.wallet) \in Int /\ Delta(q, q.wallet) # 0
    BY <1>1, <1>2, <1>5 DEF Delta
  <2>2. CASE Delta(q, q.wallet) < 0
    <3>1. SourceOf(q) = q.wallet /\ DestinationOf(q) = NoWallet
      BY <1>5, <2>1, <2>2 DEF SourceOf, DestinationOf
    <3>2. Leg(q.wallet, "DEBIT", Abs(q.amount)) = {DueLeg(q)[q.wallet]} /\ Leg(NoWallet, "CREDIT", Abs(q.amount)) = {}
      BY <1>1, <2>1, <2>2 DEF Leg, DueLeg
    <3> QED
      BY <1>3, <2>1, <3>1, <3>2
  <2>3. CASE Delta(q, q.wallet) > 0
    <3>1. SourceOf(q) = NoWallet /\ DestinationOf(q) = q.wallet
      BY <1>5, <2>1, <2>3 DEF SourceOf, DestinationOf
    <3>2. Leg(q.wallet, "CREDIT", Abs(q.amount)) = {DueLeg(q)[q.wallet]} /\ Leg(NoWallet, "DEBIT", Abs(q.amount)) = {}
      BY <1>1, <2>1, <2>3 DEF Leg, DueLeg
    <3> QED
      BY <1>3, <2>1, <3>1, <3>2
  <2> QED
    BY <2>1, <2>2, <2>3
<1>6. paid
  BY <1>4, <1>5
<1>7. IsFiniteSet(Touched(q))
  <2>1. IsFiniteSet({q.wallet})
    BY FS_Singleton
  <2>2. IsFiniteSet({q.wallet} \cup {q.peer})
    BY <2>1, FS_AddElement
  <2> QED
    BY <1>2, <2>2
<1>8. Cardinality({DueLeg(q)[w] : w \in Touched(q)}) = Cardinality(Touched(q))
  BY <1>7, ImageCounts DEF DueLeg
<1> QED
  BY <1>6, <1>8

\* A commit adds legs of its own transaction to the end of some ledgers.
LEMMA LegsOfCommit ==
    ASSUME IInv, LegsBelong, NEW s \in Requests, CommitMoney(s) \/ CommitFailure(s),
           NEW n, n = Len(transactions) + 1
    PROVE  LET legs == IF CommitMoney(s) THEN Touched(Req[s]) ELSE {}
           IN  /\ LegsBelong'
               /\ n \in Nat /\ n \notin DOMAIN transactions
               /\ DOMAIN transactions' = DOMAIN transactions \cup {n}
               /\ \A i \in DOMAIN transactions :
                     /\ transactions'[i] = transactions[i]
                     /\ LegsOf(i)' = LegsOf(i) /\ Legs(i)' = Legs(i)
               /\ LegsOf(n)' = {<<w, Len(ledger[w]) + 1>> : w \in legs}
               /\ Legs(n)' = {DueLeg(Req[s])[w] : w \in legs}
<1> DEFINE q == Req[s]
           legs == IF CommitMoney(s) THEN Touched(q) ELSE {}
           m(w) == Len(ledger[w]) + 1
<1>1. PICK status \in {"COMPLETED", "FAILED"} :
        LET due == IF status = "FAILED" THEN {} ELSE Touched(q)
        IN  /\ transactions' = Append(transactions, TransactionRow(q, ref[s], status, today))
            /\ TransactionRow(q, ref[s], status, today) \in TransactionRows
            /\ CommitMoney(s) <=> status = "COMPLETED"
            /\ ledger \in [Wallets -> Seq(LedgerRows)]
            /\ ledger' = [w \in Wallets |->
                            IF w \in due THEN Append(ledger[w], LedgerRow(q, w, n, wallet[w].balance))
                            ELSE ledger[w]]
            /\ \A w \in due : LedgerRow(q, w, n, wallet[w].balance) \in LedgerRows
  BY CommitsWriteLegs
<1>2. /\ transactions \in Seq(TransactionRows) /\ legs \subseteq Wallets
      /\ ledger \in [Wallets -> Seq(LedgerRows)]
      /\ ledger' = [w \in Wallets |->
                      IF w \in legs THEN Append(ledger[w], LedgerRow(q, w, n, wallet[w].balance))
                      ELSE ledger[w]]
      /\ \A w \in legs : LedgerRow(q, w, n, wallet[w].balance) \in LedgerRows
  BY <1>1, RequestTypes DEF IInv, TypeOK, TablesOK
<1> HIDE DEF legs, q
<1>3. /\ n \in Nat /\ n \notin DOMAIN transactions /\ Len(transactions') = n
      /\ DOMAIN transactions' = DOMAIN transactions \cup {n} /\ DOMAIN transactions = 1..(n - 1)
      /\ \A i \in DOMAIN transactions : transactions'[i] = transactions[i]
  BY <1>1, <1>2
<1>4. ASSUME NEW w \in Wallets
      PROVE  /\ DOMAIN ledger'[w] = IF w \in legs THEN DOMAIN ledger[w] \cup {m(w)} ELSE DOMAIN ledger[w]
             /\ Len(ledger'[w]) = IF w \in legs THEN m(w) ELSE Len(ledger[w])
             /\ DOMAIN ledger[w] = 1..Len(ledger[w]) /\ Len(ledger[w]) \in Nat
             /\ \A j \in DOMAIN ledger[w] : ledger'[w][j] = ledger[w][j]
             /\ w \in legs => ledger'[w][m(w)] = LedgerRow(q, w, n, wallet[w].balance)
  <2>1. ledger[w] \in Seq(LedgerRows)
    BY <1>2
  <2>2. CASE w \notin legs
    <3>1. ledger'[w] = ledger[w]
      BY <1>2, <2>2
    <3> QED
      BY <2>1, <2>2, <3>1
  <2>3. CASE w \in legs
    <3> DEFINE row == LedgerRow(q, w, n, wallet[w].balance)
    <3>1. ledger'[w] = Append(ledger[w], row) /\ row \in LedgerRows
      BY <1>2, <2>3
    <3> HIDE DEF row
    <3>2. /\ DOMAIN ledger'[w] = DOMAIN ledger[w] \cup {m(w)} /\ Len(ledger'[w]) = m(w)
          /\ DOMAIN ledger[w] = 1..Len(ledger[w]) /\ Len(ledger[w]) \in Nat
          /\ \A j \in DOMAIN ledger[w] : ledger'[w][j] = ledger[w][j]
          /\ ledger'[w][m(w)] = row
      BY <2>1, <3>1
    <3> QED
      BY <2>3, <3>2 DEF row
  <2> QED
    BY <2>2, <2>3
<1> DEFINE row(w) == LedgerRow(q, w, n, wallet[w].balance)
<1>5. \A w \in Wallets : /\ Len(ledger[w]) < n
                         /\ \A j \in DOMAIN ledger[w] : ledger[w][j].transaction \in DOMAIN transactions
  BY <1>2, <1>3 DEF LegsBelong
<1>6. \A w \in Wallets : /\ row(w).transaction = n
                         /\ w \in legs => ledger'[w][m(w)] = row(w)
                         /\ m(w) = Len(ledger[w]) + 1
  BY <1>4 DEF LedgerRow
<1>15. ASSUME NEW w \in Wallets
       PROVE  /\ Len(ledger'[w]) \in {Len(ledger[w]), Len(ledger[w]) + 1} /\ Len(ledger[w]) \in Nat
              /\ \A j : j \in DOMAIN ledger'[w] => j \in DOMAIN ledger[w] \/ (w \in legs /\ j = m(w))
              /\ w \in legs => m(w) \in DOMAIN ledger'[w]
              /\ \A j \in DOMAIN ledger[w] : /\ j \in DOMAIN ledger'[w] /\ j \in Nat
                                             /\ 1 <= j /\ j < m(w) /\ j < n
                                             /\ ledger'[w][j] = ledger[w][j]
                                             /\ ledger[w][j].transaction \in DOMAIN transactions
  <2>1. DOMAIN ledger[w] = 1..Len(ledger[w]) /\ Len(ledger[w]) \in Nat
    BY <1>4
  <2>2. \A j \in DOMAIN ledger[w] : j \in Nat /\ 1 <= j /\ j < m(w) /\ j < n
    BY <1>3, <1>5, <2>1
  <2>3. CASE w \in legs
    BY <1>4, <1>5, <2>1, <2>2, <2>3
  <2>4. CASE w \notin legs
    BY <1>4, <1>5, <2>1, <2>2, <2>4
  <2> QED
    BY <2>3, <2>4
<1> HIDE DEF m, row
<1>7. LegsBelong'
  <2>1. ASSUME NEW w \in Wallets PROVE Len(ledger'[w]) <= Len(transactions')
    <3>1. Len(ledger[w]) < n /\ Len(ledger[w]) \in Nat
      BY <1>5, <1>15
    <3> QED
      BY <1>3, <1>15, <3>1
  <2>2. ASSUME NEW w \in Wallets, NEW j \in DOMAIN ledger'[w]
        PROVE  ledger'[w][j].transaction \in DOMAIN transactions'
    <3>1. CASE j \in DOMAIN ledger[w]
      BY <1>3, <1>15, <3>1
    <3>2. CASE j \notin DOMAIN ledger[w]
      <4>1. w \in legs /\ j = m(w)
        BY <1>15, <3>2
      <4> QED
        BY <1>3, <1>6, <4>1
    <3> QED
      BY <3>1, <3>2
  <2> QED
    BY <2>1, <2>2 DEF LegsBelong
<1>8. \A i : LegsOf(i)' = {l \in Wallets \X (1..n) : /\ l[2] \in DOMAIN ledger'[l[1]]
                                                      /\ ledger'[l[1]][l[2]].transaction = i}
  BY <1>3 DEF LegsOf
<1>9. \A i : LegsOf(i) = {l \in Wallets \X (1..(n - 1)) : /\ l[2] \in DOMAIN ledger[l[1]]
                                                           /\ ledger[l[1]][l[2]].transaction = i}
  BY <1>2, <1>3 DEF LegsOf
<1>10. \A i \in DOMAIN transactions : LegsOf(i)' = LegsOf(i)
  <2>1. ASSUME NEW i \in DOMAIN transactions, NEW w \in Wallets, NEW j \in 1..n
        PROVE  (j \in DOMAIN ledger'[w] /\ ledger'[w][j].transaction = i)
                  <=> (j \in 1..(n - 1) /\ j \in DOMAIN ledger[w] /\ ledger[w][j].transaction = i)
    <3>1. j \in DOMAIN ledger[w] => j \in 1..(n - 1) /\ j \in DOMAIN ledger'[w]
      BY <1>3, <1>15
    <3>2. j \in DOMAIN ledger'[w] /\ j \notin DOMAIN ledger[w] => ledger'[w][j].transaction = n
      BY <1>6, <1>15
    <3>3. i # n
      BY <1>3
    <3> QED
      BY <1>15, <3>1, <3>2, <3>3
  <2>2. 1..(n - 1) \subseteq 1..n
    BY <1>3
  <2>3. ASSUME NEW i \in DOMAIN transactions PROVE LegsOf(i)' \subseteq LegsOf(i)
    BY <1>8, <1>9, <2>1
  <2>4. ASSUME NEW i \in DOMAIN transactions PROVE LegsOf(i) \subseteq LegsOf(i)'
    BY <1>8, <1>9, <2>1, <2>2
  <2> QED
    BY <2>3, <2>4
<1>11. LegsOf(n)' = {<<w, m(w)>> : w \in legs}
  <2>1. ASSUME NEW w \in Wallets, NEW j \in 1..n
        PROVE  (j \in DOMAIN ledger'[w] /\ ledger'[w][j].transaction = n) <=> (w \in legs /\ j = m(w))
    <3>1. CASE j \in DOMAIN ledger[w]
      <4>1. ledger'[w][j].transaction # n /\ j # m(w)
        <5>1. ledger'[w][j].transaction \in DOMAIN transactions
          BY <1>15, <3>1
        <5>2. j < m(w) /\ j \in Nat
          BY <1>15, <3>1
        <5> QED
          BY <1>3, <5>1, <5>2
      <4> QED
        BY <4>1
    <3>2. CASE j \notin DOMAIN ledger[w]
      BY <1>6, <1>15, <3>2
    <3> QED
      BY <3>1, <3>2
  <2>2. \A w \in legs : w \in Wallets /\ m(w) \in 1..n
    BY <1>2, <1>3, <1>4, <1>5, <1>6
  <2> QED
    BY <1>8, <2>1, <2>2
<1>12. \A i : Legs(i)' = {[wallet |-> l[1], direction |-> ledger'[l[1]][l[2]].direction,
                           amount |-> ledger'[l[1]][l[2]].amount] : l \in LegsOf(i)'}
  BY DEF Legs
<1>13. \A i \in DOMAIN transactions : Legs(i)' = Legs(i)
  <2>1. \A i \in DOMAIN transactions : \A l \in LegsOf(i) :
           ledger'[l[1]][l[2]] = ledger[l[1]][l[2]]
    BY <1>4, <1>9
  <2> QED
    BY <1>10, <1>12, <2>1 DEF Legs
<1>14. Legs(n)' = {DueLeg(q)[w] : w \in legs}
  <2>1. \A w \in legs : [wallet |-> w, direction |-> ledger'[w][m(w)].direction,
                         amount |-> ledger'[w][m(w)].amount] = DueLeg(q)[w]
    <3>1. \A w \in legs : w \in Touched(q) /\ ledger'[w][m(w)] = row(w)
      BY <1>2, <1>6 DEF legs
    <3>2. \A w \in Touched(q) : /\ row(w).direction = (IF Delta(q, w) < 0 THEN "DEBIT" ELSE "CREDIT")
                                /\ row(w).amount = Abs(q.amount)
      BY DEF LedgerRow, row
    <3>3. \A w \in Touched(q) : DueLeg(q)[w] = [wallet |-> w,
             direction |-> IF Delta(q, w) < 0 THEN "DEBIT" ELSE "CREDIT", amount |-> Abs(q.amount)]
      BY DEF DueLeg
    <3> QED
      BY <3>1, <3>2, <3>3
  <2>2. Legs(n)' = {[wallet |-> w, direction |-> ledger'[w][m(w)].direction,
                     amount |-> ledger'[w][m(w)].amount] : w \in legs}
    <3> DEFINE e(l) == [wallet |-> l[1], direction |-> ledger'[l[1]][l[2]].direction,
                        amount |-> ledger'[l[1]][l[2]].amount]
    <3>1. Legs(n)' = {e(l) : l \in {<<w, m(w)>> : w \in legs}}
      BY <1>11, <1>12
    <3>2. {e(l) : l \in {<<w, m(w)>> : w \in legs}} = {e(<<w, m(w)>>) : w \in legs}
      BY ZenonT(30)
    <3> QED
      BY <3>1, <3>2
  <2> QED
    BY <2>1, <2>2
<1> QED
  BY <1>3, <1>7, <1>10, <1>11, <1>13, <1>14 DEF legs, q, m

\* Every step keeps the legs of every transaction as they are due.
LEMMA LegsStep ==
    ASSUME IInv, DecisionsStand, LegsBelong, LegsMatchTransactions, [Next]_vars
    PROVE  LegsBelong' /\ LegsMatchTransactions'
<1>1. ASSUME NEW s \in Requests, CommitMoney(s) \/ CommitFailure(s), NEW n, n = Len(transactions) + 1
      PROVE  LegsBelong' /\ \A i \in DOMAIN transactions' : Balanced(i)'
  <2> DEFINE q == Req[s]
             legs == IF CommitMoney(s) THEN Touched(q) ELSE {}
  <2>1. /\ LegsBelong' /\ n \notin DOMAIN transactions
        /\ DOMAIN transactions' = DOMAIN transactions \cup {n}
        /\ \A i \in DOMAIN transactions :
              /\ transactions'[i] = transactions[i]
              /\ LegsOf(i)' = LegsOf(i) /\ Legs(i)' = Legs(i)
        /\ LegsOf(n)' = {<<w, Len(ledger[w]) + 1>> : w \in legs}
        /\ Legs(n)' = {DueLeg(q)[w] : w \in legs}
    BY <1>1, LegsOfCommit
  <2>2. PICK status \in {"COMPLETED", "FAILED"} :
          /\ transactions' = Append(transactions, TransactionRow(q, ref[s], status, today))
          /\ TransactionRow(q, ref[s], status, today) \in TransactionRows
          /\ CommitMoney(s) <=> status = "COMPLETED"
    BY <1>1, CommitsWriteLegs
  <2>3. transactions'[n] = TransactionRow(q, ref[s], status, today)
    BY <1>1, <2>2 DEF IInv, TypeOK, TablesOK
  <2>4. \A i \in DOMAIN transactions : Balanced(i)'
    BY <2>1, LegsByTransaction DEF Balanced
  <2>5. IsFiniteSet(Touched(q))
    <3>1. Touched(q) \subseteq {q.wallet} \cup {q.peer} /\ IsFiniteSet({q.wallet})
      BY FS_Singleton DEF Touched
    <3> QED
      BY <3>1, FS_AddElement, FS_Subset
  <2>6. Cardinality(LegsOf(n)') = Cardinality(legs)
    <3> DEFINE f == [w \in legs |-> <<w, Len(ledger[w]) + 1>>]
    <3>1. IsFiniteSet(legs)
      BY <2>5, FS_EmptySet
    <3>2. /\ DOMAIN f = legs /\ f = [x \in legs |-> f[x]]
          /\ \A x, y \in legs : f[x] = f[y] => x = y
          /\ LegsOf(n)' = {f[w] : w \in legs}
      BY <2>1
    <3> HIDE DEF f, legs
    <3> QED
      BY <3>1, <3>2, ImageCounts
  <2>7. Balanced(n)'
    <3>1. CASE CommitMoney(s)
      <4>1. EarlyError(q) = Accepted /\ wallet \in [Wallets -> WalletRow]
        BY <3>1 DEF IInv, TypeOK, TablesOK, HandlersAreCleared, Cleared, InTransaction, CommitMoney
      <4>2. pc[s] = "write" /\ err[s] = Accepted
        BY <3>1 DEF CommitMoney, IInv, HandlersAreCleared, Cleared
      <4>3. /\ {q.wallet, q.peer} \subseteq Wallets
            /\ ~(q.op = "TRANSFER" /\ q.wallet = q.peer)
        BY <4>1, <4>2, AcceptedRequest DEF DecisionsStand, Decided
      <4>4. /\ Due(transactions'[n]) = {DueLeg(q)[w] : w \in Touched(q)}
            /\ Cardinality(Due(transactions'[n])) = Cardinality(Touched(q))
        BY <2>2, <2>3, <3>1, <4>1, <4>3, LegsOfRequest
      <4>5. Legs(n)' = Due(transactions'[n]) /\ Cardinality(LegsOf(n)') = Cardinality(Due(transactions'[n]))
        BY <2>1, <2>6, <3>1, <4>4
      <4> QED
        BY <4>5 DEF Balanced, Due, Leg
    <3>2. CASE ~CommitMoney(s)
      <4>1. Due(transactions'[n]) = {}
        <5>1. transactions'[n].status = "FAILED"
          <6>1. status = "FAILED"
            BY <2>2, <3>2
          <6> QED
            BY <2>3, <6>1 DEF TransactionRow
        <5> QED
          BY <5>1 DEF Due
      <4>3. legs = {}
        BY <3>2
      <4>2. Legs(n)' = Due(transactions'[n]) /\ Cardinality(LegsOf(n)') = Cardinality(Due(transactions'[n]))
        BY <2>1, <2>6, <3>2, <4>1
      <4> QED
        BY <4>2 DEF Balanced, Due, Leg
    <3> QED
      BY <3>1, <3>2
  <2> QED
    BY <2>1, <2>4, <2>7
<1>2. (\A i \in DOMAIN transactions' : Balanced(i)') => LegsMatchTransactions'
  BY DEF LegsMatchTransactions, Balanced, Legs, Leg, Due
<1>3. CASE UNCHANGED <<transactions, ledger>>
  <2>1. \A i : LegsOf(i)' = LegsOf(i)
    BY <1>3 DEF LegsOf
  <2>2. \A i : Legs(i)' = Legs(i)
    BY <1>3, <2>1 DEF Legs
  <2>3. \A i \in DOMAIN transactions' : Balanced(i)'
    BY <1>3, <2>1, <2>2, LegsByTransaction DEF Balanced
  <2> QED
    BY <1>2, <1>3, <2>3 DEF LegsBelong
<1> QED
  BY <1>1, <1>2, <1>3, OnlyCommitsPost

\* Money is moved and never made: every completed transaction has its legs, and
\* a failed one has none.
THEOREM LegsHold == Spec => []LegsMatchTransactions
<1>1. ASSUME Init PROVE LegsBelong /\ LegsMatchTransactions
  BY <1>1 DEF Init, TablesInit, LegsBelong, LegsMatchTransactions
<1> QED
  BY InitInvariant, InductiveInvariant, DecisionsHold, <1>1, LegsStep, PTL DEF Spec

-----------------------------------------------------------------------------
(* Refusals.                                                                *)

\* A request that reads a record finds one; only an audited operation goes on
\* after a refusal, and what it then records is a refusal by the checks, unless
\* its key has been answered.
Refused(r) ==
    /\ pc[r] = "record" => Stored(IdemKey(r))
    /\ err[r] # Accepted => /\ Req[r].op \in Audited
                            /\ Stored(IdemKey(r)) \/ err[r] \in BusinessCodes
RefusalsStand == \A r \in Requests : Refused(r)

\* A step of another request leaves pc and err alone, and answers stay.
LEMMA RefusedKept ==
    ASSUME IInv, [Next]_vars, NEW r \in Requests, Refused(r), pc'[r] = pc[r], err'[r] = err[r]
    PROVE  Refused(r)'
<1>1. IdemKey(r) \in UsedKeys
  BY RequestTypes
<1>2. Stored(IdemKey(r)) => Stored(IdemKey(r))'
  BY <1>1, StoredStays DEF Stored
<1> QED
  BY <1>2 DEF Refused

\* A step of the request itself.
LEMMA RefusedByOwnStep ==
    ASSUME IInv, [Next]_vars, NEW r \in Requests, Refused(r),
           Handle(r) \/ DeadlockVictim(r) \/ Fault(r) \/ Crash(r)
    PROVE  Refused(r)'
<1>1. TypeOK /\ Cleared(r) /\ IdemKey(r) \in UsedKeys
  BY RequestTypes DEF IInv, HandlersAreCleared
<1>2. Stored(IdemKey(r)) => Stored(IdemKey(r))'
  BY <1>1, StoredStays DEF Stored
<1>3. ASSUME NEW code, Refuse(r, code), Stored(IdemKey(r)) \/ code \in BusinessCodes
      PROVE  Refused(r)'
  BY <1>1, <1>2, <1>3 DEF Refuse, Answer, GoTo, Refused, TypeOK
<1>4. ASSUME Abort(r) PROVE Refused(r)'
  BY <1>1, <1>2, <1>4 DEF Abort, Answer, GoTo, Refused, TypeOK
<1>5. CASE Reject(r)
  <2>1. Verdict(r) \in BusinessCodes
    BY <1>5, VerdictIsBusiness DEF Reject, Verdict
  <2> QED
    BY <1>3, <1>5, <2>1 DEF Reject
<1>6. CASE Replay(r) \/ RefuseReusedKey(r)
  <2>1. Stored(IdemKey(r))
    BY <1>6 DEF Replay, RefuseReusedKey, ReadRecord, Refused
  <2>2. CASE \E code : Refuse(r, code)
    BY <1>3, <2>1, <2>2
  <2>3. CASE EndTransaction(r) /\ Answer(r, idem[IdemKey(r)].answer) /\ UNCHANGED err
    BY <1>1, <1>2, <2>3 DEF Answer, GoTo, Refused, TypeOK
  <2> QED
    BY <1>6, <2>2, <2>3 DEF Replay, RefuseReusedKey
<1>7. CASE ShareKey(r)
  <2>1. /\ pc'[r] = (IF Stored(IdemKey(r)) THEN "record" ELSE "insert")
        /\ err'[r] = err[r]
    BY <1>1, <1>7 DEF ShareKey, GoTo, TypeOK, locals
  <2> QED
    BY <1>2, <2>1 DEF Refused
<1>8. CASE Overflow(r) \/ Collide(r) \/ DeadlockVictim(r) \/ Fault(r)
  BY <1>4, <1>8 DEF Overflow, Collide, DeadlockVictim, Fault
<1>9. CASE \/ Begin(r) \/ RefuseEarly(r) \/ InsertKey(r) \/ MeetInsert(r) \/ SkipAudit(r)
           \/ LockWallet(r) \/ Accept(r) \/ StampReference(r) \/ TakeReference(r) \/ CommitMoney(r)
           \/ LockParent(r) \/ CommitFailure(r) \/ Reply(r) \/ Crash(r)
  <2>1. err' = err /\ (pc'[r] = pc[r] \/ pc'[r] # "record")
    BY <1>1, <1>9 DEF Begin, RefuseEarly, InsertKey, MeetInsert, SkipAudit, LockWallet, Accept,
       StampReference, TakeReference, CommitMoney, LockParent, CommitFailure, Reply, Crash, Answer,
       GoTo, TypeOK, locals
  <2> QED
    BY <1>2, <2>1 DEF Refused
<1> QED
  BY <1>5, <1>6, <1>7, <1>8, <1>9 DEF Handle, Claim, Execute

\* Every step keeps what is known of refusals.
LEMMA RefusalStep == IInv /\ RefusalsStand /\ [Next]_vars => RefusalsStand'
<1> SUFFICES ASSUME IInv, RefusalsStand, [Next]_vars, NEW r \in Requests PROVE Refused(r)'
  BY DEF RefusalsStand
<1>1. Refused(r) /\ TypeOK
  BY DEF RefusalsStand, IInv
<1>2. CASE Handle(r) \/ DeadlockVictim(r) \/ Fault(r) \/ Crash(r)
  BY <1>1, <1>2, RefusedByOwnStep
<1>3. ASSUME NEW s \in Requests \ {r}, Handle(s) \/ DeadlockVictim(s) \/ Fault(s) \/ Crash(s)
      PROVE  pc'[r] = pc[r] /\ err'[r] = err[r]
  BY <1>1, <1>3 DEF Handle, Claim, Execute, Begin, RefuseEarly, InsertKey, MeetInsert,
     ShareKey, Replay, RefuseReusedKey, SkipAudit, LockWallet, Reject, Accept, Overflow, Collide,
     StampReference, TakeReference, LockParent, CommitMoney, CommitFailure, Reply,
     DeadlockVictim, Fault, Crash, Refuse, Abort, Answer, GoTo, TypeOK, locals
<1>4. ASSUME ~\E s \in Requests : Handle(s) \/ DeadlockVictim(s) \/ Fault(s) \/ Crash(s)
      PROVE  pc'[r] = pc[r] /\ err'[r] = err[r]
  BY <1>4 DEF Next, FreezeOrUnfreeze, Idle, Finished, vars, locals
<1>5. CASE pc'[r] = pc[r] /\ err'[r] = err[r]
  BY <1>1, <1>5, RefusedKept
<1> QED
  BY <1>2, <1>3, <1>4, <1>5

\* No request has been refused at the start.
LEMMA RefusalsInit == Init => RefusalsStand
BY DEF Init, RefusalsStand, Refused

-----------------------------------------------------------------------------
(* Audits.                                                                  *)

\* The freezes and unfreezes of a wallet, and the status they leave it in.
Moves(w) == {i \in DOMAIN audits : /\ audits[i].wallet = w
                                   /\ audits[i].action \in {"FREEZE", "UNFREEZE"}}
StatusTold(w) ==
    wallet[w].status = IF Moves(w) = {} THEN Opening[w].status
                       ELSE IF audits[Max(Moves(w))].action = "FREEZE" THEN "FROZEN" ELSE "ACTIVE"

\* Audit row a, and no other, tells of transaction i, with the balances of a leg.
Tells(a, i) == /\ audits[a].transaction = i
               /\ \A b \in DOMAIN audits : audits[b].transaction = i => b = a
               /\ \E j \in DOMAIN ledger[audits[a].wallet] :
                     LET leg == ledger[audits[a].wallet][j]
                     IN  /\ leg.transaction = i
                         /\ leg.before = audits[a].before
                         /\ leg.after = audits[a].after

\* No audit row is about a transaction yet to come.
AuditsBelong == \A a \in DOMAIN audits : audits[a].transaction \in 0..Len(transactions)

\* The invariant in these terms.
LEMMA AuditsByParts ==
    AuditsTellAll <=>
        /\ \A w \in Wallets : StatusTold(w)
        /\ \A i \in DOMAIN transactions :
              transactions[i].type = "BALANCE_ADJUSTMENT" => \E a \in DOMAIN audits : Tells(a, i)
BY DEF AuditsTellAll, StatusTold, Moves, Tells

\* The largest element of a set of naturals that is below a new one.
LEMMA MaxOfGrown ==
    ASSUME NEW S \in SUBSET Nat, NEW n \in Nat, \A i \in S : i < n
    PROVE  Max(S \cup {n}) = n
<1>1. n \in S \cup {n} /\ \A y \in S \cup {n} : n >= y
  OBVIOUS
<1>2. \A x \in S \cup {n} : (\A y \in S \cup {n} : x >= y) => x = n
  OBVIOUS
<1> QED
  BY <1>1, <1>2 DEF Max

\* A freeze writes the row that tells of it.
LEMMA AuditOfFreeze ==
    ASSUME IInv, AuditsBelong, AuditsTellAll, NEW w \in Wallets, NEW freeze \in BOOLEAN,
           FreezeOrUnfreeze(w, freeze)
    PROVE  AuditsBelong' /\ AuditsTellAll'
<1> DEFINE n == Len(audits) + 1
           row == AuditRow(w, IF freeze THEN "FREEZE" ELSE "UNFREEZE", 0, 0, 0)
<1>1. /\ wallet \in [Wallets -> WalletRow] /\ transactions \in Seq(TransactionRows)
      /\ audits \in Seq(AuditRows) /\ row \in AuditRows
  BY RulesAssumption DEF IInv, TypeOK, TablesOK, AuditRows, AuditRow
<1>2. /\ audits' = Append(audits, row) /\ UNCHANGED <<transactions, ledger>>
      /\ wallet' = [wallet EXCEPT ![w].status = IF freeze THEN "FROZEN" ELSE "ACTIVE"]
  BY DEF FreezeOrUnfreeze, SetFrozen
<1>3. /\ row.transaction = 0 /\ row.wallet = w
      /\ row.action = (IF freeze THEN "FREEZE" ELSE "UNFREEZE")
  BY DEF AuditRow
<1> HIDE DEF row
<1>4. /\ n \in Nat /\ \A i \in DOMAIN audits : i \in Nat /\ i < n
      /\ DOMAIN audits' = DOMAIN audits \cup {n}
      /\ \A i \in DOMAIN audits : audits'[i] = audits[i]
      /\ audits'[n] = row
  BY <1>1, <1>2
<1> HIDE DEF n
<1>5. AuditsBelong'
  BY <1>1, <1>2, <1>3, <1>4 DEF AuditsBelong
<1>6. \A v : Moves(v)' = {i \in DOMAIN audits' : /\ audits'[i].wallet = v
                                                  /\ audits'[i].action \in {"FREEZE", "UNFREEZE"}}
  BY DEF Moves
<1>7. \A v \in Wallets : StatusTold(v)'
  <2>1. \A v : Moves(v) \in SUBSET Nat /\ \A i \in Moves(v) : i < n
    BY <1>4 DEF Moves
  <2>2. StatusTold(w)'
    <3>1. Moves(w)' = Moves(w) \cup {n}
      BY <1>3, <1>4, <1>6 DEF Moves
    <3>2. Max(Moves(w)') = n
      <4>1. Max(Moves(w) \cup {n}) = n
        BY <1>4, <2>1, MaxOfGrown
      <4> QED
        BY <3>1, <4>1
    <3>3. wallet'[w].status = IF freeze THEN "FROZEN" ELSE "ACTIVE"
      BY <1>1, <1>2
    <3>4. wallet'[w].status = IF Moves(w)' = {} THEN Opening[w].status
                              ELSE IF audits'[Max(Moves(w)')].action = "FREEZE" THEN "FROZEN" ELSE "ACTIVE"
      BY <1>3, <1>4, <3>1, <3>2, <3>3
    <3> QED
      BY <3>4 DEF StatusTold
  <2>3. ASSUME NEW v \in Wallets \ {w} PROVE StatusTold(v)'
    <3>1. Moves(v)' = Moves(v)
      BY <1>3, <1>4, <1>6 DEF Moves
    <3>2. Moves(v) # {} => Max(Moves(v)) \in DOMAIN audits
      <4>1. Moves(v) \in SUBSET DOMAIN audits /\ Moves(v) \in SUBSET Nat
        BY <2>1 DEF Moves
      <4>2. IsFiniteSet(1..Len(audits)) /\ DOMAIN audits = 1..Len(audits)
        BY <1>1, FS_Interval
      <4>3. IsFiniteSet(Moves(v))
        BY <4>1, <4>2, FS_Subset
      <4> QED
        BY <4>1, <4>3, MaxIsIn
    <3>3. wallet'[v].status = wallet[v].status
      BY <1>1, <1>2
    <3>4. StatusTold(v)
      BY AuditsByParts
    <3> QED
      BY <1>4, <3>1, <3>2, <3>3, <3>4 DEF StatusTold
  <2> QED
    BY <2>2, <2>3
<1>8. ASSUME NEW i \in DOMAIN transactions', transactions'[i].type = "BALANCE_ADJUSTMENT"
      PROVE  \E a \in DOMAIN audits' : Tells(a, i)'
  <2>1. i \in DOMAIN transactions /\ transactions[i].type = "BALANCE_ADJUSTMENT" /\ i # 0
    BY <1>1, <1>2, <1>8
  <2>2. PICK a \in DOMAIN audits : Tells(a, i)
    BY <2>1, AuditsByParts
  <2>3. \A b \in DOMAIN audits' : audits'[b].transaction = i => b = a
    BY <1>3, <1>4, <2>1, <2>2 DEF Tells
  <2>4. /\ a \in DOMAIN audits' /\ audits'[a] = audits[a] /\ ledger' = ledger
        /\ audits[a].transaction = i
        /\ \E j \in DOMAIN ledger[audits[a].wallet] :
              LET leg == ledger[audits[a].wallet][j]
              IN  /\ leg.transaction = i
                  /\ leg.before = audits[a].before
                  /\ leg.after = audits[a].after
    BY <1>2, <1>4, <2>2 DEF Tells
  <2>5. Tells(a, i)'
    BY <2>3, <2>4 DEF Tells
  <2> QED
    BY <2>4, <2>5
<1> QED
  BY <1>5, <1>7, <1>8 DEF AuditsTellAll, StatusTold, Moves, Tells

\* A commit leaves the audit table alone, or adds row for its adjustment, with
\* the balances of the leg it adds.
AuditsKept(n) == audits' = audits /\ transactions'[n].type # "BALANCE_ADJUSTMENT"
AuditAdded(row, n) ==
    /\ audits' = Append(audits, row)
    /\ row.action = "BALANCE_ADJUSTMENT" /\ row.transaction = n
    /\ \E j \in DOMAIN ledger'[row.wallet] :
          LET leg == ledger'[row.wallet][j]
          IN  leg.transaction = n /\ leg.before = row.before /\ leg.after = row.after

\* What a commit does to audits, ledger and statuses: an adjustment, and nothing
\* else, adds an audit row, with the balances of the leg it adds.
LEMMA AuditRowOfCommit ==
    ASSUME IInv, RefusalsStand, NEW s \in Requests, CommitMoney(s) \/ CommitFailure(s),
           NEW n, n = Len(transactions) + 1
    PROVE  /\ n \in Nat \ {0} /\ n \notin DOMAIN transactions
           /\ DOMAIN transactions' = DOMAIN transactions \cup {n}
           /\ Len(transactions') = n /\ Len(transactions) \in Nat
           /\ \A i \in DOMAIN transactions : transactions'[i] = transactions[i] /\ i < n /\ i \in Nat
           /\ \A w \in Wallets : wallet'[w].status = wallet[w].status
           /\ \A w \in Wallets : \A j \in DOMAIN ledger[w] :
                 j \in DOMAIN ledger'[w] /\ ledger'[w][j] = ledger[w][j]
           /\ AuditsKept(n) \/ \E row \in AuditRows : AuditAdded(row, n)
<1> DEFINE q == Req[s]
<1>1. PICK status \in {"COMPLETED", "FAILED"} :
        LET due == IF status = "FAILED" THEN {} ELSE Touched(q)
        IN  /\ transactions' = Append(transactions, TransactionRow(q, ref[s], status, today))
            /\ TransactionRow(q, ref[s], status, today) \in TransactionRows
            /\ CommitMoney(s) <=> status = "COMPLETED"
            /\ ledger' = [w \in Wallets |->
                            IF w \in due THEN Append(ledger[w], LedgerRow(q, w, n, wallet[w].balance))
                            ELSE ledger[w]]
            /\ \A w \in due : LedgerRow(q, w, n, wallet[w].balance) \in LedgerRows
  BY CommitsWriteLegs
<1>2. /\ wallet \in [Wallets -> WalletRow] /\ transactions \in Seq(TransactionRows)
      /\ ledger \in [Wallets -> Seq(LedgerRows)]
      /\ Touched(q) \subseteq Wallets
  BY RequestTypes DEF IInv, TypeOK, TablesOK
<1>3. /\ n \in Nat \ {0} /\ n \notin DOMAIN transactions
      /\ DOMAIN transactions' = DOMAIN transactions \cup {n}
      /\ Len(transactions') = n /\ Len(transactions) \in Nat
      /\ \A i \in DOMAIN transactions : transactions'[i] = transactions[i] /\ i < n /\ i \in Nat
      /\ transactions'[n].type = q.op
  BY <1>1, <1>2 DEF TransactionRow
<1>4. ASSUME NEW w \in Wallets PROVE wallet'[w].status = wallet[w].status
  <2>1. wallet[w] \in WalletRow
    BY <1>2
  <2>2. CASE wallet'[w] = wallet[w]
    BY <2>2
  <2>3. CASE \E b : wallet'[w] = [wallet[w] EXCEPT !.balance = b]
    BY <2>1, <2>3 DEF WalletRow
  <2>4. CASE CommitMoney(s)
    BY <2>2, <2>3, <2>4 DEF CommitMoney, PostMoney
  <2>5. CASE CommitFailure(s)
    BY <2>2, <2>5 DEF CommitFailure, PostFailure
  <2> QED
    BY <2>4, <2>5
<1>5. ASSUME NEW w \in Wallets
      PROVE  /\ \A j \in DOMAIN ledger[w] : j \in DOMAIN ledger'[w] /\ ledger'[w][j] = ledger[w][j]
             /\ CommitMoney(s) /\ w \in Touched(q) =>
                   /\ Len(ledger[w]) + 1 \in DOMAIN ledger'[w]
                   /\ ledger'[w][Len(ledger[w]) + 1] = LedgerRow(q, w, n, wallet[w].balance)
  <2>1. ledger[w] \in Seq(LedgerRows)
    BY <1>2
  <2>2. CASE ledger'[w] = ledger[w] /\ ~(CommitMoney(s) /\ w \in Touched(q))
    BY <2>2
  <2>3. CASE w \in Touched(q) /\ CommitMoney(s)
    <3> DEFINE row == LedgerRow(q, w, n, wallet[w].balance)
    <3>1. ledger'[w] = Append(ledger[w], row) /\ row \in LedgerRows
      BY <1>1, <2>3
    <3> HIDE DEF row
    <3>2. /\ \A j \in DOMAIN ledger[w] : j \in DOMAIN ledger'[w] /\ ledger'[w][j] = ledger[w][j]
          /\ Len(ledger[w]) + 1 \in DOMAIN ledger'[w]
          /\ ledger'[w][Len(ledger[w]) + 1] = row
      BY <2>1, <3>1
    <3> QED
      BY <3>2 DEF row
  <2> QED
    BY <1>1, <2>2, <2>3
<1>6. CASE CommitFailure(s)
  <2>1. audits' = audits /\ q.op \in Audited
    BY <1>6 DEF CommitFailure, PostFailure, RefusalsStand, Refused, IInv, HandlersAreCleared, Cleared
  <2>2. transactions'[n].type # "BALANCE_ADJUSTMENT"
    BY <1>3, <2>1 DEF Audited
  <2> QED
    BY <1>3, <1>4, <1>5, <2>1, <2>2 DEF AuditsKept
<1>7. CASE CommitMoney(s) /\ q.op # "BALANCE_ADJUSTMENT"
  <2>1. audits' = audits
    BY <1>7 DEF CommitMoney, PostMoney
  <2> QED
    BY <1>3, <1>4, <1>5, <1>7, <2>1 DEF AuditsKept
<1>8. CASE CommitMoney(s) /\ q.op = "BALANCE_ADJUSTMENT"
  <2>1. q.wallet \in Touched(q) /\ q.wallet \in Wallets /\ wallet[q.wallet].balance \in 0..MaxBalance
        /\ seen[s][q.wallet] = wallet[q.wallet]
        /\ wallet[q.wallet].balance + Delta(q, q.wallet) \in 0..MaxBalance
    BY <1>2, <1>8, CommitFromCurrentRows
    DEF IInv, HandlersAreCleared, Cleared, CommitMoney, Touched, WalletRow
  <2> DEFINE b == wallet[q.wallet].balance
             row == AuditRow(q.wallet, q.op, n, b, b + Delta(q, q.wallet))
  <2>2. audits' = Append(audits, row)
    BY <1>8, <2>1 DEF CommitMoney, PostMoney
  <2>3. /\ row \in AuditRows /\ row.action = "BALANCE_ADJUSTMENT" /\ row.transaction = n
        /\ row.wallet = q.wallet /\ row.before = b /\ row.after = b + Delta(q, q.wallet)
    BY <1>3, <1>8, <2>1 DEF AuditRow, AuditRows
  <2> DEFINE m == Len(ledger[q.wallet]) + 1
  <2>4. /\ m \in DOMAIN ledger'[q.wallet]
        /\ ledger'[q.wallet][m] = LedgerRow(q, q.wallet, n, b)
    BY <1>5, <1>8, <2>1
  <2>5. LET leg == ledger'[row.wallet][m]
        IN  leg.transaction = n /\ leg.before = row.before /\ leg.after = row.after
    <3>1. /\ LedgerRow(q, q.wallet, n, b).transaction = n
          /\ LedgerRow(q, q.wallet, n, b).before = b
          /\ LedgerRow(q, q.wallet, n, b).after = b + Delta(q, q.wallet)
      BY DEF LedgerRow
    <3> HIDE DEF row, m, b
    <3> QED
      BY <2>3, <2>4, <3>1
  <2> HIDE DEF row, m
  <2>6. AuditAdded(row, n)
    BY <2>2, <2>3, <2>4, <2>5 DEF AuditAdded
  <2> QED
    BY <1>3, <1>4, <1>5, <2>3, <2>6
<1> QED
  BY <1>6, <1>7, <1>8

\* A commit tells of its adjustment and of nothing else.
LEMMA AuditOfCommit ==
    ASSUME IInv, RefusalsStand, AuditsBelong, AuditsTellAll, NEW s \in Requests,
           CommitMoney(s) \/ CommitFailure(s), NEW n, n = Len(transactions) + 1
    PROVE  AuditsBelong' /\ AuditsTellAll'
<1>1. /\ n \in Nat \ {0} /\ n \notin DOMAIN transactions
      /\ DOMAIN transactions' = DOMAIN transactions \cup {n}
      /\ Len(transactions') = n /\ Len(transactions) \in Nat
      /\ \A i \in DOMAIN transactions : transactions'[i] = transactions[i] /\ i < n /\ i \in Nat
      /\ \A w \in Wallets : wallet'[w].status = wallet[w].status
      /\ \A w \in Wallets : \A j \in DOMAIN ledger[w] :
            j \in DOMAIN ledger'[w] /\ ledger'[w][j] = ledger[w][j]
  BY AuditRowOfCommit
<1>2. audits \in Seq(AuditRows)
  BY DEF IInv, TypeOK, TablesOK
<1>3. \A a \in DOMAIN audits : audits[a] \in AuditRows /\ audits[a].wallet \in Wallets
  <2>1. \A a \in DOMAIN audits : audits[a] \in AuditRows
    BY <1>2
  <2> QED
    BY <2>1 DEF AuditRows
<1>4. \A a \in DOMAIN audits : audits[a].transaction # n
  BY <1>1 DEF AuditsBelong
<1>5. ASSUME DOMAIN audits \subseteq DOMAIN audits',
             \A a \in DOMAIN audits : audits'[a] = audits[a],
             \A a \in DOMAIN audits' \ DOMAIN audits :
                audits'[a].transaction = n /\ audits'[a].action = "BALANCE_ADJUSTMENT",
             transactions'[n].type = "BALANCE_ADJUSTMENT" => \E a \in DOMAIN audits' : Tells(a, n)'
      PROVE  AuditsBelong' /\ AuditsTellAll'
  <2>1. AuditsBelong'
    <3>1. \A a \in DOMAIN audits' : \/ audits'[a].transaction = n
                                    \/ audits'[a].transaction \in 0..Len(transactions)
      BY <1>5 DEF AuditsBelong
    <3>2. 0..Len(transactions) \subseteq 0..n /\ n \in 0..n
      BY <1>1
    <3> QED
      BY <1>1, <3>1, <3>2 DEF AuditsBelong
  <2>2. ASSUME NEW w \in Wallets PROVE StatusTold(w)'
    <3>1. Moves(w)' = {i \in DOMAIN audits' : /\ audits'[i].wallet = w
                                              /\ audits'[i].action \in {"FREEZE", "UNFREEZE"}}
      BY DEF Moves
    <3>2. Moves(w)' = Moves(w)
      BY <1>5, <3>1 DEF Moves
    <3>3. Moves(w) # {} => Max(Moves(w)) \in DOMAIN audits
      <4>1. Moves(w) \in SUBSET DOMAIN audits /\ DOMAIN audits = 1..Len(audits) /\ Len(audits) \in Nat
        BY <1>2 DEF Moves
      <4>2. Moves(w) \in SUBSET Nat
        BY <4>1
      <4>3. IsFiniteSet(DOMAIN audits)
        BY <4>1, FS_Interval
      <4>4. IsFiniteSet(Moves(w))
        BY <4>1, <4>3, FS_Subset
      <4> QED
        BY <4>1, <4>2, <4>4, MaxIsIn
    <3>4. StatusTold(w)
      BY AuditsByParts
    <3> QED
      BY <1>1, <1>5, <3>2, <3>3, <3>4 DEF StatusTold
  <2>3. ASSUME NEW i \in DOMAIN transactions, transactions'[i].type = "BALANCE_ADJUSTMENT"
        PROVE  \E a \in DOMAIN audits' : Tells(a, i)'
    <3>1. i # n /\ transactions[i].type = "BALANCE_ADJUSTMENT"
      BY <1>1, <2>3
    <3>2. PICK a \in DOMAIN audits : Tells(a, i)
      BY <3>1, AuditsByParts
    <3>3. \A b \in DOMAIN audits' : audits'[b].transaction = i => b = a
      BY <1>5, <3>1, <3>2 DEF Tells
    <3>4. PICK j \in DOMAIN ledger[audits[a].wallet] :
             LET leg == ledger[audits[a].wallet][j]
             IN  /\ leg.transaction = i
                 /\ leg.before = audits[a].before
                 /\ leg.after = audits[a].after
      BY <3>2 DEF Tells
    <3>5. /\ a \in DOMAIN audits' /\ audits'[a] = audits[a] /\ audits[a].transaction = i
          /\ j \in DOMAIN ledger'[audits[a].wallet]
          /\ ledger'[audits[a].wallet][j] = ledger[audits[a].wallet][j]
      BY <1>1, <1>3, <1>5, <3>2, <3>4 DEF Tells
    <3>6. Tells(a, i)'
      BY <3>3, <3>4, <3>5 DEF Tells
    <3> QED
      BY <3>5, <3>6
  <2>4. \A i \in DOMAIN transactions' :
           transactions'[i].type = "BALANCE_ADJUSTMENT" => \E a \in DOMAIN audits' : Tells(a, i)'
    BY <1>1, <1>5, <2>3
  <2> QED
    BY <2>1, <2>2, <2>4 DEF AuditsTellAll, StatusTold, Moves, Tells
<1>6. CASE AuditsKept(n)
  BY <1>5, <1>6 DEF AuditsKept
<1>7. ASSUME NEW row \in AuditRows, AuditAdded(row, n)
      PROVE  AuditsBelong' /\ AuditsTellAll'
  <2> DEFINE m == Len(audits) + 1
  <2>1. /\ DOMAIN audits' = DOMAIN audits \cup {m}
        /\ \A a \in DOMAIN audits : audits'[a] = audits[a]
        /\ audits'[m] = row
    BY <1>2, <1>7 DEF AuditAdded
  <2>2. ASSUME NEW a, a = m PROVE Tells(a, n)'
    <3>1. \A b \in DOMAIN audits' : audits'[b].transaction = n => b = a
      BY <1>4, <2>1, <2>2
    <3> QED
      BY <1>7, <2>1, <2>2, <3>1 DEF Tells, AuditAdded
  <2> HIDE DEF m
  <2> QED
    BY <1>5, <1>7, <2>1, <2>2 DEF AuditAdded
<1>8. AuditsKept(n) \/ \E row \in AuditRows : AuditAdded(row, n)
  BY AuditRowOfCommit
<1> QED
  BY <1>6, <1>7, <1>8

\* The audit table tells all there is to tell, and keeps doing so.
LEMMA AuditsStep ==
    ASSUME IInv, RefusalsStand, AuditsBelong, AuditsTellAll, [Next]_vars
    PROVE  AuditsBelong' /\ AuditsTellAll'
<1>1. ASSUME NEW s \in Requests, CommitMoney(s) \/ CommitFailure(s)
      PROVE  AuditsBelong' /\ AuditsTellAll'
  BY <1>1, AuditOfCommit
<1>2. ASSUME NEW w \in Wallets, NEW freeze \in BOOLEAN, FreezeOrUnfreeze(w, freeze)
      PROVE  AuditsBelong' /\ AuditsTellAll'
  BY <1>2, AuditOfFreeze
<1>3. CASE UNCHANGED tables
  BY <1>3 DEF tables, AuditsBelong, AuditsTellAll
<1> QED
  BY <1>1, <1>2, <1>3, OnlyCommitsWrite

\* The last freeze or unfreeze row of a wallet names its status, and every
\* adjustment has one audit row, with the balances of its leg.
THEOREM AuditsHold == Spec => []AuditsTellAll
<1>1. Init => AuditsBelong /\ AuditsTellAll
  BY DEF Init, TablesInit, AuditsBelong, AuditsTellAll
<1> QED
  BY InitInvariant, InductiveInvariant, RefusalsInit, RefusalStep, <1>1, AuditsStep, PTL DEF Spec
=============================================================================
