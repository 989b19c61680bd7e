------------------------------ MODULE RulesProofs ------------------------------
(****************************************************************************)
(* Lemmas that the proofs about MoneyService, History and Website share:    *)
(* what requests and answers consist of, what the checks leave over, that   *)
(* each write of the tables keeps their types, and what sums are.           *)
(****************************************************************************)
EXTENDS WalletTables, FiniteSetTheorems, TLAPS

-----------------------------------------------------------------------------
(* Requests, checks and answers.                                            *)

\* What a request names has its type.
LEMMA RequestParts ==
    ASSUME NEW r \in Requests
    PROVE  /\ Req[r] \in Request
           /\ Touched(Req[r]) \subseteq Wallets
           /\ KeyOf(Req[r]) \in UsedKeys
           /\ Fingerprint(Req[r]) \in Nat \X Nat \X Int \X (Currencies \cup {NoCurrency})
           /\ \A w : Delta(Req[r], w) \in Int
           /\ SourceOf(Req[r]) \in Wallets \cup {NoWallet}
           /\ DestinationOf(Req[r]) \in Wallets \cup {NoWallet}
<1>1. Req[r] \in Request
  BY RulesAssumption
<1> QED
  BY <1>1 DEF Request, Touched, UsedKeys, Fingerprint, Delta, SourceOf, DestinationOf

\* A request past its early checks asks for a nonzero amount.
LEMMA AmountOfClearedRequest ==
    ASSUME NEW r \in Requests, EarlyError(Req[r]) = Accepted
    PROVE  Abs(Req[r].amount) \in Nat \ {0}
<1>1. Req[r] \in Request
  BY RequestParts
<1> QED
  BY <1>1 DEF Request, EarlyError, Accepted, Abs

\* Accepted requests know their wallets, can be applied within the bounds of a
\* balance, and customers' wallets are active.
LEMMA AcceptedRequest ==
    ASSUME NEW r \in Requests, NEW view \in [Wallets -> WalletRow], NEW spent, NEW c,
           EarlyError(Req[r]) = Accepted,
           BusinessError(Req[r], view, spent, c) = Accepted,
           ~Overflows(Req[r], view)
    PROVE  /\ {Req[r].wallet, Req[r].peer} \subseteq Wallets
           /\ ~(Req[r].op = "TRANSFER" /\ Req[r].wallet = Req[r].peer)
           /\ \A w \in Touched(Req[r]) :
                /\ view[w].balance + Delta(Req[r], w) \in 0..MaxBalance
                /\ Req[r].op \in Audited => view[w].status = "ACTIVE"
<1> DEFINE q == Req[r]
<1>1. /\ q \in Request
      /\ q.op # "TRANSFER" => q.peer = q.wallet
      /\ MaxBalance \in Nat
  BY RulesAssumption
<1>2. \A w \in Wallets : view[w].balance \in 0..MaxBalance
  BY DEF WalletRow
<1>3. CASE q.op = "BALANCE_ADJUSTMENT"
  <2>1. q.wallet \in Wallets /\ view[q.wallet].balance + q.amount >= 0
    BY <1>1, <1>2, <1>3 DEF BusinessError, AdjustmentError, Accepted, Request
  <2>2. Touched(q) = {q.wallet} /\ Delta(q, q.wallet) = q.amount
    BY <1>1, <1>3, <2>1 DEF Touched, Delta
  <2> QED
    BY <1>1, <1>2, <1>3, <2>1, <2>2 DEF Overflows, Audited, Request
<1>4. CASE q.op # "BALANCE_ADJUSTMENT"
  <2>1. CustomerError(q, view, spent, c) = Accepted
    BY <1>4 DEF BusinessError
  <2>2. /\ ~(q.op = "TRANSFER" /\ q.wallet = q.peer)
        /\ {q.wallet, q.peer} \subseteq Wallets
        /\ ~Inactive(q, view)
        /\ ~Unfunded(q, view)
    BY <2>1 DEF CustomerError, Accepted
  <2>3. q.amount > 0 /\ q.amount \in Int
    BY <1>1, <1>4 DEF EarlyError, Accepted, Request, Ops, Audited
  <2>4. ASSUME NEW w \in Touched(q)
        PROVE  view[w].balance + Delta(q, w) \in 0..MaxBalance
    <3>1. w \in Wallets /\ w \in {q.wallet, q.peer}
      BY DEF Touched
    <3>2. view[w].balance + Delta(q, w) <= MaxBalance
      BY <1>1, <1>2, <2>3, <3>1 DEF Overflows, Delta
    <3>3. view[w].balance + Delta(q, w) >= 0
      BY <1>1, <1>2, <2>2, <2>3, <3>1 DEF Unfunded, Spending, Delta, Request, Ops
    <3> QED
      BY <1>2, <2>3, <3>1, <3>2, <3>3 DEF Delta
  <2> QED
    BY <2>2, <2>4 DEF Inactive
<1> QED
  BY <1>3, <1>4

\* What a client is told has its type.
LEMMA AnswerTypes ==
    /\ \A code \in Codes : ErrorAnswer(code) \in Answers
    /\ \A reference \in Refs, b \in 0..MaxBalance : Receipt(reference, b) \in Answers
    /\ NoRef \in Refs
<1>1. 0 \in 0..MaxBalance /\ 0 \in Days
  BY RulesAssumption DEF Days
<1>2. NoRef \in Refs
  BY <1>1 DEF NoRef, Refs
<1>3. \A code \in Codes : ErrorAnswer(code) \in Answers
  BY <1>1, <1>2 DEF ErrorAnswer, Answers
<1>4. \A reference \in Refs, b \in 0..MaxBalance : Receipt(reference, b) \in Answers
  BY DEF Receipt, Answers, Accepted, Codes
<1> QED
  BY <1>2, <1>3, <1>4

\* The codes a request can be refused with are answers.
LEMMA ErrorTypes ==
    ASSUME NEW r \in Requests, NEW view, NEW spent, NEW c
    PROVE  /\ EarlyError(Req[r]) \in Codes
           /\ BusinessError(Req[r], view, spent, c) \in Codes
<1>1. EarlyError(Req[r]) \in Codes
  BY DEF EarlyError, Accepted, Codes, BusinessCodes
<1>2. AdjustmentError(Req[r], view) \in Codes
  BY DEF AdjustmentError, Accepted, Codes, BusinessCodes
<1>3. CustomerError(Req[r], view, spent, c) \in Codes
  BY DEF CustomerError, Accepted, Codes, BusinessCodes
<1> QED
  BY <1>1, <1>2, <1>3 DEF BusinessError

\* A verdict other than acceptance is one of the business codes.
LEMMA VerdictIsBusiness ==
    ASSUME NEW q, NEW view, NEW spent, NEW c
    PROVE  BusinessError(q, view, spent, c) \in BusinessCodes \cup {Accepted}
BY DEF BusinessError, CustomerError, AdjustmentError, BusinessCodes

\* The rows a commit writes have their types.
LEMMA RowsFit ==
    ASSUME NEW r \in Requests, EarlyError(Req[r]) = Accepted,
           NEW reference \in Refs, NEW day \in Days
    PROVE  /\ \A status \in {"COMPLETED", "FAILED"} :
                TransactionRow(Req[r], reference, status, day) \in TransactionRows
           /\ \A i \in Nat, b \in 0..MaxBalance : \A w :
                b + Delta(Req[r], w) \in 0..MaxBalance =>
                   LedgerRow(Req[r], w, i, b) \in LedgerRows
           /\ \A i \in Nat, a \in Answers :
                [fingerprint |-> Fingerprint(Req[r]), transaction |-> i, answer |-> a] \in IdemRecords
<1>1. Abs(Req[r].amount) \in Nat \ {0} /\ Req[r] \in Request
  BY AmountOfClearedRequest, RequestParts
<1>2. /\ SourceOf(Req[r]) \in Wallets \cup {NoWallet}
      /\ DestinationOf(Req[r]) \in Wallets \cup {NoWallet}
      /\ Fingerprint(Req[r]) \in Nat \X Nat \X Int \X (Currencies \cup {NoCurrency})
  BY RequestParts
<1>3. \A status \in {"COMPLETED", "FAILED"} :
         TransactionRow(Req[r], reference, status, day) \in TransactionRows
  BY <1>1, <1>2 DEF TransactionRow, TransactionRows, Request
<1>4. \A i \in Nat, b \in 0..MaxBalance : \A w :
         b + Delta(Req[r], w) \in 0..MaxBalance => LedgerRow(Req[r], w, i, b) \in LedgerRows
  BY <1>1 DEF LedgerRow, LedgerRows
<1>5. \A i \in Nat, a \in Answers :
         [fingerprint |-> Fingerprint(Req[r]), transaction |-> i, answer |-> a] \in IdemRecords
  BY <1>2 DEF IdemRecords
<1> QED
  BY <1>3, <1>4, <1>5

-----------------------------------------------------------------------------
(* Writes of the tables.                                                    *)

\* The tables have their types at the start.
LEMMA TablesInitTypes == TablesInit => TablesOK
<1>1. NoRecord \in IdemRecords
  <2>1. NoAnswer \in Answers
    BY AnswerTypes DEF NoAnswer, NoCode, Codes
  <2>2. <<0, 0, 0, NoCurrency>> \in Nat \X Nat \X Int \X (Currencies \cup {NoCurrency})
    OBVIOUS
  <2> QED
    BY <2>1, <2>2 DEF NoRecord, IdemRecords
<1>2. /\ <<>> \in Seq(TransactionRows) /\ <<>> \in Seq(LedgerRows) /\ <<>> \in Seq(AuditRows)
  OBVIOUS
<1> QED
  BY <1>1, <1>2, RulesAssumption, TablesAssumption DEF TablesInit, TablesOK, Days

\* A commit of money keeps every balance between zero and MaxBalance.
LEMMA PostMoneyTypes ==
    ASSUME TablesOK, NEW r \in Requests, EarlyError(Req[r]) = Accepted,
           NEW view \in [Wallets -> WalletRow], NEW reference \in Refs,
           Req[r].wallet \in Wallets,
           \A w \in Touched(Req[r]) : view[w].balance + Delta(Req[r], w) \in 0..MaxBalance,
           PostMoney(Req[r], view, reference), UNCHANGED context
    PROVE  TablesOK'
<1> DEFINE q == Req[r]
           i == Len(transactions) + 1
           after(w) == view[w].balance + Delta(q, w)
<1>2. /\ EarlyError(q) = Accepted
      /\ q.wallet \in Wallets /\ q.wallet \in Touched(q)
      /\ \A w \in Touched(q) : after(w) \in 0..MaxBalance
  BY DEF Touched
<1>3. /\ i \in Nat /\ today \in Days
      /\ \A w \in Wallets : view[w].balance \in 0..MaxBalance
      /\ Touched(q) \subseteq Wallets
  BY RequestParts DEF TablesOK, WalletRow
<1>4. Receipt(reference, after(q.wallet)) \in Answers
  BY <1>2, <1>3, AnswerTypes
<1> HIDE DEF i, after
<1>5. wallet' \in [Wallets -> WalletRow]
  BY <1>2, <1>3 DEF PostMoney, TablesOK, WalletRow, after
<1>6. transactions' \in Seq(TransactionRows)
  BY <1>2, <1>3, RowsFit DEF PostMoney, TablesOK
<1>7. ledger' \in [Wallets -> Seq(LedgerRows)]
  <2> SUFFICES ASSUME NEW w \in Touched(q)
               PROVE  Append(ledger[w], LedgerRow(q, w, i, view[w].balance)) \in Seq(LedgerRows)
    BY DEF PostMoney, TablesOK, i
  <2>1. LedgerRow(q, w, i, view[w].balance) \in LedgerRows
    BY <1>2, <1>3, RowsFit DEF after
  <2> QED
    BY <1>3, <2>1 DEF TablesOK
<1>8. idem' \in [UsedKeys -> IdemRecords]
  <2>1. idem' = [idem EXCEPT ![KeyOf(q)] =
                  [fingerprint |-> Fingerprint(q), transaction |-> i,
                   answer |-> Receipt(reference, after(q.wallet))]]
    BY DEF PostMoney, i, after
  <2>2. [fingerprint |-> Fingerprint(q), transaction |-> i,
         answer |-> Receipt(reference, after(q.wallet))] \in IdemRecords
    BY <1>2, <1>3, <1>4, RowsFit
  <2> QED
    BY <2>1, <2>2 DEF TablesOK
<1>9. sequence' \in [Days -> Nat]
  <2>1. sequence' = [sequence EXCEPT ![reference.day] = sequence[reference.day] + 1]
    BY DEF PostMoney
  <2>2. sequence \in [Days -> Nat] /\ sequence[reference.day] + 1 \in Nat
    BY DEF TablesOK, Refs
  <2> QED
    BY <2>1, <2>2
<1>10. audits' \in Seq(AuditRows)
  <2>1. CASE q.op = "BALANCE_ADJUSTMENT"
    <3>1. audits' = Append(audits, AuditRow(q.wallet, q.op, i, view[q.wallet].balance,
                                            after(q.wallet)))
      BY <2>1 DEF PostMoney, i, after
    <3>2. AuditRow(q.wallet, q.op, i, view[q.wallet].balance, after(q.wallet)) \in AuditRows
      BY <1>2, <1>3, <2>1 DEF AuditRow, AuditRows
    <3> QED
      BY <3>1, <3>2 DEF TablesOK
  <2>2. CASE q.op # "BALANCE_ADJUSTMENT"
    BY <2>2 DEF PostMoney, TablesOK
  <2> QED
    BY <2>1, <2>2
<1> QED
  BY <1>5, <1>6, <1>7, <1>8, <1>9, <1>10 DEF TablesOK, context

\* So does a failure record.
LEMMA PostFailureTypes ==
    ASSUME TablesOK, NEW r \in Requests, EarlyError(Req[r]) = Accepted,
           NEW code \in Codes, NEW reference \in Refs,
           PostFailure(Req[r], code, reference), UNCHANGED context
    PROVE  TablesOK'
<1>1. /\ ErrorAnswer(code) \in Answers
      /\ Len(transactions) + 1 \in Nat /\ today \in Days
  BY AnswerTypes DEF TablesOK
<1>2. transactions' \in Seq(TransactionRows)
  BY <1>1, RowsFit DEF PostFailure, TablesOK
<1>3. idem' \in [UsedKeys -> IdemRecords]
  <2>1. [fingerprint |-> Fingerprint(Req[r]), transaction |-> Len(transactions) + 1,
         answer |-> ErrorAnswer(code)] \in IdemRecords
    BY <1>1, RowsFit
  <2> QED
    BY <2>1 DEF PostFailure, TablesOK
<1>4. sequence' \in [Days -> Nat]
  <2>1. sequence' = [sequence EXCEPT ![reference.day] = sequence[reference.day] + 1]
    BY DEF PostFailure
  <2>2. sequence \in [Days -> Nat] /\ sequence[reference.day] + 1 \in Nat
    BY DEF TablesOK, Refs
  <2> QED
    BY <2>1, <2>2
<1> QED
  BY <1>2, <1>3, <1>4 DEF TablesOK, context, PostFailure

\* And a freeze or an unfreeze.
LEMMA FreezeTypes ==
    ASSUME TablesOK, NEW w \in Wallets, NEW freeze \in BOOLEAN, SetFrozen(w, freeze)
    PROVE  TablesOK'
<1>1. wallet' \in [Wallets -> WalletRow]
  BY DEF SetFrozen, TablesOK, WalletRow, Statuses
<1>2. audits' \in Seq(AuditRows)
  <2>1. AuditRow(w, IF freeze THEN "FREEZE" ELSE "UNFREEZE", 0, 0, 0) \in AuditRows
    BY RulesAssumption DEF AuditRow, AuditRows
  <2> QED
    BY <2>1 DEF SetFrozen, TablesOK
<1> QED
  BY <1>1, <1>2 DEF SetFrozen, TablesOK, context
-----------------------------------------------------------------------------
(* Sums.  The totals of the specifications are taken with MapThenSumSet,    *)
(* which the community module defines by recursion on subsets and without   *)
(* theorems.  There is no induction principle to cite either: each proof    *)
(* takes a least counterexample, which the library's well-foundedness       *)
(* theorems provide, and refutes it.                                        *)

\* The sum of f[x] for x in S.
SumOf(f, S) == MapThenSumSet(LAMBDA x : f[x], S)

\* The recursion behind it: some element first, then the others.
Picked(s) == CHOOSE x \in s : TRUE
Others(s) == s \ {Picked(s)}
Step(f, g, s) == IF s = {} THEN 0 ELSE f[Picked(s)] + g[Others(s)]
SumsUp(f, g, S) == g = [s \in SUBSET S |-> Step(f, g, s)]

-----------------------------------------------------------------------------
(* The recursion of sums has exactly one solution.                          *)

\* A nonempty set of subsets of a finite set has a least one.
LEMMA LeastSubset ==
    ASSUME NEW S, IsFiniteSet(S), NEW T, T \subseteq SUBSET S, T # {}
    PROVE  \E t \in T : \A u \in SUBSET t : u # t => u \notin T
<1>1. IsWellFoundedOn(StrictSubsetOrdering(S), SUBSET S)
  BY FS_StrictSubsetOrderingWellFounded, FS_FiniteSubsetsOfFinite
<1>2. PICK t \in T : \A u \in T : ~(<<u, t>> \in StrictSubsetOrdering(S))
  BY <1>1, WFMin
<1> QED
  BY <1>2 DEF StrictSubsetOrdering

\* The sum is the value at S of a solution, if there is one.
LEMMA SumIsChosen ==
    ASSUME NEW f, NEW S
    PROVE  SumOf(f, S) = (CHOOSE g : SumsUp(f, g, S))[S]
BY DEF SumOf, MapThenSumSet, MapThenFoldSet, SumsUp, Step, Picked, Others

\* Something is picked from a nonempty set, and less than the set is left.
LEMMA PickedIsIn ==
    ASSUME NEW s, s # {}
    PROVE  Picked(s) \in s /\ Others(s) \subseteq s /\ Others(s) # s
BY DEF Picked, Others

\* What a solution says of one subset.
LEMMA OneStep ==
    ASSUME NEW f, NEW g, NEW S, SumsUp(f, g, S), NEW s \in SUBSET S
    PROVE  g[s] = IF s = {} THEN 0 ELSE f[Picked(s)] + g[Others(s)]
BY DEF SumsUp, Step

\* Solutions agree where both are defined.
LEMMA SolutionsAgree ==
    ASSUME NEW f, NEW g, NEW h, NEW S, NEW T, IsFiniteSet(S),
           SumsUp(f, g, S), SumsUp(f, h, T), NEW s \in SUBSET S, s \in SUBSET T
    PROVE  g[s] = h[s]
<1> DEFINE Bad == {u \in SUBSET S : u \subseteq T /\ g[u] # h[u]}
<1> SUFFICES ASSUME Bad # {} PROVE FALSE
  OBVIOUS
<1>0. Bad \subseteq SUBSET S
  OBVIOUS
<1> HIDE DEF Bad
<1>1. PICK t \in Bad : \A u \in SUBSET t : u # t => u \notin Bad
  BY <1>0, LeastSubset
<1> USE DEF Bad
<1>2. CASE t = {}
  BY <1>1, <1>2, OneStep
<1>3. CASE t # {}
  <2>1. g[Others(t)] = h[Others(t)]
    BY <1>1, <1>3, PickedIsIn
  <2> QED
    BY <1>1, <1>3, <2>1, OneStep
<1> QED
  BY <1>2, <1>3

\* There is a solution on every finite set.
LEMMA SolutionExists ==
    ASSUME NEW f, NEW S, IsFiniteSet(S)
    PROVE  \E g : SumsUp(f, g, S)
<1> DEFINE Bad == {u \in SUBSET S : ~\E g : SumsUp(f, g, u)}
<1> SUFFICES ASSUME Bad # {} PROVE FALSE
  OBVIOUS
<1>0. Bad \subseteq SUBSET S
  OBVIOUS
<1> HIDE DEF Bad
<1>1. PICK t \in Bad : \A u \in SUBSET t : u # t => u \notin Bad
  BY <1>0, LeastSubset
<1> USE DEF Bad
<1> DEFINE below(u) == CHOOSE g : SumsUp(f, g, u)
           G == [u \in SUBSET t |-> IF u = {} THEN 0
                                    ELSE f[Picked(u)] + below(Others(u))[Others(u)]]
<1>2. ASSUME NEW u \in SUBSET t, u # t PROVE SumsUp(f, below(u), u) /\ IsFiniteSet(u)
  <2>1. \E g : SumsUp(f, g, u)
    BY <1>1, <1>2
  <2> QED
    BY <2>1, FS_Subset
<1> HIDE DEF below
<1>3. ASSUME NEW v \in SUBSET t, v # t PROVE G[v] = below(v)[v]
  <2>1. CASE v = {}
    BY <1>2, <1>3, <2>1, OneStep
  <2>2. CASE v # {}
    <3>1. Others(v) \subseteq v /\ Others(v) # t
      BY <1>3, <2>2, PickedIsIn
    <3>2. below(v)[v] = f[Picked(v)] + below(v)[Others(v)]
      BY <1>2, <1>3, <2>2, OneStep
    <3>3. below(v)[Others(v)] = below(Others(v))[Others(v)]
      BY <1>2, <1>3, <3>1, SolutionsAgree
    <3> QED
      BY <2>2, <3>2, <3>3
  <2> QED
    BY <2>1, <2>2
<1>4. ASSUME NEW u \in SUBSET t PROVE G[u] = Step(f, G, u)
  <2>1. CASE u = {}
    BY <2>1 DEF Step
  <2>2. CASE u # {}
    <3>1. Others(u) \in SUBSET t /\ Others(u) # t
      BY <2>2, PickedIsIn
    <3>2. G[Others(u)] = below(Others(u))[Others(u)]
      BY <1>3, <3>1
    <3> QED
      BY <2>2, <3>2 DEF Step
  <2> QED
    BY <2>1, <2>2
<1>5. G = [u \in SUBSET t |-> G[u]]
  OBVIOUS
<1> HIDE DEF G
<1>6. SumsUp(f, G, t)
  BY <1>4, <1>5 DEF SumsUp
<1> QED
  BY <1>1, <1>6
\* A finite set of naturals has a largest element.
LEMMA MaxIsIn ==
    ASSUME NEW S \in SUBSET Nat, IsFiniteSet(S), S # {}
    PROVE  Max(S) \in S /\ \A y \in S : Max(S) >= y
<1> DEFINE above(i) == {k \in S : k >= i}
           Bad == {above(i) : i \in S}
<1>1. Bad \subseteq SUBSET S /\ Bad # {}
  OBVIOUS
<1> HIDE DEF Bad
<1>2. PICK least \in Bad : \A T \in Bad : T \subseteq least => T = least
  BY <1>1, LeastSubset
<1>3. PICK i \in S : least = above(i)
  BY <1>2 DEF Bad
<1>4. ASSUME NEW y \in S PROVE i >= y
  <2>1. SUFFICES ASSUME y > i PROVE FALSE
    OBVIOUS
  <2>2. above(y) \subseteq above(i) /\ i \notin above(y) /\ i \in above(i)
    <3>1. i \in Nat /\ y \in Nat /\ \A k \in S : k \in Nat
      OBVIOUS
    <3>2. \A k \in S : k >= y => k >= i
      BY <2>1, <3>1
    <3>3. i >= i /\ ~(i >= y)
      BY <2>1, <3>1
    <3> QED
      BY <3>2, <3>3
  <2>3. above(y) \in Bad
    BY DEF Bad
  <2> QED
    BY <1>2, <1>3, <2>2, <2>3
<1> QED
  BY <1>4 DEF Max

-----------------------------------------------------------------------------
(* What sums are.                                                           *)

\* The sum depends on f through its values on S only.
LEMMA SumIsExtensional ==
    ASSUME NEW f, NEW h, NEW S, \A x \in S : f[x] = h[x]
    PROVE  SumOf(f, S) = SumOf(h, S)
<1>1. \A s \in SUBSET S : s # {} => Picked(s) \in S
  BY PickedIsIn
<1>2. \A g : SumsUp(f, g, S) <=> SumsUp(h, g, S)
  BY <1>1 DEF SumsUp, Step
<1>3. (CHOOSE g : SumsUp(f, g, S)) = (CHOOSE g : SumsUp(h, g, S))
  BY <1>2
<1> QED
  BY <1>3, SumIsChosen

\* The recursion, for the sum itself.
LEMMA SumStep ==
    ASSUME NEW f, NEW S, IsFiniteSet(S)
    PROVE  SumOf(f, S) = IF S = {} THEN 0 ELSE f[Picked(S)] + SumOf(f, Others(S))
<1> DEFINE g(s) == CHOOSE h : SumsUp(f, h, s)
<1>1. SumsUp(f, g(S), S)
  BY SolutionExists
<1>2. ASSUME S # {} PROVE g(S)[Others(S)] = g(Others(S))[Others(S)]
  <2>1. Others(S) \subseteq S /\ IsFiniteSet(Others(S))
    BY <1>2, PickedIsIn, FS_Subset
  <2>2. SumsUp(f, g(Others(S)), Others(S))
    BY <2>1, SolutionExists
  <2> QED
    BY <1>1, <2>1, <2>2, SolutionsAgree
<1> QED
  BY <1>1, <1>2, OneStep, SumIsChosen

\* The empty sum is zero.
LEMMA SumOfNothing ==
    ASSUME NEW f
    PROVE  SumOf(f, {}) = 0
BY SumStep, FS_EmptySet

\* A sum is of the kind of its terms.
LEMMA SumIsAmong ==
    ASSUME NEW N \in {Nat, Int}, NEW f, NEW S, IsFiniteSet(S), \A x \in S : f[x] \in N
    PROVE  SumOf(f, S) \in N
<1> DEFINE Bad == {u \in SUBSET S : SumOf(f, u) \notin N}
<1> SUFFICES ASSUME Bad # {} PROVE FALSE
  OBVIOUS
<1>0. Bad \subseteq SUBSET S
  OBVIOUS
<1> HIDE DEF Bad
<1>1. PICK t \in Bad : \A u \in SUBSET t : u # t => u \notin Bad
  BY <1>0, LeastSubset
<1> USE DEF Bad
<1>2. IsFiniteSet(t)
  BY FS_Subset
<1>3. SumOf(f, t) \notin N
  OBVIOUS
<1>4. CASE t # {}
  <2>1. SumOf(f, Others(t)) \in N /\ f[Picked(t)] \in N
    BY <1>1, <1>4, PickedIsIn
  <2> QED
    BY <1>2, <1>3, <1>4, <2>1, SumStep
<1> HIDE DEF Bad
<1>5. CASE t = {}
  BY <1>3, <1>5, SumOfNothing
<1> QED
  BY <1>4, <1>5

\* Sums of naturals are naturals.
LEMMA SumType ==
    ASSUME NEW f, NEW S, IsFiniteSet(S), \A x \in S : f[x] \in Nat
    PROVE  SumOf(f, S) \in Nat
BY SumIsAmong

\* Sums of integers are integers.
LEMMA SumIsInteger ==
    ASSUME NEW f, NEW S, IsFiniteSet(S), \A x \in S : f[x] \in Int
    PROVE  SumOf(f, S) \in Int
BY SumIsAmong

\* Any element may be taken out first.
LEMMA SumTakesOut ==
    ASSUME NEW f, NEW S, IsFiniteSet(S), \A x \in S : f[x] \in Int, NEW a \in S
    PROVE  SumOf(f, S) = f[a] + SumOf(f, S \ {a})
<1> DEFINE Bad == {u \in SUBSET S : \E x \in u : SumOf(f, u) # f[x] + SumOf(f, u \ {x})}
<1> SUFFICES ASSUME Bad # {} PROVE FALSE
  OBVIOUS
<1>0. Bad \subseteq SUBSET S
  OBVIOUS
<1> HIDE DEF Bad
<1>1. PICK t \in Bad : \A u \in SUBSET t : u # t => u \notin Bad
  BY <1>0, LeastSubset
<1> USE DEF Bad
<1>2. PICK x \in t : SumOf(f, t) # f[x] + SumOf(f, t \ {x})
  OBVIOUS
<1> DEFINE y == Picked(t)
<1>3. y \in t /\ Others(t) = t \ {y} /\ IsFiniteSet(t)
  BY <1>2, PickedIsIn, FS_Subset DEF Others
<1>4. SumOf(f, t) = f[y] + SumOf(f, t \ {y})
  BY <1>2, <1>3, SumStep
<1>5. x # y
  BY <1>2, <1>4
<1> HIDE DEF y
<1>6. SumOf(f, t \ {y}) = f[x] + SumOf(f, (t \ {y}) \ {x})
  BY <1>1, <1>3, <1>5
<1>7. SumOf(f, t \ {x}) = f[y] + SumOf(f, (t \ {x}) \ {y})
  BY <1>1, <1>2, <1>3, <1>5
<1>8. (t \ {x}) \ {y} = (t \ {y}) \ {x}
  OBVIOUS
<1>9. SumOf(f, (t \ {y}) \ {x}) \in Int /\ f[x] \in Int /\ f[y] \in Int
  <2>1. IsFiniteSet((t \ {y}) \ {x})
    BY <1>3, FS_Subset
  <2> QED
    BY <1>2, <1>3, <2>1, SumIsInteger
<1>10. f[y] + (f[x] + SumOf(f, (t \ {y}) \ {x})) = f[x] + (f[y] + SumOf(f, (t \ {y}) \ {x}))
  BY <1>9
<1> QED
  BY <1>2, <1>4, <1>6, <1>7, <1>8, <1>10

\* If one element counts for more or less, so does the sum.
LEMMA SumChangesWithOne ==
    ASSUME NEW f, NEW h, NEW S, IsFiniteSet(S), \A x \in S : f[x] \in Int /\ h[x] \in Int,
           NEW a \in S, \A x \in S \ {a} : h[x] = f[x]
    PROVE  SumOf(h, S) = SumOf(f, S) + (h[a] - f[a])
<1>1. SumOf(f, S) = f[a] + SumOf(f, S \ {a}) /\ SumOf(h, S) = h[a] + SumOf(h, S \ {a})
  BY SumTakesOut
<1>2. SumOf(h, S \ {a}) = SumOf(f, S \ {a})
  BY SumIsExtensional
<1>3. SumOf(f, S \ {a}) \in Int
  <2>1. IsFiniteSet(S \ {a})
    BY FS_Subset
  <2> QED
    BY <2>1, SumIsInteger
<1> QED
  BY <1>1, <1>2, <1>3

\* A part sums up to no more than the whole.
LEMMA SumIsMonotone ==
    ASSUME NEW f, NEW S, IsFiniteSet(S), \A x \in S : f[x] \in Nat, NEW T \in SUBSET S
    PROVE  SumOf(f, T) <= SumOf(f, S)
<1> DEFINE Bad == {u \in SUBSET S : T \subseteq u /\ ~(SumOf(f, T) <= SumOf(f, u))}
<1> SUFFICES ASSUME Bad # {} PROVE FALSE
  OBVIOUS
<1>0. Bad \subseteq SUBSET S
  OBVIOUS
<1> HIDE DEF Bad
<1>1. PICK t \in Bad : \A u \in SUBSET t : u # t => u \notin Bad
  BY <1>0, LeastSubset
<1> USE DEF Bad
<1>2. IsFiniteSet(t) /\ IsFiniteSet(T)
  BY FS_Subset
<1>3. SumOf(f, T) \in Nat
  BY <1>2, SumType
<1>4. PICK a \in t : a \notin T
  BY <1>3
<1>5. SumOf(f, T) <= SumOf(f, t \ {a}) /\ SumOf(f, t \ {a}) \in Nat
  <2>1. t \ {a} \in SUBSET t /\ t \ {a} # t /\ T \subseteq t \ {a} /\ IsFiniteSet(t \ {a})
    BY <1>2, <1>4, FS_Subset
  <2> QED
    BY <1>1, <2>1, SumType
<1>6. SumOf(f, t) = f[a] + SumOf(f, t \ {a}) /\ f[a] \in Nat
  BY <1>2, SumTakesOut
<1> QED
  BY <1>3, <1>5, <1>6
=============================================================================
